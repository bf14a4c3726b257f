SPECIFICATION Spec
CONSTANTS
  loopback = 0
  Short = {}
  Small = {s1, s2, s3, s4}
  Big = {}
  NULL = NULL
  MaxOpens = 1
  MaxIrqs = 1
SYMMETRY Symmetry
INVARIANT WaitsOnlyIfFull
\* The interfaces may all be closed for good, or the kernel have crashed.
CHECK_DEADLOCK FALSE
