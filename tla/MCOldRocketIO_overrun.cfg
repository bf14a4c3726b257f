SPECIFICATION Spec
CONSTANTS
  loopback = 0
  Short = {}
  Small = {s1, s2, s3, s4, s5}
  Big = {}
  NULL = NULL
  MaxOpens = 1
  MaxIrqs = 2
SYMMETRY Symmetry
INVARIANT DescriptorInRange
\* The interfaces may all be closed for good, or the kernel have crashed.
CHECK_DEADLOCK FALSE
