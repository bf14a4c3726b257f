SPECIFICATION FairSpec
CONSTANTS
  loopback = 1
  Short = {x1}
  Small = {s1, s2}
  Big = {l1}
  NULL = NULL
  MaxOpens = 4
  MaxIrqs = 0
INVARIANTS TypeOK CompletedIsFreed
PROPERTIES ImplementsChannel HandlersReturn
\* The interfaces may all be closed for good, or the kernel have crashed.
CHECK_DEADLOCK FALSE
