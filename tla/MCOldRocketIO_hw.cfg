SPECIFICATION FairSpec
CONSTANTS
  loopback = 0
  Short = {}
  Small = {s1, s2, s3, s4}
  Big = {}
  NULL = NULL
  MaxOpens = 2
  MaxIrqs = 2
INVARIANTS NoDoubleFree PendingAreOwned FullIsFull
PROPERTY HandlersReturn
\* The interfaces may all be closed for good, or the kernel have crashed.
CHECK_DEADLOCK FALSE
