SPECIFICATION Spec
CONSTANTS
  Blocks = {b1, b2, b3, b4, b5, b6}
  NULL = NULL
  loopback = 1
INVARIANT UpHasRing
CHECK_DEADLOCK FALSE
