SPECIFICATION FairSpec
CONSTANTS
  Blocks = {b1, b2, b3, b4, b5}
  NULL = NULL
  loopback = 0
INVARIANT IInv
PROPERTIES LoadEnds UnloadEnds
\* register_netdev(NULL) oopses with the RTNL held: the system stops there.
CHECK_DEADLOCK FALSE
