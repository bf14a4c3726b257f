SPECIFICATION Spec
CONSTANTS
  Blocks = {b1, b2, b3, b4, b5, b6}
  NULL = NULL
  loopback = 1
SYMMETRY Symmetry
INVARIANTS NoMemoryFault NoLeak MacMatches
PROPERTY ImplementsService
\* register_netdev(NULL) oopses with the RTNL held: the system stops there.
CHECK_DEADLOCK FALSE
