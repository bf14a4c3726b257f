SPECIFICATION FairSpec
CONSTANTS
  Readers = {r1, r2}
  Writers = {w1}
  Bytes = {a, b}
  Size = 3
  NULL = NULL
INVARIANT PipeSafe
PROPERTIES ImplementsStream ReadersServed
