SPECIFICATION Spec
CONSTANTS
  p1 = p1
  p2 = p2
  p3 = p3
  u1 = u1
  u2 = u2
  u3 = u3
  Procs = {p1, p2, p3}
  Users = {u1, u2, u3}
  Uid <- MCUid
  Euid <- MCEuid
  Capable = {p3}
  PoolSizes = {0, 2}
  Writers = {w1, w2}
  Size = 3
  MaxCount = 2
INVARIANTS AccessSafe PacketsSafe PrintSafe
PROPERTIES WaiterWakes PoolRefills ImplementsPrinter WriterServed
