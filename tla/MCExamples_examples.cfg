SPECIFICATION Spec
CONSTANTS
  Procs = {p1, p2}
  Bytes = {a}
  Junk = Junk
  Quanta = {2}
  Qsets = {1, 2}
  Orders = {0, 1}
  PageQsets = {1}
  MaxPos = 3
  SlabQuanta = {1, 2}
  SlabMaxPos = 2
  BareDevs = {b1, b2}
  PipeDevs = {q1, q2}
  AccessDevs = {x1, x2}
  Readers = {r1, r2}
  Lines = 3
  Times = 2
  MaxIrqs = 1
  Trials = {3, 5}
  MaxTries = 2
  Users = {u1, u2}
  Sectors = 2
  Files = {f1, f2}
  MaxUrbs = 1
  TtyProcs = {t1, t2, t3}
  MaxPorts = 2
  MaxOpens = 3
INVARIANTS
  LoadSafe PagesSafe SlabSafe RingSafe ShortSafe DiskSafe UsbSafe TtySafe VgaSafe
PROPERTY ImplementsFile
