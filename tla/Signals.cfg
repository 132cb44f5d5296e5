SPECIFICATION Spec
CONSTANTS
  p1 = p1
  p2 = p2
  p3 = p3
  p4 = p4
  Procs = {p1, p2, p3, p4}
  Slots = {s1}
  NONE = NONE
  Calls <- TwoWaiters
  Euid <- Root
  Egid <- Root
  Ids = {0}
  Owners = {}
  Flags = {}
  Nums = {}
  Interrupted = {}
  IntMax = 1
  FreePtr <- KernelAddress
  MaxOpens = 2
INVARIANTS
  TypeOK
  NoMissedWakeup
  QueueDiscipline
  NoSpuriousReturn
  NoLockCarried
SYMMETRY Waiters
