SPECIFICATION FairSpec
CONSTANTS
  p1 = p1
  p2 = p2
  p3 = p3
  p4 = p4
  Procs = {p1, p2, p3}
  Slots = {s1}
  NONE = NONE
  Calls <- Reopened
  Euid <- Root
  Egid <- Root
  Ids = {0}
  Owners = {}
  Flags = {}
  Nums = {}
  Interrupted = {p1}
  IntMax = 1
  FreePtr <- KernelAddress
  MaxOpens = 2
INVARIANTS
  NoMissedWakeup
  QueueDiscipline
PROPERTIES
  SignalReaches
  UnixSignalEndsWait
