SPECIFICATION Spec
CONSTANTS
  p1 = p1
  p2 = p2
  p3 = p3
  p4 = p4
  Procs = {p1, p2, p3}
  Slots = {s1, s2}
  NONE = NONE
  Calls <- OneOfEach
  Euid <- Friends
  Egid <- Friends
  Ids <- SomeIds
  Owners <- NewOwner
  Flags <- NewMode
  Nums <- AnyNums
  Interrupted = {}
  IntMax = 2
  FreePtr <- KernelAddress
  MaxOpens = 2
INVARIANTS
  IdsIncreasing
  InfoSnapshot
  SectionsExclude
PROPERTIES
  ImplementsTable
