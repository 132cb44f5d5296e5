SPECIFICATION FairSpec
CONSTANTS
  Procs = {p1, p2, p3}
  HEAD = HEAD
  NONE = NONE
INVARIANTS
  TypeOK
  DirectionsAgree
  StackSafe
PROPERTIES
  ImplementsList
  CallsEnd
