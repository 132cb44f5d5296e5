SPECIFICATION FairSpec
CONSTANTS
  p1 = p1
  p2 = p2
  p3 = p3
  Procs = {p1, p2, p3}
  NONE = NONE
  BIAS = 3
  HALF = 6
  TICKETS = 4
  Scripts <- CallScripts
  MaxTurns = 2
INVARIANTS
  TypeOK
  CounterExact
PROPERTIES
  ImplementsLocks
  QueueServed
  StarvedOnlyByOthers
