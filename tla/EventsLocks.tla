---------------------------- MODULE EventsLocks -----------------------------
(***************************************************************************)
(* Who holds which lock can be read off where the processes are: LockInv,  *)
(* an inductive invariant of Events for every number of processes and      *)
(* events. From it, the write sections exclude each other and doeventinfo's *)
(* walk, and no lock leaves a system call.                                 *)
(***************************************************************************)
EXTENDS EventsTypes

\* Who holds which lock can be read off where the processes are.
LockInv ==
  /\ \A p \in Procs : p \in readers <=> pc[p] = "info_walk"
  /\ \A p \in Procs : writer = p <=> WriteSection(p)
  /\ \A p \in Procs, s \in Slots :
       qlock[s] = p <=> pc[p] = "wake" /\ ptr[p] = s
  /\ writer # NONE => readers = {}

-----------------------------------------------------------------------------
(* Steps that touch no lock *)

\* A step of p that takes or drops no lock and crosses no section's border
Calm(p) ==
  /\ UNCHANGED <<readers, writer, qlock>>
  /\ \A q \in Procs \ {p} :
       pc'[q] = pc[q] /\ ptr'[q] = ptr[q] /\ call'[q] = call[q]
  /\ WriteSection(p)' <=> WriteSection(p)
  /\ pc'[p] = "info_walk" <=> pc[p] = "info_walk"
  /\ pc'[p] = "wake" <=> pc[p] = "wake"
  /\ pc[p] = "wake" => ptr'[p] = ptr[p]

LEMMA CalmLocks ==
  ASSUME TypeInv, LockInv, NEW p \in Procs, Calm(p)
  PROVE  LockInv'
  BY DEF LockInv, Calm, WriteSection

\* The steps that touch no lock.  The sections that are one step (doeventopen_add
\* and the lookups) take and drop the lock within it.
LEMMA CalmSteps ==
  ASSUME TypeInv, NEW p \in Procs,
         \/ doeventopen_kmalloc(p) \/ doeventopen_add(p)
         \/ doeventopen_return(p) \/ doeventclose_lookup(p)
         \/ doeventsig_lookup(p) \/ check_active(p) \/ count_waiter(p)
         \/ wake_one(p) \/ doeventclose_free(p) \/ doeventwait_lookup(p)
         \/ doeventwait_reset(p) \/ doeventwait_first(p)
         \/ doeventwait_prepare(p) \/ doeventwait_check(p)
         \/ doeventwait_schedule(p) \/ doeventwait_resume(p)
         \/ doeventwait_finish(p) \/ doeventwait_del(p)
         \/ doeventchown_lookup(p) \/ doeventchmod_lookup(p)
         \/ doeventinfo_args(p) \/ doeventinfo_copy(p)
         \/ doeventstat_lookup(p) \/ doeventstat_copy(p) \/ Return(p)
         \/ UnixSignal(p) \/ stack_reused(p) \/ slab_reused(p)
  PROVE  Calm(p)
<1>1. CASE doeventopen_kmalloc(p)
  BY <1>1 DEF doeventopen_kmalloc, Enter, Goto, Returns, Calm, WriteSection,
     TypeInv, TypeOK, LocalType, wqVars, lockVars, localVars
<1>2. CASE doeventopen_add(p)
  BY <1>2 DEF doeventopen_add, Goto, Corrupts, Calm, WriteSection, TypeInv,
     TypeOK, LocalType, wqVars, lockVars, localVars
<1>3. CASE doeventopen_return(p)
  BY <1>3 DEF doeventopen_return, Returns, Calm, WriteSection, TypeInv,
     TypeOK, LocalType, wqVars, lockVars, localVars
<1>4. CASE doeventclose_lookup(p)
  BY <1>4 DEF doeventclose_lookup, LookupValidated, Enter, GoesOn, Goto,
     Returns, Calm, WriteSection, TypeInv, TypeOK, LocalType, wqVars,
     lockVars, localVars
<1>5. CASE doeventsig_lookup(p)
  BY <1>5 DEF doeventsig_lookup, LookupValidated, Enter, GoesOn, Goto,
     Returns, Calm, WriteSection, TypeInv, TypeOK, LocalType, wqVars,
     lockVars, localVars
<1>6. CASE check_active(p)
  BY <1>6 DEF check_active, Goto, Returns, Calm, WriteSection, TypeInv,
     TypeOK, LocalType, wqVars, lockVars, localVars
<1>7. CASE count_waiter(p)
  BY <1>7 DEF count_waiter, Goto, Calm, WriteSection, TypeInv, TypeOK,
     LocalType, wqVars, lockVars, localVars
<1>8. CASE wake_one(p)
  BY <1>8 DEF wake_one, wake_up_next, Calm, WriteSection, TypeInv, TypeOK,
     LocalType, wqVars, lockVars, localVars
<1>9. CASE doeventclose_free(p)
  BY <1>9 DEF doeventclose_free, Returns, Corrupts, Calm, WriteSection,
     TypeInv, TypeOK, LocalType, wqVars, lockVars, localVars
<1>10. CASE doeventwait_lookup(p)
  BY <1>10 DEF doeventwait_lookup, LookupValidated, Enter, GoesOn, Goto,
     Returns, Calm, WriteSection, TypeInv, TypeOK, LocalType, wqVars,
     lockVars, localVars
<1>11. CASE doeventwait_reset(p)
  BY <1>11 DEF doeventwait_reset, Goto, Calm, WriteSection, TypeInv, TypeOK,
     LocalType, wqVars, lockVars, localVars
<1>12. CASE doeventwait_first(p)
  BY <1>12 DEF doeventwait_first, Goto, Returns, Calm, WriteSection,
     TypeInv, TypeOK, LocalType, wqVars, lockVars, localVars
<1>13. CASE doeventwait_prepare(p)
  BY <1>13 DEF doeventwait_prepare, Goto, prepare_to_wait, Calm,
     WriteSection, TypeInv, TypeOK, LocalType, wqVars, lockVars, localVars
<1>14. CASE doeventwait_check(p)
  BY <1>14 DEF doeventwait_check, Goto, Calm, WriteSection, TypeInv, TypeOK,
     LocalType, wqVars, lockVars, localVars
<1>15. CASE doeventwait_schedule(p)
  BY <1>15 DEF doeventwait_schedule, Goto, schedule, Calm, WriteSection,
     TypeInv, TypeOK, LocalType, wqVars, lockVars, localVars
<1>16. CASE doeventwait_resume(p)
  BY <1>16 DEF doeventwait_resume, Goto, Calm, WriteSection, TypeInv,
     TypeOK, LocalType, wqVars, lockVars, localVars
<1>17. CASE doeventwait_finish(p)
  BY <1>17 DEF doeventwait_finish, Goto, Returns, finish_wait_state, Calm,
     WriteSection, TypeInv, TypeOK, LocalType, wqVars, lockVars, localVars
<1>18. CASE doeventwait_del(p)
  BY <1>18 DEF doeventwait_del, Returns, finish_wait_del, Calm,
     WriteSection, TypeInv, TypeOK, LocalType, wqVars, lockVars, localVars
<1>19. CASE doeventchown_lookup(p)
  BY <1>19 DEF doeventchown_lookup, LookupOwned, Enter, GoesOn, Goto,
     Returns, Corrupts, Calm, WriteSection, TypeInv, TypeOK, LocalType,
     wqVars, lockVars, localVars
<1>20. CASE doeventchmod_lookup(p)
  BY <1>20 DEF doeventchmod_lookup, LookupOwned, Enter, GoesOn, Goto,
     Returns, Corrupts, Calm, WriteSection, TypeInv, TypeOK, LocalType,
     wqVars, lockVars, localVars
<1>21. CASE doeventinfo_args(p)
  BY <1>21 DEF doeventinfo_args, Enter, Goto, Returns, Calm, WriteSection,
     TypeInv, TypeOK, LocalType, wqVars, lockVars, localVars
<1>22. CASE doeventinfo_copy(p)
  BY <1>22 DEF doeventinfo_copy, Returns, Calm, WriteSection, TypeInv,
     TypeOK, LocalType, wqVars, lockVars, localVars
<1>23. CASE doeventstat_lookup(p)
  BY <1>23 DEF doeventstat_lookup, Enter, Goto, Returns, Calm, WriteSection,
     TypeInv, TypeOK, LocalType, wqVars, lockVars, localVars
<1>24. CASE doeventstat_copy(p)
  BY <1>24 DEF doeventstat_copy, Returns, Calm, WriteSection, TypeInv,
     TypeOK, LocalType, wqVars, lockVars, localVars
<1>25. CASE Return(p)
  BY <1>25 DEF Return, Goto, deliver_signal, Calm, WriteSection, TypeInv,
     TypeOK, LocalType, wqVars, lockVars, localVars
<1>26. CASE UnixSignal(p)
  BY <1>26 DEF UnixSignal, signal_wake_up, InWait, Calm, WriteSection,
     TypeInv, TypeOK, LocalType, wqVars, lockVars, localVars
<1>27. CASE stack_reused(p)
  BY <1>27 DEF stack_reused, Corrupts, Calm, WriteSection, TypeInv, TypeOK,
     LocalType, wqVars, lockVars, localVars
<1>28. CASE slab_reused(p)
  BY <1>28 DEF slab_reused, Corrupts, Calm, WriteSection, TypeInv, TypeOK,
     LocalType, wqVars, lockVars, localVars
<1> QED
  BY <1>1, <1>2, <1>3, <1>4, <1>5, <1>6, <1>7, <1>8, <1>9, <1>10, <1>11, <1>12,
     <1>13, <1>14, <1>15, <1>16, <1>17, <1>18, <1>19, <1>20, <1>21, <1>22,
     <1>23, <1>24, <1>25, <1>26, <1>27, <1>28

-----------------------------------------------------------------------------
(* Steps that take or drop one *)

\* What a step of p has to show: that it keeps the others as they are, and
\* that what it holds fits where it has got to.
Others(p) ==
  \A q \in Procs \ {p} :
    /\ pc'[q] = pc[q] /\ ptr'[q] = ptr[q] /\ call'[q] = call[q]
    /\ q \in readers' <=> q \in readers
    /\ writer' = q <=> writer = q
    /\ \A s \in Slots : qlock'[s] = q <=> qlock[s] = q

LEMMA LockMoves ==
  ASSUME TypeInv, LockInv, NEW p \in Procs, Others(p),
         p \in readers' <=> pc'[p] = "info_walk",
         writer' = p <=> WriteSection(p)',
         \A s \in Slots : qlock'[s] = p <=> pc'[p] = "wake" /\ ptr'[p] = s,
         writer' # NONE => readers' = {}
  PROVE  LockInv'
  BY DEF LockInv, Others, WriteSection

LEMMA Lock_take_write_lock ==
  ASSUME TypeInv, LockInv, NEW p \in Procs, take_write_lock(p)
  PROVE  LockInv'
<1>1. Others(p)
  BY NodesAssumption DEF take_write_lock, Goto, TypeInv, TypeOK, LocalType,
     LockType, WQTypeOK, wqVars, lockVars, localVars, Others, LockInv,
     WriteSection, CanRead, CanWrite
<1>2. p \in readers' <=> pc'[p] = "info_walk"
  BY DEF take_write_lock, Goto, TypeInv, TypeOK, LocalType, LockType,
     WQTypeOK, wqVars, lockVars, localVars, LockInv
<1>3. writer' = p <=> WriteSection(p)'
  BY NodesAssumption DEF take_write_lock, Goto, TypeInv, TypeOK, LocalType,
     LockType, WQTypeOK, wqVars, lockVars, localVars, LockInv, WriteSection,
     CanWrite
<1>4. \A s \in Slots : qlock'[s] = p <=> pc'[p] = "wake" /\ ptr'[p] = s
  BY NodesAssumption DEF take_write_lock, Goto, TypeInv, TypeOK, LocalType,
     LockType, WQTypeOK, wqVars, lockVars, localVars, LockInv
<1>5. writer' # NONE => readers' = {}
  BY DEF take_write_lock, Goto, TypeInv, TypeOK, LocalType, LockType,
     WQTypeOK, wqVars, lockVars, localVars, LockInv, CanWrite, CanRead
<1> QED
  BY <1>1, <1>2, <1>3, <1>4, <1>5, LockMoves

LEMMA Lock_set_condition ==
  ASSUME TypeInv, LockInv, NEW p \in Procs, set_condition(p)
  PROVE  LockInv'
<1>1. Others(p)
  BY NodesAssumption DEF set_condition, Goto, TypeInv, TypeOK, LocalType,
     LockType, WQTypeOK, wqVars, lockVars, localVars, Others, LockInv,
     WriteSection, CanRead, CanWrite
<1>2. p \in readers' <=> pc'[p] = "info_walk"
  BY DEF set_condition, Goto, TypeInv, TypeOK, LocalType, LockType,
     WQTypeOK, wqVars, lockVars, localVars, LockInv
<1>3. writer' = p <=> WriteSection(p)'
  BY NodesAssumption DEF set_condition, Goto, TypeInv, TypeOK, LocalType,
     LockType, WQTypeOK, wqVars, lockVars, localVars, LockInv, WriteSection,
     CanWrite
<1>4. \A s \in Slots : qlock'[s] = p <=> pc'[p] = "wake" /\ ptr'[p] = s
  BY NodesAssumption DEF set_condition, Goto, TypeInv, TypeOK, LocalType,
     LockType, WQTypeOK, wqVars, lockVars, localVars, LockInv
<1>5. writer' # NONE => readers' = {}
  BY DEF set_condition, Goto, TypeInv, TypeOK, LocalType, LockType,
     WQTypeOK, wqVars, lockVars, localVars, LockInv, CanWrite, CanRead
<1> QED
  BY <1>1, <1>2, <1>3, <1>4, <1>5, LockMoves

LEMMA Lock_wake_begin ==
  ASSUME TypeInv, LockInv, NEW p \in Procs, wake_begin(p)
  PROVE  LockInv'
<1>1. Others(p)
  BY NodesAssumption DEF wake_begin, Goto, wake_up_lock, TypeInv, TypeOK,
     LocalType, LockType, WQTypeOK, wqVars, lockVars, localVars, Others,
     LockInv, WriteSection, CanRead, CanWrite
<1>2. p \in readers' <=> pc'[p] = "info_walk"
  BY DEF wake_begin, Goto, wake_up_lock, TypeInv, TypeOK, LockType, wqVars,
     lockVars, localVars, LockInv
<1>3. writer' = p <=> WriteSection(p)'
  <2>1. pc[p] = "wake_lock" /\ pc'[p] = "wake"
    BY DEF wake_begin, Goto, TypeInv, TypeOK
  <2>2. writer' = writer /\ call' = call
    BY DEF wake_begin, Goto, lockVars, localVars
  <2> QED
    BY <2>1, <2>2 DEF LockInv, WriteSection
<1>4. \A s \in Slots : qlock'[s] = p <=> pc'[p] = "wake" /\ ptr'[p] = s
  BY NodesAssumption DEF wake_begin, Goto, wake_up_lock, TypeInv, TypeOK,
     LocalType, WQTypeOK, PtrOK, HoldsEvent, wqVars, lockVars, localVars,
     LockInv
<1>5. writer' # NONE => readers' = {}
  BY DEF wake_begin, Goto, wake_up_lock, TypeInv, TypeOK, LockType, wqVars,
     lockVars, localVars, LockInv, CanWrite, CanRead
<1> QED
  BY <1>1, <1>2, <1>3, <1>4, <1>5, LockMoves

LEMMA Lock_wake_end ==
  ASSUME TypeInv, LockInv, NEW p \in Procs, wake_end(p)
  PROVE  LockInv'
<1>1. Others(p)
  BY NodesAssumption DEF wake_end, Goto, Returns, wake_up_unlock, TypeInv,
     TypeOK, LocalType, LockType, WQTypeOK, wqVars, lockVars, localVars,
     Others, LockInv, WriteSection, CanRead, CanWrite
<1>2. p \in readers' <=> pc'[p] = "info_walk"
  BY DEF wake_end, Goto, Returns, wake_up_unlock, TypeInv, TypeOK,
     LocalType, LockType, WQTypeOK, wqVars, lockVars, localVars, LockInv
<1>3. writer' = p <=> WriteSection(p)'
  BY NodesAssumption DEF wake_end, Goto, Returns, wake_up_unlock, TypeInv,
     TypeOK, LocalType, LockType, WQTypeOK, wqVars, lockVars, localVars,
     LockInv, WriteSection, CanWrite
<1>4. \A s \in Slots : qlock'[s] = p <=> pc'[p] = "wake" /\ ptr'[p] = s
  BY NodesAssumption DEF wake_end, Goto, Returns, wake_up_unlock, TypeInv,
     TypeOK, LocalType, LockType, WQTypeOK, wqVars, lockVars, localVars,
     LockInv
<1>5. writer' # NONE => readers' = {}
  BY DEF wake_end, Goto, Returns, wake_up_unlock, TypeInv, TypeOK,
     LocalType, LockType, WQTypeOK, wqVars, lockVars, localVars, LockInv,
     CanWrite, CanRead
<1> QED
  BY <1>1, <1>2, <1>3, <1>4, <1>5, LockMoves

LEMMA Lock_doeventclose_del ==
  ASSUME TypeInv, LockInv, NEW p \in Procs, doeventclose_del(p)
  PROVE  LockInv'
<1>1. Others(p)
  BY NodesAssumption DEF doeventclose_del, Goto, TypeInv, TypeOK, LocalType,
     LockType, WQTypeOK, wqVars, lockVars, localVars, Others, LockInv,
     WriteSection, CanRead, CanWrite
<1>2. p \in readers' <=> pc'[p] = "info_walk"
  BY DEF doeventclose_del, Goto, TypeInv, TypeOK, LockType, wqVars,
     lockVars, localVars, LockInv
<1>3. writer' = p <=> WriteSection(p)'
  BY NodesAssumption DEF doeventclose_del, Goto, TypeInv, TypeOK, LocalType,
     LockType, wqVars, lockVars, localVars, LockInv, WriteSection
<1>4. \A s \in Slots : qlock'[s] = p <=> pc'[p] = "wake" /\ ptr'[p] = s
  BY NodesAssumption DEF doeventclose_del, Goto, TypeInv, TypeOK, LocalType,
     WQTypeOK, PtrOK, HoldsEvent, wqVars, lockVars, localVars, LockInv
<1>5. writer' # NONE => readers' = {}
  BY DEF doeventclose_del, Goto, TypeInv, TypeOK, LockType, wqVars,
     lockVars, localVars, LockInv, CanWrite, CanRead
<1> QED
  BY <1>1, <1>2, <1>3, <1>4, <1>5, LockMoves

LEMMA Lock_set_first ==
  ASSUME TypeInv, LockInv, NEW p \in Procs, set_first(p)
  PROVE  LockInv'
<1>1. Others(p)
  BY NodesAssumption DEF set_first, Goto, Corrupts, TypeInv, TypeOK,
     LocalType, LockType, WQTypeOK, wqVars, lockVars, localVars, Others,
     LockInv, WriteSection, CanRead, CanWrite
<1>2. p \in readers' <=> pc'[p] = "info_walk"
  BY DEF set_first, Goto, Corrupts, TypeInv, TypeOK, LocalType, LockType,
     WQTypeOK, wqVars, lockVars, localVars, LockInv
<1>3. writer' = p <=> WriteSection(p)'
  BY NodesAssumption DEF set_first, Goto, Corrupts, TypeInv, TypeOK,
     LocalType, LockType, WQTypeOK, wqVars, lockVars, localVars, LockInv,
     WriteSection, CanWrite
<1>4. \A s \in Slots : qlock'[s] = p <=> pc'[p] = "wake" /\ ptr'[p] = s
  BY NodesAssumption DEF set_first, Goto, Corrupts, TypeInv, TypeOK,
     LocalType, LockType, WQTypeOK, wqVars, lockVars, localVars, LockInv
<1>5. writer' # NONE => readers' = {}
  BY DEF set_first, Goto, Corrupts, TypeInv, TypeOK, LocalType, LockType,
     WQTypeOK, wqVars, lockVars, localVars, LockInv, CanWrite, CanRead
<1> QED
  BY <1>1, <1>2, <1>3, <1>4, <1>5, LockMoves

LEMMA Lock_set_second ==
  ASSUME TypeInv, LockInv, NEW p \in Procs, set_second(p)
  PROVE  LockInv'
<1>1. Others(p)
  BY NodesAssumption DEF set_second, Returns, TypeInv, TypeOK, LocalType,
     LockType, WQTypeOK, wqVars, lockVars, localVars, Others, LockInv,
     WriteSection, CanRead, CanWrite
<1>2. p \in readers' <=> pc'[p] = "info_walk"
  BY DEF set_second, Returns, TypeInv, TypeOK, LockType, wqVars, lockVars,
     localVars, LockInv
<1>3. writer' = p <=> WriteSection(p)'
  BY NodesAssumption DEF set_second, Returns, TypeInv, TypeOK, LocalType,
     LockType, wqVars, lockVars, localVars, LockInv, WriteSection
<1>4. \A s \in Slots : qlock'[s] = p <=> pc'[p] = "wake" /\ ptr'[p] = s
  BY NodesAssumption DEF set_second, Returns, TypeInv, TypeOK, LocalType,
     WQTypeOK, PtrOK, HoldsEvent, wqVars, lockVars, localVars, LockInv
<1>5. writer' # NONE => readers' = {}
  BY DEF set_second, Returns, TypeInv, TypeOK, LockType, wqVars, lockVars,
     localVars, LockInv, CanWrite, CanRead
<1> QED
  BY <1>1, <1>2, <1>3, <1>4, <1>5, LockMoves

LEMMA Lock_doeventinfo_lock ==
  ASSUME TypeInv, LockInv, NEW p \in Procs, doeventinfo_lock(p)
  PROVE  LockInv'
<1>1. Others(p)
  BY NodesAssumption DEF doeventinfo_lock, Goto, TypeInv, TypeOK, LocalType,
     LockType, WQTypeOK, wqVars, lockVars, localVars, Others, LockInv,
     WriteSection, CanRead, CanWrite
<1>2. p \in readers' <=> pc'[p] = "info_walk"
  BY DEF doeventinfo_lock, Goto, TypeInv, TypeOK, LockType, wqVars,
     lockVars, localVars, LockInv
<1>3. writer' = p <=> WriteSection(p)'
  <2>1. pc[p] = "info_lock" /\ pc'[p] = "info_walk"
    BY DEF doeventinfo_lock, Goto, TypeInv, TypeOK
  <2>2. writer' = writer /\ call' = call
    BY DEF doeventinfo_lock, Goto, lockVars, localVars
  <2> QED
    BY <2>1, <2>2 DEF LockInv, WriteSection
<1>4. \A s \in Slots : qlock'[s] = p <=> pc'[p] = "wake" /\ ptr'[p] = s
  BY NodesAssumption DEF doeventinfo_lock, Goto, TypeInv, TypeOK, LocalType,
     WQTypeOK, PtrOK, HoldsEvent, wqVars, lockVars, localVars, LockInv
<1>5. writer' # NONE => readers' = {}
  BY DEF doeventinfo_lock, Goto, TypeInv, TypeOK, LockType, wqVars,
     lockVars, localVars, LockInv, CanWrite, CanRead
<1> QED
  BY <1>1, <1>2, <1>3, <1>4, <1>5, LockMoves

LEMMA Lock_doeventinfo_walk ==
  ASSUME TypeInv, LockInv, NEW p \in Procs, doeventinfo_walk(p)
  PROVE  LockInv'
<1>1. Others(p)
  BY NodesAssumption DEF doeventinfo_walk, Goto, TypeInv, TypeOK, LocalType,
     LockType, WQTypeOK, wqVars, lockVars, localVars, Others, LockInv,
     WriteSection, CanRead, CanWrite
<1>2. p \in readers' <=> pc'[p] = "info_walk"
  BY DEF doeventinfo_walk, Goto, TypeInv, TypeOK, LocalType, LockType,
     WQTypeOK, wqVars, lockVars, localVars, LockInv
<1>3. writer' = p <=> WriteSection(p)'
  <2>1. pc[p] = "info_walk" /\ pc'[p] \in {"info_walk", "info_copy"}
    BY DEF doeventinfo_walk, Goto, TypeInv, TypeOK
  <2>2. writer' = writer /\ call' = call
    BY DEF doeventinfo_walk, Goto, lockVars, localVars
  <2> QED
    BY <2>1, <2>2 DEF LockInv, WriteSection
<1>4. \A s \in Slots : qlock'[s] = p <=> pc'[p] = "wake" /\ ptr'[p] = s
  BY NodesAssumption DEF doeventinfo_walk, Goto, TypeInv, TypeOK, LocalType,
     LockType, WQTypeOK, wqVars, lockVars, localVars, LockInv
<1>5. writer' # NONE => readers' = {}
  BY DEF doeventinfo_walk, Goto, TypeInv, TypeOK, LocalType, LockType,
     WQTypeOK, wqVars, lockVars, localVars, LockInv, CanWrite, CanRead
<1> QED
  BY <1>1, <1>2, <1>3, <1>4, <1>5, LockMoves

-----------------------------------------------------------------------------
(* The theorems *)

LEMMA LockInit == Init => LockInv
  BY NodesAssumption DEF Init, WQInit, LockInv, WriteSection

LEMMA LockStep ==
  ASSUME TypeInv, LockInv, NEW p \in Procs,
         Steps(p) \/ UnixSignal(p) \/ stack_reused(p) \/ slab_reused(p)
  PROVE  LockInv'
<1>1. CASE open(p)
  BY <1>1, CalmSteps, CalmLocks DEF open
<1>2. CASE fire(p)
  BY <1>2, CalmSteps, CalmLocks, Lock_take_write_lock, Lock_set_condition,
     Lock_wake_begin, Lock_wake_end, Lock_doeventclose_del DEF fire
<1>3. CASE wait(p)
  BY <1>3, CalmSteps, CalmLocks DEF wait
<1>4. CASE admin(p)
  BY <1>4, CalmSteps, CalmLocks, Lock_set_first, Lock_set_second,
     Lock_doeventinfo_lock, Lock_doeventinfo_walk DEF admin
<1>5. CASE Return(p)
  BY <1>5, CalmSteps, CalmLocks
<1>6. CASE UnixSignal(p) \/ stack_reused(p) \/ slab_reused(p)
  BY <1>6, CalmSteps, CalmLocks
<1> QED
  BY <1>1, <1>2, <1>3, <1>4, <1>5, <1>6 DEF Steps

LEMMA LockStutter == LockInv /\ UNCHANGED vars => LockInv'
  BY DEF vars, wqVars, lockVars, localVars, LockInv, WriteSection

\* At every step, `lock' and the queues' locks are held by exactly the
\* processes that are between their lock and their unlock.
THEOREM LockInvariant == Spec => []LockInv
<1>1. TypeInv /\ LockInv /\ [Next]_vars => LockInv'
  <2> SUFFICES ASSUME TypeInv, LockInv, [Next]_vars PROVE LockInv'
    OBVIOUS
  <2>1. CASE Next
    BY <2>1, LockStep, LockStutter DEF Next, Corrupted
  <2>2. CASE UNCHANGED vars
    BY <2>2, LockStutter
  <2> QED
    BY <2>1, <2>2
<1> QED
  BY <1>1, LockInit, TypeInvariant, PTL DEF Spec

\* The sections doeventsig, doeventclose, doeventchown and doeventchmod run
\* under write_lock_irqsave exclude each other and doeventinfo's walk, however
\* many processes are in the system calls.
THEOREM SectionsExcludeAlways == Spec => []SectionsExclude
<1>1. LockInv => SectionsExclude
  BY NodesAssumption DEF LockInv, SectionsExclude
<1> QED
  BY <1>1, LockInvariant, PTL

\* No process takes `lock' or a queue's lock out of its system call, or to
\* sleep, whatever the other processes do to the event it works on.
THEOREM NoLockCarriedEver == Spec => []NoLockCarried
<1>1. LockInv => NoLockCarried
  BY DEF LockInv, NoLockCarried, WriteSection, InWait
<1> QED
  BY <1>1, LockInvariant, PTL
=============================================================================
