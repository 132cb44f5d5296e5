----------------------------- MODULE EventsInfo -----------------------------
(***************************************************************************)
(* doeventinfo reads one state of the list of events, for every number of  *)
(* events and of processes that open and close them meanwhile, and never   *)
(* overruns its array. The argument rests on LockInv: only a process that  *)
(* excludes the reader changes the list or a listed event's id.            *)
(***************************************************************************)
EXTENDS EventsLocks, EventsTable

\* doeventinfo between its first check and its unlock
WalkInv ==
  \A p \in Procs :
    /\ pc[p] = "info_lock" =>
         process[p] = 0 /\ buf[p] = <<>> /\ (arg[p].a # Null => arg[p].id >= 0)
    /\ pc[p] = "info_walk" =>
         /\ process[p] \in 0 .. Len(evlist)
         /\ Len(buf[p]) <= process[p]
         /\ arg[p].a # Null =>
              /\ Len(buf[p]) <= arg[p].id
              /\ Len(buf[p]) = process[p] \/ Len(buf[p]) = arg[p].id
         /\ \A k \in 1 .. Len(buf[p]) : buf[p][k] = ev[evlist[k]].id

-----------------------------------------------------------------------------
(* Steps that are not the walk's *)

\* A step of p that is not one of doeventinfo up to its unlock
Aside(p) ==
  /\ \A q \in Procs \ {p} : /\ pc'[q] = pc[q] /\ process'[q] = process[q]
                            /\ buf'[q] = buf[q] /\ arg'[q] = arg[q]
  /\ pc'[p] \notin {"info_lock", "info_walk"}

\* The list and the ids in it, as far as somebody is walking it
ListKept(p) ==
  (\E q \in Procs \ {p} : pc[q] = "info_walk") =>
    /\ evlist' = evlist
    /\ \A i \in 1 .. Len(evlist) : ev'[evlist[i]].id = ev[evlist[i]].id

LEMMA WalkKept ==
  ASSUME TypeInv, WalkInv, NEW p \in Procs, Aside(p), ListKept(p)
  PROVE  WalkInv'
<1> SUFFICES ASSUME NEW q \in Procs
             PROVE  /\ pc'[q] = "info_lock" =>
                         /\ process'[q] = 0
                         /\ buf'[q] = <<>>
                         /\ arg'[q].a # Null => arg'[q].id >= 0
                    /\ pc'[q] = "info_walk" =>
                         /\ process'[q] \in 0 .. Len(evlist')
                         /\ Len(buf'[q]) <= process'[q]
                         /\ arg'[q].a # Null =>
                              /\ Len(buf'[q]) <= arg'[q].id
                              /\ \/ Len(buf'[q]) = process'[q]
                                 \/ Len(buf'[q]) = arg'[q].id
                         /\ \A k \in 1 .. Len(buf'[q]) :
                              buf'[q][k] = ev'[evlist'[k]].id
  BY DEF WalkInv, Null
<1>1. CASE q = p
  BY <1>1 DEF Aside
<1>2. CASE q # p
  <2>1. /\ pc'[q] = pc[q] /\ process'[q] = process[q]
        /\ buf'[q] = buf[q] /\ arg'[q] = arg[q]
    BY <1>2 DEF Aside
  <2>2. CASE pc[q] = "info_lock"
    BY <2>1, <2>2 DEF WalkInv
  <2>3. CASE pc[q] = "info_walk"
    <3>1. /\ evlist' = evlist
          /\ \A i \in 1 .. Len(evlist) : ev'[evlist[i]].id = ev[evlist[i]].id
      BY <1>2, <2>3 DEF ListKept
    <3>2. /\ process[q] \in 0 .. Len(evlist)
          /\ Len(buf[q]) <= process[q]
          /\ arg[q].a # Null =>
               /\ Len(buf[q]) <= arg[q].id
               /\ Len(buf[q]) = process[q] \/ Len(buf[q]) = arg[q].id
          /\ \A k \in 1 .. Len(buf[q]) : buf[q][k] = ev[evlist[k]].id
      BY <2>3 DEF WalkInv
    <3>3. Len(buf[q]) \in Nat /\ Len(evlist) \in Nat
      BY LenProperties DEF TypeInv, TypeOK, LocalType, TableType
    <3>4. \A k \in 1 .. Len(buf[q]) : k \in 1 .. Len(evlist)
      BY <3>2, <3>3
    <3>5. \A k \in 1 .. Len(buf[q]) : buf'[q][k] = ev'[evlist'[k]].id
      BY <2>1, <3>1, <3>2, <3>4
    <3> QED
      BY <2>1, <2>3, <3>1, <3>2, <3>5
  <2> QED
    BY <2>1, <2>2, <2>3
<1> QED
  BY <1>1, <1>2

LEMMA NobodyWalks ==
  ASSUME TypeInv, LockInv, readers = {}
  PROVE  \A q \in Procs : pc[q] # "info_walk"
  BY DEF LockInv

LEMMA ListKept_table ==
  ASSUME TypeInv, NEW p \in Procs, KeepsTable
  PROVE  ListKept(p)
<1>1. \A i \in 1 .. Len(evlist) : evlist[i] \in Slots
  BY ElementOfSeq DEF TypeInv, TypeOK, TableType
<1> QED
  BY <1>1 DEF KeepsTable, ListKept

\* Whoever adds to the list or takes an event off it excludes the readers;
\* kfree stores into an event that is not listed.
LEMMA ListKept_doeventopen_kmalloc ==
  ASSUME TypeInv, LockInv, NEW p \in Procs, doeventopen_kmalloc(p)
  PROVE  ListKept(p)
  BY DEF doeventopen_kmalloc, ListKept

LEMMA ListKept_doeventopen_add ==
  ASSUME TypeInv, LockInv, NEW p \in Procs, doeventopen_add(p)
  PROVE  ListKept(p)
  BY NobodyWalks DEF doeventopen_add, CanWrite, ListKept

LEMMA ListKept_doeventclose_del ==
  ASSUME TypeInv, LockInv, NEW p \in Procs, doeventclose_del(p)
  PROVE  ListKept(p)
<1>1. writer = p
  BY DEF doeventclose_del, Goto, LockInv, WriteSection
<1>2. readers = {}
  BY <1>1, NodesAssumption DEF LockInv
<1> QED
  BY <1>2, NobodyWalks DEF ListKept

LEMMA ListKept_doeventclose_free ==
  ASSUME TypeInv, LockInv, NEW p \in Procs, doeventclose_free(p)
  PROVE  ListKept(p)
<1>1. CASE Corrupts
  BY <1>1 DEF Corrupts, tableVars, ListKept
<1>2. CASE ~Corrupts
  <2>1. /\ evlist' = evlist
        /\ ~Contains(evlist, ptr[p])
        /\ ev' = [ev EXCEPT ![ptr[p]].id = FreePtr[1],
                            ![ptr[p]].uid = FreePtr[2]]
    BY <1>2 DEF doeventclose_free, Freeable
  <2>2. \A i \in 1 .. Len(evlist) : evlist[i] \in Slots /\ evlist[i] # ptr[p]
    BY <2>1, ElementOfSeq DEF Contains, TypeInv, TypeOK, TableType
  <2>3. \A t \in Slots : t # ptr[p] => ev'[t] = ev[t]
    BY <2>1 DEF TypeInv, TypeOK, TableType
  <2> QED
    BY <2>1, <2>2, <2>3 DEF ListKept
<1> QED
  BY <1>1, <1>2

\* The steps of every other system call, and of doeventinfo after its unlock
LEMMA AsideSteps ==
  ASSUME TypeInv, NEW p \in Procs,
         \/ doeventopen_kmalloc(p) \/ doeventopen_add(p)
         \/ doeventopen_return(p) \/ doeventclose_lookup(p)
         \/ doeventsig_lookup(p) \/ check_active(p)
         \/ take_write_lock(p) \/ count_waiter(p) \/ set_condition(p)
         \/ wake_begin(p) \/ wake_one(p) \/ wake_end(p)
         \/ doeventclose_del(p) \/ doeventclose_free(p)
         \/ doeventwait_lookup(p) \/ doeventwait_reset(p)
         \/ doeventwait_first(p) \/ doeventwait_prepare(p)
         \/ doeventwait_check(p) \/ doeventwait_schedule(p)
         \/ doeventwait_resume(p) \/ doeventwait_finish(p)
         \/ doeventwait_del(p) \/ doeventchown_lookup(p)
         \/ doeventchmod_lookup(p) \/ set_first(p) \/ set_second(p)
         \/ doeventinfo_copy(p) \/ doeventstat_lookup(p)
         \/ doeventstat_copy(p) \/ Return(p) \/ UnixSignal(p)
         \/ stack_reused(p) \/ slab_reused(p)
  PROVE  Aside(p)
<1>1. CASE doeventopen_kmalloc(p)
  BY <1>1 DEF doeventopen_kmalloc, Enter, Goto, Returns, InWait, Aside,
     TypeInv, TypeOK, LocalType, localVars
<1>2. CASE doeventopen_add(p)
  BY <1>2 DEF doeventopen_add, Goto, Corrupts, InWait, Aside, TypeInv,
     TypeOK, LocalType, localVars
<1>3. CASE doeventopen_return(p)
  BY <1>3 DEF doeventopen_return, Returns, InWait, Aside, TypeInv, TypeOK,
     LocalType, localVars
<1>4. CASE doeventclose_lookup(p)
  BY <1>4 DEF doeventclose_lookup, LookupValidated, Enter, GoesOn, Goto,
     Returns, InWait, Aside, TypeInv, TypeOK, LocalType, localVars
<1>5. CASE doeventsig_lookup(p)
  BY <1>5 DEF doeventsig_lookup, LookupValidated, Enter, GoesOn, Goto,
     Returns, InWait, Aside, TypeInv, TypeOK, LocalType, localVars
<1>6. CASE check_active(p)
  BY <1>6 DEF check_active, Goto, Returns, InWait, Aside, TypeInv, TypeOK,
     LocalType, localVars
<1>7. CASE take_write_lock(p)
  BY <1>7 DEF take_write_lock, Goto, InWait, Aside, TypeInv, TypeOK,
     LocalType, localVars
<1>8. CASE count_waiter(p)
  BY <1>8 DEF count_waiter, Goto, InWait, Aside, TypeInv, TypeOK, LocalType,
     localVars
<1>9. CASE set_condition(p)
  BY <1>9 DEF set_condition, Goto, InWait, Aside, TypeInv, TypeOK,
     LocalType, localVars
<1>10. CASE wake_begin(p)
  BY <1>10 DEF wake_begin, Goto, wake_up_lock, InWait, Aside, TypeInv,
     TypeOK, LocalType, localVars
<1>11. CASE wake_one(p)
  BY <1>11 DEF wake_one, wake_up_next, InWait, Aside, TypeInv, TypeOK,
     LocalType, localVars
<1>12. CASE wake_end(p)
  BY <1>12 DEF wake_end, Goto, Returns, wake_up_unlock, InWait, Aside,
     TypeInv, TypeOK, LocalType, localVars
<1>13. CASE doeventclose_del(p)
  BY <1>13 DEF doeventclose_del, Goto, InWait, Aside, TypeInv, TypeOK,
     LocalType, localVars
<1>14. CASE doeventclose_free(p)
  BY <1>14 DEF doeventclose_free, Returns, Corrupts, InWait, Aside, TypeInv,
     TypeOK, LocalType, localVars
<1>15. CASE doeventwait_lookup(p)
  BY <1>15 DEF doeventwait_lookup, LookupValidated, Enter, GoesOn, Goto,
     Returns, InWait, Aside, TypeInv, TypeOK, LocalType, localVars
<1>16. CASE doeventwait_reset(p)
  BY <1>16 DEF doeventwait_reset, Goto, InWait, Aside, TypeInv, TypeOK,
     LocalType, localVars
<1>17. CASE doeventwait_first(p)
  BY <1>17 DEF doeventwait_first, Goto, Returns, InWait, Aside, TypeInv,
     TypeOK, LocalType, localVars
<1>18. CASE doeventwait_prepare(p)
  BY <1>18 DEF doeventwait_prepare, Goto, prepare_to_wait, InWait, Aside,
     TypeInv, TypeOK, LocalType, localVars
<1>19. CASE doeventwait_check(p)
  BY <1>19 DEF doeventwait_check, Goto, InWait, Aside, TypeInv, TypeOK,
     LocalType, localVars
<1>20. CASE doeventwait_schedule(p)
  BY <1>20 DEF doeventwait_schedule, Goto, schedule, InWait, Aside, TypeInv,
     TypeOK, LocalType, localVars
<1>21. CASE doeventwait_resume(p)
  BY <1>21 DEF doeventwait_resume, Goto, InWait, Aside, TypeInv, TypeOK,
     LocalType, localVars
<1>22. CASE doeventwait_finish(p)
  BY <1>22 DEF doeventwait_finish, Goto, Returns, finish_wait_state, InWait,
     Aside, TypeInv, TypeOK, LocalType, localVars
<1>23. CASE doeventwait_del(p)
  BY <1>23 DEF doeventwait_del, Returns, finish_wait_del, InWait, Aside,
     TypeInv, TypeOK, LocalType, localVars
<1>24. CASE doeventchown_lookup(p)
  BY <1>24 DEF doeventchown_lookup, LookupOwned, Enter, GoesOn, Goto,
     Returns, Corrupts, InWait, Aside, TypeInv, TypeOK, LocalType, localVars
<1>25. CASE doeventchmod_lookup(p)
  BY <1>25 DEF doeventchmod_lookup, LookupOwned, Enter, GoesOn, Goto,
     Returns, Corrupts, InWait, Aside, TypeInv, TypeOK, LocalType, localVars
<1>26. CASE set_first(p)
  BY <1>26 DEF set_first, Goto, Corrupts, InWait, Aside, TypeInv, TypeOK,
     LocalType, localVars
<1>27. CASE set_second(p)
  BY <1>27 DEF set_second, Returns, InWait, Aside, TypeInv, TypeOK,
     LocalType, localVars
<1>28. CASE doeventinfo_copy(p)
  BY <1>28 DEF doeventinfo_copy, Returns, InWait, Aside, TypeInv, TypeOK,
     LocalType, localVars
<1>29. CASE doeventstat_lookup(p)
  BY <1>29 DEF doeventstat_lookup, Enter, Goto, Returns, InWait, Aside,
     TypeInv, TypeOK, LocalType, localVars
<1>30. CASE doeventstat_copy(p)
  BY <1>30 DEF doeventstat_copy, Returns, InWait, Aside, TypeInv, TypeOK,
     LocalType, localVars
<1>31. CASE Return(p)
  BY <1>31 DEF Return, Goto, deliver_signal, InWait, Aside, TypeInv, TypeOK,
     LocalType, localVars
<1>32. CASE UnixSignal(p)
  BY <1>32 DEF UnixSignal, signal_wake_up, InWait, Aside, TypeInv, TypeOK,
     LocalType, localVars
<1>33. CASE stack_reused(p)
  BY <1>33 DEF stack_reused, Corrupts, InWait, Aside, TypeInv, TypeOK,
     LocalType, localVars
<1>34. CASE slab_reused(p)
  BY <1>34 DEF slab_reused, Corrupts, InWait, Aside, TypeInv, TypeOK,
     LocalType, localVars
<1> QED
  BY <1>1, <1>2, <1>3, <1>4, <1>5, <1>6, <1>7, <1>8, <1>9, <1>10, <1>11, <1>12,
     <1>13, <1>14, <1>15, <1>16, <1>17, <1>18, <1>19, <1>20, <1>21, <1>22,
     <1>23, <1>24, <1>25, <1>26, <1>27, <1>28, <1>29, <1>30, <1>31, <1>32,
     <1>33, <1>34

-----------------------------------------------------------------------------
(* The walk's steps *)

LEMMA Walk_doeventinfo_args ==
  ASSUME TypeInv, WalkInv, NEW p \in Procs, doeventinfo_args(p)
  PROVE  WalkInv'
<1>1. /\ UNCHANGED <<evlist, ev>>
      /\ process' = [process EXCEPT ![p] = 0]
      /\ buf' = [buf EXCEPT ![p] = <<>>]
  BY DEF doeventinfo_args, tableVars
<1>2. PICK num \in Nums, u \in Pointers :
        /\ arg' = [arg EXCEPT ![p] = [id |-> num, a |-> u, b |-> 0]]
        /\ \/ pc' = [pc EXCEPT ![p] = "return"]
           \/ /\ u = Null \/ num >= 0
              /\ pc' = [pc EXCEPT ![p] = "info_lock"]
  BY DEF doeventinfo_args, Enter, Goto, Returns
<1>3. \A q \in Procs \ {p} :
        /\ pc'[q] = pc[q] /\ process'[q] = process[q]
        /\ buf'[q] = buf[q] /\ arg'[q] = arg[q]
  BY <1>1, <1>2 DEF TypeInv, TypeOK, LocalType
<1>4. /\ process'[p] = 0 /\ buf'[p] = <<>>
      /\ pc'[p] \in {"return", "info_lock"}
      /\ pc'[p] = "info_lock" => (arg'[p].a # Null => arg'[p].id >= 0)
  BY <1>1, <1>2 DEF TypeInv, TypeOK, LocalType
<1> QED
  BY <1>1, <1>3, <1>4 DEF WalkInv

LEMMA Walk_doeventinfo_lock ==
  ASSUME TypeInv, WalkInv, NEW p \in Procs, doeventinfo_lock(p)
  PROVE  WalkInv'
<1>1. /\ UNCHANGED <<evlist, ev, process, buf, arg>>
      /\ pc[p] = "info_lock"
      /\ pc' = [pc EXCEPT ![p] = "info_walk"]
  BY DEF doeventinfo_lock, Goto, tableVars, localVars
<1>2. pc'[p] = "info_walk" /\ \A q \in Procs \ {p} : pc'[q] = pc[q]
  BY <1>1 DEF TypeInv, TypeOK
<1>3. Len(evlist) \in Nat
  BY LenProperties DEF TypeInv, TypeOK, TableType
<1>4. /\ process[p] = 0 /\ buf[p] = <<>> /\ Len(buf[p]) = 0
      /\ arg[p].a # Null => arg[p].id >= 0
  BY <1>1, EmptySeq DEF WalkInv
<1>5. arg[p].id \in Int
  BY DEF TypeInv, TypeOK, LocalType
<1> QED
  BY <1>1, <1>2, <1>3, <1>4, <1>5 DEF WalkInv

LEMMA Walk_doeventinfo_walk ==
  ASSUME TypeInv, WalkInv, NEW p \in Procs, doeventinfo_walk(p)
  PROVE  WalkInv'
<1> DEFINE i == process[p] + 1
<1>1. pc[p] = "info_walk" /\ UNCHANGED <<evlist, ev, arg>>
  BY DEF doeventinfo_walk, tableVars
<1>2. CASE i \notin 1 .. Len(evlist)
  <2>1. Aside(p)
    BY <1>2 DEF doeventinfo_walk, Goto, Aside, TypeInv, TypeOK
  <2> QED
    BY <1>1, <2>1, WalkKept DEF ListKept
<1>3. CASE i \in 1 .. Len(evlist)
  <2>1. /\ UNCHANGED pc
        /\ process' = [process EXCEPT ![p] = i]
        /\ buf' = IF process[p] < arg[p].id /\ arg[p].a # Null
                    THEN [buf EXCEPT ![p] = Append(@, ev[evlist[i]].id)]
                    ELSE buf
    BY <1>3 DEF doeventinfo_walk
  <2>2. /\ process[p] \in 0 .. Len(evlist)
        /\ Len(buf[p]) <= process[p]
        /\ arg[p].a # Null =>
             /\ Len(buf[p]) <= arg[p].id
             /\ Len(buf[p]) = process[p] \/ Len(buf[p]) = arg[p].id
        /\ \A k \in 1 .. Len(buf[p]) : buf[p][k] = ev[evlist[k]].id
    BY <1>1 DEF WalkInv
  <2>3. /\ Len(evlist) \in Nat /\ Len(buf[p]) \in Nat /\ buf[p] \in Seq(Int)
        /\ arg[p].id \in Int
    BY LenProperties DEF TypeInv, TypeOK, LocalType, TableType
  <2>4. ev[evlist[i]].id \in Int
    <3>1. evlist[i] \in Slots
      BY <1>3, ElementOfSeq DEF TypeInv, TypeOK, TableType
    <3> QED
      BY <3>1 DEF TypeInv, TypeOK, TableType, Event
  <2>5. process'[p] = i /\ \A q \in Procs \ {p} : process'[q] = process[q]
    BY <2>1 DEF TypeInv, TypeOK, LocalType
  <2>6. \A q \in Procs \ {p} : buf'[q] = buf[q]
    BY <2>1 DEF TypeInv, TypeOK, LocalType
  <2>7. \/ buf'[p] = buf[p] /\ ~(process[p] < arg[p].id /\ arg[p].a # Null)
        \/ /\ buf'[p] = Append(buf[p], ev[evlist[i]].id)
           /\ process[p] < arg[p].id /\ arg[p].a # Null
    BY <2>1 DEF TypeInv, TypeOK, LocalType
  <2> HIDE DEF i
  <2>8. /\ i \in 0 .. Len(evlist)
        /\ Len(buf'[p]) <= i
        /\ arg[p].a # Null =>
             /\ Len(buf'[p]) <= arg[p].id
             /\ Len(buf'[p]) = i \/ Len(buf'[p]) = arg[p].id
        /\ \A k \in 1 .. Len(buf'[p]) : buf'[p][k] = ev[evlist[k]].id
    <3>1. i = process[p] + 1
      BY DEF i
    <3>2. CASE buf'[p] = buf[p] /\ ~(process[p] < arg[p].id /\ arg[p].a # Null)
      BY <1>3, <2>2, <2>3, <3>1, <3>2
    <3>3. CASE /\ buf'[p] = Append(buf[p], ev[evlist[i]].id)
               /\ process[p] < arg[p].id /\ arg[p].a # Null
      <4>1. /\ Len(buf'[p]) = Len(buf[p]) + 1
            /\ \A k \in 1 .. Len(buf[p]) : buf'[p][k] = buf[p][k]
            /\ buf'[p][Len(buf[p]) + 1] = ev[evlist[i]].id
        BY <3>3, <2>3, <2>4, AppendProperties
      <4>2. Len(buf[p]) = process[p]
        BY <2>2, <2>3, <3>3
      <4> QED
        BY <1>3, <2>2, <2>3, <3>1, <3>3, <4>1, <4>2
    <3> QED
      BY <2>7, <3>2, <3>3
  <2> QED
    BY <1>1, <2>1, <2>5, <2>6, <2>8 DEF WalkInv
<1> QED
  BY <1>2, <1>3

-----------------------------------------------------------------------------
(* The theorem *)

LEMMA WalkInit == Init => WalkInv
  BY DEF Init, WalkInv

LEMMA WalkStep ==
  ASSUME TypeInv, LockInv, WalkInv, NEW p \in Procs,
         Steps(p) \/ UnixSignal(p) \/ stack_reused(p) \/ slab_reused(p)
  PROVE  WalkInv'
<1>1. CASE open(p)
  BY <1>1, AsideSteps, TableSteps, ListKept_table, WalkKept,
     ListKept_doeventopen_kmalloc, ListKept_doeventopen_add DEF open
<1>2. CASE fire(p)
  BY <1>2, AsideSteps, TableSteps, ListKept_table, WalkKept,
     ListKept_doeventclose_del, ListKept_doeventclose_free DEF fire
<1>3. CASE wait(p)
  BY <1>3, AsideSteps, TableSteps, ListKept_table, WalkKept DEF wait
<1>4. CASE admin(p)
  BY <1>4, AsideSteps, TableSteps, ListKept_table, WalkKept,
     Walk_doeventinfo_args, Walk_doeventinfo_lock, Walk_doeventinfo_walk DEF
     admin
<1>5. CASE Return(p)
  BY <1>5, AsideSteps, TableSteps, ListKept_table, WalkKept
<1>6. CASE UnixSignal(p) \/ stack_reused(p) \/ slab_reused(p)
  BY <1>6, AsideSteps, TableSteps, ListKept_table, WalkKept
<1> QED
  BY <1>1, <1>2, <1>3, <1>4, <1>5, <1>6 DEF Steps

LEMMA WalkStutter == WalkInv /\ UNCHANGED vars => WalkInv'
  BY DEF vars, tableVars, localVars, WalkInv

\* WalkInv is an invariant, given the locks.
LEMMA WalkInvariant == Spec => []WalkInv
<1>1. TypeInv /\ LockInv /\ WalkInv /\ [Next]_vars => WalkInv'
  <2> SUFFICES ASSUME TypeInv, LockInv, WalkInv, [Next]_vars PROVE WalkInv'
    OBVIOUS
  <2>1. CASE Next
    BY <2>1, WalkStep, WalkStutter DEF Next, Corrupted
  <2>2. CASE UNCHANGED vars
    BY <2>2, WalkStutter
  <2> QED
    BY <2>1, <2>2
<1> QED
  BY <1>1, WalkInit, LockInvariant, TypeInvariant, PTL DEF Spec

\* While doeventinfo walks the list, what it has stored are the ids of the
\* list's first events as they are now, and eventsarray's bound is kept.
THEOREM InfoSnapshotAlways == Spec => []InfoSnapshot
<1>1. TypeInv /\ WalkInv => InfoSnapshot
  BY LenProperties DEF WalkInv, InfoSnapshot, TypeInv, TypeOK, TableType
<1> QED
  BY <1>1, WalkInvariant, TypeInvariant, PTL
=============================================================================
