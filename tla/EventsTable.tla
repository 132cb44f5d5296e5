---------------------------- MODULE EventsTable -----------------------------
(***************************************************************************)
(* The list of events and the ids in it, for every number of processes,    *)
(* slots and opens. IdsIncreasing needs two strengthenings: SlotInv, that  *)
(* no slot is listed twice or listed and reused (else a store to one event *)
(* would change the id of another), and IdInv, that every id is below the  *)
(* number of events ever listed (else the next id could overflow before the *)
(* ints are used up).                                                      *)
(***************************************************************************)
EXTENDS EventsTypes

\* A listed event is allocated and listed once; an event that doeventopen has
\* allocated and not yet listed is its own.
SlotInv ==
  /\ \A i \in 1 .. Len(evlist) : slab[evlist[i]] = "live"
  /\ \A i, j \in 1 .. Len(evlist) : evlist[i] = evlist[j] => i = j
  /\ \A p \in Procs : pc[p] = "open_add" =>
       /\ slab[ptr[p]] = "live"
       /\ \A i \in 1 .. Len(evlist) : evlist[i] # ptr[p]
  /\ \A p, q \in Procs :
       pc[p] = "open_add" /\ pc[q] = "open_add" /\ ptr[p] = ptr[q] => p = q

\* Ids are below the number of events ever listed.
IdInv ==
  opens <= IntMax + 1 =>
    /\ \A i \in 1 .. Len(evlist) :
         0 <= ev[evlist[i]].id /\ ev[evlist[i]].id < opens
    /\ \A i, j \in 1 .. Len(evlist) :
         i < j => ev[evlist[i]].id < ev[evlist[j]].id

-----------------------------------------------------------------------------
(* Steps that leave the table alone *)

\* A step that leaves the list, the allocations and the ids alone
KeepsTable ==
  /\ UNCHANGED <<evlist, slab, opens>>
  /\ \A s \in Slots : ev'[s].id = ev[s].id
  /\ \A q \in Procs : pc'[q] = "open_add" =>
       pc[q] = "open_add" /\ ptr'[q] = ptr[q]

LEMMA KeptTable ==
  ASSUME TypeInv, SlotInv, IdInv, KeepsTable
  PROVE  SlotInv' /\ IdInv'
<1>1. \A i \in 1 .. Len(evlist) : evlist[i] \in Slots
  BY ElementOfSeq DEF TypeInv, TypeOK, TableType
<1>2. SlotInv'
  BY DEF SlotInv, KeepsTable
<1>3. IdInv'
  BY <1>1 DEF IdInv, KeepsTable
<1> QED
  BY <1>2, <1>3

\* All but four of the steps leave the table as it is.
LEMMA TableSteps ==
  ASSUME TypeInv, NEW p \in Procs,
         \/ doeventopen_return(p) \/ doeventclose_lookup(p)
         \/ doeventsig_lookup(p) \/ check_active(p)
         \/ take_write_lock(p) \/ count_waiter(p) \/ set_condition(p)
         \/ wake_begin(p) \/ wake_one(p) \/ wake_end(p)
         \/ doeventwait_lookup(p) \/ doeventwait_reset(p)
         \/ doeventwait_first(p) \/ doeventwait_prepare(p)
         \/ doeventwait_check(p) \/ doeventwait_schedule(p)
         \/ doeventwait_resume(p) \/ doeventwait_finish(p)
         \/ doeventwait_del(p) \/ doeventchown_lookup(p)
         \/ doeventchmod_lookup(p) \/ set_first(p) \/ set_second(p)
         \/ doeventinfo_args(p) \/ doeventinfo_lock(p)
         \/ doeventinfo_walk(p) \/ doeventinfo_copy(p)
         \/ doeventstat_lookup(p) \/ doeventstat_copy(p) \/ Return(p)
         \/ UnixSignal(p) \/ stack_reused(p) \/ slab_reused(p)
  PROVE  KeepsTable
<1>1. CASE doeventopen_return(p)
  BY <1>1 DEF doeventopen_return, Returns, KeepsTable, TypeInv, TypeOK,
     LocalType, TableType, GhostType, Event, tableVars, localVars, ghostVars
<1>2. CASE doeventclose_lookup(p)
  BY <1>2 DEF doeventclose_lookup, LookupValidated, Enter, GoesOn, Goto,
     Returns, KeepsTable, TypeInv, TypeOK, LocalType, TableType, GhostType,
     Event, tableVars, localVars, ghostVars
<1>3. CASE doeventsig_lookup(p)
  BY <1>3 DEF doeventsig_lookup, LookupValidated, Enter, GoesOn, Goto,
     Returns, KeepsTable, TypeInv, TypeOK, LocalType, TableType, GhostType,
     Event, tableVars, localVars, ghostVars
<1>4. CASE check_active(p)
  BY <1>4 DEF check_active, Goto, Returns, KeepsTable, TypeInv, TypeOK,
     LocalType, TableType, GhostType, Event, tableVars, localVars, ghostVars
<1>5. CASE take_write_lock(p)
  BY <1>5 DEF take_write_lock, Goto, KeepsTable, TypeInv, TypeOK, LocalType,
     TableType, GhostType, Event, tableVars, localVars, ghostVars
<1>6. CASE count_waiter(p)
  BY <1>6 DEF count_waiter, Goto, KeepsTable, TypeInv, TypeOK, LocalType,
     TableType, GhostType, Event, tableVars, localVars, ghostVars
<1>7. CASE set_condition(p)
  BY <1>7 DEF set_condition, Goto, KeepsTable, TypeInv, TypeOK, LocalType,
     TableType, GhostType, Event, tableVars, localVars, ghostVars
<1>8. CASE wake_begin(p)
  BY <1>8 DEF wake_begin, Goto, wake_up_lock, KeepsTable, TypeInv, TypeOK,
     LocalType, TableType, GhostType, Event, tableVars, localVars, ghostVars
<1>9. CASE wake_one(p)
  BY <1>9 DEF wake_one, wake_up_next, KeepsTable, TypeInv, TypeOK,
     LocalType, TableType, GhostType, Event, tableVars, localVars, ghostVars
<1>10. CASE wake_end(p)
  BY <1>10 DEF wake_end, Goto, Returns, wake_up_unlock, KeepsTable, TypeInv,
     TypeOK, LocalType, TableType, GhostType, Event, tableVars, localVars,
     ghostVars
<1>11. CASE doeventwait_lookup(p)
  BY <1>11 DEF doeventwait_lookup, LookupValidated, Enter, GoesOn, Goto,
     Returns, KeepsTable, TypeInv, TypeOK, LocalType, TableType, GhostType,
     Event, tableVars, localVars, ghostVars
<1>12. CASE doeventwait_reset(p)
  BY <1>12 DEF doeventwait_reset, Goto, KeepsTable, TypeInv, TypeOK,
     LocalType, TableType, GhostType, Event, tableVars, localVars, ghostVars
<1>13. CASE doeventwait_first(p)
  BY <1>13 DEF doeventwait_first, Goto, Returns, KeepsTable, TypeInv,
     TypeOK, LocalType, TableType, GhostType, Event, tableVars, localVars,
     ghostVars
<1>14. CASE doeventwait_prepare(p)
  BY <1>14 DEF doeventwait_prepare, Goto, prepare_to_wait, KeepsTable,
     TypeInv, TypeOK, LocalType, TableType, GhostType, Event, tableVars,
     localVars, ghostVars
<1>15. CASE doeventwait_check(p)
  BY <1>15 DEF doeventwait_check, Goto, KeepsTable, TypeInv, TypeOK,
     LocalType, TableType, GhostType, Event, tableVars, localVars, ghostVars
<1>16. CASE doeventwait_schedule(p)
  BY <1>16 DEF doeventwait_schedule, Goto, schedule, KeepsTable, TypeInv,
     TypeOK, LocalType, TableType, GhostType, Event, tableVars, localVars,
     ghostVars
<1>17. CASE doeventwait_resume(p)
  BY <1>17 DEF doeventwait_resume, Goto, KeepsTable, TypeInv, TypeOK,
     LocalType, TableType, GhostType, Event, tableVars, localVars, ghostVars
<1>18. CASE doeventwait_finish(p)
  BY <1>18 DEF doeventwait_finish, Goto, Returns, finish_wait_state,
     KeepsTable, TypeInv, TypeOK, LocalType, TableType, GhostType, Event,
     tableVars, localVars, ghostVars
<1>19. CASE doeventwait_del(p)
  BY <1>19 DEF doeventwait_del, Returns, finish_wait_del, KeepsTable,
     TypeInv, TypeOK, LocalType, TableType, GhostType, Event, tableVars,
     localVars, ghostVars
<1>20. CASE doeventchown_lookup(p)
  BY <1>20 DEF doeventchown_lookup, LookupOwned, Enter, GoesOn, Goto,
     Returns, Corrupts, KeepsTable, TypeInv, TypeOK, LocalType, TableType,
     GhostType, Event, tableVars, localVars, ghostVars
<1>21. CASE doeventchmod_lookup(p)
  BY <1>21 DEF doeventchmod_lookup, LookupOwned, Enter, GoesOn, Goto,
     Returns, Corrupts, KeepsTable, TypeInv, TypeOK, LocalType, TableType,
     GhostType, Event, tableVars, localVars, ghostVars
<1>22. CASE set_first(p)
  <2>1. UNCHANGED <<evlist, slab, opens, ptr>>
    BY <1>22 DEF set_first, Corrupts, tableVars, localVars, ghostVars
  <2>2. \/ ev' = ev
        \/ ev' = [ev EXCEPT ![ptr[p]].uid = arg[p].a]
        \/ ev' = [ev EXCEPT ![ptr[p]].uidFlag = arg[p].a]
    BY <1>22 DEF set_first, Corrupts, tableVars
  <2>3. \A s \in Slots : ev'[s].id = ev[s].id
    <3>1. CASE ev' = ev
      BY <3>1
    <3>2. CASE ev' = [ev EXCEPT ![ptr[p]].uid = arg[p].a]
      BY <3>2 DEF TypeInv, TypeOK, TableType, Event
    <3>3. CASE ev' = [ev EXCEPT ![ptr[p]].uidFlag = arg[p].a]
      BY <3>3 DEF TypeInv, TypeOK, TableType, Event
    <3> QED
      BY <2>2, <3>1, <3>2, <3>3
  <2>4. \A q \in Procs : pc'[q] = "open_add" => pc[q] = "open_add"
    BY <1>22 DEF set_first, Corrupts, Goto, TypeInv, TypeOK
  <2> QED
    BY <2>1, <2>3, <2>4 DEF KeepsTable
<1>23. CASE set_second(p)
  BY <1>23 DEF set_second, Returns, KeepsTable, TypeInv, TypeOK, LocalType,
     TableType, GhostType, Event, tableVars, localVars, ghostVars
<1>24. CASE doeventinfo_args(p)
  BY <1>24 DEF doeventinfo_args, Enter, Goto, Returns, KeepsTable, TypeInv,
     TypeOK, LocalType, TableType, GhostType, Event, tableVars, localVars,
     ghostVars
<1>25. CASE doeventinfo_lock(p)
  BY <1>25 DEF doeventinfo_lock, Goto, KeepsTable, TypeInv, TypeOK,
     LocalType, TableType, GhostType, Event, tableVars, localVars, ghostVars
<1>26. CASE doeventinfo_walk(p)
  BY <1>26 DEF doeventinfo_walk, Goto, KeepsTable, TypeInv, TypeOK,
     LocalType, TableType, GhostType, Event, tableVars, localVars, ghostVars
<1>27. CASE doeventinfo_copy(p)
  BY <1>27 DEF doeventinfo_copy, Returns, KeepsTable, TypeInv, TypeOK,
     LocalType, TableType, GhostType, Event, tableVars, localVars, ghostVars
<1>28. CASE doeventstat_lookup(p)
  BY <1>28 DEF doeventstat_lookup, Enter, Goto, Returns, KeepsTable,
     TypeInv, TypeOK, LocalType, TableType, GhostType, Event, tableVars,
     localVars, ghostVars
<1>29. CASE doeventstat_copy(p)
  BY <1>29 DEF doeventstat_copy, Returns, KeepsTable, TypeInv, TypeOK,
     LocalType, TableType, GhostType, Event, tableVars, localVars, ghostVars
<1>30. CASE Return(p)
  BY <1>30 DEF Return, Goto, deliver_signal, KeepsTable, TypeInv, TypeOK,
     LocalType, TableType, GhostType, Event, tableVars, localVars, ghostVars
<1>31. CASE UnixSignal(p)
  BY <1>31 DEF UnixSignal, signal_wake_up, InWait, KeepsTable, TypeInv,
     TypeOK, LocalType, TableType, GhostType, Event, tableVars, localVars,
     ghostVars
<1>32. CASE stack_reused(p)
  BY <1>32 DEF stack_reused, Corrupts, KeepsTable, TypeInv, TypeOK,
     LocalType, TableType, GhostType, Event, tableVars, localVars, ghostVars
<1>33. CASE slab_reused(p)
  BY <1>33 DEF slab_reused, Corrupts, KeepsTable, TypeInv, TypeOK,
     LocalType, TableType, GhostType, Event, tableVars, localVars, ghostVars
<1> QED
  BY <1>1, <1>2, <1>3, <1>4, <1>5, <1>6, <1>7, <1>8, <1>9, <1>10, <1>11, <1>12,
     <1>13, <1>14, <1>15, <1>16, <1>17, <1>18, <1>19, <1>20, <1>21, <1>22,
     <1>23, <1>24, <1>25, <1>26, <1>27, <1>28, <1>29, <1>30, <1>31, <1>32,
     <1>33

-----------------------------------------------------------------------------
(* Steps that change it *)

LEMMA Table_doeventopen_kmalloc ==
  ASSUME TypeInv, SlotInv, IdInv, NEW p \in Procs, doeventopen_kmalloc(p)
  PROVE  SlotInv' /\ IdInv'
<1>1. UNCHANGED <<evlist, ev, opens>>
  BY DEF doeventopen_kmalloc, ghostVars
<1>2. CASE Returns(p, -1) /\ UNCHANGED <<slab, ptr>>
  <2>1. KeepsTable
    BY <1>1, <1>2 DEF KeepsTable, Returns, TypeInv, TypeOK
  <2> QED
    BY <2>1, KeptTable
<1>3. CASE \E s \in Slots :
             /\ slab[s] = "free"
             /\ slab' = [slab EXCEPT ![s] = "live"]
             /\ ptr' = [ptr EXCEPT ![p] = s]
             /\ Goto(p, "user", "open_add")
  <2>1. PICK s \in Slots :
             /\ slab[s] = "free"
             /\ slab' = [slab EXCEPT ![s] = "live"]
             /\ ptr' = [ptr EXCEPT ![p] = s]
             /\ Goto(p, "user", "open_add")
    BY <1>3
  <2>2. \A i \in 1 .. Len(evlist) : evlist[i] \in Slots /\ evlist[i] # s
    BY <2>1, ElementOfSeq DEF SlotInv, TypeInv, TypeOK, TableType
  <2>3. \A q \in Procs \ {p} : pc'[q] = pc[q] /\ ptr'[q] = ptr[q]
    BY <2>1 DEF Goto, TypeInv, TypeOK, LocalType
  <2>4. pc'[p] = "open_add" /\ ptr'[p] = s
    BY <2>1 DEF Goto, TypeInv, TypeOK, LocalType
  <2>5. \A q \in Procs \ {p} : pc[q] = "open_add" => ptr[q] # s /\ ptr[q] \in Slots
    BY <2>1 DEF SlotInv, TypeInv, PtrOK, HoldsEvent
  <2>6. slab'[s] = "live" /\ \A t \in Slots \ {s} : slab'[t] = slab[t]
    BY <2>1 DEF TypeInv, TypeOK, TableType
  <2>7. SlotInv'
    BY <1>1, <2>2, <2>3, <2>4, <2>5, <2>6 DEF SlotInv
  <2>8. IdInv'
    BY <1>1 DEF IdInv
  <2> QED
    BY <2>7, <2>8
<1> QED
  BY <1>2, <1>3 DEF doeventopen_kmalloc

LEMMA Table_doeventopen_add ==
  ASSUME TypeInv, SlotInv, IdInv, NEW p \in Procs, doeventopen_add(p)
  PROVE  SlotInv' /\ IdInv'
<1>1. CASE Corrupts
  <2>1. KeepsTable
    BY <1>1 DEF Corrupts, KeepsTable, tableVars, localVars
  <2> QED
    BY <2>1, KeptTable
<1>2. CASE ~Corrupts
  <2> DEFINE s == ptr[p]
             n == Len(evlist)
  <2>1. /\ pc[p] = "open_add"
        /\ evlist' = Append(evlist, s)
        /\ ev' = [ev EXCEPT ![s] =
              [id |-> IncInt(LastId), uid |-> Euid[p], gid |-> Egid[p],
               uidFlag |-> 1, gidFlag |-> 1, condition |-> 0]]
        /\ opens' = opens + 1
        /\ pc' = [pc EXCEPT ![p] = "open_ret"]
        /\ UNCHANGED <<slab, ptr>>
    BY <1>2 DEF doeventopen_add, Goto, localVars
  <2>2. s \in Slots /\ slab[s] = "live" /\ \A i \in 1 .. n : evlist[i] # s
    BY <2>1 DEF SlotInv, TypeInv, PtrOK, HoldsEvent
  <2>3. /\ n \in Nat
        /\ Len(evlist') = n + 1
        /\ \A i \in 1 .. n : evlist'[i] = evlist[i] /\ evlist[i] \in Slots
        /\ evlist'[n + 1] = s
    BY <2>1, <2>2, AppendProperties, ElementOfSeq, LenProperties
       DEF TypeInv, TypeOK, TableType
  <2>4. ev'[s].id = IncInt(LastId)
    BY <2>1, <2>2 DEF TypeInv, TypeOK, TableType
  <2>5. \A t \in Slots \ {s} : ev'[t].id = ev[t].id
    BY <2>1 DEF TypeInv, TypeOK, TableType
  <2>6. /\ pc'[p] = "open_ret"
        /\ \A q \in Procs \ {p} : pc'[q] = pc[q]
    BY <2>1 DEF TypeInv, TypeOK
  <2>7. opens \in Nat /\ IntMax \in Nat
    BY ConstantsAssumption DEF TypeInv, TypeOK, GhostType
  <2> HIDE DEF s, n
  <2>8. SlotInv'
    <3>1. \A i \in 1 .. Len(evlist') : slab'[evlist'[i]] = "live"
      BY <2>1, <2>2, <2>3 DEF SlotInv, n
    <3>2. \A i, j \in 1 .. Len(evlist') : evlist'[i] = evlist'[j] => i = j
      BY <2>2, <2>3 DEF SlotInv, n
    <3>3. \A q \in Procs \ {p} : pc[q] = "open_add" => ptr[q] # s
      BY <2>1 DEF SlotInv, s
    <3>4. \A q \in Procs : pc'[q] = "open_add" =>
            /\ slab'[ptr'[q]] = "live"
            /\ \A i \in 1 .. Len(evlist') : evlist'[i] # ptr'[q]
      BY <2>1, <2>3, <2>6, <3>3 DEF SlotInv, n
    <3>5. \A q, r \in Procs :
            pc'[q] = "open_add" /\ pc'[r] = "open_add" /\ ptr'[q] = ptr'[r]
              => q = r
      BY <2>1, <2>6 DEF SlotInv
    <3> QED
      BY <3>1, <3>2, <3>4, <3>5 DEF SlotInv
  <2>9. IdInv'
    <3> SUFFICES ASSUME opens + 1 <= IntMax + 1
                 PROVE  /\ \A i \in 1 .. Len(evlist') :
                             /\ 0 <= ev'[evlist'[i]].id
                             /\ ev'[evlist'[i]].id < opens + 1
                        /\ \A i, j \in 1 .. Len(evlist') :
                             i < j => ev'[evlist'[i]].id < ev'[evlist'[j]].id
      BY <2>1 DEF IdInv
    <3>1. /\ \A i \in 1 .. n : 0 <= ev[evlist[i]].id /\ ev[evlist[i]].id < opens
          /\ \A i, j \in 1 .. n : i < j => ev[evlist[i]].id < ev[evlist[j]].id
      BY <2>7 DEF IdInv, n
    <3>2. \A i \in 1 .. n : ev[evlist[i]].id \in Int
      BY <2>3 DEF TypeInv, TypeOK, TableType, Event
    <3>3. \A i \in 1 .. n : ev'[evlist'[i]].id = ev[evlist[i]].id
      BY <2>2, <2>3, <2>5
    <3>4. /\ LastId \in Int /\ LastId >= -1 /\ LastId < opens
          /\ \A i \in 1 .. n : ev[evlist[i]].id <= LastId
      <4>1. CASE evlist = <<>>
        <5>1. n = 0
          BY <4>1, EmptySeq DEF n
        <5> QED
          BY <4>1, <5>1, <2>7 DEF LastId
      <4>2. CASE evlist # <<>>
        <5>1. n \in 1 .. n
          BY <4>2, <2>3, EmptySeq DEF n, TypeInv, TypeOK, TableType
        <5>2. LastId = ev[evlist[n]].id
          BY <4>2 DEF LastId, Last, n
        <5>3. \A i \in 1 .. n : i < n \/ i = n
          BY <2>3
        <5> QED
          BY <5>1, <5>2, <5>3, <3>1, <3>2
      <4> QED
        BY <4>1, <4>2
    <3>5. IncInt(LastId) = LastId + 1
      BY <3>4, <2>7 DEF IncInt
    <3>6. ev'[evlist'[n + 1]].id = LastId + 1
      BY <2>3, <2>4, <3>5
    <3>7. ASSUME NEW i \in 1 .. Len(evlist')
          PROVE  0 <= ev'[evlist'[i]].id /\ ev'[evlist'[i]].id < opens + 1
      <4>1. i \in 1 .. n \/ i = n + 1
        BY <2>3
      <4> QED
        BY <4>1, <3>1, <3>2, <3>3, <3>4, <3>6, <2>7
    <3>8. ASSUME NEW i \in 1 .. Len(evlist'), NEW j \in 1 .. Len(evlist'), i < j
          PROVE  ev'[evlist'[i]].id < ev'[evlist'[j]].id
      <4>1. i \in 1 .. n /\ (j \in 1 .. n \/ j = n + 1)
        BY <2>3, <3>8
      <4> QED
        BY <4>1, <3>1, <3>2, <3>3, <3>4, <3>6, <3>8
    <3> QED
      BY <3>7, <3>8
  <2> QED
    BY <2>8, <2>9
<1> QED
  BY <1>1, <1>2

LEMMA Table_doeventclose_del ==
  ASSUME TypeInv, SlotInv, IdInv, NEW p \in Procs, doeventclose_del(p)
  PROVE  SlotInv' /\ IdInv'
<1>1. /\ evlist' = list_del_init(evlist, ptr[p])
      /\ UNCHANGED <<ev, slab, ptr, opens>>
      /\ \A q \in Procs : pc'[q] = "open_add" => pc[q] = "open_add"
  BY DEF doeventclose_del, Goto, localVars, ghostVars, TypeInv, TypeOK
<1>2. evlist \in Seq(Slots) /\ Len(evlist) \in Nat
  BY LenProperties DEF TypeInv, TypeOK, TableType
<1>3. CASE evlist' = evlist
  <2>1. KeepsTable
    BY <1>1, <1>3 DEF KeepsTable
  <2> QED
    BY <2>1, KeptTable
<1>4. CASE evlist' # evlist
  <2>1. PICK d \in 1 .. Len(evlist) :
          /\ Len(evlist') = Len(evlist) - 1
          /\ \A k \in 1 .. Len(evlist) - 1 :
               evlist'[k] = IF k < d THEN evlist[k] ELSE evlist[k + 1]
    BY <1>1, <1>2, <1>4, ListDelInit
  <2> DEFINE f == [k \in 1 .. Len(evlist') |-> IF k < d THEN k ELSE k + 1]
  <2>2. \A k \in 1 .. Len(evlist') :
          f[k] \in 1 .. Len(evlist) /\ evlist'[k] = evlist[f[k]]
    BY <1>2, <2>1
  <2>3. \A k, l \in 1 .. Len(evlist') :
          (k < l => f[k] < f[l]) /\ (f[k] = f[l] => k = l)
    BY <1>2, <2>1
  <2> HIDE DEF f
  <2>4. SlotInv'
    <3>1. \A i \in 1 .. Len(evlist') : slab'[evlist'[i]] = "live"
      BY <1>1, <2>2 DEF SlotInv
    <3>2. \A i, j \in 1 .. Len(evlist') : evlist'[i] = evlist'[j] => i = j
      BY <2>2, <2>3 DEF SlotInv
    <3>3. \A q \in Procs : pc'[q] = "open_add" =>
            /\ slab'[ptr'[q]] = "live"
            /\ \A i \in 1 .. Len(evlist') : evlist'[i] # ptr'[q]
      BY <1>1, <2>2 DEF SlotInv
    <3>4. \A q, r \in Procs :
            pc'[q] = "open_add" /\ pc'[r] = "open_add" /\ ptr'[q] = ptr'[r]
              => q = r
      BY <1>1 DEF SlotInv
    <3> QED
      BY <3>1, <3>2, <3>3, <3>4 DEF SlotInv
  <2>5. IdInv'
    <3>1. \A k \in 1 .. Len(evlist') : ev'[evlist'[k]].id = ev[evlist[f[k]]].id
      BY <1>1, <2>2
    <3> SUFFICES ASSUME opens <= IntMax + 1
                 PROVE  /\ \A k \in 1 .. Len(evlist') :
                             /\ 0 <= ev'[evlist'[k]].id
                             /\ ev'[evlist'[k]].id < opens
                        /\ \A k, l \in 1 .. Len(evlist') :
                             k < l => ev'[evlist'[k]].id < ev'[evlist'[l]].id
      BY <1>1 DEF IdInv
    <3>2. /\ \A i \in 1 .. Len(evlist) :
               0 <= ev[evlist[i]].id /\ ev[evlist[i]].id < opens
          /\ \A i, j \in 1 .. Len(evlist) :
               i < j => ev[evlist[i]].id < ev[evlist[j]].id
      BY DEF IdInv
    <3> QED
      BY <2>2, <2>3, <3>1, <3>2
  <2> QED
    BY <2>4, <2>5
<1> QED
  BY <1>3, <1>4

LEMMA Table_doeventclose_free ==
  ASSUME TypeInv, SlotInv, IdInv, NEW p \in Procs, doeventclose_free(p)
  PROVE  SlotInv' /\ IdInv'
<1>1. CASE Corrupts
  <2>1. KeepsTable
    BY <1>1 DEF Corrupts, KeepsTable, tableVars, localVars
  <2> QED
    BY <2>1, KeptTable
<1>2. CASE ~Corrupts
  <2> DEFINE s == ptr[p]
  <2>1. /\ Freeable(s)
        /\ slab' = [slab EXCEPT ![s] = "free"]
        /\ ev' = [ev EXCEPT ![s].id = FreePtr[1], ![s].uid = FreePtr[2]]
        /\ pc' = [pc EXCEPT ![p] = "return"]
        /\ UNCHANGED <<evlist, ptr, opens>>
    BY <1>2 DEF doeventclose_free, Returns, ghostVars
  <2> HIDE DEF s
  <2>2. \A i \in 1 .. Len(evlist) : evlist[i] \in Slots /\ evlist[i] # s
    BY <2>1, ElementOfSeq DEF Freeable, Contains, TypeInv, TypeOK, TableType
  <2>3. \A t \in Slots \ {s} : slab'[t] = slab[t] /\ ev'[t].id = ev[t].id
    BY <2>1 DEF TypeInv, TypeOK, TableType
  <2>4. \A q \in Procs : pc'[q] = "open_add" =>
          pc[q] = "open_add" /\ ptr[q] # s /\ ptr[q] \in Slots
    BY <2>1 DEF Freeable, TypeInv, TypeOK, PtrOK, HoldsEvent
  <2>5. SlotInv'
    BY <2>1, <2>2, <2>3, <2>4 DEF SlotInv
  <2>6. \A i \in 1 .. Len(evlist) : ev'[evlist[i]].id = ev[evlist[i]].id
    BY <2>2, <2>3
  <2>7. IdInv'
    <3>1. evlist' = evlist /\ opens' = opens
      BY <2>1
    <3>2. \A i \in 1 .. Len(evlist) : ev'[evlist'[i]].id = ev[evlist[i]].id
      BY <2>6, <3>1
    <3> QED
      BY <3>1, <3>2 DEF IdInv
  <2> QED
    BY <2>5, <2>7
<1> QED
  BY <1>1, <1>2

-----------------------------------------------------------------------------
(* The theorems *)

LEMMA TableInit == Init => SlotInv /\ IdInv
<1> SUFFICES ASSUME Init PROVE SlotInv /\ IdInv
  OBVIOUS
<1>1. Len(evlist) = 0 /\ \A p \in Procs : pc[p] # "open_add"
  BY EmptySeq DEF Init
<1> QED
  BY <1>1 DEF SlotInv, IdInv

LEMMA TableStep ==
  ASSUME TypeInv, SlotInv, IdInv, NEW p \in Procs,
         Steps(p) \/ UnixSignal(p) \/ stack_reused(p) \/ slab_reused(p)
  PROVE  SlotInv' /\ IdInv'
<1>1. CASE open(p)
  BY <1>1, TableSteps, KeptTable, Table_doeventopen_kmalloc,
     Table_doeventopen_add DEF open
<1>2. CASE fire(p)
  BY <1>2, TableSteps, KeptTable, Table_doeventclose_del,
     Table_doeventclose_free DEF fire
<1>3. CASE wait(p)
  BY <1>3, TableSteps, KeptTable DEF wait
<1>4. CASE admin(p)
  BY <1>4, TableSteps, KeptTable DEF admin
<1>5. CASE Return(p)
  BY <1>5, TableSteps, KeptTable
<1>6. CASE UnixSignal(p) \/ stack_reused(p) \/ slab_reused(p)
  BY <1>6, TableSteps, KeptTable
<1> QED
  BY <1>1, <1>2, <1>3, <1>4, <1>5, <1>6 DEF Steps

LEMMA TableStutter == SlotInv /\ IdInv /\ UNCHANGED vars => SlotInv' /\ IdInv'
  BY DEF vars, tableVars, localVars, ghostVars, SlotInv, IdInv

\* A listed event is allocated, and listed once, and the ids are in order.
THEOREM TableInvariant == Spec => [](SlotInv /\ IdInv)
<1>1. TypeInv /\ SlotInv /\ IdInv /\ [Next]_vars => SlotInv' /\ IdInv'
  <2> SUFFICES ASSUME TypeInv, SlotInv, IdInv, [Next]_vars
               PROVE  SlotInv' /\ IdInv'
    OBVIOUS
  <2>1. CASE Next
    BY <2>1, TableStep, TableStutter DEF Next, Corrupted
  <2>2. CASE UNCHANGED vars
    BY <2>2, TableStutter
  <2> QED
    BY <2>1, <2>2
<1> QED
  BY <1>1, TableInit, TypeInvariant, PTL DEF Spec

\* Until doeventopen has used up the ints, the ids of the listed events are
\* nonnegative and strictly increasing along the list, for every number of
\* opens and closes and however they interleave.
THEOREM IdsIncreasingAlways == Spec => []IdsIncreasing
<1>1. IdInv => IdsIncreasing
  BY DEF IdInv, IdsIncreasing
<1> QED
  BY <1>1, TableInvariant, PTL
=============================================================================
