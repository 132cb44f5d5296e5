---------------------------- MODULE EventsQueues ----------------------------
(***************************************************************************)
(* No wake-up is missed, wait entries are linked as they should be, and    *)
(* doeventwait returns only to who has heard a signal, for every number of *)
(* processes, slots and events.  SleepInv says who is off the run queue;   *)
(* WakeInv extends NoMissedWakeup to the window in which a waiter has      *)
(* looked at the condition and is about to sleep; HeardInv follows what a  *)
(* waiter may have seen since its own reset.                               *)
(***************************************************************************)
EXTENDS EventsTypes

-----------------------------------------------------------------------------
(* Lists *)

\* No element occurs twice.
Distinct(q) == \A i, j \in 1 .. Len(q) : q[i] = q[j] => i = j

\* list_del_init takes an entry off and leaves the others,
LEMMA DelInit ==
  ASSUME NEW S, NEW q \in Seq(S), Distinct(q), NEW e
  PROVE  /\ Distinct(list_del_init(q, e))
         /\ \A x : Contains(list_del_init(q, e), x) <=> Contains(q, x) /\ x # e
<1>0. Len(q) \in Nat
  BY LenProperties
<1>1. CASE ~Contains(q, e)
  BY <1>1 DEF list_del_init, Contains
<1>2. CASE Contains(q, e)
  <2>1. PICK i \in 1 .. Len(q) : /\ q[i] = e
                                 /\ list_del_init(q, e) = RemoveAt(q, i)
    BY <1>2 DEF list_del_init, Contains
  <2>2. PICK r : r = list_del_init(q, e)
    OBVIOUS
  <2>3. /\ Len(r) = Len(q) - 1
        /\ \A k \in 1 .. Len(q) - 1 : r[k] = IF k < i THEN q[k] ELSE q[k + 1]
    BY <2>1, <2>2, RemoveAtProperties
  <2>4. Distinct(r)
    <3> SUFFICES ASSUME NEW k \in 1 .. Len(q) - 1, NEW l \in 1 .. Len(q) - 1,
                        r[k] = r[l]
                 PROVE  k = l
      BY <2>3 DEF Distinct
    <3>1. PICK a \in 1 .. Len(q), b \in 1 .. Len(q) :
            /\ a = IF k < i THEN k ELSE k + 1
            /\ b = IF l < i THEN l ELSE l + 1
      BY <1>0
    <3>2. q[a] = q[b]
      BY <2>3, <3>1
    <3>3. a = b
      BY <3>2 DEF Distinct
    <3> QED
      BY <1>0, <3>1, <3>3
  <2>5. ASSUME NEW x
        PROVE  Contains(r, x) <=> Contains(q, x) /\ x # e
    <3>1. ASSUME Contains(r, x)
          PROVE  Contains(q, x) /\ x # e
      <4>1. PICK k \in 1 .. Len(q) - 1 : r[k] = x
        BY <2>3, <3>1 DEF Contains
      <4>2. PICK a \in 1 .. Len(q) : a = (IF k < i THEN k ELSE k + 1) /\ a # i
        BY <1>0
      <4>3. q[a] = x
        BY <2>3, <4>1, <4>2
      <4> QED
        BY <2>1, <4>2, <4>3 DEF Contains, Distinct
    <3>2. ASSUME Contains(q, x), x # e
          PROVE  Contains(r, x)
      <4>1. PICK a \in 1 .. Len(q) : q[a] = x /\ a # i
        BY <2>1, <3>2 DEF Contains
      <4>2. PICK k \in 1 .. Len(q) - 1 : k = IF a < i THEN a ELSE a - 1
        BY <1>0, <4>1
      <4>3. r[k] = x
        BY <1>0, <2>3, <4>1, <4>2
      <4> QED
        BY <2>3, <4>3 DEF Contains
    <3> QED
      BY <3>1, <3>2
  <2> QED
    BY <2>2, <2>4, <2>5
<1> QED
  BY <1>1, <1>2

\* list_add links an entry that was not linked,
LEMMA ConsLinks ==
  ASSUME NEW S, NEW q \in Seq(S), Distinct(q), NEW e \in S, ~Contains(q, e)
  PROVE  /\ Distinct(Cons(e, q))
         /\ \A x : Contains(Cons(e, q), x) <=> Contains(q, x) \/ x = e
<1>0. Len(q) \in Nat
  BY LenProperties
<1>1. PICK r : r = Cons(e, q)
  OBVIOUS
<1>2. /\ Len(r) = Len(q) + 1 /\ r[1] = e
      /\ \A k \in 1 .. Len(q) : r[k + 1] = q[k]
  BY <1>0, <1>1, ConcatProperties DEF Cons
<1>3. \A k \in 1 .. Len(q) + 1 : k = 1 \/ k - 1 \in 1 .. Len(q)
  BY <1>0
<1>4. \A k \in 1 .. Len(q) + 1 : k = 1 \/ r[k] = q[k - 1]
  <2> SUFFICES ASSUME NEW k \in 1 .. Len(q) + 1, k # 1
               PROVE  r[k] = q[k - 1]
    OBVIOUS
  <2>1. PICK l \in 1 .. Len(q) : k = l + 1 /\ l = k - 1
    BY <1>0, <1>3
  <2> QED
    BY <1>2, <2>1
<1>5. Distinct(r)
  <2> SUFFICES ASSUME NEW i \in 1 .. Len(q) + 1, NEW j \in 1 .. Len(q) + 1,
                      r[i] = r[j]
               PROVE  i = j
    BY <1>2 DEF Distinct
  <2>1. \A k \in 1 .. Len(q) : q[k] # e
    BY DEF Contains
  <2>2. i = 1 <=> j = 1
    BY <1>2, <1>3, <1>4, <2>1
  <2>3. CASE i # 1
    <3>1. q[i - 1] = q[j - 1] /\ i - 1 \in 1 .. Len(q) /\ j - 1 \in 1 .. Len(q)
      BY <1>3, <1>4, <2>2, <2>3
    <3>2. i - 1 = j - 1
      BY <3>1 DEF Distinct
    <3> QED
      BY <1>0, <3>2
  <2> QED
    BY <2>2, <2>3
<1>6. ASSUME NEW x
      PROVE  Contains(r, x) <=> Contains(q, x) \/ x = e
  <2>1. Contains(r, x) => Contains(q, x) \/ x = e
    BY <1>2, <1>3, <1>4 DEF Contains
  <2>2. Contains(q, x) => Contains(r, x)
    <3> SUFFICES ASSUME NEW k \in 1 .. Len(q), q[k] = x
                 PROVE  Contains(r, x)
      BY DEF Contains
    <3>1. k + 1 \in 1 .. Len(r) /\ r[k + 1] = x
      BY <1>0, <1>2
    <3> QED
      BY <3>1 DEF Contains
  <2>3. x = e => Contains(r, x)
    <3>1. 1 \in 1 .. Len(r)
      BY <1>0, <1>2
    <3> QED
      BY <1>2, <3>1 DEF Contains
  <2> QED
    BY <2>1, <2>2, <2>3
<1> QED
  BY <1>1, <1>5, <1>6

\* and a walk that has passed the first entry has the others to go.
LEMMA TailContains ==
  ASSUME NEW S, NEW q \in Seq(S), q # <<>>, NEW x, Contains(q, x), x # Head(q)
  PROVE  Contains(Tail(q), x)
<1>1. /\ Len(q) \in Nat /\ Len(Tail(q)) = Len(q) - 1 /\ Head(q) = q[1]
      /\ \A i \in 1 .. Len(q) - 1 : Tail(q)[i] = q[i + 1]
  BY HeadTailProperties, LenProperties
<1>2. PICK i \in 1 .. Len(q) : q[i] = x /\ i # 1
  BY <1>1 DEF Contains
<1>3. i - 1 \in 1 .. Len(q) - 1 /\ (i - 1) + 1 = i
  BY <1>1, <1>2
<1>4. Tail(q)[i - 1] = x
  BY <1>1, <1>2, <1>3
<1> QED
  BY <1>1, <1>3, <1>4 DEF Contains

LEMMA EmptyContains == \A x : ~Contains(<<>>, x)
<1>1. Len(<<>>) = 0
  BY EmptySeq
<1> QED
  BY <1>1 DEF Contains

-----------------------------------------------------------------------------
(* The invariants *)

\* Where a process's entry may be linked
Linkable == InWait \ {"wait_reset", "wait_first"}

\* Only a process that doeventwait has put to sleep is off the run queue, and
\* it can be woken.
SleepInv ==
  \A p \in Procs : ~onRq[p] => pc[p] = "wait_sleep" /\ state[p] = "INTERRUPTIBLE"

\* p sleeps, or will on its next step unless it is woken or interrupted.
Sleepy(p) ==
  \/ ~onRq[p]
  \/ pc[p] = "wait_sched" /\ state[p] = "INTERRUPTIBLE"

WakeInv ==
  \A p \in Procs :
    Sleepy(p) /\ ev[ptr[p]].condition = 1 => \E q \in Procs : WillWake(q, p)

QueueInv == SleepInv /\ QueueDiscipline /\ WakeInv

-----------------------------------------------------------------------------
(* Steps that do not concern the queues *)

\* A step of p that changes no queue and whose process is in none
Apart(p) ==
  /\ UNCHANGED <<queue, state, onRq>>
  /\ pc[p] \notin Linkable /\ pc'[p] \notin Linkable \ {"wait_prep"}
  /\ \A q \in Procs \ {p} :
       pc'[q] = pc[q] /\ ptr'[q] = ptr[q] /\ todo'[q] = todo[q]

\* A step of p that fires no event and is no part of waking
Mild(p) ==
  /\ pc[p] \notin {"wake_lock", "wake"}
  /\ \A s \in Slots : ev'[s].condition = 1 => ev[s].condition = 1

\* Most steps are of this kind,
LEMMA ApartSteps ==
  ASSUME TypeInv, NEW p \in Procs,
         \/ doeventopen_kmalloc(p) \/ doeventopen_add(p)
         \/ doeventopen_return(p) \/ doeventclose_lookup(p)
         \/ doeventsig_lookup(p) \/ check_active(p) \/ take_write_lock(p)
         \/ count_waiter(p) \/ doeventclose_del(p) \/ doeventclose_free(p)
         \/ doeventwait_lookup(p) \/ doeventwait_reset(p)
         \/ doeventwait_first(p) \/ doeventchown_lookup(p)
         \/ doeventchmod_lookup(p) \/ set_first(p) \/ set_second(p)
         \/ doeventinfo_args(p) \/ doeventinfo_lock(p) \/ doeventinfo_walk(p)
         \/ doeventinfo_copy(p) \/ doeventstat_lookup(p)
         \/ doeventstat_copy(p) \/ Return(p)
  PROVE  Corrupts \/ Apart(p)
<1>1. CASE doeventopen_kmalloc(p)
  BY <1>1 DEF doeventopen_kmalloc, Enter, Goto, Returns, deliver_signal, Apart,
     Linkable, InWait, TypeInv, TypeOK, LocalType, wqVars, localVars
<1>2. CASE doeventopen_add(p)
  BY <1>2 DEF doeventopen_add, Goto, deliver_signal, Apart, Linkable,
     InWait, TypeInv, TypeOK, LocalType, wqVars, localVars
<1>3. CASE doeventopen_return(p)
  BY <1>3 DEF doeventopen_return, Returns, deliver_signal, Apart, Linkable,
     InWait, TypeInv, TypeOK, LocalType, wqVars, localVars
<1>4. CASE doeventclose_lookup(p)
  BY <1>4 DEF doeventclose_lookup, LookupValidated, Enter, GoesOn, Goto,
     Returns, deliver_signal, Apart, Linkable, InWait, TypeInv, TypeOK,
     LocalType, wqVars, localVars
<1>5. CASE doeventsig_lookup(p)
  BY <1>5 DEF doeventsig_lookup, LookupValidated, Enter, GoesOn, Goto, Returns,
     deliver_signal, Apart, Linkable, InWait, TypeInv, TypeOK, LocalType,
     wqVars, localVars
<1>6. CASE check_active(p)
  BY <1>6 DEF check_active, Goto, Returns, deliver_signal, Apart, Linkable,
     InWait, TypeInv, TypeOK, LocalType, wqVars, localVars
<1>7. CASE take_write_lock(p)
  BY <1>7 DEF take_write_lock, Goto, deliver_signal, Apart, Linkable, InWait,
     TypeInv, TypeOK, LocalType, wqVars, localVars
<1>8. CASE count_waiter(p)
  BY <1>8 DEF count_waiter, Goto, deliver_signal, Apart, Linkable, InWait,
     TypeInv, TypeOK, LocalType, wqVars, localVars
<1>9. CASE doeventclose_del(p)
  BY <1>9 DEF doeventclose_del, Goto, deliver_signal, Apart, Linkable, InWait,
     TypeInv, TypeOK, LocalType, wqVars, localVars
<1>10. CASE doeventclose_free(p)
  BY <1>10 DEF doeventclose_free, Returns, deliver_signal, Apart,
     Linkable, InWait, TypeInv, TypeOK, LocalType, wqVars, localVars
<1>11. CASE doeventwait_lookup(p)
  BY <1>11 DEF doeventwait_lookup, LookupValidated, Enter, GoesOn, Goto,
     Returns, deliver_signal, Apart, Linkable, InWait, TypeInv, TypeOK,
     LocalType, wqVars, localVars
<1>12. CASE doeventwait_reset(p)
  BY <1>12 DEF doeventwait_reset, Goto, deliver_signal, Apart, Linkable,
     InWait, TypeInv, TypeOK, LocalType, wqVars, localVars
<1>13. CASE doeventwait_first(p)
  BY <1>13 DEF doeventwait_first, Goto, Returns, deliver_signal, Apart,
     Linkable, InWait, TypeInv, TypeOK, LocalType, wqVars, localVars
<1>14. CASE doeventchown_lookup(p)
  BY <1>14 DEF doeventchown_lookup, LookupOwned, Enter, GoesOn, Goto, Returns,
     deliver_signal, Apart, Linkable, InWait, TypeInv, TypeOK,
     LocalType, wqVars, localVars
<1>15. CASE doeventchmod_lookup(p)
  BY <1>15 DEF doeventchmod_lookup, LookupOwned, Enter, GoesOn, Goto, Returns,
     deliver_signal, Apart, Linkable, InWait, TypeInv, TypeOK,
     LocalType, wqVars, localVars
<1>16. CASE set_first(p)
  BY <1>16 DEF set_first, Goto, deliver_signal, Apart, Linkable,
     InWait, TypeInv, TypeOK, LocalType, wqVars, localVars
<1>17. CASE set_second(p)
  BY <1>17 DEF set_second, Returns, deliver_signal, Apart, Linkable, InWait,
     TypeInv, TypeOK, LocalType, wqVars, localVars
<1>18. CASE doeventinfo_args(p)
  BY <1>18 DEF doeventinfo_args, Enter, Goto, Returns, deliver_signal, Apart,
     Linkable, InWait, TypeInv, TypeOK, LocalType, wqVars, localVars
<1>19. CASE doeventinfo_lock(p)
  BY <1>19 DEF doeventinfo_lock, Goto, deliver_signal, Apart, Linkable, InWait,
     TypeInv, TypeOK, LocalType, wqVars, localVars
<1>20. CASE doeventinfo_walk(p)
  BY <1>20 DEF doeventinfo_walk, Goto, deliver_signal, Apart, Linkable, InWait,
     TypeInv, TypeOK, LocalType, wqVars, localVars
<1>21. CASE doeventinfo_copy(p)
  BY <1>21 DEF doeventinfo_copy, Returns, deliver_signal, Apart, Linkable,
     InWait, TypeInv, TypeOK, LocalType, wqVars, localVars
<1>22. CASE doeventstat_lookup(p)
  BY <1>22 DEF doeventstat_lookup, Enter, Goto, Returns, deliver_signal, Apart,
     Linkable, InWait, TypeInv, TypeOK, LocalType, wqVars, localVars
<1>23. CASE doeventstat_copy(p)
  BY <1>23 DEF doeventstat_copy, Returns, deliver_signal, Apart, Linkable,
     InWait, TypeInv, TypeOK, LocalType, wqVars, localVars
<1>24. CASE Return(p)
  BY <1>24 DEF Return, Goto, deliver_signal, Apart, Linkable, InWait, TypeInv,
     TypeOK, LocalType, wqVars, localVars
<1> QED
  BY <1>1, <1>2, <1>3, <1>4, <1>5, <1>6, <1>7, <1>8, <1>9, <1>10, <1>11, <1>12,
     <1>13, <1>14, <1>15, <1>16, <1>17, <1>18, <1>19, <1>20, <1>21, <1>22,
     <1>23, <1>24

\* and of this one.
LEMMA MildSteps ==
  ASSUME TypeInv, NEW p \in Procs,
         \/ doeventopen_kmalloc(p) \/ doeventopen_return(p)
         \/ doeventclose_lookup(p) \/ doeventsig_lookup(p) \/ check_active(p)
         \/ take_write_lock(p) \/ count_waiter(p) \/ doeventclose_del(p)
         \/ doeventwait_lookup(p) \/ doeventwait_reset(p)
         \/ doeventwait_first(p) \/ doeventchown_lookup(p)
         \/ doeventchmod_lookup(p) \/ set_second(p) \/ doeventinfo_args(p)
         \/ doeventinfo_lock(p) \/ doeventinfo_walk(p) \/ doeventinfo_copy(p)
         \/ doeventstat_lookup(p) \/ doeventstat_copy(p) \/ Return(p)
  PROVE  Corrupts \/ Mild(p)
<1>1. CASE doeventopen_kmalloc(p)
  BY <1>1 DEF doeventopen_kmalloc, Enter, Goto, Returns, Mild, TypeInv, TypeOK,
     TableType, Event, tableVars
<1>2. CASE doeventopen_return(p)
  BY <1>2 DEF doeventopen_return, Returns, Mild, TypeInv, TypeOK, TableType,
     Event, tableVars
<1>3. CASE doeventclose_lookup(p)
  BY <1>3 DEF doeventclose_lookup, LookupValidated, Enter, GoesOn, Goto,
     Returns, Mild, TypeInv, TypeOK, TableType, Event, tableVars
<1>4. CASE doeventsig_lookup(p)
  BY <1>4 DEF doeventsig_lookup, LookupValidated, Enter, GoesOn, Goto, Returns,
     Mild, TypeInv, TypeOK, TableType, Event, tableVars
<1>5. CASE check_active(p)
  BY <1>5 DEF check_active, Goto, Returns, Mild, TypeInv, TypeOK, TableType,
     Event, tableVars
<1>6. CASE take_write_lock(p)
  BY <1>6 DEF take_write_lock, Goto, Mild, TypeInv, TypeOK, TableType, Event,
     tableVars
<1>7. CASE count_waiter(p)
  BY <1>7 DEF count_waiter, Goto, Mild, TypeInv, TypeOK, TableType, Event,
     tableVars
<1>8. CASE doeventclose_del(p)
  BY <1>8 DEF doeventclose_del, Goto, Mild, TypeInv, TypeOK, TableType, Event,
     tableVars
<1>9. CASE doeventwait_lookup(p)
  BY <1>9 DEF doeventwait_lookup, LookupValidated, Enter, GoesOn, Goto,
     Returns, Mild, TypeInv, TypeOK, TableType, Event, tableVars
<1>10. CASE doeventwait_reset(p)
  BY <1>10 DEF doeventwait_reset, Goto, Mild, TypeInv, TypeOK, TableType,
     Event, tableVars
<1>11. CASE doeventwait_first(p)
  BY <1>11 DEF doeventwait_first, Goto, Returns, Mild, TypeInv, TypeOK,
     TableType, Event, tableVars
<1>12. CASE doeventchown_lookup(p)
  BY <1>12 DEF doeventchown_lookup, LookupOwned, Enter, GoesOn, Goto, Returns,
     Mild, TypeInv, TypeOK, TableType, Event, tableVars
<1>13. CASE doeventchmod_lookup(p)
  BY <1>13 DEF doeventchmod_lookup, LookupOwned, Enter, GoesOn, Goto, Returns,
     Mild, TypeInv, TypeOK, TableType, Event, tableVars
<1>14. CASE set_second(p)
  BY <1>14 DEF set_second, Returns, Mild, TypeInv, TypeOK, TableType, Event,
     tableVars
<1>15. CASE doeventinfo_args(p)
  BY <1>15 DEF doeventinfo_args, Enter, Goto, Returns, Mild, TypeInv, TypeOK,
     TableType, Event, tableVars
<1>16. CASE doeventinfo_lock(p)
  BY <1>16 DEF doeventinfo_lock, Goto, Mild, TypeInv, TypeOK, TableType, Event,
     tableVars
<1>17. CASE doeventinfo_walk(p)
  BY <1>17 DEF doeventinfo_walk, Goto, Mild, TypeInv, TypeOK, TableType, Event,
     tableVars
<1>18. CASE doeventinfo_copy(p)
  BY <1>18 DEF doeventinfo_copy, Returns, Mild, TypeInv, TypeOK, TableType,
     Event, tableVars
<1>19. CASE doeventstat_lookup(p)
  BY <1>19 DEF doeventstat_lookup, Enter, Goto, Returns, Mild, TypeInv, TypeOK,
     TableType, Event, tableVars
<1>20. CASE doeventstat_copy(p)
  BY <1>20 DEF doeventstat_copy, Returns, Mild, TypeInv, TypeOK, TableType,
     Event, tableVars
<1>21. CASE Return(p)
  BY <1>21 DEF Return, Goto, Mild, TypeInv, TypeOK, TableType, Event, tableVars
<1> QED
  BY <1>1, <1>2, <1>3, <1>4, <1>5, <1>6, <1>7, <1>8, <1>9, <1>10, <1>11, <1>12,
     <1>13, <1>14, <1>15, <1>16, <1>17, <1>18, <1>19, <1>20, <1>21

LEMMA Mild_doeventopen_add ==
  ASSUME TypeInv, NEW p \in Procs, doeventopen_add(p)
  PROVE  Corrupts \/ Mild(p)
<1>1. pc[p] = "open_add" /\ ptr[p] \in Slots
  BY DEF doeventopen_add, TypeInv, PtrOK, HoldsEvent
<1>2. CASE ~QueueInUse(ptr[p])
  <2>1. ASSUME NEW s \in Slots
        PROVE  ev'[s].condition = 1 => ev[s].condition = 1
    <3>1. CASE s = ptr[p]
      BY <1>1, <1>2, <3>1 DEF doeventopen_add, TypeInv, TypeOK, TableType
    <3>2. CASE s # ptr[p]
      BY <1>1, <1>2, <3>2 DEF doeventopen_add, TypeInv, TypeOK, TableType
    <3> QED
      BY <3>1, <3>2
  <2> QED
    BY <1>1, <2>1 DEF Mild
<1>3. CASE QueueInUse(ptr[p])
  BY <1>3 DEF doeventopen_add
<1> QED
  BY <1>2, <1>3

LEMMA Mild_doeventclose_free ==
  ASSUME TypeInv, NEW p \in Procs, doeventclose_free(p)
  PROVE  Corrupts \/ Mild(p)
<1>1. pc[p] = "close_free" /\ ptr[p] \in Slots
  BY DEF doeventclose_free, TypeInv, PtrOK, HoldsEvent
<1>2. CASE Freeable(ptr[p])
  <2>1. ASSUME NEW s \in Slots
        PROVE  ev'[s].condition = ev[s].condition
    <3>1. ev[s] \in Event
      BY DEF TypeInv, TypeOK, TableType
    <3>2. CASE s = ptr[p]
      <4>1. ev' = [ev EXCEPT ![s].id = FreePtr[1], ![s].uid = FreePtr[2]]
        BY <1>2, <3>2 DEF doeventclose_free
      <4>2. ev'[s] = [ev[s] EXCEPT !.id = FreePtr[1], !.uid = FreePtr[2]]
        BY <4>1 DEF TypeInv, TypeOK, TableType
      <4> QED
        BY <3>1, <4>2 DEF Event
    <3>3. CASE s # ptr[p]
      BY <1>1, <1>2, <3>3 DEF doeventclose_free, TypeInv, TypeOK, TableType
    <3> QED
      BY <3>2, <3>3
  <2> QED
    BY <1>1, <2>1 DEF Mild
<1>3. CASE ~Freeable(ptr[p])
  BY <1>3 DEF doeventclose_free
<1> QED
  BY <1>2, <1>3

LEMMA Mild_set_first ==
  ASSUME TypeInv, NEW p \in Procs, set_first(p)
  PROVE  Corrupts \/ Mild(p)
<1>1. pc[p] = "set_lock" /\ ptr[p] \in Slots
  BY DEF set_first, TypeInv, PtrOK, HoldsEvent
<1>2. CASE call[p] = "chmod" \/ slab[ptr[p]] = "live"
  <2>1. CASE ~Corrupts
    <3>1. ASSUME NEW s \in Slots
          PROVE  ev'[s].condition = ev[s].condition
      <4>1. ev[s] \in Event
        BY DEF TypeInv, TypeOK, TableType
      <4>2. ev' = IF call[p] = "chown"
                    THEN [ev EXCEPT ![ptr[p]].uid = arg[p].a]
                    ELSE [ev EXCEPT ![ptr[p]].uidFlag = arg[p].a]
        BY <1>2, <2>1 DEF set_first
      <4> QED
        BY <1>1, <4>1, <4>2 DEF TypeInv, TypeOK, TableType, Event
    <3> QED
      BY <1>1, <3>1 DEF Mild
  <2> QED
    BY <2>1
<1>3. CASE ~(call[p] = "chmod" \/ slab[ptr[p]] = "live")
  BY <1>3 DEF set_first
<1> QED
  BY <1>2, <1>3

-----------------------------------------------------------------------------
(* Their effect on the invariants *)

LEMMA QueueCorrupts == QueueInv /\ Corrupts => QueueInv'
  BY DEF QueueInv, Corrupts, SleepInv, QueueDiscipline, WakeInv, Sleepy,
     WillWake, wqVars, tableVars, localVars

\* A step apart from the queues keeps them in order,
LEMMA ApartKeeps ==
  ASSUME QueueInv, NEW p \in Procs, Apart(p)
  PROVE  SleepInv' /\ QueueDiscipline'
<1>2. SleepInv'
  BY DEF QueueInv, SleepInv, Apart, Linkable, InWait
<1>3. \A s \in Slots : ~Contains(queue[s], p)
  BY DEF QueueInv, QueueDiscipline, Apart, Linkable
<1>4. \A s \in Slots, q \in Procs : Contains(queue[s], q) =>
        /\ pc'[q] \in InWait \ {"wait_reset", "wait_first"}
        /\ ptr'[q] = s
  BY <1>3 DEF QueueInv, QueueDiscipline, Apart
<1>5. \A q \in Procs :
        \/ pc'[q] \in {"wait_cond", "wait_sched", "wait_fin", "wait_del"}
        \/ pc'[q] = "wait_sleep" /\ ~onRq[q]
        => Contains(queue[ptr'[q]], q)
  BY DEF QueueInv, QueueDiscipline, Apart, Linkable, InWait
<1> QED
  BY <1>2, <1>4, <1>5 DEF QueueInv, QueueDiscipline, Apart

\* Who is sleepy after a step apart was before, and is not p.
LEMMA ApartSleepy ==
  ASSUME QueueInv, NEW p \in Procs, Apart(p), NEW r \in Procs, Sleepy(r)'
  PROVE  /\ r # p /\ Sleepy(r) /\ ptr'[r] = ptr[r]
         /\ Contains(queue[ptr[r]], r)
<1>1. onRq' = onRq /\ state' = state
  BY DEF Apart
<1>2. r # p
  BY <1>1 DEF QueueInv, SleepInv, Apart, Sleepy, Linkable, InWait
<1>3. pc'[r] = pc[r] /\ ptr'[r] = ptr[r] /\ Sleepy(r)
  BY <1>1, <1>2 DEF Apart, Sleepy
<1> QED
  BY <1>2, <1>3 DEF QueueInv, SleepInv, QueueDiscipline, Sleepy

\* A waker other than p is still one.
LEMMA WakerStays ==
  ASSUME NEW p \in Procs, NEW q \in Procs \ {p}, NEW r \in Procs,
         pc'[q] = pc[q], ptr'[q] = ptr[q], todo'[q] = todo[q],
         ptr'[r] = ptr[r], WillWake(q, r)
  PROVE  WillWake(q, r)'
  BY DEF WillWake

\* The events that processes wait on
LEMMA SleepyHasEvent ==
  ASSUME TypeInv, SleepInv, NEW r \in Procs, Sleepy(r)
  PROVE  ptr[r] \in Slots
  BY DEF TypeInv, PtrOK, HoldsEvent, InWait, SleepInv, Sleepy

\* and if it fires nothing, nobody new needs to be woken.
LEMMA MildKeeps ==
  ASSUME TypeInv, QueueInv, NEW p \in Procs, Apart(p), Mild(p)
  PROVE  QueueInv'
<1>1. SleepInv' /\ QueueDiscipline'
  BY ApartKeeps
<1>2. ASSUME NEW r \in Procs, Sleepy(r)', (ev[ptr[r]].condition = 1)'
      PROVE  \E q \in Procs : WillWake(q, r)'
  <2>1. r # p /\ Sleepy(r) /\ ptr'[r] = ptr[r]
    BY <1>2, ApartSleepy
  <2>2. ptr[r] \in Slots
    BY <2>1, SleepyHasEvent DEF QueueInv
  <2>3. ev[ptr[r]].condition = 1
    BY <1>2, <2>1, <2>2 DEF Mild
  <2>4. PICK q \in Procs : WillWake(q, r)
    BY <2>1, <2>3 DEF QueueInv, WakeInv
  <2>5. q # p
    BY <2>4 DEF WillWake, Mild
  <2>6. WillWake(q, r)'
    BY <2>1, <2>4, <2>5, WakerStays DEF Apart
  <2> QED
    BY <2>6
<1>3. WakeInv'
  BY <1>2 DEF WakeInv
<1> QED
  BY <1>1, <1>3 DEF QueueInv

-----------------------------------------------------------------------------
(* Firing an event and waking its waiters *)

LEMMA Queue_set_condition ==
  ASSUME TypeInv, QueueInv, NEW p \in Procs, set_condition(p)
  PROVE  QueueInv'
<1>1. /\ pc[p] = "set_cond" /\ pc'[p] = "wake_lock"
      /\ ptr' = ptr /\ ptr[p] \in Slots
      /\ ev' = [ev EXCEPT ![ptr[p]].condition = 1]
  BY DEF set_condition, Goto, localVars, TypeInv, TypeOK, PtrOK, HoldsEvent
<1>2. Apart(p)
  BY DEF set_condition, Goto, localVars, wqVars, Apart, Linkable, InWait,
     TypeInv, TypeOK
<1>3. ASSUME NEW r \in Procs, Sleepy(r)', (ev[ptr[r]].condition = 1)'
      PROVE  \E q \in Procs : WillWake(q, r)'
  <2>1. r # p /\ Sleepy(r) /\ ptr'[r] = ptr[r]
    BY <1>2, <1>3, ApartSleepy
  <2>2. CASE ptr[r] = ptr[p]
    <3>1. WillWake(p, r)'
      BY <1>1, <2>2 DEF WillWake
    <3> QED
      BY <3>1
  <2>3. CASE ptr[r] # ptr[p]
    <3>1. ptr[r] \in Slots
      BY <2>1, SleepyHasEvent DEF QueueInv
    <3>2. ev[ptr[r]].condition = 1
      BY <1>1, <1>3, <2>1, <2>3, <3>1 DEF TypeInv, TypeOK, TableType
    <3>3. PICK q \in Procs : WillWake(q, r)
      BY <2>1, <3>2 DEF QueueInv, WakeInv
    <3>4. q # p
      BY <1>1, <3>3 DEF WillWake
    <3>5. WillWake(q, r)'
      BY <1>2, <2>1, <3>3, <3>4, WakerStays DEF Apart
    <3> QED
      BY <3>5
  <2> QED
    BY <2>2, <2>3
<1>4. WakeInv'
  BY <1>3 DEF WakeInv
<1> QED
  BY <1>2, <1>4, ApartKeeps DEF QueueInv

LEMMA Queue_wake_begin ==
  ASSUME TypeInv, QueueInv, NEW p \in Procs, wake_begin(p)
  PROVE  QueueInv'
<1>1. /\ pc[p] = "wake_lock" /\ pc'[p] = "wake"
      /\ ptr' = ptr /\ ptr[p] \in Slots /\ ev' = ev
      /\ todo'[p] = queue[ptr[p]]
  BY DEF wake_begin, wake_up_lock, Goto, localVars, tableVars, TypeInv, TypeOK,
     WQTypeOK, PtrOK, HoldsEvent
<1>2. Apart(p)
  BY DEF wake_begin, wake_up_lock, Goto, localVars, Apart, Linkable, InWait,
     TypeInv, TypeOK, WQTypeOK
<1>3. ASSUME NEW r \in Procs, Sleepy(r)', (ev[ptr[r]].condition = 1)'
      PROVE  \E q \in Procs : WillWake(q, r)'
  <2>1. /\ r # p /\ Sleepy(r) /\ ptr'[r] = ptr[r]
        /\ Contains(queue[ptr[r]], r)
    BY <1>2, <1>3, ApartSleepy
  <2>2. PICK q \in Procs : WillWake(q, r)
    BY <1>1, <1>3, <2>1 DEF QueueInv, WakeInv
  <2>3. CASE q = p
    <3>1. WillWake(p, r)'
      BY <1>1, <2>1, <2>2, <2>3 DEF WillWake
    <3> QED
      BY <3>1
  <2>4. CASE q # p
    <3>1. WillWake(q, r)'
      BY <1>2, <2>1, <2>2, <2>4, WakerStays DEF Apart
    <3> QED
      BY <3>1
  <2> QED
    BY <2>3, <2>4
<1>4. WakeInv'
  BY <1>3 DEF WakeInv
<1> QED
  BY <1>2, <1>4, ApartKeeps DEF QueueInv

LEMMA Queue_wake_end ==
  ASSUME TypeInv, QueueInv, NEW p \in Procs, wake_end(p)
  PROVE  QueueInv'
<1>1. /\ pc[p] = "wake" /\ todo[p] = <<>>
      /\ ptr' = ptr /\ ev' = ev
  BY DEF wake_end, wake_up_unlock, tableVars
<1>2. Apart(p)
  BY DEF wake_end, wake_up_unlock, Goto, Returns, Apart, Linkable, InWait,
     TypeInv, TypeOK
<1>3. ASSUME NEW r \in Procs, Sleepy(r)', (ev[ptr[r]].condition = 1)'
      PROVE  \E q \in Procs : WillWake(q, r)'
  <2>1. r # p /\ Sleepy(r) /\ ptr'[r] = ptr[r]
    BY <1>2, <1>3, ApartSleepy
  <2>2. PICK q \in Procs : WillWake(q, r)
    BY <1>1, <1>3, <2>1 DEF QueueInv, WakeInv
  <2>3. q # p
    BY <1>1, <2>2, EmptyContains DEF WillWake
  <2>4. WillWake(q, r)'
    BY <1>2, <2>1, <2>2, <2>3, WakerStays DEF Apart
  <2> QED
    BY <2>4
<1>4. WakeInv'
  BY <1>3 DEF WakeInv
<1> QED
  BY <1>2, <1>4, ApartKeeps DEF QueueInv

\* try_to_wake_up(t): t is on the run queue afterwards.
LEMMA WokenUp ==
  ASSUME TypeInv, SleepInv, NEW t \in Procs, try_to_wake_up(t)
  PROVE  /\ onRq'[t] /\ state'[t] = "RUNNING"
         /\ \A q \in Procs \ {t} : onRq'[q] = onRq[q] /\ state'[q] = state[q]
<1>1. onRq \in [Procs -> BOOLEAN] /\ state \in [Procs -> {"RUNNING", "INTERRUPTIBLE"}]
  BY DEF TypeInv, TypeOK, WQTypeOK
<1>2. /\ state' = [state EXCEPT ![t] = "RUNNING"]
      /\ onRq' = [onRq EXCEPT ![t] = IF Wakes(t) THEN TRUE ELSE onRq[t]]
  BY DEF try_to_wake_up
<1>3. CASE Wakes(t)
  BY <1>1, <1>2, <1>3
<1>4. CASE ~Wakes(t)
  <2>1. onRq[t]
    BY <1>4 DEF Wakes, SleepInv
  <2> QED
    BY <1>1, <1>2, <1>4, <2>1
<1> QED
  BY <1>3, <1>4

LEMMA Queue_wake_one ==
  ASSUME TypeInv, QueueInv, NEW p \in Procs, wake_one(p)
  PROVE  QueueInv'
<1>0. SleepInv /\ QueueDiscipline /\ WakeInv
  BY DEF QueueInv
<1>1. /\ pc' = pc /\ ptr' = ptr /\ ev' = ev
      /\ pc[p] = "wake" /\ todo[p] # <<>> /\ todo[p] \in Seq(Procs)
      /\ todo' = [todo EXCEPT ![p] = Tail(todo[p])]
  BY DEF wake_one, wake_up_next, localVars, tableVars, TypeInv, TypeOK, WQTypeOK
<1>2. PICK t \in Procs :
        /\ t = Head(todo[p])
        /\ try_to_wake_up(t)
        /\ queue' = IF Wakes(t)
                      THEN [u \in Slots |-> list_del_init(queue[u], t)]
                      ELSE queue
  <2>1. Head(todo[p]) \in Procs
    BY <1>1, HeadTailProperties
  <2> QED
    BY <2>1 DEF wake_one, wake_up_next
<1>3. /\ onRq'[t] /\ state'[t] = "RUNNING"
      /\ \A q \in Procs \ {t} : onRq'[q] = onRq[q] /\ state'[q] = state[q]
  BY <1>0, <1>2, WokenUp
<1>4. SleepInv'
  BY <1>0, <1>1, <1>3 DEF SleepInv
<1>5. QueueDiscipline'
  <2>1. CASE ~Wakes(t)
    BY <1>0, <1>1, <1>2, <1>3, <2>1 DEF QueueDiscipline
  <2>2. CASE Wakes(t)
    <3>1. \A s \in Slots :
            /\ Distinct(queue'[s])
            /\ \A x : Contains(queue'[s], x) <=> Contains(queue[s], x) /\ x # t
      <4> SUFFICES ASSUME NEW s \in Slots
                   PROVE  /\ Distinct(queue'[s])
                          /\ \A x : Contains(queue'[s], x)
                                     <=> Contains(queue[s], x) /\ x # t
        OBVIOUS
      <4>1. queue'[s] = list_del_init(queue[s], t)
        BY <1>2, <2>2
      <4>2. queue[s] \in Seq(Procs) /\ Distinct(queue[s])
        BY <1>0 DEF TypeInv, TypeOK, WQTypeOK, QueueDiscipline, Distinct
      <4> QED
        BY <4>1, <4>2, DelInit
    <3>2. pc[t] = "wait_sleep"
      BY <1>0, <2>2 DEF Wakes, SleepInv
    <3>3. \A q \in Procs :
            \/ pc[q] \in {"wait_cond", "wait_sched", "wait_fin", "wait_del"}
            \/ pc[q] = "wait_sleep" /\ ~onRq'[q]
            => Contains(queue[ptr[q]], q) /\ q # t /\ ptr[q] \in Slots
      BY <1>0, <1>3, <3>2
         DEF QueueDiscipline, TypeInv, PtrOK, HoldsEvent, InWait
    <3> QED
      BY <1>0, <1>1, <3>1, <3>3 DEF QueueDiscipline, Distinct
  <2> QED
    BY <2>1, <2>2
<1>6. ASSUME NEW r \in Procs, Sleepy(r)', (ev[ptr[r]].condition = 1)'
      PROVE  \E q \in Procs : WillWake(q, r)'
  <2>1. r # t /\ Sleepy(r)
    BY <1>1, <1>3, <1>6 DEF Sleepy
  <2>2. PICK q \in Procs : WillWake(q, r)
    BY <1>0, <1>1, <1>6, <2>1 DEF WakeInv
  <2>3. CASE q = p
    <3>1. Contains(Tail(todo[p]), r)
      BY <1>1, <1>2, <2>1, <2>2, <2>3, TailContains DEF WillWake
    <3>2. WillWake(p, r)'
      BY <1>1, <2>2, <2>3, <3>1 DEF WillWake, TypeInv, TypeOK, WQTypeOK
    <3> QED
      BY <3>2
  <2>4. CASE q # p
    <3>1. WillWake(q, r)'
      BY <1>1, <2>2, <2>4 DEF WillWake, TypeInv, TypeOK, WQTypeOK
    <3> QED
      BY <3>1
  <2> QED
    BY <2>3, <2>4
<1>7. WakeInv'
  BY <1>6 DEF WakeInv
<1> QED
  BY <1>4, <1>5, <1>7 DEF QueueInv

-----------------------------------------------------------------------------
(* Waiting *)

\* A step of a waiter that makes nobody else sleepy, and fires nothing
LEMMA WaiterKeeps ==
  ASSUME TypeInv, QueueInv, NEW p \in Procs,
         pc[p] \notin {"wake_lock", "wake"}, ptr' = ptr, ev' = ev, todo' = todo,
         \A q \in Procs \ {p} :
           pc'[q] = pc[q] /\ onRq'[q] = onRq[q] /\ state'[q] = state[q],
         Sleepy(p)' => Sleepy(p) \/ ev[ptr[p]].condition = 0
  PROVE  WakeInv'
<1>1. ASSUME NEW r \in Procs, Sleepy(r)', (ev[ptr[r]].condition = 1)'
      PROVE  \E q \in Procs : WillWake(q, r)'
  <2>1. ev[ptr[r]].condition = 1 /\ ptr'[r] = ptr[r]
    BY <1>1
  <2>2. Sleepy(r)
    <3>1. CASE r = p
      BY <1>1, <2>1, <3>1
    <3>2. CASE r # p
      BY <1>1, <3>2 DEF Sleepy
    <3> QED
      BY <3>1, <3>2
  <2>3. PICK q \in Procs : WillWake(q, r)
    BY <2>1, <2>2 DEF QueueInv, WakeInv
  <2>4. q # p
    BY <2>3 DEF WillWake
  <2>5. WillWake(q, r)'
    BY <2>1, <2>3, <2>4, WakerStays
  <2> QED
    BY <2>5
<1> QED
  BY <1>1 DEF WakeInv

LEMMA Queue_doeventwait_prepare ==
  ASSUME TypeInv, QueueInv, NEW p \in Procs, doeventwait_prepare(p)
  PROVE  QueueInv'
<1>0. SleepInv /\ QueueDiscipline
  BY DEF QueueInv
<1>1. /\ pc[p] = "wait_prep" /\ pc' = [pc EXCEPT ![p] = "wait_cond"]
      /\ ptr' = ptr /\ ev' = ev /\ todo' = todo /\ onRq' = onRq
      /\ state' = [state EXCEPT ![p] = "INTERRUPTIBLE"]
      /\ queue' = IF Unlinked(p)
                    THEN [queue EXCEPT ![ptr[p]] = Cons(p, queue[ptr[p]])]
                    ELSE queue
  BY DEF doeventwait_prepare, prepare_to_wait, Goto, localVars, tableVars
<1>2. ptr[p] \in Slots /\ onRq[p]
  BY <1>0, <1>1 DEF TypeInv, PtrOK, HoldsEvent, InWait, SleepInv
<1>3. /\ pc'[p] = "wait_cond"
      /\ \A q \in Procs \ {p} : pc'[q] = pc[q] /\ state'[q] = state[q]
  BY <1>1 DEF TypeInv, TypeOK, WQTypeOK
<1>4. SleepInv'
  BY <1>0, <1>1, <1>2, <1>3 DEF SleepInv
<1>5. \A s \in Slots :
        /\ Distinct(queue'[s])
        /\ \A x : Contains(queue'[s], x)
                   <=> Contains(queue[s], x) \/ (s = ptr[p] /\ x = p)
  <2>1. CASE Unlinked(p)
    <3> SUFFICES ASSUME NEW s \in Slots
                 PROVE  /\ Distinct(queue'[s])
                        /\ \A x : Contains(queue'[s], x) <=>
                             Contains(queue[s], x) \/ (s = ptr[p] /\ x = p)
      OBVIOUS
    <3>1. queue[s] \in Seq(Procs) /\ Distinct(queue[s]) /\ ~Contains(queue[s], p)
      BY <1>0, <2>1
         DEF TypeInv, TypeOK, WQTypeOK, QueueDiscipline, Distinct, Unlinked
    <3>2. CASE s = ptr[p]
      <4>1. queue'[s] = Cons(p, queue[s])
        BY <1>1, <1>2, <2>1, <3>2 DEF TypeInv, TypeOK, WQTypeOK
      <4> QED
        BY <3>1, <3>2, <4>1, ConsLinks
    <3>3. CASE s # ptr[p]
      <4>1. queue'[s] = queue[s]
        BY <1>1, <1>2, <2>1, <3>3 DEF TypeInv, TypeOK, WQTypeOK
      <4> QED
        BY <3>1, <3>3, <4>1
    <3> QED
      BY <3>2, <3>3
  <2>2. CASE ~Unlinked(p)
    <3>1. Contains(queue[ptr[p]], p)
      BY <1>0, <2>2 DEF Unlinked, QueueDiscipline
    <3> QED
      BY <1>0, <1>1, <2>2, <3>1 DEF QueueDiscipline, Distinct
  <2> QED
    BY <2>1, <2>2
<1>6. QueueDiscipline'
  <2>1. \A s \in Slots, q \in Procs : Contains(queue'[s], q) =>
          /\ pc'[q] \in InWait \ {"wait_reset", "wait_first"}
          /\ ptr[q] = s
    BY <1>0, <1>3, <1>5 DEF QueueDiscipline, InWait
  <2>2. \A q \in Procs :
          \/ pc'[q] \in {"wait_cond", "wait_sched", "wait_fin", "wait_del"}
          \/ pc'[q] = "wait_sleep" /\ ~onRq[q]
          => Contains(queue'[ptr[q]], q)
    <3> SUFFICES ASSUME NEW q \in Procs,
                        \/ pc'[q] \in {"wait_cond", "wait_sched", "wait_fin",
                                       "wait_del"}
                        \/ pc'[q] = "wait_sleep" /\ ~onRq[q]
                 PROVE  Contains(queue'[ptr[q]], q)
      OBVIOUS
    <3>1. CASE q = p
      BY <1>2, <1>5, <3>1
    <3>2. CASE q # p
      <4>1. ptr[q] \in Slots /\ Contains(queue[ptr[q]], q)
        BY <1>0, <1>3, <3>2
           DEF QueueDiscipline, TypeInv, PtrOK, HoldsEvent, InWait
      <4> QED
        BY <1>5, <4>1
    <3> QED
      BY <3>1, <3>2
  <2> QED
    BY <1>1, <1>5, <2>1, <2>2 DEF QueueDiscipline, Distinct
<1>7. WakeInv'
  <2>1. ~Sleepy(p)'
    BY <1>1, <1>2, <1>3 DEF Sleepy
  <2> QED
    BY <1>1, <1>3, <2>1, WaiterKeeps
<1> QED
  BY <1>4, <1>6, <1>7 DEF QueueInv

\* Steps of a waiter that leave the queues alone, and where they lead
LEMMA WaiterMoves ==
  ASSUME TypeInv, QueueInv, NEW p \in Procs, queue' = queue, ptr' = ptr,
         \A q \in Procs \ {p} : pc'[q] = pc[q] /\ onRq'[q] = onRq[q],
         Contains(queue[ptr[p]], p) => pc'[p] \in Linkable,
         \/ pc'[p] \in {"wait_prep"} \cup (PCs \ Linkable)
         \/ pc'[p] = "wait_sleep" /\ onRq'[p]
         \/ Contains(queue[ptr[p]], p)
  PROVE  QueueDiscipline'
<1>1. QueueDiscipline
  BY DEF QueueInv
<1>2. \A s \in Slots, q \in Procs : Contains(queue[s], q) =>
        /\ pc'[q] \in InWait \ {"wait_reset", "wait_first"}
        /\ ptr[q] = s
  BY <1>1 DEF QueueDiscipline, Linkable
<1>3. \A q \in Procs :
        \/ pc'[q] \in {"wait_cond", "wait_sched", "wait_fin", "wait_del"}
        \/ pc'[q] = "wait_sleep" /\ ~onRq'[q]
        => Contains(queue[ptr[q]], q)
  BY <1>1 DEF QueueDiscipline, Linkable, InWait
<1> QED
  BY <1>1, <1>2, <1>3 DEF QueueDiscipline

LEMMA Queue_doeventwait_check ==
  ASSUME TypeInv, QueueInv, NEW p \in Procs, doeventwait_check(p)
  PROVE  QueueInv'
<1>1. /\ pc[p] = "wait_cond"
      /\ pc'[p] = "wait_fin"
           \/ (pc'[p] = "wait_sched" /\ ev[ptr[p]].condition = 0)
      /\ \A q \in Procs \ {p} : pc'[q] = pc[q]
      /\ UNCHANGED <<queue, todo, state, onRq, ptr, ev>>
  BY DEF doeventwait_check, Goto, wqVars, tableVars, localVars, TypeInv, TypeOK
<1>2. onRq[p] /\ Contains(queue[ptr[p]], p)
  BY <1>1 DEF QueueInv, SleepInv, QueueDiscipline
<1>3. QueueDiscipline'
  BY <1>1, <1>2, WaiterMoves DEF Linkable, InWait
<1>4. SleepInv'
  BY <1>1, <1>2 DEF QueueInv, SleepInv
<1>5. WakeInv'
  <2>1. Sleepy(p)' => Sleepy(p) \/ ev[ptr[p]].condition = 0
    BY <1>1, <1>2 DEF Sleepy
  <2> QED
    BY <1>1, <2>1, WaiterKeeps
<1> QED
  BY <1>3, <1>4, <1>5 DEF QueueInv

LEMMA Queue_doeventwait_schedule ==
  ASSUME TypeInv, QueueInv, NEW p \in Procs, doeventwait_schedule(p)
  PROVE  QueueInv'
<1>1. /\ pc[p] = "wait_sched" /\ pc'[p] = "wait_sleep"
      /\ \A q \in Procs \ {p} :
           pc'[q] = pc[q] /\ onRq'[q] = onRq[q] /\ state'[q] = state[q]
      /\ UNCHANGED <<queue, todo, ptr, ev>>
      /\ \/ state[p] = "INTERRUPTIBLE" /\ state'[p] = "INTERRUPTIBLE"
         \/ onRq'[p] = onRq[p]
  BY DEF doeventwait_schedule, schedule, Goto, tableVars, localVars, TypeInv,
     TypeOK, WQTypeOK
<1>2. onRq[p] /\ Contains(queue[ptr[p]], p)
  BY <1>1 DEF QueueInv, SleepInv, QueueDiscipline
<1>3. QueueDiscipline'
  BY <1>1, <1>2, WaiterMoves DEF Linkable, InWait
<1>4. SleepInv'
  BY <1>1, <1>2 DEF QueueInv, SleepInv
<1>5. WakeInv'
  <2>1. Sleepy(p)' => Sleepy(p)
    BY <1>1, <1>2 DEF Sleepy
  <2> QED
    BY <1>1, <2>1, WaiterKeeps
<1> QED
  BY <1>3, <1>4, <1>5 DEF QueueInv

LEMMA Queue_doeventwait_resume ==
  ASSUME TypeInv, QueueInv, NEW p \in Procs, doeventwait_resume(p)
  PROVE  QueueInv'
<1>1. /\ pc[p] = "wait_sleep" /\ pc'[p] = "wait_prep" /\ onRq[p]
      /\ \A q \in Procs \ {p} : pc'[q] = pc[q]
      /\ UNCHANGED <<queue, todo, state, onRq, ptr, ev>>
  BY DEF doeventwait_resume, Goto, wqVars, tableVars, localVars, TypeInv, TypeOK
<1>2. QueueDiscipline'
  BY <1>1, WaiterMoves DEF Linkable, InWait
<1>3. SleepInv'
  BY <1>1 DEF QueueInv, SleepInv
<1>4. WakeInv'
  <2>1. ~Sleepy(p)'
    BY <1>1 DEF Sleepy
  <2> QED
    BY <1>1, <2>1, WaiterKeeps
<1> QED
  BY <1>2, <1>3, <1>4 DEF QueueInv

LEMMA Queue_doeventwait_finish ==
  ASSUME TypeInv, QueueInv, NEW p \in Procs, doeventwait_finish(p)
  PROVE  QueueInv'
<1>0. pc[p] = "wait_fin" /\ ptr[p] \in Slots
  BY DEF doeventwait_finish, TypeInv, PtrOK, HoldsEvent, InWait
<1>1. onRq[p] /\ Contains(queue[ptr[p]], p)
  BY <1>0 DEF QueueInv, SleepInv, QueueDiscipline
<1>2. ~Unlinked(p)
  BY <1>0, <1>1 DEF Unlinked
<1>3. /\ pc'[p] = "wait_del"
      /\ \A q \in Procs \ {p} : pc'[q] = pc[q] /\ state'[q] = state[q]
      /\ UNCHANGED <<queue, todo, onRq, ptr, ev>>
  BY <1>2 DEF doeventwait_finish, finish_wait_state, Goto, tableVars, TypeInv,
     TypeOK, WQTypeOK
<1>4. QueueDiscipline'
  BY <1>1, <1>3, WaiterMoves DEF Linkable, InWait
<1>5. SleepInv'
  BY <1>1, <1>3 DEF QueueInv, SleepInv
<1>6. WakeInv'
  <2>1. ~Sleepy(p)'
    BY <1>1, <1>3 DEF Sleepy
  <2> QED
    BY <1>0, <1>3, <2>1, WaiterKeeps
<1> QED
  BY <1>4, <1>5, <1>6 DEF QueueInv

LEMMA Queue_doeventwait_del ==
  ASSUME TypeInv, QueueInv, NEW p \in Procs, doeventwait_del(p)
  PROVE  QueueInv'
<1>0. SleepInv /\ QueueDiscipline
  BY DEF QueueInv
<1>1. /\ pc[p] = "wait_del" /\ pc'[p] = "return"
      /\ \A q \in Procs \ {p} : pc'[q] = pc[q]
      /\ queue' = [t \in Slots |-> list_del_init(queue[t], p)]
      /\ UNCHANGED <<todo, state, onRq, ptr, ev>>
  BY DEF doeventwait_del, finish_wait_del, Returns, tableVars, TypeInv, TypeOK
<1>2. onRq[p]
  BY <1>0, <1>1 DEF SleepInv
<1>3. \A s \in Slots :
        /\ Distinct(queue'[s])
        /\ \A x : Contains(queue'[s], x) <=> Contains(queue[s], x) /\ x # p
  <2> SUFFICES ASSUME NEW s \in Slots
               PROVE  /\ Distinct(queue'[s])
                      /\ \A x : Contains(queue'[s], x)
                                 <=> Contains(queue[s], x) /\ x # p
    OBVIOUS
  <2>1. queue'[s] = list_del_init(queue[s], p)
    BY <1>1
  <2>2. queue[s] \in Seq(Procs) /\ Distinct(queue[s])
    BY <1>0 DEF TypeInv, TypeOK, WQTypeOK, QueueDiscipline, Distinct
  <2> QED
    BY <2>1, <2>2, DelInit
<1>4. QueueDiscipline'
  <2>1. \A q \in Procs :
          \/ pc'[q] \in {"wait_cond", "wait_sched", "wait_fin", "wait_del"}
          \/ pc'[q] = "wait_sleep" /\ ~onRq[q]
          => Contains(queue[ptr[q]], q) /\ q # p /\ ptr[q] \in Slots
    BY <1>0, <1>1 DEF QueueDiscipline, TypeInv, PtrOK, HoldsEvent, InWait
  <2>2. \A s \in Slots : \A i, j \in 1 .. Len(queue'[s]) :
          queue'[s][i] = queue'[s][j] => i = j
    BY <1>3 DEF Distinct
  <2>3. ASSUME NEW s \in Slots, NEW q \in Procs, Contains(queue'[s], q)
        PROVE  /\ pc'[q] \in InWait \ {"wait_reset", "wait_first"}
               /\ ptr'[q] = s
    <3>1. Contains(queue[s], q) /\ q # p
      BY <1>3, <2>3
    <3>2. pc[q] \in InWait \ {"wait_reset", "wait_first"} /\ ptr[q] = s
      BY <1>0, <3>1 DEF QueueDiscipline
    <3> QED
      BY <1>1, <3>1, <3>2
  <2>4. ASSUME NEW q \in Procs,
               \/ pc'[q] \in {"wait_cond", "wait_sched", "wait_fin", "wait_del"}
               \/ pc'[q] = "wait_sleep" /\ ~onRq'[q]
        PROVE  Contains(queue'[ptr'[q]], q)
    BY <1>1, <1>3, <2>1, <2>4
  <2> QED
    BY <2>2, <2>3, <2>4 DEF QueueDiscipline
<1>5. SleepInv'
  BY <1>0, <1>1, <1>2 DEF SleepInv
<1>6. WakeInv'
  <2>1. ~Sleepy(p)'
    BY <1>1, <1>2 DEF Sleepy
  <2> QED
    BY <1>1, <2>1, WaiterKeeps
<1> QED
  BY <1>4, <1>5, <1>6 DEF QueueInv

LEMMA Queue_UnixSignal ==
  ASSUME TypeInv, QueueInv, NEW p \in Procs, UnixSignal(p)
  PROVE  QueueInv'
<1>0. SleepInv /\ QueueDiscipline
  BY DEF QueueInv
<1>1. /\ pc[p] \in InWait /\ try_to_wake_up(p)
      /\ UNCHANGED <<queue, todo, pc, ptr, ev>>
  BY DEF UnixSignal, signal_wake_up, tableVars, localVars
<1>2. /\ onRq'[p] /\ state'[p] = "RUNNING"
      /\ \A q \in Procs \ {p} : onRq'[q] = onRq[q] /\ state'[q] = state[q]
  BY <1>0, <1>1, WokenUp
<1>3. SleepInv' /\ QueueDiscipline'
  BY <1>0, <1>1, <1>2 DEF SleepInv, QueueDiscipline
<1>4. WakeInv'
  <2>1. ~Sleepy(p)'
    BY <1>2 DEF Sleepy
  <2> QED
    BY <1>1, <1>2, <2>1, WaiterKeeps DEF InWait
<1> QED
  BY <1>3, <1>4 DEF QueueInv

-----------------------------------------------------------------------------
(* The theorems *)

LEMMA QueueInit == Init => QueueInv
<1> SUFFICES ASSUME Init PROVE QueueInv
  OBVIOUS
<1>1. /\ \A p \in Procs : onRq[p] /\ pc[p] = "user"
      /\ \A s \in Slots : queue[s] = <<>>
  BY DEF Init, WQInit
<1>2. \A s \in Slots : Len(queue[s]) = 0 /\ \A p : ~Contains(queue[s], p)
  BY <1>1, EmptySeq, EmptyContains
<1> QED
  BY <1>1, <1>2 DEF QueueInv, SleepInv, QueueDiscipline, WakeInv, Sleepy

LEMMA QueueStep ==
  ASSUME TypeInv, QueueInv, NEW p \in Procs,
         Steps(p) \/ UnixSignal(p) \/ stack_reused(p) \/ slab_reused(p)
  PROVE  QueueInv'
<1>1. CASE open(p)
  BY <1>1, ApartSteps, MildSteps, Mild_doeventopen_add, MildKeeps,
     QueueCorrupts DEF open
<1>2. CASE fire(p)
  <2>1. CASE doeventclose_free(p)
    BY <2>1, ApartSteps, Mild_doeventclose_free, MildKeeps, QueueCorrupts
  <2> QED
    BY <1>2, <2>1, ApartSteps, MildSteps, MildKeeps, QueueCorrupts,
       Queue_set_condition, Queue_wake_begin, Queue_wake_one, Queue_wake_end
       DEF fire
<1>3. CASE wait(p)
  BY <1>3, ApartSteps, MildSteps, MildKeeps, QueueCorrupts,
     Queue_doeventwait_prepare, Queue_doeventwait_check,
     Queue_doeventwait_schedule, Queue_doeventwait_resume,
     Queue_doeventwait_finish, Queue_doeventwait_del DEF wait
<1>4. CASE admin(p) \/ Return(p)
  <2>1. CASE set_first(p)
    BY <2>1, ApartSteps, Mild_set_first, MildKeeps, QueueCorrupts
  <2> QED
    BY <1>4, <2>1, ApartSteps, MildSteps, MildKeeps, QueueCorrupts DEF admin
<1>5. CASE UnixSignal(p) \/ stack_reused(p) \/ slab_reused(p)
  BY <1>5, Queue_UnixSignal, QueueCorrupts DEF stack_reused, slab_reused
<1> QED
  BY <1>1, <1>2, <1>3, <1>4, <1>5 DEF Steps

LEMMA QueueStutter == QueueInv /\ UNCHANGED vars => QueueInv'
  BY DEF vars, QueueInv, SleepInv, QueueDiscipline, WakeInv, Sleepy, WillWake,
     wqVars, tableVars, localVars

LEMMA QueueInvariant == Spec => []QueueInv
<1>1. TypeInv /\ QueueInv /\ [Next]_vars => QueueInv'
  <2> SUFFICES ASSUME TypeInv, QueueInv, [Next]_vars PROVE QueueInv'
    OBVIOUS
  <2>1. CASE Next
    BY <2>1, QueueStep, QueueStutter DEF Next, Corrupted
  <2>2. CASE UNCHANGED vars
    BY <2>2, QueueStutter
  <2> QED
    BY <2>1, <2>2
<1> QED
  BY <1>1, QueueInit, TypeInvariant, PTL DEF Spec

\* An entry, which lives on its process's stack, is linked once, into the
\* queue of the event its process waits on, only while doeventwait may still
\* remove it, and whenever the process needs to be found there.
THEOREM QueueDisciplineAlways == Spec => []QueueDiscipline
<1>1. QueueInv => QueueDiscipline
  BY DEF QueueInv
<1> QED
  BY <1>1, QueueInvariant, PTL

\* A process that sleeps although the condition of its event is 1 is one that
\* a doeventsig or a doeventclose has still to wake.
THEOREM NoMissedWakeupEver == Spec => []NoMissedWakeup
<1>1. QueueInv => NoMissedWakeup
  BY DEF QueueInv, WakeInv, Sleepy, NoMissedWakeup
<1> QED
  BY <1>1, QueueInvariant, PTL

-----------------------------------------------------------------------------
(* No spurious return *)

\* A process that no Unix signal interrupts has, once it may have
\* seen condition = 1 since its own reset, heard a signal.
HeardInv ==
  /\ \A p \in Procs : pc[p] \notin InWait \cup {"user", "return"} =>
       call[p] # "wait"
  /\ \A p \in Procs \ Interrupted :
       /\ ~sigPending[p]
       /\ pc[p] \in InWait \ {"wait_reset"} /\ ev[ptr[p]].condition = 1 =>
            heard[p] # "no"
       /\ pc[p] \in {"wait_fin", "wait_del"} => heard[p] # "no"
       /\ pc[p] = "return" /\ call[p] = "wait" /\ retVal[p] = 1 =>
            heard[p] # "no"

\* A step of p that leaves the others where they are,
Others(p) ==
  \A q \in Procs \ {p} :
    /\ pc'[q] = pc[q] /\ ptr'[q] = ptr[q]
    /\ call'[q] = call[q] /\ retVal'[q] = retVal[q]

\* and that is no part of waiting past the reset and no return of 1 from it.
Silent(p) ==
  /\ Others(p)
  /\ \A q \in Procs : sigPending'[q] => sigPending[q]
  /\ \A q \in Procs \ {p} : heard'[q] = heard[q]
  /\ pc'[p] \notin InWait \ {"wait_reset"}
  /\ pc'[p] = "return" /\ call'[p] = "wait" => retVal'[p] # 1
  /\ pc'[p] \notin InWait \cup {"user", "return"} => call'[p] # "wait"

\* All steps but set_condition and those of doeventwait after its lookup are
\* of this kind.
LEMMA SilentSteps ==
  ASSUME TypeInv, HeardInv, NEW p \in Procs,
         \/ doeventopen_kmalloc(p) \/ doeventopen_add(p)
         \/ doeventopen_return(p) \/ doeventclose_lookup(p)
         \/ doeventsig_lookup(p) \/ check_active(p) \/ take_write_lock(p)
         \/ count_waiter(p) \/ wake_begin(p) \/ wake_one(p) \/ wake_end(p)
         \/ doeventclose_del(p) \/ doeventclose_free(p)
         \/ doeventwait_lookup(p) \/ doeventchown_lookup(p)
         \/ doeventchmod_lookup(p) \/ set_first(p) \/ set_second(p)
         \/ doeventinfo_args(p) \/ doeventinfo_lock(p) \/ doeventinfo_walk(p)
         \/ doeventinfo_copy(p) \/ doeventstat_lookup(p)
         \/ doeventstat_copy(p) \/ Return(p)
  PROVE  Corrupts \/ Silent(p)
<1>0. pc[p] \notin InWait \cup {"user", "return"} => call[p] # "wait"
  BY DEF HeardInv
<1>1. CASE doeventopen_kmalloc(p)
  BY <1>0, <1>1 DEF doeventopen_kmalloc, Enter, Goto, Returns, Silent, Others,
     InWait, TypeInv, TypeOK, WQTypeOK, LocalType, GhostType, wqVars,
     localVars, ghostVars
<1>2. CASE doeventopen_add(p)
  BY <1>0, <1>2 DEF doeventopen_add, Goto, Silent, Others, InWait, TypeInv,
     TypeOK, WQTypeOK, LocalType, GhostType, wqVars, localVars, ghostVars
<1>3. CASE doeventopen_return(p)
  BY <1>0, <1>3 DEF doeventopen_return, Returns, Silent, Others, InWait,
     TypeInv, TypeOK, WQTypeOK, LocalType, GhostType, wqVars, localVars,
     ghostVars
<1>4. CASE doeventclose_lookup(p)
  BY <1>0, <1>4 DEF doeventclose_lookup, LookupValidated, Enter, GoesOn, Goto,
     Returns, Silent, Others, InWait, TypeInv, TypeOK, WQTypeOK, LocalType,
     GhostType, wqVars, localVars, ghostVars
<1>5. CASE doeventsig_lookup(p)
  BY <1>0, <1>5 DEF doeventsig_lookup, LookupValidated, Enter, GoesOn, Goto,
     Returns, Silent, Others, InWait, TypeInv, TypeOK, WQTypeOK, LocalType,
     GhostType, wqVars, localVars, ghostVars
<1>6. CASE check_active(p)
  BY <1>0, <1>6 DEF check_active, Goto, Returns, Silent, Others, InWait,
     TypeInv, TypeOK, WQTypeOK, LocalType, GhostType, wqVars, localVars,
     ghostVars
<1>7. CASE take_write_lock(p)
  BY <1>0, <1>7 DEF take_write_lock, Goto, Silent, Others, InWait, TypeInv,
     TypeOK, WQTypeOK, LocalType, GhostType, wqVars, localVars, ghostVars
<1>8. CASE count_waiter(p)
  BY <1>0, <1>8 DEF count_waiter, Goto, Silent, Others, InWait, TypeInv,
     TypeOK, WQTypeOK, LocalType, GhostType, wqVars, localVars, ghostVars
<1>9. CASE wake_begin(p)
  BY <1>0, <1>9 DEF wake_begin, Goto, wake_up_lock, Silent, Others, InWait,
     TypeInv, TypeOK, WQTypeOK, LocalType, GhostType, wqVars, localVars,
     ghostVars
<1>10. CASE wake_one(p)
  BY <1>0, <1>10 DEF wake_one, wake_up_next, Silent, Others, InWait, TypeInv,
     TypeOK, WQTypeOK, LocalType, GhostType, wqVars, localVars, ghostVars
<1>11. CASE wake_end(p)
  BY <1>0, <1>11 DEF wake_end, Goto, Returns, wake_up_unlock, Silent, Others,
     InWait, TypeInv, TypeOK, WQTypeOK, LocalType, GhostType, wqVars,
     localVars, ghostVars
<1>12. CASE doeventclose_del(p)
  BY <1>0, <1>12 DEF doeventclose_del, Goto, Silent, Others, InWait, TypeInv,
     TypeOK, WQTypeOK, LocalType, GhostType, wqVars, localVars, ghostVars
<1>13. CASE doeventclose_free(p)
  BY <1>0, <1>13 DEF doeventclose_free, Returns, Silent, Others, InWait,
     TypeInv, TypeOK, WQTypeOK, LocalType, GhostType, wqVars, localVars,
     ghostVars
<1>14. CASE doeventwait_lookup(p)
  BY <1>0, <1>14 DEF doeventwait_lookup, LookupValidated, Enter, GoesOn, Goto,
     Returns, Silent, Others, InWait, TypeInv, TypeOK, WQTypeOK, LocalType,
     GhostType, wqVars, localVars, ghostVars
<1>15. CASE doeventchown_lookup(p)
  BY <1>0, <1>15 DEF doeventchown_lookup, LookupOwned, Enter, GoesOn, Goto,
     Returns, Silent, Others, InWait, TypeInv, TypeOK, WQTypeOK, LocalType,
     GhostType, wqVars, localVars, ghostVars
<1>16. CASE doeventchmod_lookup(p)
  BY <1>0, <1>16 DEF doeventchmod_lookup, LookupOwned, Enter, GoesOn, Goto,
     Returns, Silent, Others, InWait, TypeInv, TypeOK, WQTypeOK, LocalType,
     GhostType, wqVars, localVars, ghostVars
<1>17. CASE set_first(p)
  BY <1>0, <1>17 DEF set_first, Goto, Silent, Others, InWait, TypeInv, TypeOK,
     WQTypeOK, LocalType, GhostType, wqVars, localVars, ghostVars
<1>18. CASE set_second(p)
  BY <1>0, <1>18 DEF set_second, Returns, Silent, Others, InWait, TypeInv,
     TypeOK, WQTypeOK, LocalType, GhostType, wqVars, localVars, ghostVars
<1>19. CASE doeventinfo_args(p)
  BY <1>0, <1>19 DEF doeventinfo_args, Enter, Goto, Returns, Silent, Others,
     InWait, TypeInv, TypeOK, WQTypeOK, LocalType, GhostType, wqVars,
     localVars, ghostVars
<1>20. CASE doeventinfo_lock(p)
  BY <1>0, <1>20 DEF doeventinfo_lock, Goto, Silent, Others, InWait, TypeInv,
     TypeOK, WQTypeOK, LocalType, GhostType, wqVars, localVars, ghostVars
<1>21. CASE doeventinfo_walk(p)
  BY <1>0, <1>21 DEF doeventinfo_walk, Goto, Silent, Others, InWait, TypeInv,
     TypeOK, WQTypeOK, LocalType, GhostType, wqVars, localVars, ghostVars
<1>22. CASE doeventinfo_copy(p)
  BY <1>0, <1>22 DEF doeventinfo_copy, Returns, Silent, Others, InWait,
     TypeInv, TypeOK, WQTypeOK, LocalType, GhostType, wqVars, localVars,
     ghostVars
<1>23. CASE doeventstat_lookup(p)
  BY <1>0, <1>23 DEF doeventstat_lookup, Enter, Goto, Returns, Silent, Others,
     InWait, TypeInv, TypeOK, WQTypeOK, LocalType, GhostType, wqVars,
     localVars, ghostVars
<1>24. CASE doeventstat_copy(p)
  BY <1>0, <1>24 DEF doeventstat_copy, Returns, Silent, Others, InWait,
     TypeInv, TypeOK, WQTypeOK, LocalType, GhostType, wqVars, localVars,
     ghostVars
<1>25. CASE Return(p)
  BY <1>0, <1>25 DEF Return, Goto, deliver_signal, Silent, Others, InWait,
     TypeInv, TypeOK, WQTypeOK, LocalType, GhostType, wqVars, localVars,
     ghostVars
<1> QED
  BY <1>1, <1>2, <1>3, <1>4, <1>5, <1>6, <1>7, <1>8, <1>9, <1>10, <1>11, <1>12,
     <1>13, <1>14, <1>15, <1>16, <1>17, <1>18, <1>19, <1>20, <1>21, <1>22,
     <1>23, <1>24, <1>25

\* Such a step keeps HeardInv if it fires no event.
LEMMA SilentKeeps ==
  ASSUME TypeInv, HeardInv, NEW p \in Procs, Silent(p),
         \A s \in Slots : ev'[s].condition = 1 => ev[s].condition = 1
  PROVE  HeardInv'
<1>1. ASSUME NEW q \in Procs, pc'[q] \notin InWait \cup {"user", "return"}
      PROVE  call'[q] # "wait"
  BY <1>1 DEF Silent, Others, HeardInv
<1>2. ASSUME NEW q \in Procs \ Interrupted
      PROVE  /\ ~sigPending'[q]
             /\ pc'[q] \in InWait \ {"wait_reset"}
                  /\ ev'[ptr'[q]].condition = 1 => heard'[q] # "no"
             /\ pc'[q] \in {"wait_fin", "wait_del"} => heard'[q] # "no"
             /\ pc'[q] = "return" /\ call'[q] = "wait" /\ retVal'[q] = 1 =>
                  heard'[q] # "no"
  <2>1. CASE q = p
    BY <2>1 DEF Silent, HeardInv, InWait
  <2>2. CASE q # p
    <3>1. pc[q] \in InWait \ {"wait_reset"} => ptr[q] \in Slots
      BY DEF TypeInv, PtrOK, HoldsEvent
    <3> QED
      BY <2>2, <3>1 DEF Silent, Others, HeardInv
  <2> QED
    BY <2>1, <2>2
<1> QED
  BY <1>1, <1>2 DEF HeardInv

LEMMA HeardCorrupts == HeardInv /\ Corrupts => HeardInv'
  BY DEF HeardInv, Corrupts, wqVars, tableVars, localVars

\* set_condition tells every process that is past its reset.
LEMMA Heard_set_condition ==
  ASSUME TypeInv, HeardInv, NEW p \in Procs, set_condition(p)
  PROVE  HeardInv'
<1>1. /\ pc[p] = "set_cond" /\ pc'[p] = "wake_lock" /\ ptr[p] \in Slots
      /\ \A q \in Procs \ {p} : pc'[q] = pc[q]
      /\ ev' = [ev EXCEPT ![ptr[p]].condition = 1]
      /\ UNCHANGED <<ptr, call, retVal, sigPending>>
  BY DEF set_condition, Goto, TypeInv, TypeOK, PtrOK, HoldsEvent, wqVars,
     localVars
<1>2. \A q \in Procs : pc[q] \in InWait /\ ptr[q] = ptr[p] =>
        heard'[q] # "no"
  BY DEF set_condition
<1>3. \A q \in Procs : heard[q] # "no" => heard'[q] # "no"
  BY DEF set_condition
<1>4. \A s \in Slots \ {ptr[p]} : ev'[s] = ev[s]
  BY <1>1 DEF TypeInv, TypeOK, TableType
<1>5. \A q \in Procs : pc'[q] \notin InWait \cup {"user", "return"} =>
        call'[q] # "wait"
  BY <1>1 DEF HeardInv, InWait
<1>6. ASSUME NEW q \in Procs \ Interrupted
      PROVE  /\ ~sigPending'[q]
             /\ pc'[q] \in InWait \ {"wait_reset"}
                  /\ ev'[ptr'[q]].condition = 1 => heard'[q] # "no"
             /\ pc'[q] \in {"wait_fin", "wait_del"} => heard'[q] # "no"
             /\ pc'[q] = "return" /\ call'[q] = "wait" /\ retVal'[q] = 1 =>
                  heard'[q] # "no"
  <2>1. CASE q = p
    BY <1>1, <2>1 DEF HeardInv, InWait
  <2>2. CASE q # p
    <3>1. pc[q] \in InWait \ {"wait_reset"} => ptr[q] \in Slots
      BY DEF TypeInv, PtrOK, HoldsEvent
    <3> QED
      BY <1>1, <1>2, <1>3, <1>4, <2>2, <3>1 DEF HeardInv
  <2> QED
    BY <2>1, <2>2
<1> QED
  BY <1>5, <1>6 DEF HeardInv

LEMMA Heard_doeventwait_reset ==
  ASSUME TypeInv, HeardInv, NEW p \in Procs, doeventwait_reset(p)
  PROVE  HeardInv'
<1>1. /\ pc[p] = "wait_reset" /\ pc'[p] = "wait_first" /\ ptr[p] \in Slots
      /\ \A q \in Procs \ {p} : pc'[q] = pc[q] /\ heard'[q] = heard[q]
      /\ ev' = [ev EXCEPT ![ptr[p]].condition = 0]
      /\ UNCHANGED <<ptr, call, retVal, sigPending>>
  BY DEF doeventwait_reset, Goto, TypeInv, TypeOK, GhostType, PtrOK, HoldsEvent,
     InWait, wqVars, localVars
<1>2. \A s \in Slots : ev'[s].condition = 1 =>
        ev[s].condition = 1 /\ s # ptr[p]
  BY <1>1 DEF TypeInv, TypeOK, TableType, Event
<1>3. \A q \in Procs : pc[q] \in InWait => ptr[q] \in Slots
  BY DEF TypeInv, PtrOK, HoldsEvent
<1> QED
  BY <1>1, <1>2, <1>3 DEF HeardInv, InWait

\* The other steps of doeventwait move p on, to its end only if it has heard.
LEMMA Heard_doeventwait ==
  ASSUME TypeInv, HeardInv, NEW p \in Procs,
         \/ doeventwait_first(p) \/ doeventwait_prepare(p)
         \/ doeventwait_check(p) \/ doeventwait_schedule(p)
         \/ doeventwait_resume(p) \/ doeventwait_finish(p)
         \/ doeventwait_del(p)
  PROVE  HeardInv'
<1> DEFINE Moves ==
      /\ pc[p] \in InWait \ {"wait_reset"}
      /\ pc'[p] \in (InWait \ {"wait_reset"}) \cup {"return"}
      /\ \A q \in Procs \ {p} : pc'[q] = pc[q] /\ retVal'[q] = retVal[q]
      /\ pc'[p] \in {"wait_fin", "wait_del", "return"} =>
           \/ pc[p] \in {"wait_fin", "wait_del"}
           \/ ev[ptr[p]].condition = 1
           \/ sigPending[p]
      /\ UNCHANGED <<ev, ptr, call, heard, sigPending>>
<1>1. \A s \in Slots : ev[s].condition \in {0, 1}
  BY DEF TypeInv, TypeOK, TableType, Event
<1>2. pc[p] \in InWait => ptr[p] \in Slots
  BY DEF TypeInv, PtrOK, HoldsEvent
<1>3. ASSUME doeventwait_first(p) PROVE Moves
  BY <1>1, <1>2, <1>3 DEF doeventwait_first, Goto, Returns, InWait, TypeInv,
     TypeOK, LocalType, wqVars, tableVars, ghostVars
<1>4. ASSUME doeventwait_prepare(p) PROVE Moves
  BY <1>4 DEF doeventwait_prepare, prepare_to_wait, Goto, InWait, TypeInv,
     TypeOK, tableVars, localVars, ghostVars
<1>5. ASSUME doeventwait_check(p) PROVE Moves
  BY <1>1, <1>2, <1>5 DEF doeventwait_check, Goto, InWait, TypeInv, TypeOK,
     wqVars, tableVars, localVars, ghostVars
<1>6. ASSUME doeventwait_schedule(p) PROVE Moves
  BY <1>6 DEF doeventwait_schedule, schedule, Goto, InWait, TypeInv, TypeOK,
     tableVars, localVars, ghostVars
<1>7. ASSUME doeventwait_resume(p) PROVE Moves
  BY <1>7 DEF doeventwait_resume, Goto, InWait, TypeInv, TypeOK, wqVars,
     tableVars, localVars, ghostVars
<1>8. ASSUME doeventwait_finish(p) PROVE Moves
  BY <1>8 DEF doeventwait_finish, finish_wait_state, Goto, Returns, InWait,
     TypeInv, TypeOK, LocalType, tableVars, ghostVars
<1>9. ASSUME doeventwait_del(p) PROVE Moves
  BY <1>9 DEF doeventwait_del, finish_wait_del, Returns, InWait, TypeInv,
     TypeOK, LocalType, tableVars, ghostVars
<1>10. Moves
  BY <1>3, <1>4, <1>5, <1>6, <1>7, <1>8, <1>9
<1>11. \A q \in Procs : pc'[q] \notin InWait \cup {"user", "return"} =>
         call'[q] # "wait"
  BY <1>10 DEF HeardInv
<1>12. ASSUME NEW q \in Procs \ Interrupted
       PROVE  /\ ~sigPending'[q]
              /\ pc'[q] \in InWait \ {"wait_reset"}
                   /\ ev'[ptr'[q]].condition = 1 => heard'[q] # "no"
              /\ pc'[q] \in {"wait_fin", "wait_del"} => heard'[q] # "no"
              /\ pc'[q] = "return" /\ call'[q] = "wait" /\ retVal'[q] = 1 =>
                   heard'[q] # "no"
  <2>1. CASE q = p
    BY <1>10, <2>1 DEF HeardInv
  <2>2. CASE q # p
    BY <1>10, <2>2 DEF HeardInv
  <2> QED
    BY <2>1, <2>2
<1> QED
  BY <1>11, <1>12 DEF HeardInv

LEMMA Heard_UnixSignal ==
  ASSUME TypeInv, HeardInv, NEW p \in Procs, UnixSignal(p)
  PROVE  HeardInv'
<1>1. /\ p \in Interrupted
      /\ \A q \in Procs \ {p} : sigPending'[q] = sigPending[q]
      /\ UNCHANGED <<pc, ptr, call, retVal, ev, heard>>
  BY DEF UnixSignal, signal_wake_up, TypeInv, TypeOK, WQTypeOK, tableVars,
     localVars, ghostVars
<1> QED
  BY <1>1 DEF HeardInv

LEMMA HeardStep ==
  ASSUME TypeInv, HeardInv, NEW p \in Procs,
         Steps(p) \/ UnixSignal(p) \/ stack_reused(p) \/ slab_reused(p)
  PROVE  HeardInv'
<1> DEFINE NoFire == \A s \in Slots : ev'[s].condition = 1 => ev[s].condition = 1
<1>1. Corrupts => NoFire
  BY DEF Corrupts, tableVars
<1>2. Mild(p) => NoFire
  BY DEF Mild
<1>3. CASE open(p)
  <2>1. Corrupts \/ NoFire
    BY <1>2, <1>3, MildSteps, Mild_doeventopen_add DEF open
  <2> QED
    BY <1>1, <1>3, <2>1, SilentSteps, SilentKeeps, HeardCorrupts DEF open
<1>4. CASE fire(p)
  <2>1. CASE set_condition(p)
    BY <2>1, Heard_set_condition
  <2>2. CASE doeventclose_free(p)
    BY <1>1, <1>2, <2>2, Mild_doeventclose_free, SilentSteps, SilentKeeps,
       HeardCorrupts
  <2>3. CASE wake_begin(p) \/ wake_one(p) \/ wake_end(p)
    <3>1. NoFire
      BY <2>3 DEF wake_begin, wake_one, wake_end, tableVars
    <3> QED
      BY <2>3, <3>1, SilentSteps, SilentKeeps, HeardCorrupts
  <2>4. CASE \/ doeventclose_lookup(p) \/ doeventsig_lookup(p)
             \/ check_active(p) \/ take_write_lock(p) \/ count_waiter(p)
             \/ doeventclose_del(p)
    BY <1>1, <1>2, <2>4, MildSteps, SilentSteps, SilentKeeps, HeardCorrupts
  <2> QED
    BY <1>4, <2>1, <2>2, <2>3, <2>4 DEF fire
<1>5. CASE wait(p)
  <2>1. CASE doeventwait_lookup(p)
    BY <1>1, <1>2, <2>1, MildSteps, SilentSteps, SilentKeeps, HeardCorrupts
  <2> QED
    BY <1>5, <2>1, Heard_doeventwait_reset, Heard_doeventwait DEF wait
<1>6. CASE admin(p) \/ Return(p)
  <2>1. CASE set_first(p)
    BY <1>1, <1>2, <2>1, Mild_set_first, SilentSteps, SilentKeeps,
       HeardCorrupts
  <2>2. CASE ~set_first(p)
    BY <1>1, <1>2, <1>6, <2>2, MildSteps, SilentSteps, SilentKeeps,
       HeardCorrupts DEF admin
  <2> QED
    BY <2>1, <2>2
<1>7. CASE UnixSignal(p) \/ stack_reused(p) \/ slab_reused(p)
  BY <1>7, Heard_UnixSignal, HeardCorrupts DEF stack_reused, slab_reused
<1> QED
  BY <1>3, <1>4, <1>5, <1>6, <1>7 DEF Steps

\* Whatever the interleaving with other waiters and signals, doeventwait
\* returns 1 to a process that no Unix signal interrupts only if the condition
\* at the pointer it holds was set since that process reset it.
THEOREM NoSpuriousReturnEver == Spec => []NoSpuriousReturn
<1>1. Init => HeardInv
  BY DEF Init, WQInit, HeardInv, InWait
<1>2. TypeInv /\ HeardInv /\ [Next]_vars => HeardInv'
  <2> SUFFICES ASSUME TypeInv, HeardInv, [Next]_vars PROVE HeardInv'
    OBVIOUS
  <2>1. UNCHANGED vars => HeardInv'
    BY DEF vars, HeardInv, wqVars, tableVars, localVars, ghostVars
  <2>2. CASE Next
    BY <2>1, <2>2, HeardStep DEF Next, Corrupted
  <2> QED
    BY <2>1, <2>2
<1>3. HeardInv => NoSpuriousReturn
  BY DEF HeardInv, NoSpuriousReturn
<1> QED
  BY <1>1, <1>2, <1>3, TypeInvariant, PTL DEF Spec
=============================================================================
