---------------------------- MODULE EventsRefines ----------------------------
(***************************************************************************)
(* The event system calls implement EventTable, for every number of        *)
(* processes, slots and events.  The locks (LockInv), what is listed       *)
(* (SlotInv) and how far doeventinfo has come (WalkInv) are known; QueryInv *)
(* adds what a call carries from one step to the next.  Most steps leave   *)
(* the table and what the queries have read alone; the others are each an  *)
(* operation of EventTable, or change nothing that is listed.              *)
(***************************************************************************)
EXTENDS EventsInfo, EventsImpl

\* A call starts with nothing read; what doeventchown and doeventchmod are
\* going to store is what the user passed.
QueryInv ==
  \A p \in Procs :
    /\ pc[p] = "user" => buf[p] = <<>>
    /\ pc[p] \in {"set_lock", "set_second"} =>
         \/ call[p] = "chown" /\ <<arg[p].a, arg[p].b>> \in Owners
         \/ call[p] = "chmod" /\ <<arg[p].a, arg[p].b>> \in Flags

-----------------------------------------------------------------------------
(* What steps leave alone *)

\* A step of p changes no other process's locals.
Alone(p) ==
  \A q \in Procs \ {p} :
    /\ pc'[q] = pc[q] /\ ptr'[q] = ptr[q] /\ call'[q] = call[q]
    /\ arg'[q] = arg[q] /\ process'[q] = process[q] /\ buf'[q] = buf[q]

\* Every step is one process's.
LEMMA AloneSteps ==
  ASSUME TypeInv, NEW p \in Procs,
         \/ doeventopen_kmalloc(p) \/ doeventopen_add(p)
         \/ doeventopen_return(p) \/ doeventclose_lookup(p)
         \/ doeventsig_lookup(p) \/ check_active(p) \/ take_write_lock(p)
         \/ count_waiter(p) \/ set_condition(p) \/ wake_begin(p)
         \/ wake_one(p) \/ wake_end(p) \/ doeventclose_del(p)
         \/ doeventclose_free(p) \/ doeventwait_lookup(p)
         \/ doeventwait_reset(p) \/ doeventwait_first(p)
         \/ doeventwait_prepare(p) \/ doeventwait_check(p)
         \/ doeventwait_schedule(p) \/ doeventwait_resume(p)
         \/ doeventwait_finish(p) \/ doeventwait_del(p)
         \/ doeventchown_lookup(p) \/ doeventchmod_lookup(p) \/ set_first(p)
         \/ set_second(p) \/ doeventinfo_args(p) \/ doeventinfo_lock(p)
         \/ doeventinfo_walk(p) \/ doeventinfo_copy(p)
         \/ doeventstat_lookup(p) \/ doeventstat_copy(p) \/ Return(p)
         \/ UnixSignal(p) \/ stack_reused(p) \/ slab_reused(p)
  PROVE  Alone(p)
<1>1. CASE doeventopen_kmalloc(p)
  BY <1>1 DEF doeventopen_kmalloc, Enter, Goto, Returns, Alone, TypeInv,
     TypeOK, LocalType, localVars
<1>2. CASE doeventopen_add(p)
  BY <1>2 DEF doeventopen_add, Goto, Corrupts, Alone, TypeInv, TypeOK,
     LocalType, localVars
<1>3. CASE doeventopen_return(p)
  BY <1>3 DEF doeventopen_return, Returns, Alone, TypeInv, TypeOK, LocalType,
     localVars
<1>4. CASE doeventclose_lookup(p)
  BY <1>4 DEF doeventclose_lookup, LookupValidated, Enter, GoesOn, Goto,
     Returns, Alone, TypeInv, TypeOK, LocalType, localVars
<1>5. CASE doeventsig_lookup(p)
  BY <1>5 DEF doeventsig_lookup, LookupValidated, Enter, GoesOn, Goto, Returns,
     Alone, TypeInv, TypeOK, LocalType, localVars
<1>6. CASE check_active(p)
  BY <1>6 DEF check_active, Goto, Returns, Alone, TypeInv, TypeOK, LocalType,
     localVars
<1>7. CASE take_write_lock(p)
  BY <1>7 DEF take_write_lock, Goto, Alone, TypeInv, TypeOK, LocalType,
     localVars
<1>8. CASE count_waiter(p)
  BY <1>8 DEF count_waiter, Goto, Alone, TypeInv, TypeOK, LocalType, localVars
<1>9. CASE set_condition(p)
  BY <1>9 DEF set_condition, Goto, Alone, TypeInv, TypeOK, LocalType, localVars
<1>10. CASE wake_begin(p)
  BY <1>10 DEF wake_begin, Goto, Alone, TypeInv, TypeOK, LocalType, localVars
<1>11. CASE wake_one(p)
  BY <1>11 DEF wake_one, Alone, TypeInv, TypeOK, LocalType, localVars
<1>12. CASE wake_end(p)
  BY <1>12 DEF wake_end, Goto, Returns, Alone, TypeInv, TypeOK, LocalType,
     localVars
<1>13. CASE doeventclose_del(p)
  BY <1>13 DEF doeventclose_del, Goto, Alone, TypeInv, TypeOK, LocalType,
     localVars
<1>14. CASE doeventclose_free(p)
  BY <1>14 DEF doeventclose_free, Returns, Corrupts, Alone, TypeInv, TypeOK,
     LocalType, localVars
<1>15. CASE doeventwait_lookup(p)
  BY <1>15 DEF doeventwait_lookup, LookupValidated, Enter, GoesOn, Goto,
     Returns, Alone, TypeInv, TypeOK, LocalType, localVars
<1>16. CASE doeventwait_reset(p)
  BY <1>16 DEF doeventwait_reset, Goto, Alone, TypeInv, TypeOK, LocalType,
     localVars
<1>17. CASE doeventwait_first(p)
  BY <1>17 DEF doeventwait_first, Goto, Returns, Alone, TypeInv, TypeOK,
     LocalType, localVars
<1>18. CASE doeventwait_prepare(p)
  BY <1>18 DEF doeventwait_prepare, Goto, Alone, TypeInv, TypeOK, LocalType,
     localVars
<1>19. CASE doeventwait_check(p)
  BY <1>19 DEF doeventwait_check, Goto, Alone, TypeInv, TypeOK, LocalType,
     localVars
<1>20. CASE doeventwait_schedule(p)
  BY <1>20 DEF doeventwait_schedule, Goto, Alone, TypeInv, TypeOK, LocalType,
     localVars
<1>21. CASE doeventwait_resume(p)
  BY <1>21 DEF doeventwait_resume, Goto, Alone, TypeInv, TypeOK, LocalType,
     localVars
<1>22. CASE doeventwait_finish(p)
  BY <1>22 DEF doeventwait_finish, Goto, Returns, Alone, TypeInv, TypeOK,
     LocalType, localVars
<1>23. CASE doeventwait_del(p)
  BY <1>23 DEF doeventwait_del, Returns, Alone, TypeInv, TypeOK, LocalType,
     localVars
<1>24. CASE doeventchown_lookup(p)
  BY <1>24 DEF doeventchown_lookup, LookupOwned, Enter, GoesOn, Goto, Returns,
     Corrupts, Alone, TypeInv, TypeOK, LocalType, localVars
<1>25. CASE doeventchmod_lookup(p)
  BY <1>25 DEF doeventchmod_lookup, LookupOwned, Enter, GoesOn, Goto, Returns,
     Corrupts, Alone, TypeInv, TypeOK, LocalType, localVars
<1>26. CASE set_first(p)
  BY <1>26 DEF set_first, Goto, Corrupts, Alone, TypeInv, TypeOK, LocalType,
     localVars
<1>27. CASE set_second(p)
  BY <1>27 DEF set_second, Returns, Alone, TypeInv, TypeOK, LocalType,
     localVars
<1>28. CASE doeventinfo_args(p)
  BY <1>28 DEF doeventinfo_args, Enter, Goto, Returns, Alone, TypeInv, TypeOK,
     LocalType, localVars
<1>29. CASE doeventinfo_lock(p)
  BY <1>29 DEF doeventinfo_lock, Goto, Alone, TypeInv, TypeOK, LocalType,
     localVars
<1>30. CASE doeventinfo_walk(p)
  BY <1>30 DEF doeventinfo_walk, Goto, Alone, TypeInv, TypeOK, LocalType,
     localVars
<1>31. CASE doeventinfo_copy(p)
  BY <1>31 DEF doeventinfo_copy, Returns, Alone, TypeInv, TypeOK, LocalType,
     localVars
<1>32. CASE doeventstat_lookup(p)
  BY <1>32 DEF doeventstat_lookup, Enter, Goto, Returns, Alone, TypeInv,
     TypeOK, LocalType, localVars
<1>33. CASE doeventstat_copy(p)
  BY <1>33 DEF doeventstat_copy, Returns, Alone, TypeInv, TypeOK, LocalType,
     localVars
<1>34. CASE Return(p)
  BY <1>34 DEF Return, Goto, Alone, TypeInv, TypeOK, LocalType, localVars
<1>35. CASE UnixSignal(p)
  BY <1>35 DEF UnixSignal, Alone, TypeInv, TypeOK, LocalType, localVars
<1>36. CASE stack_reused(p)
  BY <1>36 DEF stack_reused, Corrupts, Alone, TypeInv, TypeOK, LocalType,
     localVars
<1>37. CASE slab_reused(p)
  BY <1>37 DEF slab_reused, Corrupts, Alone, TypeInv, TypeOK, LocalType,
     localVars
<1> QED
  BY <1>1, <1>2, <1>3, <1>4, <1>5, <1>6, <1>7, <1>8, <1>9, <1>10, <1>11, <1>12,
     <1>13, <1>14, <1>15, <1>16, <1>17, <1>18, <1>19, <1>20, <1>21, <1>22,
     <1>23, <1>24, <1>25, <1>26, <1>27, <1>28, <1>29, <1>30, <1>31, <1>32,
     <1>33, <1>34, <1>35, <1>36, <1>37

\* What doeventstat and doeventinfo report of an event is as it was.
SameFields(s) ==
  /\ ev'[s].id = ev[s].id
  /\ ev'[s].uid = ev[s].uid /\ ev'[s].gid = ev[s].gid
  /\ ev'[s].uidFlag = ev[s].uidFlag /\ ev'[s].gidFlag = ev[s].gidFlag

\* Where a process's locals show in the table, or in what was read
Shown == {"set_second", "stat_copy", "info_copy"}

\* A step that the table does not show
Quiet(p) ==
  /\ pc[p] \notin Shown /\ pc'[p] \notin Shown
  /\ evlist' = evlist
  /\ \A s \in Slots : SameFields(s)

\* The steps that neither change the table nor read it
LEMMA QuietSteps ==
  ASSUME TypeInv, NEW p \in Procs,
         \/ doeventopen_kmalloc(p) \/ doeventopen_return(p)
         \/ doeventclose_lookup(p) \/ doeventsig_lookup(p) \/ check_active(p)
         \/ take_write_lock(p) \/ count_waiter(p) \/ set_condition(p)
         \/ wake_begin(p) \/ wake_one(p) \/ wake_end(p)
         \/ doeventwait_lookup(p) \/ doeventwait_reset(p)
         \/ doeventwait_first(p) \/ doeventwait_prepare(p)
         \/ doeventwait_check(p) \/ doeventwait_schedule(p)
         \/ doeventwait_resume(p) \/ doeventwait_finish(p)
         \/ doeventwait_del(p) \/ doeventinfo_args(p) \/ doeventinfo_lock(p)
         \/ Return(p) \/ UnixSignal(p)
  PROVE  Quiet(p)
<1>1. CASE doeventopen_kmalloc(p)
  BY <1>1 DEF doeventopen_kmalloc, Enter, Goto, Returns, InWait, Quiet, Shown,
     SameFields, TypeInv, TypeOK, LocalType, TableType, Event, tableVars,
     localVars
<1>2. CASE doeventopen_return(p)
  BY <1>2 DEF doeventopen_return, Returns, InWait, Quiet, Shown, SameFields,
     TypeInv, TypeOK, LocalType, TableType, Event, tableVars, localVars
<1>3. CASE doeventclose_lookup(p)
  BY <1>3 DEF doeventclose_lookup, LookupValidated, Enter, GoesOn, Goto,
     Returns, InWait, Quiet, Shown, SameFields, TypeInv, TypeOK, LocalType,
     TableType, Event, tableVars, localVars
<1>4. CASE doeventsig_lookup(p)
  BY <1>4 DEF doeventsig_lookup, LookupValidated, Enter, GoesOn, Goto, Returns,
     InWait, Quiet, Shown, SameFields, TypeInv, TypeOK, LocalType, TableType,
     Event, tableVars, localVars
<1>5. CASE check_active(p)
  BY <1>5 DEF check_active, Goto, Returns, InWait, Quiet, Shown, SameFields,
     TypeInv, TypeOK, LocalType, TableType, Event, tableVars, localVars
<1>6. CASE take_write_lock(p)
  BY <1>6 DEF take_write_lock, Goto, InWait, Quiet, Shown, SameFields, TypeInv,
     TypeOK, LocalType, TableType, Event, tableVars, localVars
<1>7. CASE count_waiter(p)
  BY <1>7 DEF count_waiter, Goto, InWait, Quiet, Shown, SameFields, TypeInv,
     TypeOK, LocalType, TableType, Event, tableVars, localVars
<1>8. CASE set_condition(p)
  BY <1>8 DEF set_condition, Goto, InWait, Quiet, Shown, SameFields, TypeInv,
     TypeOK, LocalType, TableType, Event, tableVars, localVars
<1>9. CASE wake_begin(p)
  BY <1>9 DEF wake_begin, Goto, InWait, Quiet, Shown, SameFields, TypeInv,
     TypeOK, LocalType, TableType, Event, tableVars, localVars
<1>10. CASE wake_one(p)
  BY <1>10 DEF wake_one, InWait, Quiet, Shown, SameFields, TypeInv, TypeOK,
     LocalType, TableType, Event, tableVars, localVars
<1>11. CASE wake_end(p)
  BY <1>11 DEF wake_end, Goto, Returns, InWait, Quiet, Shown, SameFields,
     TypeInv, TypeOK, LocalType, TableType, Event, tableVars, localVars
<1>12. CASE doeventwait_lookup(p)
  BY <1>12 DEF doeventwait_lookup, LookupValidated, Enter, GoesOn, Goto,
     Returns, InWait, Quiet, Shown, SameFields, TypeInv, TypeOK, LocalType,
     TableType, Event, tableVars, localVars
<1>13. CASE doeventwait_reset(p)
  BY <1>13 DEF doeventwait_reset, Goto, InWait, Quiet, Shown, SameFields,
     TypeInv, TypeOK, LocalType, TableType, Event, tableVars, localVars
<1>14. CASE doeventwait_first(p)
  BY <1>14 DEF doeventwait_first, Goto, Returns, InWait, Quiet, Shown,
     SameFields, TypeInv, TypeOK, LocalType, TableType, Event, tableVars,
     localVars
<1>15. CASE doeventwait_prepare(p)
  BY <1>15 DEF doeventwait_prepare, Goto, InWait, Quiet, Shown, SameFields,
     TypeInv, TypeOK, LocalType, TableType, Event, tableVars, localVars
<1>16. CASE doeventwait_check(p)
  BY <1>16 DEF doeventwait_check, Goto, InWait, Quiet, Shown, SameFields,
     TypeInv, TypeOK, LocalType, TableType, Event, tableVars, localVars
<1>17. CASE doeventwait_schedule(p)
  BY <1>17 DEF doeventwait_schedule, Goto, InWait, Quiet, Shown, SameFields,
     TypeInv, TypeOK, LocalType, TableType, Event, tableVars, localVars
<1>18. CASE doeventwait_resume(p)
  BY <1>18 DEF doeventwait_resume, Goto, InWait, Quiet, Shown, SameFields,
     TypeInv, TypeOK, LocalType, TableType, Event, tableVars, localVars
<1>19. CASE doeventwait_finish(p)
  BY <1>19 DEF doeventwait_finish, Goto, Returns, InWait, Quiet, Shown,
     SameFields, TypeInv, TypeOK, LocalType, TableType, Event, tableVars,
     localVars
<1>20. CASE doeventwait_del(p)
  BY <1>20 DEF doeventwait_del, Returns, InWait, Quiet, Shown, SameFields,
     TypeInv, TypeOK, LocalType, TableType, Event, tableVars, localVars
<1>21. CASE doeventinfo_args(p)
  BY <1>21 DEF doeventinfo_args, Enter, Goto, Returns, InWait, Quiet, Shown,
     SameFields, TypeInv, TypeOK, LocalType, TableType, Event, tableVars,
     localVars
<1>22. CASE doeventinfo_lock(p)
  BY <1>22 DEF doeventinfo_lock, Goto, InWait, Quiet, Shown, SameFields,
     TypeInv, TypeOK, LocalType, TableType, Event, tableVars, localVars
<1>23. CASE Return(p)
  BY <1>23 DEF Return, Goto, InWait, Quiet, Shown, SameFields, TypeInv, TypeOK,
     LocalType, TableType, Event, tableVars, localVars
<1>24. CASE UnixSignal(p)
  BY <1>24 DEF UnixSignal, InWait, Quiet, Shown, SameFields, TypeInv, TypeOK,
     LocalType, TableType, Event, tableVars, localVars
<1> QED
  BY <1>1, <1>2, <1>3, <1>4, <1>5, <1>6, <1>7, <1>8, <1>9, <1>10, <1>11, <1>12,
     <1>13, <1>14, <1>15, <1>16, <1>17, <1>18, <1>19, <1>20, <1>21, <1>22,
     <1>23, <1>24

-----------------------------------------------------------------------------
(* QueryInv *)

LEMMA QueryInit == Init => QueryInv
  BY DEF Init, QueryInv

\* The steps of p are the only ones that can disturb it, and few do.
LEMMA QueryKept ==
  ASSUME QueryInv, NEW p \in Procs, Alone(p),
         pc'[p] = "user" => buf'[p] = <<>>,
         pc'[p] \in {"set_lock", "set_second"} =>
           \/ call'[p] = "chown" /\ <<arg'[p].a, arg'[p].b>> \in Owners
           \/ call'[p] = "chmod" /\ <<arg'[p].a, arg'[p].b>> \in Flags
  PROVE  QueryInv'
  BY DEF QueryInv, Alone

LEMMA QueryCorrupts == QueryInv /\ Corrupts => QueryInv'
  BY DEF Corrupts, localVars, QueryInv

\* The steps that do not lead there
LEMMA ElsewhereSteps ==
  ASSUME TypeInv, NEW p \in Procs,
         \/ doeventopen_kmalloc(p) \/ doeventopen_add(p)
         \/ doeventopen_return(p) \/ doeventclose_lookup(p)
         \/ doeventsig_lookup(p) \/ check_active(p) \/ take_write_lock(p)
         \/ count_waiter(p) \/ set_condition(p) \/ wake_begin(p)
         \/ wake_one(p) \/ wake_end(p) \/ doeventclose_del(p)
         \/ doeventclose_free(p) \/ doeventwait_lookup(p)
         \/ doeventwait_reset(p) \/ doeventwait_first(p)
         \/ doeventwait_prepare(p) \/ doeventwait_check(p)
         \/ doeventwait_schedule(p) \/ doeventwait_resume(p)
         \/ doeventwait_finish(p) \/ doeventwait_del(p) \/ set_second(p)
         \/ doeventinfo_args(p) \/ doeventinfo_lock(p) \/ doeventinfo_walk(p)
         \/ doeventinfo_copy(p) \/ doeventstat_lookup(p)
         \/ doeventstat_copy(p) \/ UnixSignal(p)
  PROVE  Corrupts \/ pc'[p] \notin {"user", "set_lock", "set_second"}
<1>1. CASE doeventopen_kmalloc(p)
  BY <1>1 DEF doeventopen_kmalloc, Enter, Goto, Returns, InWait, TypeInv,
     TypeOK, LocalType, localVars
<1>2. CASE doeventopen_add(p)
  BY <1>2 DEF doeventopen_add, Goto, InWait, TypeInv, TypeOK,
     LocalType, localVars
<1>3. CASE doeventopen_return(p)
  BY <1>3 DEF doeventopen_return, Returns, InWait, TypeInv, TypeOK, LocalType,
     localVars
<1>4. CASE doeventclose_lookup(p)
  BY <1>4 DEF doeventclose_lookup, LookupValidated, Enter, GoesOn, Goto,
     Returns, InWait, TypeInv, TypeOK, LocalType, localVars
<1>5. CASE doeventsig_lookup(p)
  BY <1>5 DEF doeventsig_lookup, LookupValidated, Enter, GoesOn, Goto, Returns,
     InWait, TypeInv, TypeOK, LocalType, localVars
<1>6. CASE check_active(p)
  BY <1>6 DEF check_active, Goto, Returns, InWait, TypeInv, TypeOK, LocalType,
     localVars
<1>7. CASE take_write_lock(p)
  BY <1>7 DEF take_write_lock, Goto, InWait, TypeInv, TypeOK, LocalType,
     localVars
<1>8. CASE count_waiter(p)
  BY <1>8 DEF count_waiter, Goto, InWait, TypeInv, TypeOK, LocalType, localVars
<1>9. CASE set_condition(p)
  BY <1>9 DEF set_condition, Goto, InWait, TypeInv, TypeOK, LocalType,
     localVars
<1>10. CASE wake_begin(p)
  BY <1>10 DEF wake_begin, Goto, InWait, TypeInv, TypeOK, LocalType, localVars
<1>11. CASE wake_one(p)
  BY <1>11 DEF wake_one, InWait, TypeInv, TypeOK, LocalType, localVars
<1>12. CASE wake_end(p)
  BY <1>12 DEF wake_end, Goto, Returns, InWait, TypeInv, TypeOK, LocalType,
     localVars
<1>13. CASE doeventclose_del(p)
  BY <1>13 DEF doeventclose_del, Goto, InWait, TypeInv, TypeOK, LocalType,
     localVars
<1>14. CASE doeventclose_free(p)
  BY <1>14 DEF doeventclose_free, Returns, InWait, TypeInv, TypeOK,
     LocalType, localVars
<1>15. CASE doeventwait_lookup(p)
  BY <1>15 DEF doeventwait_lookup, LookupValidated, Enter, GoesOn, Goto,
     Returns, InWait, TypeInv, TypeOK, LocalType, localVars
<1>16. CASE doeventwait_reset(p)
  BY <1>16 DEF doeventwait_reset, Goto, InWait, TypeInv, TypeOK, LocalType,
     localVars
<1>17. CASE doeventwait_first(p)
  BY <1>17 DEF doeventwait_first, Goto, Returns, InWait, TypeInv, TypeOK,
     LocalType, localVars
<1>18. CASE doeventwait_prepare(p)
  BY <1>18 DEF doeventwait_prepare, Goto, InWait, TypeInv, TypeOK, LocalType,
     localVars
<1>19. CASE doeventwait_check(p)
  BY <1>19 DEF doeventwait_check, Goto, InWait, TypeInv, TypeOK, LocalType,
     localVars
<1>20. CASE doeventwait_schedule(p)
  BY <1>20 DEF doeventwait_schedule, Goto, InWait, TypeInv, TypeOK, LocalType,
     localVars
<1>21. CASE doeventwait_resume(p)
  BY <1>21 DEF doeventwait_resume, Goto, InWait, TypeInv, TypeOK, LocalType,
     localVars
<1>22. CASE doeventwait_finish(p)
  BY <1>22 DEF doeventwait_finish, Goto, Returns, InWait, TypeInv, TypeOK,
     LocalType, localVars
<1>23. CASE doeventwait_del(p)
  BY <1>23 DEF doeventwait_del, Returns, InWait, TypeInv, TypeOK, LocalType,
     localVars
<1>24. CASE set_second(p)
  BY <1>24 DEF set_second, Returns, InWait, TypeInv, TypeOK, LocalType,
     localVars
<1>25. CASE doeventinfo_args(p)
  BY <1>25 DEF doeventinfo_args, Enter, Goto, Returns, InWait, TypeInv, TypeOK,
     LocalType, localVars
<1>26. CASE doeventinfo_lock(p)
  BY <1>26 DEF doeventinfo_lock, Goto, InWait, TypeInv, TypeOK, LocalType,
     localVars
<1>27. CASE doeventinfo_walk(p)
  BY <1>27 DEF doeventinfo_walk, Goto, InWait, TypeInv, TypeOK, LocalType,
     localVars
<1>28. CASE doeventinfo_copy(p)
  BY <1>28 DEF doeventinfo_copy, Returns, InWait, TypeInv, TypeOK, LocalType,
     localVars
<1>29. CASE doeventstat_lookup(p)
  BY <1>29 DEF doeventstat_lookup, Enter, Goto, Returns, InWait, TypeInv,
     TypeOK, LocalType, localVars
<1>30. CASE doeventstat_copy(p)
  BY <1>30 DEF doeventstat_copy, Returns, InWait, TypeInv, TypeOK, LocalType,
     localVars
<1>31. CASE UnixSignal(p)
  BY <1>31 DEF UnixSignal, InWait, TypeInv, TypeOK, LocalType, localVars
<1> QED
  BY <1>1, <1>2, <1>3, <1>4, <1>5, <1>6, <1>7, <1>8, <1>9, <1>10, <1>11, <1>12,
     <1>13, <1>14, <1>15, <1>16, <1>17, <1>18, <1>19, <1>20, <1>21, <1>22,
     <1>23, <1>24, <1>25, <1>26, <1>27, <1>28, <1>29, <1>30, <1>31

\* Most steps concern no query.
LEMMA QuerySteps ==
  ASSUME TypeInv, QueryInv, NEW p \in Procs,
         \/ doeventopen_kmalloc(p) \/ doeventopen_add(p)
         \/ doeventopen_return(p) \/ doeventclose_lookup(p)
         \/ doeventsig_lookup(p) \/ check_active(p) \/ take_write_lock(p)
         \/ count_waiter(p) \/ set_condition(p) \/ wake_begin(p)
         \/ wake_one(p) \/ wake_end(p) \/ doeventclose_del(p)
         \/ doeventclose_free(p) \/ doeventwait_lookup(p)
         \/ doeventwait_reset(p) \/ doeventwait_first(p)
         \/ doeventwait_prepare(p) \/ doeventwait_check(p)
         \/ doeventwait_schedule(p) \/ doeventwait_resume(p)
         \/ doeventwait_finish(p) \/ doeventwait_del(p) \/ set_second(p)
         \/ doeventinfo_args(p) \/ doeventinfo_lock(p) \/ doeventinfo_walk(p)
         \/ doeventinfo_copy(p) \/ doeventstat_lookup(p)
         \/ doeventstat_copy(p) \/ UnixSignal(p)
  PROVE  QueryInv'
<1>1. Alone(p)
  BY AloneSteps
<1>2. CASE Corrupts
  BY <1>2, QueryCorrupts
<1>3. CASE ~Corrupts
  BY <1>1, <1>3, ElsewhereSteps, QueryKept
<1> QED
  BY <1>2, <1>3

LEMMA Query_Return ==
  ASSUME TypeInv, QueryInv, NEW p \in Procs, Return(p)
  PROVE  QueryInv'
<1>1. pc'[p] = "user" /\ buf'[p] = <<>>
  BY DEF Return, Goto, TypeInv, TypeOK, LocalType
<1> QED
  BY <1>1, AloneSteps, QueryKept

LEMMA QueryLookupOwned ==
  ASSUME TypeInv, QueryInv, NEW p \in Procs, Alone(p), NEW Pairs, NEW c,
         \/ c = "chown" /\ Pairs = Owners
         \/ c = "chmod" /\ Pairs = Flags,
         LookupOwned(p, c, Pairs)
  PROVE  QueryInv'
<1>1. CASE Corrupts
  BY <1>1, QueryCorrupts
<1>2. CASE ~Corrupts
  <2>1. PICK id \in Ids, v \in Pairs :
          /\ Enter(p, c, [id |-> id, a |-> v[1], b |-> v[2]])
          /\ \/ isValidEventId(id) /\ Returns(p, -1) /\ UNCHANGED ptr
             \/ \E s \in Candidates(p, id) :
                  GoesOn(p, s, validateUserEvent(p, s), "set_lock")
    BY <1>2 DEF LookupOwned
  <2>2. pc'[p] # "user"
    BY <2>1 DEF GoesOn, Goto, Returns, TypeInv, TypeOK
  <2>3. call'[p] = c /\ arg'[p].a = v[1] /\ arg'[p].b = v[2]
    BY <2>1 DEF Enter, TypeInv, TypeOK, LocalType
  <2>4. <<v[1], v[2]>> \in Pairs
    BY <2>1, ConstantsAssumption
  <2> QED
    BY <2>2, <2>3, <2>4, QueryKept
<1> QED
  BY <1>1, <1>2

LEMMA Query_set_first ==
  ASSUME TypeInv, QueryInv, NEW p \in Procs, set_first(p)
  PROVE  QueryInv'
<1>1. CASE Corrupts
  BY <1>1, QueryCorrupts
<1>2. CASE ~Corrupts
  <2>1. /\ pc[p] = "set_lock" /\ pc'[p] = "set_second"
        /\ UNCHANGED <<call, arg>>
    BY <1>2 DEF set_first, Goto, localVars, TypeInv, TypeOK
  <2> QED
    BY <2>1, AloneSteps, QueryKept DEF QueryInv
<1> QED
  BY <1>1, <1>2

LEMMA QueryStep ==
  ASSUME TypeInv, QueryInv, NEW p \in Procs,
         Steps(p) \/ UnixSignal(p) \/ stack_reused(p) \/ slab_reused(p)
  PROVE  QueryInv'
<1>1. CASE open(p)
  BY <1>1, QuerySteps DEF open
<1>2. CASE fire(p)
  BY <1>2, QuerySteps DEF fire
<1>3. CASE wait(p)
  BY <1>3, QuerySteps DEF wait
<1>4. CASE admin(p)
  <2>1. CASE doeventchown_lookup(p)
    BY <2>1, AloneSteps, QueryLookupOwned DEF doeventchown_lookup
  <2>2. CASE doeventchmod_lookup(p)
    BY <2>2, AloneSteps, QueryLookupOwned DEF doeventchmod_lookup
  <2>3. CASE set_first(p)
    BY <2>3, Query_set_first
  <2> QED
    BY <1>4, <2>1, <2>2, <2>3, QuerySteps DEF admin
<1>5. CASE Return(p)
  BY <1>5, Query_Return
<1>6. CASE UnixSignal(p)
  BY <1>6, QuerySteps
<1>7. CASE stack_reused(p) \/ slab_reused(p)
  BY <1>7, QueryCorrupts DEF stack_reused, slab_reused
<1> QED
  BY <1>1, <1>2, <1>3, <1>4, <1>5, <1>6, <1>7 DEF Steps

LEMMA QueryStutter == QueryInv /\ UNCHANGED vars => QueryInv'
  BY DEF vars, localVars, QueryInv

LEMMA QueryInvariant == Spec => []QueryInv
<1>1. TypeInv /\ QueryInv /\ [Next]_vars => QueryInv'
  <2> SUFFICES ASSUME TypeInv, QueryInv, [Next]_vars PROVE QueryInv'
    OBVIOUS
  <2>1. CASE Next
    BY <2>1, QueryStep, QueryStutter DEF Next, Corrupted
  <2>2. CASE UNCHANGED vars
    BY <2>2, QueryStutter
  <2> QED
    BY <2>1, <2>2
<1> QED
  BY <1>1, QueryInit, TypeInvariant, PTL DEF Spec

-----------------------------------------------------------------------------
(* Steps that the table does not show *)

LEMMA CorruptStutters == Corrupts => UNCHANGED <<tableMap, seenMap>>
  BY DEF Corrupts, tableVars, lockVars, localVars, tableMap, seenMap, Listed,
     Settled

\* While nobody is between the two stores, the table shows the fields.
LEMMA ListedPlain ==
  ASSUME NEW s, writer = NONE \/ pc[writer] # "set_second" \/ ptr[writer] # s
  PROVE  Listed(s) = [id |-> ev[s].id, uid |-> ev[s].uid, gid |-> ev[s].gid,
                      uidFlag |-> ev[s].uidFlag, gidFlag |-> ev[s].gidFlag]
  BY DEF Listed, Settled

\* Whoever is about to make the second store holds the lock.
LEMMA SetterIsWriter ==
  ASSUME LockInv, NEW p \in Procs, pc[p] = "set_second"
  PROVE  writer = p
  BY DEF LockInv, WriteSection

\* A listed event shows the same after a step that stores none of its fields
\* and is no store of the second of two.
LEMMA ListedKept ==
  ASSUME TypeInv, TypeInv', LockInv, LockInv', NEW p \in Procs, Alone(p),
         pc[p] # "set_second", pc'[p] # "set_second",
         NEW s \in Slots, SameFields(s)
  PROVE  Listed(s)' = Listed(s)
<1>1. CASE writer # NONE /\ pc[writer] = "set_second" /\ ptr[writer] = s
  <2>1. PICK q \in Procs : q = writer
    BY <1>1 DEF TypeInv, TypeOK, LockType
  <2>2. /\ q # p
        /\ pc'[q] = "set_second" /\ ptr'[q] = s
        /\ call'[q] = call[q] /\ arg'[q] = arg[q]
    BY <1>1, <2>1 DEF Alone
  <2>3. writer' = q
    BY <2>2 DEF LockInv, WriteSection
  <2>4. ev[s] \in Event /\ ev'[s] \in Event
    BY DEF TypeInv, TypeOK, TableType
  <2>5. q # NONE
    BY <1>1, <2>1
  <2>6. /\ Settled(s) = IF call[q] = "chown"
                          THEN [ev[s] EXCEPT !.gid = arg[q].b]
                          ELSE [ev[s] EXCEPT !.gidFlag = arg[q].b]
        /\ Settled(s)' = IF call[q] = "chown"
                          THEN [ev'[s] EXCEPT !.gid = arg[q].b]
                          ELSE [ev'[s] EXCEPT !.gidFlag = arg[q].b]
    BY <1>1, <2>1, <2>2, <2>3, <2>5 DEF Settled
  <2> QED
    BY <2>4, <2>6 DEF Listed, SameFields, Event
<1>2. CASE ~(writer # NONE /\ pc[writer] = "set_second" /\ ptr[writer] = s)
  <2>1. ~(writer # NONE /\ pc[writer] = "set_second" /\ ptr[writer] = s)'
    <3> SUFFICES ASSUME writer' # NONE, pc'[writer'] = "set_second",
                        ptr'[writer'] = s
                 PROVE  FALSE
      OBVIOUS
    <3>1. PICK q \in Procs : q = writer'
      BY DEF TypeInv, TypeOK, LockType
    <3>2. q # p /\ pc[q] = "set_second" /\ ptr[q] = s
      BY <3>1 DEF Alone
    <3>3. writer = q
      BY <3>2, SetterIsWriter
    <3> QED
      BY <1>2, <3>1, <3>2, <3>3
  <2>2. Settled(s) = ev[s] /\ Settled(s)' = ev'[s]
    BY <1>2, <2>1 DEF Settled
  <2> QED
    BY <2>2 DEF Listed, SameFields
<1> QED
  BY <1>1, <1>2

\* The table is as it was if its events are.
LEMMA TableKept ==
  ASSUME TypeInv, evlist' = evlist,
         \A i \in 1 .. Len(evlist) : Listed(evlist[i])' = Listed(evlist[i])
  PROVE  tableMap' = tableMap
  BY DEF tableMap

LEMMA SlotsListed ==
  ASSUME TypeInv
  PROVE  /\ Len(evlist) \in Nat
         /\ \A i \in 1 .. Len(evlist) : evlist[i] \in Slots
  BY ElementOfSeq, LenProperties DEF TypeInv, TypeOK, TableType

\* What p's query has read
SeenBy(p) ==
  IF pc[p] = "stat_copy" /\ buf[p] # <<>> THEN <<arg[p].id>> \o buf[p]
  ELSE IF pc[p] = "info_copy" THEN <<process[p]>> \o buf[p]
  ELSE <<>>

LEMMA SeenByMap == seenMap = [p \in Procs |-> SeenBy(p)]
  BY DEF seenMap, SeenBy

\* One process's step changes what that process has read, at most.
LEMMA SeenMoves ==
  ASSUME NEW p \in Procs, Alone(p)
  PROVE  seenMap' = [seenMap EXCEPT ![p] = SeenBy(p)']
<1>1. \A q \in Procs \ {p} : SeenBy(q)' = SeenBy(q)
  BY DEF Alone, SeenBy
<1>2. seenMap' = [q \in Procs |-> SeenBy(q)']
  BY DEF seenMap, SeenBy
<1> QED
  BY <1>1, <1>2, SeenByMap

\* A step after which p has read the same shows nothing new.
LEMMA SeenKept ==
  ASSUME NEW p \in Procs, Alone(p), SeenBy(p)' = SeenBy(p)
  PROVE  seenMap' = seenMap
  BY SeenMoves, SeenByMap

\* A step that touches no listed event and no query does not show.
LEMMA QuietStutters ==
  ASSUME TypeInv, TypeInv', LockInv, LockInv', NEW p \in Procs, Alone(p),
         Quiet(p)
  PROVE  UNCHANGED <<tableMap, seenMap>>
<1>1. \A s \in Slots : Listed(s)' = Listed(s)
  BY ListedKept DEF Quiet, Shown
<1>2. tableMap' = tableMap
  BY <1>1, SlotsListed, TableKept DEF Quiet
<1>3. seenMap' = seenMap
  BY SeenKept DEF Quiet, Shown, SeenBy
<1> QED
  BY <1>2, <1>3

-----------------------------------------------------------------------------
(* The table as a sequence *)

Entry == [id: Int, uid: Int, gid: Int, uidFlag: Int, gidFlag: Int]

\* Two entries with the same fields are the same.
LEMMA EntryEqual ==
  ASSUME NEW r \in Entry, NEW q \in Entry, r.id = q.id, r.uid = q.uid,
         r.gid = q.gid, r.uidFlag = q.uidFlag, r.gidFlag = q.gidFlag
  PROVE  r = q
  BY DEF Entry

\* What replacing an entry's owner leaves
LEMMA OwnerSet ==
  ASSUME NEW r \in Entry, NEW a \in Int, NEW b \in Int, NEW q \in Entry,
         q.id = r.id, q.uid = a, q.gid = b, q.uidFlag = r.uidFlag,
         q.gidFlag = r.gidFlag
  PROVE  q = [r EXCEPT !.uid = a, !.gid = b]
<1> DEFINE set == [r EXCEPT !.uid = a, !.gid = b]
<1>1. /\ set \in Entry /\ set.id = r.id /\ set.uid = a /\ set.gid = b
      /\ set.uidFlag = r.uidFlag /\ set.gidFlag = r.gidFlag
  BY DEF Entry
<1> HIDE DEF set
<1>2. q = set
  BY <1>1, EntryEqual
<1> QED
  BY <1>2 DEF set

\* What replacing an entry's flags leaves
LEMMA FlagsSet ==
  ASSUME NEW r \in Entry, NEW a \in Int, NEW b \in Int, NEW q \in Entry,
         q.id = r.id, q.uid = r.uid, q.gid = r.gid, q.uidFlag = a,
         q.gidFlag = b
  PROVE  q = [r EXCEPT !.uidFlag = a, !.gidFlag = b]
<1> DEFINE set == [r EXCEPT !.uidFlag = a, !.gidFlag = b]
<1>1. /\ set \in Entry /\ set.id = r.id /\ set.uid = r.uid
      /\ set.gid = r.gid /\ set.uidFlag = a /\ set.gidFlag = b
  BY DEF Entry
<1> HIDE DEF set
<1>2. q = set
  BY <1>1, EntryEqual
<1> QED
  BY <1>2 DEF set

LEMMA MapSeq ==
  ASSUME NEW S, NEW n \in Nat, NEW f \in [1 .. n -> S]
  PROVE  f \in Seq(S) /\ Len(f) = n
<1>1. f \in Seq(S)
  BY SeqDef
<1>2. Len(f) \in Nat /\ DOMAIN f = 1 .. Len(f) /\ DOMAIN f = 1 .. n
  BY <1>1, LenProperties
<1> QED
  BY <1>1, <1>2

LEMMA ListedType ==
  ASSUME TypeInv, NEW s \in Slots
  PROVE  Listed(s) \in Entry
<1>1. ev[s] \in Event
  BY DEF TypeInv, TypeOK, TableType
<1>2. CASE writer # NONE /\ pc[writer] = "set_second" /\ ptr[writer] = s
  <2>1. writer \in Procs /\ arg[writer].b \in Int
    BY <1>2 DEF TypeInv, TypeOK, LockType, LocalType
  <2> QED
    BY <1>1, <1>2, <2>1 DEF Listed, Settled, Event, Entry
<1>3. CASE ~(writer # NONE /\ pc[writer] = "set_second" /\ ptr[writer] = s)
  BY <1>1, <1>3, ListedPlain DEF Event, Entry
<1> QED
  BY <1>2, <1>3

\* The list, as the table sees it, is a sequence of whole entries.
LEMMA TableSeq ==
  ASSUME TypeInv
  PROVE  /\ tableMap \in [1 .. Len(evlist) -> Entry]
         /\ tableMap \in Seq(Entry)
         /\ Len(tableMap) = Len(evlist)
         /\ \A i \in 1 .. Len(evlist) : tableMap[i] = Listed(evlist[i])
<1>1. /\ Len(evlist) \in Nat
      /\ \A i \in 1 .. Len(evlist) : evlist[i] \in Slots
  BY SlotsListed
<1>2. \A i \in 1 .. Len(evlist) : Listed(evlist[i]) \in Entry
  BY <1>1, ListedType
<1>3. /\ tableMap \in [1 .. Len(evlist) -> Entry]
      /\ \A i \in 1 .. Len(evlist) : tableMap[i] = Listed(evlist[i])
  BY <1>2 DEF tableMap
<1> QED
  BY <1>1, <1>3, MapSeq

\* The sequence of events has the length of the list.
LEMMA TableNext ==
  tableMap' = [i \in 1 .. Len(evlist') |-> Listed(evlist[i])']
  BY DEF tableMap

-----------------------------------------------------------------------------
(* doeventopen *)

LEMMA Ref_doeventopen_add ==
  ASSUME TypeInv, LockInv, SlotInv, NEW p \in Procs, doeventopen_add(p)
  PROVE  Table!Next \/ UNCHANGED <<tableMap, seenMap>>
<1>1. CASE Corrupts
  BY <1>1, CorruptStutters
<1>2. CASE ~Corrupts
  <2>0. PICK n \in Nat : n = Len(evlist)
    BY SlotsListed
  <2> DEFINE s == ptr[p]
             e == [id |-> IncInt(LastId), uid |-> Euid[p], gid |-> Egid[p],
                   uidFlag |-> 1, gidFlag |-> 1, condition |-> 0]
             r == [id |-> IncInt(LastId), uid |-> Euid[p], gid |-> Egid[p],
                   uidFlag |-> 1, gidFlag |-> 1]
  <2>1. /\ pc[p] = "open_add" /\ pc'[p] = "open_ret"
        /\ writer = NONE /\ writer' = NONE
        /\ evlist' = Append(evlist, s)
        /\ ev' = [ev EXCEPT ![s] = e]
    BY <1>2 DEF doeventopen_add, CanWrite, Goto, lockVars, TypeInv, TypeOK
  <2>2. s \in Slots /\ n \in Nat /\ \A i \in 1 .. n : evlist[i] \in Slots
    BY <2>0, <2>1, SlotsListed DEF TypeInv, PtrOK, HoldsEvent
  <2>3. \A i \in 1 .. n : evlist[i] # s
    BY <2>0, <2>1 DEF SlotInv
  <2>4. /\ Len(evlist') = n + 1
        /\ \A i \in 1 .. n : evlist'[i] = evlist[i]
        /\ evlist'[n + 1] = s
    BY <2>0, <2>1, <2>2, AppendProperties DEF TypeInv, TypeOK, TableType
  <2>5. ev'[s] = e /\ \A i \in 1 .. n : ev'[evlist[i]] = ev[evlist[i]]
    BY <2>0, <2>1, <2>2, <2>3 DEF TypeInv, TypeOK, TableType
  <2>6. \A i \in 1 .. n : Listed(evlist[i])' = Listed(evlist[i])
    <3>1. \A i \in 1 .. n : Settled(evlist[i]) = ev[evlist[i]]
      BY <2>0, <2>1 DEF Settled
    <3>2. \A i \in 1 .. n : Settled(evlist[i])' = ev[evlist[i]]
      BY <2>0, <2>1, <2>4, <2>5 DEF Settled
    <3> QED
      BY <2>0, <3>1, <3>2 DEF Listed
  <2>7. Listed(evlist[n + 1])' = r
    <3>1. Settled(evlist[n + 1])' = e
      BY <2>0, <2>1, <2>4, <2>5 DEF Settled
    <3> QED
      BY <2>0, <3>1 DEF Listed
  <2>8. LastId \in Int /\ IncInt(LastId) \in Int
    <3>1. CASE evlist = <<>>
      BY <2>0, <3>1, ConstantsAssumption DEF LastId, IncInt
    <3>2. CASE evlist # <<>>
      <4>1. n \in 1 .. n
        BY <2>0, <3>2, <2>2, EmptySeq DEF TypeInv, TypeOK, TableType
      <4>2. ev[evlist[n]] \in Event
        BY <2>0, <4>1, <2>2 DEF TypeInv, TypeOK, TableType
      <4> QED
        BY <2>0, <3>2, <4>2, ConstantsAssumption DEF LastId, Last, IncInt, Event
    <3> QED
      BY <2>0, <3>1, <3>2
  <2>9. r \in Entry
    BY <2>0, <2>8, ConstantsAssumption DEF Entry
  <2>10. r.id = Table!NextId
    <3>1. CASE evlist = <<>>
      <4>1. tableMap = <<>>
        BY <2>0, <3>1, <2>2, TableSeq, EmptySeq, SeqEqual
      <4> QED
        BY <2>0, <3>1, <4>1 DEF Table!NextId, Table!After, LastId, IncInt
    <3>2. CASE evlist # <<>>
      <4>1. n \in 1 .. n
        BY <2>0, <3>2, <2>2, EmptySeq DEF TypeInv, TypeOK, TableType
      <4>2. tableMap # <<>> /\ Len(tableMap) = n
        BY <2>0, <4>1, <2>2, TableSeq, EmptySeq
      <4>3. tableMap[n] = Listed(evlist[n])
        BY <2>0, <4>1, TableSeq
      <4>4. tableMap[n].id = ev[evlist[n]].id
        BY <2>0, <2>1, <4>3 DEF Listed, Settled
      <4> QED
        BY <2>0, <3>2, <4>2, <4>4 DEF Table!NextId, Table!After, LastId, Last, IncInt
    <3> QED
      BY <2>0, <3>1, <3>2
  <2> HIDE DEF r, e
  <2>11. tableMap' = Append(tableMap, r)
    <3>1. /\ Append(tableMap, r) \in Seq(Entry)
          /\ Len(Append(tableMap, r)) = n + 1
          /\ \A i \in 1 .. n : Append(tableMap, r)[i] = Listed(evlist[i])
          /\ Append(tableMap, r)[n + 1] = r
      BY <2>0, <2>9, TableSeq, AppendProperties
    <3>2. \A i \in 1 .. n + 1 :
            Listed(evlist[i])' = IF i = n + 1 THEN r ELSE Listed(evlist[i])
      BY <2>0, <2>2, <2>6, <2>7
    <3>3. tableMap' = [i \in 1 .. n + 1 |->
                         IF i = n + 1 THEN r ELSE Listed(evlist[i])]
      BY <2>0, <2>4, <3>2, TableNext
    <3>4. \A i \in 1 .. n + 1 :
            (IF i = n + 1 THEN r ELSE Listed(evlist[i])) \in Entry
      BY <2>0, <2>2, <2>9, ListedType
    <3>5. tableMap' \in [1 .. n + 1 -> Entry]
      BY <2>0, <3>3, <3>4
    <3>6. tableMap' \in Seq(Entry) /\ Len(tableMap') = n + 1
      BY <2>0, <2>2, <3>5, MapSeq
    <3>7. \A i \in 1 .. n + 1 : tableMap'[i] = Append(tableMap, r)[i]
      BY <2>0, <2>2, <3>1, <3>3
    <3> QED
      BY <2>0, <3>1, <3>6, <3>7, SeqEqual
  <2>12. seenMap' = seenMap
    <3>1. SeenBy(p)' = SeenBy(p)
      BY <2>0, <2>1 DEF SeenBy
    <3> QED
      BY <2>0, <3>1, AloneSteps, SeenKept
  <2>13. Table!Open(p)
    BY <2>0, <2>10, <2>11, <2>12 DEF Table!Open, r
  <2> QED
    BY <2>0, <2>13 DEF Table!Next
<1> QED
  BY <1>1, <1>2

-----------------------------------------------------------------------------
(* doeventclose *)

LEMMA Ref_doeventclose_del ==
  ASSUME TypeInv, LockInv, NEW p \in Procs, doeventclose_del(p)
  PROVE  Table!Next \/ UNCHANGED <<tableMap, seenMap>>
<1>0. PICK n \in Nat : n = Len(evlist)
  BY SlotsListed
<1>1. /\ pc[p] = "close_del" /\ pc'[p] = "close_free"
      /\ evlist' = list_del_init(evlist, ptr[p])
      /\ writer' = NONE /\ ev' = ev
  BY DEF doeventclose_del, Goto, TypeInv, TypeOK
<1>2. writer = p
  BY <1>1 DEF LockInv, WriteSection
<1>3. \A s : Settled(s) = ev[s] /\ Settled(s)' = ev[s]
  BY <1>1, <1>2 DEF Settled
<1>4. \A s : Listed(s)' = Listed(s)
  BY <1>3 DEF Listed
<1>5. seenMap' = seenMap
  <2>1. SeenBy(p)' = SeenBy(p)
    BY <1>1 DEF SeenBy
  <2> QED
    BY <2>1, AloneSteps, SeenKept
<1>6. CASE evlist' = evlist
  <2>1. \A i \in 1 .. Len(evlist) : Listed(evlist[i])' = Listed(evlist[i])
    BY <1>4, <1>6
  <2> QED
    BY <1>5, <1>6, <2>1, TableKept
<1>7. CASE evlist' # evlist
  <2>1. PICK i \in 1 .. n : /\ Len(evlist') = n - 1
                            /\ \A k \in 1 .. n - 1 :
                                 evlist'[k] = IF k < i THEN evlist[k]
                                                       ELSE evlist[k + 1]
    <3>1. evlist \in Seq(Slots)
      BY DEF TypeInv, TypeOK, TableType
    <3>2. /\ Len(evlist') = Len(evlist) - 1
          /\ \E i \in 1 .. Len(evlist) : \A k \in 1 .. Len(evlist) - 1 :
               evlist'[k] = IF k < i THEN evlist[k] ELSE evlist[k + 1]
      BY <1>1, <1>7, <3>1, ListDelInit
    <3> QED
      BY <1>0, <3>2
  <2>2. /\ Table!RemoveAt(tableMap, i) \in Seq(Entry)
        /\ Len(Table!RemoveAt(tableMap, i)) = n - 1
        /\ \A k \in 1 .. n - 1 :
             Table!RemoveAt(tableMap, i)[k] =
               IF k < i THEN tableMap[k] ELSE tableMap[k + 1]
    <3>1. Table!RemoveAt(tableMap, i) = RemoveAt(tableMap, i)
      BY DEF Table!RemoveAt, RemoveAt
    <3>2. tableMap \in Seq(Entry) /\ Len(tableMap) = n
      BY <1>0, TableSeq
    <3> QED
      BY <3>1, <3>2, RemoveAtProperties
  <2>3. \A k \in 1 .. n - 1 :
          /\ Listed(evlist[k])' = Table!RemoveAt(tableMap, i)[k]
          /\ Table!RemoveAt(tableMap, i)[k] \in Entry
    <3> SUFFICES ASSUME NEW k \in 1 .. n - 1
                 PROVE  /\ Listed(evlist[k])' = Table!RemoveAt(tableMap, i)[k]
                        /\ Table!RemoveAt(tableMap, i)[k] \in Entry
      OBVIOUS
    <3>1. Listed(evlist[k])' =
            IF k < i THEN Listed(evlist[k]) ELSE Listed(evlist[k + 1])
      BY <1>4, <2>1
    <3>2. k \in 1 .. n /\ k + 1 \in 1 .. n
      OBVIOUS
    <3>3. /\ tableMap[k] = Listed(evlist[k])
          /\ tableMap[k + 1] = Listed(evlist[k + 1])
          /\ tableMap[k] \in Entry /\ tableMap[k + 1] \in Entry
      BY <1>0, <3>2, TableSeq
    <3> QED
      BY <2>2, <3>1, <3>3
  <2>4. tableMap' = [k \in 1 .. n - 1 |-> Table!RemoveAt(tableMap, i)[k]]
    BY <2>1, <2>3, TableNext
  <2>5. tableMap' \in Seq(Entry) /\ Len(tableMap') = n - 1
    BY <1>0, <2>3, <2>4, MapSeq
  <2>6. tableMap' = Table!RemoveAt(tableMap, i)
    BY <2>2, <2>4, <2>5, SeqEqual
  <2>7. i \in 1 .. Len(tableMap) /\ Table!Close(i)
    BY <1>0, <1>5, <2>6, TableSeq DEF Table!Close
  <2> QED
    BY <2>7 DEF Table!Next
<1> QED
  BY <1>6, <1>7

\* kfree overwrites an event that is no longer listed.
LEMMA Ref_doeventclose_free ==
  ASSUME TypeInv, TypeInv', LockInv, LockInv', NEW p \in Procs,
         doeventclose_free(p)
  PROVE  UNCHANGED <<tableMap, seenMap>>
<1>1. CASE Corrupts
  BY <1>1, CorruptStutters
<1>2. CASE ~Corrupts
  <2>1. /\ pc[p] = "close_free" /\ pc'[p] = "return"
        /\ Freeable(ptr[p])
        /\ evlist' = evlist
        /\ ev' = [ev EXCEPT ![ptr[p]].id = FreePtr[1],
                            ![ptr[p]].uid = FreePtr[2]]
    BY <1>2 DEF doeventclose_free, Returns, TypeInv, TypeOK
  <2>2. \A i \in 1 .. Len(evlist) : SameFields(evlist[i])
    BY <2>1, SlotsListed DEF SameFields, Freeable, Contains, TypeInv, TypeOK,
       TableType
  <2>3. \A i \in 1 .. Len(evlist) : Listed(evlist[i])' = Listed(evlist[i])
    <3> SUFFICES ASSUME NEW i \in 1 .. Len(evlist)
                 PROVE  Listed(evlist[i])' = Listed(evlist[i])
      OBVIOUS
    <3>1. PICK s \in Slots : s = evlist[i]
      BY SlotsListed
    <3>2. Listed(s)' = Listed(s)
      BY <2>1, <2>2, <3>1, AloneSteps, ListedKept
    <3> QED
      BY <2>1, <3>1, <3>2
  <2>4. SeenBy(p)' = SeenBy(p)
    BY <2>1 DEF SeenBy
  <2> QED
    BY <2>1, <2>3, <2>4, TableKept, SeenKept, AloneSteps
<1> QED
  BY <1>1, <1>2

-----------------------------------------------------------------------------
(* doeventchown and doeventchmod *)

\* The lookups of doeventchown and doeventchmod do not show.
LEMMA RefLookupOwned ==
  ASSUME TypeInv, TypeInv', LockInv, LockInv', NEW p \in Procs, Alone(p),
         NEW Pairs, NEW c, LookupOwned(p, c, Pairs)
  PROVE  UNCHANGED <<tableMap, seenMap>>
<1>1. CASE Corrupts
  BY <1>1, CorruptStutters
<1>2. CASE ~Corrupts
  <2>1. /\ pc[p] = "user" /\ pc'[p] \in {"return", "set_lock"}
        /\ UNCHANGED <<evlist, ev>>
    BY <1>2 DEF LookupOwned, Enter, GoesOn, Goto, Returns, tableVars, TypeInv,
       TypeOK
  <2>2. Quiet(p)
    BY <2>1 DEF Quiet, Shown, SameFields
  <2> QED
    BY <2>2, QuietStutters
<1> QED
  BY <1>1, <1>2

\* The first store shows in the table together with the second.
LEMMA Ref_set_first ==
  ASSUME TypeInv, LockInv, SlotInv, QueryInv, NEW p \in Procs, set_first(p)
  PROVE  Table!Next \/ UNCHANGED <<tableMap, seenMap>>
<1>1. CASE Corrupts
  BY <1>1, CorruptStutters
<1>2. CASE ~Corrupts
  <2>0. PICK n \in Nat : n = Len(evlist)
    BY SlotsListed
  <2>1. PICK s \in Slots, a \in Int, b \in Int :
          s = ptr[p] /\ a = arg[p].a /\ b = arg[p].b
    BY DEF set_first, TypeInv, TypeOK, LocalType, PtrOK, HoldsEvent
  <2>2. /\ pc[p] = "set_lock" /\ pc'[p] = "set_second"
        /\ writer = NONE /\ writer' = p
        /\ ptr' = ptr /\ call' = call /\ arg' = arg /\ evlist' = evlist
        /\ ev' = IF call[p] = "chown" THEN [ev EXCEPT ![s].uid = a]
                                      ELSE [ev EXCEPT ![s].uidFlag = a]
    BY <1>2, <2>1 DEF set_first, CanWrite, Goto, localVars, TypeInv, TypeOK
  <2>3. seenMap' = seenMap
    <3>1. SeenBy(p)' = SeenBy(p)
      BY <2>2 DEF SeenBy
    <3> QED
      BY <3>1, AloneSteps, SeenKept
  <2>4. \A x \in Slots : ev[x] \in Event /\ Settled(x) = ev[x]
    BY <2>2 DEF Settled, TypeInv, TypeOK, TableType
  <2>5. p # NONE
    BY NodesAssumption
  <2>6. \A x \in Slots : x # s => Settled(x)' = ev[x]
    BY <2>1, <2>2, <2>4 DEF Settled, TypeInv, TypeOK, TableType
  <2>7. \A x \in Slots : x # s => Listed(x)' = Listed(x)
    BY <2>4, <2>6 DEF Listed
  <2>8. Settled(s)' = IF call[p] = "chown"
                        THEN [ev[s] EXCEPT !.uid = a, !.gid = b]
                        ELSE [ev[s] EXCEPT !.uidFlag = a, !.gidFlag = b]
    <3>1. ev'[s] = IF call[p] = "chown" THEN [ev[s] EXCEPT !.uid = a]
                                        ELSE [ev[s] EXCEPT !.uidFlag = a]
      BY <2>2 DEF TypeInv, TypeOK, TableType
    <3>2. Settled(s)' = IF call[p] = "chown"
                          THEN [ev'[s] EXCEPT !.gid = b]
                          ELSE [ev'[s] EXCEPT !.gidFlag = b]
      BY <2>1, <2>2, <2>5 DEF Settled
    <3> QED
      BY <2>4, <3>1, <3>2 DEF Event
  <2>9. Listed(s)' = IF call[p] = "chown"
                       THEN [Listed(s) EXCEPT !.uid = a, !.gid = b]
                       ELSE [Listed(s) EXCEPT !.uidFlag = a, !.gidFlag = b]
    <3>0. /\ ev[s].id \in Int /\ ev[s].uid \in Int /\ ev[s].gid \in Int
          /\ ev[s].uidFlag \in Int /\ ev[s].gidFlag \in Int
          /\ a \in Int /\ b \in Int
      BY <2>1, <2>4 DEF Event
    <3>1. /\ Listed(s) \in Entry
          /\ Listed(s).id = ev[s].id /\ Listed(s).uid = ev[s].uid
          /\ Listed(s).gid = ev[s].gid /\ Listed(s).uidFlag = ev[s].uidFlag
          /\ Listed(s).gidFlag = ev[s].gidFlag
      <4>1. Listed(s) = [id |-> ev[s].id, uid |-> ev[s].uid,
                         gid |-> ev[s].gid, uidFlag |-> ev[s].uidFlag,
                         gidFlag |-> ev[s].gidFlag]
        BY <2>2, ListedPlain
      <4> QED
        BY <3>0, <4>1 DEF Entry
    <3>2. CASE call[p] = "chown"
      <4>1. Listed(s)' = [id |-> ev[s].id, uid |-> a, gid |-> b,
                          uidFlag |-> ev[s].uidFlag, gidFlag |-> ev[s].gidFlag]
        BY <2>4, <2>8, <3>2 DEF Listed, Event
      <4>2. /\ Listed(s)' \in Entry
            /\ Listed(s)'.id = ev[s].id /\ Listed(s)'.uid = a
            /\ Listed(s)'.gid = b /\ Listed(s)'.uidFlag = ev[s].uidFlag
            /\ Listed(s)'.gidFlag = ev[s].gidFlag
        BY <3>0, <4>1 DEF Entry
      <4>3. PICK q \in Entry : q = Listed(s)'
        BY <4>2
      <4>4. PICK r \in Entry : r = Listed(s)
        BY <3>1
      <4>5. /\ q.id = r.id /\ q.uid = a /\ q.gid = b
            /\ q.uidFlag = r.uidFlag /\ q.gidFlag = r.gidFlag
        BY <3>1, <4>2, <4>3, <4>4
      <4>6. q = [r EXCEPT !.uid = a, !.gid = b]
        BY <4>5, OwnerSet
      <4> QED
        BY <3>2, <4>3, <4>4, <4>6
    <3>3. CASE call[p] # "chown"
      <4>1. Listed(s)' = [id |-> ev[s].id, uid |-> ev[s].uid,
                          gid |-> ev[s].gid, uidFlag |-> a, gidFlag |-> b]
        BY <2>4, <2>8, <3>3 DEF Listed, Event
      <4>2. /\ Listed(s)' \in Entry
            /\ Listed(s)'.id = ev[s].id /\ Listed(s)'.uid = ev[s].uid
            /\ Listed(s)'.gid = ev[s].gid /\ Listed(s)'.uidFlag = a
            /\ Listed(s)'.gidFlag = b
        BY <3>0, <4>1 DEF Entry
      <4>3. PICK q \in Entry : q = Listed(s)'
        BY <4>2
      <4>4. PICK r \in Entry : r = Listed(s)
        BY <3>1
      <4>5. /\ q.id = r.id /\ q.uid = r.uid /\ q.gid = r.gid
            /\ q.uidFlag = a /\ q.gidFlag = b
        BY <3>1, <4>2, <4>3, <4>4
      <4>6. q = [r EXCEPT !.uidFlag = a, !.gidFlag = b]
        BY <4>5, FlagsSet
      <4> QED
        BY <3>3, <4>3, <4>4, <4>6
    <3> QED
      BY <3>2, <3>3
  <2>10. \A k \in 1 .. n : evlist[k] \in Slots
    BY <2>0, SlotsListed
  <2>11. CASE \A k \in 1 .. n : evlist[k] # s
    <3>1. \A k \in 1 .. Len(evlist) : Listed(evlist[k])' = Listed(evlist[k])
      BY <2>0, <2>2, <2>7, <2>10, <2>11
    <3> QED
      BY <2>2, <2>3, <3>1, TableKept
  <2>12. ASSUME NEW i \in 1 .. n, evlist[i] = s
         PROVE  Table!Next
    <3>1. \A k \in 1 .. n : k # i => evlist[k] # s
      BY <2>0, <2>12 DEF SlotInv
    <3>2. tableMap' = [k \in 1 .. n |-> IF k = i THEN Listed(s)'
                                                 ELSE tableMap[k]]
      <4>1. \A k \in 1 .. n : Listed(evlist[k])' = IF k = i THEN Listed(s)'
                                                            ELSE tableMap[k]
        BY <2>0, <2>2, <2>7, <2>10, <2>12, <3>1, TableSeq
      <4> QED
        BY <2>0, <2>2, <4>1, TableNext
    <3>3. /\ tableMap \in [1 .. n -> Entry] /\ Len(tableMap) = n
          /\ tableMap[i] = Listed(s)
      BY <2>0, <2>12, TableSeq
    <3>4. CASE call[p] = "chown"
      <4>1. <<a, b>> \in Owners
        BY <2>1, <2>2, <3>4 DEF QueryInv
      <4>2. tableMap' = [tableMap EXCEPT ![i].uid = <<a, b>>[1],
                                         ![i].gid = <<a, b>>[2]]
        BY <2>9, <3>2, <3>3, <3>4 DEF Entry
      <4>3. Table!Chown(i, <<a, b>>)
        BY <2>3, <4>2 DEF Table!Chown
      <4> QED
        BY <3>3, <4>1, <4>3 DEF Table!Next
    <3>5. CASE call[p] # "chown"
      <4>1. <<a, b>> \in Flags
        BY <2>1, <2>2, <3>5 DEF QueryInv
      <4>2. tableMap' = [tableMap EXCEPT ![i].uidFlag = <<a, b>>[1],
                                         ![i].gidFlag = <<a, b>>[2]]
        BY <2>9, <3>2, <3>3, <3>5 DEF Entry
      <4>3. Table!Chmod(i, <<a, b>>)
        BY <2>3, <4>2 DEF Table!Chmod
      <4> QED
        BY <3>3, <4>1, <4>3 DEF Table!Next
    <3> QED
      BY <3>4, <3>5
  <2> QED
    BY <2>11, <2>12
<1> QED
  BY <1>1, <1>2

\* The second store was shown already.
LEMMA Ref_set_second ==
  ASSUME TypeInv, LockInv, NEW p \in Procs, set_second(p)
  PROVE  UNCHANGED <<tableMap, seenMap>>
<1>1. PICK s \in Slots, b \in Int : s = ptr[p] /\ b = arg[p].b
  BY DEF set_second, TypeInv, TypeOK, LocalType, PtrOK, HoldsEvent
<1>2. /\ pc[p] = "set_second" /\ pc'[p] = "return"
      /\ writer' = NONE /\ evlist' = evlist
      /\ ev' = IF call[p] = "chown" THEN [ev EXCEPT ![s].gid = b]
                                    ELSE [ev EXCEPT ![s].gidFlag = b]
  BY <1>1 DEF set_second, Returns, TypeInv, TypeOK
<1>3. writer = p /\ p # NONE
  BY <1>2, SetterIsWriter, NodesAssumption
<1>4. \A x \in Slots : Settled(x)' = Settled(x)
  BY <1>1, <1>2, <1>3 DEF Settled, TypeInv, TypeOK, TableType
<1>5. \A i \in 1 .. Len(evlist) : Listed(evlist[i])' = Listed(evlist[i])
  BY <1>2, <1>4, SlotsListed DEF Listed
<1>6. SeenBy(p)' = SeenBy(p)
  BY <1>2 DEF SeenBy
<1> QED
  BY <1>2, <1>5, <1>6, TableKept, SeenKept, AloneSteps

-----------------------------------------------------------------------------
(* doeventinfo and doeventstat *)

\* A query that returns forgets what it read.
LEMMA Ref_copy ==
  ASSUME TypeInv, TypeInv', LockInv, LockInv', NEW p \in Procs,
         doeventinfo_copy(p) \/ doeventstat_copy(p)
  PROVE  Table!Next
<1>1. /\ pc[p] \in {"info_copy", "stat_copy"} /\ pc'[p] = "return"
      /\ UNCHANGED <<evlist, ev>>
  BY DEF doeventinfo_copy, doeventstat_copy, Returns, tableVars, TypeInv, TypeOK
<1>2. Alone(p)
  BY AloneSteps
<1>3. \A s \in Slots : Listed(s)' = Listed(s)
  BY <1>1, <1>2, ListedKept DEF SameFields
<1>4. tableMap' = tableMap
  BY <1>1, <1>3, SlotsListed, TableKept
<1>5. SeenBy(p)' = <<>>
  BY <1>1 DEF SeenBy
<1>6. Table!Forget(p)
  BY <1>2, <1>4, <1>5, SeenMoves DEF Table!Forget
<1> QED
  BY <1>6 DEF Table!Next

\* While somebody walks the list, nobody is between the two stores.
LEMMA Ref_doeventinfo_walk ==
  ASSUME TypeInv, TypeInv', LockInv, LockInv', WalkInv, NEW p \in Procs,
         doeventinfo_walk(p)
  PROVE  Table!Next \/ UNCHANGED <<tableMap, seenMap>>
<1>0. /\ pc[p] = "info_walk" /\ pc'[p] \in {"info_walk", "info_copy"}
      /\ UNCHANGED <<evlist, ev>>
  BY DEF doeventinfo_walk, Goto, tableVars, TypeInv, TypeOK
<1>1. Alone(p)
  BY AloneSteps
<1>2. \A s \in Slots : Listed(s)' = Listed(s)
  BY <1>0, <1>1, ListedKept DEF SameFields
<1>3. tableMap' = tableMap
  BY <1>0, <1>2, SlotsListed, TableKept
<1>4. CASE pc'[p] = "info_walk"
  <2>1. SeenBy(p)' = SeenBy(p)
    BY <1>0, <1>4 DEF SeenBy
  <2> QED
    BY <1>1, <1>3, <2>1, SeenKept
<1>5. CASE pc'[p] = "info_copy"
  <2>1. /\ process[p] + 1 \notin 1 .. Len(evlist)
        /\ UNCHANGED <<process, buf>>
    BY <1>0, <1>5 DEF doeventinfo_walk
  <2>2. process[p] = Len(evlist) /\ Len(buf[p]) <= Len(evlist)
    BY <1>0, <2>1, SlotsListed DEF WalkInv
  <2>3. writer = NONE
    <3>1. p \in readers
      BY <1>0 DEF LockInv
    <3> QED
      BY <3>1 DEF LockInv
  <2>4. PICK m \in Nat : m = Len(buf[p])
    BY LenProperties DEF TypeInv, TypeOK, LocalType
  <2>5. \A k \in 1 .. m : buf[p][k] = tableMap[k].id
    <3> SUFFICES ASSUME NEW k \in 1 .. m
                 PROVE  buf[p][k] = tableMap[k].id
      OBVIOUS
    <3>1. k \in 1 .. Len(evlist) /\ buf[p][k] = ev[evlist[k]].id
      BY <1>0, <2>2, <2>4, SlotsListed DEF WalkInv
    <3>2. tableMap[k] = Listed(evlist[k])
      BY <3>1, TableSeq
    <3> QED
      BY <2>3, <3>1, <3>2, ListedPlain
  <2>6. buf[p] = [k \in 1 .. m |-> tableMap[k].id]
    <3>1. buf[p] \in [1 .. m -> Int]
      BY <2>4, LenProperties DEF TypeInv, TypeOK, LocalType
    <3> QED
      BY <2>5, <3>1
  <2>7. SeenBy(p)' = <<Len(tableMap)>> \o [k \in 1 .. m |-> tableMap[k].id]
    BY <1>5, <2>1, <2>2, <2>6, TableSeq DEF SeenBy
  <2>8. m \in 0 .. Len(tableMap)
    BY <2>2, <2>4, SlotsListed, TableSeq
  <2>9. Table!Info(p, m)
    BY <1>1, <1>3, <2>7, SeenMoves DEF Table!Info
  <2> QED
    BY <2>8, <2>9 DEF Table!Next
<1> QED
  BY <1>0, <1>4, <1>5

\* doeventstat reads an event that the list holds, under the id asked for.
LEMMA Ref_doeventstat_lookup ==
  ASSUME TypeInv, TypeInv', LockInv, LockInv', QueryInv, NEW p \in Procs,
         doeventstat_lookup(p)
  PROVE  Table!Next \/ UNCHANGED <<tableMap, seenMap>>
<1>0. /\ pc[p] = "user" /\ pc'[p] \in {"return", "stat_copy"}
      /\ UNCHANGED <<evlist, ev>>
  BY DEF doeventstat_lookup, Enter, Goto, Returns, tableVars, TypeInv, TypeOK
<1>1. Alone(p)
  BY AloneSteps
<1>2. \A s \in Slots : Listed(s)' = Listed(s)
  BY <1>0, <1>1, ListedKept DEF SameFields
<1>3. tableMap' = tableMap
  BY <1>0, <1>2, SlotsListed, TableKept
<1>4. SeenBy(p) = <<>>
  BY <1>0 DEF SeenBy
<1>5. CASE buf' = buf \/ pc'[p] = "return"
  <2>1. buf[p] = <<>>
    BY <1>0 DEF QueryInv
  <2>2. SeenBy(p)' = <<>>
    BY <1>0, <1>5, <2>1 DEF SeenBy
  <2> QED
    BY <1>1, <1>3, <1>4, <2>2, SeenKept
<1>6. CASE buf' # buf /\ pc'[p] = "stat_copy"
  <2>0. PICK id \in Ids, u \in Pointers :
          /\ Enter(p, "stat", [id |-> id, a |-> u, b |-> 0])
          /\ CanRead /\ evlist # <<>>
          /\ \E s \in Candidates(p, id) :
               s # NONE /\ buf' = [buf EXCEPT ![p] = Stat(s)]
    BY <1>6 DEF doeventstat_lookup, Returns, Goto, TypeInv, TypeOK
  <2>1. PICK s \in Candidates(p, id) :
          s # NONE /\ buf' = [buf EXCEPT ![p] = Stat(s)]
    BY <2>0
  <2>2. PICK i \in 1 .. Len(evlist) : s = evlist[i] /\ ev[s].id = id
    BY <2>0, <2>1 DEF Candidates, Found, Finds
  <2>3. s \in Slots /\ ev[s] \in Event /\ id \in Int
    BY <2>2, SlotsListed, ConstantsAssumption DEF TypeInv, TypeOK, TableType
  <2>4. /\ buf'[p] = <<ev[s].uid, ev[s].gid, ev[s].uidFlag, ev[s].gidFlag>>
        /\ arg'[p].id = id
    BY <2>0, <2>1 DEF Stat, Enter, TypeInv, TypeOK, LocalType
  <2>5. SeenBy(p)' = <<id>> \o <<ev[s].uid, ev[s].gid, ev[s].uidFlag,
                              ev[s].gidFlag>>
    <3>1. buf'[p] # <<>>
      BY <2>4
    <3>2. SeenBy(p)' = <<id>> \o buf'[p]
      BY <1>6, <2>4, <3>1 DEF SeenBy
    <3> QED
      BY <2>4, <3>2
  <2>6. /\ tableMap[i] = [id |-> id, uid |-> ev[s].uid, gid |-> ev[s].gid,
                          uidFlag |-> ev[s].uidFlag,
                          gidFlag |-> ev[s].gidFlag]
        /\ i \in 1 .. Len(tableMap)
    BY <2>0, <2>2, TableSeq, ListedPlain DEF CanRead
  <2>7. Table!Stat(p, i)
    BY <1>1, <1>3, <2>5, <2>6, SeenMoves DEF Table!Stat
  <2> QED
    BY <2>6, <2>7 DEF Table!Next
<1> QED
  BY <1>0, <1>5, <1>6

-----------------------------------------------------------------------------
(* The refinement *)

LEMMA RefInit == Init => Table!Init
<1> SUFFICES ASSUME Init PROVE Table!Init
  OBVIOUS
<1>1. Len(evlist) = 0 /\ \A p \in Procs : pc[p] = "user"
  BY EmptySeq DEF Init
<1>2. tableMap \in [1 .. 0 -> Entry]
  BY <1>1 DEF tableMap
<1>3. tableMap \in Seq(Entry) /\ Len(tableMap) = 0
  BY <1>2, MapSeq
<1>4. tableMap = <<>>
  BY <1>3, EmptySeq
<1>5. seenMap = [p \in Procs |-> <<>>]
  BY <1>1 DEF seenMap
<1> QED
  BY <1>4, <1>5 DEF Table!Init

LEMMA RefStep ==
  ASSUME TypeInv, TypeInv', LockInv, LockInv', SlotInv, WalkInv, QueryInv,
         NEW p \in Procs,
         Steps(p) \/ UnixSignal(p) \/ stack_reused(p) \/ slab_reused(p)
  PROVE  Table!Next \/ UNCHANGED <<tableMap, seenMap>>
<1>1. CASE open(p)
  BY <1>1, AloneSteps, QuietSteps, QuietStutters, Ref_doeventopen_add DEF open
<1>2. CASE fire(p)
  BY <1>2, AloneSteps, QuietSteps, QuietStutters, Ref_doeventclose_del,
     Ref_doeventclose_free DEF fire
<1>3. CASE wait(p)
  BY <1>3, AloneSteps, QuietSteps, QuietStutters DEF wait
<1>4. CASE admin(p)
  <2>1. CASE doeventchown_lookup(p) \/ doeventchmod_lookup(p)
    BY <2>1, AloneSteps, RefLookupOwned DEF doeventchown_lookup,
       doeventchmod_lookup
  <2>2. CASE set_first(p) \/ set_second(p)
    BY <2>2, Ref_set_first, Ref_set_second
  <2>3. CASE doeventinfo_args(p) \/ doeventinfo_lock(p)
    BY <2>3, AloneSteps, QuietSteps, QuietStutters
  <2>4. CASE doeventinfo_walk(p) \/ doeventstat_lookup(p)
    BY <2>4, Ref_doeventinfo_walk, Ref_doeventstat_lookup
  <2>5. CASE doeventinfo_copy(p) \/ doeventstat_copy(p)
    BY <2>5, Ref_copy
  <2> QED
    BY <1>4, <2>1, <2>2, <2>3, <2>4, <2>5 DEF admin
<1>5. CASE Return(p) \/ UnixSignal(p)
  BY <1>5, AloneSteps, QuietSteps, QuietStutters
<1>6. CASE stack_reused(p) \/ slab_reused(p)
  BY <1>6, CorruptStutters DEF stack_reused, slab_reused
<1> QED
  BY <1>1, <1>2, <1>3, <1>4, <1>5, <1>6 DEF Steps

LEMMA RefStutter == UNCHANGED vars => UNCHANGED <<tableMap, seenMap>>
  BY DEF vars, tableVars, lockVars, localVars, tableMap, seenMap, Listed,
     Settled

\* Every behaviour of the event system calls is one of EventTable: seen from
\* outside, opening, closing, changing an owner or flags, and reporting are
\* atomic, whatever steps the calls take and however many there are.
THEOREM EventsImplementTable == Spec => ImplementsTable
<1>1. TypeInv /\ TypeInv' /\ LockInv /\ LockInv' /\ SlotInv /\ WalkInv
        /\ QueryInv /\ [Next]_vars => [Table!Next]_(Table!tvars)
  <2> SUFFICES ASSUME TypeInv, TypeInv', LockInv, LockInv', SlotInv, WalkInv,
                      QueryInv, [Next]_vars
               PROVE  Table!Next \/ UNCHANGED <<tableMap, seenMap>>
    BY DEF Table!tvars
  <2>1. CASE Next
    BY <2>1, RefStep, RefStutter DEF Next, Corrupted
  <2>2. CASE UNCHANGED vars
    BY <2>2, RefStutter
  <2> QED
    BY <2>1, <2>2
<1> QED
  BY <1>1, RefInit, TypeInvariant, LockInvariant, TableInvariant,
     WalkInvariant, QueryInvariant, PTL DEF Spec, ImplementsTable, Table!Spec
=============================================================================
