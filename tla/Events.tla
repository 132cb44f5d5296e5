------------------------------- MODULE Events -------------------------------
(***************************************************************************)
(* The event system calls of csc456/eventsyscalls.c: doeventopen (181),    *)
(* doeventclose (182), doeventwait (183), doeventsig (184), doeventinfo    *)
(* (185), doeventchown (205), doeventchmod (211) and doeventstat (214),    *)
(* called by processes that run at once on the CPUs of an SMP kernel.      *)
(*                                                                         *)
(* A step is a critical section of the reader-writer lock `lock', or one   *)
(* access outside it that another CPU can interleave with.  A section      *)
(* whose accesses all go to data the lock protects is one step, taken when *)
(* nobody holds the lock in a conflicting mode; a section that touches     *)
(* what the lock does not protect (a wait queue, `condition'), or that     *)
(* writes or reads several fields, holds the lock over several steps.      *)
(***************************************************************************)
EXTENDS WaitQueue

CONSTANTS
  Calls,       \* Calls[p]: the system calls process p makes
  Euid, Egid,  \* the effective ids of each process
  Ids,         \* the event ids processes pass
  Owners,      \* the <<UID, GID>> pairs processes pass to doeventchown
  Flags,       \* the <<UIDFlag, GIDFlag>> pairs passed to doeventchmod
  Nums,        \* the num values processes pass to doeventinfo
  Interrupted, \* the processes a Unix signal may be sent to
  IntMax,      \* the largest int
  FreePtr,     \* the ints kfree's free-list pointer leaves in id and uid
  MaxOpens     \* bound: no doeventopen once this many events were listed

SysCalls ==
  {"open", "close", "wait", "sig", "info", "chown", "chmod", "stat"}

ASSUME ConstantsAssumption ==
  /\ Calls \in [Procs -> SUBSET SysCalls]
  /\ Euid \in [Procs -> Nat]
  /\ Egid \in [Procs -> Nat]
  /\ Ids \subseteq Int
  /\ Owners \subseteq Nat \X Nat   \* uid_t and gid_t are unsigned
  /\ Flags \subseteq Int \X Int
  /\ Nums \subseteq Int
  /\ Interrupted \subseteq Procs
  /\ IntMax \in Nat
  /\ FreePtr \in Int \X Int
  /\ MaxOpens \in Nat

\* What a user pointer argument can be: NULL, a writable address, a read-only
\* one (copy_from_user succeeds, copy_to_user fails), an unmapped one.
Null     == 0
Writable == 1
ReadOnly == 2
Unmapped == 3
Pointers == {Null, Writable, ReadOnly, Unmapped}

EFAULT == 14

VARIABLES
  evlist,   \* allevents.eventlist, as the sequence of its events' slots
  ev,       \* ev[s]: the fields of the struct event in slot s
  slab,     \* slab[s]: is slot s allocated?
  readers,  \* who holds `lock' for reading, and
  writer,   \* who holds it for writing
  pc, call, \* where each process is, and in which system call
  arg,      \* the system call's arguments
  ptr,      \* the local newevent or waitEvent; it outlives the call on the stack
  process,  \* the locals process (waiters counted) and check (events counted)
  cursor,   \* the local j: the queue node the counting loop has reached
  buf,      \* the local eventsarray, or the this* locals of doeventstat
  retVal,   \* what the system call returns
  opens,    \* history: how many events were ever listed
  heard,    \* history: was condition set at p's pointer since p reset it?
  corrupt   \* the heap or a list head is corrupt: nothing after is modelled

tableVars == <<evlist, ev, slab>>
lockVars  == <<readers, writer>>
localVars == <<call, arg, ptr, process, cursor, buf, retVal>>
ghostVars == <<opens, heard, corrupt>>
vars == <<wqVars, tableVars, lockVars, localVars, ghostVars, pc>>

PCs == {"user", "open_add", "open_ret", "active", "write_lock", "count",
        "set_cond", "wake_lock", "wake", "close_del", "close_free",
        "wait_reset", "wait_first", "wait_prep", "wait_cond",
        "wait_sched", "wait_sleep", "wait_fin", "wait_del", "set_lock",
        "set_second", "info_lock", "info_walk", "info_copy", "stat_copy",
        "return"}

\* Where a process is once doeventwait has found its event.
InWait == {"wait_reset", "wait_first", "wait_prep", "wait_cond",
           "wait_sched", "wait_sleep", "wait_fin", "wait_del"}

Event == [id: Int, uid: Int, gid: Int, uidFlag: Int, gidFlag: Int,
          condition: {0, 1}]

NoArg == [id |-> 0, a |-> 0, b |-> 0]

TableType ==
  /\ evlist \in Seq(Slots)
  /\ ev \in [Slots -> Event]
  /\ slab \in [Slots -> {"free", "live"}]

LockType ==
  /\ readers \subseteq Procs
  /\ writer \in Procs \cup {NONE}

LocalType ==
  /\ call \in [Procs -> SysCalls]
  /\ arg \in [Procs -> [id: Int, a: Int, b: Int]]
  /\ ptr \in [Procs -> Slots \cup {NONE}]
  /\ process \in [Procs -> Int]
  /\ cursor \in [Procs -> Procs \cup Slots \cup {NONE}]
  /\ buf \in [Procs -> Seq(Int)]
  /\ retVal \in [Procs -> Int]

GhostType ==
  /\ opens \in Nat
  /\ heard \in [Procs -> {"no", "inside", "queued"}]
  /\ corrupt \in BOOLEAN

TypeOK ==
  /\ WQTypeOK
  /\ TableType
  /\ LockType
  /\ LocalType
  /\ GhostType
  /\ pc \in [Procs -> PCs]

\* doevent_init, at boot
Init ==
  /\ WQInit
  /\ evlist = <<>>
  /\ ev = [s \in Slots |-> [id |-> 0, uid |-> 0, gid |-> 0, uidFlag |-> 0,
                            gidFlag |-> 0, condition |-> 0]]
  /\ slab = [s \in Slots |-> "free"]
  /\ readers = {}
  /\ writer = NONE
  /\ pc = [p \in Procs |-> "user"]
  /\ call = [p \in Procs |-> "open"]
  /\ arg = [p \in Procs |-> NoArg]
  /\ ptr = [p \in Procs |-> NONE]
  /\ process = [p \in Procs |-> 0]
  /\ cursor = [p \in Procs |-> NONE]
  /\ buf = [p \in Procs |-> <<>>]
  /\ retVal = [p \in Procs |-> 0]
  /\ opens = 0
  /\ heard = [p \in Procs |-> "no"]
  /\ corrupt = FALSE

-----------------------------------------------------------------------------
(* Steps and locks *)

Goto(p, from, to) == pc[p] = from /\ pc' = [pc EXCEPT ![p] = to]

\* The system call's last step: it returns r.
Returns(p, r) ==
  /\ pc' = [pc EXCEPT ![p] = "return"]
  /\ retVal' = [retVal EXCEPT ![p] = r]

\* Back to user mode.  Locals die, but waitEvent's stack slot keeps its value.
Return(p) ==
  /\ Goto(p, "return", "user")
  /\ deliver_signal(p)
  /\ arg' = [arg EXCEPT ![p] = NoArg]
  /\ process' = [process EXCEPT ![p] = 0]
  /\ cursor' = [cursor EXCEPT ![p] = NONE]
  /\ buf' = [buf EXCEPT ![p] = <<>>]
  /\ retVal' = [retVal EXCEPT ![p] = 0]
  /\ heard' = [heard EXCEPT ![p] = "no"]
  /\ UNCHANGED <<tableVars, lockVars, call, ptr, opens, corrupt>>

\* (mutants) a section without its lock; a writer that does not wait for
\* readers; one that does not wait for writers
CanRead_unlocked == TRUE
CanWrite_with_readers == writer = NONE
CanWrite_with_writer == readers = {}

\* read_lock_irqsave and write_lock_irqsave spin until this holds.
CanRead  == writer = NONE
CanWrite == writer = NONE /\ readers = {}

\* p enters system call c with its arguments.
Enter(p, c, a) ==
  /\ pc[p] = "user"
  /\ c \in Calls[p]
  /\ call' = [call EXCEPT ![p] = c]
  /\ arg' = [arg EXCEPT ![p] = a]

\* int arithmetic: the kernel is built with -fno-strict-overflow.
IncInt(n) == IF n = IntMax THEN -IntMax - 1 ELSE n + 1

\* An access that leaves the heap or a list head in a state the model does
\* not represent.  The step itself changes nothing else.
Corrupts ==
  /\ corrupt' = TRUE
  /\ UNCHANGED <<wqVars, tableVars, lockVars, localVars, opens, heard, pc>>

-----------------------------------------------------------------------------
(* sys_doeventopen *)

\* kmalloc(sizeof(struct event), GFP_KERNEL) may fail, or reuse any free slot.
doeventopen_kmalloc(p) ==
  /\ Enter(p, "open", NoArg)
  /\ opens < MaxOpens
  /\ \/ /\ Returns(p, -1)
        /\ UNCHANGED <<slab, ptr>>
     \/ \E s \in Slots :
          /\ slab[s] = "free"
          /\ slab' = [slab EXCEPT ![s] = "live"]
          /\ ptr' = [ptr EXCEPT ![p] = s]
          /\ Goto(p, "user", "open_add")
          /\ UNCHANGED retVal
  /\ UNCHANGED <<wqVars, evlist, ev, lockVars, process, cursor, buf,
                 ghostVars>>

\* (mutant) list_add instead of list_add_tail: the head is always before it.
LastId_list_add == -1

\* The id of the event before the new one, or of the head, allevents.id = -1.
LastId == IF evlist = <<>> THEN -1 ELSE ev[Last(evlist)].id

\* init_waitqueue_head on a queue that a stale waiter or waker still uses.
QueueInUse(s) == waitqueue_active(s) \/ qlock[s] # NONE

\* The section under the write lock: list_add_tail, the fields, the queue.
doeventopen_add(p) ==
  LET s == ptr[p] IN
  /\ pc[p] = "open_add"
  /\ CanWrite
  /\ \/ /\ ~QueueInUse(s)
        /\ evlist' = Append(evlist, s)
        /\ ev' = [ev EXCEPT ![s] =
                    [id |-> IncInt(LastId), uid |-> Euid[p], gid |-> Egid[p],
                     uidFlag |-> 1, gidFlag |-> 1, condition |-> 0]]
        /\ opens' = opens + 1
        /\ Goto(p, "open_add", "open_ret")
        /\ UNCHANGED <<wqVars, slab, lockVars, localVars, heard, corrupt>>
     \/ /\ QueueInUse(s)
        /\ Corrupts

\* return newevent->id, read after the lock is dropped.
doeventopen_return(p) ==
  /\ pc[p] = "open_ret"
  /\ Returns(p, ev[ptr[p]].id)
  /\ UNCHANGED <<wqVars, tableVars, lockVars, call, arg, ptr, process, cursor,
                 buf, ghostVars>>

-----------------------------------------------------------------------------
(* Looking an event up, under the read lock *)

isValidEventId(id) == id < 0   \* (sic) true of the ids that are refused

\* list_for_each stops at the i-th event of the list.
Finds(id, i) ==
  /\ i \in 1 .. Len(evlist)
  /\ ev[evlist[i]].id = id
  /\ \A j \in 1 .. i - 1 : ev[evlist[j]].id # id

\* What the loop leaves in waitEvent: the event it stopped at, or null.
Found(id) ==
  LET hits == {i \in 1 .. Len(evlist) : Finds(id, i)}
  IN  IF hits = {} THEN {NONE} ELSE {evlist[i] : i \in hits}

validateEvent(p, s) ==
  /\ s # NONE
  /\ \/ Euid[p] = 0
     \/ Euid[p] = ev[s].uid /\ ev[s].uidFlag = 1
     \/ Egid[p] = ev[s].gid /\ ev[s].gidFlag = 1

validateUserEvent(p, s) == s # NONE /\ (Euid[p] = 0 \/ Euid[p] = ev[s].uid)

\* read_unlock_irqrestore: p goes on with a bare pointer to the event, or fails.
GoesOn(p, s, valid, to) ==
  /\ ptr' = [ptr EXCEPT ![p] = s]
  /\ \/ valid /\ Goto(p, "user", to) /\ UNCHANGED retVal
     \/ ~valid /\ Returns(p, -1)

\* doeventclose, doeventwait and doeventsig, up to read_unlock_irqrestore
LookupValidated(p, c, to) ==
  /\ \E id \in Ids :
       /\ Enter(p, c, [NoArg EXCEPT !.id = id])
       /\ \/ isValidEventId(id) /\ Returns(p, -1) /\ UNCHANGED ptr
          \/ /\ ~isValidEventId(id)
             /\ CanRead
             /\ \E s \in Found(id) : GoesOn(p, s, validateEvent(p, s), to)
  /\ UNCHANGED <<wqVars, tableVars, lockVars, process, cursor, buf, ghostVars>>

doeventclose_lookup(p) == LookupValidated(p, "close", "active")
doeventsig_lookup(p)   == LookupValidated(p, "sig", "active")
doeventwait_lookup(p)  == LookupValidated(p, "wait", "wait_reset")

-----------------------------------------------------------------------------
(* sys_doeventsig and sys_doeventclose, after the lookup *)

\* waitqueue_active, without any lock.  doeventsig returns 0 if nobody waits.
check_active(p) ==
  LET active == waitqueue_active(ptr[p]) IN
  /\ pc[p] = "active"
  /\ \/ /\ call[p] = "sig" /\ ~active
        /\ Returns(p, 0)
        /\ UNCHANGED process
     \/ /\ call[p] = "close" \/ active
        /\ process' = [process EXCEPT ![p] = IF active THEN 1 ELSE 0]
        /\ Goto(p, "active", "write_lock")
        /\ UNCHANGED retVal
  /\ UNCHANGED <<wqVars, tableVars, lockVars, call, arg, ptr, cursor, buf,
                 ghostVars>>

take_write_lock(p) ==
  /\ CanWrite
  /\ writer' = p
  /\ \/ /\ process[p] # 0
        /\ process' = [process EXCEPT ![p] = 0]
        /\ cursor' = [cursor EXCEPT ![p] = ptr[p]]
        /\ Goto(p, "write_lock", "count")
     \/ /\ process[p] = 0
        /\ Goto(p, "write_lock", "close_del")
        /\ UNCHANGED <<process, cursor>>
  /\ UNCHANGED <<wqVars, tableVars, readers, call, arg, ptr, buf, retVal,
                 ghostVars>>

\* One turn of list_for_each over the queue: `lock' is held, the queue's own
\* lock is not.
count_waiter(p) ==
  LET j == NextNode(cursor[p]) IN
  /\ pc[p] = "count"
  /\ \/ /\ j = ptr[p]
        /\ Goto(p, "count", "set_cond")
        /\ UNCHANGED <<process, cursor>>
     \/ /\ j # ptr[p]
        /\ UNCHANGED pc
        /\ cursor' = [cursor EXCEPT ![p] = j]
        /\ process' = [process EXCEPT ![p] = IncInt(@)]
  /\ UNCHANGED <<wqVars, tableVars, lockVars, call, arg, ptr, buf, retVal,
                 ghostVars>>

\* (mutant) condition++
set_condition_increments(p) ==
  /\ Goto(p, "set_cond", "wake_lock")
  /\ ev' = [ev EXCEPT ![ptr[p]].condition = @ + 1]
  /\ writer' = IF call[p] = "sig" THEN NONE ELSE writer
  /\ UNCHANGED <<wqVars, evlist, slab, readers, localVars, ghostVars>>

\* (mutant) doeventsig keeps the lock
set_condition_keeps_lock(p) ==
  /\ Goto(p, "set_cond", "wake_lock")
  /\ ev' = [ev EXCEPT ![ptr[p]].condition = 1]
  /\ UNCHANGED <<wqVars, evlist, slab, lockVars, localVars, ghostVars>>

\* condition = 1; doeventsig drops the lock before it wakes, doeventclose not.
set_condition(p) ==
  LET s == ptr[p] IN
  /\ Goto(p, "set_cond", "wake_lock")
  /\ ev' = [ev EXCEPT ![s].condition = 1]
  /\ writer' = IF call[p] = "sig" THEN NONE ELSE writer
  /\ heard' = [q \in Procs |->
                 IF pc[q] \notin InWait \/ ptr[q] # s THEN heard[q]
                 ELSE IF Contains(queue[s], q) THEN "queued"
                 ELSE IF heard[q] = "no" THEN "inside" ELSE heard[q]]
  /\ UNCHANGED <<wqVars, evlist, slab, readers, localVars, opens, corrupt>>

\* wake_up_all(&waitEvent->queue)
wake_begin(p) ==
  /\ Goto(p, "wake_lock", "wake")
  /\ wake_up_lock(p, ptr[p])
  /\ UNCHANGED <<tableVars, lockVars, localVars, ghostVars>>

wake_one(p) ==
  /\ pc[p] = "wake"
  /\ wake_up_next(p, ptr[p])
  /\ UNCHANGED <<tableVars, lockVars, localVars, ghostVars, pc>>

wake_end(p) ==
  /\ pc[p] = "wake"
  /\ wake_up_unlock(p, ptr[p])
  /\ \/ call[p] = "sig" /\ Returns(p, process[p])
     \/ call[p] = "close" /\ Goto(p, "wake", "close_del") /\ UNCHANGED retVal
  /\ UNCHANGED <<tableVars, lockVars, call, arg, ptr, process, cursor, buf,
                 ghostVars>>

\* list_del_init(&waitEvent->eventlist); write_unlock_irqrestore
doeventclose_del(p) ==
  /\ Goto(p, "close_del", "close_free")
  /\ evlist' = list_del_init(evlist, ptr[p])
  /\ writer' = NONE
  /\ UNCHANGED <<wqVars, ev, slab, readers, localVars, ghostVars>>

\* kfree takes back a live object that no list and no doeventopen refers to;
\* of anything else, it would put on the free list what is there or in use.
Freeable(s) ==
  /\ slab[s] = "live"
  /\ ~Contains(evlist, s)
  /\ \A q \in Procs : pc[q] = "open_add" => ptr[q] # s

\* kfree(waitEvent).  SLUB keeps the free list in the object's first word.
doeventclose_free(p) ==
  LET s == ptr[p] IN
  /\ pc[p] = "close_free"
  /\ \/ /\ Freeable(s)
        /\ slab' = [slab EXCEPT ![s] = "free"]
        /\ ev' = [ev EXCEPT ![s].id = FreePtr[1], ![s].uid = FreePtr[2]]
        /\ Returns(p, process[p])
        /\ UNCHANGED <<wqVars, evlist, lockVars, call, arg, ptr, process,
                       cursor, buf, ghostVars>>
     \/ /\ ~Freeable(s)
        /\ Corrupts

-----------------------------------------------------------------------------
(* sys_doeventwait, after the lookup *)

\* (mutant) no reset
doeventwait_reset_omitted(p) ==
  /\ Goto(p, "wait_reset", "wait_first")
  /\ heard' = [heard EXCEPT ![p] = "no"]
  /\ UNCHANGED <<wqVars, tableVars, lockVars, localVars, opens, corrupt>>

\* waitEvent->condition = 0, under no lock
doeventwait_reset(p) ==
  /\ Goto(p, "wait_reset", "wait_first")
  /\ ev' = [ev EXCEPT ![ptr[p]].condition = 0]
  /\ heard' = [heard EXCEPT ![p] = "no"]
  /\ UNCHANGED <<wqVars, evlist, slab, lockVars, localVars, opens, corrupt>>

\* wait_event_interruptible's first look at the condition, for which the
\* compiler may use the 0 that was just stored.
doeventwait_first(p) ==
  /\ \/ /\ pc[p] = "wait_first"
        /\ ev[ptr[p]].condition # 0
        /\ Returns(p, 1)
     \/ Goto(p, "wait_first", "wait_prep") /\ UNCHANGED retVal
  /\ UNCHANGED <<wqVars, tableVars, lockVars, call, arg, ptr, process, cursor,
                 buf, ghostVars>>

doeventwait_prepare(p) ==
  /\ Goto(p, "wait_prep", "wait_cond")
  /\ prepare_to_wait(p, ptr[p])
  /\ UNCHANGED <<tableVars, lockVars, localVars, ghostVars>>

\* if (condition) break; if (!signal_pending) { schedule(); continue; } break
doeventwait_check(p) ==
  /\ pc[p] = "wait_cond"
  /\ IF ev[ptr[p]].condition # 0 \/ sigPending[p]
       THEN Goto(p, "wait_cond", "wait_fin")
       ELSE Goto(p, "wait_cond", "wait_sched")
  /\ UNCHANGED <<wqVars, tableVars, lockVars, localVars, ghostVars>>

doeventwait_schedule(p) ==
  /\ Goto(p, "wait_sched", "wait_sleep")
  /\ schedule(p)
  /\ UNCHANGED <<tableVars, lockVars, localVars, ghostVars>>

\* The task runs again once it is back on a run queue.
doeventwait_resume(p) ==
  /\ Goto(p, "wait_sleep", "wait_prep")
  /\ onRq[p]
  /\ UNCHANGED <<wqVars, tableVars, lockVars, localVars, ghostVars>>

\* (mutant) the entry is left to autoremove_wake_function
doeventwait_finish_linked(p) ==
  /\ pc[p] = "wait_fin"
  /\ finish_wait_state(p)
  /\ Returns(p, 1)
  /\ UNCHANGED <<tableVars, lockVars, call, arg, ptr, process, cursor, buf,
                 ghostVars>>

\* finish_wait, then return 1 whatever wait_event_interruptible's value is.
doeventwait_finish(p) ==
  /\ pc[p] = "wait_fin"
  /\ finish_wait_state(p)
  /\ \/ Unlinked(p) /\ Returns(p, 1)
     \/ ~Unlinked(p) /\ Goto(p, "wait_fin", "wait_del") /\ UNCHANGED retVal
  /\ UNCHANGED <<tableVars, lockVars, call, arg, ptr, process, cursor, buf,
                 ghostVars>>

doeventwait_del(p) ==
  /\ pc[p] = "wait_del"
  /\ finish_wait_del(p, ptr[p])
  /\ Returns(p, 1)
  /\ UNCHANGED <<tableVars, lockVars, call, arg, ptr, process, cursor, buf,
                 ghostVars>>

\* A Unix signal is sent to p while it is in doeventwait.
UnixSignal(p) ==
  /\ p \in Interrupted
  /\ pc[p] \in InWait
  /\ signal_wake_up(p)
  /\ UNCHANGED <<tableVars, lockVars, localVars, ghostVars, pc>>

-----------------------------------------------------------------------------
(* sys_doeventchown and sys_doeventchmod *)

\* waitEvent when the list is empty: it was never assigned, and holds what was
\* in its stack slot or register: null, an earlier call's event, or anything.
Uninitialised(p) == {NONE, ptr[p]}

Candidates(p, id) ==
  IF evlist = <<>> THEN Uninitialised(p) ELSE Found(id)

\* Up to read_unlock_irqrestore.  uid_t is unsigned: UID < 0 is never true.
LookupOwned(p, c, Pairs) ==
  \/ /\ \E id \in Ids, v \in Pairs :
          /\ Enter(p, c, [id |-> id, a |-> v[1], b |-> v[2]])
          /\ \/ isValidEventId(id) /\ Returns(p, -1) /\ UNCHANGED ptr
             \/ /\ ~isValidEventId(id)
                /\ CanRead
                /\ \E s \in Candidates(p, id) :
                     GoesOn(p, s, validateUserEvent(p, s), "set_lock")
     /\ UNCHANGED <<wqVars, tableVars, lockVars, process, cursor, buf,
                    ghostVars>>
  \/ /\ pc[p] = "user" /\ c \in Calls[p]   \* a wild waitEvent
     /\ \E id \in Ids : ~isValidEventId(id)
     /\ evlist = <<>>
     /\ CanRead
     /\ Corrupts

doeventchown_lookup(p) == LookupOwned(p, "chown", Owners)
doeventchmod_lookup(p) == LookupOwned(p, "chmod", Flags)

\* The first assignment under the write lock.  A freed event's uid is part of
\* kfree's free-list pointer.
set_first(p) ==
  LET s == ptr[p] IN
  /\ pc[p] = "set_lock"
  /\ CanWrite
  /\ \/ /\ call[p] = "chmod" \/ slab[s] = "live"
        /\ Goto(p, "set_lock", "set_second")
        /\ writer' = p
        /\ ev' = IF call[p] = "chown" THEN [ev EXCEPT ![s].uid = arg[p].a]
                                      ELSE [ev EXCEPT ![s].uidFlag = arg[p].a]
        /\ UNCHANGED <<wqVars, evlist, slab, readers, localVars, ghostVars>>
     \/ /\ call[p] = "chown" /\ slab[s] = "free"
        /\ Corrupts

\* The second assignment and the unlock.
set_second(p) ==
  LET s == ptr[p] IN
  /\ pc[p] = "set_second"
  /\ ev' = IF call[p] = "chown" THEN [ev EXCEPT ![s].gid = arg[p].b]
                                ELSE [ev EXCEPT ![s].gidFlag = arg[p].b]
  /\ writer' = NONE
  /\ Returns(p, 0)
  /\ UNCHANGED <<wqVars, evlist, slab, readers, call, arg, ptr, process,
                 cursor, buf, ghostVars>>

-----------------------------------------------------------------------------
(* sys_doeventinfo *)

\* The checks before the lock: num (kept in arg.id) and the user's pointer.
doeventinfo_args(p) ==
  /\ \E num \in Nums, u \in Pointers :
       /\ Enter(p, "info", [id |-> num, a |-> u, b |-> 0])
       /\ \/ num < 0 /\ u # Null /\ Returns(p, -1)
          \/ num >= 0 /\ u = Unmapped /\ Returns(p, -1)
          \/ /\ u = Null \/ (num >= 0 /\ u # Unmapped)
             /\ Goto(p, "user", "info_lock")
             /\ UNCHANGED retVal
  /\ process' = [process EXCEPT ![p] = 0]
  /\ buf' = [buf EXCEPT ![p] = <<>>]
  /\ UNCHANGED <<wqVars, tableVars, lockVars, ptr, cursor, ghostVars>>

doeventinfo_lock(p) ==
  /\ Goto(p, "info_lock", "info_walk")
  /\ CanRead
  /\ readers' = readers \cup {p}
  /\ UNCHANGED <<wqVars, tableVars, writer, localVars, ghostVars>>

\* One turn of list_for_each, or its end and read_unlock_irqrestore.
\* process[p] is the local check.
doeventinfo_walk(p) ==
  LET i == process[p] + 1 IN
  /\ pc[p] = "info_walk"
  /\ \/ /\ i \in 1 .. Len(evlist)
        /\ UNCHANGED pc
        /\ process' = [process EXCEPT ![p] = i]
        /\ buf' = IF process[p] < arg[p].id /\ arg[p].a # Null
                    THEN [buf EXCEPT ![p] = Append(@, ev[evlist[i]].id)]
                    ELSE buf
        /\ UNCHANGED readers
     \/ /\ i \notin 1 .. Len(evlist)
        /\ Goto(p, "info_walk", "info_copy")
        /\ readers' = readers \ {p}
        /\ UNCHANGED <<process, buf>>
  /\ UNCHANGED <<wqVars, tableVars, writer, call, arg, ptr, cursor, retVal,
                 ghostVars>>

\* copy_to_user of the whole array, padded with -1 up to num, and the result.
doeventinfo_copy(p) ==
  LET num   == arg[p].id
      check == process[p]
  IN
  /\ pc[p] = "info_copy"
  /\ \/ /\ arg[p].a = Null
        /\ Returns(p, check)
        /\ UNCHANGED buf
     \/ /\ arg[p].a # Null /\ check <= num /\ (arg[p].a = Writable \/ num = 0)
        /\ buf' = [buf EXCEPT ![p] = @ \o [k \in 1 .. num - check |-> -1]]
        /\ Returns(p, check)
     \/ /\ arg[p].a # Null /\ check <= num /\ arg[p].a = ReadOnly /\ num > 0
        /\ Returns(p, -1)
        /\ UNCHANGED buf
     \/ /\ arg[p].a # Null /\ check > num
        /\ Returns(p, -1)
        /\ UNCHANGED buf
  /\ UNCHANGED <<wqVars, tableVars, lockVars, call, arg, ptr, process, cursor,
                 ghostVars>>

-----------------------------------------------------------------------------
(* sys_doeventstat *)

Stat(s) == <<ev[s].uid, ev[s].gid, ev[s].uidFlag, ev[s].gidFlag>>

\* The copy_from_user probes, the lookup and the reads under the read lock.
\* arg.a stands for the least usable of the four user pointers.  There is no
\* permission check.
doeventstat_lookup(p) ==
  /\ \E id \in Ids, u \in Pointers :
       /\ Enter(p, "stat", [id |-> id, a |-> u, b |-> 0])
       /\ \/ /\ u = Unmapped \/ isValidEventId(id)
             /\ Returns(p, -1)
             /\ UNCHANGED <<ptr, buf>>
          \/ /\ u # Unmapped /\ ~isValidEventId(id)
             /\ CanRead
             /\ \/ \E s \in Candidates(p, id) :
                     /\ ptr' = [ptr EXCEPT ![p] = s]
                     /\ \/ s = NONE /\ Returns(p, -1) /\ UNCHANGED buf
                        \/ /\ s # NONE
                           /\ Goto(p, "user", "stat_copy")
                           /\ buf' = IF evlist = <<>> THEN buf
                                     ELSE [buf EXCEPT ![p] = Stat(s)]
                           /\ UNCHANGED retVal
                \/ /\ evlist = <<>>   \* a wild waitEvent is never followed
                   /\ Goto(p, "user", "stat_copy")
                   /\ UNCHANGED <<ptr, buf, retVal>>
  /\ UNCHANGED <<wqVars, tableVars, lockVars, process, cursor, ghostVars>>

\* The four copy_to_user calls, all tried before any failure is reported.
doeventstat_copy(p) ==
  /\ pc[p] = "stat_copy"
  /\ Returns(p, IF arg[p].a = ReadOnly THEN -EFAULT ELSE 0)
  /\ UNCHANGED <<wqVars, tableVars, lockVars, call, arg, ptr, process, cursor,
                 buf, ghostVars>>

-----------------------------------------------------------------------------
(* The specification *)

\* The entry the loop has reached was on the stack of a process that has left
\* doeventwait since, and something else is there by now.
stack_reused(p) ==
  /\ pc[p] = "count"
  /\ \E q \in Procs : cursor[p] = q /\ pc[q] \notin InWait
  /\ Corrupts

\* Another user of the slab gets a freed slot that a system call still uses.
slab_reused(p) ==
  /\ pc[p] \in InWait \cup {"open_ret", "active", "write_lock", "count",
                            "set_cond", "wake_lock", "wake", "close_del",
                            "set_lock", "set_second"}
  /\ slab[ptr[p]] = "free"
  /\ Corrupts

open(p)  == doeventopen_kmalloc(p) \/ doeventopen_add(p) \/ doeventopen_return(p)
fire(p)  == \/ doeventclose_lookup(p) \/ doeventsig_lookup(p)
            \/ check_active(p) \/ take_write_lock(p)
            \/ count_waiter(p) \/ set_condition(p)
            \/ wake_begin(p) \/ wake_one(p) \/ wake_end(p)
            \/ doeventclose_del(p) \/ doeventclose_free(p)
wait(p)  == \/ doeventwait_lookup(p) \/ doeventwait_reset(p)
            \/ doeventwait_first(p) \/ doeventwait_prepare(p)
            \/ doeventwait_check(p) \/ doeventwait_schedule(p)
            \/ doeventwait_resume(p) \/ doeventwait_finish(p)
            \/ doeventwait_del(p)
admin(p) == \/ doeventchown_lookup(p) \/ doeventchmod_lookup(p)
            \/ set_first(p) \/ set_second(p)
            \/ doeventinfo_args(p) \/ doeventinfo_lock(p)
            \/ doeventinfo_walk(p) \/ doeventinfo_copy(p)
            \/ doeventstat_lookup(p) \/ doeventstat_copy(p)

Steps(p) == open(p) \/ fire(p) \/ wait(p) \/ admin(p) \/ Return(p)

\* Nothing is said of a run after it has corrupted the kernel's memory.
Corrupted == corrupt /\ UNCHANGED vars

Next ==
  \/ /\ ~corrupt
     /\ \E p \in Procs : \/ Steps(p)
                         \/ UnixSignal(p) \/ stack_reused(p) \/ slab_reused(p)
  \/ Corrupted

Spec == Init /\ [][Next]_vars

\* A process inside a system call keeps running; none need ever make a call.
InKernel(p) == ~corrupt /\ pc[p] # "user" /\ Steps(p)

\* The x86 ticket spinlock serves q->lock's waiters in their order.
Queues(p) == ~corrupt /\ (wake_begin(p) \/ doeventwait_prepare(p)
                                        \/ doeventwait_del(p))

Fairness == \A p \in Procs : WF_vars(InKernel(p)) /\ SF_vars(Queues(p))

FairSpec == Spec /\ Fairness

-----------------------------------------------------------------------------
(* What holds of the code *)

\* Until the ids have used up the ints, doeventopen's "last id plus one" gives
\* listed events strictly increasing ids, none negative, whatever the order in
\* which events are opened and closed, stale closes included: an id names one
\* event, and the search by id cannot stop at another one.
IdsIncreasing ==
  opens <= IntMax + 1 =>
    /\ \A i \in 1 .. Len(evlist) : ev[evlist[i]].id >= 0
    /\ \A i, j \in 1 .. Len(evlist) :
         i < j => ev[evlist[i]].id < ev[evlist[j]].id

\* doeventinfo's walk sees one state of the list: what it has stored are the
\* first ids of the list as it is now, one per event passed up to num, and
\* never more than eventsarray can hold.
InfoSnapshot ==
  \A p \in Procs : pc[p] = "info_walk" =>
    /\ process[p] <= Len(evlist)
    /\ arg[p].a # Null =>
         /\ Len(buf[p]) <= arg[p].id
         /\ Len(buf[p]) = process[p] \/ Len(buf[p]) = arg[p].id
    /\ \A k \in 1 .. Len(buf[p]) : buf[p][k] = ev[evlist[k]].id

\* Where p is between write_lock_irqsave and write_unlock_irqrestore
WriteSection(p) ==
  \/ pc[p] \in {"count", "set_cond", "close_del", "set_second"}
  \/ pc[p] \in {"wake_lock", "wake"} /\ call[p] # "sig"

\* No two processes are between write_lock and write_unlock at once, and none
\* is while doeventinfo walks the list: doeventsig's and doeventclose's
\* sections exclude each other, doeventchown's and doeventchmod's stores.
SectionsExclude ==
  \A p, q \in Procs : p # q /\ WriteSection(p) =>
    ~WriteSection(q) /\ pc[q] # "info_walk"

\* A spinlock is never carried out of a system call or into the scheduler: a
\* process in user mode, about to return, or asleep in doeventwait holds
\* neither `lock' nor a queue's lock.
NoLockCarried ==
  \A p \in Procs : pc[p] \in {"user", "return"} \cup InWait =>
    /\ p \notin readers
    /\ writer # p
    /\ \A s \in Slots : qlock[s] # p

\* q is about to wake p, or to take the lock of p's queue in order to.
WillWake(q, p) ==
  /\ ptr[q] = ptr[p]
  /\ \/ pc[q] = "wake_lock"
     \/ pc[q] = "wake" /\ Contains(todo[q], p)

\* prepare_to_wait before the look at condition, and condition = 1 before
\* wake_up_all, leave no window: a waiter that sleeps although its event's
\* condition is 1 is one that some doeventsig or doeventclose has yet to wake.
NoMissedWakeup ==
  \A p \in Procs :
    (pc[p] = "wait_sleep" /\ ~onRq[p] /\ ev[ptr[p]].condition = 1) =>
      \E q \in Procs : WillWake(q, p)

\* A wait entry lives on its process's stack: it is linked only while that
\* process is between prepare_to_wait and the end of finish_wait, only into
\* the queue of the event it waits on, and once.  And it is linked whenever
\* doeventwait looks at the condition, sleeps with no wake-up come, or calls
\* finish_wait: autoremove_wake_function takes off sleepers only, and they
\* prepare to wait again.
QueueDiscipline ==
  /\ \A s \in Slots : \A i, j \in 1 .. Len(queue[s]) :
       queue[s][i] = queue[s][j] => i = j
  /\ \A s \in Slots, p \in Procs : Contains(queue[s], p) =>
       /\ pc[p] \in InWait \ {"wait_reset", "wait_first"}
       /\ ptr[p] = s
  /\ \A p \in Procs :
       \/ pc[p] \in {"wait_cond", "wait_sched", "wait_fin", "wait_del"}
       \/ pc[p] = "wait_sleep" /\ ~onRq[p]
       => Contains(queue[ptr[p]], p)

\* doeventwait returns 1 only if some doeventsig or doeventclose has set the
\* condition since the process reset it, and not for a signal that came before
\* the wait.  What counts is the pointer: when the event is closed and its slot
\* opened again, the new event's signal ends the wait for the old one.  A Unix
\* signal ends a wait too, so this is about the processes that get none.
NoSpuriousReturn ==
  \A p \in Procs \ Interrupted :
    pc[p] = "return" /\ call[p] = "wait" /\ retVal[p] = 1 => heard[p] # "no"

\* Once doeventsig or doeventclose has set the condition, a process anywhere in
\* its wait returns from doeventwait, also when the event has been freed by
\* then, unless the condition is taken back first.  Two calls can do that:
\* another process's doeventwait on the event, and a doeventopen that gets the
\* freed slot; what p does then is up to the next signal.
SignalReaches ==
  \A p \in {q \in Procs : "wait" \in Calls[q]} :
    pc[p] \in InWait \ {"wait_reset"} /\ ev[ptr[p]].condition = 1
      ~> \/ pc[p] = "return"
         \/ pc[p] \in InWait /\ ev[ptr[p]].condition = 0
         \/ corrupt

\* A Unix signal ends the wait, at whatever point of falling asleep it comes.
UnixSignalEndsWait ==
  \A p \in Interrupted : sigPending[p] ~> pc[p] = "return" \/ corrupt

-----------------------------------------------------------------------------
(* What the comments say and the code does not do *)

\* "signals any process waiting on the event to leave the event": no process
\* that was queued when the event fired sleeps with nobody about to wake it.
NoSignalLost ==
  \A p \in Procs :
    (heard[p] = "queued" /\ pc[p] = "wait_sleep" /\ ~onRq[p]) =>
      \E q \in Procs : WillWake(q, p)

\* "destroys an event given its id and signals any process waiting on the
\* event to leave": no process sleeps on an event that has been freed, with
\* nobody about to wake it.
NoOrphanedWaiter ==
  \A p \in Procs :
    (pc[p] = "wait_sleep" /\ ~onRq[p] /\ slab[ptr[p]] = "free") =>
      \E q \in Procs : WillWake(q, p)

\* "Use a reader-writer spin lock to protect the list of events since it's
\* going to be both searched and updated": when doeventclose calls kfree, the
\* event is still allocated and neither listed nor about to be.
NoDoubleFree ==
  \A p \in Procs : pc[p] = "close_free" => Freeable(ptr[p])

\* "returns: number of processes signaled on success or -1 on failure": the
\* loop that counts the waiters ends.
CountingEnds ==
  \A p \in Procs : pc[p] = "count" ~> pc[p] # "count" \/ corrupt

\* "returns: -1 on failure, 0 otherwise": with no event in the system, a
\* doeventchown, doeventchmod or doeventstat fails.
NoEventFails ==
  [][\A p \in Procs :
       (evlist = <<>> /\ pc[p] = "user" /\ pc'[p] # "user"
          /\ call'[p] \in {"chown", "chmod", "stat"}) =>
         pc'[p] = "return" /\ retVal'[p] = -1]_vars

\* "Checks whether user id equals. current user id": doeventchown and
\* doeventchmod store into an event their caller owns when they store.
OnlyOwnerSets ==
  [][\A p \in Procs : pc[p] = "set_lock" /\ pc'[p] = "set_second" =>
       validateUserEvent(p, ptr[p])]_vars

\* "returns: event ID on success": a doeventopen that listed its event returns
\* an id that the other system calls do not refuse.
OpenReturnsUsableId ==
  [][\A p \in Procs : pc[p] = "open_ret" /\ pc'[p] = "return" =>
       ~isValidEventId(retVal'[p])]_vars
=============================================================================
