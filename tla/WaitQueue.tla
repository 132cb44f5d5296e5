------------------------------ MODULE WaitQueue ------------------------------
(***************************************************************************)
(* The kernel's wait queues, as sys_doeventwait, sys_doeventsig and        *)
(* sys_doeventclose use them: include/linux/wait.h, kernel/wait.c and the  *)
(* wake-up half of kernel/sched.c.                                         *)
(*                                                                         *)
(* There is one wait_queue_head_t per event, so queues are named by the    *)
(* slab slot the event lives in.  A process waits on one queue at a time   *)
(* with one wait_queue_t on its kernel stack, so entries are named by the  *)
(* process.  A queue's task_list is the sequence of its entries from       *)
(* head->next on; an entry in no sequence is one that list_del_init or     *)
(* DEFINE_WAIT left pointing to itself.                                    *)
(*                                                                         *)
(* The module keeps the state and exports one action per critical section. *)
(* Events says who takes them and when.                                    *)
(***************************************************************************)
EXTENDS Integers, SequencesExt

CONSTANTS Procs,  \* the processes (their task_struct and their wait entry)
          Slots,  \* the slab objects that may hold a struct event
          NONE    \* the null pointer, and "nobody" for a lock

ASSUME NodesAssumption ==
  /\ Procs \cap Slots = {}
  /\ NONE \notin Procs \cup Slots

VARIABLES queue,      \* queue[s]: the entries of s's wait queue, in order
          qlock,      \* qlock[s]: who holds the queue's spinlock
          todo,       \* todo[p]: the entries p's __wake_up has still to visit
          state,      \* task_struct.state
          onRq,       \* task_struct.se.on_rq
          sigPending  \* TIF_SIGPENDING

wqVars == <<queue, qlock, todo, state, onRq, sigPending>>

WQTypeOK ==
  /\ queue \in [Slots -> Seq(Procs)]
  /\ qlock \in [Slots -> Procs \cup {NONE}]
  /\ todo \in [Procs -> Seq(Procs)]
  /\ state \in [Procs -> {"RUNNING", "INTERRUPTIBLE"}]
  /\ onRq \in [Procs -> BOOLEAN]
  /\ sigPending \in [Procs -> BOOLEAN]

WQInit ==
  /\ queue = [s \in Slots |-> <<>>]
  /\ qlock = [s \in Slots |-> NONE]
  /\ todo = [p \in Procs |-> <<>>]
  /\ state = [p \in Procs |-> "RUNNING"]
  /\ onRq = [p \in Procs |-> TRUE]
  /\ sigPending = [p \in Procs |-> FALSE]

-----------------------------------------------------------------------------
(* Lists *)

\* list_del_init on an entry that is in no list leaves every list alone.
list_del_init(list, entry) ==
  IF Contains(list, entry)
    THEN RemoveAt(list, CHOOSE i \in 1 .. Len(list) : list[i] = entry)
    ELSE list

waitqueue_active(s) == queue[s] # <<>>

\* list_empty(&wait->task_list) of p's entry
Unlinked(p) == \A s \in Slots : ~Contains(queue[s], p)

\* node->next, read without the queue's lock.  A node is a queue's head (a
\* slot) or a process's entry.
NextNode(node) ==
  IF node \in Slots
    THEN IF waitqueue_active(node) THEN Head(queue[node]) ELSE node
    ELSE IF Unlinked(node)
           THEN node
           ELSE LET s == CHOOSE t \in Slots : Contains(queue[t], node)
                    i == CHOOSE j \in 1 .. Len(queue[s]) : queue[s][j] = node
                IN  IF i = Len(queue[s]) THEN s ELSE queue[s][i + 1]

-----------------------------------------------------------------------------
(* The waiter *)

\* prepare_to_wait(q, wait, TASK_INTERRUPTIBLE)
prepare_to_wait(p, s) ==
  /\ qlock[s] = NONE
  /\ queue' = IF Unlinked(p) THEN [queue EXCEPT ![s] = Cons(p, @)] ELSE queue
  /\ state' = [state EXCEPT ![p] = "INTERRUPTIBLE"]
  /\ UNCHANGED <<qlock, todo, onRq, sigPending>>

\* (mutant) the state is set on the way to sleep, not before the last look
schedule_late(p) ==
  /\ onRq' = [onRq EXCEPT ![p] = sigPending[p]]
  /\ state' = [state EXCEPT ![p] = "INTERRUPTIBLE"]
  /\ UNCHANGED <<queue, qlock, todo, sigPending>>

\* schedule(): a task whose state is still INTERRUPTIBLE, and that has no
\* signal pending, leaves the run queue.
schedule(p) ==
  /\ IF state[p] = "INTERRUPTIBLE" /\ ~sigPending[p]
       THEN onRq' = [onRq EXCEPT ![p] = FALSE] /\ UNCHANGED state
       ELSE state' = [state EXCEPT ![p] = "RUNNING"] /\ UNCHANGED onRq
  /\ UNCHANGED <<queue, qlock, todo, sigPending>>

\* finish_wait: first the state, and a look at the entry without the lock...
finish_wait_state(p) ==
  /\ state' = [state EXCEPT ![p] = "RUNNING"]
  /\ UNCHANGED <<queue, qlock, todo, onRq, sigPending>>

\* ... then, if the entry was still queued, its removal under the lock.
finish_wait_del(p, s) ==
  /\ qlock[s] = NONE
  /\ queue' = [t \in Slots |-> list_del_init(queue[t], p)]
  /\ UNCHANGED <<qlock, todo, state, onRq, sigPending>>

-----------------------------------------------------------------------------
(* The waker *)

\* try_to_wake_up(t, TASK_NORMAL, 0).  A task that has set its state but has
\* not left the run queue is made RUNNING again without counting as woken.
Wakes(t) == state[t] = "INTERRUPTIBLE" /\ ~onRq[t]

try_to_wake_up(t) ==
  /\ state' = [state EXCEPT ![t] = "RUNNING"]
  /\ onRq' = [onRq EXCEPT ![t] = IF Wakes(t) THEN TRUE ELSE @]

\* (mutant) the walk starts after the first entry
wake_up_lock_skips(p, s) ==
  /\ qlock[s] = NONE
  /\ qlock' = [qlock EXCEPT ![s] = p]
  /\ todo' = [todo EXCEPT ![p] = IF queue[s] = <<>> THEN <<>> ELSE Tail(queue[s])]
  /\ UNCHANGED <<queue, state, onRq, sigPending>>

\* __wake_up(q, TASK_NORMAL, 0, NULL) takes the queue's lock,
wake_up_lock(p, s) ==
  /\ qlock[s] = NONE
  /\ qlock' = [qlock EXCEPT ![s] = p]
  /\ todo' = [todo EXCEPT ![p] = queue[s]]
  /\ UNCHANGED <<queue, state, onRq, sigPending>>

\* calls autoremove_wake_function on each entry,
wake_up_next(p, s) ==
  /\ todo[p] # <<>>
  /\ LET t == Head(todo[p])
     IN  /\ try_to_wake_up(t)
         /\ queue' = IF Wakes(t)
                       THEN [u \in Slots |-> list_del_init(queue[u], t)]
                       ELSE queue
  /\ todo' = [todo EXCEPT ![p] = Tail(@)]
  /\ UNCHANGED <<qlock, sigPending>>

\* and drops the lock.
wake_up_unlock(p, s) ==
  /\ todo[p] = <<>>
  /\ qlock' = [qlock EXCEPT ![s] = NONE]
  /\ UNCHANGED <<queue, todo, state, onRq, sigPending>>

\* (mutant) the flag alone
signal_wake_up_flag(p) ==
  /\ ~sigPending[p]
  /\ sigPending' = [sigPending EXCEPT ![p] = TRUE]
  /\ UNCHANGED <<queue, qlock, todo, state, onRq>>

\* signal_wake_up: a Unix signal wakes an interruptible sleeper and leaves
\* its entry queued.
signal_wake_up(p) ==
  /\ ~sigPending[p]
  /\ sigPending' = [sigPending EXCEPT ![p] = TRUE]
  /\ try_to_wake_up(p)
  /\ UNCHANGED <<queue, qlock, todo>>

\* The signal is delivered on the way back to user mode (do_notify_resume).
deliver_signal(p) ==
  /\ sigPending' = [sigPending EXCEPT ![p] = FALSE]
  /\ UNCHANGED <<queue, qlock, todo, state, onRq>>
=============================================================================
