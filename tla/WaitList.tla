------------------------------ MODULE WaitList ------------------------------
(***************************************************************************)
(* One wait queue, pointer by pointer: the doubly linked list of           *)
(* include/linux/list.h, prepare_to_wait and finish_wait of kernel/wait.c, *)
(* and the walk of __wake_up_common in kernel/sched.c.  WaitQueue keeps a  *)
(* queue as a sequence that changes at once; here every store to a pointer *)
(* is a step, and finish_wait looks at pointers without the lock.          *)
(*                                                                         *)
(* Stores are seen in program order: x86 keeps it, and so does the         *)
(* compiler as far as this code assumes.                                   *)
(***************************************************************************)
EXTENDS Integers, FiniteSets, SequencesExt

CONSTANTS Procs,  \* the processes; a process's wait_queue_t bears its name
          HEAD,   \* the task_list of the wait_queue_head_t
          NONE    \* nobody; what a pointer of a stack frame that is gone holds

ASSUME ProcsAssumption ==
  IsFiniteSet(Procs) /\ HEAD \notin Procs /\ NONE \notin Procs \cup {HEAD}

VARIABLES next, prev,  \* the struct list_head of each entry and of the head
          qlock,       \* who holds the queue's lock
          pc,          \* where each process is
          stores,      \* the stores of a list operation that it has still to do
          curr, n      \* the variables of list_for_each_entry_safe

vars == <<next, prev, qlock, pc, stores, curr, n>>

Nodes == Procs \cup {HEAD}

Waiting == {"prepare_lock", "prepare", "ready", "asleep", "woken",
            "careful_next", "careful_prev", "finish_lock", "finish"}
Waking  == {"wake_lock", "walk", "step"}

Store == [field : {"next", "prev"}, of : Nodes, value : Nodes]

TypeOK ==
  /\ next \in [Nodes -> Nodes \cup {NONE}]
  /\ prev \in [Nodes -> Nodes \cup {NONE}]
  /\ qlock \in Procs \cup {NONE}
  /\ pc \in [Procs -> Waiting \cup Waking \cup {"out"}]
  /\ \A p \in Procs : \A i \in DOMAIN stores[p] : stores[p][i] \in Store
  /\ curr \in [Procs -> Nodes \cup {NONE}]
  /\ n \in [Procs -> Nodes \cup {NONE}]

\* init_waitqueue_head; nobody waits.
Init ==
  /\ next = [x \in Nodes |-> IF x = HEAD THEN HEAD ELSE NONE]
  /\ prev = [x \in Nodes |-> IF x = HEAD THEN HEAD ELSE NONE]
  /\ qlock = NONE
  /\ pc = [p \in Procs |-> "out"]
  /\ stores = [p \in Procs |-> <<>>]
  /\ curr = [p \in Procs |-> NONE]
  /\ n = [p \in Procs |-> NONE]

-----------------------------------------------------------------------------
(* Lists: an operation loads the pointers it needs, then it stores *)

SetNext(x, y) == [field |-> "next", of |-> x, value |-> y]
SetPrev(x, y) == [field |-> "prev", of |-> x, value |-> y]

\* (mutant) the entry is published before its own pointers are set
__list_add_early(new, before, after) ==
  <<SetPrev(after, new), SetNext(before, new), SetNext(new, after),
    SetPrev(new, before)>>

__list_add(new, before, after) ==
  <<SetPrev(after, new), SetNext(new, after), SetPrev(new, before),
    SetNext(before, new)>>

list_add(new, head) == __list_add(new, head, next[head])

\* (mutant) one direction only
__list_del_forward(before, after) == <<SetNext(before, after)>>

__list_del(before, after) == <<SetPrev(after, before), SetNext(before, after)>>

INIT_LIST_HEAD(x) == <<SetNext(x, x), SetPrev(x, x)>>

\* (mutant) list_del, which poisons the entry
list_del_poison(entry) ==
  __list_del(prev[entry], next[entry]) \o
    <<SetNext(entry, NONE), SetPrev(entry, NONE)>>

list_del_init(entry) ==
  __list_del(prev[entry], next[entry]) \o INIT_LIST_HEAD(entry)

list_empty(x) == next[x] = x

-----------------------------------------------------------------------------
(* Steps *)

Goes(p, to) == pc' = [pc EXCEPT ![p] = to]

spin_lock(p)   == qlock = NONE /\ qlock' = p
spin_unlock(p) == stores[p] = <<>> /\ qlock' = NONE

\* The next store of p's list operation
StoreStep(p) ==
  /\ stores[p] # <<>>
  /\ LET s == Head(stores[p])
     IN  IF s.field = "next"
           THEN next' = [next EXCEPT ![s.of] = s.value] /\ UNCHANGED prev
           ELSE prev' = [prev EXCEPT ![s.of] = s.value] /\ UNCHANGED next
  /\ stores' = [stores EXCEPT ![p] = Tail(@)]
  /\ UNCHANGED <<qlock, pc, curr, n>>

\* A function that waits is entered: its frame holds an entry in no list.
DEFINE_WAIT(p) ==
  /\ pc[p] = "out"
  /\ Goes(p, "prepare_lock")
  /\ next' = [next EXCEPT ![p] = p]
  /\ prev' = [prev EXCEPT ![p] = p]
  /\ UNCHANGED <<qlock, stores, curr, n>>

prepare_to_wait(p) ==
  /\ \/ /\ pc[p] = "prepare_lock"
        /\ spin_lock(p)
        /\ Goes(p, "prepare")
        /\ stores' = [stores EXCEPT ![p] =
                        IF list_empty(p) THEN list_add(p, HEAD) ELSE <<>>]
     \/ /\ pc[p] = "prepare"
        /\ spin_unlock(p)
        /\ Goes(p, "ready")
        /\ UNCHANGED stores
  /\ UNCHANGED <<next, prev, curr, n>>

\* The waiter sleeps, unless its condition holds, a signal is pending or it
\* has been woken already.  Once it is up, it prepares again as
\* wait_event_interruptible does, or finishes at once as congestion_wait.
schedule(p) ==
  /\ \/ pc[p] = "ready" /\ (Goes(p, "asleep") \/ Goes(p, "woken"))
     \/ pc[p] = "woken" /\ (Goes(p, "prepare_lock") \/ Goes(p, "careful_next"))
  /\ UNCHANGED <<next, prev, qlock, stores, curr, n>>

\* A signal or a timeout ends the sleep.
interrupt(p) ==
  /\ pc[p] = "asleep"
  /\ Goes(p, "woken")
  /\ UNCHANGED <<next, prev, qlock, stores, curr, n>>

\* The function returns: its frame holds anything from now on.
Returns(p) ==
  /\ Goes(p, "out")
  /\ next' = [next EXCEPT ![p] = NONE]
  /\ prev' = [prev EXCEPT ![p] = NONE]

\* (mutants) list_empty; a wait for the waker to take the entry off
list_empty_careful_not(p) ==
  /\ pc[p] = "careful_next"
  /\ IF list_empty(p)
       THEN Returns(p)
       ELSE Goes(p, "finish_lock") /\ UNCHANGED <<next, prev>>
list_empty_careful_waits(p) ==
  /\ pc[p] = "careful_next"
  /\ IF next[p] = p /\ prev[p] = p
       THEN Returns(p)
       ELSE UNCHANGED <<pc, next, prev>>

\* Two loads, of next and then of prev, without the lock
list_empty_careful(p) ==
  \/ /\ pc[p] = "careful_next"
     /\ Goes(p, IF next[p] = p THEN "careful_prev" ELSE "finish_lock")
     /\ UNCHANGED <<next, prev>>
  \/ /\ pc[p] = "careful_prev"
     /\ IF prev[p] = p
          THEN Returns(p)
          ELSE Goes(p, "finish_lock") /\ UNCHANGED <<next, prev>>

finish_wait(p) ==
  /\ \/ list_empty_careful(p) /\ UNCHANGED <<qlock, stores>>
     \/ /\ pc[p] = "finish_lock"
        /\ spin_lock(p)
        /\ Goes(p, "finish")
        /\ stores' = [stores EXCEPT ![p] = list_del_init(p)]
        /\ UNCHANGED <<next, prev>>
     \/ /\ pc[p] = "finish"
        /\ spin_unlock(p)
        /\ Returns(p)
        /\ UNCHANGED stores
  /\ UNCHANGED <<curr, n>>

\* wake_up_all is called.
wake_up_all(p) ==
  /\ pc[p] = "out"
  /\ Goes(p, "wake_lock")
  /\ UNCHANGED <<next, prev, qlock, stores, curr, n>>

\* autoremove_wake_function: only a sleeper counts as woken, and is removed.
autoremove_wake_function(p, t) ==
  IF pc[t] = "asleep"
    THEN /\ pc' = [pc EXCEPT ![t] = "woken", ![p] = "step"]
         /\ stores' = [stores EXCEPT ![p] = list_del_init(t)]
    ELSE Goes(p, "step") /\ UNCHANGED stores

\* pos = n, n = n->next
Advance(p) ==
  /\ curr' = [curr EXCEPT ![p] = n[p]]
  /\ n' = [n EXCEPT ![p] = next[n[p]]]

__wake_up(p) ==
  /\ \/ /\ pc[p] = "wake_lock"
        /\ spin_lock(p)
        /\ Goes(p, "walk")
        /\ curr' = [curr EXCEPT ![p] = next[HEAD]]
        /\ n' = [n EXCEPT ![p] = next[next[HEAD]]]
        /\ UNCHANGED stores
     \/ /\ pc[p] = "walk" /\ curr[p] # HEAD
        /\ autoremove_wake_function(p, curr[p])
        /\ UNCHANGED <<qlock, curr, n>>
     \/ /\ pc[p] = "step" /\ stores[p] = <<>>
        /\ Goes(p, "walk")
        /\ Advance(p)
        /\ UNCHANGED <<qlock, stores>>
     \/ /\ pc[p] = "walk" /\ curr[p] = HEAD
        /\ spin_unlock(p)
        /\ Goes(p, "out")
        /\ curr' = [curr EXCEPT ![p] = NONE]
        /\ n' = [n EXCEPT ![p] = NONE]
        /\ UNCHANGED stores
  /\ UNCHANGED <<next, prev>>

Steps(p) == \/ StoreStep(p) \/ prepare_to_wait(p) \/ schedule(p)
            \/ finish_wait(p) \/ __wake_up(p)

Next == \E p \in Procs :
          DEFINE_WAIT(p) \/ wake_up_all(p) \/ interrupt(p) \/ Steps(p)

Spec == Init /\ [][Next]_vars

\* A process that can run runs, and gets the queue's lock in the end:
\* CallLocks!QueueServed.
FairSpec == Spec /\ \A p \in Procs : SF_vars(Steps(p))

-----------------------------------------------------------------------------
(* What holds of the queue *)

\* The i-th entry of L; the head is before the first and after the last.
Node(L, i) == IF i \in DOMAIN L THEN L[i] ELSE HEAD

\* Whoever follows the pointers f from the head back to it meets L.
Forward(f, L) == \A i \in 0 .. Len(L) : f[Node(L, i)] = Node(L, i + 1)

\* The list that he meets; no list when he never comes back
ListOf(f) ==
  LET Lists == {L \in SeqOf(Procs, Cardinality(Procs)) : Forward(f, L)}
  IN  IF Lists = {} THEN <<HEAD>> ELSE CHOOSE L \in Lists : TRUE

listMap == ListOf(next)

Abstract == INSTANCE AtomicList WITH list <- listMap

\* The next pointers from the head are at every moment those of a whole list:
\* an entry comes with the last store of list_add and goes with the second of
\* list_del_init, so that waitqueue_active may read without the lock.
ImplementsList == Abstract!Spec

\* Between critical sections the two directions agree, so that neither WARN
\* of lib/list_debug.c would fire.
DirectionsAgree ==
  qlock = NONE =>
    \A x \in Nodes : next[x] # NONE => prev[next[x]] = x /\ next[prev[x]] = x

\* The entries that p's next accesses may be to
Touched(p) ==
  {stores[p][i].of : i \in DOMAIN stores[p]}
    \cup (IF pc[p] = "walk" THEN {curr[p], n[p]} ELSE {})
    \cup (IF pc[p] = "step" THEN {n[p]} ELSE {})

\* When a function that waited has returned, nobody is going to use its
\* entry: finish_wait, which may leave without the lock, leaves no waker
\* behind that would still write to the stack.
StackSafe ==
  \A w \in Procs : pc[w] \notin Waiting =>
    /\ \A p \in Procs : w \notin Touched(p)
    /\ \A x \in Nodes : next[x] # w /\ prev[x] # w

\* A wake-up comes to the end of the list although it removes entries under
\* its feet, and finish_wait returns.
CallsEnd ==
  \A p \in Procs :
    pc[p] \in Waking \cup {"careful_next", "careful_prev", "finish_lock",
                           "finish"} ~> pc[p] = "out"
=============================================================================
