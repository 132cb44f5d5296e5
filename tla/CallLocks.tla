----------------------------- MODULE CallLocks ------------------------------
(***************************************************************************)
(* The event system calls reduced to their locks: `lock', and the lock of  *)
(* one event's wait queue, at the level of x86 instructions.  Events takes *)
(* exclusion and, for the queue's lock, service in order for granted; here *)
(* both are shown of the counter and the tickets.                          *)
(***************************************************************************)
EXTENDS Spinlock

CONSTANTS Scripts,  \* Scripts[p]: the lock operations process p may go through
          MaxTurns  \* bound: how often one doeventwait prepares to wait

VARIABLES todo     \* todo[p]: those it has still to make

vars == <<rwVars, ticketVars, todo>>

-----------------------------------------------------------------------------
(* What a system call locks, in order *)

Ops == {"read_lock", "read_unlock", "read_trylock", "write_lock",
        "write_unlock", "write_trylock", "spin_lock", "spin_unlock",
        "spin_trylock"}

Reads  == <<"read_lock", "read_unlock">>
Writes == <<"write_lock", "write_unlock">>
Spins  == <<"spin_lock", "spin_unlock">>

doeventopen  == Writes
doeventinfo  == Reads               \* and doeventstat
doeventchown == Reads \o Writes      \* and doeventchmod
doeventsig   == Reads \o Writes \o Spins
doeventclose == Reads \o <<"write_lock">> \o Spins \o <<"write_unlock">>

\* The queue's lock, taken and dropped k times in a row
SpinsTimes(k) ==
  [i \in 1 .. 2 * k |-> IF i % 2 = 1 THEN "spin_lock" ELSE "spin_unlock"]

\* prepare_to_wait in every turn of wait_event_interruptible's loop, and
\* finish_wait.  A wait whose first look ends it locks no more than Reads.
doeventwait(turns) == Reads \o SpinsTimes(turns + 1)

\* What no event system call does, for the lock's sake: the trylocks, each
\* with the unlock that a success calls for.
TryReads  == <<"read_trylock", "read_unlock">>
TryWrites == <<"write_trylock", "write_unlock">>
TrySpins  == <<"spin_trylock", "spin_unlock">>

AllScripts ==
  {doeventopen, doeventinfo, doeventchown, doeventsig, doeventclose,
   TryReads, TryWrites, TrySpins}
    \cup {doeventwait(turns) : turns \in 1 .. MaxTurns}

ASSUME ScriptsAssumption ==
  /\ MaxTurns \in Nat
  /\ Scripts \in [Procs -> SUBSET AllScripts]

TypeOK ==
  /\ SpinlockTypeOK
  /\ todo \in [Procs -> Seq(Ops)]

-----------------------------------------------------------------------------
(* Steps *)

\* p makes an instruction of operation op.  When the instruction has left p
\* `at' the operation's goal, the operation is done; a trylock that ends
\* otherwise has failed, and there is nothing to unlock.
Makes(p, op) == todo[p] # <<>> /\ Head(todo[p]) = op

Advances(p, at, goal) ==
  todo' = [todo EXCEPT ![p] = IF at = goal THEN Tail(@)
                              ELSE IF at = "out" THEN SubSeq(@, 3, Len(@))
                              ELSE @]

read(p) ==
  /\ \/ /\ Makes(p, "read_lock")
        /\ __raw_read_lock(p) \/ __read_lock_failed(p)
        /\ Advances(p, rwpc'[p], "reading")
     \/ /\ Makes(p, "read_trylock")
        /\ __raw_read_trylock(p) \/ read_trylock_undo(p)
        /\ Advances(p, rwpc'[p], "reading")
     \/ /\ Makes(p, "read_unlock")
        /\ __raw_read_unlock(p)
        /\ Advances(p, rwpc'[p], "out")
  /\ UNCHANGED ticketVars

write(p) ==
  /\ \/ /\ Makes(p, "write_lock")
        /\ __raw_write_lock(p) \/ __write_lock_failed(p)
        /\ Advances(p, rwpc'[p], "writing")
     \/ /\ Makes(p, "write_trylock")
        /\ __raw_write_trylock(p) \/ write_trylock_undo(p)
        /\ Advances(p, rwpc'[p], "writing")
     \/ /\ Makes(p, "write_unlock")
        /\ __raw_write_unlock(p)
        /\ Advances(p, rwpc'[p], "out")
  /\ UNCHANGED ticketVars

spin(p) ==
  /\ \/ /\ Makes(p, "spin_lock")
        /\ __ticket_spin_lock(p) \/ ticket_spin(p)
        /\ Advances(p, tpc'[p], "in")
     \/ /\ Makes(p, "spin_trylock")
        /\ trylock_load(p) \/ trylock_cmpxchg(p)
        /\ Advances(p, tpc'[p], "in")
     \/ /\ Makes(p, "spin_unlock")
        /\ unlock_load(p) \/ unlock_store(p)
        /\ Advances(p, tpc'[p], "out")
  /\ UNCHANGED rwVars

Start(p) ==
  /\ todo[p] = <<>>
  /\ \E script \in Scripts[p] : todo' = [todo EXCEPT ![p] = script]
  /\ UNCHANGED <<rwVars, ticketVars>>

Init == SpinlockInit /\ todo = [p \in Procs |-> <<>>]

Steps(p) == read(p) \/ write(p) \/ spin(p)

Next == \E p \in Procs : Start(p) \/ Steps(p)

Spec == Init /\ [][Next]_vars

\* A CPU that is in a system call keeps executing instructions.
FairSpec == Spec /\ \A p \in Procs : WF_vars(Steps(p))

-----------------------------------------------------------------------------
(* What holds of the locks *)

\* The processes whose decrement, or whose bias, is in the counter
Decremented == {p \in Procs : rwpc[p] \in {"reading", "r_failed", "rt_failed"}}
Biased      == {p \in Procs : rwpc[p] \in {"writing", "w_failed", "wt_failed"}}

\* The counter is exact, the subtractions of attempts that failed and have
\* not been taken back included: it never drifts, and never overflows.
CounterExact ==
  rw = BIAS - BIAS * Cardinality(Biased) - Cardinality(Decremented)

\* The processes that took a ticket and have not been served
Queued == {p \in Procs : tpc[p] \in {"spin", "in", "inc"}}

\* The number of tickets given out and not served, and who has ticket t
Waiting == (tail - head) % TICKETS

With(t) ==
  IF \E p \in Queued : ticket[p] = t
    THEN CHOOSE p \in Queued : ticket[p] = t ELSE NONE

lineMap == [k \in 1 .. Waiting |-> With((head + k - 1) % TICKETS)]

readersMap == {p \in Procs : rwpc[p] = "reading"}
writerMap  ==
  IF \E p \in Procs : rwpc[p] = "writing"
    THEN CHOOSE p \in Procs : rwpc[p] = "writing" ELSE NONE

Abstract == INSTANCE Locks WITH readers <- readersMap, writer <- writerMap,
                                line <- lineMap

\* The counter and the tickets implement the locks that Events assumes: a
\* writer enters alone, although attempts that fail change the counter for a
\* while; the ticket lock has one holder at a time, served in order, although
\* its unlock is not a locked instruction and its tickets wrap.
ImplementsLocks == Abstract!Spec

\* Whoever spins on the queue's lock gets it: no event system call can keep
\* another one out of prepare_to_wait, finish_wait or wake_up_all for ever.
QueueServed == \A p \in Procs : tpc[p] = "spin" ~> tpc[p] = "in"

\* Where p spins for `lock'
Contends(p) ==
  rwpc[p] \in {"r_failed", "r_spin", "r_dec", "w_failed", "w_spin", "w_sub"}

\* A process that spins for `lock' for ever does so because others keep
\* taking it, or trying to with a trylock.  The slow paths' own attempts,
\* which disturb the counter when they fail, cannot keep each other out, and
\* a writer is let in once the readers stop coming.
StarvedOnlyByOthers ==
  \A p \in Procs :
    <>[]Contends(p) =>
      []<>(\E q \in Procs \ {p} :
             rwpc[q] \in {"reading", "writing", "rt_failed", "wt_failed"})
=============================================================================
