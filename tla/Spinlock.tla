------------------------------ MODULE Spinlock ------------------------------
(***************************************************************************)
(* The x86 spinlocks of arch/x86/include/asm/spinlock.h: the reader-writer *)
(* lock, a counter that readers decrement and writers lower by a bias,     *)
(* with its slow paths in arch/x86/lib/rwlock_64.S; and the ticket lock, a *)
(* head and a tail in one word.  A step is one instruction that other CPUs *)
(* can see.  There is one lock of each kind, as in an event system call:   *)
(* `lock' of csc456/eventsyscalls.c and the lock of one wait queue.        *)
(*                                                                         *)
(* The module exports the instructions.  CallLocks says who runs them.     *)
(***************************************************************************)
EXTENDS Integers, FiniteSets, Sequences

CONSTANTS Procs,  \* the processes, each on a CPU of its own
          NONE,   \* nobody
          BIAS,   \* RW_LOCK_BIAS
          HALF,   \* the counter's ints are -HALF .. HALF - 1
          TICKETS \* tickets are 0 .. TICKETS - 1: 1 << TICKET_SHIFT of them

\* No more CPUs than the words allow for: NR_CPUS is 8, RW_LOCK_BIAS is 2^24
\* in an int, and byte tickets are used if NR_CPUS < 256.
ASSUME CpusAssumption ==
  /\ IsFiniteSet(Procs)
  /\ NONE \notin Procs
  /\ BIAS \in Nat /\ HALF \in Nat /\ TICKETS \in Nat
  /\ 0 < BIAS /\ BIAS < HALF
  /\ Cardinality(Procs) <= BIAS
  /\ BIAS * (Cardinality(Procs) - 1) <= HALF
  /\ Cardinality(Procs) < TICKETS

VARIABLES rw,      \* raw_rwlock_t.lock
          rwpc,    \* where each process is in a reader-writer lock operation
          head,    \* the two halves of raw_spinlock_t.slock:
          tail,    \* the ticket served, and the next one to give out
          ticket,  \* the register that holds each process's ticket
          old,     \* the register that holds what it loaded before a store
          tpc      \* where each process is in a ticket lock operation

rwVars     == <<rw, rwpc>>
ticketVars == <<head, tail, ticket, old, tpc>>

RWPCs == {"out", "reading", "r_failed", "r_spin", "r_dec", "rt_failed",
          "writing", "w_failed", "w_spin", "w_sub", "wt_failed"}

TPCs == {"out", "spin", "in", "inc", "cmpxchg"}

Tickets == 0 .. TICKETS - 1

\* The counter's range is what the processes can take from it, not the int's:
\* a sum that wrapped would leave it.
SpinlockTypeOK ==
  /\ rw \in BIAS - BIAS * Cardinality(Procs) .. BIAS
  /\ rwpc \in [Procs -> RWPCs]
  /\ head \in Tickets
  /\ tail \in Tickets
  /\ ticket \in [Procs -> Tickets]
  /\ old \in [Procs -> Tickets]
  /\ tpc \in [Procs -> TPCs]

\* RW_LOCK_UNLOCKED and SPIN_LOCK_UNLOCKED
SpinlockInit ==
  /\ rw = BIAS
  /\ rwpc = [p \in Procs |-> "out"]
  /\ head = 0
  /\ tail = 0
  /\ ticket = [p \in Procs |-> 0]
  /\ old = [p \in Procs |-> 0]
  /\ tpc = [p \in Procs |-> "out"]

-----------------------------------------------------------------------------
(* The reader-writer lock *)

\* add and sub on an int
Wrap(n) ==
  IF n < -HALF THEN n + 2 * HALF ELSE IF n >= HALF THEN n - 2 * HALF ELSE n

\* A locked instruction adds d to the counter; p goes on at `to'.
Adds(p, d, to) ==
  /\ rw' = Wrap(rw + d)
  /\ rwpc' = [rwpc EXCEPT ![p] = to]

\* (mutant) the sign is tested before the decrement
Decrements_late(p, from, failed) ==
  /\ rwpc[p] = from
  /\ Adds(p, -1, IF rw >= 0 THEN "reading" ELSE failed)

\* subl $1 and jns, decl and js, or atomic_dec_return
Decrements(p, from, failed) ==
  /\ rwpc[p] = from
  /\ Adds(p, -1, IF Wrap(rw - 1) >= 0 THEN "reading" ELSE failed)

\* subl $RW_LOCK_BIAS and jz, or atomic_sub_and_test
Subtracts(p, from, failed) ==
  /\ rwpc[p] = from
  /\ Adds(p, -BIAS, IF Wrap(rw - BIAS) = 0 THEN "writing" ELSE failed)

__raw_read_lock(p)     == Decrements(p, "out", "r_failed")
__raw_read_trylock(p)  == Decrements(p, "out", "rt_failed")
__raw_write_lock(p)    == Subtracts(p, "out", "w_failed")
__raw_write_trylock(p) == Subtracts(p, "out", "wt_failed")

__raw_read_unlock(p)  == rwpc[p] = "reading" /\ Adds(p, 1, "out")
__raw_write_unlock(p) == rwpc[p] = "writing" /\ Adds(p, BIAS, "out")

\* A trylock that failed takes back what it subtracted.
read_trylock_undo(p)  == rwpc[p] = "rt_failed" /\ Adds(p, 1, "out")
write_trylock_undo(p) == rwpc[p] = "wt_failed" /\ Adds(p, BIAS, "out")

\* A look at the counter that does not change it
Sees(p, from, condition, to) ==
  /\ rwpc[p] = from
  /\ condition
  /\ rwpc' = [rwpc EXCEPT ![p] = to]
  /\ UNCHANGED rw

__read_lock_failed(p) ==
  \/ rwpc[p] = "r_failed" /\ Adds(p, 1, "r_spin")
  \/ Sees(p, "r_spin", rw >= 1, "r_dec")
  \/ Decrements(p, "r_dec", "r_failed")

\* (mutants) the writer does not give the bias back before it spins; it does
\* not load the counter again
__write_lock_failed_keeps(p) ==
  \/ Sees(p, "w_failed", TRUE, "w_spin")
  \/ Sees(p, "w_spin", rw = BIAS, "w_sub")
  \/ Subtracts(p, "w_sub", "w_failed")
__write_lock_failed_stale(p) ==
  \/ rwpc[p] = "w_failed" /\ Adds(p, BIAS, "w_spin")
  \/ Sees(p, "w_spin", TRUE, "w_spin")

__write_lock_failed(p) ==
  \/ rwpc[p] = "w_failed" /\ Adds(p, BIAS, "w_spin")
  \/ Sees(p, "w_spin", rw = BIAS, "w_sub")
  \/ Subtracts(p, "w_sub", "w_failed")

-----------------------------------------------------------------------------
(* The ticket lock *)

\* (mutant) no wrap-around
IncTicket_wide(t) == t + 1

\* incb and xadd on a half of the word
IncTicket(t) == (t + 1) % TICKETS

\* xaddw, and the first comparison of its result's halves
__ticket_spin_lock(p) ==
  /\ tpc[p] = "out"
  /\ ticket' = [ticket EXCEPT ![p] = tail]
  /\ tail' = IncTicket(tail)
  /\ tpc' = [tpc EXCEPT ![p] = IF head = tail THEN "in" ELSE "spin"]
  /\ UNCHANGED <<head, old>>

\* (mutant) cmpb alone: the head is not loaded again
ticket_spin_stale(p) ==
  /\ tpc[p] = "spin"
  /\ UNCHANGED ticketVars

\* movb and cmpb, until the head is the ticket
ticket_spin(p) ==
  /\ tpc[p] = "spin"
  /\ head = ticket[p]
  /\ tpc' = [tpc EXCEPT ![p] = "in"]
  /\ UNCHANGED <<head, tail, ticket, old>>

\* movzwl and the comparison of the halves; a lock in use is left alone.
trylock_load(p) ==
  /\ tpc[p] = "out"
  /\ IF head = tail
       THEN /\ old' = [old EXCEPT ![p] = tail]
            /\ tpc' = [tpc EXCEPT ![p] = "cmpxchg"]
       ELSE UNCHANGED <<old, tpc>>
  /\ UNCHANGED <<head, tail, ticket>>

\* cmpxchgw: takes the next ticket if the word is still what was loaded.
trylock_cmpxchg(p) ==
  /\ tpc[p] = "cmpxchg"
  /\ IF head = old[p] /\ tail = old[p]
       THEN /\ ticket' = [ticket EXCEPT ![p] = tail]
            /\ tail' = IncTicket(tail)
            /\ tpc' = [tpc EXCEPT ![p] = "in"]
       ELSE /\ tpc' = [tpc EXCEPT ![p] = "out"]
            /\ UNCHANGED <<ticket, tail>>
  /\ old' = [old EXCEPT ![p] = 0]
  /\ UNCHANGED head

\* incb without a lock prefix: a load,
unlock_load(p) ==
  /\ tpc[p] = "in"
  /\ old' = [old EXCEPT ![p] = head]
  /\ tpc' = [tpc EXCEPT ![p] = "inc"]
  /\ UNCHANGED <<head, tail, ticket>>

\* The operation ends, and its registers with it.
Forgets(p) ==
  /\ tpc' = [tpc EXCEPT ![p] = "out"]
  /\ ticket' = [ticket EXCEPT ![p] = 0]
  /\ old' = [old EXCEPT ![p] = 0]

\* and a store to the head's half alone.
unlock_store(p) ==
  /\ tpc[p] = "inc"
  /\ head' = IncTicket(old[p])
  /\ Forgets(p)
  /\ UNCHANGED tail
=============================================================================
