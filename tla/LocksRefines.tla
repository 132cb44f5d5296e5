---------------------------- MODULE LocksRefines ----------------------------
(***************************************************************************)
(* The locks of the system calls, for any number of processes: the         *)
(* reader-writer lock's counter is exact, it does not overflow and a       *)
(* writer is alone; and the counter and the tickets implement Locks, which *)
(* is what Events takes for granted of its locks.                          *)
(***************************************************************************)
EXTENDS CallLocks, FiniteSetTheorems, SequenceTheorems, TLAPS

-----------------------------------------------------------------------------
(* Arithmetic *)

LEMMA TimesSuccessor ==
  ASSUME NEW b \in Int, NEW k \in Int
  PROVE  b * (k + 1) = b * k + b
  OBVIOUS

LEMMA TimesMonotone ==
  ASSUME NEW b \in Nat, NEW m \in Nat, NEW n \in Nat, m <= n
  PROVE  b * m <= b * n
<1>1. PICK d \in Nat : n = m + d
  <2>1. n - m \in Nat /\ n = m + (n - m)
    OBVIOUS
  <2> QED
    BY <2>1
<1>2. b * n = b * m + b * d
  BY <1>1
<1>3. b * d \in Nat
  OBVIOUS
<1>4. b * m \in Nat
  OBVIOUS
<1> QED
  BY <1>2, <1>3, <1>4

-----------------------------------------------------------------------------
(* The counter's range *)

\* What some processes subtract leaves the counter between the bias and what
\* is left when all of them have subtracted it, which is within an int.
LEMMA InRange ==
  ASSUME NEW D, NEW B, D \subseteq Procs, B \subseteq Procs, D \cap B = {}
  PROVE  /\ Cardinality(B) \in Nat /\ Cardinality(D) \in Nat
         /\ BIAS * Cardinality(B) \in Nat
         /\ BIAS - BIAS * Cardinality(B) - Cardinality(D) \in -HALF .. HALF - 1
         /\ BIAS - BIAS * Cardinality(B) - Cardinality(D)
              \in BIAS - BIAS * Cardinality(Procs) .. BIAS
<1>1. /\ IsFiniteSet(D) /\ IsFiniteSet(B) /\ IsFiniteSet(D \cup B)
      /\ Cardinality(D \cup B) <= Cardinality(Procs)
  BY FS_Subset, FS_Union, CpusAssumption
<1>2. /\ Cardinality(D) \in Nat /\ Cardinality(B) \in Nat
      /\ Cardinality(D \cup B) = Cardinality(D) + Cardinality(B)
      /\ Cardinality(Procs) \in Nat
  <2>1. D \cap B = {} /\ Cardinality({}) = 0
    BY FS_EmptySet
  <2>2. Cardinality(D \cup B)
          = Cardinality(D) + Cardinality(B) - Cardinality(D \cap B)
    BY <1>1, FS_Union
  <2>3. /\ Cardinality(D) \in Nat /\ Cardinality(B) \in Nat
        /\ Cardinality(Procs) \in Nat
    BY <1>1, FS_CardinalityType, CpusAssumption
  <2>4. Cardinality(D \cap B) = 0
    BY <2>1
  <2> QED
    BY <2>2, <2>3, <2>4
<1>3. PICK d \in Nat, b \in Nat, n \in Nat :
        /\ d = Cardinality(D) /\ b = Cardinality(B) /\ n = Cardinality(Procs)
        /\ d + b <= n
  BY <1>1, <1>2
<1>4. BIAS * (d + b) <= BIAS * n
  BY <1>3, TimesMonotone, CpusAssumption
<1>5. BIAS * (d + b) = BIAS * d + BIAS * b
  BY CpusAssumption
<1>6. d <= BIAS * d
  <2>1. 1 * d <= BIAS * d
    <3>1. d * 1 <= d * BIAS
      BY TimesMonotone, CpusAssumption
    <3>2. d * BIAS = BIAS * d
      BY CpusAssumption
    <3> QED
      BY <3>1, <3>2
  <2> QED
    BY <2>1
<1>7. BIAS * b \in Nat /\ BIAS * d \in Nat
  BY CpusAssumption
<1>8. /\ BIAS * n - BIAS <= HALF /\ BIAS * n \in Nat
      /\ BIAS < HALF /\ 0 < BIAS /\ BIAS \in Nat /\ HALF \in Nat
  <2>1. BIAS * (n - 1) <= HALF
    BY <1>3, CpusAssumption
  <2>2. BIAS * ((n - 1) + 1) = BIAS * (n - 1) + BIAS
    BY TimesSuccessor, CpusAssumption
  <2>3. (n - 1) + 1 = n
    OBVIOUS
  <2>4. BIAS * (n - 1) \in Int /\ BIAS * n \in Nat
    BY CpusAssumption
  <2> QED
    BY <2>1, <2>2, <2>3, <2>4, CpusAssumption
<1>9. /\ BIAS - BIAS * b - d \in -HALF .. HALF - 1
      /\ BIAS - BIAS * b - d \in BIAS - BIAS * n .. BIAS
  BY <1>4, <1>5, <1>6, <1>7, <1>8
<1> QED
  BY <1>3, <1>7, <1>9

-----------------------------------------------------------------------------
(* What a step does to the counter *)

\* Where a process's decrement, or its bias, is in the counter
InD == {"reading", "r_failed", "rt_failed"}
InB == {"writing", "w_failed", "wt_failed"}

\* A step of p joins Decremented or Biased, leaves it, or neither.
Joins(p, d, S, in, won) ==
  /\ rwpc[p] \notin InD \cup InB
  /\ rwpc'[p] \in S
  /\ rw' = Wrap(rw - d)
  /\ (rwpc'[p] = in) <=> won
Leaves(p, d, S) ==
  /\ rwpc[p] \in S
  /\ rwpc'[p] \notin InD \cup InB
  /\ rw' = Wrap(rw + d)
Looks(p) ==
  /\ {rwpc[p], rwpc'[p]} \cap (InD \cup InB) = {}
  /\ rw' = rw

Moves(p) ==
  \/ Joins(p, 1, InD, "reading", rw' >= 0)
  \/ Joins(p, BIAS, InB, "writing", rw' = 0)
  \/ Leaves(p, 1, InD)
  \/ Leaves(p, BIAS, InB)
  \/ Looks(p)

RwType == rw \in Int /\ rwpc \in [Procs -> RWPCs]

\* An instruction of the rwlock subtracts something and joins those who have,
\* takes it back and leaves them, or looks.
LEMMA RwMoves ==
  ASSUME RwType, NEW p \in Procs, read(p) \/ write(p)
  PROVE  /\ \E to \in RWPCs : rwpc' = [rwpc EXCEPT ![p] = to]
         /\ Moves(p)
<1> USE CpusAssumption DEF RwType, RWPCs, Moves, Joins, Leaves, Looks, InD, InB
<1>0. rw - 1 = rw + (-1) /\ rw - BIAS = rw + (-BIAS) /\ BIAS \in Int
  OBVIOUS
<1>1. ASSUME NEW from \in RWPCs \ (InD \cup InB), NEW failed \in InD \ {"reading"},
             Decrements(p, from, failed)
      PROVE  /\ \E to \in RWPCs : rwpc' = [rwpc EXCEPT ![p] = to]
             /\ Joins(p, 1, InD, "reading", rw' >= 0)
  BY <1>0, <1>1 DEF Decrements, Adds
<1>2. ASSUME NEW from \in RWPCs \ (InD \cup InB), NEW failed \in InB \ {"writing"},
             Subtracts(p, from, failed)
      PROVE  /\ \E to \in RWPCs : rwpc' = [rwpc EXCEPT ![p] = to]
             /\ Joins(p, BIAS, InB, "writing", rw' = 0)
  BY <1>0, <1>2 DEF Subtracts, Adds
<1>3. CASE read(p)
  <2>1. CASE \/ __raw_read_lock(p) \/ __raw_read_trylock(p)
             \/ Decrements(p, "r_dec", "r_failed")
    BY <1>1, <2>1 DEF __raw_read_lock, __raw_read_trylock
  <2>2. CASE \/ read_trylock_undo(p) \/ __raw_read_unlock(p)
             \/ rwpc[p] = "r_failed" /\ Adds(p, 1, "r_spin")
    BY <2>2 DEF read_trylock_undo, __raw_read_unlock, Adds
  <2>3. CASE Sees(p, "r_spin", rw >= 1, "r_dec")
    BY <2>3 DEF Sees
  <2> QED
    BY <1>3, <2>1, <2>2, <2>3 DEF read, __read_lock_failed
<1>4. CASE write(p)
  <2>1. CASE \/ __raw_write_lock(p) \/ __raw_write_trylock(p)
             \/ Subtracts(p, "w_sub", "w_failed")
    BY <1>2, <2>1 DEF __raw_write_lock, __raw_write_trylock
  <2>2. CASE \/ write_trylock_undo(p) \/ __raw_write_unlock(p)
             \/ rwpc[p] = "w_failed" /\ Adds(p, BIAS, "w_spin")
    BY <2>2 DEF write_trylock_undo, __raw_write_unlock, Adds
  <2>3. CASE Sees(p, "w_spin", rw = BIAS, "w_sub")
    BY <2>3 DEF Sees
  <2> QED
    BY <1>4, <2>1, <2>2, <2>3 DEF write, __write_lock_failed
<1> QED
  BY <1>3, <1>4

-----------------------------------------------------------------------------
(* The invariant *)

\* While a process holds the lock for writing, nobody else holds it.
WriterAlone ==
  \A p, q \in Procs :
    rwpc[p] = "writing" /\ p # q => rwpc[q] \notin {"reading", "writing"}

RwInv ==
  /\ RwType
  /\ CounterExact
  /\ WriterAlone

LEMMA SubtractedSets ==
  /\ Decremented \subseteq Procs /\ Biased \subseteq Procs
  /\ Decremented \cap Biased = {}
  BY DEF Decremented, Biased

\* Who has subtracted what, after a step of p
LEMMA SetsMove ==
  ASSUME RwType, NEW p \in Procs,
         \E to \in RWPCs : rwpc' = [rwpc EXCEPT ![p] = to]
  PROVE  /\ p \in Decremented <=> rwpc[p] \in InD
         /\ p \in Biased <=> rwpc[p] \in InB
         /\ Decremented' = IF rwpc'[p] \in InD THEN Decremented \cup {p}
                                               ELSE Decremented \ {p}
         /\ Biased' = IF rwpc'[p] \in InB THEN Biased \cup {p}
                                          ELSE Biased \ {p}
  BY DEF RwType, Decremented, Biased, InD, InB

\* Their numbers
LEMMA CardsMove ==
  ASSUME RwType, NEW p \in Procs,
         \E to \in RWPCs : rwpc' = [rwpc EXCEPT ![p] = to]
  PROVE  /\ Cardinality(Decremented) \in Nat /\ Cardinality(Biased) \in Nat
         /\ Cardinality(Decremented') =
              Cardinality(Decremented)
                + (IF rwpc'[p] \in InD THEN 1 ELSE 0)
                - (IF rwpc[p] \in InD THEN 1 ELSE 0)
         /\ Cardinality(Biased') =
              Cardinality(Biased)
                + (IF rwpc'[p] \in InB THEN 1 ELSE 0)
                - (IF rwpc[p] \in InB THEN 1 ELSE 0)
<1>1. PICK D, B : D = Decremented /\ B = Biased
  OBVIOUS
<1>2. /\ IsFiniteSet(D) /\ IsFiniteSet(B)
      /\ Cardinality(D) \in Nat /\ Cardinality(B) \in Nat
  BY <1>1, SubtractedSets, FS_Subset, FS_CardinalityType, CpusAssumption
<1>3. /\ Cardinality(D \cup {p}) = IF p \in D THEN Cardinality(D)
                                               ELSE Cardinality(D) + 1
      /\ Cardinality(D \ {p}) = IF p \in D THEN Cardinality(D) - 1
                                            ELSE Cardinality(D)
      /\ Cardinality(B \cup {p}) = IF p \in B THEN Cardinality(B)
                                               ELSE Cardinality(B) + 1
      /\ Cardinality(B \ {p}) = IF p \in B THEN Cardinality(B) - 1
                                            ELSE Cardinality(B)
  BY <1>2, FS_AddElement, FS_RemoveElement
<1>4. /\ p \in D <=> rwpc[p] \in InD
      /\ p \in B <=> rwpc[p] \in InB
      /\ Decremented' = IF rwpc'[p] \in InD THEN D \cup {p} ELSE D \ {p}
      /\ Biased' = IF rwpc'[p] \in InB THEN B \cup {p} ELSE B \ {p}
  BY <1>1, SetsMove
<1> QED
  BY <1>1, <1>2, <1>3, <1>4

\* An instruction changes the counter by as much as it changes the count.
LEMMA CounterStep ==
  ASSUME RwInv, NEW p \in Procs, read(p) \/ write(p)
  PROVE  RwType' /\ CounterExact'
<1>0. RwType /\ CounterExact
  BY DEF RwInv
<1>1. /\ \E to \in RWPCs : rwpc' = [rwpc EXCEPT ![p] = to]
      /\ Moves(p)
  BY <1>0, RwMoves
<1>2. PICK d \in Nat, b \in Nat, e \in Nat, c \in Nat :
        /\ d = Cardinality(Decremented) /\ b = Cardinality(Biased)
        /\ e = Cardinality(Decremented') /\ c = Cardinality(Biased')
        /\ BIAS - BIAS * c - e \in -HALF .. HALF - 1
  <2>1. /\ Decremented' \subseteq Procs /\ Biased' \subseteq Procs
        /\ Decremented' \cap Biased' = {}
    BY DEF Decremented, Biased
  <2>2. /\ Cardinality(Decremented') \in Nat /\ Cardinality(Biased') \in Nat
        /\ BIAS - BIAS * Cardinality(Biased') - Cardinality(Decremented')
              \in -HALF .. HALF - 1
    BY <2>1, InRange
  <2>3. Cardinality(Decremented) \in Nat /\ Cardinality(Biased) \in Nat
    BY <1>0, <1>1, CardsMove
  <2> QED
    BY <2>2, <2>3
<1>3. /\ e = d + (IF rwpc'[p] \in InD THEN 1 ELSE 0)
                - (IF rwpc[p] \in InD THEN 1 ELSE 0)
      /\ c = b + (IF rwpc'[p] \in InB THEN 1 ELSE 0)
                - (IF rwpc[p] \in InB THEN 1 ELSE 0)
  BY <1>0, <1>1, <1>2, CardsMove
<1>4. rw = BIAS - BIAS * b - d
  BY <1>0, <1>2 DEF CounterExact
<1>5. /\ BIAS * (b + 1) = BIAS * b + BIAS /\ BIAS * (c + 1) = BIAS * c + BIAS
      /\ BIAS * b \in Int /\ BIAS * c \in Int
  BY TimesSuccessor, CpusAssumption
<1>6. InD \cap InB = {}
  BY DEF InD, InB
<1>7. rw' = BIAS - BIAS * c - e
  <2>1. CASE Joins(p, 1, InD, "reading", rw' >= 0)
    <3>1. c = b /\ e = d + 1
      BY <1>3, <1>6, <2>1 DEF Joins
    <3>2. rw - 1 = BIAS - BIAS * c - e
      BY <1>4, <1>5, <3>1, CpusAssumption
    <3> QED
      BY <1>2, <2>1, <3>2, CpusAssumption DEF Joins, Wrap
  <2>2. CASE Joins(p, BIAS, InB, "writing", rw' = 0)
    <3>1. c = b + 1 /\ e = d
      BY <1>3, <1>6, <2>2 DEF Joins
    <3>2. rw - BIAS = BIAS - BIAS * c - e
      BY <1>4, <1>5, <3>1, CpusAssumption
    <3> QED
      BY <1>2, <2>2, <3>2, CpusAssumption DEF Joins, Wrap
  <2>3. CASE Leaves(p, 1, InD)
    <3>1. c = b /\ d = e + 1
      BY <1>3, <1>6, <2>3 DEF Leaves
    <3>2. rw + 1 = BIAS - BIAS * c - e
      BY <1>4, <1>5, <3>1, CpusAssumption
    <3> QED
      BY <1>2, <2>3, <3>2, CpusAssumption DEF Leaves, Wrap
  <2>4. CASE Leaves(p, BIAS, InB)
    <3>1. b = c + 1 /\ e = d
      BY <1>3, <1>6, <2>4 DEF Leaves
    <3>2. rw + BIAS = BIAS - BIAS * c - e
      BY <1>4, <1>5, <3>1, CpusAssumption
    <3> QED
      BY <1>2, <2>4, <3>2, CpusAssumption DEF Leaves, Wrap
  <2>5. CASE Looks(p)
    <3>1. c = b /\ e = d /\ rw' = rw
      BY <1>3, <2>5 DEF Looks
    <3> QED
      BY <1>4, <3>1
  <2> QED
    BY <1>1, <2>1, <2>2, <2>3, <2>4, <2>5 DEF Moves
<1>8. CounterExact'
  BY <1>2, <1>7 DEF CounterExact
<1>9. RwType'
  BY <1>0, <1>1, <1>2, <1>5, <1>7, CpusAssumption DEF RwType
<1> QED
  BY <1>8, <1>9

\* The lock is let to a reader only when no bias is in the counter, and to a
\* writer only when its own bias is all that is.
LEMMA WhoHolds ==
  ASSUME NEW D, NEW B, D \subseteq Procs, B \subseteq Procs, NEW r,
         r = BIAS - BIAS * Cardinality(B) - Cardinality(D)
  PROVE  /\ r >= 0 /\ D # {} => B = {}
         /\ \A p \in B : r = 0 => B = {p} /\ D = {}
<1>1. /\ IsFiniteSet(D) /\ IsFiniteSet(B)
      /\ Cardinality(D) \in Nat /\ Cardinality(B) \in Nat
  BY FS_Subset, FS_CardinalityType, CpusAssumption
<1>2. PICK d \in Nat, b \in Nat :
        /\ d = Cardinality(D) /\ b = Cardinality(B)
        /\ r = BIAS - BIAS * b - d
  BY <1>1
<1>3. /\ d = 0 <=> D = {}
      /\ b = 0 <=> B = {}
      /\ b = 1 => \E x : B = {x}
  BY <1>1, <1>2, FS_EmptySet, FS_Singleton
<1>4. b >= 1 => BIAS * b >= BIAS
  <2>1. b >= 1 => BIAS * 1 <= BIAS * b
    BY TimesMonotone, CpusAssumption
  <2> QED
    BY <2>1, CpusAssumption
<1>5. b >= 2 => BIAS * b >= BIAS + BIAS
  <2>1. b >= 2 => BIAS * 2 <= BIAS * b
    BY TimesMonotone, CpusAssumption
  <2> QED
    BY <2>1, CpusAssumption
<1>6. BIAS * b \in Int /\ BIAS \in Nat /\ BIAS > 0
  BY CpusAssumption
<1>7. r >= 0 /\ d > 0 => b = 0
  BY <1>2, <1>4, <1>6
<1>8. r = 0 /\ b > 0 => b = 1 /\ d = 0
  <2>1. r = 0 /\ b > 0 => b < 2 /\ d = 0
    BY <1>2, <1>4, <1>5, <1>6
  <2> QED
    BY <2>1
<1> QED
  BY <1>3, <1>7, <1>8

\* By the counter, a reader gets in only if no bias is in it, and a writer
\* only if nothing is.
LEMMA ExclusionStep ==
  ASSUME RwInv, NEW p \in Procs, read(p) \/ write(p)
  PROVE  WriterAlone'
<1>0. RwType /\ RwType' /\ CounterExact' /\ WriterAlone
  BY CounterStep DEF RwInv
<1>1. /\ \E to \in RWPCs : rwpc' = [rwpc EXCEPT ![p] = to]
      /\ Moves(p)
  BY <1>0, RwMoves
<1>2. /\ rw' >= 0 /\ Decremented' # {} => Biased' = {}
      /\ \A q \in Biased' : rw' = 0 => Biased' = {q} /\ Decremented' = {}
  <2>1. Decremented' \subseteq Procs /\ Biased' \subseteq Procs
    BY DEF Decremented, Biased
  <2>2. rw' = BIAS - BIAS * Cardinality(Biased') - Cardinality(Decremented')
    BY <1>0 DEF CounterExact
  <2> QED
    BY <2>1, <2>2, WhoHolds
<1>3. \A q \in Procs : q # p => rwpc'[q] = rwpc[q]
  BY <1>0, <1>1 DEF RwType
<1>4. CASE rwpc'[p] \notin {"reading", "writing"}
  BY <1>0, <1>3, <1>4 DEF WriterAlone
<1>5. CASE rwpc'[p] = "reading"
  <2>1. rw' >= 0 /\ p \in Decremented'
    BY <1>1, <1>5 DEF Moves, Joins, Leaves, Looks, InD, InB, Decremented
  <2>2. Biased' = {}
    BY <1>2, <2>1
  <2> QED
    BY <2>2 DEF WriterAlone, Biased
<1>6. CASE rwpc'[p] = "writing"
  <2>1. rw' = 0 /\ p \in Biased'
    BY <1>1, <1>6 DEF Moves, Joins, Leaves, Looks, InD, InB, Biased
  <2>2. Biased' = {p} /\ Decremented' = {}
    BY <1>2, <2>1
  <2> QED
    BY <2>2 DEF WriterAlone, Biased, Decremented
<1> QED
  BY <1>4, <1>5, <1>6

LEMMA RwInvariant == Spec => []RwInv
<1>1. Init => RwInv
  <2> SUFFICES ASSUME Init PROVE RwInv
    OBVIOUS
  <2>1. rw = BIAS /\ rwpc = [p \in Procs |-> "out"]
    BY DEF Init, SpinlockInit
  <2>2. RwType /\ WriterAlone
    BY <2>1, CpusAssumption DEF RwType, RWPCs, WriterAlone
  <2>3. Decremented = {} /\ Biased = {}
    BY <2>1 DEF Decremented, Biased
  <2>4. CounterExact
    BY <2>1, <2>3, FS_EmptySet, CpusAssumption DEF CounterExact
  <2> QED
    BY <2>2, <2>4 DEF RwInv
<1>2. RwInv /\ [Next]_vars => RwInv'
  <2> SUFFICES ASSUME RwInv, [Next]_vars PROVE RwInv'
    OBVIOUS
  <2>1. CASE UNCHANGED rwVars
    BY <2>1 DEF RwInv, rwVars, RwType, CounterExact, WriterAlone, Biased,
       Decremented
  <2>2. ASSUME NEW p \in Procs, read(p) \/ write(p)
        PROVE  RwInv'
    BY <2>2, CounterStep, ExclusionStep DEF RwInv
  <2> QED
    BY <2>1, <2>2 DEF Next, Start, Steps, spin, vars
<1> QED
  BY <1>1, <1>2, PTL DEF Spec

\* The reader-writer lock's counter never drifts and never overflows, however
\* many processes there are and however their attempts overlap.
THEOREM CounterAlwaysExact == Spec => []CounterExact
<1>1. RwInv => CounterExact
  BY DEF RwInv
<1> QED
  BY <1>1, RwInvariant, PTL

\* A writer in doeventopen, doeventclose, doeventsig, doeventchown or
\* doeventchmod is alone: no reader and no other writer is between lock and
\* unlock while it is.
THEOREM WriterAlwaysAlone == Spec => []WriterAlone
<1>1. RwInv => WriterAlone
  BY DEF RwInv
<1> QED
  BY <1>1, RwInvariant, PTL

-----------------------------------------------------------------------------
(* Tickets *)

\* Ticket arithmetic never leaves the range in which one correction by
\* TICKETS is enough.
LEMMA ModOnce ==
  ASSUME NEW x \in Int, -TICKETS <= x, x < 2 * TICKETS
  PROVE  x % TICKETS = IF x < 0 THEN x + TICKETS
                       ELSE IF x < TICKETS THEN x ELSE x - TICKETS
<1>0. TICKETS \in Nat /\ TICKETS > 0
  <2>1. Cardinality(Procs) \in Nat
    BY FS_CardinalityType, CpusAssumption
  <2> QED
    BY <2>1, CpusAssumption
<1>1. CASE x < 0
  BY <1>0, <1>1
<1>2. CASE 0 <= x /\ x < TICKETS
  BY <1>0, <1>2
<1>3. CASE TICKETS <= x
  BY <1>0, <1>3
<1> QED
  BY <1>0, <1>1, <1>2, <1>3

\* How far ticket x is behind the head h, and the k-th ticket from h on
Behind(x, h) == (x - h) % TICKETS
Nth(h, k) == (h + k - 1) % TICKETS

\* What incb, and the difference of two tickets, come to.
LEMMA TicketFacts ==
  /\ TICKETS \in Nat /\ TICKETS > 0
  /\ \A x, h \in Tickets :
       /\ IncTicket(x) = IF x = TICKETS - 1 THEN 0 ELSE x + 1
       /\ IncTicket(x) \in Tickets
       /\ Behind(x, h) = IF x < h THEN x - h + TICKETS ELSE x - h
       /\ Behind(x, h) \in Tickets
  /\ \A h \in Tickets, k \in 1 .. TICKETS :
       Nth(h, k) = IF h + k - 1 < TICKETS THEN h + k - 1
                                          ELSE h + k - 1 - TICKETS
<1>0. TICKETS \in Nat /\ TICKETS > 0
  <2>1. Cardinality(Procs) \in Nat
    BY FS_CardinalityType, CpusAssumption
  <2> QED
    BY <2>1, CpusAssumption
<1>1. ASSUME NEW x \in Tickets, NEW h \in Tickets
      PROVE  /\ IncTicket(x) = IF x = TICKETS - 1 THEN 0 ELSE x + 1
             /\ IncTicket(x) \in Tickets
             /\ Behind(x, h) = IF x < h THEN x - h + TICKETS ELSE x - h
             /\ Behind(x, h) \in Tickets
  <2>1. IncTicket(x) = IF x = TICKETS - 1 THEN 0 ELSE x + 1
    <3>1. PICK y \in Int : /\ y = x + 1 /\ -TICKETS <= y /\ y < 2 * TICKETS
                           /\ y >= 0
      BY <1>0 DEF Tickets
    <3>2. y % TICKETS = IF y < TICKETS THEN y ELSE y - TICKETS
      BY <1>0, <3>1, ModOnce
    <3> QED
      BY <1>0, <3>1, <3>2 DEF Tickets, IncTicket
  <2>2. Behind(x, h) = IF x < h THEN x - h + TICKETS ELSE x - h
    <3>1. /\ x - h \in Int /\ -TICKETS <= x - h /\ x - h < 2 * TICKETS
          /\ x - h < TICKETS
      BY <1>0 DEF Tickets
    <3>2. (x - h) % TICKETS = IF x - h < 0 THEN x - h + TICKETS ELSE x - h
      BY <1>0, <3>1, ModOnce
    <3> QED
      BY <1>0, <3>2 DEF Tickets, Behind
  <2> QED
    BY <1>0, <2>1, <2>2 DEF Tickets
<1>2. ASSUME NEW h \in Tickets, NEW k \in 1 .. TICKETS
      PROVE  Nth(h, k) = IF h + k - 1 < TICKETS THEN h + k - 1
                                                ELSE h + k - 1 - TICKETS
  <2>1. PICK y \in Int : /\ y = h + k - 1 /\ -TICKETS <= y
                         /\ y < 2 * TICKETS /\ y >= 0
    BY <1>0 DEF Tickets
  <2>2. y % TICKETS = IF y < TICKETS THEN y ELSE y - TICKETS
    BY <1>0, <2>1, ModOnce
  <2> QED
    BY <1>0, <2>1, <2>2 DEF Nth, Tickets
<1> QED
  BY <1>0, <1>1, <1>2

\* Giving out ticket t, the last one; serving ticket h, the first one
LEMMA TicketGiven ==
  ASSUME NEW h \in Tickets, NEW t \in Tickets, Behind(t, h) + 1 < TICKETS
  PROVE  /\ Behind(IncTicket(t), h) = Behind(t, h) + 1
         /\ Nth(h, Behind(t, h) + 1) = t
         /\ \A k \in 1 .. Behind(t, h) : Nth(h, k) # t
<1>1. /\ Behind(t, h) = IF t < h THEN t - h + TICKETS ELSE t - h
      /\ IncTicket(t) = IF t = TICKETS - 1 THEN 0 ELSE t + 1
      /\ IncTicket(t) \in Tickets /\ TICKETS \in Nat /\ TICKETS > 0
      /\ Behind(t, h) \in Tickets
  BY TicketFacts
<1>2. Behind(IncTicket(t), h) =
        IF IncTicket(t) < h THEN IncTicket(t) - h + TICKETS
                            ELSE IncTicket(t) - h
  BY <1>1, TicketFacts
<1>3. Behind(IncTicket(t), h) = Behind(t, h) + 1
  BY <1>1, <1>2 DEF Tickets
<1>4. Nth(h, Behind(t, h) + 1) = t
  <2>0. Behind(t, h) + 1 \in 1 .. TICKETS
    BY <1>1 DEF Tickets
  <2>1. PICK k \in 1 .. TICKETS : k = Behind(t, h) + 1
    BY <2>0
  <2>2. Nth(h, k) = IF h + k - 1 < TICKETS THEN h + k - 1
                                           ELSE h + k - 1 - TICKETS
    BY TicketFacts
  <2> QED
    BY <1>1, <2>1, <2>2 DEF Tickets
<1>5. ASSUME NEW k \in 1 .. Behind(t, h)
      PROVE  Nth(h, k) # t
  <2>1. k \in 1 .. TICKETS
    BY <1>1 DEF Tickets
  <2>2. Nth(h, k) = IF h + k - 1 < TICKETS THEN h + k - 1
                                           ELSE h + k - 1 - TICKETS
    BY <2>1, TicketFacts
  <2> QED
    BY <1>1, <2>1, <2>2 DEF Tickets
<1> QED
  BY <1>3, <1>4, <1>5

\* When the head moves on, everyone behind it is one nearer.
LEMMA TicketServed ==
  ASSUME NEW h \in Tickets, NEW x \in Tickets, x # h
  PROVE  /\ Behind(x, h) >= 1
         /\ Behind(x, IncTicket(h)) = Behind(x, h) - 1
         /\ \A k \in 1 .. Behind(x, h) - 1 : Nth(IncTicket(h), k) = Nth(h, k + 1)
<1>1. /\ Behind(x, h) = IF x < h THEN x - h + TICKETS ELSE x - h
      /\ IncTicket(h) = IF h = TICKETS - 1 THEN 0 ELSE h + 1
      /\ IncTicket(h) \in Tickets /\ TICKETS \in Nat /\ TICKETS > 0
      /\ Behind(x, h) \in Tickets
  BY TicketFacts
<1>2. Behind(x, IncTicket(h)) =
        IF x < IncTicket(h) THEN x - IncTicket(h) + TICKETS
                            ELSE x - IncTicket(h)
  BY <1>1, TicketFacts
<1>3. ASSUME NEW k \in 1 .. Behind(x, h) - 1
      PROVE  Nth(IncTicket(h), k) = Nth(h, k + 1)
  <2>1. PICK i \in 1 .. TICKETS : i = k + 1
    BY <1>1 DEF Tickets
  <2>2. k \in 1 .. TICKETS
    BY <1>1 DEF Tickets
  <2>3. Nth(h, i) = IF h + i - 1 < TICKETS THEN h + i - 1
                                           ELSE h + i - 1 - TICKETS
    BY TicketFacts
  <2>4. PICK g \in Tickets : g = IncTicket(h)
    BY <1>1
  <2>5. Nth(g, k) = IF g + k - 1 < TICKETS THEN g + k - 1
                                           ELSE g + k - 1 - TICKETS
    BY <2>2, TicketFacts
  <2> QED
    BY <1>1, <2>1, <2>2, <2>3, <2>4, <2>5 DEF Tickets
<1> QED
  BY <1>1, <1>2, <1>3 DEF Tickets

LEMMA TicketFirst ==
  ASSUME NEW h \in Tickets
  PROVE  Nth(h, 1) = h /\ Behind(h, h) = 0
  BY TicketFacts DEF Tickets

-----------------------------------------------------------------------------
(* The ticket lock *)

TicketType ==
  /\ head \in Tickets /\ tail \in Tickets
  /\ ticket \in [Procs -> Tickets]
  /\ old \in [Procs -> Tickets]
  /\ tpc \in [Procs -> TPCs]

\* The tickets of the processes in the line are different ones between the
\* head and the tail, as many as there are; who is let in has the first.
TicketInv ==
  /\ TicketType
  /\ Waiting = Cardinality(Queued)
  /\ \A p \in Queued : Behind(ticket[p], head) < Waiting
  /\ \A p, q \in Queued : ticket[p] = ticket[q] => p = q
  /\ \A p \in Procs : tpc[p] \in {"in", "inc"} => ticket[p] = head
  /\ \A p \in Procs : tpc[p] = "inc" => old[p] = head

\* A step of p takes a ticket, gives it up, or neither.
OnlyAt(p) ==
  /\ tpc' = [tpc EXCEPT ![p] = tpc'[p]]
  /\ old' = [old EXCEPT ![p] = old'[p]]
  /\ tpc'[p] \in TPCs /\ old'[p] \in Tickets
Takes(p) ==
  /\ tpc[p] \in {"out", "cmpxchg"} /\ tpc'[p] \in {"spin", "in"}
  /\ tpc'[p] = "in" => head = tail
  /\ ticket' = [ticket EXCEPT ![p] = tail]
  /\ tail' = IncTicket(tail)
  /\ head' = head
Gives(p) ==
  /\ tpc[p] = "inc" /\ tpc'[p] = "out"
  /\ head' = IncTicket(old[p])
  /\ ticket' = [ticket EXCEPT ![p] = 0]
  /\ tail' = tail
Stays(p) ==
  /\ tpc[p] \in {"spin", "in", "inc"} <=> tpc'[p] \in {"spin", "in", "inc"}
  /\ tpc'[p] \in {"in", "inc"} => ticket[p] = head \/ tpc[p] \in {"in", "inc"}
  /\ tpc'[p] = "inc" => old'[p] = head
  /\ UNCHANGED <<head, tail, ticket>>

\* An instruction of the ticket lock takes a ticket, gives the lock on, or
\* does neither.
LEMMA SpinMoves ==
  ASSUME TicketType, NEW p \in Procs, spin(p)
  PROVE  /\ OnlyAt(p)
         /\ Takes(p) \/ Gives(p) \/ Stays(p)
<1>0. 0 \in Tickets
  BY TicketFacts DEF Tickets
<1> USE <1>0 DEF TicketType, OnlyAt, TPCs
<1>1. CASE __ticket_spin_lock(p)
  BY <1>1 DEF __ticket_spin_lock, Takes
<1>2. CASE ticket_spin(p)
  BY <1>2 DEF ticket_spin, Stays
<1>3. CASE trylock_load(p)
  BY <1>3 DEF trylock_load, Stays
<1>4. CASE trylock_cmpxchg(p)
  BY <1>4 DEF trylock_cmpxchg, Takes, Stays
<1>5. CASE unlock_load(p)
  BY <1>5 DEF unlock_load, Stays
<1>6. CASE unlock_store(p)
  BY <1>6 DEF unlock_store, Forgets, Gives
<1> QED
  BY <1>1, <1>2, <1>3, <1>4, <1>5, <1>6 DEF spin

\* There are fewer processes than tickets.
LEMMA QueuedFew ==
  ASSUME TicketType
  PROVE  /\ IsFiniteSet(Queued) /\ Cardinality(Queued) \in Nat
         /\ \A p \in Procs \ Queued : Cardinality(Queued) + 1 < TICKETS
<1>1. Queued \subseteq Procs
  BY DEF Queued
<1>2. IsFiniteSet(Queued) /\ Cardinality(Queued) \in Nat
  BY <1>1, FS_Subset, FS_CardinalityType, CpusAssumption
<1>3. ASSUME NEW p \in Procs \ Queued
      PROVE  Cardinality(Queued) + 1 < TICKETS
  <2>1. Queued \cup {p} \in SUBSET Procs
    BY <1>1
  <2>2. Cardinality(Queued \cup {p}) = Cardinality(Queued) + 1
    BY <1>2, FS_AddElement
  <2>3. Cardinality(Queued \cup {p}) <= Cardinality(Procs)
    BY <2>1, FS_Subset, CpusAssumption
  <2>4. Cardinality(Procs) \in Nat
    BY FS_CardinalityType, CpusAssumption
  <2> QED
    BY <1>2, <2>2, <2>3, <2>4, CpusAssumption
<1> QED
  BY <1>2, <1>3

LEMMA WaitingBehind == Waiting = Behind(tail, head)
  BY DEF Waiting, Behind

LEMMA WaitingBehindNext == Waiting' = Behind(tail', head')
  BY DEF Waiting, Behind

\* p takes ticket `tail'.
LEMMA TakesLine ==
  ASSUME TicketInv, NEW p \in Procs, OnlyAt(p), Takes(p)
  PROVE  /\ p \notin Queued /\ Queued' = Queued \cup {p}
         /\ Waiting \in Nat /\ Waiting + 1 < TICKETS
         /\ Waiting' = Waiting + 1
<1>1. p \notin Queued /\ Queued' = Queued \cup {p}
  BY DEF OnlyAt, Takes, Queued, TicketInv, TicketType
<1>2. Waiting \in Nat /\ Waiting + 1 < TICKETS
  BY <1>1, QueuedFew DEF TicketInv
<1>3. Behind(IncTicket(tail), head) = Behind(tail, head) + 1
  BY <1>2, TicketGiven, WaitingBehind DEF TicketInv, TicketType
<1> QED
  BY <1>1, <1>2, <1>3, WaitingBehind, WaitingBehindNext DEF Takes

\* The ticket taken is nobody else's: there are fewer processes than tickets.
LEMMA TakesKeeps ==
  ASSUME TicketInv, NEW p \in Procs, OnlyAt(p), Takes(p)
  PROVE  TicketInv'
<1>1. /\ p \notin Queued /\ Queued' = Queued \cup {p}
      /\ Waiting \in Nat /\ Waiting' = Waiting + 1
  BY TakesLine
<1>2. TicketType'
  BY TicketFacts DEF TicketInv, TicketType, OnlyAt, Takes
<1>3. Waiting' = Cardinality(Queued')
  <2>1. Cardinality(Queued \cup {p}) = Cardinality(Queued) + 1
    BY <1>1, QueuedFew, FS_AddElement DEF TicketInv
  <2> QED
    BY <1>1, <2>1 DEF TicketInv
<1>4. /\ ticket'[p] = tail /\ head' = head
      /\ \A q \in Queued : q \in Procs /\ q # p /\ ticket'[q] = ticket[q]
  BY <1>1 DEF Takes, TicketInv, TicketType, Queued
<1>5. \A q \in Queued' : Behind(ticket'[q], head') < Waiting'
  <2>1. Behind(tail, head) < Waiting'
    BY <1>1, WaitingBehind
  <2>2. \A q \in Queued : /\ Behind(ticket[q], head) < Waiting
                          /\ Behind(ticket[q], head) \in Tickets
    BY <1>4, TicketFacts DEF TicketInv, TicketType
  <2>3. \A q \in Queued : Behind(ticket[q], head) < Waiting'
    BY <1>1, <2>2, TicketFacts DEF Tickets
  <2> QED
    BY <1>1, <1>4, <2>1, <2>3
<1>6. \A q, r \in Queued' : ticket'[q] = ticket'[r] => q = r
  <2>1. \A q \in Queued : ticket[q] # tail
    <3>1. \A q \in Queued : Behind(ticket[q], head) < Behind(tail, head)
      BY WaitingBehind DEF TicketInv
    <3>2. ~(Behind(tail, head) < Behind(tail, head))
      BY <1>1, WaitingBehind
    <3> QED
      BY <3>1, <3>2
  <2> QED
    BY <1>1, <1>4, <2>1 DEF TicketInv
<1>7. \A q \in Procs : /\ tpc'[q] \in {"in", "inc"} => ticket'[q] = head'
                       /\ tpc'[q] = "inc" => old'[q] = head'
  BY <1>4 DEF TicketInv, TicketType, OnlyAt, Takes
<1> QED
  BY <1>2, <1>3, <1>5, <1>6, <1>7 DEF TicketInv

\* p, the first of the line, leaves it.
LEMMA GivesLine ==
  ASSUME TicketInv, NEW p \in Procs, OnlyAt(p), Gives(p)
  PROVE  /\ p \in Queued /\ Queued' = Queued \ {p}
         /\ ticket[p] = head /\ head' = IncTicket(head)
         /\ Waiting \in Nat /\ Waiting >= 1 /\ Waiting' = Waiting - 1
         /\ tail # head
<1>1. p \in Queued /\ Queued' = Queued \ {p}
  BY DEF OnlyAt, Gives, Queued, TicketInv, TicketType
<1>2. ticket[p] = head /\ head' = IncTicket(head)
  BY DEF Gives, TicketInv
<1>3. tail # head
  <2>1. Behind(head, head) = 0 /\ Behind(head, head) < Behind(tail, head)
    BY <1>1, <1>2, TicketFirst, WaitingBehind DEF TicketInv, TicketType
  <2> QED
    BY <2>1
<1>4. /\ Behind(tail, head) \in Tickets /\ Behind(tail, head) >= 1
      /\ Behind(tail, IncTicket(head)) = Behind(tail, head) - 1
  BY <1>3, TicketServed, TicketFacts DEF TicketInv, TicketType
<1>5. Behind(tail, head) \in Nat
  BY <1>4, TicketFacts DEF Tickets
<1> QED
  BY <1>1, <1>2, <1>3, <1>4, <1>5, WaitingBehind, WaitingBehindNext DEF Gives

\* The unlock's store is right although it is not a locked instruction: only
\* the holder changes the head, so what it loaded is still there.
LEMMA GivesKeeps ==
  ASSUME TicketInv, NEW p \in Procs, OnlyAt(p), Gives(p)
  PROVE  TicketInv'
<1>1. /\ p \in Queued /\ Queued' = Queued \ {p}
      /\ ticket[p] = head /\ head' = IncTicket(head)
      /\ Waiting \in Nat /\ Waiting' = Waiting - 1
  BY GivesLine
<1>2. TicketType'
  <2>1. 0 \in Tickets
    BY TicketFacts DEF Tickets
  <2>2. IncTicket(head) \in Tickets
    BY TicketFacts DEF TicketInv, TicketType
  <2> QED
    BY <1>1, <2>1, <2>2 DEF TicketInv, TicketType, OnlyAt, Gives
<1>3. Waiting' = Cardinality(Queued')
  <2>1. Cardinality(Queued \ {p}) = Cardinality(Queued) - 1
    BY <1>1, QueuedFew, FS_RemoveElement DEF TicketInv
  <2> QED
    BY <1>1, <2>1 DEF TicketInv
<1>4. \A q \in Queued' :
        /\ q \in Procs /\ q \in Queued /\ ticket[q] # head
        /\ ticket'[q] = ticket[q] /\ ticket[q] \in Tickets
  BY <1>1 DEF Gives, TicketInv, TicketType, Queued
<1>5. \A q \in Queued' : Behind(ticket'[q], head') < Waiting'
  <2> SUFFICES ASSUME NEW q \in Queued'
               PROVE  Behind(ticket[q], IncTicket(head)) < Waiting - 1
    BY <1>1, <1>4
  <2>1. /\ Behind(ticket[q], head) < Waiting
        /\ Behind(ticket[q], head) \in Tickets
        /\ Behind(ticket[q], IncTicket(head)) = Behind(ticket[q], head) - 1
    BY <1>4, TicketServed, TicketFacts DEF TicketInv, TicketType
  <2> QED
    BY <1>1, <2>1, TicketFacts DEF Tickets
<1>6. \A q, r \in Queued' : ticket'[q] = ticket'[r] => q = r
  BY <1>4 DEF TicketInv
<1>7. \A q \in Procs : tpc'[q] \notin {"in", "inc"}
  <2>1. tpc'[p] = "out" /\ \A q \in Procs \ {p} : tpc'[q] = tpc[q]
    BY DEF OnlyAt, Gives, TicketInv, TicketType
  <2>2. \A q \in Procs : tpc[q] \in {"in", "inc"} => q = p
    BY <1>1 DEF TicketInv, Queued
  <2> QED
    BY <2>1, <2>2
<1> QED
  BY <1>2, <1>3, <1>5, <1>6, <1>7 DEF TicketInv

\* The other instructions change neither the line nor the word.
LEMMA StaysKeeps ==
  ASSUME TicketInv, NEW p \in Procs, OnlyAt(p), Stays(p)
  PROVE  TicketInv' /\ Queued' = Queued /\ Waiting' = Waiting
<1>1. Queued' = Queued /\ Waiting' = Waiting
  BY DEF OnlyAt, Stays, Queued, Waiting, TicketInv, TicketType
<1>2. TicketType'
  BY DEF TicketInv, TicketType, OnlyAt, Stays
<1>3. \A q \in Procs : /\ tpc'[q] \in {"in", "inc"} => ticket'[q] = head'
                       /\ tpc'[q] = "inc" => old'[q] = head'
  BY DEF TicketInv, TicketType, OnlyAt, Stays
<1> QED
  BY <1>1, <1>2, <1>3 DEF TicketInv, Stays

LEMMA TicketInvariant == Spec => []TicketInv
<1>1. Init => TicketInv
  <2> SUFFICES ASSUME Init PROVE TicketInv
    OBVIOUS
  <2>1. TicketType
    BY TicketFacts DEF Init, SpinlockInit, TicketType, Tickets, TPCs
  <2>2. Queued = {}
    BY DEF Init, SpinlockInit, Queued
  <2>3. Waiting = 0
    BY <2>1, TicketFirst, WaitingBehind DEF Init, SpinlockInit, TicketType
  <2>4. \A p \in Procs : tpc[p] = "out"
    BY DEF Init, SpinlockInit
  <2> QED
    BY <2>1, <2>2, <2>3, <2>4, FS_EmptySet DEF TicketInv
<1>2. TicketInv /\ [Next]_vars => TicketInv'
  <2> SUFFICES ASSUME TicketInv, [Next]_vars PROVE TicketInv'
    OBVIOUS
  <2>1. CASE UNCHANGED ticketVars
    BY <2>1 DEF TicketInv, ticketVars, TicketType, Waiting, Queued
  <2>2. ASSUME NEW p \in Procs, spin(p)
        PROVE  TicketInv'
    <3>1. OnlyAt(p) /\ (Takes(p) \/ Gives(p) \/ Stays(p))
      BY <2>2, SpinMoves DEF TicketInv
    <3> QED
      BY <3>1, TakesKeeps, GivesKeeps, StaysKeeps
  <2> QED
    BY <2>1, <2>2 DEF Next, Start, Steps, read, write, vars
<1> QED
  BY <1>1, <1>2, PTL DEF Spec

-----------------------------------------------------------------------------
(* The line *)

\* Which of Q has ticket t
Holder(Q, f, t) ==
  IF \E p \in Q : f[p] = t THEN CHOOSE p \in Q : f[p] = t ELSE NONE

\* Who has a ticket is well defined, as tickets are distinct.
LEMMA HolderIs ==
  ASSUME NEW Q, NEW f, NEW t, NEW p \in Q, f[p] = t,
         \A q \in Q : f[q] = t => q = p
  PROVE  Holder(Q, f, t) = p
  BY DEF Holder

LEMMA HolderNone ==
  ASSUME NEW Q, NEW f, NEW t, \A q \in Q : f[q] # t
  PROVE  Holder(Q, f, t) = NONE
  BY DEF Holder

LEMMA HolderType ==
  ASSUME NEW Q, Q \subseteq Procs, NEW f, NEW t
  PROVE  Holder(Q, f, t) \in Procs \cup {NONE}
  BY DEF Holder

\* It depends on nothing but who has that ticket.
LEMMA HolderKept ==
  ASSUME NEW Q, NEW f, NEW t, NEW R, NEW g,
         \A p, q \in Q : f[p] = f[q] => p = q,
         \A p : p \in Q /\ f[p] = t <=> p \in R /\ g[p] = t
  PROVE  Holder(R, g, t) = Holder(Q, f, t)
<1>1. CASE \E p \in Q : f[p] = t
  <2>1. PICK p \in Q : f[p] = t
    BY <1>1
  <2>2. Holder(Q, f, t) = p
    BY <2>1, HolderIs
  <2>3. p \in R /\ g[p] = t
    BY <2>1
  <2>4. ASSUME NEW q \in R, g[q] = t
        PROVE  q = p
    <3>1. q \in Q /\ f[q] = t
      BY <2>4
    <3> QED
      BY <2>1, <3>1
  <2>5. Holder(R, g, t) = p
    BY <2>3, <2>4 DEF Holder
  <2> QED
    BY <2>2, <2>5
<1>2. CASE \A p \in Q : f[p] # t
  <2>1. \A p \in R : g[p] # t
    BY <1>2
  <2> QED
    BY <1>2, <2>1, HolderNone
<1> QED
  BY <1>1, <1>2

\* The line, ticket by ticket, in this state and the next
LEMMA LineDef ==
  /\ lineMap = [k \in 1 .. Waiting |-> Holder(Queued, ticket, Nth(head, k))]
  /\ lineMap' = [k \in 1 .. Waiting' |-> Holder(Queued', ticket', Nth(head', k))]
  BY DEF lineMap, With, Holder, Nth

Somebody == Procs \cup {NONE}

LEMMA MapSeq ==
  ASSUME NEW S, NEW n \in Nat, NEW f \in [1 .. n -> S]
  PROVE  f \in Seq(S) /\ Len(f) = n
<1>1. f \in Seq(S)
  BY SeqDef
<1>2. Len(f) \in Nat /\ DOMAIN f = 1 .. Len(f) /\ DOMAIN f = 1 .. n
  BY <1>1, LenProperties
<1> QED
  BY <1>1, <1>2

LEMMA LineSeq ==
  ASSUME Waiting \in Nat
  PROVE  /\ lineMap \in Seq(Somebody) /\ Len(lineMap) = Waiting
         /\ \A k \in 1 .. Waiting :
              lineMap[k] = Holder(Queued, ticket, Nth(head, k))
<1>1. \A k \in 1 .. Waiting : Holder(Queued, ticket, Nth(head, k)) \in Somebody
  BY HolderType DEF Queued, Somebody
<1>2. lineMap \in [1 .. Waiting -> Somebody]
  BY <1>1, LineDef
<1> QED
  BY <1>2, LineDef, MapSeq

LEMMA LineSeqNext ==
  ASSUME Waiting' \in Nat
  PROVE  /\ lineMap' \in Seq(Somebody) /\ Len(lineMap') = Waiting'
         /\ \A k \in 1 .. Waiting' :
              lineMap'[k] = Holder(Queued', ticket', Nth(head', k))
<1>1. \A k \in 1 .. Waiting' :
        Holder(Queued', ticket', Nth(head', k)) \in Somebody
  <2>1. Queued' \subseteq Procs
    BY DEF Queued
  <2> QED
    BY <2>1, HolderType DEF Somebody
<1>2. lineMap' \in [1 .. Waiting' -> Somebody]
  BY <1>1, LineDef
<1> QED
  BY <1>2, LineDef, MapSeq

\* A ticket taken is the end of the line,
LEMMA LineGrows ==
  ASSUME TicketInv, NEW p \in Procs, OnlyAt(p), Takes(p)
  PROVE  lineMap' = Append(lineMap, p)
<1>0. PICK n \in Nat : n = Waiting
  BY TakesLine
<1>1. /\ p \notin Queued /\ Queued' = Queued \cup {p}
      /\ n + 1 < TICKETS /\ Waiting' = n + 1
  BY <1>0, TakesLine
<1>2. /\ lineMap \in Seq(Somebody) /\ Len(lineMap) = n
      /\ \A k \in 1 .. n : lineMap[k] = Holder(Queued, ticket, Nth(head, k))
  BY <1>0, LineSeq
<1>3. /\ lineMap' \in Seq(Somebody) /\ Len(lineMap') = n + 1
      /\ \A k \in 1 .. n + 1 :
           lineMap'[k] = Holder(Queued', ticket', Nth(head', k))
  <2>1. Waiting' \in Nat
    BY <1>1
  <2> QED
    BY <1>1, <2>1, LineSeqNext
<1>4. /\ Append(lineMap, p) \in Seq(Somebody)
      /\ Len(Append(lineMap, p)) = n + 1
      /\ \A k \in 1 .. n : Append(lineMap, p)[k] = lineMap[k]
      /\ Append(lineMap, p)[n + 1] = p
  BY <1>2, AppendProperties DEF Somebody
<1>5. /\ Nth(head, n + 1) = tail
      /\ \A k \in 1 .. n : Nth(head, k) # tail
  BY <1>0, <1>1, TicketGiven, WaitingBehind DEF TicketInv, TicketType
<1>6. /\ ticket'[p] = tail /\ head' = head
      /\ \A q \in Queued : q # p /\ ticket'[q] = ticket[q]
  BY <1>1 DEF Takes, TicketInv, TicketType, Queued
<1>7. \A k \in 1 .. n : lineMap'[k] = lineMap[k]
  <2> SUFFICES ASSUME NEW k \in 1 .. n
               PROVE  Holder(Queued', ticket', Nth(head, k))
                        = Holder(Queued, ticket, Nth(head, k))
    BY <1>2, <1>3, <1>6
  <2>1. PICK t : t = Nth(head, k) /\ t # tail
    BY <1>5
  <2>2. \A q : q \in Queued /\ ticket[q] = t <=> q \in Queued' /\ ticket'[q] = t
    BY <1>1, <1>6, <2>1
  <2>3. Holder(Queued', ticket', t) = Holder(Queued, ticket, t)
    BY <2>2, HolderKept DEF TicketInv
  <2> QED
    BY <2>1, <2>3
<1>8. lineMap'[n + 1] = p
  <2>1. p \in Queued' /\ \A q \in Queued' : ticket'[q] = tail => q = p
    BY <1>1, <1>6, TakesKeeps DEF TicketInv
  <2>2. Holder(Queued', ticket', tail) = p
    BY <1>6, <2>1, HolderIs
  <2> QED
    BY <1>3, <1>5, <1>6, <2>2
<1>9. \A k \in 1 .. n + 1 : lineMap'[k] = Append(lineMap, p)[k]
  BY <1>4, <1>7, <1>8
<1> QED
  BY <1>3, <1>4, <1>9, SeqEqual

\* and the unlock takes away its front, which was the holder.
LEMMA LineShrinks ==
  ASSUME TicketInv, NEW p \in Procs, OnlyAt(p), Gives(p)
  PROVE  /\ lineMap # <<>> /\ Head(lineMap) = p
         /\ lineMap' = Tail(lineMap)
<1>0. PICK n \in Nat : n = Waiting
  BY GivesLine
<1>1. /\ p \in Queued /\ Queued' = Queued \ {p}
      /\ ticket[p] = head /\ head' = IncTicket(head)
      /\ n >= 1 /\ Waiting' = n - 1 /\ tail # head
  BY <1>0, GivesLine
<1>2. /\ lineMap \in Seq(Somebody) /\ Len(lineMap) = n
      /\ \A k \in 1 .. n : lineMap[k] = Holder(Queued, ticket, Nth(head, k))
  BY <1>0, LineSeq
<1>3. /\ lineMap' \in Seq(Somebody) /\ Len(lineMap') = n - 1
      /\ \A k \in 1 .. n - 1 :
           lineMap'[k] = Holder(Queued', ticket', Nth(head', k))
  <2>1. Waiting' \in Nat
    BY <1>1
  <2> QED
    BY <1>1, <2>1, LineSeqNext
<1>4. lineMap # <<>>
  BY <1>1, <1>2, EmptySeq
<1>5. Head(lineMap) = p
  <2>1. Nth(head, 1) = head
    BY TicketFirst DEF TicketInv, TicketType
  <2>2. Holder(Queued, ticket, head) = p
    <3>1. \A q \in Queued : ticket[q] = head => q = p
      BY <1>1 DEF TicketInv
    <3> QED
      BY <1>1, <3>1, HolderIs
  <2>3. lineMap[1] = p
    BY <1>1, <1>2, <2>1, <2>2
  <2> QED
    BY <1>2, <1>4, <2>3
<1>6. /\ Tail(lineMap) \in Seq(Somebody) /\ Len(Tail(lineMap)) = n - 1
      /\ \A k \in 1 .. n - 1 : Tail(lineMap)[k] = lineMap[k + 1]
  BY <1>2, <1>4, HeadTailProperties
<1>7. \A k \in 1 .. n - 1 : lineMap'[k] = lineMap[k + 1]
  <2> SUFFICES ASSUME NEW k \in 1 .. n - 1
               PROVE  Holder(Queued', ticket', Nth(head', k))
                        = Holder(Queued, ticket, Nth(head, k + 1))
    BY <1>0, <1>2, <1>3
  <2>1. Nth(head', k) = Nth(head, k + 1)
    BY <1>0, <1>1, TicketServed, WaitingBehind DEF TicketInv, TicketType
  <2>2. Nth(head, k + 1) # head
    <3>0. n \in Tickets
      BY <1>0, TicketFacts, WaitingBehind DEF TicketInv, TicketType
    <3>1. PICK i \in 1 .. TICKETS : i = k + 1
      <4>1. k + 1 \in 1 .. TICKETS
        BY <3>0, TicketFacts DEF Tickets
      <4> QED
        BY <4>1
    <3>2. Nth(head, i) = IF head + i - 1 < TICKETS THEN head + i - 1
                         ELSE head + i - 1 - TICKETS
      BY TicketFacts DEF TicketInv, TicketType
    <3> QED
      BY <3>0, <3>1, <3>2, CpusAssumption DEF TicketInv, TicketType, Tickets
  <2>3. PICK t : t = Nth(head, k + 1) /\ t # head
    BY <2>2
  <2>4. \A q : q \in Queued /\ ticket[q] = t <=> q \in Queued' /\ ticket'[q] = t
    <3>1. \A q \in Queued' : ticket'[q] = ticket[q]
      BY <1>1 DEF Gives, TicketInv, TicketType, Queued
    <3> QED
      BY <1>1, <2>3, <3>1
  <2>5. Holder(Queued', ticket', t) = Holder(Queued, ticket, t)
    BY <2>4, HolderKept DEF TicketInv
  <2> QED
    BY <2>1, <2>3, <2>5
<1>8. \A k \in 1 .. n - 1 : lineMap'[k] = Tail(lineMap)[k]
  BY <1>6, <1>7
<1>9. lineMap' = Tail(lineMap)
  BY <1>3, <1>6, <1>8, SeqEqual
<1> QED
  BY <1>4, <1>5, <1>9

-----------------------------------------------------------------------------
(* The refinement *)

\* Every instruction of the ticket lock is a step of Locks, or none.
LEMMA SpinRefines ==
  ASSUME TicketInv, NEW p \in Procs, spin(p)
  PROVE  Abstract!Next \/ UNCHANGED <<readersMap, writerMap, lineMap>>
<1>1. UNCHANGED <<readersMap, writerMap>>
  BY DEF spin, rwVars, readersMap, writerMap
<1>2. OnlyAt(p) /\ (Takes(p) \/ Gives(p) \/ Stays(p))
  BY SpinMoves DEF TicketInv
<1>3. CASE Takes(p)
  <2>1. Abstract!Queue(p)
    BY <1>1, <1>2, <1>3, LineGrows DEF Abstract!Queue
  <2> QED
    BY <2>1 DEF Abstract!Next
<1>4. CASE Gives(p)
  <2>1. Abstract!Leave(p)
    BY <1>1, <1>2, <1>4, LineShrinks DEF Abstract!Leave
  <2> QED
    BY <2>1 DEF Abstract!Next
<1>5. CASE Stays(p)
  <2>1. Queued' = Queued /\ Waiting' = Waiting
    BY <1>2, <1>5, StaysKeeps
  <2>2. lineMap' = lineMap
    BY <1>5, <2>1, LineDef DEF Stays
  <2> QED
    BY <1>1, <2>2
<1> QED
  BY <1>2, <1>3, <1>4, <1>5

\* The one who writes
LEMMA WriterIs ==
  ASSUME NEW f, NEW p \in Procs, f[p] = "writing",
         \A q \in Procs : f[q] = "writing" => q = p
  PROVE  (IF \E q \in Procs : f[q] = "writing"
            THEN CHOOSE q \in Procs : f[q] = "writing" ELSE NONE) = p
  OBVIOUS

\* So is every instruction of the reader-writer lock.
LEMMA RwRefines ==
  ASSUME RwInv, RwInv', NEW p \in Procs, read(p) \/ write(p)
  PROVE  Abstract!Next \/ UNCHANGED <<readersMap, writerMap, lineMap>>
<1>0. RwType /\ RwType' /\ WriterAlone /\ WriterAlone'
  BY DEF RwInv
<1>1. /\ \E to \in RWPCs : rwpc' = [rwpc EXCEPT ![p] = to]
      /\ Moves(p)
  BY <1>0, RwMoves
<1>2. \A q \in Procs : q # p => rwpc'[q] = rwpc[q]
  BY <1>0, <1>1 DEF RwType
<1>3. lineMap' = lineMap
  BY DEF read, write, ticketVars, lineMap, With, Waiting, Queued
<1>4. readersMap' = IF rwpc'[p] = "reading" THEN readersMap \cup {p}
                                            ELSE readersMap \ {p}
  BY <1>2 DEF readersMap
<1>5. /\ rwpc[p] \in {"reading", "writing"}
           => rwpc'[p] \notin {"reading", "writing"}
      /\ rwpc'[p] # "reading" /\ rwpc[p] # "reading" => readersMap' = readersMap
  BY <1>1, <1>4 DEF Moves, Joins, Leaves, Looks, InD, InB, readersMap
<1>6. \A q \in Procs : (rwpc[q] = "writing" /\ q # p) => writerMap' = writerMap
  <2> SUFFICES ASSUME NEW q \in Procs, rwpc[q] = "writing", q # p
               PROVE  writerMap' = writerMap
    OBVIOUS
  <2>1. rwpc'[q] = "writing"
    BY <1>2
  <2>2. writerMap = q
    BY <1>0, WriterIs DEF writerMap, WriterAlone
  <2>3. writerMap' = q
    BY <1>0, <2>1, WriterIs DEF writerMap, WriterAlone
  <2> QED
    BY <2>2, <2>3
<1>7. (\A q \in Procs : rwpc[q] # "writing") => writerMap = NONE
  BY DEF writerMap
<1>8. (\A q \in Procs : rwpc'[q] # "writing") => writerMap' = NONE
  BY DEF writerMap
<1>9. CASE rwpc'[p] = "reading"
  <2>1. \A q \in Procs : rwpc[q] # "writing" /\ rwpc'[q] # "writing"
    BY <1>0, <1>2, <1>5, <1>9 DEF WriterAlone
  <2>2. Abstract!ReadLock(p)
    BY <1>3, <1>4, <1>7, <1>8, <1>9, <2>1 DEF Abstract!ReadLock
  <2> QED
    BY <2>2 DEF Abstract!Next
<1>10. CASE rwpc[p] = "reading"
  <2>1. \A q \in Procs : rwpc[q] # "writing" /\ rwpc'[q] # "writing"
    BY <1>0, <1>2, <1>5, <1>10 DEF WriterAlone
  <2>2. p \in readersMap /\ readersMap' = readersMap \ {p}
    BY <1>4, <1>5, <1>10 DEF readersMap
  <2>3. Abstract!ReadUnlock(p)
    BY <1>3, <1>7, <1>8, <2>1, <2>2 DEF Abstract!ReadUnlock
  <2> QED
    BY <2>3 DEF Abstract!Next
<1>11. CASE rwpc'[p] = "writing"
  <2>1. \A q \in Procs : rwpc[q] \notin {"reading", "writing"}
    BY <1>0, <1>2, <1>5, <1>11 DEF WriterAlone
  <2>2. writerMap' = p
    BY <1>0, <1>11, WriterIs DEF writerMap, WriterAlone
  <2>3. readersMap = {} /\ readersMap' = readersMap
    BY <1>5, <1>11, <2>1 DEF readersMap
  <2>4. Abstract!WriteLock(p)
    BY <1>3, <1>7, <2>1, <2>2, <2>3 DEF Abstract!WriteLock
  <2> QED
    BY <2>4 DEF Abstract!Next
<1>12. CASE rwpc[p] = "writing"
  <2>1. \A q \in Procs : rwpc'[q] # "writing"
    BY <1>0, <1>2, <1>5, <1>12 DEF WriterAlone
  <2>2. writerMap = p
    BY <1>0, <1>12, WriterIs DEF writerMap, WriterAlone
  <2>3. readersMap' = readersMap
    BY <1>5, <1>12
  <2>4. Abstract!WriteUnlock(p)
    BY <1>3, <1>8, <2>1, <2>2, <2>3 DEF Abstract!WriteUnlock
  <2> QED
    BY <2>4 DEF Abstract!Next
<1>13. CASE {rwpc[p], rwpc'[p]} \cap {"reading", "writing"} = {}
  <2>1. writerMap' = writerMap
    <3>1. CASE \E q \in Procs : rwpc[q] = "writing"
      BY <1>6, <1>13, <3>1
    <3>2. CASE \A q \in Procs : rwpc[q] # "writing"
      BY <1>2, <1>7, <1>8, <1>13, <3>2
    <3> QED
      BY <3>1, <3>2
  <2> QED
    BY <1>3, <1>5, <1>13, <2>1
<1> QED
  BY <1>9, <1>10, <1>11, <1>12, <1>13

\* The x86 locks implement the locks that the event system calls rely on,
\* whatever calls run at once and however many: exclusion of `lock', and one
\* holder at a time, in the order of arrival, of a wait queue's lock.
THEOREM LocksImplemented == Spec => ImplementsLocks
<1>1. Init => Abstract!Init
  <2> SUFFICES ASSUME Init PROVE Abstract!Init
    OBVIOUS
  <2>1. \A p \in Procs : rwpc[p] = "out"
    BY DEF Init, SpinlockInit
  <2>2. readersMap = {} /\ writerMap = NONE
    BY <2>1 DEF readersMap, writerMap
  <2>3. head \in Tickets /\ tail = head
    BY TicketFacts DEF Init, SpinlockInit, Tickets
  <2>4. Waiting = 0
    BY <2>3, TicketFirst, WaitingBehind
  <2>5. lineMap = <<>>
    BY <2>4, LineSeq, EmptySeq
  <2> QED
    BY <2>2, <2>5 DEF Abstract!Init
<1>2. RwInv /\ RwInv' /\ TicketInv /\ [Next]_vars
        => [Abstract!Next]_(Abstract!lvars)
  <2> SUFFICES ASSUME RwInv, RwInv', TicketInv, [Next]_vars
               PROVE  Abstract!Next
                        \/ UNCHANGED <<readersMap, writerMap, lineMap>>
    BY DEF Abstract!lvars
  <2>1. CASE UNCHANGED <<rwVars, ticketVars>>
    BY <2>1 DEF rwVars, ticketVars, readersMap, writerMap, lineMap, With,
       Waiting, Queued
  <2>2. ASSUME NEW p \in Procs, Steps(p)
        PROVE  Abstract!Next \/ UNCHANGED <<readersMap, writerMap, lineMap>>
    BY <2>2, SpinRefines, RwRefines DEF Steps
  <2> QED
    BY <2>1, <2>2 DEF Next, Start, vars
<1> QED
  BY <1>1, <1>2, RwInvariant, TicketInvariant, PTL
     DEF Spec, ImplementsLocks, Abstract!Spec

-----------------------------------------------------------------------------
(* Types *)

LEMMA ScriptsType == AllScripts \subseteq Seq(Ops)
<1>1. /\ Reads \in Seq(Ops) /\ Writes \in Seq(Ops)
      /\ Spins \in Seq(Ops) /\ TryReads \in Seq(Ops)
      /\ TryWrites \in Seq(Ops) /\ TrySpins \in Seq(Ops)
      /\ <<"write_lock">> \in Seq(Ops) /\ <<"write_unlock">> \in Seq(Ops)
  BY DEF Ops, Reads, Writes, Spins, TryReads, TryWrites, TrySpins
<1>2. doeventchown \in Seq(Ops)
  BY <1>1, ConcatProperties DEF doeventchown
<1>3. doeventsig \in Seq(Ops)
  <2>1. Reads \o Writes \in Seq(Ops)
    BY <1>1, ConcatProperties
  <2> QED
    BY <1>1, <2>1, ConcatProperties DEF doeventsig
<1>4. doeventclose \in Seq(Ops)
  <2>1. Reads \o <<"write_lock">> \in Seq(Ops)
    BY <1>1, ConcatProperties
  <2>2. (Reads \o <<"write_lock">>) \o Spins \in Seq(Ops)
    BY <1>1, <2>1, ConcatProperties
  <2> QED
    BY <1>1, <2>2, ConcatProperties DEF doeventclose
<1>5. ASSUME NEW turns \in 1 .. MaxTurns
      PROVE  doeventwait(turns) \in Seq(Ops)
  <2>1. 2 * (turns + 1) \in Nat
    BY ScriptsAssumption
  <2>2. SpinsTimes(turns + 1) \in [1 .. 2 * (turns + 1) -> Ops]
    BY DEF SpinsTimes, Ops
  <2>3. SpinsTimes(turns + 1) \in Seq(Ops)
    BY <2>1, <2>2, SeqDef
  <2> QED
    BY <1>1, <2>3, ConcatProperties DEF doeventwait
<1> QED
  BY <1>1, <1>2, <1>3, <1>4, <1>5 DEF AllScripts, doeventopen, doeventinfo

TodoType == todo \in [Procs -> Seq(Ops)]

\* What a process has still to do stays a sequence of operations.
LEMMA TodoAdvances ==
  ASSUME TodoType, NEW p \in Procs, NEW at, NEW goal, todo[p] # <<>>,
         Advances(p, at, goal)
  PROVE  TodoType'
<1>1. todo[p] \in Seq(Ops)
  BY DEF TodoType
<1>2. Tail(todo[p]) \in Seq(Ops)
  BY <1>1, HeadTailProperties
<1>3. SubSeq(todo[p], 3, Len(todo[p])) \in Seq(Ops)
  <2>1. Len(todo[p]) \in Nat
    BY <1>1, LenProperties
  <2>2. \A i \in 3 .. Len(todo[p]) : todo[p][i] \in Ops
    BY <1>1, <2>1, ElementOfSeq
  <2> QED
    BY <1>1, <2>1, <2>2, SubSeqProperties
<1>4. PICK rest \in Seq(Ops) : todo' = [todo EXCEPT ![p] = rest]
  BY <1>1, <1>2, <1>3 DEF Advances
<1> QED
  BY <1>4 DEF TodoType

LEMMA TodoInvariant == Spec => []TodoType
<1>1. Init => TodoType
  BY DEF Init, TodoType
<1>2. TodoType /\ [Next]_vars => TodoType'
  <2> SUFFICES ASSUME TodoType, [Next]_vars PROVE TodoType'
    OBVIOUS
  <2>1. CASE UNCHANGED vars
    BY <2>1 DEF vars, TodoType
  <2>2. ASSUME NEW p \in Procs, Start(p)
        PROVE  TodoType'
    BY <2>2, ScriptsType, ScriptsAssumption DEF Start, TodoType
  <2>3. ASSUME NEW p \in Procs, Steps(p)
        PROVE  TodoType'
    <3>1. todo[p] # <<>> /\ \E at, goal : Advances(p, at, goal)
      BY <2>3 DEF Steps, read, write, spin, Makes
    <3> QED
      BY <3>1, TodoAdvances
  <2> QED
    BY <2>1, <2>2, <2>3 DEF Next
<1> QED
  BY <1>1, <1>2, PTL DEF Spec

\* Whatever attempts on the rwlock are under way at once, the counter stays
\* between RW_LOCK_BIAS and what is left of it when every CPU has subtracted
\* it, so that no subl or addl overflows its int and turns the sign that keeps
\* readers out.  Tickets stay bytes, and what a process has still to lock a
\* rest of a system call's locking.
THEOREM LocksTypeOK == Spec => []TypeOK
<1>1. RwInv /\ TicketInv /\ TodoType => TypeOK
  <2> SUFFICES ASSUME RwInv, TicketInv, TodoType PROVE TypeOK
    OBVIOUS
  <2>1. rw \in BIAS - BIAS * Cardinality(Procs) .. BIAS
    BY SubtractedSets, InRange DEF RwInv, CounterExact
  <2> QED
    BY <2>1 DEF RwInv, RwType, TicketInv, TicketType, TodoType, TypeOK,
       SpinlockTypeOK
<1> QED
  BY <1>1, RwInvariant, TicketInvariant, TodoInvariant, PTL
=============================================================================
