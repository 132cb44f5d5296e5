----------------------------- MODULE EventsTypes -----------------------------
(***************************************************************************)
(* Type correctness of Events, for every number of processes, slots and    *)
(* calls.  TypeOK is inductive together with PtrOK: a process that uses    *)
(* its pointer to an event has one.  One lemma per action, and in it one   *)
(* step per group of variables that the action changes.                    *)
(***************************************************************************)
EXTENDS Events, SequenceTheorems, TLAPS

-----------------------------------------------------------------------------
(* Lists *)

\* RemoveAt shifts what follows the removed element by one.
LEMMA RemoveAtProperties ==
  ASSUME NEW S, NEW q \in Seq(S), NEW i \in 1 .. Len(q)
  PROVE  /\ RemoveAt(q, i) \in Seq(S)
         /\ Len(RemoveAt(q, i)) = Len(q) - 1
         /\ \A k \in 1 .. Len(q) - 1 :
              RemoveAt(q, i)[k] = IF k < i THEN q[k] ELSE q[k + 1]
<1> DEFINE a == SubSeq(q, 1, i - 1)
           b == SubSeq(q, i + 1, Len(q))
<1>1. Len(q) \in Nat /\ i \in Nat /\ i >= 1 /\ i <= Len(q)
  BY LenProperties
<1>2. /\ a \in Seq(S)
      /\ Len(a) = i - 1
      /\ \A k \in 1 .. i - 1 : a[k] = q[k]
  <2>1. 1 \in Int /\ i - 1 \in Int /\ \A k \in 1 .. i - 1 : q[k] \in S
    BY <1>1, ElementOfSeq
  <2>2. /\ a \in Seq(S)
        /\ Len(a) = IF 1 <= i - 1 THEN i - 1 - 1 + 1 ELSE 0
        /\ \A k \in 1 .. i - 1 - 1 + 1 : a[k] = q[1 + k - 1]
    BY <2>1, SubSeqProperties
  <2> QED
    BY <1>1, <2>2
<1>3. /\ b \in Seq(S)
      /\ Len(b) = Len(q) - i
      /\ \A k \in 1 .. Len(q) - i : b[k] = q[i + k]
  <2>1. i + 1 \in Int /\ Len(q) \in Int /\ \A k \in i + 1 .. Len(q) : q[k] \in S
    BY <1>1, ElementOfSeq
  <2>2. /\ b \in Seq(S)
        /\ Len(b) = IF i + 1 <= Len(q) THEN Len(q) - (i + 1) + 1 ELSE 0
        /\ \A k \in 1 .. Len(q) - (i + 1) + 1 : b[k] = q[(i + 1) + k - 1]
    BY <2>1, SubSeqProperties
  <2> QED
    BY <1>1, <2>2
<1> HIDE DEF a, b
<1>4. /\ a \o b \in Seq(S)
      /\ Len(a \o b) = Len(a) + Len(b)
      /\ \A k \in 1 .. Len(a) + Len(b) :
           (a \o b)[k] = IF k <= Len(a) THEN a[k] ELSE b[k - Len(a)]
  BY <1>2, <1>3, ConcatProperties
<1>5. RemoveAt(q, i) = a \o b
  BY DEF RemoveAt, a, b
<1>6. ASSUME NEW k \in 1 .. Len(q) - 1
      PROVE  (a \o b)[k] = IF k < i THEN q[k] ELSE q[k + 1]
  <2>1. (a \o b)[k] = IF k <= Len(a) THEN a[k] ELSE b[k - Len(a)]
    BY <1>1, <1>2, <1>3, <1>4
  <2>2. CASE k < i
    BY <2>1, <2>2, <1>1, <1>2
  <2>3. CASE ~(k < i)
    <3>1. k - Len(a) \in 1 .. Len(q) - i /\ ~(k <= Len(a))
      BY <2>3, <1>1, <1>2
    <3>2. b[k - Len(a)] = q[i + (k - Len(a))]
      BY <3>1, <1>3
    <3>3. i + (k - Len(a)) = k + 1
      BY <1>1, <1>2
    <3> QED
      BY <2>1, <2>3, <3>1, <3>2, <3>3
  <2> QED
    BY <2>2, <2>3
<1>7. Len(a \o b) = Len(q) - 1
  BY <1>1, <1>2, <1>3, <1>4
<1> QED
  BY <1>4, <1>5, <1>6, <1>7

\* list_del_init leaves the list as it is, or without one element.
LEMMA ListDelInit ==
  ASSUME NEW S, NEW q \in Seq(S), NEW e
  PROVE  /\ list_del_init(q, e) \in Seq(S)
         /\ \/ list_del_init(q, e) = q
            \/ /\ Len(list_del_init(q, e)) = Len(q) - 1
               /\ \E i \in 1 .. Len(q) : \A k \in 1 .. Len(q) - 1 :
                    list_del_init(q, e)[k] = IF k < i THEN q[k] ELSE q[k + 1]
<1>1. CASE ~Contains(q, e)
  BY <1>1 DEF list_del_init
<1>2. CASE Contains(q, e)
  <2> DEFINE i == CHOOSE j \in 1 .. Len(q) : q[j] = e
  <2>1. i \in 1 .. Len(q)
    BY <1>2 DEF Contains
  <2>2. list_del_init(q, e) = RemoveAt(q, i)
    BY <1>2 DEF list_del_init
  <2> HIDE DEF i
  <2> QED
    BY <2>1, <2>2, RemoveAtProperties
<1> QED
  BY <1>1, <1>2
-----------------------------------------------------------------------------
(* Types *)

\* Where a process uses its pointer to an event
HoldsEvent ==
  InWait \cup {"open_add", "open_ret", "active", "write_lock", "count",
               "set_cond", "wake_lock", "wake", "close_del", "close_free",
               "set_lock", "set_second"}

\* doeventclose, doeventwait and the others go on past the lookup only with
\* a pointer that validateEvent or validateUserEvent found not to be null.
PtrOK == \A p \in Procs : pc[p] \in HoldsEvent => ptr[p] \in Slots

\* The inductive strengthening of TypeOK
TypeInv == TypeOK /\ PtrOK

\* A group of variables that does not change keeps its types.
LEMMA WQFrame == WQTypeOK /\ UNCHANGED wqVars => WQTypeOK'
  BY DEF WQTypeOK, wqVars
LEMMA TableFrame == TableType /\ UNCHANGED tableVars => TableType'
  BY DEF TableType, tableVars
LEMMA LockFrame == LockType /\ UNCHANGED lockVars => LockType'
  BY DEF LockType, lockVars
LEMMA LocalFrame == LocalType /\ UNCHANGED localVars => LocalType'
  BY DEF LocalType, localVars
LEMMA GhostFrame == GhostType /\ UNCHANGED ghostVars => GhostType'
  BY DEF GhostType, ghostVars

\* Entering a system call sets call and arg, and returning sets retVal.
LEMMA EnterType ==
  ASSUME LocalType, NEW p \in Procs, NEW c \in SysCalls,
         NEW a \in [id: Int, a: Int, b: Int], Enter(p, c, a)
  PROVE  /\ call' \in [Procs -> SysCalls]
         /\ arg' \in [Procs -> [id: Int, a: Int, b: Int]]
  BY DEF LocalType, Enter

LEMMA ReturnsType ==
  ASSUME TypeOK, NEW p \in Procs, NEW r \in Int, Returns(p, r)
  PROVE  /\ retVal' \in [Procs -> Int]
         /\ pc' \in [Procs -> PCs]
         /\ pc'[p] = "return"
         /\ \A q \in Procs \ {p} : pc'[q] = pc[q]
  BY DEF TypeOK, LocalType, Returns, PCs

\* What list_for_each leaves in waitEvent is a listed event or null.
LEMMA FoundType ==
  ASSUME TypeOK, NEW id, NEW s \in Found(id)
  PROVE  s \in Slots \cup {NONE}
<1>1. CASE s = NONE
  BY <1>1
<1>2. CASE s # NONE
  <2>1. PICK i \in 1 .. Len(evlist) : s = evlist[i]
    BY <1>2 DEF Found
  <2> QED
    BY <2>1, ElementOfSeq DEF TypeOK, TableType
<1> QED
  BY <1>1, <1>2

\* A step of p can break PtrOK only at p.
LEMMA PtrMoves ==
  ASSUME TypeInv, NEW p \in Procs,
         \A q \in Procs \ {p} : pc'[q] = pc[q] /\ ptr'[q] = ptr[q],
         pc'[p] \in HoldsEvent => ptr'[p] \in Slots
  PROVE  PtrOK'
  BY DEF TypeInv, PtrOK

\* Wherever the counting loop is, the next node is a node.
LEMMA NextNodeType ==
  ASSUME TypeOK, NEW n \in Procs \cup Slots \cup {NONE}
  PROVE  NextNode(n) \in Procs \cup Slots \cup {NONE}
<1>1. CASE n \in Slots
  <2>1. queue[n] \in Seq(Procs)
    BY <1>1 DEF TypeOK, WQTypeOK
  <2>2. waitqueue_active(n) => Head(queue[n]) \in Procs
    BY <2>1, HeadTailProperties DEF waitqueue_active
  <2> QED
    BY <1>1, <2>2 DEF NextNode
<1>2. CASE n \notin Slots /\ Unlinked(n)
  BY <1>2 DEF NextNode
<1>3. CASE n \notin Slots /\ ~Unlinked(n)
  <2> DEFINE s == CHOOSE t \in Slots : Contains(queue[t], n)
             i == CHOOSE j \in 1 .. Len(queue[s]) : queue[s][j] = n
  <2>1. s \in Slots /\ Contains(queue[s], n)
    BY <1>3 DEF Unlinked
  <2>2. queue[s] \in Seq(Procs)
    BY <2>1 DEF TypeOK, WQTypeOK
  <2>3. i \in 1 .. Len(queue[s])
    BY <2>1 DEF Contains
  <2>4. NextNode(n) = IF i = Len(queue[s]) THEN s ELSE queue[s][i + 1]
    BY <1>3 DEF NextNode
  <2> HIDE DEF s, i
  <2>5. i # Len(queue[s]) => i + 1 \in 1 .. Len(queue[s])
    BY <2>2, <2>3, LenProperties
  <2>6. i # Len(queue[s]) => queue[s][i + 1] \in Procs
    BY <2>2, <2>5, ElementOfSeq
  <2> QED
    BY <2>1, <2>4, <2>6
<1> QED
  BY <1>1, <1>2, <1>3

\* The end of a lookup
LEMMA TypeGoesOn ==
  ASSUME TypeInv, NEW p \in Procs, NEW s \in Slots \cup {NONE}, NEW valid,
         NEW to \in HoldsEvent, valid => s # NONE, GoesOn(p, s, valid, to)
  PROVE  /\ ptr' \in [Procs -> Slots \cup {NONE}]
         /\ retVal' \in [Procs -> Int]
         /\ pc' \in [Procs -> PCs]
         /\ PtrOK'
<1>1. ptr' = [ptr EXCEPT ![p] = s]
  BY DEF GoesOn
<1>2. CASE valid /\ Goto(p, "user", to) /\ UNCHANGED retVal
  <2>1. pc' = [pc EXCEPT ![p] = to] /\ to \in PCs
    BY <1>2 DEF Goto, HoldsEvent, InWait, PCs
  <2>2. pc'[p] = to /\ \A q \in Procs \ {p} : pc'[q] = pc[q]
    BY <2>1 DEF TypeInv, TypeOK
  <2>3. ptr'[p] = s /\ \A q \in Procs \ {p} : ptr'[q] = ptr[q]
    BY <1>1 DEF TypeInv, TypeOK, LocalType
  <2>4. PtrOK'
    BY <1>2, <2>2, <2>3, PtrMoves
  <2> QED
    BY <1>1, <1>2, <2>1, <2>4 DEF TypeInv, TypeOK, LocalType
<1>3. CASE Returns(p, -1)
  <2>1. /\ retVal' \in [Procs -> Int]
        /\ pc' \in [Procs -> PCs]
        /\ pc'[p] = "return"
        /\ \A q \in Procs \ {p} : pc'[q] = pc[q]
    BY <1>3, ReturnsType DEF TypeInv
  <2>2. \A q \in Procs \ {p} : ptr'[q] = ptr[q]
    BY <1>1 DEF TypeInv, TypeOK, LocalType
  <2>3. PtrOK'
    BY <2>1, <2>2, PtrMoves DEF HoldsEvent, InWait
  <2> QED
    BY <1>1, <2>1, <2>3 DEF TypeInv, TypeOK, LocalType
<1> QED
  BY <1>2, <1>3 DEF GoesOn

LEMMA TypeReturns ==
  ASSUME TypeInv, NEW p \in Procs, NEW r \in Int, Returns(p, r),
         UNCHANGED ptr
  PROVE  /\ retVal' \in [Procs -> Int]
         /\ pc' \in [Procs -> PCs]
         /\ PtrOK'
<1>1. /\ retVal' \in [Procs -> Int]
      /\ pc' \in [Procs -> PCs]
      /\ pc'[p] = "return"
      /\ \A q \in Procs \ {p} : pc'[q] = pc[q]
  BY ReturnsType DEF TypeInv
<1>2. PtrOK'
  BY <1>1, PtrMoves DEF HoldsEvent, InWait
<1> QED
  BY <1>1, <1>2

\* doeventclose, doeventsig and doeventwait, up to the unlock
LEMMA TypeLookupValidated ==
  ASSUME TypeInv, NEW p \in Procs, NEW c \in SysCalls, NEW to \in HoldsEvent,
         LookupValidated(p, c, to)
  PROVE  TypeInv'
<1>1. UNCHANGED <<wqVars, tableVars, lockVars, ghostVars>>
      /\ UNCHANGED <<process, cursor, buf>>
  BY DEF LookupValidated
<1>2. PICK id \in Ids :
        /\ Enter(p, c, [NoArg EXCEPT !.id = id])
        /\ \/ isValidEventId(id) /\ Returns(p, -1) /\ UNCHANGED ptr
           \/ /\ ~isValidEventId(id)
              /\ CanRead
              /\ \E s \in Found(id) : GoesOn(p, s, validateEvent(p, s), to)
  BY DEF LookupValidated
<1>3. [NoArg EXCEPT !.id = id] \in [id: Int, a: Int, b: Int]
  BY ConstantsAssumption DEF NoArg
<1>4. /\ call' \in [Procs -> SysCalls]
      /\ arg' \in [Procs -> [id: Int, a: Int, b: Int]]
  BY <1>2, <1>3, EnterType DEF TypeInv, TypeOK
<1>5. /\ ptr' \in [Procs -> Slots \cup {NONE}]
      /\ retVal' \in [Procs -> Int]
      /\ pc' \in [Procs -> PCs]
      /\ PtrOK'
  <2>1. CASE Returns(p, -1) /\ UNCHANGED ptr
    BY <2>1, TypeReturns DEF TypeInv, TypeOK, LocalType
  <2>2. CASE \E s \in Found(id) : GoesOn(p, s, validateEvent(p, s), to)
    <3>1. PICK s \in Found(id) : GoesOn(p, s, validateEvent(p, s), to)
      BY <2>2
    <3>2. s \in Slots \cup {NONE}
      BY FoundType DEF TypeInv
    <3>3. validateEvent(p, s) => s # NONE
      BY DEF validateEvent
    <3> QED
      BY <3>1, <3>2, <3>3, TypeGoesOn
  <2> QED
    BY <1>2, <2>1, <2>2
<1>6. LocalType'
  BY <1>1, <1>4, <1>5 DEF TypeInv, TypeOK, LocalType
<1> QED
  BY <1>1, <1>5, <1>6, WQFrame, TableFrame, LockFrame, GhostFrame
     DEF TypeInv, TypeOK

LEMMA TypeCorrupts ==
  ASSUME TypeInv, Corrupts
  PROVE  TypeInv'
<1>1. UNCHANGED <<wqVars, tableVars, lockVars, localVars, pc>>
  BY DEF Corrupts
<1>2. GhostType'
  BY DEF Corrupts, TypeInv, TypeOK, GhostType
<1>3. PtrOK'
  BY <1>1 DEF TypeInv, PtrOK, localVars
<1> QED
  BY <1>1, <1>2, <1>3, WQFrame, TableFrame, LockFrame, LocalFrame
     DEF TypeInv, TypeOK

\* doeventchown and doeventchmod, up to the unlock
LEMMA TypeLookupOwned ==
  ASSUME TypeInv, NEW p \in Procs, NEW c \in SysCalls,
         NEW Pairs \in SUBSET (Int \X Int), LookupOwned(p, c, Pairs)
  PROVE  TypeInv'
<1>1. CASE Corrupts
  BY <1>1, TypeCorrupts
<1>2. CASE ~Corrupts
  <2>1. UNCHANGED <<wqVars, tableVars, lockVars, ghostVars>>
        /\ UNCHANGED <<process, cursor, buf>>
    BY <1>2 DEF LookupOwned
  <2>2. PICK id \in Ids, v \in Pairs :
          /\ Enter(p, c, [id |-> id, a |-> v[1], b |-> v[2]])
          /\ \/ isValidEventId(id) /\ Returns(p, -1) /\ UNCHANGED ptr
             \/ /\ ~isValidEventId(id)
                /\ CanRead
                /\ \E s \in Candidates(p, id) :
                     GoesOn(p, s, validateUserEvent(p, s), "set_lock")
    BY <1>2 DEF LookupOwned
  <2>3. [id |-> id, a |-> v[1], b |-> v[2]] \in [id: Int, a: Int, b: Int]
    BY ConstantsAssumption
  <2>4. /\ call' \in [Procs -> SysCalls]
        /\ arg' \in [Procs -> [id: Int, a: Int, b: Int]]
    BY <2>2, <2>3, EnterType DEF TypeInv, TypeOK
  <2>5. /\ ptr' \in [Procs -> Slots \cup {NONE}]
        /\ retVal' \in [Procs -> Int]
        /\ pc' \in [Procs -> PCs]
        /\ PtrOK'
    <3>1. CASE Returns(p, -1) /\ UNCHANGED ptr
      BY <3>1, TypeReturns DEF TypeInv, TypeOK, LocalType
    <3>2. CASE \E s \in Candidates(p, id) :
                 GoesOn(p, s, validateUserEvent(p, s), "set_lock")
      <4>1. PICK s \in Candidates(p, id) :
              GoesOn(p, s, validateUserEvent(p, s), "set_lock")
        BY <3>2
      <4>2. s \in Slots \cup {NONE}
        BY FoundType
           DEF Candidates, Uninitialised, TypeInv, TypeOK, LocalType
      <4>3. validateUserEvent(p, s) => s # NONE
        BY DEF validateUserEvent
      <4>4. "set_lock" \in HoldsEvent
        BY DEF HoldsEvent
      <4> QED
        BY <4>1, <4>2, <4>3, <4>4, TypeGoesOn
    <3> QED
      BY <2>2, <3>1, <3>2
  <2>6. LocalType'
    BY <2>1, <2>4, <2>5 DEF TypeInv, TypeOK, LocalType
  <2> QED
    BY <2>1, <2>5, <2>6, WQFrame, TableFrame, LockFrame, GhostFrame
       DEF TypeInv, TypeOK
<1> QED
  BY <1>1, <1>2

-----------------------------------------------------------------------------
(* One lemma per action *)

LEMMA Type_doeventopen_kmalloc ==
  ASSUME TypeInv, NEW p \in Procs, doeventopen_kmalloc(p)
  PROVE  TypeInv'
<1>1. UNCHANGED <<wqVars, lockVars, ghostVars>>
  BY DEF doeventopen_kmalloc
<1>2. TableType'
  BY DEF doeventopen_kmalloc, TypeInv, TypeOK, TableType
<1>3. LocalType'
  <2>1. NoArg \in [id: Int, a: Int, b: Int] /\ "open" \in SysCalls
    BY DEF NoArg, SysCalls
  <2>2. Enter(p, "open", NoArg) /\ UNCHANGED <<process, cursor, buf>>
    BY DEF doeventopen_kmalloc
  <2>3. retVal' \in [Procs -> Int]
    BY DEF doeventopen_kmalloc, Returns, TypeInv, TypeOK, LocalType
  <2>4. ptr' = ptr \/ \E s \in Slots : ptr' = [ptr EXCEPT ![p] = s]
    BY DEF doeventopen_kmalloc
  <2>5. ptr' \in [Procs -> Slots \cup {NONE}]
    BY <2>4 DEF TypeInv, TypeOK, LocalType
  <2> QED
    BY <2>1, <2>2, <2>3, <2>5, EnterType DEF TypeInv, TypeOK, LocalType
<1>4. pc' \in [Procs -> PCs]
  BY DEF doeventopen_kmalloc, Enter, Goto, Returns, TypeInv, TypeOK,
     PCs, InWait
<1>5. \A q \in Procs \ {p} : pc'[q] = pc[q] /\ ptr'[q] = ptr[q]
  BY DEF doeventopen_kmalloc, Enter, Goto, Returns, TypeInv, TypeOK,
     LocalType, localVars
<1>6. pc'[p] \in HoldsEvent => ptr'[p] \in Slots
  BY DEF doeventopen_kmalloc, Enter, Goto, Returns, TypeInv, TypeOK,
     LocalType, localVars, PtrOK, HoldsEvent, InWait
<1>7. PtrOK'
  BY <1>5, <1>6, PtrMoves
<1> QED
  BY <1>1, <1>2, <1>3, <1>4, <1>7, WQFrame, LockFrame, GhostFrame DEF
     TypeInv, TypeOK

LEMMA Type_doeventopen_add ==
  ASSUME TypeInv, NEW p \in Procs, doeventopen_add(p)
  PROVE  TypeInv'
<1>1. UNCHANGED <<wqVars, lockVars, localVars>>
  BY DEF doeventopen_add, Corrupts
<1>2. TableType'
  <2>1. CASE Corrupts
    BY <2>1 DEF Corrupts, TypeInv, TypeOK, TableType, tableVars
  <2>2. CASE ~Corrupts
    <3> DEFINE s == ptr[p]
    <3>1. s \in Slots
      BY DEF doeventopen_add, TypeInv, PtrOK, HoldsEvent
    <3>2. LastId \in Int
      <4>1. CASE evlist = <<>>
        BY <4>1 DEF LastId
      <4>2. CASE evlist # <<>>
        <5>1. Len(evlist) \in 1 .. Len(evlist)
          BY <4>2, EmptySeq, LenProperties DEF TypeInv, TypeOK, TableType
        <5>2. evlist[Len(evlist)] \in Slots
          BY <5>1, ElementOfSeq DEF TypeInv, TypeOK, TableType
        <5> QED
          BY <4>2, <5>2 DEF LastId, Last, TypeInv, TypeOK, TableType, Event
      <4> QED
        BY <4>1, <4>2
    <3>3. IncInt(LastId) \in Int
      BY <3>2, ConstantsAssumption DEF IncInt
    <3>4. [id |-> IncInt(LastId), uid |-> Euid[p], gid |-> Egid[p],
           uidFlag |-> 1, gidFlag |-> 1, condition |-> 0] \in Event
      BY <3>3, ConstantsAssumption DEF Event
    <3>5. /\ evlist' = Append(evlist, s)
          /\ ev' = [ev EXCEPT ![s] =
                [id |-> IncInt(LastId), uid |-> Euid[p], gid |-> Egid[p],
                 uidFlag |-> 1, gidFlag |-> 1, condition |-> 0]]
          /\ slab' = slab
      BY <2>2 DEF doeventopen_add
    <3>6. evlist' \in Seq(Slots)
      BY <3>1, <3>5, AppendProperties DEF TypeInv, TypeOK, TableType
    <3> HIDE DEF s
    <3> QED
      BY <3>4, <3>5, <3>6 DEF TypeInv, TypeOK, TableType
  <2> QED
    BY <2>1, <2>2
<1>3. GhostType'
  <2>1. opens' = opens \/ opens' = opens + 1
    BY DEF doeventopen_add, Corrupts
  <2>2. opens' \in Nat
    BY <2>1 DEF TypeInv, TypeOK, GhostType
  <2>3. heard' = heard /\ (corrupt' = corrupt \/ corrupt' = TRUE)
    BY DEF doeventopen_add, Corrupts
  <2> QED
    BY <2>2, <2>3 DEF TypeInv, TypeOK, GhostType
<1>4. pc' \in [Procs -> PCs]
  BY DEF doeventopen_add, Goto, Corrupts, TypeInv, TypeOK, PCs, InWait
<1>5. \A q \in Procs \ {p} : pc'[q] = pc[q] /\ ptr'[q] = ptr[q]
  BY DEF doeventopen_add, Goto, Corrupts, TypeInv, TypeOK, LocalType,
     localVars
<1>6. pc'[p] \in HoldsEvent => ptr'[p] \in Slots
  BY DEF doeventopen_add, Goto, Corrupts, TypeInv, TypeOK, LocalType,
     localVars, PtrOK, HoldsEvent, InWait
<1>7. PtrOK'
  BY <1>5, <1>6, PtrMoves
<1> QED
  BY <1>1, <1>2, <1>3, <1>4, <1>7, WQFrame, LockFrame, LocalFrame DEF
     TypeInv, TypeOK

LEMMA Type_doeventopen_return ==
  ASSUME TypeInv, NEW p \in Procs, doeventopen_return(p)
  PROVE  TypeInv'
<1>1. UNCHANGED <<wqVars, tableVars, lockVars, ghostVars>>
  BY DEF doeventopen_return
<1>2. LocalType'
  <2>1. UNCHANGED <<call, arg, ptr, process, cursor, buf>>
    BY DEF doeventopen_return
  <2>2. ptr[p] \in Slots
    BY DEF doeventopen_return, TypeInv, PtrOK, HoldsEvent
  <2>3. ev[ptr[p]].id \in Int
    BY <2>2 DEF TypeInv, TypeOK, TableType, Event
  <2>4. retVal' \in [Procs -> Int]
    BY <2>3 DEF doeventopen_return, Returns, TypeInv, TypeOK, LocalType
  <2> QED
    BY <2>1, <2>4 DEF TypeInv, TypeOK, LocalType
<1>3. pc' \in [Procs -> PCs]
  BY DEF doeventopen_return, Returns, TypeInv, TypeOK, PCs, InWait
<1>4. \A q \in Procs \ {p} : pc'[q] = pc[q] /\ ptr'[q] = ptr[q]
  BY DEF doeventopen_return, Returns, TypeInv, TypeOK, LocalType,
     localVars
<1>5. pc'[p] \in HoldsEvent => ptr'[p] \in Slots
  BY DEF doeventopen_return, Returns, TypeInv, TypeOK, LocalType,
     localVars, PtrOK, HoldsEvent, InWait
<1>6. PtrOK'
  BY <1>4, <1>5, PtrMoves
<1> QED
  BY <1>1, <1>2, <1>3, <1>6, WQFrame, TableFrame, LockFrame, GhostFrame DEF
     TypeInv, TypeOK

LEMMA Type_doeventclose_lookup ==
  ASSUME TypeInv, NEW p \in Procs, doeventclose_lookup(p)
  PROVE  TypeInv'
  BY TypeLookupValidated DEF doeventclose_lookup, SysCalls, HoldsEvent

LEMMA Type_doeventsig_lookup ==
  ASSUME TypeInv, NEW p \in Procs, doeventsig_lookup(p)
  PROVE  TypeInv'
  BY TypeLookupValidated DEF doeventsig_lookup, SysCalls, HoldsEvent

LEMMA Type_check_active ==
  ASSUME TypeInv, NEW p \in Procs, check_active(p)
  PROVE  TypeInv'
<1>1. UNCHANGED <<wqVars, tableVars, lockVars, ghostVars>>
  BY DEF check_active
<1>2. LocalType'
  <2>1. UNCHANGED <<call, arg, ptr, cursor, buf>>
    BY DEF check_active
  <2>2. process' \in [Procs -> Int] /\ retVal' \in [Procs -> Int]
    BY DEF check_active, Returns, TypeInv, TypeOK, LocalType
  <2> QED
    BY <2>1, <2>2 DEF TypeInv, TypeOK, LocalType
<1>3. pc' \in [Procs -> PCs]
  BY DEF check_active, Goto, Returns, TypeInv, TypeOK, PCs, InWait
<1>4. \A q \in Procs \ {p} : pc'[q] = pc[q] /\ ptr'[q] = ptr[q]
  BY DEF check_active, Goto, Returns, TypeInv, TypeOK, LocalType,
     localVars
<1>5. pc'[p] \in HoldsEvent => ptr'[p] \in Slots
  BY DEF check_active, Goto, Returns, TypeInv, TypeOK, LocalType,
     localVars, PtrOK, HoldsEvent, InWait
<1>6. PtrOK'
  BY <1>4, <1>5, PtrMoves
<1> QED
  BY <1>1, <1>2, <1>3, <1>6, WQFrame, TableFrame, LockFrame, GhostFrame DEF
     TypeInv, TypeOK

LEMMA Type_take_write_lock ==
  ASSUME TypeInv, NEW p \in Procs, take_write_lock(p)
  PROVE  TypeInv'
<1>1. UNCHANGED <<wqVars, tableVars, ghostVars>>
  BY DEF take_write_lock
<1>2. LockType'
  BY DEF take_write_lock, TypeInv, TypeOK, LockType
<1>3. LocalType'
  <2>1. UNCHANGED <<call, arg, ptr, buf, retVal>>
    BY DEF take_write_lock
  <2>2. ptr[p] \in Slots
    BY DEF take_write_lock, Goto, TypeInv, PtrOK, HoldsEvent
  <2>3. process' \in [Procs -> Int]
    BY DEF take_write_lock, TypeInv, TypeOK, LocalType
  <2>4. cursor' \in [Procs -> Procs \cup Slots \cup {NONE}]
    BY <2>2 DEF take_write_lock, TypeInv, TypeOK, LocalType
  <2> QED
    BY <2>1, <2>3, <2>4 DEF TypeInv, TypeOK, LocalType
<1>4. pc' \in [Procs -> PCs]
  BY DEF take_write_lock, Goto, TypeInv, TypeOK, PCs, InWait
<1>5. \A q \in Procs \ {p} : pc'[q] = pc[q] /\ ptr'[q] = ptr[q]
  BY DEF take_write_lock, Goto, TypeInv, TypeOK, LocalType, localVars
<1>6. pc'[p] \in HoldsEvent => ptr'[p] \in Slots
  BY DEF take_write_lock, Goto, TypeInv, TypeOK, LocalType, localVars,
     PtrOK, HoldsEvent, InWait
<1>7. PtrOK'
  BY <1>5, <1>6, PtrMoves
<1> QED
  BY <1>1, <1>2, <1>3, <1>4, <1>7, WQFrame, TableFrame, GhostFrame DEF
     TypeInv, TypeOK

LEMMA Type_count_waiter ==
  ASSUME TypeInv, NEW p \in Procs, count_waiter(p)
  PROVE  TypeInv'
<1>1. UNCHANGED <<wqVars, tableVars, lockVars, ghostVars>>
  BY DEF count_waiter
<1>2. LocalType'
  <2>1. UNCHANGED <<call, arg, ptr, buf, retVal>>
    BY DEF count_waiter
  <2>2. process' \in [Procs -> Int]
    <3>1. process \in [Procs -> Int]
      BY DEF TypeInv, TypeOK, LocalType
    <3>2. IncInt(process[p]) \in Int
      BY <3>1, ConstantsAssumption DEF IncInt
    <3>3. \/ process' = process
          \/ process' = [process EXCEPT ![p] = IncInt(process[p])]
      BY DEF count_waiter
    <3> QED
      BY <3>1, <3>2, <3>3
  <2>3. NextNode(cursor[p]) \in Procs \cup Slots \cup {NONE}
    BY NextNodeType DEF TypeInv, TypeOK, LocalType
  <2>4. cursor' \in [Procs -> Procs \cup Slots \cup {NONE}]
    BY <2>3 DEF count_waiter, TypeInv, TypeOK, LocalType
  <2> QED
    BY <2>1, <2>2, <2>4 DEF TypeInv, TypeOK, LocalType
<1>3. pc' \in [Procs -> PCs]
  BY DEF count_waiter, Goto, TypeInv, TypeOK, PCs, InWait
<1>4. \A q \in Procs \ {p} : pc'[q] = pc[q] /\ ptr'[q] = ptr[q]
  BY DEF count_waiter, Goto, TypeInv, TypeOK, LocalType, localVars
<1>5. pc'[p] \in HoldsEvent => ptr'[p] \in Slots
  BY DEF count_waiter, Goto, TypeInv, TypeOK, LocalType, localVars,
     PtrOK, HoldsEvent, InWait
<1>6. PtrOK'
  BY <1>4, <1>5, PtrMoves
<1> QED
  BY <1>1, <1>2, <1>3, <1>6, WQFrame, TableFrame, LockFrame, GhostFrame DEF
     TypeInv, TypeOK

LEMMA Type_set_condition ==
  ASSUME TypeInv, NEW p \in Procs, set_condition(p)
  PROVE  TypeInv'
<1>1. UNCHANGED <<wqVars, localVars>>
  BY DEF set_condition
<1>2. TableType'
  <2>1. UNCHANGED <<evlist, slab>>
    BY DEF set_condition
  <2>2. ev' = [ev EXCEPT ![ptr[p]].condition = 1]
    BY DEF set_condition
  <2>3. ev' \in [Slots -> Event]
    BY <2>2 DEF TypeInv, TypeOK, TableType, Event
  <2> QED
    BY <2>1, <2>3 DEF TypeInv, TypeOK, TableType
<1>3. LockType'
  BY DEF set_condition, TypeInv, TypeOK, LockType
<1>4. GhostType'
  BY DEF set_condition, TypeInv, TypeOK, GhostType
<1>5. pc' \in [Procs -> PCs]
  BY DEF set_condition, Goto, TypeInv, TypeOK, PCs, InWait
<1>6. \A q \in Procs \ {p} : pc'[q] = pc[q] /\ ptr'[q] = ptr[q]
  BY DEF set_condition, Goto, TypeInv, TypeOK, LocalType, localVars
<1>7. pc'[p] \in HoldsEvent => ptr'[p] \in Slots
  BY DEF set_condition, Goto, TypeInv, TypeOK, LocalType, localVars,
     PtrOK, HoldsEvent, InWait
<1>8. PtrOK'
  BY <1>6, <1>7, PtrMoves
<1> QED
  BY <1>1, <1>2, <1>3, <1>4, <1>5, <1>8, WQFrame, LocalFrame DEF TypeInv,
     TypeOK

LEMMA Type_wake_begin ==
  ASSUME TypeInv, NEW p \in Procs, wake_begin(p)
  PROVE  TypeInv'
<1>1. UNCHANGED <<tableVars, lockVars, localVars, ghostVars>>
  BY DEF wake_begin
<1>2. WQTypeOK'
  <2>1. ptr[p] \in Slots
    BY DEF wake_begin, Goto, TypeInv, PtrOK, HoldsEvent
  <2>2. /\ qlock' = [qlock EXCEPT ![ptr[p]] = p]
        /\ todo' = [todo EXCEPT ![p] = queue[ptr[p]]]
        /\ UNCHANGED <<queue, state, onRq, sigPending>>
    BY DEF wake_begin, wake_up_lock
  <2>3. queue[ptr[p]] \in Seq(Procs)
    BY <2>1 DEF TypeInv, TypeOK, WQTypeOK
  <2> QED
    BY <2>2, <2>3 DEF TypeInv, TypeOK, WQTypeOK
<1>3. pc' \in [Procs -> PCs]
  BY DEF wake_begin, Goto, TypeInv, TypeOK, PCs, InWait
<1>4. \A q \in Procs \ {p} : pc'[q] = pc[q] /\ ptr'[q] = ptr[q]
  BY DEF wake_begin, Goto, TypeInv, TypeOK, LocalType, localVars
<1>5. pc'[p] \in HoldsEvent => ptr'[p] \in Slots
  BY DEF wake_begin, Goto, TypeInv, TypeOK, LocalType, localVars,
     PtrOK, HoldsEvent, InWait
<1>6. PtrOK'
  BY <1>4, <1>5, PtrMoves
<1> QED
  BY <1>1, <1>2, <1>3, <1>6, TableFrame, LockFrame, LocalFrame, GhostFrame
     DEF TypeInv, TypeOK

LEMMA Type_wake_one ==
  ASSUME TypeInv, NEW p \in Procs, wake_one(p)
  PROVE  TypeInv'
<1>1. UNCHANGED <<tableVars, lockVars, localVars, ghostVars>>
  BY DEF wake_one
<1>2. WQTypeOK'
  <2> DEFINE t == Head(todo[p])
  <2>1. todo[p] \in Seq(Procs) /\ todo[p] # <<>>
    BY DEF wake_one, wake_up_next, TypeInv, TypeOK, WQTypeOK
  <2>2. t \in Procs /\ Tail(todo[p]) \in Seq(Procs)
    BY <2>1, HeadTailProperties
  <2>3. /\ try_to_wake_up(t)
        /\ queue' = IF Wakes(t)
                      THEN [u \in Slots |-> list_del_init(queue[u], t)]
                      ELSE queue
        /\ todo' = [todo EXCEPT ![p] = Tail(@)]
        /\ UNCHANGED <<qlock, sigPending>>
    BY DEF wake_one, wake_up_next
  <2> HIDE DEF t
  <2>4. \A u \in Slots : list_del_init(queue[u], t) \in Seq(Procs)
    BY ListDelInit DEF TypeInv, TypeOK, WQTypeOK
  <2>5. queue' \in [Slots -> Seq(Procs)]
    BY <2>3, <2>4 DEF TypeInv, TypeOK, WQTypeOK
  <2>6. /\ state' \in [Procs -> {"RUNNING", "INTERRUPTIBLE"}]
        /\ onRq' \in [Procs -> BOOLEAN]
    BY <2>3 DEF try_to_wake_up, TypeInv, TypeOK, WQTypeOK
  <2>7. todo' \in [Procs -> Seq(Procs)]
    BY <2>2, <2>3 DEF TypeInv, TypeOK, WQTypeOK
  <2> QED
    BY <2>3, <2>5, <2>6, <2>7 DEF TypeInv, TypeOK, WQTypeOK
<1>3. pc' \in [Procs -> PCs]
  BY DEF wake_one, TypeInv, TypeOK, PCs, InWait
<1>4. \A q \in Procs \ {p} : pc'[q] = pc[q] /\ ptr'[q] = ptr[q]
  BY DEF wake_one, TypeInv, TypeOK, LocalType, localVars
<1>5. pc'[p] \in HoldsEvent => ptr'[p] \in Slots
  BY DEF wake_one, TypeInv, TypeOK, LocalType, localVars, PtrOK,
     HoldsEvent, InWait
<1>6. PtrOK'
  BY <1>4, <1>5, PtrMoves
<1> QED
  BY <1>1, <1>2, <1>3, <1>6, TableFrame, LockFrame, LocalFrame, GhostFrame
     DEF TypeInv, TypeOK

LEMMA Type_wake_end ==
  ASSUME TypeInv, NEW p \in Procs, wake_end(p)
  PROVE  TypeInv'
<1>1. UNCHANGED <<tableVars, lockVars, ghostVars>>
  BY DEF wake_end
<1>2. WQTypeOK'
  BY DEF wake_end, wake_up_unlock, TypeInv, TypeOK, WQTypeOK
<1>3. LocalType'
  BY DEF wake_end, Returns, TypeInv, TypeOK, LocalType
<1>4. pc' \in [Procs -> PCs]
  BY DEF wake_end, Goto, Returns, TypeInv, TypeOK, PCs, InWait
<1>5. \A q \in Procs \ {p} : pc'[q] = pc[q] /\ ptr'[q] = ptr[q]
  BY DEF wake_end, Goto, Returns, TypeInv, TypeOK, LocalType, localVars
<1>6. pc'[p] \in HoldsEvent => ptr'[p] \in Slots
  BY DEF wake_end, Goto, Returns, TypeInv, TypeOK, LocalType,
     localVars, PtrOK, HoldsEvent, InWait
<1>7. PtrOK'
  BY <1>5, <1>6, PtrMoves
<1> QED
  BY <1>1, <1>2, <1>3, <1>4, <1>7, TableFrame, LockFrame, GhostFrame DEF
     TypeInv, TypeOK

LEMMA Type_doeventclose_del ==
  ASSUME TypeInv, NEW p \in Procs, doeventclose_del(p)
  PROVE  TypeInv'
<1>1. UNCHANGED <<wqVars, localVars, ghostVars>>
  BY DEF doeventclose_del
<1>2. TableType'
  BY ConstantsAssumption, ListDelInit DEF doeventclose_del, TypeInv, TypeOK,
     TableType
<1>3. LockType'
  BY DEF doeventclose_del, TypeInv, TypeOK, LockType
<1>4. pc' \in [Procs -> PCs]
  BY DEF doeventclose_del, Goto, TypeInv, TypeOK, PCs, InWait
<1>5. \A q \in Procs \ {p} : pc'[q] = pc[q] /\ ptr'[q] = ptr[q]
  BY DEF doeventclose_del, Goto, TypeInv, TypeOK, LocalType, localVars
<1>6. pc'[p] \in HoldsEvent => ptr'[p] \in Slots
  BY DEF doeventclose_del, Goto, TypeInv, TypeOK, LocalType, localVars,
     PtrOK, HoldsEvent, InWait
<1>7. PtrOK'
  BY <1>5, <1>6, PtrMoves
<1> QED
  BY <1>1, <1>2, <1>3, <1>4, <1>7, WQFrame, LocalFrame, GhostFrame DEF
     TypeInv, TypeOK

LEMMA Type_doeventclose_free ==
  ASSUME TypeInv, NEW p \in Procs, doeventclose_free(p)
  PROVE  TypeInv'
<1>1. UNCHANGED <<wqVars, lockVars>>
  BY DEF doeventclose_free, Corrupts
<1>2. TableType'
  <2>1. CASE Corrupts
    BY <2>1 DEF Corrupts, TypeInv, TypeOK, TableType, tableVars
  <2>2. CASE ~Corrupts
    <3> DEFINE s == ptr[p]
    <3>1. s \in Slots
      BY DEF doeventclose_free, TypeInv, PtrOK, HoldsEvent
    <3>2. /\ ev' = [ev EXCEPT ![s].id = FreePtr[1], ![s].uid = FreePtr[2]]
          /\ slab' = [slab EXCEPT ![s] = "free"]
          /\ evlist' = evlist
      BY <2>2 DEF doeventclose_free
    <3>3. FreePtr[1] \in Int /\ FreePtr[2] \in Int
      BY ConstantsAssumption
    <3> HIDE DEF s
    <3>4. ev' \in [Slots -> Event]
      <4>1. ev \in [Slots -> Event]
        BY DEF TypeInv, TypeOK, TableType
      <4>2. ev[s] \in Event
        BY <3>1, <4>1
      <4>3. ev' = [ev EXCEPT ![s] =
                     [ev[s] EXCEPT !.id = FreePtr[1], !.uid = FreePtr[2]]]
        BY <3>2, <4>1, <4>2 DEF Event
      <4>4. [ev[s] EXCEPT !.id = FreePtr[1], !.uid = FreePtr[2]] \in Event
        BY <3>3, <4>2 DEF Event
      <4> QED
        BY <4>1, <4>3, <4>4
    <3> QED
      BY <3>2, <3>4 DEF TypeInv, TypeOK, TableType
  <2> QED
    BY <2>1, <2>2
<1>3. LocalType'
  BY DEF doeventclose_free, Returns, Corrupts, localVars, TypeInv, TypeOK,
     LocalType
<1>4. GhostType'
  BY DEF doeventclose_free, Corrupts, ghostVars, TypeInv, TypeOK, GhostType
<1>5. pc' \in [Procs -> PCs]
  BY DEF doeventclose_free, Returns, Corrupts, TypeInv, TypeOK, PCs,
     InWait
<1>6. \A q \in Procs \ {p} : pc'[q] = pc[q] /\ ptr'[q] = ptr[q]
  BY DEF doeventclose_free, Returns, Corrupts, TypeInv, TypeOK,
     LocalType, localVars
<1>7. pc'[p] \in HoldsEvent => ptr'[p] \in Slots
  BY DEF doeventclose_free, Returns, Corrupts, TypeInv, TypeOK,
     LocalType, localVars, PtrOK, HoldsEvent, InWait
<1>8. PtrOK'
  BY <1>6, <1>7, PtrMoves
<1> QED
  BY <1>1, <1>2, <1>3, <1>4, <1>5, <1>8, WQFrame, LockFrame DEF TypeInv,
     TypeOK

LEMMA Type_doeventwait_lookup ==
  ASSUME TypeInv, NEW p \in Procs, doeventwait_lookup(p)
  PROVE  TypeInv'
  BY TypeLookupValidated DEF doeventwait_lookup, SysCalls, HoldsEvent,
     InWait

LEMMA Type_doeventwait_reset ==
  ASSUME TypeInv, NEW p \in Procs, doeventwait_reset(p)
  PROVE  TypeInv'
<1>1. UNCHANGED <<wqVars, lockVars, localVars>>
  BY DEF doeventwait_reset
<1>2. TableType'
  <2>1. UNCHANGED <<evlist, slab>>
    BY DEF doeventwait_reset
  <2>2. ev' = [ev EXCEPT ![ptr[p]].condition = 0]
    BY DEF doeventwait_reset
  <2>3. ev' \in [Slots -> Event]
    BY <2>2 DEF TypeInv, TypeOK, TableType, Event
  <2> QED
    BY <2>1, <2>3 DEF TypeInv, TypeOK, TableType
<1>3. GhostType'
  BY DEF doeventwait_reset, TypeInv, TypeOK, GhostType
<1>4. pc' \in [Procs -> PCs]
  BY DEF doeventwait_reset, Goto, TypeInv, TypeOK, PCs, InWait
<1>5. \A q \in Procs \ {p} : pc'[q] = pc[q] /\ ptr'[q] = ptr[q]
  BY DEF doeventwait_reset, Goto, TypeInv, TypeOK, LocalType, localVars
<1>6. pc'[p] \in HoldsEvent => ptr'[p] \in Slots
  BY DEF doeventwait_reset, Goto, TypeInv, TypeOK, LocalType,
     localVars, PtrOK, HoldsEvent, InWait
<1>7. PtrOK'
  BY <1>5, <1>6, PtrMoves
<1> QED
  BY <1>1, <1>2, <1>3, <1>4, <1>7, WQFrame, LockFrame, LocalFrame DEF
     TypeInv, TypeOK

LEMMA Type_doeventwait_first ==
  ASSUME TypeInv, NEW p \in Procs, doeventwait_first(p)
  PROVE  TypeInv'
<1>1. UNCHANGED <<wqVars, tableVars, lockVars, ghostVars>>
  BY DEF doeventwait_first
<1>2. LocalType'
  <2>1. UNCHANGED <<call, arg, ptr, process, cursor, buf>>
    BY DEF doeventwait_first
  <2>2. retVal' \in [Procs -> Int]
    BY DEF doeventwait_first, Returns, TypeInv, TypeOK, LocalType
  <2> QED
    BY <2>1, <2>2 DEF TypeInv, TypeOK, LocalType
<1>3. pc' \in [Procs -> PCs]
  BY DEF doeventwait_first, Goto, Returns, TypeInv, TypeOK, PCs, InWait
<1>4. \A q \in Procs \ {p} : pc'[q] = pc[q] /\ ptr'[q] = ptr[q]
  BY DEF doeventwait_first, Goto, Returns, TypeInv, TypeOK, LocalType,
     localVars
<1>5. pc'[p] \in HoldsEvent => ptr'[p] \in Slots
  BY DEF doeventwait_first, Goto, Returns, TypeInv, TypeOK, LocalType,
     localVars, PtrOK, HoldsEvent, InWait
<1>6. PtrOK'
  BY <1>4, <1>5, PtrMoves
<1> QED
  BY <1>1, <1>2, <1>3, <1>6, WQFrame, TableFrame, LockFrame, GhostFrame DEF
     TypeInv, TypeOK

LEMMA Type_doeventwait_prepare ==
  ASSUME TypeInv, NEW p \in Procs, doeventwait_prepare(p)
  PROVE  TypeInv'
<1>1. UNCHANGED <<tableVars, lockVars, localVars, ghostVars>>
  BY DEF doeventwait_prepare
<1>2. WQTypeOK'
  <2>1. ptr[p] \in Slots
    BY DEF doeventwait_prepare, Goto, TypeInv, PtrOK, HoldsEvent, InWait
  <2>2. /\ queue' = IF Unlinked(p)
                      THEN [queue EXCEPT ![ptr[p]] = Cons(p, @)] ELSE queue
        /\ state' = [state EXCEPT ![p] = "INTERRUPTIBLE"]
        /\ UNCHANGED <<qlock, todo, onRq, sigPending>>
    BY DEF doeventwait_prepare, prepare_to_wait
  <2>3. queue[ptr[p]] \in Seq(Procs) /\ <<p>> \in Seq(Procs)
    BY <2>1 DEF TypeInv, TypeOK, WQTypeOK
  <2>4. Cons(p, queue[ptr[p]]) \in Seq(Procs)
    BY <2>3, ConcatProperties DEF Cons
  <2>5. queue' \in [Slots -> Seq(Procs)]
    BY <2>2, <2>4 DEF TypeInv, TypeOK, WQTypeOK
  <2> QED
    BY <2>2, <2>5 DEF TypeInv, TypeOK, WQTypeOK
<1>3. pc' \in [Procs -> PCs]
  BY DEF doeventwait_prepare, Goto, TypeInv, TypeOK, PCs, InWait
<1>4. \A q \in Procs \ {p} : pc'[q] = pc[q] /\ ptr'[q] = ptr[q]
  BY DEF doeventwait_prepare, Goto, TypeInv, TypeOK, LocalType,
     localVars
<1>5. pc'[p] \in HoldsEvent => ptr'[p] \in Slots
  BY DEF doeventwait_prepare, Goto, TypeInv, TypeOK, LocalType,
     localVars, PtrOK, HoldsEvent, InWait
<1>6. PtrOK'
  BY <1>4, <1>5, PtrMoves
<1> QED
  BY <1>1, <1>2, <1>3, <1>6, TableFrame, LockFrame, LocalFrame, GhostFrame
     DEF TypeInv, TypeOK

LEMMA Type_doeventwait_check ==
  ASSUME TypeInv, NEW p \in Procs, doeventwait_check(p)
  PROVE  TypeInv'
<1>1. UNCHANGED <<wqVars, tableVars, lockVars, localVars, ghostVars>>
  BY DEF doeventwait_check
<1>2. pc' \in [Procs -> PCs]
  BY DEF doeventwait_check, Goto, TypeInv, TypeOK, PCs, InWait
<1>3. \A q \in Procs \ {p} : pc'[q] = pc[q] /\ ptr'[q] = ptr[q]
  BY DEF doeventwait_check, Goto, TypeInv, TypeOK, LocalType, localVars
<1>4. pc'[p] \in HoldsEvent => ptr'[p] \in Slots
  BY DEF doeventwait_check, Goto, TypeInv, TypeOK, LocalType,
     localVars, PtrOK, HoldsEvent, InWait
<1>5. PtrOK'
  BY <1>3, <1>4, PtrMoves
<1> QED
  BY <1>1, <1>2, <1>5, WQFrame, TableFrame, LockFrame, LocalFrame,
     GhostFrame DEF TypeInv, TypeOK

LEMMA Type_doeventwait_schedule ==
  ASSUME TypeInv, NEW p \in Procs, doeventwait_schedule(p)
  PROVE  TypeInv'
<1>1. UNCHANGED <<tableVars, lockVars, localVars, ghostVars>>
  BY DEF doeventwait_schedule
<1>2. WQTypeOK'
  BY DEF doeventwait_schedule, schedule, TypeInv, TypeOK, WQTypeOK
<1>3. pc' \in [Procs -> PCs]
  BY DEF doeventwait_schedule, Goto, TypeInv, TypeOK, PCs, InWait
<1>4. \A q \in Procs \ {p} : pc'[q] = pc[q] /\ ptr'[q] = ptr[q]
  BY DEF doeventwait_schedule, Goto, TypeInv, TypeOK, LocalType,
     localVars
<1>5. pc'[p] \in HoldsEvent => ptr'[p] \in Slots
  BY DEF doeventwait_schedule, Goto, TypeInv, TypeOK, LocalType,
     localVars, PtrOK, HoldsEvent, InWait
<1>6. PtrOK'
  BY <1>4, <1>5, PtrMoves
<1> QED
  BY <1>1, <1>2, <1>3, <1>6, TableFrame, LockFrame, LocalFrame, GhostFrame
     DEF TypeInv, TypeOK

LEMMA Type_doeventwait_resume ==
  ASSUME TypeInv, NEW p \in Procs, doeventwait_resume(p)
  PROVE  TypeInv'
<1>1. UNCHANGED <<wqVars, tableVars, lockVars, localVars, ghostVars>>
  BY DEF doeventwait_resume
<1>2. pc' \in [Procs -> PCs]
  BY DEF doeventwait_resume, Goto, TypeInv, TypeOK, PCs, InWait
<1>3. \A q \in Procs \ {p} : pc'[q] = pc[q] /\ ptr'[q] = ptr[q]
  BY DEF doeventwait_resume, Goto, TypeInv, TypeOK, LocalType,
     localVars
<1>4. pc'[p] \in HoldsEvent => ptr'[p] \in Slots
  BY DEF doeventwait_resume, Goto, TypeInv, TypeOK, LocalType,
     localVars, PtrOK, HoldsEvent, InWait
<1>5. PtrOK'
  BY <1>3, <1>4, PtrMoves
<1> QED
  BY <1>1, <1>2, <1>5, WQFrame, TableFrame, LockFrame, LocalFrame,
     GhostFrame DEF TypeInv, TypeOK

LEMMA Type_doeventwait_finish ==
  ASSUME TypeInv, NEW p \in Procs, doeventwait_finish(p)
  PROVE  TypeInv'
<1>1. UNCHANGED <<tableVars, lockVars, ghostVars>>
  BY DEF doeventwait_finish
<1>2. WQTypeOK'
  BY DEF doeventwait_finish, finish_wait_state, TypeInv, TypeOK, WQTypeOK
<1>3. LocalType'
  <2>1. UNCHANGED <<call, arg, ptr, process, cursor, buf>>
    BY DEF doeventwait_finish
  <2>2. retVal' \in [Procs -> Int]
    BY DEF doeventwait_finish, Returns, TypeInv, TypeOK, LocalType
  <2> QED
    BY <2>1, <2>2 DEF TypeInv, TypeOK, LocalType
<1>4. pc' \in [Procs -> PCs]
  BY DEF doeventwait_finish, Goto, Returns, TypeInv, TypeOK, PCs,
     InWait
<1>5. \A q \in Procs \ {p} : pc'[q] = pc[q] /\ ptr'[q] = ptr[q]
  BY DEF doeventwait_finish, Goto, Returns, TypeInv, TypeOK, LocalType,
     localVars
<1>6. pc'[p] \in HoldsEvent => ptr'[p] \in Slots
  BY DEF doeventwait_finish, Goto, Returns, TypeInv, TypeOK, LocalType,
     localVars, PtrOK, HoldsEvent, InWait
<1>7. PtrOK'
  BY <1>5, <1>6, PtrMoves
<1> QED
  BY <1>1, <1>2, <1>3, <1>4, <1>7, TableFrame, LockFrame, GhostFrame DEF
     TypeInv, TypeOK

LEMMA Type_doeventwait_del ==
  ASSUME TypeInv, NEW p \in Procs, doeventwait_del(p)
  PROVE  TypeInv'
<1>1. UNCHANGED <<tableVars, lockVars, ghostVars>>
  BY DEF doeventwait_del
<1>2. WQTypeOK'
  BY ConstantsAssumption, ListDelInit DEF doeventwait_del, finish_wait_del,
     TypeInv, TypeOK, WQTypeOK
<1>3. LocalType'
  BY DEF doeventwait_del, Returns, TypeInv, TypeOK, LocalType
<1>4. pc' \in [Procs -> PCs]
  BY DEF doeventwait_del, Returns, TypeInv, TypeOK, PCs, InWait
<1>5. \A q \in Procs \ {p} : pc'[q] = pc[q] /\ ptr'[q] = ptr[q]
  BY DEF doeventwait_del, Returns, TypeInv, TypeOK, LocalType,
     localVars
<1>6. pc'[p] \in HoldsEvent => ptr'[p] \in Slots
  BY DEF doeventwait_del, Returns, TypeInv, TypeOK, LocalType,
     localVars, PtrOK, HoldsEvent, InWait
<1>7. PtrOK'
  BY <1>5, <1>6, PtrMoves
<1> QED
  BY <1>1, <1>2, <1>3, <1>4, <1>7, TableFrame, LockFrame, GhostFrame DEF
     TypeInv, TypeOK

LEMMA Type_doeventchown_lookup ==
  ASSUME TypeInv, NEW p \in Procs, doeventchown_lookup(p)
  PROVE  TypeInv'
  BY TypeLookupOwned, ConstantsAssumption DEF doeventchown_lookup, SysCalls

LEMMA Type_doeventchmod_lookup ==
  ASSUME TypeInv, NEW p \in Procs, doeventchmod_lookup(p)
  PROVE  TypeInv'
  BY TypeLookupOwned, ConstantsAssumption DEF doeventchmod_lookup, SysCalls

LEMMA Type_set_first ==
  ASSUME TypeInv, NEW p \in Procs, set_first(p)
  PROVE  TypeInv'
<1>1. UNCHANGED <<wqVars, localVars>>
  BY DEF set_first, Corrupts
<1>2. TableType'
  <2>1. CASE Corrupts
    BY <2>1 DEF Corrupts, TypeInv, TypeOK, TableType, tableVars
  <2>2. CASE ~Corrupts
    <3>1. UNCHANGED <<evlist, slab>>
      BY <2>2 DEF set_first
    <3>2. arg[p].a \in Int
      BY DEF TypeInv, TypeOK, LocalType
    <3>3. \/ ev' = [ev EXCEPT ![ptr[p]].uid = arg[p].a]
          \/ ev' = [ev EXCEPT ![ptr[p]].uidFlag = arg[p].a]
      BY <2>2 DEF set_first
    <3>4. ev' \in [Slots -> Event]
      <4>1. CASE ev' = [ev EXCEPT ![ptr[p]].uid = arg[p].a]
        BY <4>1, <3>2 DEF TypeInv, TypeOK, TableType, Event
      <4>2. CASE ev' = [ev EXCEPT ![ptr[p]].uidFlag = arg[p].a]
        BY <4>2, <3>2 DEF TypeInv, TypeOK, TableType, Event
      <4> QED
        BY <4>1, <4>2, <3>3
    <3> QED
      BY <3>1, <3>4 DEF TypeInv, TypeOK, TableType
  <2> QED
    BY <2>1, <2>2
<1>3. LockType'
  BY DEF set_first, Corrupts, lockVars, TypeInv, TypeOK, LockType
<1>4. GhostType'
  BY DEF set_first, Corrupts, ghostVars, TypeInv, TypeOK, GhostType
<1>5. pc' \in [Procs -> PCs]
  BY DEF set_first, Goto, Corrupts, TypeInv, TypeOK, PCs, InWait
<1>6. \A q \in Procs \ {p} : pc'[q] = pc[q] /\ ptr'[q] = ptr[q]
  BY DEF set_first, Goto, Corrupts, TypeInv, TypeOK, LocalType,
     localVars
<1>7. pc'[p] \in HoldsEvent => ptr'[p] \in Slots
  BY DEF set_first, Goto, Corrupts, TypeInv, TypeOK, LocalType,
     localVars, PtrOK, HoldsEvent, InWait
<1>8. PtrOK'
  BY <1>6, <1>7, PtrMoves
<1> QED
  BY <1>1, <1>2, <1>3, <1>4, <1>5, <1>8, WQFrame, LocalFrame DEF TypeInv,
     TypeOK

LEMMA Type_set_second ==
  ASSUME TypeInv, NEW p \in Procs, set_second(p)
  PROVE  TypeInv'
<1>1. UNCHANGED <<wqVars, ghostVars>>
  BY DEF set_second
<1>2. TableType'
  <2>1. UNCHANGED <<evlist, slab>>
    BY DEF set_second
  <2>2. arg[p].b \in Int
    BY DEF TypeInv, TypeOK, LocalType
  <2>3. \/ ev' = [ev EXCEPT ![ptr[p]].gid = arg[p].b]
        \/ ev' = [ev EXCEPT ![ptr[p]].gidFlag = arg[p].b]
    BY DEF set_second
  <2>4. ev' \in [Slots -> Event]
    <3>1. CASE ev' = [ev EXCEPT ![ptr[p]].gid = arg[p].b]
      BY <3>1, <2>2 DEF TypeInv, TypeOK, TableType, Event
    <3>2. CASE ev' = [ev EXCEPT ![ptr[p]].gidFlag = arg[p].b]
      BY <3>2, <2>2 DEF TypeInv, TypeOK, TableType, Event
    <3> QED
      BY <3>1, <3>2, <2>3
  <2> QED
    BY <2>1, <2>4 DEF TypeInv, TypeOK, TableType
<1>3. LockType'
  BY DEF set_second, TypeInv, TypeOK, LockType
<1>4. LocalType'
  <2>1. UNCHANGED <<call, arg, ptr, process, cursor, buf>>
    BY DEF set_second
  <2>2. retVal' \in [Procs -> Int]
    BY DEF set_second, Returns, TypeInv, TypeOK, LocalType
  <2> QED
    BY <2>1, <2>2 DEF TypeInv, TypeOK, LocalType
<1>5. pc' \in [Procs -> PCs]
  BY DEF set_second, Returns, TypeInv, TypeOK, PCs, InWait
<1>6. \A q \in Procs \ {p} : pc'[q] = pc[q] /\ ptr'[q] = ptr[q]
  BY DEF set_second, Returns, TypeInv, TypeOK, LocalType, localVars
<1>7. pc'[p] \in HoldsEvent => ptr'[p] \in Slots
  BY DEF set_second, Returns, TypeInv, TypeOK, LocalType, localVars,
     PtrOK, HoldsEvent, InWait
<1>8. PtrOK'
  BY <1>6, <1>7, PtrMoves
<1> QED
  BY <1>1, <1>2, <1>3, <1>4, <1>5, <1>8, WQFrame, GhostFrame DEF TypeInv,
     TypeOK

LEMMA Type_doeventinfo_args ==
  ASSUME TypeInv, NEW p \in Procs, doeventinfo_args(p)
  PROVE  TypeInv'
<1>1. UNCHANGED <<wqVars, tableVars, lockVars, ghostVars>>
  BY DEF doeventinfo_args
<1>2. LocalType'
  <2>1. /\ process' = [process EXCEPT ![p] = 0]
        /\ buf' = [buf EXCEPT ![p] = <<>>]
        /\ UNCHANGED <<ptr, cursor>>
    BY DEF doeventinfo_args
  <2>2. PICK num \in Nums, u \in Pointers :
          Enter(p, "info", [id |-> num, a |-> u, b |-> 0])
    BY DEF doeventinfo_args
  <2>3. /\ [id |-> num, a |-> u, b |-> 0] \in [id: Int, a: Int, b: Int]
        /\ "info" \in SysCalls
    <3>1. u \in Int
      BY DEF Pointers, Null, Writable, ReadOnly, Unmapped
    <3>2. num \in Int
      BY ConstantsAssumption
    <3> QED
      BY <3>1, <3>2 DEF SysCalls
  <2>4. retVal' \in [Procs -> Int]
    BY DEF doeventinfo_args, Returns, TypeInv, TypeOK, LocalType
  <2>5. process' \in [Procs -> Int] /\ buf' \in [Procs -> Seq(Int)]
    BY <2>1, EmptySeq DEF TypeInv, TypeOK, LocalType
  <2> QED
    BY <2>1, <2>2, <2>3, <2>4, <2>5, EnterType DEF TypeInv, TypeOK, LocalType
<1>3. pc' \in [Procs -> PCs]
  BY DEF doeventinfo_args, Enter, Goto, Returns, TypeInv, TypeOK, PCs,
     InWait
<1>4. \A q \in Procs \ {p} : pc'[q] = pc[q] /\ ptr'[q] = ptr[q]
  BY DEF doeventinfo_args, Enter, Goto, Returns, TypeInv, TypeOK,
     LocalType, localVars
<1>5. pc'[p] \in HoldsEvent => ptr'[p] \in Slots
  BY DEF doeventinfo_args, Enter, Goto, Returns, TypeInv, TypeOK,
     LocalType, localVars, PtrOK, HoldsEvent, InWait
<1>6. PtrOK'
  BY <1>4, <1>5, PtrMoves
<1> QED
  BY <1>1, <1>2, <1>3, <1>6, WQFrame, TableFrame, LockFrame, GhostFrame DEF
     TypeInv, TypeOK

LEMMA Type_doeventinfo_lock ==
  ASSUME TypeInv, NEW p \in Procs, doeventinfo_lock(p)
  PROVE  TypeInv'
<1>1. UNCHANGED <<wqVars, tableVars, localVars, ghostVars>>
  BY DEF doeventinfo_lock
<1>2. LockType'
  BY DEF doeventinfo_lock, TypeInv, TypeOK, LockType
<1>3. pc' \in [Procs -> PCs]
  BY DEF doeventinfo_lock, Goto, TypeInv, TypeOK, PCs, InWait
<1>4. \A q \in Procs \ {p} : pc'[q] = pc[q] /\ ptr'[q] = ptr[q]
  BY DEF doeventinfo_lock, Goto, TypeInv, TypeOK, LocalType, localVars
<1>5. pc'[p] \in HoldsEvent => ptr'[p] \in Slots
  BY DEF doeventinfo_lock, Goto, TypeInv, TypeOK, LocalType, localVars,
     PtrOK, HoldsEvent, InWait
<1>6. PtrOK'
  BY <1>4, <1>5, PtrMoves
<1> QED
  BY <1>1, <1>2, <1>3, <1>6, WQFrame, TableFrame, LocalFrame, GhostFrame DEF
     TypeInv, TypeOK

LEMMA Type_doeventinfo_walk ==
  ASSUME TypeInv, NEW p \in Procs, doeventinfo_walk(p)
  PROVE  TypeInv'
<1>1. UNCHANGED <<wqVars, tableVars, ghostVars>>
  BY DEF doeventinfo_walk
<1>2. LockType'
  BY DEF doeventinfo_walk, TypeInv, TypeOK, LockType
<1>3. LocalType'
  <2>1. UNCHANGED <<call, arg, ptr, cursor, retVal>>
    BY DEF doeventinfo_walk
  <2>2. process' \in [Procs -> Int]
    BY DEF doeventinfo_walk, TypeInv, TypeOK, LocalType
  <2>3. buf' \in [Procs -> Seq(Int)]
    <3>1. CASE buf' = buf
      BY <3>1 DEF TypeInv, TypeOK, LocalType
    <3>2. CASE buf' # buf
      <4> DEFINE i == process[p] + 1
      <4>1. /\ i \in 1 .. Len(evlist)
            /\ buf' = [buf EXCEPT ![p] = Append(@, ev[evlist[i]].id)]
        BY <3>2 DEF doeventinfo_walk
      <4> HIDE DEF i
      <4>2. evlist[i] \in Slots
        BY <4>1, ElementOfSeq DEF TypeInv, TypeOK, TableType
      <4>3. ev[evlist[i]].id \in Int /\ buf[p] \in Seq(Int)
        BY <4>2 DEF TypeInv, TypeOK, TableType, LocalType, Event
      <4>4. Append(buf[p], ev[evlist[i]].id) \in Seq(Int)
        BY <4>3, AppendProperties
      <4> QED
        BY <4>1, <4>4 DEF TypeInv, TypeOK, LocalType
    <3> QED
      BY <3>1, <3>2
  <2> QED
    BY <2>1, <2>2, <2>3 DEF TypeInv, TypeOK, LocalType
<1>4. pc' \in [Procs -> PCs]
  BY DEF doeventinfo_walk, Goto, TypeInv, TypeOK, PCs, InWait
<1>5. \A q \in Procs \ {p} : pc'[q] = pc[q] /\ ptr'[q] = ptr[q]
  BY DEF doeventinfo_walk, Goto, TypeInv, TypeOK, LocalType, localVars
<1>6. pc'[p] \in HoldsEvent => ptr'[p] \in Slots
  BY DEF doeventinfo_walk, Goto, TypeInv, TypeOK, LocalType, localVars,
     PtrOK, HoldsEvent, InWait
<1>7. PtrOK'
  BY <1>5, <1>6, PtrMoves
<1> QED
  BY <1>1, <1>2, <1>3, <1>4, <1>7, WQFrame, TableFrame, GhostFrame DEF
     TypeInv, TypeOK

LEMMA Type_doeventinfo_copy ==
  ASSUME TypeInv, NEW p \in Procs, doeventinfo_copy(p)
  PROVE  TypeInv'
<1>1. UNCHANGED <<wqVars, tableVars, lockVars, ghostVars>>
  BY DEF doeventinfo_copy
<1>2. LocalType'
  <2>1. UNCHANGED <<call, arg, ptr, process, cursor>>
    BY DEF doeventinfo_copy
  <2>2. retVal' \in [Procs -> Int]
    <3>1. process[p] \in Int
      BY DEF TypeInv, TypeOK, LocalType
    <3>2. \/ retVal' = [retVal EXCEPT ![p] = process[p]]
          \/ retVal' = [retVal EXCEPT ![p] = -1]
      BY DEF doeventinfo_copy, Returns
    <3> QED
      BY <3>1, <3>2 DEF TypeInv, TypeOK, LocalType
  <2>3. buf' \in [Procs -> Seq(Int)]
    <3> DEFINE pad == [k \in 1 .. arg[p].id - process[p] |-> -1]
    <3>1. CASE buf' = buf
      BY <3>1 DEF TypeInv, TypeOK, LocalType
    <3>2. CASE buf' # buf
      <4>1. process[p] <= arg[p].id /\ buf' = [buf EXCEPT ![p] = @ \o pad]
        BY <3>2 DEF doeventinfo_copy
      <4>2. arg[p].id - process[p] \in Nat /\ buf[p] \in Seq(Int)
        BY <4>1 DEF TypeInv, TypeOK, LocalType
      <4>3. pad \in Seq(Int)
        BY <4>2, SeqDef
      <4> HIDE DEF pad
      <4>4. buf[p] \o pad \in Seq(Int)
        BY <4>2, <4>3, ConcatProperties
      <4> QED
        BY <4>1, <4>4 DEF TypeInv, TypeOK, LocalType
    <3> QED
      BY <3>1, <3>2
  <2> QED
    BY <2>1, <2>2, <2>3 DEF TypeInv, TypeOK, LocalType
<1>3. pc' \in [Procs -> PCs]
  BY DEF doeventinfo_copy, Returns, TypeInv, TypeOK, PCs, InWait
<1>4. \A q \in Procs \ {p} : pc'[q] = pc[q] /\ ptr'[q] = ptr[q]
  BY DEF doeventinfo_copy, Returns, TypeInv, TypeOK, LocalType,
     localVars
<1>5. pc'[p] \in HoldsEvent => ptr'[p] \in Slots
  BY DEF doeventinfo_copy, Returns, TypeInv, TypeOK, LocalType,
     localVars, PtrOK, HoldsEvent, InWait
<1>6. PtrOK'
  BY <1>4, <1>5, PtrMoves
<1> QED
  BY <1>1, <1>2, <1>3, <1>6, WQFrame, TableFrame, LockFrame, GhostFrame DEF
     TypeInv, TypeOK

LEMMA Type_doeventstat_lookup ==
  ASSUME TypeInv, NEW p \in Procs, doeventstat_lookup(p)
  PROVE  TypeInv'
<1>1. UNCHANGED <<wqVars, tableVars, lockVars, ghostVars>>
  BY DEF doeventstat_lookup
<1>2. LocalType'
  <2>1. UNCHANGED <<process, cursor>>
    BY DEF doeventstat_lookup
  <2>2. PICK id \in Ids, u \in Pointers :
          /\ Enter(p, "stat", [id |-> id, a |-> u, b |-> 0])
          /\ \/ Returns(p, -1) /\ UNCHANGED <<ptr, buf>>
             \/ \E s \in Candidates(p, id) :
                  /\ ptr' = [ptr EXCEPT ![p] = s]
                  /\ \/ s = NONE /\ Returns(p, -1) /\ UNCHANGED buf
                     \/ /\ s # NONE
                        /\ buf' = IF evlist = <<>> THEN buf
                                  ELSE [buf EXCEPT ![p] = Stat(s)]
                        /\ UNCHANGED retVal
             \/ UNCHANGED <<ptr, buf, retVal>>
    BY DEF doeventstat_lookup
  <2>3. /\ [id |-> id, a |-> u, b |-> 0] \in [id: Int, a: Int, b: Int]
        /\ "stat" \in SysCalls
    <3>1. u \in Int
      BY DEF Pointers, Null, Writable, ReadOnly, Unmapped
    <3>2. id \in Int
      BY ConstantsAssumption
    <3> QED
      BY <3>1, <3>2 DEF SysCalls
  <2>4. /\ call' \in [Procs -> SysCalls]
        /\ arg' \in [Procs -> [id: Int, a: Int, b: Int]]
    BY <2>2, <2>3, EnterType DEF TypeInv, TypeOK
  <2>5. retVal' \in [Procs -> Int]
    BY <2>2 DEF Returns, TypeInv, TypeOK, LocalType
  <2>6. ASSUME NEW s \in Candidates(p, id)
        PROVE  /\ s \in Slots \cup {NONE}
               /\ s # NONE => Stat(s) \in Seq(Int)
    <3>1. s \in Slots \cup {NONE}
      BY FoundType DEF Candidates, Uninitialised, TypeInv, TypeOK, LocalType
    <3>2. ASSUME s # NONE PROVE Stat(s) \in Seq(Int)
      BY <3>1, <3>2 DEF Stat, TypeInv, TypeOK, TableType, Event
    <3> QED
      BY <3>1, <3>2
  <2>7. ptr' \in [Procs -> Slots \cup {NONE}] /\ buf' \in [Procs -> Seq(Int)]
    BY <2>2, <2>6 DEF TypeInv, TypeOK, LocalType
  <2> QED
    BY <2>1, <2>4, <2>5, <2>7 DEF TypeInv, TypeOK, LocalType
<1>3. pc' \in [Procs -> PCs]
  BY DEF doeventstat_lookup, Enter, Goto, Returns, TypeInv, TypeOK,
     PCs, InWait
<1>4. \A q \in Procs \ {p} : pc'[q] = pc[q] /\ ptr'[q] = ptr[q]
  BY DEF doeventstat_lookup, Enter, Goto, Returns, TypeInv, TypeOK,
     LocalType, localVars
<1>5. pc'[p] \in HoldsEvent => ptr'[p] \in Slots
  BY DEF doeventstat_lookup, Enter, Goto, Returns, TypeInv, TypeOK,
     LocalType, localVars, PtrOK, HoldsEvent, InWait
<1>6. PtrOK'
  BY <1>4, <1>5, PtrMoves
<1> QED
  BY <1>1, <1>2, <1>3, <1>6, WQFrame, TableFrame, LockFrame, GhostFrame DEF
     TypeInv, TypeOK

LEMMA Type_doeventstat_copy ==
  ASSUME TypeInv, NEW p \in Procs, doeventstat_copy(p)
  PROVE  TypeInv'
<1>1. UNCHANGED <<wqVars, tableVars, lockVars, ghostVars>>
  BY DEF doeventstat_copy
<1>2. LocalType'
  BY DEF doeventstat_copy, Returns, EFAULT, TypeInv, TypeOK, LocalType
<1>3. pc' \in [Procs -> PCs]
  BY DEF doeventstat_copy, Returns, TypeInv, TypeOK, PCs, InWait
<1>4. \A q \in Procs \ {p} : pc'[q] = pc[q] /\ ptr'[q] = ptr[q]
  BY DEF doeventstat_copy, Returns, TypeInv, TypeOK, LocalType,
     localVars
<1>5. pc'[p] \in HoldsEvent => ptr'[p] \in Slots
  BY DEF doeventstat_copy, Returns, TypeInv, TypeOK, LocalType,
     localVars, PtrOK, HoldsEvent, InWait
<1>6. PtrOK'
  BY <1>4, <1>5, PtrMoves
<1> QED
  BY <1>1, <1>2, <1>3, <1>6, WQFrame, TableFrame, LockFrame, GhostFrame DEF
     TypeInv, TypeOK

LEMMA Type_Return ==
  ASSUME TypeInv, NEW p \in Procs, Return(p)
  PROVE  TypeInv'
<1>1. UNCHANGED <<tableVars, lockVars>>
  BY DEF Return
<1>2. WQTypeOK'
  BY DEF Return, deliver_signal, TypeInv, TypeOK, WQTypeOK
<1>3. LocalType'
  BY DEF Return, NoArg, TypeInv, TypeOK, LocalType
<1>4. GhostType'
  BY DEF Return, TypeInv, TypeOK, GhostType
<1>5. pc' \in [Procs -> PCs]
  BY DEF Return, Goto, TypeInv, TypeOK, PCs, InWait
<1>6. \A q \in Procs \ {p} : pc'[q] = pc[q] /\ ptr'[q] = ptr[q]
  BY DEF Return, Goto, TypeInv, TypeOK, LocalType, localVars
<1>7. pc'[p] \in HoldsEvent => ptr'[p] \in Slots
  BY DEF Return, Goto, TypeInv, TypeOK, LocalType, localVars, PtrOK,
     HoldsEvent, InWait
<1>8. PtrOK'
  BY <1>6, <1>7, PtrMoves
<1> QED
  BY <1>1, <1>2, <1>3, <1>4, <1>5, <1>8, TableFrame, LockFrame DEF TypeInv,
     TypeOK

LEMMA Type_UnixSignal ==
  ASSUME TypeInv, NEW p \in Procs, UnixSignal(p)
  PROVE  TypeInv'
<1>1. UNCHANGED <<tableVars, lockVars, localVars, ghostVars>>
  BY DEF UnixSignal
<1>2. WQTypeOK'
  BY DEF UnixSignal, signal_wake_up, try_to_wake_up, TypeInv, TypeOK,
     WQTypeOK
<1>3. pc' \in [Procs -> PCs]
  BY DEF UnixSignal, TypeInv, TypeOK, PCs, InWait
<1>4. \A q \in Procs \ {p} : pc'[q] = pc[q] /\ ptr'[q] = ptr[q]
  BY DEF UnixSignal, TypeInv, TypeOK, LocalType, localVars
<1>5. pc'[p] \in HoldsEvent => ptr'[p] \in Slots
  BY DEF UnixSignal, TypeInv, TypeOK, LocalType, localVars, PtrOK,
     HoldsEvent, InWait
<1>6. PtrOK'
  BY <1>4, <1>5, PtrMoves
<1> QED
  BY <1>1, <1>2, <1>3, <1>6, TableFrame, LockFrame, LocalFrame, GhostFrame
     DEF TypeInv, TypeOK

LEMMA Type_stack_reused ==
  ASSUME TypeInv, NEW p \in Procs, stack_reused(p)
  PROVE  TypeInv'
  BY TypeCorrupts DEF stack_reused

LEMMA Type_slab_reused ==
  ASSUME TypeInv, NEW p \in Procs, slab_reused(p)
  PROVE  TypeInv'
  BY TypeCorrupts DEF slab_reused

-----------------------------------------------------------------------------
(* The theorem *)

LEMMA TypeInit == Init => TypeInv
<1> SUFFICES ASSUME Init PROVE TypeInv
  OBVIOUS
<1>1. WQTypeOK
  BY DEF Init, WQInit, WQTypeOK
<1>2. TableType
  BY DEF Init, TableType, Event
<1>3. LockType /\ GhostType
  BY DEF Init, LockType, GhostType
<1>4. LocalType
  BY DEF Init, LocalType, SysCalls, NoArg
<1>5. pc \in [Procs -> PCs] /\ PtrOK
  BY DEF Init, PCs, PtrOK, HoldsEvent, InWait
<1> QED
  BY <1>1, <1>2, <1>3, <1>4, <1>5 DEF TypeInv, TypeOK

LEMMA TypeStep ==
  ASSUME TypeInv, NEW p \in Procs,
         Steps(p) \/ UnixSignal(p) \/ stack_reused(p) \/ slab_reused(p)
  PROVE  TypeInv'
<1>1. CASE open(p)
  BY <1>1, Type_doeventopen_kmalloc, Type_doeventopen_add,
     Type_doeventopen_return DEF open
<1>2. CASE fire(p)
  BY <1>2, Type_doeventclose_lookup, Type_doeventsig_lookup,
     Type_check_active, Type_take_write_lock, Type_count_waiter,
     Type_set_condition, Type_wake_begin, Type_wake_one, Type_wake_end,
     Type_doeventclose_del, Type_doeventclose_free DEF fire
<1>3. CASE wait(p)
  BY <1>3, Type_doeventwait_lookup, Type_doeventwait_reset,
     Type_doeventwait_first, Type_doeventwait_prepare,
     Type_doeventwait_check, Type_doeventwait_schedule,
     Type_doeventwait_resume, Type_doeventwait_finish, Type_doeventwait_del
     DEF wait
<1>4. CASE admin(p)
  BY <1>4, Type_doeventchown_lookup, Type_doeventchmod_lookup,
     Type_set_first, Type_set_second, Type_doeventinfo_args,
     Type_doeventinfo_lock, Type_doeventinfo_walk, Type_doeventinfo_copy,
     Type_doeventstat_lookup, Type_doeventstat_copy DEF admin
<1>5. CASE Return(p)
  BY <1>5, Type_Return
<1>6. CASE UnixSignal(p) \/ stack_reused(p) \/ slab_reused(p)
  BY <1>6, Type_UnixSignal, Type_stack_reused, Type_slab_reused
<1> QED
  BY <1>1, <1>2, <1>3, <1>4, <1>5, <1>6 DEF Steps

LEMMA TypeStutter == TypeInv /\ UNCHANGED vars => TypeInv'
<1> SUFFICES ASSUME TypeInv, UNCHANGED vars PROVE TypeInv'
  OBVIOUS
<1>1. UNCHANGED <<wqVars, tableVars, lockVars, localVars, ghostVars, pc>>
  BY DEF vars
<1>2. PtrOK'
  BY <1>1 DEF TypeInv, PtrOK, localVars
<1> QED
  BY <1>1, <1>2, WQFrame, TableFrame, LockFrame, LocalFrame, GhostFrame
     DEF TypeInv, TypeOK

\* Every step of the system calls, of the scheduler and of whoever reuses
\* freed memory keeps the types.
THEOREM TypeInvariant == Spec => []TypeInv
<1>1. TypeInv /\ [Next]_vars => TypeInv'
  <2> SUFFICES ASSUME TypeInv, [Next]_vars PROVE TypeInv'
    OBVIOUS
  <2>1. CASE Next
    BY <2>1, TypeStep, TypeStutter DEF Next, Corrupted
  <2>2. CASE UNCHANGED vars
    BY <2>2, TypeStutter
  <2> QED
    BY <2>1, <2>2
<1> QED
  BY <1>1, TypeInit, PTL DEF Spec

\* Every variable of the event system calls keeps its type, in every system
\* of processes, slots and arguments: in particular a system call never goes
\* on with a null event, and the counting loop never leaves the queue nodes.
THEOREM TypeCorrect == Spec => []TypeOK
<1>1. TypeInv => TypeOK
  BY DEF TypeInv
<1> QED
  BY <1>1, TypeInvariant, PTL
=============================================================================
