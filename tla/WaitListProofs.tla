--------------------------- MODULE WaitListProofs ---------------------------
(***************************************************************************)
(* A wait queue's pointers, for any number of processes: between critical  *)
(* sections the two directions agree, nobody uses an entry whose function  *)
(* has returned, and to a reader of next pointers the queue is an          *)
(* AtomicList.                                                             *)
(***************************************************************************)
EXTENDS WaitList, SequenceTheorems, FiniteSetTheorems, WellFoundedInduction,
        TLAPS

-----------------------------------------------------------------------------
(* The inductive invariant *)

\* The entries whose function has not returned, and the head
Live == {HEAD} \cup {p \in Procs : pc[p] \in Waiting}

Pointers == [Nodes -> Nodes \cup {NONE}]

\* Two directions of one list: each is the other's inverse.  An entry in no
\* list points to itself, and what is not live to nothing.
Shape(nx, pv) ==
  /\ \A x \in Live : /\ nx[x] \in Live /\ pv[nx[x]] = x
                     /\ pv[x] \in Live /\ nx[pv[x]] = x
  /\ \A x \in Nodes \ Live : nx[x] = NONE /\ pv[x] = NONE

\* Every ring of entries passes through the head: ranks fall on the way.
Ranked(nx, rank) ==
  \A x \in Live \ {HEAD} :
    nx[x] \notin {x, HEAD} => rank[nx[x]] < rank[x]

\* No operation is under way.
Still(nx, pv) ==
  /\ next = nx /\ prev = pv
  /\ \A p \in Procs : stores[p] = <<>>

\* h is putting its entry between the head and a: some of the four stores
\* are to come, and what they are to overwrite is known.
Adding(h, a, nx, pv) ==
  /\ pc[h] = "prepare"
  /\ a # h
  /\ \A x \in Nodes \ {h, HEAD} : next[x] = nx[x]
  /\ \A x \in Nodes \ {a, h} : prev[x] = pv[x]
  /\ nx[h] = a /\ nx[HEAD] = h /\ pv[a] = h /\ pv[h] = HEAD
  /\ next[HEAD] = a
  /\ \/ /\ stores[h] = <<SetPrev(a, h), SetNext(h, a), SetPrev(h, HEAD),
                         SetNext(HEAD, h)>>
        /\ prev[a] = HEAD /\ next[h] = h /\ prev[h] = h
     \/ /\ stores[h] = <<SetNext(h, a), SetPrev(h, HEAD), SetNext(HEAD, h)>>
        /\ prev[a] = h /\ next[h] = h /\ prev[h] = h
     \/ /\ stores[h] = <<SetPrev(h, HEAD), SetNext(HEAD, h)>>
        /\ prev[a] = h /\ next[h] = a /\ prev[h] = h
     \/ /\ stores[h] = <<SetNext(HEAD, h)>>
        /\ prev[a] = h /\ next[h] = a /\ prev[h] = HEAD

\* h is taking e out from between b and a.  When e is in no list, so that
\* a and b are e itself, it is h's own, on the way out of finish_wait.
Deleting(h, e, a, b, nx, pv) ==
  /\ \/ pc[h] = "finish" /\ e = h
     \/ pc[h] = "step" /\ a # e
  /\ a = e <=> b = e
  /\ a = b => a \in {HEAD, e}
  /\ \A x \in Nodes \ {b, e} : next[x] = nx[x]
  /\ \A x \in Nodes \ {a, e} : prev[x] = pv[x]
  /\ nx[b] = a /\ nx[e] = e /\ pv[a] = b /\ pv[e] = e
  /\ prev[e] = b
  /\ \/ /\ stores[h] = <<SetPrev(a, b), SetNext(b, a), SetNext(e, e),
                         SetPrev(e, e)>>
        /\ prev[a] = e /\ next[b] = e /\ next[e] = a
     \/ /\ stores[h] = <<SetNext(b, a), SetNext(e, e), SetPrev(e, e)>>
        /\ prev[a] = b /\ next[b] = e /\ next[e] = a
     \/ /\ stores[h] = <<SetNext(e, e), SetPrev(e, e)>>
        /\ prev[a] = b /\ next[b] = a /\ next[e] = a
     \/ /\ stores[h] = <<SetPrev(e, e)>>
        /\ prev[a] = b /\ next[b] = a /\ next[e] = e

\* nx and pv are the pointers once the stores under way are done.
Phase(nx, pv) ==
  \/ Still(nx, pv)
  \/ \E h \in Procs, a \in Live : Adding(h, a, nx, pv)
  \/ \E h \in Procs, e \in Live \ {HEAD}, a, b \in Live :
       Deleting(h, e, a, b, nx, pv)

\* The entry that a walk is at, or is going to, is the head or in the list,
\* and finish_wait takes its entry off.
Places(nx) ==
  \A h \in Procs :
    /\ pc[h] = "walk" => /\ curr[h] \in Live /\ n[h] = nx[curr[h]]
                         /\ curr[h] = HEAD \/ nx[curr[h]] # curr[h]
    /\ pc[h] = "step" => /\ n[h] \in Live
                         /\ n[h] = HEAD \/ nx[n[h]] # n[h]
    /\ pc[h] = "finish" => nx[h] = h

Holding == {"prepare", "finish", "walk", "step"}

\* Who is in a critical section holds the lock, and only he has stores to do.
\* After the first load of list_empty_careful, next does not change again.
Sections ==
  \A p \in Procs :
    /\ pc[p] \in Holding <=> qlock = p
    /\ stores[p] # <<>> => pc[p] \in {"prepare", "finish", "step"}
    /\ pc[p] = "careful_prev" => next[p] = p

Types ==
  /\ next \in Pointers /\ prev \in Pointers
  /\ qlock \in Procs \cup {NONE}
  /\ pc \in [Procs -> Waiting \cup Waking \cup {"out"}]
  /\ stores \in [Procs -> Seq(Store)]
  /\ curr \in [Procs -> Nodes \cup {NONE}]
  /\ n \in [Procs -> Nodes \cup {NONE}]

Queue(nx, pv, rank) ==
  /\ nx \in Pointers /\ pv \in Pointers /\ rank \in [Nodes -> Nat]
  /\ Shape(nx, pv) /\ Ranked(nx, rank) /\ Phase(nx, pv) /\ Places(nx)

QueueInv ==
  /\ Types
  /\ Sections
  /\ \E nx, pv, rank : Queue(nx, pv, rank)

-----------------------------------------------------------------------------
(* Stores *)

LEMMA StoreFacts ==
  ASSUME NEW x \in Nodes, NEW y \in Nodes
  PROVE  /\ SetNext(x, y) \in Store /\ SetPrev(x, y) \in Store
         /\ SetNext(x, y).field = "next" /\ SetPrev(x, y).field = "prev"
         /\ SetNext(x, y).of = x /\ SetNext(x, y).value = y
         /\ SetPrev(x, y).of = x /\ SetPrev(x, y).value = y
  BY DEF Store, SetNext, SetPrev

LEMMA TupleLengths ==
  ASSUME NEW s1 \in Store, NEW s2 \in Store, NEW s3 \in Store,
         NEW s4 \in Store
  PROVE  /\ Len(<<s1, s2, s3, s4>>) = 4 /\ Len(<<s1, s2, s3>>) = 3
         /\ Len(<<s1, s2>>) = 2 /\ Len(<<s1>>) = 1
  OBVIOUS

\* The first of one to four stores, and the others
LEMMA TupleFacts ==
  ASSUME NEW s1 \in Store, NEW s2 \in Store, NEW s3 \in Store,
         NEW s4 \in Store
  PROVE  /\ Head(<<s1, s2, s3, s4>>) = s1
         /\ Tail(<<s1, s2, s3, s4>>) = <<s2, s3, s4>>
         /\ Head(<<s1, s2, s3>>) = s1 /\ Tail(<<s1, s2, s3>>) = <<s2, s3>>
         /\ Head(<<s1, s2>>) = s1 /\ Tail(<<s1, s2>>) = <<s2>>
         /\ Head(<<s1>>) = s1 /\ Tail(<<s1>>) = <<>>
  OBVIOUS

LEMMA TupleTypes ==
  ASSUME NEW s1 \in Store, NEW s2 \in Store, NEW s3 \in Store,
         NEW s4 \in Store
  PROVE  /\ <<s1, s2, s3, s4>> \in Seq(Store)
         /\ <<s1, s2>> \o <<s3, s4>> = <<s1, s2, s3, s4>>
         /\ <<s1, s2, s3, s4>> # <<>> /\ <<s1, s2, s3>> # <<>>
         /\ <<s1, s2>> # <<>> /\ <<s1>> # <<>>
<1>1. <<s1, s2>> \in Seq(Store) /\ <<s3, s4>> \in Seq(Store)
  OBVIOUS
<1>2. Len(<<s1, s2>>) = 2 /\ Len(<<s3, s4>>) = 2
  OBVIOUS
<1>3. /\ <<s1, s2>> \o <<s3, s4>> \in Seq(Store)
      /\ Len(<<s1, s2>> \o <<s3, s4>>) = 4
      /\ \A i \in 1 .. 4 : (<<s1, s2>> \o <<s3, s4>>)[i] =
           IF i <= 2 THEN <<s1, s2>>[i] ELSE <<s3, s4>>[i - 2]
  BY <1>1, <1>2, ConcatProperties, Z3
<1>4. /\ <<s1, s2, s3, s4>> \in Seq(Store)
      /\ Len(<<s1, s2, s3, s4>>) = 4
  OBVIOUS
<1>5. \A i \in 1 .. 4 : (<<s1, s2>> \o <<s3, s4>>)[i] = <<s1, s2, s3, s4>>[i]
  <2>1. \A i \in 1 .. 4 : i = 1 \/ i = 2 \/ i = 3 \/ i = 4
    OBVIOUS
  <2> QED
    BY <1>3, <2>1
<1>6. <<s1, s2>> \o <<s3, s4>> = <<s1, s2, s3, s4>>
  BY <1>3, <1>4, <1>5, SeqEqual
<1> QED
  BY <1>4, <1>6

LEMMA LiveNodes == Live \subseteq Nodes /\ HEAD \in Live
  BY DEF Live, Nodes

\* An operation under way has stores to do.
LEMMA AddingBusy ==
  ASSUME NEW nx, NEW pv, NEW h \in Procs, NEW a \in Live,
         Adding(h, a, nx, pv)
  PROVE  stores[h] # <<>>
<1>1. h \in Nodes /\ a \in Nodes /\ HEAD \in Nodes
  BY LiveNodes DEF Nodes
<1>2. /\ SetPrev(a, h) \in Store /\ SetNext(h, a) \in Store
      /\ SetPrev(h, HEAD) \in Store /\ SetNext(HEAD, h) \in Store
  BY <1>1, StoreFacts
<1>3. Len(stores[h]) \in {1, 2, 3, 4}
  BY <1>2, TupleLengths DEF Adding
<1>4. Len(<<>>) = 0
  OBVIOUS
<1> QED
  BY <1>3, <1>4

LEMMA DeletingBusy ==
  ASSUME NEW nx, NEW pv, NEW h \in Procs, NEW e \in Live, NEW a \in Live,
         NEW b \in Live, Deleting(h, e, a, b, nx, pv)
  PROVE  stores[h] # <<>>
<1>1. e \in Nodes /\ a \in Nodes /\ b \in Nodes
  BY LiveNodes
<1>2. /\ SetPrev(a, b) \in Store /\ SetNext(b, a) \in Store
      /\ SetNext(e, e) \in Store /\ SetPrev(e, e) \in Store
  BY <1>1, StoreFacts
<1>3. Len(stores[h]) \in {1, 2, 3, 4}
  BY <1>2, TupleLengths DEF Deleting
<1>4. Len(<<>>) = 0
  OBVIOUS
<1> QED
  BY <1>3, <1>4

\* When nobody has a store to do, no operation is under way.
LEMMA QuietIsStill ==
  ASSUME NEW nx, NEW pv, Phase(nx, pv), \A p \in Procs : stores[p] = <<>>
  PROVE  Still(nx, pv)
  BY AddingBusy, DeletingBusy DEF Phase

\* Only the holder of the lock has stores to do.
LEMMA OthersIdle ==
  ASSUME Types, Sections, NEW p \in Procs, stores[p] = <<>>,
         qlock \in {p, NONE}
  PROVE  \A q \in Procs : stores[q] = <<>>
<1>1. ASSUME NEW q \in Procs, stores[q] # <<>>
      PROVE  FALSE
  BY <1>1, ProcsAssumption DEF Sections, Holding
<1> QED
  BY <1>1

-----------------------------------------------------------------------------
(* One store *)

\* The holder of the lock is the only one to have stores to do.
LEMMA OneHolder ==
  ASSUME Types, Sections, NEW p \in Procs, NEW q \in Procs,
         pc[p] \in Holding, pc[q] \in Holding
  PROVE  p = q
  BY DEF Sections

\* While h holds the lock, the others have no store to do.
LEMMA OnlyHolder ==
  ASSUME Types, Sections, NEW h \in Procs, pc[h] \in Holding
  PROVE  \A q \in Procs \ {h} : stores[q] = <<>>
  BY OneHolder DEF Sections, Holding

\* The next store of an addition leads to the next stage, or ends it.
LEMMA StoreAdding ==
  ASSUME Types, Sections, NEW nx, NEW pv, NEW rank, Queue(nx, pv, rank),
         NEW p \in Procs, StoreStep(p),
         NEW a \in Live, Adding(p, a, nx, pv)
  PROVE  /\ Still(nx, pv)' \/ Adding(p, a, nx, pv)'
         /\ \A q \in Procs \ {p} : next'[q] = next[q]
<1> DEFINE s1 == SetPrev(a, p)
           s2 == SetNext(p, a)
           s3 == SetPrev(p, HEAD)
           s4 == SetNext(HEAD, p)
<1>1. /\ p \in Nodes /\ a \in Nodes /\ HEAD \in Nodes /\ p # HEAD
      /\ s1 \in Store /\ s2 \in Store /\ s3 \in Store /\ s4 \in Store
      /\ s1.field = "prev" /\ s1.of = a /\ s1.value = p
      /\ s2.field = "next" /\ s2.of = p /\ s2.value = a
      /\ s3.field = "prev" /\ s3.of = p /\ s3.value = HEAD
      /\ s4.field = "next" /\ s4.of = HEAD /\ s4.value = p
  BY LiveNodes, StoreFacts, ProcsAssumption DEF Nodes
<1>2. /\ pc' = pc /\ stores' = [stores EXCEPT ![p] = Tail(@)]
      /\ next \in Pointers /\ prev \in Pointers /\ nx \in Pointers
      /\ pv \in Pointers /\ DOMAIN stores = Procs
      /\ \A q \in Procs \ {p} : stores[q] = <<>>
  BY OnlyHolder DEF StoreStep, Types, Queue, Adding, Holding
<1> HIDE DEF s1, s2, s3, s4
<1>3. CASE stores[p] = <<s1, s2, s3, s4>>
  <2>1. Head(stores[p]) = s1 /\ Tail(stores[p]) = <<s2, s3, s4>>
    BY <1>1, <1>3, TupleFacts
  <2>2. next' = next /\ prev' = [prev EXCEPT ![a] = p]
    BY <1>1, <2>1 DEF StoreStep
  <2>3. next[p] = p /\ prev[p] = p
    BY <1>1, <1>3, TupleLengths DEF Adding, s1, s2, s3, s4
  <2>4. stores'[p] = <<s2, s3, s4>>
    BY <1>2, <2>1
  <2> QED
    BY <1>1, <1>2, <2>2, <2>3, <2>4 DEF Adding, Pointers, s2, s3, s4
<1>4. CASE stores[p] = <<s2, s3, s4>>
  <2>1. Head(stores[p]) = s2 /\ Tail(stores[p]) = <<s3, s4>>
    BY <1>1, <1>4, TupleFacts
  <2>2. prev' = prev /\ next' = [next EXCEPT ![p] = a]
    BY <1>1, <2>1 DEF StoreStep
  <2>3. prev[a] = p /\ prev[p] = p
    BY <1>1, <1>4, TupleLengths DEF Adding, s1, s2, s3, s4
  <2>4. stores'[p] = <<s3, s4>>
    BY <1>2, <2>1
  <2> QED
    BY <1>1, <1>2, <2>2, <2>3, <2>4 DEF Adding, Pointers, s3, s4
<1>5. CASE stores[p] = <<s3, s4>>
  <2>1. Head(stores[p]) = s3 /\ Tail(stores[p]) = <<s4>>
    BY <1>1, <1>5, TupleFacts
  <2>2. next' = next /\ prev' = [prev EXCEPT ![p] = HEAD]
    BY <1>1, <2>1 DEF StoreStep
  <2>3. prev[a] = p /\ next[p] = a
    BY <1>1, <1>5, TupleLengths DEF Adding, s1, s2, s3, s4
  <2>4. stores'[p] = <<s4>>
    BY <1>2, <2>1
  <2> QED
    BY <1>1, <1>2, <2>2, <2>3, <2>4 DEF Adding, Pointers, s4
<1>6. CASE stores[p] = <<s4>>
  <2>1. Head(stores[p]) = s4 /\ Tail(stores[p]) = <<>>
    BY <1>1, <1>6, TupleFacts
  <2>2. prev' = prev /\ next' = [next EXCEPT ![HEAD] = p]
    BY <1>1, <2>1 DEF StoreStep
  <2>3. prev[a] = p /\ next[p] = a /\ prev[p] = HEAD
    BY <1>1, <1>6, TupleLengths DEF Adding, s1, s2, s3, s4
  <2>4. \A q \in Procs : stores'[q] = <<>>
    BY <1>2, <2>1
  <2>5. \A x \in Nodes : next'[x] = nx[x] /\ prev'[x] = pv[x]
    BY <1>1, <1>2, <2>2, <2>3 DEF Adding, Pointers
  <2>6. next' = nx /\ prev' = pv
    BY <1>2, <2>2, <2>5 DEF Pointers
  <2>7. \A q \in Procs \ {p} : next'[q] = next[q]
    BY <1>2, <2>2, ProcsAssumption DEF Pointers, Nodes
  <2> QED
    BY <2>4, <2>6, <2>7 DEF Still
<1> QED
  BY <1>3, <1>4, <1>5, <1>6 DEF Adding, s1, s2, s3, s4

\* The next store of a deletion leads to the next stage, or ends it.
LEMMA StoreDeleting ==
  ASSUME Types, Sections, NEW nx, NEW pv, NEW rank, Queue(nx, pv, rank),
         NEW p \in Procs, StoreStep(p), NEW e \in Live, NEW a \in Live,
         NEW b \in Live, Deleting(p, e, a, b, nx, pv)
  PROVE  /\ Still(nx, pv)' \/ Deleting(p, e, a, b, nx, pv)'
         /\ \A q \in Procs : next[q] = q => next'[q] = q
<1> DEFINE s1 == SetPrev(a, b)
           s2 == SetNext(b, a)
           s3 == SetNext(e, e)
           s4 == SetPrev(e, e)
<1>1. /\ e \in Nodes /\ a \in Nodes /\ b \in Nodes
      /\ s1 \in Store /\ s2 \in Store /\ s3 \in Store /\ s4 \in Store
      /\ s1.field = "prev" /\ s1.of = a /\ s1.value = b
      /\ s2.field = "next" /\ s2.of = b /\ s2.value = a
      /\ s3.field = "next" /\ s3.of = e /\ s3.value = e
      /\ s4.field = "prev" /\ s4.of = e /\ s4.value = e
  BY LiveNodes, StoreFacts
<1>2. /\ pc' = pc /\ stores' = [stores EXCEPT ![p] = Tail(@)]
      /\ next \in Pointers /\ prev \in Pointers /\ nx \in Pointers
      /\ pv \in Pointers /\ DOMAIN stores = Procs
      /\ \A q \in Procs \ {p} : stores[q] = <<>>
  BY OnlyHolder DEF StoreStep, Types, Queue, Deleting, Holding
<1> HIDE DEF s1, s2, s3, s4
<1>3. CASE stores[p] = <<s1, s2, s3, s4>>
  <2>1. Head(stores[p]) = s1 /\ Tail(stores[p]) = <<s2, s3, s4>>
    BY <1>1, <1>3, TupleFacts
  <2>2. next' = next /\ prev' = [prev EXCEPT ![a] = b]
    BY <1>1, <2>1 DEF StoreStep
  <2>3. prev[a] = e /\ next[b] = e /\ next[e] = a
    BY <1>1, <1>3, TupleLengths DEF Deleting, s1, s2, s3, s4
  <2>4. \A q \in Procs : next[q] = q => next'[q] = q
    BY <1>1, <1>2, <2>2, <2>3 DEF Deleting, Pointers, Nodes
  <2>5. stores'[p] = <<s2, s3, s4>>
    BY <1>2, <2>1
  <2>6. Deleting(p, e, a, b, nx, pv)'
    BY <1>1, <1>2, <2>2, <2>3, <2>5 DEF Deleting, Pointers, s2, s3, s4
  <2> QED
    BY <2>4, <2>6
<1>4. CASE stores[p] = <<s2, s3, s4>>
  <2>1. Head(stores[p]) = s2 /\ Tail(stores[p]) = <<s3, s4>>
    BY <1>1, <1>4, TupleFacts
  <2>2. prev' = prev /\ next' = [next EXCEPT ![b] = a]
    BY <1>1, <2>1 DEF StoreStep
  <2>3. prev[a] = b /\ next[b] = e /\ next[e] = a
    BY <1>1, <1>4, TupleLengths DEF Deleting, s1, s2, s3, s4
  <2>4. \A q \in Procs : next[q] = q => next'[q] = q
    BY <1>1, <1>2, <2>2, <2>3 DEF Deleting, Pointers, Nodes
  <2>5. stores'[p] = <<s3, s4>>
    BY <1>2, <2>1
  <2>6. Deleting(p, e, a, b, nx, pv)'
    BY <1>1, <1>2, <2>2, <2>3, <2>5 DEF Deleting, Pointers, s3, s4
  <2> QED
    BY <2>4, <2>6
<1>5. CASE stores[p] = <<s3, s4>>
  <2>1. Head(stores[p]) = s3 /\ Tail(stores[p]) = <<s4>>
    BY <1>1, <1>5, TupleFacts
  <2>2. prev' = prev /\ next' = [next EXCEPT ![e] = e]
    BY <1>1, <2>1 DEF StoreStep
  <2>3. prev[a] = b /\ next[b] = a /\ next[e] = a
    BY <1>1, <1>5, TupleLengths DEF Deleting, s1, s2, s3, s4
  <2>4. \A q \in Procs : next[q] = q => next'[q] = q
    BY <1>1, <1>2, <2>2, <2>3 DEF Deleting, Pointers, Nodes
  <2>5. stores'[p] = <<s4>>
    BY <1>2, <2>1
  <2>6. Deleting(p, e, a, b, nx, pv)'
    BY <1>1, <1>2, <2>2, <2>3, <2>5 DEF Deleting, Pointers, s4
  <2> QED
    BY <2>4, <2>6
<1>6. CASE stores[p] = <<s4>>
  <2>1. Head(stores[p]) = s4 /\ Tail(stores[p]) = <<>>
    BY <1>1, <1>6, TupleFacts
  <2>2. next' = next /\ prev' = [prev EXCEPT ![e] = e]
    BY <1>1, <2>1 DEF StoreStep
  <2>3. prev[a] = b /\ next[b] = a /\ next[e] = e
    BY <1>1, <1>6, TupleLengths DEF Deleting, s1, s2, s3, s4
  <2>4. \A q \in Procs : next[q] = q => next'[q] = q
    BY <1>1, <1>2, <2>2, <2>3 DEF Deleting, Pointers, Nodes
  <2>5. \A q \in Procs : stores'[q] = <<>>
    BY <1>2, <2>1
  <2>6. \A x \in Nodes : next'[x] = nx[x] /\ prev'[x] = pv[x]
    BY <1>1, <1>2, <2>2, <2>3 DEF Deleting, Pointers
  <2>7. next' = nx /\ prev' = pv
    BY <1>2, <2>2, <2>6 DEF Pointers
  <2> QED
    BY <2>4, <2>5, <2>7 DEF Still
<1> QED
  BY <1>3, <1>4, <1>5, <1>6 DEF Deleting, s1, s2, s3, s4

LEMMA Inv_StoreStep ==
  ASSUME QueueInv, NEW p \in Procs, StoreStep(p)
  PROVE  QueueInv'
<1>1. PICK nx, pv, rank : Queue(nx, pv, rank)
  BY DEF QueueInv
<1>2. Types /\ Sections
  BY DEF QueueInv
<1>3. /\ pc' = pc /\ curr' = curr /\ n' = n /\ qlock' = qlock
      /\ stores' = [stores EXCEPT ![p] = Tail(@)] /\ stores[p] # <<>>
  BY DEF StoreStep
<1>4. Types'
  <2>1. stores[p] \in Seq(Store)
    BY <1>2 DEF Types
  <2>2. Head(stores[p]) \in Store /\ Tail(stores[p]) \in Seq(Store)
    BY <1>3, <2>1, HeadTailProperties
  <2>3. stores' \in [Procs -> Seq(Store)]
    BY <1>2, <1>3, <2>2 DEF Types
  <2>4. next' \in Pointers /\ prev' \in Pointers
    BY <1>2, <2>2 DEF StoreStep, Types, Store, Pointers
  <2> QED
    BY <1>2, <1>3, <2>3, <2>4 DEF Types
<1> DEFINE Kept == \A q \in Procs :
                     pc[q] = "careful_prev" /\ next[q] = q => next'[q] = q
<1>5. Phase(nx, pv)' /\ Kept
  <2>1. Live' = Live
    BY <1>3 DEF Live
  <2>2. Phase(nx, pv) /\ ~Still(nx, pv)
    BY <1>1, <1>3 DEF Queue, Still
  <2>3. ASSUME NEW h \in Procs, NEW a \in Live, Adding(h, a, nx, pv)
        PROVE  Phase(nx, pv)' /\ Kept
    <3>1. h = p
      BY <1>2, <1>3, <2>3, OneHolder DEF Sections, Holding, Adding
    <3>2. /\ Still(nx, pv)' \/ Adding(h, a, nx, pv)'
          /\ \A q \in Procs \ {p} : next'[q] = next[q]
      BY <1>1, <1>2, <2>3, <3>1, StoreAdding
    <3>3. pc[p] # "careful_prev"
      BY <2>3, <3>1 DEF Adding
    <3>4. Phase(nx, pv)'
      BY <2>1, <3>2 DEF Phase
    <3> QED
      BY <3>2, <3>3, <3>4
  <2>4. ASSUME NEW h \in Procs, NEW e \in Live \ {HEAD}, NEW a \in Live,
               NEW b \in Live, Deleting(h, e, a, b, nx, pv)
        PROVE  Phase(nx, pv)' /\ Kept
    <3>1. h = p
      BY <1>2, <1>3, <2>4, OneHolder DEF Sections, Holding, Deleting
    <3>2. /\ Still(nx, pv)' \/ Deleting(h, e, a, b, nx, pv)'
          /\ \A q \in Procs : next[q] = q => next'[q] = q
      BY <1>1, <1>2, <2>4, <3>1, StoreDeleting
    <3>3. Phase(nx, pv)'
      BY <2>1, <3>2 DEF Phase
    <3> QED
      BY <3>2, <3>3
  <2> QED
    BY <2>2, <2>3, <2>4 DEF Phase
<1>6. Sections'
  BY <1>2, <1>3, <1>5 DEF Sections, Types
<1>7. Queue(nx, pv, rank)'
  BY <1>1, <1>3, <1>5 DEF Queue, Shape, Ranked, Places, Live
<1> QED
  BY <1>4, <1>6, <1>7 DEF QueueInv

-----------------------------------------------------------------------------
(* Steps that leave the pointers alone *)

\* A process without stores to do may go on, if its entry stays live and it
\* starts no operation and no walk.
LEMMA Moves ==
  ASSUME Types, Types', NEW p \in Procs, stores[p] = <<>>,
         UNCHANGED <<next, prev, stores>>,
         \A q \in Procs \ {p} :
           pc'[q] = pc[q] /\ curr'[q] = curr[q] /\ n'[q] = n[q],
         pc[p] \in Waiting <=> pc'[p] \in Waiting,
         pc'[p] \notin {"walk", "step", "finish"},
         NEW nx, NEW pv, NEW rank, Queue(nx, pv, rank)
  PROVE  Queue(nx, pv, rank)'
<1>1. Live' = Live
  BY DEF Live
<1>2. Phase(nx, pv)'
  <2>1. CASE Still(nx, pv)
    BY <2>1 DEF Still, Phase
  <2>2. ASSUME NEW h \in Procs, NEW a \in Live, Adding(h, a, nx, pv)
        PROVE  Phase(nx, pv)'
    <3>1. h # p
      BY <2>2, AddingBusy
    <3>2. Adding(h, a, nx, pv)'
      BY <2>2, <3>1 DEF Adding
    <3> QED
      BY <1>1, <3>2 DEF Phase
  <2>3. ASSUME NEW h \in Procs, NEW e \in Live \ {HEAD}, NEW a \in Live,
               NEW b \in Live, Deleting(h, e, a, b, nx, pv)
        PROVE  Phase(nx, pv)'
    <3>1. h # p
      BY <2>3, DeletingBusy
    <3>2. Deleting(h, e, a, b, nx, pv)'
      BY <2>3, <3>1 DEF Deleting
    <3> QED
      BY <1>1, <3>2 DEF Phase
  <2> QED
    BY <2>1, <2>2, <2>3 DEF Queue, Phase
<1>3. Places(nx)'
  BY <1>1 DEF Queue, Places
<1> QED
  BY <1>1, <1>2, <1>3 DEF Queue, Shape, Ranked

\* Where a process has no stores to do
LEMMA NoStores ==
  ASSUME Sections, NEW p \in Procs, pc[p] \notin {"prepare", "finish", "step"}
  PROVE  stores[p] = <<>>
  BY DEF Sections

LEMMA Inv_interrupt ==
  ASSUME QueueInv, NEW p \in Procs, interrupt(p)
  PROVE  QueueInv'
<1>1. Types /\ Sections
  BY DEF QueueInv
<1>2. Types' /\ Sections'
  BY <1>1 DEF interrupt, Goes, Types, Sections, Waiting, Waking, Holding
<1> QED
  BY <1>1, <1>2, NoStores, Moves DEF QueueInv, interrupt, Goes, Types, Waiting

LEMMA Inv_schedule ==
  ASSUME QueueInv, NEW p \in Procs, schedule(p)
  PROVE  QueueInv'
<1>1. Types /\ Sections
  BY DEF QueueInv
<1>2. Types' /\ Sections'
  BY <1>1 DEF schedule, Goes, Types, Sections, Waiting, Waking, Holding
<1> QED
  BY <1>1, <1>2, NoStores, Moves DEF QueueInv, schedule, Goes, Types, Waiting

LEMMA Inv_wake_up_all ==
  ASSUME QueueInv, NEW p \in Procs, wake_up_all(p)
  PROVE  QueueInv'
<1>1. Types /\ Sections
  BY DEF QueueInv
<1>2. Types' /\ Sections'
  BY <1>1 DEF wake_up_all, Goes, Types, Sections, Waiting, Waking, Holding
<1> QED
  BY <1>1, <1>2, NoStores, Moves DEF QueueInv, wake_up_all, Goes, Types,
     Waiting

-----------------------------------------------------------------------------
(* An entry comes to life, and its function returns *)

\* No operation under way is about p's entry or by p.
Apart(p, nx, pv) ==
  \/ Still(nx, pv)
  \/ \E h \in Procs \ {p}, a \in Live \ {p} : Adding(h, a, nx, pv)
  \/ \E h \in Procs \ {p}, e \in Live \ {HEAD, p}, a, b \in Live \ {p} :
       Deleting(h, e, a, b, nx, pv)

\* Such an entry can be written to, and the operation under way goes on.
LEMMA ApartKeepsPhase ==
  ASSUME Types, NEW p \in Procs, NEW nx \in Pointers, NEW pv \in Pointers,
         Apart(p, nx, pv), NEW v \in Nodes \cup {NONE},
         next' = [next EXCEPT ![p] = v], prev' = [prev EXCEPT ![p] = v],
         stores' = stores, Live \ {p} \subseteq Live',
         \A q \in Procs \ {p} : pc'[q] = pc[q]
  PROVE  Phase([nx EXCEPT ![p] = v], [pv EXCEPT ![p] = v])'
<1> DEFINE my == [nx EXCEPT ![p] = v]
           qv == [pv EXCEPT ![p] = v]
<1>0. /\ p \in Nodes /\ p # HEAD /\ HEAD \in Nodes /\ Procs \subseteq Nodes
      /\ \A x \in Nodes \ {p} :
           /\ next'[x] = next[x] /\ prev'[x] = prev[x]
           /\ my[x] = nx[x] /\ qv[x] = pv[x]
      /\ next'[p] = my[p] /\ prev'[p] = qv[p]
  BY ProcsAssumption DEF Types, Pointers, Nodes
<1>1. CASE Still(nx, pv)
  BY <1>1 DEF Still, Phase
<1> HIDE DEF my, qv
<1>2. ASSUME NEW h \in Procs \ {p}, NEW a \in Live \ {p},
             Adding(h, a, nx, pv)
      PROVE  Phase(my, qv)'
  <2>1. a \in Nodes /\ a \in Live'
    BY LiveNodes
  <2>2. Adding(h, a, my, qv)'
    BY <1>0, <1>2, <2>1 DEF Adding
  <2> QED
    BY <2>1, <2>2 DEF Phase
<1>3. ASSUME NEW h \in Procs \ {p}, NEW e \in Live \ {HEAD, p},
             NEW a \in Live \ {p}, NEW b \in Live \ {p},
             Deleting(h, e, a, b, nx, pv)
      PROVE  Phase(my, qv)'
  <2>1. e \in Nodes /\ a \in Nodes /\ b \in Nodes
    BY LiveNodes
  <2>2. e \in Live' \ {HEAD} /\ a \in Live' /\ b \in Live'
    OBVIOUS
  <2>3. Deleting(h, e, a, b, my, qv)'
    BY <1>0, <1>3, <2>1 DEF Deleting
  <2> QED
    BY <2>2, <2>3 DEF Phase
<1> QED
  BY <1>1, <1>2, <1>3 DEF Apart, my, qv

LEMMA Inv_DEFINE_WAIT ==
  ASSUME QueueInv, NEW p \in Procs, DEFINE_WAIT(p)
  PROVE  QueueInv'
<1>1. PICK nx, pv, rank : Queue(nx, pv, rank)
  BY DEF QueueInv
<1>2. Types /\ Sections
  BY DEF QueueInv
<1>3. /\ pc[p] = "out" /\ pc' = [pc EXCEPT ![p] = "prepare_lock"]
      /\ next' = [next EXCEPT ![p] = p] /\ prev' = [prev EXCEPT ![p] = p]
      /\ stores' = stores /\ curr' = curr /\ n' = n /\ qlock' = qlock
  BY DEF DEFINE_WAIT, Goes
<1>4. /\ p \in Nodes /\ p \notin Live /\ p # HEAD
      /\ Live' = Live \cup {p} /\ Live \subseteq Nodes
  BY <1>2, <1>3, ProcsAssumption, LiveNodes DEF Live, Nodes, Waiting, Types
<1>5. Types' /\ Sections'
  <2>1. Types'
    BY <1>2, <1>3, <1>4 DEF Types, Pointers, Waiting
  <2>2. Sections'
    BY <1>2, <1>3, <1>4 DEF Types, Sections, Pointers, Holding
  <2> QED
    BY <2>1, <2>2
<1> DEFINE my == [nx EXCEPT ![p] = p]
           qv == [pv EXCEPT ![p] = p]
<1>6. Phase(my, qv)'
  <2>1. Apart(p, nx, pv)
    BY <1>1, <1>3, <1>4 DEF Queue, Phase, Apart, Adding, Deleting
  <2>2. /\ nx \in Pointers /\ pv \in Pointers /\ p \in Nodes \cup {NONE}
        /\ Live \ {p} \subseteq Live'
        /\ \A q \in Procs \ {p} : pc'[q] = pc[q]
    BY <1>1, <1>2, <1>3, <1>4 DEF Queue, Types
  <2> QED
    BY <1>2, <1>3, <2>1, <2>2, ApartKeepsPhase
<1>7. /\ my \in Pointers /\ qv \in Pointers
      /\ \A x \in Nodes \ {p} : my[x] = nx[x] /\ qv[x] = pv[x]
      /\ my[p] = p /\ qv[p] = p
  BY <1>1, <1>4 DEF Queue, Pointers
<1> HIDE DEF my, qv
<1>8. Shape(my, qv)'
  BY <1>1, <1>4, <1>7 DEF Queue, Shape
<1>9. Ranked(my, rank)' /\ Places(my)'
  <2>1. Ranked(my, rank)'
    BY <1>1, <1>4, <1>7 DEF Queue, Shape, Ranked
  <2>2. \A q \in Procs \ {p} : pc'[q] = pc[q]
    BY <1>2, <1>3 DEF Types
  <2>3. pc'[p] = "prepare_lock"
    BY <1>2, <1>3 DEF Types
  <2>4. \A q \in Procs : pc[q] = "finish" => q \in Live
    BY DEF Live, Waiting
  <2>5. ASSUME NEW h \in Procs
        PROVE  /\ pc'[h] = "walk" => /\ curr[h] \in Live'
                                     /\ n[h] = my[curr[h]]
                                     /\ curr[h] = HEAD \/ my[curr[h]] # curr[h]
               /\ pc'[h] = "step" => /\ n[h] \in Live'
                                     /\ n[h] = HEAD \/ my[n[h]] # n[h]
               /\ pc'[h] = "finish" => my[h] = h
    <3>1. h # p => pc'[h] = pc[h]
      BY <2>2
    <3>2. \A x \in Live : my[x] = nx[x]
      BY <1>4, <1>7
    <3> QED
      BY <1>1, <1>4, <2>3, <2>4, <3>1, <3>2 DEF Queue, Places
  <2>6. Places(my)'
    BY <1>3, <2>5 DEF Places
  <2> QED
    BY <2>1, <2>6
<1> QED
  BY <1>1, <1>5, <1>6, <1>7, <1>8, <1>9 DEF QueueInv, Queue

\* The function of an entry in no list, with which nobody is busy, returns.
LEMMA Leaves ==
  ASSUME Types, NEW nx, NEW pv, NEW rank, Queue(nx, pv, rank),
         NEW p \in Procs, pc[p] \in Waiting, nx[p] = p, Apart(p, nx, pv),
         Returns(p), UNCHANGED <<stores, curr, n>>
  PROVE  \E my, qv : Queue(my, qv, rank)'
<1> DEFINE my == [nx EXCEPT ![p] = NONE]
           qv == [pv EXCEPT ![p] = NONE]
<1>1. /\ pc' = [pc EXCEPT ![p] = "out"]
      /\ next' = [next EXCEPT ![p] = NONE]
      /\ prev' = [prev EXCEPT ![p] = NONE]
      /\ \A q \in Procs \ {p} : pc'[q] = pc[q]
      /\ pc'[p] = "out"
  BY DEF Returns, Goes, Types
<1>2. /\ p \in Nodes /\ p \in Live /\ p # HEAD /\ Live' = Live \ {p}
      /\ Live \subseteq Nodes
  BY <1>1, LiveNodes, ProcsAssumption DEF Live, Waiting, Nodes
<1>3. Phase(my, qv)'
  <2>1. nx \in Pointers /\ pv \in Pointers
    BY DEF Queue
  <2> QED
    BY <1>1, <1>2, <2>1, ApartKeepsPhase
<1>4. /\ my \in Pointers /\ qv \in Pointers
      /\ \A x \in Nodes \ {p} : my[x] = nx[x] /\ qv[x] = pv[x]
      /\ my[p] = NONE /\ qv[p] = NONE
  BY <1>2 DEF Queue, Pointers
<1> HIDE DEF my, qv
<1>5. /\ pv[p] = p
      /\ \A x \in Live \ {p} : nx[x] # p /\ pv[x] # p
  BY <1>2 DEF Queue, Shape
<1>6. Shape(my, qv)'
  BY <1>2, <1>4, <1>5 DEF Queue, Shape
<1>7. Ranked(my, rank)'
  BY <1>2, <1>4, <1>5 DEF Queue, Shape, Ranked
<1>8. Places(my)'
  <2>1. ASSUME NEW h \in Procs
        PROVE  /\ pc'[h] = "walk" => /\ curr[h] \in Live'
                                     /\ n[h] = my[curr[h]]
                                     /\ curr[h] = HEAD \/ my[curr[h]] # curr[h]
               /\ pc'[h] = "step" => /\ n[h] \in Live'
                                     /\ n[h] = HEAD \/ my[n[h]] # n[h]
               /\ pc'[h] = "finish" => my[h] = h
    <3>1. CASE h = p
      BY <1>1, <3>1
    <3>2. CASE h # p
      <4>1. pc'[h] = pc[h]
        BY <1>1, <3>2
      <4>2. \A x \in Live \ {p} : my[x] = nx[x] /\ x \in Live'
        BY <1>2, <1>4
      <4>3. h \in Nodes \ {p}
        BY <3>2 DEF Nodes
      <4> QED
        BY <1>2, <1>4, <4>1, <4>2, <4>3 DEF Queue, Places
    <3> QED
      BY <3>1, <3>2
  <2> QED
    BY <2>1 DEF Places
<1> QED
  BY <1>3, <1>4, <1>6, <1>7, <1>8 DEF Queue

\* An entry whose two pointers were seen to point to itself, one after the
\* other and without the lock, is in no list, and the waker, if there is one,
\* is through with it.
LEMMA CarefulIsEnough ==
  ASSUME Types, Sections, NEW nx, NEW pv, NEW rank, Queue(nx, pv, rank),
         NEW p \in Procs, pc[p] = "careful_prev", prev[p] = p
  PROVE  nx[p] = p /\ Apart(p, nx, pv)
<1>1. next[p] = p /\ p \in Nodes /\ p # HEAD /\ p \in Live
  BY ProcsAssumption DEF Sections, Nodes, Live, Waiting
<1>2. CASE Still(nx, pv)
  BY <1>1, <1>2 DEF Still, Apart
<1>3. ASSUME NEW h \in Procs, NEW a \in Live, Adding(h, a, nx, pv)
      PROVE  nx[p] = p /\ Apart(p, nx, pv)
  <2>1. h # p /\ nx[p] = p
    BY <1>1, <1>3 DEF Adding
  <2>2. a # p
    BY <1>1, <1>3, <2>1 DEF Adding, Queue, Shape
  <2> QED
    BY <1>3, <2>1, <2>2 DEF Apart
<1>4. ASSUME NEW h \in Procs, NEW e \in Live \ {HEAD}, NEW a \in Live,
             NEW b \in Live, Deleting(h, e, a, b, nx, pv)
      PROVE  nx[p] = p /\ Apart(p, nx, pv)
  <2>1. h # p
    BY <1>4 DEF Deleting
  <2>2. p # e
    BY <1>1, <1>4, <2>1 DEF Deleting
  <2>3. p # b
    BY <1>1, <1>4, <2>2 DEF Deleting
  <2>4. nx[p] = p
    BY <1>1, <1>4, <2>2, <2>3 DEF Deleting
  <2>5. p # a
    BY <1>1, <1>4, <2>3, <2>4 DEF Deleting, Queue, Shape
  <2> QED
    BY <1>4, <2>1, <2>2, <2>3, <2>4, <2>5 DEF Apart
<1> QED
  BY <1>2, <1>3, <1>4 DEF Queue, Phase

-----------------------------------------------------------------------------
(* An operation starts *)

\* What list_add is going to make of the list
LEMMA AddTarget ==
  ASSUME NEW nx \in Pointers, NEW pv \in Pointers, NEW rank \in [Nodes -> Nat],
         Shape(nx, pv), Ranked(nx, rank), NEW e \in Live \ {HEAD}, nx[e] = e
  PROVE  LET a == nx[HEAD]
         IN  \E my \in Pointers, qv \in Pointers, rk \in [Nodes -> Nat] :
               /\ Shape(my, qv) /\ Ranked(my, rk)
               /\ a \in Live /\ a # e /\ pv[a] = HEAD /\ pv[e] = e
               /\ my[e] = a /\ my[HEAD] = e /\ qv[a] = e /\ qv[e] = HEAD
               /\ \A x \in Nodes \ {e, HEAD} : my[x] = nx[x]
               /\ \A x \in Nodes \ {a, e} : qv[x] = pv[x]
<1> DEFINE a == nx[HEAD]
           my == [nx EXCEPT ![e] = a, ![HEAD] = e]
           qv == [pv EXCEPT ![a] = e, ![e] = HEAD]
           rk == [rank EXCEPT ![e] = rank[a] + 1]
<1>1. /\ a \in Live /\ pv[a] = HEAD /\ pv[e] = e /\ a # e
      /\ e \in Nodes /\ a \in Nodes /\ HEAD \in Nodes /\ Live \subseteq Nodes
      /\ e \in Live /\ HEAD \in Live /\ e # HEAD
  BY LiveNodes DEF Shape
<1>2. /\ my \in Pointers /\ qv \in Pointers /\ rk \in [Nodes -> Nat]
      /\ my[e] = a /\ my[HEAD] = e /\ qv[a] = e /\ qv[e] = HEAD
      /\ \A x \in Nodes \ {e, HEAD} : my[x] = nx[x]
      /\ \A x \in Nodes \ {a, e} : qv[x] = pv[x]
      /\ rk[e] = rank[a] + 1 /\ \A x \in Nodes \ {e} : rk[x] = rank[x]
  BY <1>1 DEF Pointers
<1>3. \A x \in Live \ {e, HEAD} : nx[x] # e /\ nx[x] # a
  BY <1>1 DEF Shape
<1>4. \A x \in Live \ {e, a} : pv[x] # e /\ pv[x] # HEAD
  BY <1>1 DEF Shape
<1> HIDE DEF my, qv, rk, a
<1>5. Shape(my, qv)
  <2>1. \A x \in Live : my[x] \in Live /\ qv[my[x]] = x
    BY <1>1, <1>2, <1>3 DEF Shape
  <2>2. \A x \in Live : qv[x] \in Live /\ my[qv[x]] = x
    BY <1>1, <1>2, <1>4 DEF Shape
  <2> QED
    BY <1>1, <1>2, <2>1, <2>2 DEF Shape
<1>6. Ranked(my, rk)
  <2>1. rank[a] < rk[e]
    BY <1>1, <1>2
  <2>2. ASSUME NEW x \in Live \ {HEAD, e}, my[x] \notin {x, HEAD}
        PROVE  rk[my[x]] < rk[x]
    <3>1. /\ my[x] = nx[x] /\ nx[x] # e /\ nx[x] \in Nodes
          /\ rank[nx[x]] < rank[x]
      BY <1>1, <1>2, <1>3, <2>2 DEF Shape, Ranked
    <3> QED
      BY <1>1, <1>2, <3>1
  <2> QED
    BY <1>1, <1>2, <2>1, <2>2 DEF Ranked
<1> QED
  BY <1>1, <1>2, <1>5, <1>6 DEF a

\* What list_del_init is going to make of the list
LEMMA DelTarget ==
  ASSUME NEW nx \in Pointers, NEW pv \in Pointers, NEW rank \in [Nodes -> Nat],
         Shape(nx, pv), Ranked(nx, rank), NEW e \in Live \ {HEAD},
         NEW a, NEW b, a = nx[e], b = pv[e]
  PROVE  /\ a \in Live /\ b \in Live /\ pv[a] = e /\ nx[b] = e
         /\ a = e <=> b = e
         /\ a = b => a \in {HEAD, e}
         /\ \E my \in Pointers, qv \in Pointers :
              /\ Shape(my, qv) /\ Ranked(my, rank)
              /\ my[b] = a /\ my[e] = e /\ qv[a] = b /\ qv[e] = e
              /\ \A x \in Nodes \ {b, e} : my[x] = nx[x]
              /\ \A x \in Nodes \ {a, e} : qv[x] = pv[x]
              /\ a = HEAD \/ a = e \/ my[a] # a
<1> DEFINE my == [nx EXCEPT ![b] = a, ![e] = e]
           qv == [pv EXCEPT ![a] = b, ![e] = e]
<1>1. /\ a \in Live /\ b \in Live /\ pv[a] = e /\ nx[b] = e
      /\ a = e <=> b = e
      /\ e \in Nodes /\ a \in Nodes /\ b \in Nodes /\ HEAD \in Nodes
      /\ Live \subseteq Nodes /\ e \in Live /\ HEAD \in Live /\ e # HEAD
  BY LiveNodes DEF Shape
<1>2. /\ my \in Pointers /\ qv \in Pointers
      /\ my[b] = a /\ my[e] = e /\ qv[a] = b /\ qv[e] = e
      /\ \A x \in Nodes \ {b, e} : my[x] = nx[x]
      /\ \A x \in Nodes \ {a, e} : qv[x] = pv[x]
  BY <1>1 DEF Pointers
<1>3. /\ \A x \in Live \ {b, e} : nx[x] # e /\ nx[x] # a
      /\ \A x \in Live \ {a, e} : pv[x] # e /\ pv[x] # b
      /\ nx[e] = a /\ pv[e] = b
  BY <1>1 DEF Shape
<1>4. a = b => a \in {HEAD, e}
  <2>1. SUFFICES ASSUME a = b, a # HEAD, a # e
                 PROVE  FALSE
    OBVIOUS
  <2>2. rank[a] < rank[e] /\ rank[e] < rank[b]
    BY <1>1, <2>1 DEF Ranked
  <2> QED
    BY <1>1, <2>1, <2>2
<1> HIDE DEF my, qv
<1>5. Shape(my, qv)
  <2>1. \A x \in Live : my[x] \in Live /\ qv[my[x]] = x
    BY <1>1, <1>2, <1>3 DEF Shape
  <2>2. \A x \in Live : qv[x] \in Live /\ my[qv[x]] = x
    BY <1>1, <1>2, <1>3 DEF Shape
  <2> QED
    BY <1>1, <1>2, <2>1, <2>2 DEF Shape
<1>6. Ranked(my, rank)
  <2>1. ASSUME NEW x \in Live \ {HEAD}, my[x] \notin {x, HEAD}
        PROVE  rank[my[x]] < rank[x]
    <3>1. CASE x \notin {b, e}
      BY <1>1, <1>2, <2>1, <3>1 DEF Ranked
    <3>2. CASE x = b /\ b # e
      <4>1. rank[e] < rank[b]
        BY <1>1, <2>1, <3>2 DEF Ranked
      <4>2. rank[a] < rank[e]
        BY <1>1, <1>2, <1>3, <2>1, <3>2 DEF Ranked
      <4> QED
        BY <1>1, <1>2, <3>2, <4>1, <4>2
    <3> QED
      BY <1>2, <2>1, <3>1, <3>2
  <2> QED
    BY <2>1 DEF Ranked
<1>7. a = HEAD \/ a = e \/ my[a] # a
  BY <1>1, <1>2, <1>4, <1>5 DEF Shape
<1> QED
  BY <1>1, <1>2, <1>4, <1>5, <1>6, <1>7

LEMMA Inv_prepare_to_wait ==
  ASSUME QueueInv, NEW p \in Procs, prepare_to_wait(p)
  PROVE  QueueInv'
<1>1. PICK nx, pv, rank : Queue(nx, pv, rank)
  BY DEF QueueInv
<1>2. Types /\ Sections
  BY DEF QueueInv
<1>3. next' = next /\ prev' = prev /\ curr' = curr /\ n' = n
  BY DEF prepare_to_wait
<1>4. CASE /\ pc[p] = "prepare_lock" /\ qlock = NONE /\ qlock' = p
           /\ pc' = [pc EXCEPT ![p] = "prepare"]
           /\ stores' = [stores EXCEPT ![p] =
                           IF list_empty(p) THEN list_add(p, HEAD) ELSE <<>>]
  <2>1. stores[p] = <<>> /\ \A q \in Procs : stores[q] = <<>>
    BY <1>2, <1>4, NoStores, OthersIdle
  <2>2. Still(nx, pv)
    BY <1>1, <2>1, QuietIsStill DEF Queue
  <2>3. Sections'
    BY <1>2, <1>3, <1>4, <2>1, ProcsAssumption DEF Sections, Types, Holding
  <2>4. CASE list_empty(p)
    <3> DEFINE a == nx[HEAD]
    <3>1. p \in Live \ {HEAD} /\ nx[p] = p
      BY <1>4, <2>2, <2>4, ProcsAssumption DEF Live, Waiting, Still, list_empty
    <3>2. PICK my \in Pointers, qv \in Pointers, rk \in [Nodes -> Nat] :
               /\ Shape(my, qv) /\ Ranked(my, rk)
               /\ a \in Live /\ a # p /\ pv[a] = HEAD /\ pv[p] = p
               /\ my[p] = a /\ my[HEAD] = p /\ qv[a] = p /\ qv[p] = HEAD
               /\ \A x \in Nodes \ {p, HEAD} : my[x] = nx[x]
               /\ \A x \in Nodes \ {a, p} : qv[x] = pv[x]
      BY <1>1, <3>1, AddTarget DEF Queue
    <3>3. stores' = [stores EXCEPT ![p] =
                       <<SetPrev(a, p), SetNext(p, a), SetPrev(p, HEAD),
                         SetNext(HEAD, p)>>]
      BY <1>4, <2>2, <2>4 DEF list_add, __list_add, Still
    <3> HIDE DEF a
    <3>4. Types'
      <4>1. p \in Nodes /\ a \in Nodes /\ HEAD \in Nodes
        BY <3>2, LiveNodes DEF Nodes
      <4>2. <<SetPrev(a, p), SetNext(p, a), SetPrev(p, HEAD),
              SetNext(HEAD, p)>> \in Seq(Store)
        BY <4>1, StoreFacts, TupleTypes
      <4> QED
        BY <1>2, <1>3, <1>4, <3>3, <4>2 DEF Types, Waiting
    <3>5. Live' = Live
      BY <1>2, <1>4 DEF Live, Waiting, Types
    <3>6. Adding(p, a, my, qv)'
      <4>1. /\ stores'[p] = <<SetPrev(a, p), SetNext(p, a), SetPrev(p, HEAD),
                              SetNext(HEAD, p)>>
            /\ pc'[p] = "prepare"
        BY <1>2, <1>4, <3>3 DEF Types
      <4>2. next = nx /\ prev = pv /\ nx[HEAD] = a
        BY <2>2 DEF Still, a
      <4> QED
        BY <1>3, <3>1, <3>2, <4>1, <4>2 DEF Adding
    <3>7. Phase(my, qv)'
      BY <3>2, <3>5, <3>6 DEF Phase
    <3>8. Places(my)'
      <4>1. \A q \in Procs : pc'[q] \notin {"walk", "step", "finish"}
        BY <1>2, <1>4, ProcsAssumption DEF Sections, Holding, Types
      <4> QED
        BY <4>1 DEF Places
    <3>9. Queue(my, qv, rk)'
      BY <3>2, <3>5, <3>7, <3>8 DEF Queue, Shape, Ranked
    <3> QED
      BY <2>3, <3>4, <3>9 DEF QueueInv
  <2>5. CASE ~list_empty(p)
    <3>1. stores' = stores
      BY <1>2, <1>4, <2>1, <2>5 DEF Types
    <3>2. Types'
      BY <1>2, <1>3, <1>4, <3>1 DEF Types, Waiting
    <3>3. /\ pc[p] \in Waiting /\ pc'[p] \in Waiting
          /\ pc'[p] \notin {"walk", "step", "finish"}
          /\ \A q \in Procs \ {p} : pc'[q] = pc[q]
      BY <1>2, <1>4 DEF Types, Waiting
    <3>4. Queue(nx, pv, rank)'
      BY <1>1, <1>2, <1>3, <2>1, <3>1, <3>2, <3>3, Moves
    <3> QED
      BY <2>3, <3>2, <3>4 DEF QueueInv
  <2> QED
    BY <2>4, <2>5
<1>5. CASE /\ pc[p] = "prepare" /\ stores[p] = <<>> /\ qlock' = NONE
           /\ pc' = [pc EXCEPT ![p] = "ready"] /\ stores' = stores
  <2>1. Types' /\ Sections'
    BY <1>2, <1>3, <1>5, ProcsAssumption DEF Types, Sections, Waiting, Holding
  <2> QED
    BY <1>1, <1>2, <1>3, <1>5, <2>1, Moves DEF QueueInv, Types, Waiting
<1> QED
  BY <1>4, <1>5 DEF prepare_to_wait, spin_lock, spin_unlock, Goes

\* The holder of the lock starts to take e off, in finish_wait or in a walk.
LEMMA StartDelete ==
  ASSUME Types, NEW nx, NEW pv, NEW rank, Queue(nx, pv, rank), Still(nx, pv),
         NEW h \in Procs, NEW e \in Live \ {HEAD},
         next' = next, prev' = prev, Live' = Live,
         stores' = [stores EXCEPT ![h] = list_del_init(e)],
         \/ pc'[h] = "finish" /\ e = h
         \/ pc'[h] = "step" /\ nx[e] # e /\ n'[h] = nx[e],
         \A q \in Procs \ {h} : pc'[q] \notin {"walk", "step", "finish"}
  PROVE  /\ stores' \in [Procs -> Seq(Store)]
         /\ \E my, qv : Queue(my, qv, rank)'
<1>a. PICK a, b : a = nx[e] /\ b = pv[e]
  OBVIOUS
<1>b. /\ nx \in Pointers /\ pv \in Pointers /\ rank \in [Nodes -> Nat]
      /\ Shape(nx, pv) /\ Ranked(nx, rank)
  BY DEF Queue
<1>0. /\ a \in Live /\ b \in Live /\ pv[a] = e /\ nx[b] = e
      /\ a = e <=> b = e
      /\ a = b => a \in {HEAD, e}
  BY <1>a, <1>b, DelTarget
<1>1. PICK my \in Pointers, qv \in Pointers :
        /\ Shape(my, qv) /\ Ranked(my, rank)
        /\ my[b] = a /\ my[e] = e /\ qv[a] = b /\ qv[e] = e
        /\ \A x \in Nodes \ {b, e} : my[x] = nx[x]
        /\ \A x \in Nodes \ {a, e} : qv[x] = pv[x]
        /\ a = HEAD \/ a = e \/ my[a] # a
  BY <1>a, <1>b, DelTarget
<1>2. next = nx /\ prev = pv
  BY DEF Still
<1>3. e \in Nodes /\ a \in Nodes /\ b \in Nodes
  BY <1>0, LiveNodes
<1>4. /\ nx[e] = a /\ pv[e] = b
      /\ \/ pc'[h] = "finish" /\ e = h
         \/ pc'[h] = "step" /\ a # e /\ n'[h] = a
  BY <1>a
<1>5. /\ SetPrev(a, b) \in Store /\ SetNext(b, a) \in Store
      /\ SetNext(e, e) \in Store /\ SetPrev(e, e) \in Store
  BY <1>3, StoreFacts
<1>6. /\ <<SetPrev(a, b), SetNext(b, a), SetNext(e, e), SetPrev(e, e)>>
            \in Seq(Store)
      /\ list_del_init(e) = <<SetPrev(a, b), SetNext(b, a), SetNext(e, e),
                              SetPrev(e, e)>>
  BY <1>2, <1>4, <1>5, TupleTypes DEF list_del_init, __list_del, INIT_LIST_HEAD
<1>7. /\ stores' \in [Procs -> Seq(Store)]
      /\ stores'[h] = <<SetPrev(a, b), SetNext(b, a), SetNext(e, e),
                        SetPrev(e, e)>>
  BY <1>6 DEF Types
<1>8. Deleting(h, e, a, b, my, qv)'
  BY <1>0, <1>1, <1>2, <1>4, <1>7 DEF Deleting
<1>9. Phase(my, qv)'
  BY <1>0, <1>8 DEF Phase
<1>10. Shape(my, qv)' /\ Ranked(my, rank)'
  BY <1>1 DEF Shape, Ranked
<1>11. Places(my)'
  BY <1>0, <1>1, <1>4 DEF Places
<1>12. Queue(my, qv, rank)'
  BY <1>b, <1>9, <1>10, <1>11 DEF Queue
<1> QED
  BY <1>7, <1>12

LEMMA Inv_finish_wait ==
  ASSUME QueueInv, NEW p \in Procs, finish_wait(p)
  PROVE  QueueInv'
<1>1. PICK nx, pv, rank : Queue(nx, pv, rank)
  BY DEF QueueInv
<1>2. Types /\ Sections
  BY DEF QueueInv
<1>3. curr' = curr /\ n' = n
  BY DEF finish_wait
\* the entry is not empty, or its first pointer only was looked at
<1>4. ASSUME NEW to, pc' = [pc EXCEPT ![p] = to],
             \/ pc[p] = "careful_next" /\ to = "careful_prev" /\ next[p] = p
             \/ pc[p] = "careful_next" /\ to = "finish_lock"
             \/ pc[p] = "careful_prev" /\ to = "finish_lock",
             UNCHANGED <<next, prev, qlock, stores>>
      PROVE  QueueInv'
  <2>1. Types' /\ Sections'
    BY <1>2, <1>3, <1>4 DEF Types, Sections, Waiting, Holding
  <2>2. /\ pc[p] \in Waiting /\ pc'[p] \in Waiting
        /\ pc'[p] \notin {"walk", "step", "finish"}
        /\ \A q \in Procs \ {p} : pc'[q] = pc[q]
    BY <1>2, <1>4 DEF Types, Waiting
  <2>3. stores[p] = <<>>
    BY <1>2, <1>4, NoStores
  <2>4. Queue(nx, pv, rank)'
    BY <1>1, <1>2, <1>3, <1>4, <2>1, <2>2, <2>3, Moves
  <2> QED
    BY <2>1, <2>4 DEF QueueInv
\* the function returns
<1>5. ASSUME pc[p] \in {"careful_prev", "finish"}, Returns(p),
             stores[p] = <<>>, stores' = stores,
             pc[p] = "careful_prev" => qlock' = qlock,
             pc[p] = "finish" => qlock' = NONE,
             nx[p] = p, Apart(p, nx, pv)
      PROVE  QueueInv'
  <2>1. /\ pc' = [pc EXCEPT ![p] = "out"] /\ p \in Nodes
        /\ next' = [next EXCEPT ![p] = NONE]
        /\ prev' = [prev EXCEPT ![p] = NONE]
    BY <1>5 DEF Returns, Goes, Nodes
  <2>2. Types'
    BY <1>2, <1>3, <1>5, <2>1 DEF Types, Pointers
  <2>3. Sections'
    BY <1>2, <1>5, <2>1, ProcsAssumption DEF Types, Sections, Holding, Pointers,
       Nodes
  <2>4. \E my, qv : Queue(my, qv, rank)'
    BY <1>1, <1>2, <1>3, <1>5, Leaves DEF Waiting
  <2> QED
    BY <2>2, <2>3, <2>4 DEF QueueInv
<1>6. CASE list_empty_careful(p) /\ UNCHANGED <<qlock, stores>>
  <2>1. CASE pc[p] = "careful_prev" /\ prev[p] = p /\ Returns(p)
    BY <1>1, <1>2, <1>5, <1>6, <2>1, NoStores, CarefulIsEnough
  <2> QED
    BY <1>4, <1>6, <2>1 DEF list_empty_careful, Goes
<1>7. CASE /\ pc[p] = "finish_lock" /\ qlock = NONE /\ qlock' = p
           /\ pc' = [pc EXCEPT ![p] = "finish"]
           /\ stores' = [stores EXCEPT ![p] = list_del_init(p)]
           /\ UNCHANGED <<next, prev>>
  <2>1. stores[p] = <<>> /\ \A q \in Procs : stores[q] = <<>>
    BY <1>2, <1>7, NoStores, OthersIdle
  <2>2. Still(nx, pv)
    BY <1>1, <2>1, QuietIsStill DEF Queue
  <2>3. Sections'
    BY <1>2, <1>7, <2>1, ProcsAssumption DEF Sections, Types, Holding
  <2>4. Live' = Live /\ p \in Live \ {HEAD} /\ pc'[p] = "finish"
    BY <1>2, <1>7, ProcsAssumption DEF Live, Waiting, Types
  <2>5. \A q \in Procs \ {p} : pc'[q] \notin {"walk", "step", "finish"}
    BY <1>2, <1>7, ProcsAssumption DEF Sections, Holding, Types
  <2>6. /\ stores' \in [Procs -> Seq(Store)]
        /\ \E my, qv : Queue(my, qv, rank)'
    BY <1>1, <1>2, <1>7, <2>2, <2>4, <2>5, StartDelete
  <2>7. Types'
    BY <1>2, <1>3, <1>7, <2>6 DEF Types, Waiting
  <2> QED
    BY <2>3, <2>6, <2>7 DEF QueueInv
<1>8. CASE /\ pc[p] = "finish" /\ stores[p] = <<>> /\ qlock' = NONE
           /\ Returns(p) /\ stores' = stores
  <2>1. \A q \in Procs : stores[q] = <<>>
    BY <1>2, <1>8, OthersIdle DEF Sections, Holding
  <2>2. Still(nx, pv)
    BY <1>1, <2>1, QuietIsStill DEF Queue
  <2>3. nx[p] = p /\ Apart(p, nx, pv)
    BY <1>1, <1>8, <2>2 DEF Queue, Places, Apart
  <2> QED
    BY <1>5, <1>8, <2>3
<1> QED
  BY <1>6, <1>7, <1>8 DEF finish_wait, spin_lock, spin_unlock, Goes

-----------------------------------------------------------------------------
(* The walk *)

\* What follows an entry of the list, or the head, is in the list or the head.
LEMMA NextInList ==
  ASSUME NEW nx, NEW pv, Shape(nx, pv), NEW x \in Live, x = HEAD \/ nx[x] # x
  PROVE  nx[x] \in Live /\ (nx[x] = HEAD \/ nx[nx[x]] # nx[x])
  BY DEF Shape

\* A walk goes on while nobody has stores to do: the pointers stay.
LEMMA WalkGoesOn ==
  ASSUME Types, Sections, NEW nx, NEW pv, NEW rank, Queue(nx, pv, rank),
         Still(nx, pv), NEW p \in Procs, UNCHANGED <<next, prev, stores>>,
         Live' = Live,
         \A q \in Procs \ {p} : pc'[q] \notin {"walk", "step", "finish"},
         \/ /\ pc'[p] = "walk" /\ curr'[p] \in Live
            /\ n'[p] = nx[curr'[p]]
            /\ curr'[p] = HEAD \/ nx[curr'[p]] # curr'[p]
         \/ /\ pc'[p] = "step" /\ n'[p] \in Live
            /\ n'[p] = HEAD \/ nx[n'[p]] # n'[p]
  PROVE  Queue(nx, pv, rank)'
<1>1. Phase(nx, pv)'
  BY DEF Still, Phase
<1>2. Places(nx)'
  BY DEF Places
<1> QED
  BY <1>1, <1>2 DEF Queue, Shape, Ranked

LEMMA Inv___wake_up ==
  ASSUME QueueInv, NEW p \in Procs, __wake_up(p)
  PROVE  QueueInv'
<1>1. PICK nx, pv, rank : Queue(nx, pv, rank)
  BY DEF QueueInv
<1>2. Types /\ Sections /\ Shape(nx, pv)
  BY <1>1 DEF QueueInv, Queue
<1>3. next' = next /\ prev' = prev
  BY DEF __wake_up
<1>4. Live \subseteq Nodes /\ HEAD \in Live /\ p # HEAD
  BY LiveNodes, ProcsAssumption
<1>5. CASE /\ pc[p] = "wake_lock" /\ qlock = NONE /\ qlock' = p
           /\ pc' = [pc EXCEPT ![p] = "walk"]
           /\ curr' = [curr EXCEPT ![p] = next[HEAD]]
           /\ n' = [n EXCEPT ![p] = next[next[HEAD]]]
           /\ stores' = stores
  <2>1. stores[p] = <<>> /\ \A q \in Procs : stores[q] = <<>>
    BY <1>2, <1>5, NoStores, OthersIdle
  <2>2. Still(nx, pv) /\ next = nx
    BY <1>1, <2>1, QuietIsStill DEF Queue, Still
  <2>3. /\ nx[HEAD] \in Live /\ nx[nx[HEAD]] \in Live
        /\ nx[HEAD] = HEAD \/ nx[nx[HEAD]] # nx[HEAD]
    BY <1>2, <1>4, NextInList DEF Shape
  <2>4. Types'
    BY <1>2, <1>3, <1>4, <1>5, <2>2, <2>3 DEF Types, Waking
  <2>5. Sections'
    BY <1>2, <1>3, <1>5, <2>1, ProcsAssumption DEF Sections, Types, Holding
  <2>6. /\ Live' = Live /\ pc'[p] = "walk"
        /\ curr'[p] = nx[HEAD] /\ n'[p] = nx[nx[HEAD]]
        /\ \A q \in Procs \ {p} : pc'[q] \notin {"walk", "step", "finish"}
    <3>1. Live' = Live
      BY <1>2, <1>5 DEF Live, Waiting, Types
    <3>2. \A q \in Procs \ {p} : pc'[q] \notin {"walk", "step", "finish"}
      BY <1>2, <1>5, ProcsAssumption DEF Sections, Holding, Types
    <3> QED
      BY <1>2, <1>5, <2>2, <3>1, <3>2 DEF Types
  <2>7. Queue(nx, pv, rank)'
    BY <1>1, <1>2, <1>3, <1>5, <2>2, <2>3, <2>6, WalkGoesOn
  <2> QED
    BY <2>4, <2>5, <2>7 DEF QueueInv
<1>6. CASE /\ pc[p] = "walk" /\ curr[p] # HEAD
           /\ autoremove_wake_function(p, curr[p])
           /\ UNCHANGED <<qlock, curr, n>>
  <2> DEFINE t == curr[p]
  <2>1. stores[p] = <<>> /\ \A q \in Procs : stores[q] = <<>>
    BY <1>2, <1>6, NoStores, OthersIdle DEF Sections, Holding
  <2>2. Still(nx, pv)
    BY <1>1, <2>1, QuietIsStill DEF Queue
  <2>3. /\ t \in Live \ {HEAD} /\ n[p] = nx[t] /\ nx[t] # t
        /\ nx[t] \in Live /\ (nx[t] = HEAD \/ nx[nx[t]] # nx[t])
    BY <1>1, <1>2, <1>6, NextInList DEF Queue, Places
  <2>4. t \in Procs /\ pc[t] \in Waiting /\ t # p
    BY <1>6, <2>3 DEF Live, Waiting
  <2>5. \A q \in Procs \ {p} : pc[q] \notin {"walk", "step", "finish"}
    BY <1>2, <1>6, OneHolder DEF Holding
  <2> HIDE DEF t
  <2>6. CASE /\ pc[t] = "asleep"
             /\ pc' = [pc EXCEPT ![t] = "woken", ![p] = "step"]
             /\ stores' = [stores EXCEPT ![p] = list_del_init(t)]
    <3>1. /\ pc'[p] = "step" /\ pc'[t] = "woken"
          /\ \A q \in Procs \ {p, t} : pc'[q] = pc[q]
          /\ pc' \in [Procs -> Waiting \cup Waking \cup {"out"}]
      BY <1>2, <2>4, <2>6 DEF Types, Waiting, Waking
    <3>2. Live' = Live
      BY <1>6, <2>4, <2>6, <3>1 DEF Live, Waiting
    <3>3. \A q \in Procs \ {p} : pc'[q] \notin {"walk", "step", "finish"}
      BY <2>5, <3>1
    <3>4. pc'[p] = "step" /\ nx[t] # t /\ n'[p] = nx[t]
      BY <1>6, <2>3, <3>1
    <3>5. /\ stores' \in [Procs -> Seq(Store)]
          /\ \E my, qv : Queue(my, qv, rank)'
      <4>1. /\ t \in Live \ {HEAD}
            /\ stores' = [stores EXCEPT ![p] = list_del_init(t)]
        BY <2>3, <2>6
      <4> QED
        BY <1>1, <1>2, <1>3, <2>2, <3>2, <3>3, <3>4, <4>1, StartDelete
    <3>6. Types'
      BY <1>2, <1>3, <1>6, <3>1, <3>5 DEF Types
    <3>7. Sections'
      <4>1. \A q \in Procs \ {p} : stores'[q] = <<>>
        BY <1>2, <2>1, <2>6 DEF Types
      <4> QED
        BY <1>2, <1>3, <1>6, <2>4, <2>6, <3>1, <4>1 DEF Sections, Holding
    <3> QED
      BY <3>5, <3>6, <3>7 DEF QueueInv
  <2>7. CASE pc' = [pc EXCEPT ![p] = "step"] /\ stores' = stores
    <3>1. pc'[p] = "step" /\ \A q \in Procs \ {p} : pc'[q] = pc[q]
      BY <1>2, <2>7 DEF Types
    <3>2. Live' = Live
      BY <1>6, <3>1 DEF Live, Waiting
    <3>3. \A q \in Procs \ {p} : pc'[q] \notin {"walk", "step", "finish"}
      BY <2>5, <3>1
    <3>4. Queue(nx, pv, rank)'
      <4>1. n'[p] \in Live /\ (n'[p] = HEAD \/ nx[n'[p]] # n'[p])
        BY <1>6, <2>3
      <4> QED
        BY <1>1, <1>2, <1>3, <2>2, <2>7, <3>1, <3>2, <3>3, <4>1, WalkGoesOn
    <3>5. Types'
      BY <1>2, <1>3, <1>6, <2>7 DEF Types, Waking
    <3>6. Sections'
      BY <1>2, <1>3, <1>6, <2>7, <3>1 DEF Sections, Holding
    <3> QED
      BY <3>4, <3>5, <3>6 DEF QueueInv
  <2> QED
    BY <1>6, <2>6, <2>7 DEF autoremove_wake_function, Goes, t
<1>7. CASE /\ pc[p] = "step" /\ stores[p] = <<>>
           /\ pc' = [pc EXCEPT ![p] = "walk"]
           /\ curr' = [curr EXCEPT ![p] = n[p]]
           /\ n' = [n EXCEPT ![p] = next[n[p]]]
           /\ UNCHANGED <<qlock, stores>>
  <2>1. \A q \in Procs : stores[q] = <<>>
    BY <1>2, <1>7, OthersIdle DEF Sections, Holding
  <2>2. Still(nx, pv) /\ next = nx
    BY <1>1, <2>1, QuietIsStill DEF Queue, Still
  <2>3. /\ n[p] \in Live /\ nx[n[p]] \in Live
        /\ n[p] = HEAD \/ nx[n[p]] # n[p]
    BY <1>1, <1>2, <1>7 DEF Queue, Places, Shape
  <2>4. /\ pc'[p] = "walk" /\ \A q \in Procs \ {p} : pc'[q] = pc[q]
        /\ curr'[p] = n[p] /\ n'[p] = nx[n[p]]
    BY <1>2, <1>7, <2>2 DEF Types
  <2>5. Live' = Live
    BY <1>7, <2>4 DEF Live, Waiting
  <2>6. \A q \in Procs \ {p} : pc'[q] \notin {"walk", "step", "finish"}
    BY <1>2, <1>7, <2>4, OneHolder DEF Holding
  <2>7. Queue(nx, pv, rank)'
    BY <1>1, <1>2, <1>3, <1>7, <2>2, <2>3, <2>4, <2>5, <2>6, WalkGoesOn
  <2>8. Types'
    BY <1>2, <1>3, <1>4, <1>7, <2>2, <2>3 DEF Types, Waking
  <2>9. Sections'
    BY <1>2, <1>3, <1>7, <2>4 DEF Sections, Holding
  <2> QED
    BY <2>7, <2>8, <2>9 DEF QueueInv
<1>8. CASE /\ pc[p] = "walk" /\ stores[p] = <<>> /\ qlock' = NONE
           /\ pc' = [pc EXCEPT ![p] = "out"]
           /\ curr' = [curr EXCEPT ![p] = NONE]
           /\ n' = [n EXCEPT ![p] = NONE]
           /\ stores' = stores
  <2>1. Types'
    BY <1>2, <1>3, <1>8 DEF Types
  <2>2. Sections'
    BY <1>2, <1>3, <1>8, ProcsAssumption DEF Types, Sections, Holding
  <2>3. /\ pc[p] \notin Waiting /\ pc'[p] \notin Waiting
        /\ pc'[p] \notin {"walk", "step", "finish"}
        /\ \A q \in Procs \ {p} :
             pc'[q] = pc[q] /\ curr'[q] = curr[q] /\ n'[q] = n[q]
    BY <1>2, <1>8 DEF Types, Waiting
  <2>4. Queue(nx, pv, rank)'
    BY <1>1, <1>2, <1>3, <1>8, <2>1, <2>3, Moves
  <2> QED
    BY <2>1, <2>2, <2>4 DEF QueueInv
<1> QED
  BY <1>5, <1>6, <1>7, <1>8 DEF __wake_up, spin_lock, spin_unlock, Goes,
     Advance

-----------------------------------------------------------------------------
(* The invariant, and what follows *)

LEMMA Inv_Init == Init => QueueInv
<1> SUFFICES ASSUME Init PROVE QueueInv
  OBVIOUS
<1> DEFINE zero == [x \in Nodes |-> 0]
<1>1. Live = {HEAD} /\ HEAD \in Nodes
  BY DEF Init, Live, Waiting, Nodes
<1>2. /\ next \in Pointers /\ prev \in Pointers /\ zero \in [Nodes -> Nat]
      /\ next[HEAD] = HEAD /\ prev[HEAD] = HEAD
      /\ \A x \in Nodes \ {HEAD} : next[x] = NONE /\ prev[x] = NONE
  BY <1>1 DEF Init, Pointers
<1>3. Types
  <2>1. <<>> \in Seq(Store)
    OBVIOUS
  <2> QED
    BY <1>2, <2>1 DEF Init, Types
<1>4. Sections
  BY ProcsAssumption DEF Init, Sections, Holding
<1>5. Shape(next, prev)
  BY <1>1, <1>2 DEF Shape
<1>6. Ranked(next, zero)
  BY <1>1 DEF Ranked
<1>7. Phase(next, prev) /\ Places(next)
  BY DEF Init, Phase, Still, Places
<1>8. Queue(next, prev, zero)
  BY <1>2, <1>5, <1>6, <1>7 DEF Queue
<1> QED
  BY <1>3, <1>4, <1>8 DEF QueueInv

LEMMA Inv_Next == QueueInv /\ [Next]_vars => QueueInv'
<1> SUFFICES ASSUME QueueInv, [Next]_vars PROVE QueueInv'
  OBVIOUS
<1>1. CASE UNCHANGED vars
  <2>1. /\ next' = next /\ prev' = prev /\ qlock' = qlock /\ pc' = pc
        /\ stores' = stores /\ curr' = curr /\ n' = n
    BY <1>1 DEF vars
  <2>2. PICK nx, pv, rank : Queue(nx, pv, rank)
    BY DEF QueueInv
  <2>3. Live' = Live
    BY <2>1 DEF Live
  <2>4. Phase(nx, pv)'
    <3>1. Still(nx, pv) => Still(nx, pv)'
      BY <2>1 DEF Still
    <3>2. \A h \in Procs, a \in Live :
            Adding(h, a, nx, pv) => Adding(h, a, nx, pv)'
      BY <2>1 DEF Adding
    <3>3. \A h \in Procs, e \in Live \ {HEAD}, a, b \in Live :
            Deleting(h, e, a, b, nx, pv) => Deleting(h, e, a, b, nx, pv)'
      BY <2>1 DEF Deleting
    <3> QED
      BY <2>2, <2>3, <3>1, <3>2, <3>3 DEF Queue, Phase
  <2>5. Queue(nx, pv, rank)'
    BY <2>1, <2>2, <2>3, <2>4 DEF Queue, Shape, Ranked, Places
  <2>6. Types' /\ Sections'
    BY <2>1 DEF QueueInv, Types, Sections
  <2> QED
    BY <2>5, <2>6 DEF QueueInv
<1>2. ASSUME NEW p \in Procs,
             DEFINE_WAIT(p) \/ wake_up_all(p) \/ interrupt(p) \/ Steps(p)
      PROVE  QueueInv'
  BY <1>2, Inv_DEFINE_WAIT, Inv_wake_up_all, Inv_interrupt, Inv_StoreStep,
     Inv_prepare_to_wait, Inv_schedule, Inv_finish_wait, Inv___wake_up
     DEF Steps
<1> QED
  BY <1>1, <1>2 DEF Next

\* The pointers are always those of one list, but for the stores that the
\* holder of the lock has still to do.
THEOREM QueueInvariant == Spec => []QueueInv
  BY Inv_Init, Inv_Next, PTL DEF Spec

\* The pointers, the lock and the local variables of a wait queue have their
\* types: no list operation of list.h ever follows, or stores, the pointers
\* of a frame that is gone.
THEOREM WaitListTypes == Spec => []TypeOK
<1>1. ASSUME QueueInv PROVE TypeOK
  <2>1. Types
    BY <1>1 DEF QueueInv
  <2>2. \A p \in Procs : \A i \in DOMAIN stores[p] : stores[p][i] \in Store
    <3>1. SUFFICES ASSUME NEW p \in Procs, NEW i \in DOMAIN stores[p]
                   PROVE  stores[p][i] \in Store
      OBVIOUS
    <3>2. stores[p] \in Seq(Store)
      BY <2>1 DEF Types
    <3>3. i \in 1 .. Len(stores[p])
      BY <3>1, <3>2, LenProperties
    <3> QED
      BY <3>2, <3>3, ElementOfSeq
  <2> QED
    BY <2>1, <2>2 DEF Types, TypeOK, Pointers
<1> QED
  BY <1>1, QueueInvariant, PTL

\* While nobody holds the queue's lock the list is whole: each entry is its
\* neighbours' neighbour, whatever additions and removals came before.
THEOREM DirectionsAlwaysAgree == Spec => []DirectionsAgree
<1>1. ASSUME QueueInv PROVE DirectionsAgree
  <2>1. SUFFICES ASSUME qlock = NONE, NEW x \in Nodes, next[x] # NONE
                 PROVE  prev[next[x]] = x /\ next[prev[x]] = x
    BY DEF DirectionsAgree
  <2>2. PICK nx, pv, rank : Queue(nx, pv, rank)
    BY <1>1 DEF QueueInv
  <2>3. \A p \in Procs : stores[p] = <<>>
    BY <1>1, <2>1, ProcsAssumption DEF QueueInv, Sections, Holding
  <2>4. next = nx /\ prev = pv
    BY <2>2, <2>3, QuietIsStill DEF Queue, Still
  <2>5. x \in Live
    BY <2>1, <2>2, <2>4 DEF Queue, Shape
  <2> QED
    BY <2>2, <2>4, <2>5 DEF Queue, Shape
<1> QED
  BY <1>1, QueueInvariant, PTL

\* Every pointer and every store to come is of a live entry.
LEMMA OnlyLive ==
  ASSUME Types, Sections, NEW nx, NEW pv, NEW rank, Queue(nx, pv, rank)
  PROVE  /\ \A x \in Nodes : /\ next[x] \in Live \cup {NONE}
                              /\ prev[x] \in Live \cup {NONE}
         /\ \A p \in Procs : \A i \in DOMAIN stores[p] :
              stores[p][i].of \in Live
<1> DEFINE Points == \A x \in Nodes : /\ next[x] \in Live \cup {NONE}
                                      /\ prev[x] \in Live \cup {NONE}
           Writes == \A p \in Procs : \A i \in DOMAIN stores[p] :
                       stores[p][i].of \in Live
<1>1. \A x \in Nodes : nx[x] \in Live \cup {NONE} /\ pv[x] \in Live \cup {NONE}
  BY DEF Queue, Shape
<1>2. ASSUME NEW h \in Procs, NEW s1 \in Store, NEW s2 \in Store,
             NEW s3 \in Store, NEW s4 \in Store,
             s1.of \in Live, s2.of \in Live, s3.of \in Live, s4.of \in Live,
             \/ stores[h] = <<s1, s2, s3, s4>> \/ stores[h] = <<s2, s3, s4>>
             \/ stores[h] = <<s3, s4>> \/ stores[h] = <<s4>>
      PROVE  \A i \in DOMAIN stores[h] : stores[h][i].of \in Live
  <2>1. CASE stores[h] = <<s1, s2, s3, s4>>
    <3>1. DOMAIN stores[h] = {1, 2, 3, 4}
      BY <2>1
    <3> QED
      BY <1>2, <2>1, <3>1
  <2>2. CASE stores[h] = <<s2, s3, s4>>
    <3>1. DOMAIN stores[h] = {1, 2, 3}
      BY <2>2
    <3> QED
      BY <1>2, <2>2, <3>1
  <2>3. CASE stores[h] = <<s3, s4>>
    <3>1. DOMAIN stores[h] = {1, 2}
      BY <2>3
    <3> QED
      BY <1>2, <2>3, <3>1
  <2>4. CASE stores[h] = <<s4>>
    <3>1. DOMAIN stores[h] = {1}
      BY <2>4
    <3> QED
      BY <1>2, <2>4, <3>1
  <2> QED
    BY <1>2, <2>1, <2>2, <2>3, <2>4
<1>3. DOMAIN <<>> = {}
  OBVIOUS
<1>4. ASSUME Still(nx, pv)
      PROVE  Points /\ Writes
  BY <1>1, <1>3, <1>4 DEF Still
<1>5. ASSUME NEW h \in Procs, NEW a \in Live, Adding(h, a, nx, pv)
      PROVE  Points /\ Writes
  <2>1. h \in Live /\ HEAD \in Live
    BY <1>5 DEF Adding, Live, Waiting
  <2>2. h \in Nodes /\ a \in Nodes /\ HEAD \in Nodes
    BY <2>1, LiveNodes
  <2>3. Points
    BY <1>1, <1>5, <2>1, <2>2 DEF Adding
  <2>4. \A i \in DOMAIN stores[h] : stores[h][i].of \in Live
    <3>1. /\ SetPrev(a, h) \in Store /\ SetPrev(a, h).of \in Live
          /\ SetNext(h, a) \in Store /\ SetNext(h, a).of \in Live
          /\ SetPrev(h, HEAD) \in Store /\ SetPrev(h, HEAD).of \in Live
          /\ SetNext(HEAD, h) \in Store /\ SetNext(HEAD, h).of \in Live
      BY <2>1, <2>2, StoreFacts
    <3> QED
      BY <1>2, <1>5, <3>1 DEF Adding
  <2>5. \A q \in Procs \ {h} : stores[q] = <<>>
    BY <1>5, OnlyHolder DEF Adding, Holding
  <2> QED
    BY <1>3, <2>3, <2>4, <2>5
<1>6. ASSUME NEW h \in Procs, NEW e \in Live \ {HEAD}, NEW a \in Live,
             NEW b \in Live, Deleting(h, e, a, b, nx, pv)
      PROVE  Points /\ Writes
  <2>1. e \in Nodes /\ a \in Nodes /\ b \in Nodes
    BY LiveNodes
  <2>2. Points
    BY <1>1, <1>6, <2>1 DEF Deleting
  <2>3. \A i \in DOMAIN stores[h] : stores[h][i].of \in Live
    <3>1. /\ SetPrev(a, b) \in Store /\ SetPrev(a, b).of \in Live
          /\ SetNext(b, a) \in Store /\ SetNext(b, a).of \in Live
          /\ SetNext(e, e) \in Store /\ SetNext(e, e).of \in Live
          /\ SetPrev(e, e) \in Store /\ SetPrev(e, e).of \in Live
      BY <2>1, StoreFacts
    <3> QED
      BY <1>2, <1>6, <3>1 DEF Deleting
  <2>4. \A q \in Procs \ {h} : stores[q] = <<>>
    BY <1>6, OnlyHolder DEF Deleting, Holding
  <2> QED
    BY <1>3, <2>2, <2>3, <2>4
<1> HIDE DEF Points, Writes
<1>7. Points /\ Writes
  BY <1>4, <1>5, <1>6 DEF Queue, Phase
<1> QED
  BY <1>7 DEF Points, Writes

\* finish_wait may leave without the lock: nobody reads or writes a waiter's
\* stack frame after its function has returned.
THEOREM StackAlwaysSafe == Spec => []StackSafe
<1>1. ASSUME QueueInv PROVE StackSafe
  <2>1. SUFFICES ASSUME NEW w \in Procs, pc[w] \notin Waiting
                 PROVE  /\ \A p \in Procs : w \notin Touched(p)
                        /\ \A x \in Nodes : next[x] # w /\ prev[x] # w
    BY DEF StackSafe
  <2>2. PICK nx, pv, rank : Queue(nx, pv, rank)
    BY <1>1 DEF QueueInv
  <2>3. w \notin Live \cup {NONE}
    BY <2>1, ProcsAssumption DEF Live
  <2>4. /\ \A x \in Nodes : /\ next[x] \in Live \cup {NONE}
                             /\ prev[x] \in Live \cup {NONE}
        /\ \A p \in Procs : \A i \in DOMAIN stores[p] :
             stores[p][i].of \in Live
    BY <1>1, <2>2, OnlyLive DEF QueueInv
  <2>5. \A p \in Procs :
          /\ pc[p] = "walk" => curr[p] \in Live /\ n[p] \in Live
          /\ pc[p] = "step" => n[p] \in Live
    BY <2>2 DEF Queue, Places, Shape
  <2> QED
    BY <2>3, <2>4, <2>5 DEF Touched
<1> QED
  BY <1>1, QueueInvariant, PTL

-----------------------------------------------------------------------------
(* Lists that pointers make *)

Distinct(L) == \A i, j \in 1 .. Len(L) : L[i] = L[j] => i = j

LEMMA NodeFacts ==
  ASSUME NEW L \in Seq(Procs)
  PROVE  /\ Len(L) \in Nat
         /\ \A i \in 1 .. Len(L) : Node(L, i) = L[i] /\ L[i] \in Procs
         /\ \A i \in Int : i \notin 1 .. Len(L) => Node(L, i) = HEAD
         /\ \A i \in Int : Node(L, i) \in Nodes
         /\ \A i \in Int : Node(L, i) # HEAD => i \in 1 .. Len(L)
<1>1. Len(L) \in Nat /\ DOMAIN L = 1 .. Len(L)
  BY LenProperties
<1>2. \A i \in 1 .. Len(L) : L[i] \in Procs
  BY ElementOfSeq
<1> QED
  BY <1>1, <1>2, ProcsAssumption DEF Node, Nodes

\* The head and the entries of a list without repetition are all different.
LEMMA NodesDiffer ==
  ASSUME NEW L \in Seq(Procs), Distinct(L),
         NEW i \in 0 .. Len(L), NEW j \in 0 .. Len(L), Node(L, i) = Node(L, j)
  PROVE  i = j
<1>1. Len(L) \in Nat
  BY NodeFacts
<1>2. CASE i = 0 \/ j = 0
  BY <1>1, <1>2, NodeFacts, ProcsAssumption
<1>3. CASE i \in 1 .. Len(L) /\ j \in 1 .. Len(L)
  BY <1>3, NodeFacts DEF Distinct
<1> QED
  BY <1>1, <1>2, <1>3

\* A non-empty set of naturals has a least element.
LEMMA LeastNatural ==
  ASSUME NEW D, D \subseteq Nat, D # {}
  PROVE  \E m \in D : \A k \in D : m <= k
<1>1. \E m \in D : \A k \in D : ~(<<k, m>> \in OpToRel(<, Nat))
  BY NatLessThanWellFounded, WFMin
<1>2. PICK m \in D : \A k \in D : ~(<<k, m>> \in OpToRel(<, Nat))
  BY <1>1
<1>3. \A k \in D : ~(k < m)
  BY <1>2 DEF OpToRel
<1> QED
  BY <1>3

\* Following the same pointers one meets the same entries.
LEMMA OneList ==
  ASSUME NEW f, NEW L \in Seq(Procs), NEW M \in Seq(Procs),
         Forward(f, L), Forward(f, M)
  PROVE  L = M
<1>0. Len(L) \in Nat /\ Len(M) \in Nat
  BY NodeFacts
<1>1. \A i \in Nat : Node(L, i) = Node(M, i)
  <2> DEFINE D == {i \in Nat : Node(L, i) # Node(M, i)}
  <2>1. SUFFICES ASSUME D # {} PROVE FALSE
    OBVIOUS
  <2>2. PICK m \in D : \A k \in D : m <= k
    BY <2>1, LeastNatural
  <2>3. m \in Nat /\ Node(L, m) # Node(M, m)
    BY <2>2
  <2>4. m # 0
    BY <1>0, <2>3, NodeFacts
  <2>5. \A k \in 0 .. m - 1 : Node(L, k) = Node(M, k)
    BY <2>2, <2>3
  <2> HIDE DEF D
  <2>6. CASE m - 1 <= Len(L) /\ m - 1 <= Len(M)
    <3>1. m - 1 \in 0 .. Len(L) /\ m - 1 \in 0 .. Len(M) /\ m - 1 + 1 = m
      BY <1>0, <2>3, <2>4, <2>6
    <3>2. /\ f[Node(L, m - 1)] = Node(L, m - 1 + 1)
          /\ f[Node(M, m - 1)] = Node(M, m - 1 + 1)
      BY <3>1 DEF Forward
    <3>3. Node(L, m - 1) = Node(M, m - 1)
      BY <2>3, <2>4, <2>5
    <3> QED
      BY <2>3, <3>1, <3>2, <3>3
  <2>7. CASE m - 1 > Len(L)
    <3>1. Node(L, m) = HEAD /\ Node(L, Len(L) + 1) = HEAD
      BY <1>0, <2>3, <2>7, NodeFacts
    <3>2. Node(M, Len(L) + 1) = HEAD
      BY <1>0, <2>3, <2>5, <2>7, <3>1
    <3>3. Len(M) <= Len(L)
      BY <1>0, <3>2, NodeFacts, ProcsAssumption
    <3>4. Node(M, m) = HEAD
      BY <1>0, <2>3, <2>7, <3>3, NodeFacts
    <3> QED
      BY <2>3, <3>1, <3>4
  <2>8. CASE m - 1 > Len(M)
    <3>1. Node(M, m) = HEAD /\ Node(M, Len(M) + 1) = HEAD
      BY <1>0, <2>3, <2>8, NodeFacts
    <3>2. Node(L, Len(M) + 1) = HEAD
      BY <1>0, <2>3, <2>5, <2>8, <3>1
    <3>3. Len(L) <= Len(M)
      BY <1>0, <3>2, NodeFacts, ProcsAssumption
    <3>4. Node(L, m) = HEAD
      BY <1>0, <2>3, <2>8, <3>3, NodeFacts
    <3> QED
      BY <2>3, <3>1, <3>4
  <2> QED
    BY <1>0, <2>3, <2>6, <2>7, <2>8
<1>2. Len(L) = Len(M)
  <2>1. CASE Len(L) < Len(M)
    BY <1>0, <1>1, <2>1, NodeFacts, ProcsAssumption
  <2>2. CASE Len(M) < Len(L)
    BY <1>0, <1>1, <2>2, NodeFacts, ProcsAssumption
  <2> QED
    BY <1>0, <2>1, <2>2
<1>3. \A i \in 1 .. Len(L) : L[i] = M[i]
  BY <1>0, <1>1, <1>2, NodeFacts
<1> QED
  BY <1>2, <1>3, SeqEqual

\* The refinement mapping finds the list.
LEMMA ListOfIs ==
  ASSUME NEW f, NEW L \in Seq(Procs), Distinct(L), Forward(f, L)
  PROVE  ListOf(f) = L
<1> DEFINE N == Cardinality(Procs)
           Lists == {M \in SeqOf(Procs, N) : Forward(f, M)}
<1>1. L \in [1 .. Len(L) -> Procs] /\ Len(L) \in Nat
  BY LenProperties
<1>2. N \in Nat /\ Len(L) <= N
  <2>1. N \in Nat
    BY FS_CardinalityType, ProcsAssumption
  <2>2. L \in Injection(1 .. Len(L), Procs)
    BY <1>1 DEF Distinct, Injection, IsInjective
  <2>3. Cardinality(1 .. Len(L)) <= N
    BY <2>2, FS_Injection, ProcsAssumption
  <2>4. Cardinality(1 .. Len(L)) = Len(L)
    <3>1. 1 \in Int /\ Len(L) \in Int
      BY <1>1
    <3>2. Cardinality(1 .. Len(L)) = IF 1 > Len(L) THEN 0 ELSE Len(L) - 1 + 1
      BY <3>1, FS_Interval
    <3> QED
      BY <1>1, <3>2
  <2> QED
    BY <2>1, <2>3, <2>4
<1>3. L \in Lists
  BY <1>1, <1>2 DEF SeqOf
<1>4. ASSUME NEW M \in Lists PROVE M = L
  <2>1. PICK m \in 0 .. N : M \in [1 .. m -> Procs]
    BY DEF SeqOf
  <2>2. M \in Seq(Procs)
    BY <2>1
  <2> QED
    BY <2>2, OneList
<1>5. ListOf(f) = CHOOSE M \in Lists : TRUE
  BY <1>3 DEF ListOf
<1> HIDE DEF Lists
<1> QED
  BY <1>3, <1>4, <1>5

LEMMA RemoveAtProperties ==
  ASSUME NEW S, NEW q \in Seq(S), NEW i \in 1 .. Len(q)
  PROVE  /\ RemoveAt(q, i) \in Seq(S)
         /\ Len(RemoveAt(q, i)) = Len(q) - 1
         /\ \A k \in 1 .. Len(q) - 1 :
              RemoveAt(q, i)[k] = IF k < i THEN q[k] ELSE q[k + 1]
<1> DEFINE a == SubSeq(q, 1, i - 1)
           b == SubSeq(q, i + 1, Len(q))
<1>1. Len(q) \in Nat /\ i \in Nat /\ i >= 1 /\ i <= Len(q)
  BY LenProperties
<1>2. /\ a \in Seq(S)
      /\ Len(a) = i - 1
      /\ \A k \in 1 .. i - 1 : a[k] = q[k]
  <2>1. 1 \in Int /\ i - 1 \in Int /\ \A k \in 1 .. i - 1 : q[k] \in S
    BY <1>1, ElementOfSeq
  <2>2. /\ a \in Seq(S)
        /\ Len(a) = IF 1 <= i - 1 THEN i - 1 - 1 + 1 ELSE 0
        /\ \A k \in 1 .. i - 1 - 1 + 1 : a[k] = q[1 + k - 1]
    BY <2>1, SubSeqProperties
  <2> QED
    BY <1>1, <2>2
<1>3. /\ b \in Seq(S)
      /\ Len(b) = Len(q) - i
      /\ \A k \in 1 .. Len(q) - i : b[k] = q[i + k]
  <2>1. i + 1 \in Int /\ Len(q) \in Int /\ \A k \in i + 1 .. Len(q) : q[k] \in S
    BY <1>1, ElementOfSeq
  <2>2. /\ b \in Seq(S)
        /\ Len(b) = IF i + 1 <= Len(q) THEN Len(q) - (i + 1) + 1 ELSE 0
        /\ \A k \in 1 .. Len(q) - (i + 1) + 1 : b[k] = q[(i + 1) + k - 1]
    BY <2>1, SubSeqProperties
  <2> QED
    BY <1>1, <2>2
<1> HIDE DEF a, b
<1>4. /\ a \o b \in Seq(S)
      /\ Len(a \o b) = Len(a) + Len(b)
      /\ \A k \in 1 .. Len(a) + Len(b) :
           (a \o b)[k] = IF k <= Len(a) THEN a[k] ELSE b[k - Len(a)]
  BY <1>2, <1>3, ConcatProperties
<1>5. RemoveAt(q, i) = a \o b
  BY DEF RemoveAt, a, b
<1>6. ASSUME NEW k \in 1 .. Len(q) - 1
      PROVE  (a \o b)[k] = IF k < i THEN q[k] ELSE q[k + 1]
  <2>1. (a \o b)[k] = IF k <= Len(a) THEN a[k] ELSE b[k - Len(a)]
    BY <1>1, <1>2, <1>3, <1>4
  <2>2. CASE k < i
    BY <2>1, <2>2, <1>1, <1>2
  <2>3. CASE ~(k < i)
    <3>1. k - Len(a) \in 1 .. Len(q) - i /\ ~(k <= Len(a))
      BY <2>3, <1>1, <1>2
    <3>2. b[k - Len(a)] = q[i + (k - Len(a))]
      BY <3>1, <1>3
    <3>3. i + (k - Len(a)) = k + 1
      BY <1>1, <1>2
    <3> QED
      BY <2>1, <2>3, <3>1, <3>2, <3>3
  <2> QED
    BY <2>2, <2>3
<1>7. Len(a \o b) = Len(q) - 1
  BY <1>1, <1>2, <1>3, <1>4
<1> QED
  BY <1>4, <1>5, <1>6, <1>7

\* The pointers of entries outside a list do not matter to it.
LEMMA OutsideList ==
  ASSUME NEW f, NEW g, NEW L \in Seq(Procs), Forward(f, L),
         \A i \in 0 .. Len(L) : g[Node(L, i)] = f[Node(L, i)]
  PROVE  Forward(g, L)
  BY DEF Forward

\* An entry of a list is not its own successor.
LEMMA SelfLoopOutside ==
  ASSUME NEW f, NEW L \in Seq(Procs), Distinct(L), Forward(f, L),
         NEW e \in Procs, f[e] = e
  PROVE  \A i \in 0 .. Len(L) : Node(L, i) # e
<1>1. SUFFICES ASSUME NEW i \in 0 .. Len(L), Node(L, i) = e
               PROVE  FALSE
  OBVIOUS
<1>2. Len(L) \in Nat /\ e # HEAD
  BY NodeFacts, ProcsAssumption
<1>3. Node(L, i + 1) = e
  BY <1>1 DEF Forward
<1>4. i + 1 \in 0 .. Len(L)
  BY <1>1, <1>2, <1>3, NodeFacts
<1> QED
  BY <1>1, <1>2, <1>3, <1>4, NodesDiffer

\* An entry that points where the head points can be put in front.
LEMMA FrontList ==
  ASSUME NEW f \in Pointers, NEW L \in Seq(Procs), Distinct(L), Forward(f, L),
         NEW e \in Procs, f[e] = f[HEAD]
  PROVE  /\ ~Contains(L, e)
         /\ Cons(e, L) \in Seq(Procs) /\ Distinct(Cons(e, L))
         /\ Forward([f EXCEPT ![HEAD] = e], Cons(e, L))
<1>1. /\ Len(L) \in Nat /\ e # HEAD /\ e \in Nodes /\ HEAD \in Nodes
      /\ 0 \in 0 .. Len(L)
  BY NodeFacts, ProcsAssumption DEF Nodes
<1>2. ~Contains(L, e)
  <2>1. SUFFICES ASSUME NEW i \in 1 .. Len(L), L[i] = e
                 PROVE  FALSE
    BY DEF Contains
  <2>2. i \in 0 .. Len(L) /\ Node(L, i) = e /\ Node(L, 0) = HEAD
    BY <1>1, <2>1, NodeFacts
  <2>3. Node(L, i + 1) = Node(L, 0 + 1)
    BY <1>1, <2>2 DEF Forward
  <2>4. CASE i + 1 \in 0 .. Len(L)
    <3>1. 0 + 1 \in 0 .. Len(L)
      BY <1>1, <2>1, <2>4
    <3>2. i + 1 = 0 + 1
      BY <2>3, <2>4, <3>1, NodesDiffer
    <3> QED
      BY <2>1, <3>2
  <2>5. CASE i + 1 \notin 0 .. Len(L)
    <3>1. Node(L, i + 1) = HEAD
      BY <1>1, <2>1, <2>5, NodeFacts
    <3>2. 0 + 1 \in 1 .. Len(L)
      BY <1>1, <2>1
    <3>3. Node(L, 0 + 1) \in Procs
      BY <3>2, NodeFacts
    <3> QED
      BY <2>3, <3>1, <3>3, ProcsAssumption
  <2> QED
    BY <2>4, <2>5
<1>3. PICK M : M = Cons(e, L)
  OBVIOUS
<1>4. /\ M \in Seq(Procs) /\ Len(M) = Len(L) + 1 /\ M[1] = e
      /\ \A k \in 2 .. Len(L) + 1 : M[k] = L[k - 1]
  <2>1. <<e>> \in Seq(Procs) /\ Len(<<e>>) = 1 /\ <<e>>[1] = e
    OBVIOUS
  <2>2. /\ M \in Seq(Procs) /\ Len(M) = 1 + Len(L)
        /\ \A k \in 1 .. 1 + Len(L) :
             M[k] = IF k <= 1 THEN <<e>>[k] ELSE L[k - 1]
    BY <1>3, <2>1, ConcatProperties DEF Cons
  <2> QED
    BY <1>1, <2>1, <2>2
<1>5. /\ Node(M, 0) = HEAD /\ Node(M, 1) = e
      /\ \A k \in 2 .. Len(L) + 2 : Node(M, k) = Node(L, k - 1)
  <2>1. Node(M, 0) = HEAD /\ Node(M, 1) = e
    BY <1>1, <1>4, NodeFacts
  <2>2. ASSUME NEW k \in 2 .. Len(L) + 2
        PROVE  Node(M, k) = Node(L, k - 1)
    <3>1. CASE k = Len(L) + 2
      BY <1>1, <1>4, <3>1, NodeFacts
    <3>2. CASE k # Len(L) + 2
      <4>1. k \in 2 .. Len(L) + 1 /\ k \in 1 .. Len(M) /\ k - 1 \in 1 .. Len(L)
        BY <1>1, <1>4, <3>2
      <4> QED
        BY <1>4, <4>1, NodeFacts
    <3> QED
      BY <3>1, <3>2
  <2> QED
    BY <2>1, <2>2
<1>6. Distinct(M)
  <2>1. SUFFICES ASSUME NEW i \in 1 .. Len(L) + 1, NEW j \in 1 .. Len(L) + 1,
                        M[i] = M[j]
                 PROVE  i = j
    BY <1>4 DEF Distinct
  <2>2. \A k \in 1 .. Len(L) + 1 : k # 1 => /\ k - 1 \in 1 .. Len(L)
                                             /\ M[k] = L[k - 1]
                                             /\ M[k] # e
    BY <1>1, <1>2, <1>4 DEF Contains
  <2>3. i # 1 /\ j # 1 => i - 1 = j - 1
    BY <2>1, <2>2 DEF Distinct
  <2> QED
    BY <1>1, <1>4, <2>1, <2>2, <2>3
<1> DEFINE g == [f EXCEPT ![HEAD] = e]
<1>7. g[HEAD] = e /\ \A x \in Nodes \ {HEAD} : g[x] = f[x]
  BY <1>1 DEF Pointers
<1> HIDE DEF g
<1>8. Forward(g, M)
  <2>1. SUFFICES ASSUME NEW i \in 0 .. Len(L) + 1
                 PROVE  g[Node(M, i)] = Node(M, i + 1)
    BY <1>4 DEF Forward
  <2>2. CASE i = 0
    BY <1>5, <1>7, <2>2
  <2>3. CASE i = 1
    <3>1. Node(M, 2) = Node(L, 1)
      BY <1>1, <1>5
    <3>2. f[HEAD] = Node(L, 0 + 1)
      BY <1>1, NodeFacts DEF Forward
    <3> QED
      BY <1>1, <1>5, <1>7, <2>3, <3>1, <3>2
  <2>4. CASE i \notin {0, 1}
    <3>1. i - 1 \in 1 .. Len(L) /\ i \in 2 .. Len(L) + 2
          /\ i + 1 \in 2 .. Len(L) + 2 /\ i - 1 \in 0 .. Len(L)
          /\ i + 1 - 1 = i /\ i - 1 + 1 = i
      BY <1>1, <2>1, <2>4
    <3>2. Node(M, i) = Node(L, i - 1) /\ Node(M, i + 1) = Node(L, i)
      BY <1>5, <3>1
    <3>3. Node(L, i - 1) \in Nodes \ {HEAD}
      BY <3>1, NodeFacts, ProcsAssumption DEF Nodes
    <3>4. f[Node(L, i - 1)] = Node(L, i)
      BY <3>1 DEF Forward
    <3> QED
      BY <1>7, <3>2, <3>3, <3>4
  <2> QED
    BY <2>2, <2>3, <2>4
<1> QED
  BY <1>2, <1>3, <1>4, <1>6, <1>8 DEF g

\* A pointer that skips the next entry takes it out of the list.
LEMMA SkipList ==
  ASSUME NEW f \in Pointers, NEW L \in Seq(Procs), Distinct(L), Forward(f, L),
         NEW j \in 0 .. Len(L), f[Node(L, j)] \in Procs
  PROVE  LET g == [f EXCEPT ![Node(L, j)] = f[f[Node(L, j)]]]
             M == RemoveAt(L, j + 1)
         IN  /\ j + 1 \in 1 .. Len(L) /\ L[j + 1] = f[Node(L, j)]
             /\ M \in Seq(Procs) /\ Distinct(M) /\ Forward(g, M)
<1> DEFINE g == [f EXCEPT ![Node(L, j)] = f[f[Node(L, j)]]]
<1>1. Len(L) \in Nat /\ j \in Nat /\ f[Node(L, j)] = Node(L, j + 1)
  BY NodeFacts DEF Forward
<1>2. /\ j + 1 \in 1 .. Len(L) /\ j + 1 \in 0 .. Len(L) /\ j + 1 \in Int
      /\ L[j + 1] = f[Node(L, j)]
  BY <1>1, NodeFacts, ProcsAssumption
<1>3. PICK M : M = RemoveAt(L, j + 1)
  OBVIOUS
<1>4. /\ M \in Seq(Procs) /\ Len(M) = Len(L) - 1
      /\ \A k \in 1 .. Len(L) - 1 :
           M[k] = IF k < j + 1 THEN L[k] ELSE L[k + 1]
  BY <1>2, <1>3, RemoveAtProperties
<1>5. Distinct(M)
  <2>1. SUFFICES ASSUME NEW i \in 1 .. Len(L) - 1, NEW k \in 1 .. Len(L) - 1,
                        M[i] = M[k]
                 PROVE  i = k
    BY <1>4 DEF Distinct
  <2> DEFINE at(l) == IF l < j + 1 THEN l ELSE l + 1
  <2>2. /\ at(i) \in 1 .. Len(L) /\ at(k) \in 1 .. Len(L)
        /\ M[i] = L[at(i)] /\ M[k] = L[at(k)]
    BY <1>1, <1>4, <2>1
  <2>3. at(i) = at(k)
    BY <2>1, <2>2 DEF Distinct
  <2> QED
    BY <1>1, <2>1, <2>3
<1>6. \A k \in 0 .. Len(L) :
        Node(M, k) = IF k < j + 1 THEN Node(L, k) ELSE Node(L, k + 1)
  <2>1. SUFFICES ASSUME NEW k \in 0 .. Len(L)
                 PROVE  Node(M, k) = IF k < j + 1 THEN Node(L, k)
                                     ELSE Node(L, k + 1)
    OBVIOUS
  <2>2. CASE k = 0
    BY <1>1, <1>4, <2>2, NodeFacts
  <2>3. CASE k = Len(L)
    BY <1>1, <1>2, <1>4, <2>3, NodeFacts
  <2>4. CASE k \in 1 .. Len(L) - 1
    <3>1. k \in 1 .. Len(M) /\ k \in 1 .. Len(L) /\ k + 1 \in 1 .. Len(L)
      BY <1>1, <1>4, <2>4
    <3>2. /\ Node(M, k) = M[k] /\ Node(L, k) = L[k]
          /\ Node(L, k + 1) = L[k + 1]
      BY <1>4, <3>1, NodeFacts
    <3> QED
      BY <1>4, <2>4, <3>2
  <2> QED
    BY <1>1, <2>1, <2>2, <2>3, <2>4
<1>7. /\ g[Node(L, j)] = Node(L, j + 1 + 1)
      /\ \A k \in 0 .. Len(L) : k # j => g[Node(L, k)] = Node(L, k + 1)
  <2>1. f[f[Node(L, j)]] = Node(L, j + 1 + 1)
    BY <1>1, <1>2 DEF Forward
  <2>2. Node(L, j) \in Nodes
    BY <1>1, NodeFacts
  <2>3. g[Node(L, j)] = Node(L, j + 1 + 1)
    BY <2>1, <2>2 DEF Pointers
  <2>4. ASSUME NEW k \in 0 .. Len(L), k # j
        PROVE  g[Node(L, k)] = Node(L, k + 1)
    <3>1. Node(L, k) # Node(L, j)
      BY <2>4, NodesDiffer
    <3>2. Node(L, k) \in Nodes
      BY <1>1, <2>4, NodeFacts
    <3>3. f[Node(L, k)] = Node(L, k + 1)
      BY <2>4 DEF Forward
    <3> QED
      BY <3>1, <3>2, <3>3 DEF Pointers
  <2> QED
    BY <2>3, <2>4
<1> HIDE DEF g
<1>8. Forward(g, M)
  <2>1. SUFFICES ASSUME NEW k \in 0 .. Len(L) - 1
                 PROVE  g[Node(M, k)] = Node(M, k + 1)
    BY <1>4 DEF Forward
  <2>2. k \in 0 .. Len(L) /\ k + 1 \in 0 .. Len(L) /\ k \in Int
    BY <1>1, <2>1
  <2>3. CASE k < j
    <3>1. Node(M, k) = Node(L, k) /\ Node(M, k + 1) = Node(L, k + 1)
      BY <1>1, <1>6, <2>2, <2>3
    <3> QED
      BY <1>7, <2>2, <2>3, <3>1
  <2>4. CASE k = j
    <3>1. Node(M, k) = Node(L, j) /\ Node(M, k + 1) = Node(L, j + 1 + 1)
      BY <1>1, <1>6, <2>2, <2>4
    <3> QED
      BY <1>7, <3>1
  <2>5. CASE k > j
    <3>1. Node(M, k) = Node(L, k + 1) /\ Node(M, k + 1) = Node(L, k + 1 + 1)
      BY <1>1, <1>6, <2>2, <2>5
    <3>2. k + 1 # j
      BY <1>1, <2>2, <2>5
    <3> QED
      BY <1>7, <2>2, <3>1, <3>2
  <2> QED
    BY <1>1, <2>2, <2>3, <2>4, <2>5
<1> QED
  BY <1>2, <1>3, <1>4, <1>5, <1>8 DEF g

-----------------------------------------------------------------------------
(* What a reader of next pointers sees *)

\* What a store does to the next pointers: nothing; it changes the pointer of
\* an entry that points to itself; it has the head point to an entry that
\* points where the head does; it skips an entry; or it changes the pointer
\* of an entry to which none points.
LEMMA NextStore ==
  ASSUME QueueInv, NEW p \in Procs, StoreStep(p)
  PROVE  \/ next' = next
         \/ \E e \in Procs, a \in Nodes :
              next[e] = e /\ next' = [next EXCEPT ![e] = a]
         \/ \E e \in Procs :
              next[e] = next[HEAD] /\ next' = [next EXCEPT ![HEAD] = e]
         \/ \E b \in Nodes : /\ next[b] \in Procs
                             /\ next' = [next EXCEPT ![b] = next[next[b]]]
         \/ \E e \in Procs : /\ \A x \in Nodes : next[x] # e
                             /\ next' = [next EXCEPT ![e] = e]
<1>1. PICK nx, pv, rank : Queue(nx, pv, rank)
  BY DEF QueueInv
<1>2. Types /\ Sections /\ stores[p] # <<>>
  BY DEF QueueInv, StoreStep
<1>3. Phase(nx, pv) /\ ~Still(nx, pv)
  BY <1>1, <1>2 DEF Queue, Still
<1>4. ASSUME NEW h \in Procs, NEW a \in Live, Adding(h, a, nx, pv)
      PROVE  \/ next' = next
             \/ next[p] = p /\ a \in Nodes /\ next' = [next EXCEPT ![p] = a]
             \/ next[p] = next[HEAD] /\ next' = [next EXCEPT ![HEAD] = p]
  <2>1. h = p
    BY <1>2, <1>4, OneHolder DEF Sections, Holding, Adding
  <2> DEFINE s1 == SetPrev(a, p)
             s2 == SetNext(p, a)
             s3 == SetPrev(p, HEAD)
             s4 == SetNext(HEAD, p)
  <2>2. /\ a \in Nodes /\ s1 \in Store /\ s2 \in Store /\ s3 \in Store
        /\ s4 \in Store /\ s1.field = "prev" /\ s3.field = "prev"
        /\ s2.field = "next" /\ s2.of = p /\ s2.value = a
        /\ s4.field = "next" /\ s4.of = HEAD /\ s4.value = p
    BY LiveNodes, StoreFacts DEF Nodes
  <2>3. /\ next[HEAD] = a
        /\ \/ stores[p] = <<s1, s2, s3, s4>>
           \/ stores[p] = <<s2, s3, s4>> /\ next[p] = p
           \/ stores[p] = <<s3, s4>>
           \/ stores[p] = <<s4>> /\ next[p] = a
    BY <1>4, <2>1 DEF Adding
  <2> HIDE DEF s1, s2, s3, s4
  <2>4. CASE stores[p] = <<s1, s2, s3, s4>>
    BY <2>2, <2>4, TupleFacts DEF StoreStep
  <2>5. CASE stores[p] = <<s2, s3, s4>> /\ next[p] = p
    BY <2>2, <2>5, TupleFacts DEF StoreStep
  <2>6. CASE stores[p] = <<s3, s4>>
    BY <2>2, <2>6, TupleFacts DEF StoreStep
  <2>7. CASE stores[p] = <<s4>> /\ next[p] = a
    BY <2>2, <2>3, <2>7, TupleFacts DEF StoreStep
  <2> QED
    BY <2>3, <2>4, <2>5, <2>6, <2>7
<1>5. ASSUME NEW h \in Procs, NEW e \in Live \ {HEAD}, NEW a \in Live,
             NEW b \in Live, Deleting(h, e, a, b, nx, pv)
      PROVE  /\ e \in Procs /\ b \in Nodes
             /\ \/ next' = next
                \/ /\ next[b] = e
                   /\ next' = [next EXCEPT ![b] = next[next[b]]]
                \/ /\ \A x \in Nodes : next[x] # e
                   /\ next' = [next EXCEPT ![e] = e]
  <2>1. h = p
    BY <1>2, <1>5, OneHolder DEF Sections, Holding, Deleting
  <2> DEFINE s1 == SetPrev(a, b)
             s2 == SetNext(b, a)
             s3 == SetNext(e, e)
             s4 == SetPrev(e, e)
  <2>2. /\ e \in Nodes /\ a \in Nodes /\ b \in Nodes /\ e \in Procs
        /\ s1 \in Store /\ s2 \in Store /\ s3 \in Store /\ s4 \in Store
        /\ s1.field = "prev" /\ s4.field = "prev"
        /\ s2.field = "next" /\ s2.of = b /\ s2.value = a
        /\ s3.field = "next" /\ s3.of = e /\ s3.value = e
    BY LiveNodes, StoreFacts DEF Live
  <2>3. \/ stores[p] = <<s1, s2, s3, s4>>
        \/ stores[p] = <<s2, s3, s4>> /\ next[b] = e /\ next[e] = a
        \/ stores[p] = <<s3, s4>> /\ next[b] = a /\ next[e] = a
        \/ stores[p] = <<s4>>
    BY <1>5, <2>1 DEF Deleting
  <2> HIDE DEF s1, s2, s3, s4
  <2>4. CASE stores[p] = <<s1, s2, s3, s4>>
    BY <2>2, <2>4, TupleFacts DEF StoreStep
  <2>5. CASE stores[p] = <<s2, s3, s4>> /\ next[b] = e /\ next[e] = a
    BY <2>2, <2>5, TupleFacts DEF StoreStep
  <2>6. CASE stores[p] = <<s3, s4>> /\ next[b] = a /\ next[e] = a
    <3>1. next' = [next EXCEPT ![e] = e]
      BY <2>2, <2>6, TupleFacts DEF StoreStep
    <3>2. CASE a = e
      <4>1. next' = next
        BY <1>2, <2>2, <2>6, <3>1, <3>2 DEF Types, Pointers
      <4> QED
        BY <2>2, <4>1
    <3>3. CASE a # e
      <4>1. ASSUME NEW x \in Nodes, next[x] = e PROVE FALSE
        <5>1. x # b /\ x # e
          BY <2>6, <3>3, <4>1
        <5>2. nx[x] = e
          BY <1>5, <4>1, <5>1 DEF Deleting
        <5>3. x \in Live
          BY <1>1, <2>2, <5>2, ProcsAssumption DEF Queue, Shape
        <5>4. pv[e] = x /\ pv[e] = e
          BY <1>1, <1>5, <5>2, <5>3 DEF Queue, Shape, Deleting
        <5> QED
          BY <5>1, <5>4
      <4> QED
        BY <2>2, <3>1, <4>1
    <3> QED
      BY <3>2, <3>3
  <2>7. CASE stores[p] = <<s4>>
    BY <2>2, <2>7, TupleFacts DEF StoreStep
  <2> QED
    BY <2>3, <2>4, <2>5, <2>6, <2>7
<1>6. CASE \E h \in Procs, a \in Live : Adding(h, a, nx, pv)
  BY <1>4, <1>6
<1>7. CASE \E h \in Procs, e \in Live \ {HEAD}, a, b \in Live :
             Deleting(h, e, a, b, nx, pv)
  <2>1. PICK h \in Procs, e \in Live \ {HEAD}, a \in Live, b \in Live :
               Deleting(h, e, a, b, nx, pv)
    BY <1>7
  <2> QED
    BY <1>5, <2>1
<1> QED
  BY <1>3, <1>6, <1>7 DEF Phase

Listed(f, L) == L \in Seq(Procs) /\ Distinct(L) /\ Forward(f, L)

\* A list stays, gets an entry in front or loses one.
Changes(L, M) ==
  \/ M = L
  \/ \E q \in Procs : ~Contains(L, q) /\ M = Cons(q, L)
  \/ \E i \in 1 .. Len(L) : M = RemoveAt(L, i)

\* The next pointers lead through some entries back to the head, at any time.
ListInv == \E L : Listed(next, L)

\* The pointer of an entry outside the list changes: the list stays.
LEMMA OutsideStep ==
  ASSUME NEW f \in Pointers, NEW L, Listed(f, L), NEW e \in Procs, NEW v,
         f[e] = e \/ \A x \in Nodes : f[x] # e
  PROVE  Listed([f EXCEPT ![e] = v], L)
<1>1. Len(L) \in Nat /\ e # HEAD /\ L \in Seq(Procs)
  BY NodeFacts, ProcsAssumption DEF Listed
<1>2. \A i \in 0 .. Len(L) : Node(L, i) # e
  <2>1. CASE f[e] = e
    BY <2>1, SelfLoopOutside DEF Listed
  <2>2. CASE \A x \in Nodes : f[x] # e
    <3>1. SUFFICES ASSUME NEW i \in 0 .. Len(L), Node(L, i) = e
                   PROVE  FALSE
      OBVIOUS
    <3>2. i \in 1 .. Len(L) /\ i - 1 \in 0 .. Len(L) /\ i - 1 + 1 = i
      BY <1>1, <3>1, NodeFacts
    <3>3. f[Node(L, i - 1)] = e /\ Node(L, i - 1) \in Nodes
      BY <1>1, <3>1, <3>2, NodeFacts DEF Listed, Forward
    <3> QED
      BY <2>2, <3>3
  <2> QED
    BY <2>1, <2>2
<1>3. \A i \in 0 .. Len(L) : [f EXCEPT ![e] = v][Node(L, i)] = f[Node(L, i)]
  BY <1>1, <1>2, NodeFacts DEF Pointers
<1> QED
  BY <1>3, OutsideList DEF Listed

\* Each store of a list operation changes the list at once, or not at all.
LEMMA StoreList ==
  ASSUME QueueInv, NEW p \in Procs, StoreStep(p), NEW L, Listed(next, L)
  PROVE  \E M : Listed(next', M) /\ Changes(L, M)
<1>1. next \in Pointers /\ L \in Seq(Procs) /\ Distinct(L) /\ Forward(next, L)
  BY DEF QueueInv, Types, Listed
<1>2. CASE next' = next
  BY <1>2 DEF Changes
<1>3. ASSUME NEW e \in Procs, NEW v,
             next[e] = e \/ \A x \in Nodes : next[x] # e,
             next' = [next EXCEPT ![e] = v]
      PROVE  Listed(next', L)
  BY <1>1, <1>3, OutsideStep
<1>4. ASSUME NEW e \in Procs, next[e] = next[HEAD],
             next' = [next EXCEPT ![HEAD] = e]
      PROVE  Listed(next', Cons(e, L)) /\ Changes(L, Cons(e, L))
  BY <1>1, <1>4, FrontList DEF Listed, Changes
<1>5. ASSUME NEW b \in Nodes, next[b] \in Procs,
             next' = [next EXCEPT ![b] = next[next[b]]]
      PROVE  \E M : Listed(next', M) /\ Changes(L, M)
  <2>1. CASE \E j \in 0 .. Len(L) : Node(L, j) = b
    <3>1. PICK j \in 0 .. Len(L) : Node(L, j) = b
      BY <2>1
    <3>2. /\ j + 1 \in 1 .. Len(L)
          /\ RemoveAt(L, j + 1) \in Seq(Procs) /\ Distinct(RemoveAt(L, j + 1))
          /\ Forward(next', RemoveAt(L, j + 1))
      BY <1>1, <1>5, <3>1, SkipList
    <3> QED
      BY <3>2 DEF Listed, Changes
  <2>2. CASE \A j \in 0 .. Len(L) : Node(L, j) # b
    <3>1. \A j \in 0 .. Len(L) : next'[Node(L, j)] = next[Node(L, j)]
      BY <1>1, <1>5, <2>2, NodeFacts DEF Pointers
    <3>2. Listed(next', L)
      BY <1>1, <3>1, OutsideList DEF Listed
    <3> QED
      BY <3>2 DEF Changes
  <2> QED
    BY <2>1, <2>2
<1>6. CASE Listed(next', L)
  BY <1>6 DEF Changes
<1> QED
  BY <1>2, <1>3, <1>4, <1>5, <1>6, NextStore

LEMMA ListStep ==
  ASSUME QueueInv, [Next]_vars, NEW L, Listed(next, L)
  PROVE  \E M : Listed(next', M) /\ Changes(L, M)
<1>1. CASE next' = next
  BY <1>1 DEF Changes
<1>2. ASSUME NEW p \in Procs, StoreStep(p)
      PROVE  \E M : Listed(next', M) /\ Changes(L, M)
  BY <1>2, StoreList
<1>3. CASE Listed(next', L)
  BY <1>3 DEF Changes
<1>4. PICK nx, pv, rank : Queue(nx, pv, rank)
  BY DEF QueueInv
<1>5. Types /\ Sections /\ next \in Pointers
  BY DEF QueueInv, Types
<1>6. ASSUME NEW p \in Procs, DEFINE_WAIT(p)
      PROVE  Listed(next', L)
  <2>1. p \notin Live \cup {NONE}
    BY <1>6, ProcsAssumption DEF DEFINE_WAIT, Live, Waiting
  <2>2. \A x \in Nodes : next[x] # p
    BY <1>4, <1>5, <2>1, OnlyLive
  <2> QED
    BY <1>5, <1>6, <2>2, OutsideStep DEF DEFINE_WAIT
<1>7. ASSUME NEW p \in Procs, finish_wait(p), next' # next
      PROVE  Listed(next', L)
  <2>1. /\ next' = [next EXCEPT ![p] = NONE]
        /\ \/ pc[p] = "careful_prev"
           \/ pc[p] = "finish" /\ stores[p] = <<>>
    BY <1>7 DEF finish_wait, list_empty_careful, Returns, spin_unlock
  <2>2. CASE pc[p] = "careful_prev"
    BY <1>5, <2>1, <2>2, OutsideStep DEF Sections
  <2>3. CASE pc[p] = "finish" /\ stores[p] = <<>>
    <3>1. \A q \in Procs : stores[q] = <<>>
      BY <1>5, <2>3, OthersIdle DEF Sections, Holding
    <3>2. next[p] = p
      BY <1>4, <2>3, <3>1, QuietIsStill DEF Queue, Still, Places
    <3> QED
      BY <1>5, <2>1, <3>2, OutsideStep
  <2> QED
    BY <2>1, <2>2, <2>3
<1>8. ASSUME NEW p \in Procs,
             \/ wake_up_all(p) \/ interrupt(p) \/ prepare_to_wait(p)
             \/ schedule(p) \/ __wake_up(p)
      PROVE  next' = next
  BY <1>8 DEF wake_up_all, interrupt, prepare_to_wait, schedule, __wake_up
<1> QED
  BY <1>1, <1>2, <1>3, <1>6, <1>7, <1>8 DEF Next, Steps, vars

\* The entries along the next pointers are at every moment those of a queue
\* that changes at once: list_add and list_del_init show no state between,
\* although each is four stores, for any number of waiters and wakers.
THEOREM WaitListImplementsList == Spec => ImplementsList
<1>1. Init => ListInv /\ Abstract!Init
  <2>1. SUFFICES ASSUME Init PROVE ListInv /\ Abstract!Init
    OBVIOUS
  <2>2. <<>> \in Seq(Procs) /\ Len(<<>>) = 0
    OBVIOUS
  <2>3. next[HEAD] = HEAD
    BY <2>1 DEF Init, Nodes
  <2>4. Forward(next, <<>>)
    <3>1. Node(<<>>, 0) = HEAD /\ Node(<<>>, 0 + 1) = HEAD
      BY DEF Node
    <3>2. \A i \in 0 .. Len(<<>>) : i = 0
      BY <2>2
    <3> QED
      BY <2>3, <3>1, <3>2 DEF Forward
  <2>5. Listed(next, <<>>)
    BY <2>2, <2>4 DEF Listed, Distinct
  <2>6. listMap = <<>>
    BY <2>5, ListOfIs DEF Listed, listMap
  <2> QED
    BY <2>5, <2>6 DEF ListInv, Abstract!Init
<1>2. QueueInv /\ ListInv /\ [Next]_vars =>
        ListInv' /\ [Abstract!Next]_listMap
  <2>1. SUFFICES ASSUME QueueInv, ListInv, [Next]_vars
                 PROVE  ListInv' /\ [Abstract!Next]_listMap
    OBVIOUS
  <2>2. PICK L : Listed(next, L)
    BY <2>1 DEF ListInv
  <2>3. PICK M : Listed(next', M) /\ Changes(L, M)
    BY <2>1, <2>2, ListStep
  <2>4. listMap = L /\ listMap' = M
    BY <2>2, <2>3, ListOfIs DEF Listed, listMap
  <2>5. ListInv'
    BY <2>3 DEF ListInv
  <2>6. CASE M = L
    BY <2>4, <2>5, <2>6
  <2>7. ASSUME NEW q \in Procs, ~Contains(L, q), M = Cons(q, L)
        PROVE  Abstract!Next
    BY <2>4, <2>7 DEF Abstract!Next, Abstract!Add, Abstract!Contains,
       Abstract!Cons, Contains, Cons
  <2>8. ASSUME NEW i \in 1 .. Len(L), M = RemoveAt(L, i)
        PROVE  Abstract!Next
    <3>1. L[i] \in Procs
      BY <2>2, NodeFacts DEF Listed
    <3> QED
      BY <2>4, <2>8, <3>1 DEF Abstract!Next, Abstract!Del, Abstract!RemoveAt,
         RemoveAt
  <2> QED
    BY <2>3, <2>5, <2>6, <2>7, <2>8 DEF Changes
<1> QED
  BY <1>1, <1>2, QueueInvariant, PTL DEF Spec, ImplementsList, Abstract!Spec
=============================================================================
