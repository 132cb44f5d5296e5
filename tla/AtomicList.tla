----------------------------- MODULE AtomicList -----------------------------
(***************************************************************************)
(* A wait queue as the code above it sees it: a sequence to which an entry *)
(* is added in front, and from which any entry can be taken, at once.      *)
(***************************************************************************)
EXTENDS SequencesExt

CONSTANTS Procs

VARIABLES list

Add(p) == ~Contains(list, p) /\ list' = Cons(p, list)

Del(p) ==
  \E i \in 1 .. Len(list) : list[i] = p /\ list' = RemoveAt(list, i)

Init == list = <<>>

Next == \E p \in Procs : Add(p) \/ Del(p)

Spec == Init /\ [][Next]_list
=============================================================================
