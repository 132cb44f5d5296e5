----------------------------- MODULE EventTable -----------------------------
(***************************************************************************)
(* What the event system calls promise of the list of events, whatever the *)
(* locks and the order of their steps: a table on which every operation is *)
(* atomic.  An event is added at the end with the id after the last one's; *)
(* an owner, or a pair of flags, is replaced as a whole; doeventstat and   *)
(* doeventinfo report one state of the table.                              *)
(*                                                                         *)
(* Who may change what is no part of the promise: see OnlyOwnerSets.       *)
(***************************************************************************)
EXTENDS Integers, SequencesExt

CONSTANTS Procs, Euid, Egid, Owners, Flags, IntMax

VARIABLES table,  \* the listed events, oldest first
          seen    \* seen[p]: what p's query has read and not yet returned

tvars == <<table, seen>>

\* int arithmetic wraps at IntMax
After(id) == IF id = IntMax THEN -IntMax - 1 ELSE id + 1

NextId == After(IF table = <<>> THEN -1 ELSE table[Len(table)].id)

Open(p) ==
  /\ table' = Append(table, [id |-> NextId, uid |-> Euid[p], gid |-> Egid[p],
                             uidFlag |-> 1, gidFlag |-> 1])
  /\ UNCHANGED seen

Close(i) ==
  /\ table' = RemoveAt(table, i)
  /\ UNCHANGED seen

Chown(i, owner) ==
  /\ table' = [table EXCEPT ![i].uid = owner[1], ![i].gid = owner[2]]
  /\ UNCHANGED seen

Chmod(i, flags) ==
  /\ table' = [table EXCEPT ![i].uidFlag = flags[1], ![i].gidFlag = flags[2]]
  /\ UNCHANGED seen

\* One event's id, owner and flags
Stat(p, i) ==
  /\ seen' = [seen EXCEPT ![p] =
                <<table[i].id>> \o <<table[i].uid, table[i].gid,
                                     table[i].uidFlag, table[i].gidFlag>>]
  /\ UNCHANGED table

\* The number of events and the ids of the first n
Info(p, n) ==
  /\ seen' = [seen EXCEPT ![p] =
                <<Len(table)>> \o [k \in 1 .. n |-> table[k].id]]
  /\ UNCHANGED table

Forget(p) ==
  /\ seen' = [seen EXCEPT ![p] = <<>>]
  /\ UNCHANGED table

Init == table = <<>> /\ seen = [p \in Procs |-> <<>>]

Next ==
  \/ \E p \in Procs :
       \/ Open(p)
       \/ Forget(p)
       \/ \E i \in 1 .. Len(table) : Stat(p, i)
       \/ \E n \in 0 .. Len(table) : Info(p, n)
  \/ \E i \in 1 .. Len(table) :
       \/ Close(i)
       \/ \E owner \in Owners : Chown(i, owner)
       \/ \E flags \in Flags : Chmod(i, flags)

Spec == Init /\ [][Next]_tvars
=============================================================================
