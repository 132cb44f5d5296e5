----------------------------- MODULE EventsImpl -----------------------------
(***************************************************************************)
(* The list of events implements EventTable.                               *)
(*                                                                         *)
(* doeventchown and doeventchmod store two fields in two steps.  The table *)
(* shows both as soon as the first is stored: between the two, the process *)
(* that stores holds the lock for writing, so that nobody can tell.  A     *)
(* query has read what it reports when it drops the lock.                  *)
(***************************************************************************)
EXTENDS Events

\* The event in slot s, with the store that its writer has still to make
Settled(s) ==
  IF writer # NONE /\ pc[writer] = "set_second" /\ ptr[writer] = s
    THEN IF call[writer] = "chown"
           THEN [ev[s] EXCEPT !.gid = arg[writer].b]
           ELSE [ev[s] EXCEPT !.gidFlag = arg[writer].b]
    ELSE ev[s]

Listed(s) ==
  [id |-> Settled(s).id, uid |-> Settled(s).uid, gid |-> Settled(s).gid,
   uidFlag |-> Settled(s).uidFlag, gidFlag |-> Settled(s).gidFlag]

tableMap == [i \in 1 .. Len(evlist) |-> Listed(evlist[i])]

\* What a query has read.  A doeventstat that goes on with no event, because
\* waitEvent was never assigned, has read none: it copies back to the user what
\* it fetched from him.  That it returns 0 is NoEventFails' concern.
seenMap ==
  [p \in Procs |->
     IF pc[p] = "stat_copy" /\ buf[p] # <<>> THEN <<arg[p].id>> \o buf[p]
     ELSE IF pc[p] = "info_copy" THEN <<process[p]>> \o buf[p]
     ELSE <<>>]

Table == INSTANCE EventTable WITH table <- tableMap, seen <- seenMap

\* Whatever calls run at once, the list of events changes and is reported as
\* a table of atomic operations.  A doeventstat that reads an event never
\* reports half of a doeventchown or doeventchmod, or an event other than the
\* one asked for; doeventinfo never mixes two states of the list; and a call
\* with a stale pointer, whatever has become of its event, never leaves a
\* listed event with anything but an owner and flags that some call has set as
\* a whole.
ImplementsTable == Table!Spec
=============================================================================
