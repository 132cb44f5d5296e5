------------------------------- MODULE Locks --------------------------------
(***************************************************************************)
(* What the event system calls rely on: a reader-writer lock whose writer  *)
(* is alone, and a spinlock whose users are served in the order in which   *)
(* they came.                                                              *)
(***************************************************************************)
EXTENDS Sequences

CONSTANTS Procs, NONE

VARIABLES readers, writer,  \* who holds the reader-writer lock, and how
          line              \* who holds the spinlock, then who waits for it

lvars == <<readers, writer, line>>

ReadLock(p) ==
  /\ writer = NONE
  /\ readers' = readers \cup {p}
  /\ UNCHANGED <<writer, line>>

ReadUnlock(p) ==
  /\ p \in readers
  /\ readers' = readers \ {p}
  /\ UNCHANGED <<writer, line>>

WriteLock(p) ==
  /\ writer = NONE /\ readers = {}
  /\ writer' = p
  /\ UNCHANGED <<readers, line>>

WriteUnlock(p) ==
  /\ writer = p
  /\ writer' = NONE
  /\ UNCHANGED <<readers, line>>

\* p joins the line; it holds the lock if nobody is before it.
Queue(p) ==
  /\ line' = Append(line, p)
  /\ UNCHANGED <<readers, writer>>

Leave(p) ==
  /\ line # <<>> /\ Head(line) = p
  /\ line' = Tail(line)
  /\ UNCHANGED <<readers, writer>>

Init == readers = {} /\ writer = NONE /\ line = <<>>

Next == \E p \in Procs : \/ ReadLock(p) \/ ReadUnlock(p)
                         \/ WriteLock(p) \/ WriteUnlock(p)
                         \/ Queue(p) \/ Leave(p)

Spec == Init /\ [][Next]_lvars
=============================================================================
