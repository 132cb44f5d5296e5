------------------------------ MODULE MCLocks -------------------------------
(***************************************************************************)
(* An instance of CallLocks for TLC: every call is made by some process,   *)
(* and every lock is wanted by all three.                                  *)
(***************************************************************************)
EXTENDS CallLocks, TLC

CONSTANTS p1, p2, p3

CallScripts ==
  p1 :> {doeventclose, doeventinfo, doeventwait(1), TryReads}
    @@ p2 :> {doeventsig, doeventopen, TryWrites}
    @@ p3 :> {doeventchown, doeventwait(2), TryReads, TrySpins}
=============================================================================
