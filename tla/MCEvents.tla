------------------------------ MODULE MCEvents ------------------------------
(***************************************************************************)
(* Instances of Events for TLC.  A configuration picks a cast (which       *)
(* process may make which calls), its users and the bounds.                *)
(***************************************************************************)
EXTENDS EventsImpl

CONSTANTS p1, p2, p3, p4

\* The low and high word of the free-list pointer, as ints: a kernel address
\* (negative, or nobody's id).
KernelAddress == <<-7, 9>>

\* Users and groups
Root     == [p \in Procs |-> 0]
TwoUsers == [p \in Procs |-> IF p = p1 THEN 1 ELSE 2]
Friends  == [p \in Procs |-> IF p = p3 THEN 2 ELSE 1]

\* Casts
TwoWaiters == p1 :> {"wait"} @@ p2 :> {"wait"}
                @@ p3 :> {"open", "close"} @@ p4 :> {"sig"}
\* The two waiters are interchangeable.
Waiters    == Permutations({p1, p2})
OneWaiter  == p1 :> {"wait"} @@ p2 :> {"open", "sig"} @@ p3 :> {"sig"}
Reopened   == p1 :> {"wait"} @@ p2 :> {"open", "close"}
                @@ p3 :> {"sig"}
OneOfEach  == p1 :> {"open", "close"} @@ p2 :> {"chown", "chmod"}
                @@ p3 :> {"info", "stat"}
TwoSignals == p1 :> {"wait"} @@ p2 :> {"wait"}
                @@ p3 :> {"open", "sig"} @@ p4 :> {"sig"}
Lifecycle  == p1 :> {"wait"} @@ p2 :> {"open", "close"}
                @@ p3 :> {"close", "sig"}
OpenClose  == p1 :> {"open", "close"} @@ p2 :> {"open", "close"}
                @@ p3 :> {"info"}
Owners3    == p1 :> {"open", "chown"} @@ p2 :> {"chmod", "stat"}
                @@ p3 :> {"close", "stat"}
Chowners   == [p \in Procs |-> {"open", "chown"}]

\* Arguments
SomeIds   == {-1, 0}
AnyNums   == {-1, 1}
TwoOwners == {<<1, 1>>, <<2, 2>>}
NewOwner  == {<<2, 2>>}
NewMode   == {<<0, 0>>}
TwoModes  == {<<0, 0>>, <<1, 1>>}
=============================================================================
