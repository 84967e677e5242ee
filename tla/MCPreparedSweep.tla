-------------------------- MODULE MCPreparedSweep --------------------------
(* PreparedSweep on small instances. *)
EXTENDS PreparedSweep, TLC

CONSTANTS s1, s2, t1, t2, x1, x2, w1, w2

\* One target per sweep, or one sweep; one scope for all, or one for each.
EachItsSweep == (t1 :> s1) @@ (t2 :> s2)
OneSweep     == [t \in Targets |-> s1]
SameScope    == [t \in Targets |-> x1]
EachItsScope == (t1 :> x1) @@ (t2 :> x2)

\* The processes are alike; so are two sweeps that differ in their name and in
\* the name of their only target.
Renamed   == (s1 :> s2) @@ (s2 :> s1) @@ (t1 :> t2) @@ (t2 :> t1)
Processes == Permutations(Workers) \cup {Renamed}
=============================================================================
