--------------------------- MODULE MCOverhaulSend ---------------------------
(* OverhaulSend on small instances: leagues, plans and thread pools. *)
EXTENDS OverhaulSend, TLC

CONSTANTS qb, rb, wr, pick, p1, p2, o1, o2, s1, s2, r1, u1, u2, t1, t2, k1, k2

\* One package with two tied offers: a race.
RacePackages  == [o \in {o1, o2} |-> p1]
RaceGive      == [o \in {o1, o2} |-> {qb}]
RaceReceive   == (o1 :> {wr}) @@ (o2 :> {pick})
RaceSelection == {{o1, o2}}

\* Two roadmaps whose packages overlap: p1 gives qb, p2 gives qb and rb.
RivalPackages  == (o1 :> p1) @@ (o2 :> p2)
RivalGive      == (o1 :> {qb}) @@ (o2 :> {qb, rb})
RivalReceive   == (o1 :> {wr}) @@ (o2 :> {pick})
RivalSelection == {{o1}, {o2}}

SendThreads == Permutations({s1, s2})
Symmetry    == SendThreads \cup Permutations({t1, t2}) \cup Permutations({k1, k2})
=============================================================================
