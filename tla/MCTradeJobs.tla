----------------------------- MODULE MCTradeJobs -----------------------------
(* TradeJobs over a league of the viewer and one other member.             *)
EXTENDS TradeJobs, TLC

CONSTANTS u, v, mine, theirs

MCOwner == [s \in {mine, theirs} |-> IF s = mine THEN u ELSE v]

\* The requests are alike.
Symmetry == Permutations(Requests)
===============================================================================
