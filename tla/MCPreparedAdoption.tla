-------------------------- MODULE MCPreparedAdoption --------------------------
(* PreparedAdoption with an inventory of two batches and then an empty one. *)
EXTENDS PreparedAdoption, TLC

MCSize == [i \in Inventories |-> IF i = 1 THEN 2 ELSE 0]

\* The jobs are alike.
Symmetry == Permutations(Jobs)
===============================================================================
