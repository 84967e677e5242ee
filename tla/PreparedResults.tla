--------------------------- MODULE PreparedResults ---------------------------
(***************************************************************************)
(* What the preparation of trade inventories promises, without leases,     *)
(* workers or stages: a target gets one result for good, a published       *)
(* inventory is new and replaces the head of its scope in the same step,   *)
(* and an inventory that is no longer the head never becomes it again.     *)
(***************************************************************************)
CONSTANTS Targets, Scopes, Inventories, ScopeOf, None

VARIABLES
    result,  \* "open" until a target has its result
    head,    \* the inventory served for a scope, or None
    spent    \* inventories that were the head of their scope once

Results == {"ready", "reused", "stale", "error", "cancelled", "deleted"}

Init ==
    /\ result = [t \in Targets |-> "open"]
    /\ head = [x \in Scopes |-> None]
    /\ spent = {}

\* A target publishes its inventory.
Publish(t, k) ==
    /\ result[t] = "open" /\ k \notin spent
    /\ result' = [result EXCEPT ![t] = "ready"]
    /\ head' = [head EXCEPT ![ScopeOf[t]] = k]
    /\ spent' = spent \cup {k}

\* Targets end without one.
Close ==
    /\ UNCHANGED <<head, spent>>
    /\ \E S \in SUBSET {t \in Targets : result[t] = "open"} :
       \E r \in [S -> Results \ {"ready"}] :
          result' = [t \in Targets |-> IF t \in S THEN r[t] ELSE result[t]]

\* Heads expire or turn out to be corrupt.
Withdraw(X) ==
    /\ head' = [x \in Scopes |-> IF x \in X THEN None ELSE head[x]]
    /\ UNCHANGED <<result, spent>>

\* The user of a scope is deleted.
Forget(x) ==
    /\ head' = [head EXCEPT ![x] = None]
    /\ result' \in [Targets -> Results \cup {"open"}]
    /\ \A t \in Targets : result'[t] # result[t] => ScopeOf[t] = x /\ result'[t] = "deleted"
    /\ UNCHANGED spent

Next ==
    \/ Close
    \/ \E t \in Targets, k \in Inventories : Publish(t, k)
    \/ \E X \in SUBSET Scopes : Withdraw(X)
    \/ \E x \in Scopes : Forget(x)

Spec == Init /\ [][Next]_<<result, head, spent>>
=============================================================================
