---------------------------- MODULE OfferLedger ----------------------------
(***************************************************************************)
(* What the sending of offers promises, without requests, reservations,    *)
(* sweeps and restarts: an offer is stored before it is written, written   *)
(* at most once and only while it is open, and it gets one end, for good,  *)
(* which is not given while the provider could still execute it.  Only an  *)
(* offer the provider took unseen, its answer being a failure, is called   *)
(* failed while it is pending.                                             *)
(***************************************************************************)
CONSTANTS Attempts, Ends

VARIABLES
    record,  \* what the store says: "none", "open", or the end of the attempt
    placed   \* the offer at the provider: "none", "pending", pending but "unseen",
             \* "accepted" or "closed"

Init ==
    /\ record = [a \in Attempts |-> "none"]
    /\ placed = [a \in Attempts |-> "none"]

\* A batch is stored.
Store(A) ==
    /\ \A a \in A : record[a] = "none"
    /\ record' = [a \in Attempts |-> IF a \in A THEN "open" ELSE record[a]]
    /\ UNCHANGED placed

\* The provider takes an offer.
Place(a) ==
    /\ record[a] = "open" /\ placed[a] = "none"
    /\ \E seen \in {"pending", "unseen"} : placed' = [placed EXCEPT ![a] = seen]
    /\ UNCHANGED record

\* Offers end at the provider; several, when the seller loses what they give.
Conclude(A) ==
    /\ \A a \in A : placed[a] \in {"pending", "unseen"}
    /\ \E over \in [A -> {"accepted", "closed"}] :
          placed' = [a \in Attempts |-> IF a \in A THEN over[a] ELSE placed[a]]
    /\ UNCHANGED record

\* An attempt is called over.  One that went stale was never placed.
End(a, end) ==
    /\ record[a] = "open" /\ placed[a] # "pending"
    /\ placed[a] = "unseen" => end = "send_failed"
    /\ end = "stale" => placed[a] = "none"
    /\ record' = [record EXCEPT ![a] = end]
    /\ UNCHANGED placed

Next ==
    \/ \E A \in SUBSET Attempts : Store(A) \/ Conclude(A)
    \/ \E a \in Attempts : Place(a) \/ \E end \in Ends : End(a, end)

Spec == Init /\ [][Next]_<<record, placed>>
=============================================================================
