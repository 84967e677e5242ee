------------------------------- MODULE TradeJob -------------------------------
(***************************************************************************)
(* One entry of the registry of trade jobs of server.py, and the two      *)
(* writes every thread shares: revoking a job and ending it.  A job is     *)
(* live while it runs and nothing has revoked it; `fenced` says that one   *)
(* of the input tokens it holds was revoked.                               *)
(***************************************************************************)

Absent(j) == j.status = "absent"

Revoked(j, fenced) == Absent(j) \/ j.superseded \/ fenced

Live(j, fenced) == j.status = "running" /\ ~Revoked(j, fenced)

\* Revoking empties the deck and ends a job that still runs; the status of a
\* job that had ended stays.
Revoke(j) ==
    [j EXCEPT !.superseded = TRUE, !.cards = {},
              !.status = IF @ = "running" THEN "error" ELSE @]

\* Faulty: a job that was timed out is ended again.
EndUnlessRevoked(j, fenced, status) ==
    IF Revoked(j, fenced) THEN j ELSE [j EXCEPT !.status = status]

\* The worker's last write: it takes only on a live job.
End(j, fenced, status) ==
    IF Live(j, fenced) THEN [j EXCEPT !.status = status]
    ELSE IF j.status = "running" THEN Revoke(j) ELSE j

\* What a client may see of a job (the states of Decks): before it is asked for
\* there is none, afterwards an absent job has gone.
DeckState(j, fenced, asked) ==
    CASE Absent(j) -> IF asked THEN "gone" ELSE "none"
      [] ~Absent(j) /\ Revoked(j, fenced) -> "withdrawn"
      [] Live(j, fenced) -> "open"
      [] OTHER -> j.status
===============================================================================
