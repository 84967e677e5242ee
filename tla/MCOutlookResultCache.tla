------------------------- MODULE MCOutlookResultCache -------------------------
(* OutlookResultCache with a shared key and two personal ones of one caller. *)
EXTENDS OutlookResultCache, TLC

CONSTANTS league, mine, other, ann

OneCaller == (league :> Shared) @@ (mine :> ann) @@ (other :> ann)
=============================================================================
