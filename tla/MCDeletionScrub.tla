--------------------------- MODULE MCDeletionScrub ---------------------------
(* DeletionScrub on a small instance. *)
EXTENDS DeletionScrub

CONSTANTS l1, t1
=============================================================================
