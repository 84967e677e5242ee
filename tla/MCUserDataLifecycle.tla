------------------------ MODULE MCUserDataLifecycle ------------------------
(* UserDataLifecycle on small instances. *)
EXTENDS UserDataLifecycle

CONSTANTS w1, w2, d1, d2
=============================================================================
