--------------------------- MODULE MCDirectSession ---------------------------
(* Phone pages in direct mode, for TLC. *)
EXTENDS DirectSession

MCEphemerals == Pages \X (1..MaxDerivations)
=============================================================================
