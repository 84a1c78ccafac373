--------------------------- MODULE MCMessageFactory ---------------------------
(* TLC instance of MessageFactory. *)
EXTENDS MessageFactory, TLC
=============================================================================
