---------------------------- MODULE MCIpfsResolver ----------------------------
(* TLC instance of IpfsResolver: three Cids. *)
EXTENDS IpfsResolver, TLC

CONSTANTS c1, c2, c3

MCTasks == {c1, c2, c3}
=============================================================================
