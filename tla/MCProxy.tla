------------------------------- MODULE MCProxy -------------------------------
(* TLC instance of Proxy: three concurrent requests. *)
EXTENDS Proxy, TLC

CONSTANTS r1, r2, r3

MCRequests == {r1, r2, r3}
=============================================================================
