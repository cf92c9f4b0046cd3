---------------------------- MODULE MCTransfers ----------------------------
(* Instance of Transfers for TLC.                                          *)
EXTENDS Transfers

CONSTANTS u1, u2, i1, h1, h2, sw

MCUsers == {u1, u2}
MCIds == {i1}
MCHandlers == {h1, h2}
MCGrants == {-1, 1}
=============================================================================
