----------------------------- MODULE MCTcpCaster -----------------------------
(* Instances of TcpCaster for TLC. *)
EXTENDS TcpCaster

CONSTANTS p1, p2
=============================================================================
