---------------------------- MODULE MCTcpChannel ----------------------------
(* TcpChannel on small instances: the requests are model values. *)
EXTENDS TcpChannel

CONSTANTS r1, r2, r3
=============================================================================
