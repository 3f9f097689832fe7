----------------------------- MODULE MCTcpClient -----------------------------
(* TcpClient for TLC.                                                       *)
EXTENDS TcpClient

CONSTANTS c1, e1

OneEvb == [c \in Clients |-> e1]
=============================================================================
