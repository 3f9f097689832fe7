-------------------------- MODULE MCTcpClientGroup ---------------------------
(* TcpClientGroup for TLC: two clients on one event base.                   *)
EXTENDS TcpClientGroup

CONSTANTS c1, c2, e1

OneEvb == [c \in Clients |-> e1]
=============================================================================
