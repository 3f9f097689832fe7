---------------------------- MODULE MCConnManager ----------------------------
(* ConnManager for TLC: connections are interchangeable, so are threads.    *)
EXTENDS ConnManager, TLC

Symmetry == Permutations(Conns) \cup Permutations(Threads)
=============================================================================
