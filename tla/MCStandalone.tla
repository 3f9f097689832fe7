---------------------------- MODULE MCStandalone -----------------------------
(* Standalone for TLC: two of the four names have the same hash, one key has *)
(* the combined hash 0 at each node, and all connections of the pool belong  *)
(* to one service.  The connections of the pool are interchangeable, and so  *)
(* are the threads that call the id generator; three of the four threads are *)
(* given the names of the connections, so that one symmetry serves both.     *)
EXTENDS Standalone, TLC

CONSTANTS service

Symmetry == Permutations(Conns)

NodeNames    == {"a", "b", "c", "d"}
NodeNameHash == "a" :> 0 @@ "b" :> 2 @@ "c" :> 2 @@ "d" :> 3
MixedHash    == 0 :> 3 @@ 1 :> 0 @@ 2 :> 4 @@ 3 :> 1 @@ 4 :> 2

OneService == [p \in Conns |-> service]
=============================================================================
