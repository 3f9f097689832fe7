----------------------------- MODULE Standalone ------------------------------
(***************************************************************************)
(* The parts of the library that work on their own and that no other part  *)
(* of the repository calls into a composition: the id generator, the       *)
(* rendezvous hash, the simple client and the pool of connection managers  *)
(* behind ServiceRouterManager.  A behaviour is one of one part.           *)
(***************************************************************************)
EXTENDS Snowflake, RendezvousHash, SimpleTcpClient, IOThreadPool

VARIABLE part

saVars == <<part, sfVars, nodes, stVars, poolVars>>

SaInit ==
    /\ part \in {"snowflake", "hash", "client", "pool"}
    /\ SfInit /\ RhInit /\ StInit /\ PoolInit

SaNext ==
    \/ part = "snowflake" /\ SfNext /\ UNCHANGED <<part, nodes, stVars, poolVars>>
    \/ part = "hash" /\ RhNext /\ UNCHANGED <<part, sfVars, stVars, poolVars>>
    \/ part = "client" /\ StNext /\ UNCHANGED <<part, sfVars, nodes, poolVars>>
    \/ part = "pool" /\ PoolNext /\ UNCHANGED <<part, sfVars, nodes, stVars>>

SaSpec == SaInit /\ [][SaNext]_saVars
=============================================================================
