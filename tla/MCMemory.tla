------------------------------- MODULE MCMemory -------------------------------
(***************************************************************************)
(* The two databases in memory share nothing but their server, and nothing *)
(* with the pool of clients on the other side: one of the three moves, the *)
(* others stay in their initial state.                                     *)
(***************************************************************************)
EXTENDS CacheDb, EventDb, ClientPool, TLC
CONSTANTS k1, v1, v2
VARIABLE part

B(k, v, t) == [key |-> k, val |-> v, ttl |-> t]
MCRequests == {<<B(k1, v1, 1)>>, <<B(k1, NoVal, 0), B(k1, v2, 2)>>, <<B(k1, NoVal, 0)>>}
MCSymmetry == Permutations(Workers) \cup Permutations(Writers)

MCInit == CacheInit /\ EventInit /\ part \in {"cache", "events", "clients"}
          /\ PoolInit /\ (part = "clients" \/ Cardinality(clients) = StartMin)
MCNext ==
  /\ UNCHANGED part
  /\ \/ part = "cache" /\ CacheNext /\ UNCHANGED <<eventVars, poolVars>>
     \/ part = "events" /\ EventNext /\ UNCHANGED <<cacheVars, poolVars>>
     \/ part = "clients" /\ PoolNext /\ UNCHANGED <<cacheVars, eventVars>>
MCSpec == MCInit /\ [][MCNext]_<<part, cacheVars, eventVars, poolVars>>
=============================================================================
