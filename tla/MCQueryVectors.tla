--------------------------- MODULE MCQueryVectors ---------------------------
(* Two request threads, three queries, a cache for two of them.            *)
EXTENDS QueryVectors

CONSTANTS t1, t2

(* Keys that nothing in the state mentions are alike: of those, only the   *)
(* least one is asked for.                                                 *)
NewKeysInOrder ==
  LET known == ToSet(uses) \cup {query[t] : t \in Threads}
  IN  \A t \in Threads :
        query'[t] \in known \cup {Idle} \/ \A k \in Keys : k < query'[t] => k \in known
=============================================================================
