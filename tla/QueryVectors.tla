---------------------------- MODULE QueryVectors ----------------------------
(***************************************************************************)
(* EmbeddingPipeline._query_vector (embedding.py): request threads ask for *)
(* the vectors of queries.  The cache is looked up before and again inside *)
(* the query semaphore; _execute_provider_call takes the provider          *)
(* semaphore for each attempt and gives it up while it waits to retry.     *)
(* The cache is filled after both semaphores are released.                 *)
(*                                                                         *)
(* A vector is known by the query it was computed for, so the cache holds  *)
(* only keys and expiry times.  The clock moves between steps, not while a *)
(* lock is awaited, and does not go back.                                  *)
(***************************************************************************)
EXTENDS Integers, Sequences, FiniteSets, SequencesExt

CONSTANTS
  Threads,
  Keys,           \* embedding version and query text
  Idle,           \* the query of a thread that has none
  CacheSize, Ttl, \* online_query_cache_size, online_query_cache_ttl_s
  QuerySlots,     \* online_max_concurrency
  ProviderSlots,  \* provider_max_concurrency
  MaxRetries,     \* online_query_max_retries
  MaxAsks,        \* bound on the queries explored
  MaxTime         \* bound on the clock

ASSUME KeysAssumption == Idle \notin Keys /\ IsFiniteSet(Threads)
ASSUME SizeAssumption ==
  /\ {CacheSize, Ttl, MaxRetries, MaxAsks, MaxTime} \subseteq Nat
  /\ {QuerySlots, ProviderSlots} \subseteq Nat \ {0}

VARIABLES
  pc,       \* pc[t]: what thread t does next
  query,    \* query[t]: the key it asks for
  calls,    \* calls[t]: [requests, ok] of its provider call
  cache,    \* _items: [key, expires] in order of use, the oldest first
  slots,    \* what is left of the two semaphores: query, provider
  stats,    \* EmbeddingRuntimeStats
  now,
  uses,     \* history: the keys put and hit, in order of their last use
  putAt,    \* history: key |-> when the provider's answer was last put
  asks

vars == <<pc, query, calls, cache, slots, stats, now, uses, putAt, asks>>
history == <<uses, putAt>>

NoCall == [requests |-> 0, ok |-> FALSE]

Init ==
  /\ pc = [t \in Threads |-> "idle"] /\ query = [t \in Threads |-> Idle]
  /\ calls = [t \in Threads |-> NoCall]
  /\ cache = <<>>
  /\ slots = [query |-> QuerySlots, provider |-> ProviderSlots]
  /\ stats = [n \in {"requests", "ok", "failed", "retries", "hits", "misses", "served", "unserved"} |-> 0]
  /\ now = 0 /\ uses = <<>> /\ putAt = [k \in {} |-> 0] /\ asks = 0

-----------------------------------------------------------------------------
(* QueryEmbeddingCache *)

Disabled == CacheSize = 0 \/ Ttl = 0

Cached == {cache[n].key : n \in DOMAIN cache}

EntryOf(k) == CHOOSE e \in ToSet(cache) : e.key = k

(* A sequence without its only element at one of these places.             *)
Dropped(s, places) == IF places = {} THEN s ELSE RemoveAt(s, CHOOSE n \in places : TRUE)

Others(items, k) == Dropped(items, {n \in DOMAIN items : items[n].key = k})

(* An entry that is there and has not expired.                             *)
Hit(k) == ~Disabled /\ k \in Cached /\ EntryOf(k).expires > now

(* Faulty: a hit does not count as a use.                                  *)
AfterGetUnmoved(k) ==
  IF Hit(k) THEN cache ELSE IF Disabled THEN cache ELSE Others(cache, k)

(* get: a hit becomes the latest, an expired entry goes.                   *)
AfterGet(k) ==
  IF Hit(k) THEN Append(Others(cache, k), EntryOf(k))
  ELSE IF Disabled THEN cache ELSE Others(cache, k)

(* put: the entry is the latest, and the oldest goes when there is one too *)
(* many (never more than one).                                             *)
AfterPut(k) ==
  LET items == Append(Others(cache, k), [key |-> k, expires |-> now + Ttl])
  IN  IF Disabled THEN cache
      ELSE IF Len(items) > CacheSize THEN Tail(items) ELSE items

MovedLast(keys, k) == Append(Dropped(keys, {n \in DOMAIN keys : keys[n] = k}), k)

Used(k) == uses' = MovedLast(uses, k)

-----------------------------------------------------------------------------
(* A query *)

Goto(t, label) == pc' = [pc EXCEPT ![t] = label]

Return(t) == Goto(t, "idle") /\ query' = [query EXCEPT ![t] = Idle]

Count(names) == stats' = [n \in DOMAIN stats |-> stats[n] + IF n \in names THEN 1 ELSE 0]

(* A look-up of k by t, with the statistics of a hit, which returns.       *)
Get(t, k, label) ==
  /\ cache' = AfterGet(k)
  /\ IF Hit(k)
     THEN Return(t) /\ Count({"hits", "served"}) /\ Used(k)
     ELSE Goto(t, label) /\ query' = [query EXCEPT ![t] = k] /\ UNCHANGED <<stats, uses>>
  /\ UNCHANGED <<calls, putAt, now>>

(* A query comes in: the first look-up.                                    *)
Ask(t, k) ==
  /\ pc[t] = "idle" /\ asks < MaxAsks /\ asks' = asks + 1
  /\ Get(t, k, "wait")
  /\ UNCHANGED slots

(* The query semaphore is taken, and kept unless the second look-up hits.  *)
Recheck(t) ==
  /\ pc[t] = "wait" /\ slots.query > 0
  /\ slots' = IF Hit(query[t]) THEN slots ELSE [slots EXCEPT !.query = @ - 1]
  /\ Get(t, query[t], "call")
  /\ UNCHANGED asks

(* An attempt of _execute_provider_call begins.                            *)
AcquireProvider(t) ==
  /\ pc[t] = "call" /\ slots.provider > 0
  /\ slots' = [slots EXCEPT !.provider = @ - 1]
  /\ calls' = [calls EXCEPT ![t].requests = @ + 1]
  /\ Goto(t, "calling")
  /\ UNCHANGED <<query, cache, stats, now, history, asks>>

ProviderAnswers(t) ==
  /\ pc[t] = "calling"
  /\ slots' = [slots EXCEPT !.provider = @ + 1]
  /\ calls' = [calls EXCEPT ![t].ok = TRUE]
  /\ Goto(t, "leave")
  /\ UNCHANGED <<query, cache, stats, now, history, asks>>

(* Faulty: an attempt that raises keeps its slot.                          *)
ProviderFailsKeepingSlot(t) ==
  /\ pc[t] = "calling"
  /\ \E retryable \in BOOLEAN :
       Goto(t, IF calls[t].requests > MaxRetries \/ ~retryable THEN "leave" ELSE "sleep")
  /\ UNCHANGED <<query, calls, cache, slots, stats, now, history, asks>>

(* The attempt raises: the last one, or an error not worth a retry, ends   *)
(* the call.                                                               *)
ProviderFails(t) ==
  /\ pc[t] = "calling"
  /\ slots' = [slots EXCEPT !.provider = @ + 1]
  /\ \E retryable \in BOOLEAN :
       Goto(t, IF calls[t].requests > MaxRetries \/ ~retryable THEN "leave" ELSE "sleep")
  /\ UNCHANGED <<query, calls, cache, stats, now, history, asks>>

(* The back-off ends; the query semaphore is held throughout.              *)
Wake(t) ==
  /\ pc[t] = "sleep" /\ Goto(t, "call")
  /\ UNCHANGED <<query, calls, cache, slots, stats, now, history, asks>>

Recorded(call, failed) ==
  [stats EXCEPT !["requests"] = @ + call.requests, !["ok"] = @ + IF call.ok THEN 1 ELSE 0,
                !["failed"] = @ + failed, !["retries"] = @ + call.requests - 1]

(* The query semaphore is released, and the call recorded                  *)
(* (_record_runtime_provider_result).                                      *)
Leave(t) ==
  /\ pc[t] = "leave" /\ Goto(t, "finish")
  /\ slots' = [slots EXCEPT !.query = @ + 1]
  /\ stats' = Recorded(calls[t], calls[t].requests - IF calls[t].ok THEN 1 ELSE 0)
  /\ UNCHANGED <<query, calls, cache, now, history, asks>>

(* The answer is put in the cache, or the failure is told: no vector, or   *)
(* an exception.                                                           *)
Finish(t) ==
  /\ pc[t] = "finish" /\ Return(t)
  /\ calls' = [calls EXCEPT ![t] = NoCall]
  /\ IF calls[t].ok
     THEN /\ cache' = AfterPut(query[t]) /\ Used(query[t])
          /\ putAt' = [k \in DOMAIN putAt \cup {query[t]} |-> IF k = query[t] THEN now ELSE putAt[k]]
          /\ Count({"misses", "served"})
     ELSE Count({"misses", "unserved"}) /\ UNCHANGED <<cache, history>>
  /\ UNCHANGED <<slots, now, asks>>

Tick ==
  /\ now < MaxTime /\ now' = now + 1
  /\ UNCHANGED <<pc, query, calls, cache, slots, stats, history, asks>>

Serve(t) ==
  \/ Recheck(t)
  \/ AcquireProvider(t) \/ ProviderAnswers(t) \/ ProviderFails(t) \/ Wake(t)
  \/ Leave(t) \/ Finish(t)

Next == Tick \/ \E t \in Threads : Serve(t) \/ \E k \in Keys : Ask(t, k)

Spec == Init /\ [][Next]_vars

(* Threads go on, sleeps end and provider calls return within timeout_s.   *)
FairSpec == Spec /\ \A t \in Threads : WF_vars(Serve(t))

-----------------------------------------------------------------------------
(* Properties *)

(* The cache never has a key twice or more than online_query_cache_size    *)
(* entries, and a query is only forgotten when its answer has expired or   *)
(* as many others were used since: threads that look up, expire and put in *)
(* any order do not throw a recent answer out.                             *)
ForgetsLeastRecent ==
  /\ Len(cache) <= CacheSize
  /\ \A m, n \in DOMAIN cache : cache[m].key = cache[n].key => m = n
  /\ \A n \in DOMAIN uses :
       \/ uses[n] \in Cached
       \/ now >= putAt[uses[n]] + Ttl
       \/ Len(uses) - n >= CacheSize

(* Every query is answered or refused: threads that hold a query slot and  *)
(* wait for a provider slot never block one another.                       *)
EveryQueryEnds == \A t \in Threads : pc[t] # "idle" ~> pc[t] = "idle"
=============================================================================
