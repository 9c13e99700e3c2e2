---------------------------- MODULE KadProviders ----------------------------
(***************************************************************************)
(* The provider records a Kademlia node keeps for others: a bounded cache  *)
(* with a heap for its oldest record, the table it is written through to   *)
(* and reloaded from, and the token a node must fetch before it may store. *)
(***************************************************************************)
EXTENDS Naturals, FiniteSets, FiniteSetsExt

CONSTANTS
  Skills, Hosts,
  Remote,       \* records that other nodes publish with PUT_PROVIDER
  MaxRecords,   \* max_provider_records (50 000)
  PerKey,       \* _MAX_PROVIDERS_PER_KEY (100)
  MaxStores     \* bound: calls of store()

ASSUME ProviderAssumption == 
  {MaxRecords, PerKey, MaxStores} \subseteq Nat \ {0} /\ Remote \subseteq Skills \X Hosts

Records == Skills \X Hosts

VARIABLES
  cache,    \* record -> number of the store() that wrote it: stored_at
  stored,    \* the same for the rows of kad_providers
  outdated, \* records whose ttl has passed
  heap,     \* _evict_heap
  total,    \* _total_records
  put,      \* how far publishing a record is: "idle", "asking" with GET_PROVIDERS,
            \* or PUT_PROVIDER sent with a token of this window ("now"), of the one
            \* "before", or "invalid"
  storeCalls

providerVars == <<cache, stored, outdated, heap, total, put, storeCalls>>

ProviderTypeOK ==
  /\ DOMAIN cache \subseteq Records /\ DOMAIN stored \subseteq Records
  /\ \A r \in DOMAIN cache : r \in DOMAIN stored /\ cache[r] = stored[r] /\ <<cache[r], r>> \in heap
  /\ Cardinality(DOMAIN cache) <= total /\ storeCalls \in 0..MaxStores
  /\ put \in [Remote -> {"idle", "asking", "now", "before", "invalid"}]

ProviderInit ==
  /\ cache = <<>> /\ stored = <<>> /\ outdated = {} /\ heap = {} /\ total = 0 /\ storeCalls = 0
  /\ put = [r \in Remote |-> "idle"]
-----------------------------------------------------------------------------
Without(f, gone) == [r \in DOMAIN f \ gone |-> f[r]]
StoredAt(f, r, n) == [x \in DOMAIN f \cup {r} |-> IF x = r THEN n ELSE f[x]]
OfKey(c, k) == {r \in DOMAIN c : r[1] = k}

\* Mutant of Valid: a record written again is not told from the old one.
ValidKey(h, c) == {e \in h : e[2] \in DOMAIN c}

\* Entries of the heap whose record is still the one they were pushed for
Valid(h, c) == {e \in h : e[2] \in DOMAIN c /\ c[e[2]] = e[1]}

\* _evict_oldest(): the record to drop, none if the cache is empty; without a
\* valid entry any record.
Oldest(h, c) ==
  IF Valid(h, c) = {} THEN IF c = <<>> THEN {} ELSE {CHOOSE r \in DOMAIN c : TRUE}
  ELSE {(CHOOSE e \in Valid(h, c) : \A f \in Valid(h, c) : e[1] <= f[1])[2]}

\* store() on cache c with rows s and n records: at capacity the oldest goes,
\* and if it was the last one of the same key the dict of the key is gone, the
\* assignment raises KeyError and on_inbound() logs it.
Store(r, c, s, n) ==
  LET gone   == IF r \notin DOMAIN c /\ n >= MaxRecords THEN Oldest(heap, c) ELSE {}
      raises == \E g \in gone : OfKey(c, r[1]) = {g}
      popped == {e \in heap : gone # {} /\ \A g \in gone : e[1] <= c[g]}
      popAll == r \notin DOMAIN c /\ n >= MaxRecords /\ Valid(heap, c) = {}
      now    == storeCalls + 1
  IN /\ storeCalls < MaxStores /\ storeCalls' = now
     /\ cache' = IF raises THEN Without(c, gone) ELSE StoredAt(Without(c, gone), r, now)
     /\ stored' = IF raises THEN Without(s, gone) ELSE StoredAt(Without(s, gone), r, now)
     /\ heap'  = (IF popAll THEN {} ELSE heap \ popped) \cup (IF raises THEN {} ELSE {<<now, r>>})
     /\ total' = n + (IF r \notin DOMAIN c THEN 1 ELSE 0) - Cardinality(gone)
     /\ outdated' = (outdated \ gone) \ (IF raises THEN {} ELSE {r})

\* An announcement, an own one, or a record a lookup found: any node's, any time.
Learn(r) == Store(r, cache, stored, total) /\ UNCHANGED put

\* _put_provider_to_closest() of another node: GET_PROVIDERS first.
Publish(r) ==
  /\ put[r] = "idle" /\ put' = [put EXCEPT ![r] = "asking"]
  /\ UNCHANGED <<cache, stored, outdated, heap, total, storeCalls>>

\* _handle_get_providers() answers with a token, and the PUT is sent.
GetAnswered(r) ==
  /\ put[r] = "asking" /\ put' = [put EXCEPT ![r] = "now"]
  /\ UNCHANGED <<cache, stored, outdated, heap, total, storeCalls>>

\* The request times out or the message is lost.
PutFails(r) ==
  /\ put[r] # "idle" /\ put' = [put EXCEPT ![r] = "idle"]
  /\ UNCHANGED <<cache, stored, outdated, heap, total, storeCalls>>

\* _handle_put_provider(): a full key first loses its own oldest record.  A
\* sender that is too far from the key, or whose token is invalid, is ignored.
PutArrives(r) ==
  LET key  == OfKey(cache, r[1])
      over == IF r \notin key /\ Cardinality(key) >= PerKey
              THEN {CHOOSE o \in key : \A x \in key : cache[o] <= cache[x]} ELSE {}
  IN /\ put[r] \in {"now", "before", "invalid"} /\ put' = [put EXCEPT ![r] = "idle"]
     /\ IF put[r] = "invalid" THEN UNCHANGED <<cache, stored, outdated, heap, total, storeCalls>>
        ELSE \* store() goes on from what remove() leaves; a record of another time stays outdated
             Store(r, Without(cache, over), Without(stored, over), total - Cardinality(over))

\* Deregister
Withdraw(r) ==
  /\ r \in DOMAIN cache /\ cache' = Without(cache, {r}) /\ stored' = Without(stored, {r})
  /\ total' = total - 1 /\ outdated' = outdated \ {r} /\ UNCHANGED <<heap, put, storeCalls>>

Outdate(r) ==
  /\ r \in DOMAIN stored \ outdated /\ outdated' = outdated \cup {r}
  /\ UNCHANGED <<cache, stored, heap, total, put, storeCalls>>

\* evict_expired(), and the heap is rebuilt when stale entries dominate.
EvictExpired ==
  LET gone == DOMAIN cache \cap outdated
      kept == Without(cache, gone)
      n    == total - Cardinality(gone)
  IN /\ cache' = kept /\ stored' = Without(stored, gone) /\ total' = n
     /\ heap' = IF Cardinality(heap) > 3 * Max({n, 1}) THEN {<<kept[r], r>> : r \in DOMAIN kept} ELSE heap
     /\ outdated' = outdated \ gone /\ UNCHANGED <<put, storeCalls>>

\* Five minutes: a token of the window before is still accepted.
NextWindow ==
  /\ put' = [r \in Remote |-> CASE put[r] = "now" -> "before" [] put[r] = "before" -> "invalid"
                                  [] OTHER -> put[r]]
  /\ UNCHANGED <<cache, stored, outdated, heap, total, storeCalls>>

\* A restart: a new secret, and _load_from_db() takes live rows up to capacity.
Reload ==
  LET live == DOMAIN stored \ outdated IN
  /\ \E taken \in kSubset(Min({Cardinality(live), MaxRecords}), live) :
        /\ cache' = [r \in taken |-> stored[r]] /\ heap' = {<<stored[r], r>> : r \in taken}
        /\ total' = Cardinality(taken)
  /\ put' = [r \in Remote |-> IF put[r] \in {"now", "before"} THEN "invalid" ELSE put[r]]
  /\ UNCHANGED <<stored, outdated, storeCalls>>

ProviderNext ==
  \/ \E r \in Records : Learn(r) \/ Withdraw(r) \/ Outdate(r)
  \/ \E r \in Remote : Publish(r) \/ GetAnswered(r) \/ PutFails(r) \/ PutArrives(r)
  \/ EvictExpired \/ NextWindow \/ Reload

ProviderSpec == ProviderInit /\ [][ProviderNext]_providerVars
-----------------------------------------------------------------------------
(* Properties                                                              *)

\* providers.py KAD-08: a store takes away no record but the oldest one, or the
\* oldest one of its key when that is full: not one that was written again, and
\* whatever was removed, expired, compacted or reloaded in between.
OldestGoes ==
  [][storeCalls' # storeCalls =>
       \A r \in DOMAIN cache \ DOMAIN cache' :
          \/ \A o \in DOMAIN cache : cache[r] <= cache[o]
          \/ /\ Cardinality(OfKey(cache, r[1])) >= PerKey
             /\ \A o \in OfKey(cache, r[1]) : cache[r] <= cache[o]]_providerVars
=============================================================================
