------------------------------ MODULE PeerProofs ------------------------------
(***************************************************************************)
(* What a node keeps of its peers and what it hears from them, for every   *)
(* value of the constants of each module: own skills, pooled connections,  *)
(* the loops that consume bus events, provider records and dials.          *)
(***************************************************************************)
EXTENDS Gossip, ConnectionPool, BusLoop, KadProviders, CircuitBudget, DataOpsTheorems

-----------------------------------------------------------------------------
(* Announcements of an own skill                                           *)

\* What the loader is at tells what is own, only an own skill is announced, and
\* the row and its flag go together.
OwnRowInv ==
  /\ GossipTypeOK
  /\ \A n \in isOwn : table[n] # "none"
  /\ ~up => step = "idle"
  /\ up /\ step = "idle" => /\ Provider \in isOwn => own \/ kept
                            /\ own => Provider \in isOwn \/ raw \/ lost
  /\ step # "idle" => (own <=> step = "announcing")

LEMMA SampleOf ==
  ASSUME NEW S, NEW k, NEW to \in Samples(S, k) PROVE to \subseteq S
BY DEF Samples, kSubset

LEMMA SentTyped ==
  ASSUME NEW kind \in {"announce", "deregister"}, NEW i \in Ids, NEW hops \in 0..Hops, NEW to \in SUBSET Others
  PROVE  Sent(kind, i, hops, to) \subseteq GossipMessage
BY DEF Sent, GossipMessage

LEMMA OwnRowStarts == ASSUME GossipInit PROVE OwnRowInv
<1> USE GossipAssumption DEF GossipInit
<1>2. /\ config \in BOOLEAN /\ valid \in BOOLEAN /\ up \in BOOLEAN /\ reload \in BOOLEAN
      /\ handler \in BOOLEAN /\ own \in BOOLEAN /\ raw \in BOOLEAN
      /\ lost \in BOOLEAN /\ kept \in BOOLEAN
  OBVIOUS
<1>3. /\ isOwn \subseteq Nodes /\ step \in {"idle", "announcing", "removing"}
      /\ table \in [Nodes -> {"none", "fresh", "stale"}]
      /\ seenIds \in [Nodes -> SUBSET Ids] /\ net \subseteq GossipMessage /\ found \subseteq Others
      /\ edits \in 0..MaxEdits /\ outages \in 0..MaxOutages
  OBVIOUS
<1>1. GossipTypeOK  BY <1>2, <1>3 DEF GossipTypeOK
<1> QED BY <1>1 DEF OwnRowInv

LEMMA UpsertKeeps ==
  ASSUME OwnRowInv, NEW n \in Nodes, NEW asOwn \in BOOLEAN, Upsert(n, asOwn)
  PROVE  /\ table' \in [Nodes -> {"none", "fresh", "stale"}] /\ isOwn' \subseteq Nodes
         /\ \A m \in isOwn' : table'[m] # "none"
         /\ Provider \in isOwn' <=> Provider \in isOwn \/ (asOwn /\ n = Provider)
<1> USE DEF OwnRowInv
<1>1. table \in [Nodes -> {"none", "fresh", "stale"}] /\ isOwn \subseteq Nodes
  BY DEF GossipTypeOK
<1>2. CASE asOwn = TRUE  BY <1>1, <1>2 DEF Upsert
<1>3. CASE asOwn = FALSE  BY <1>1, <1>3 DEF Upsert
<1> QED BY <1>2, <1>3

LEMMA RemoveKeeps ==
  ASSUME OwnRowInv, NEW n \in Nodes, RemoveRow(n)
  PROVE  /\ table' \in [Nodes -> {"none", "fresh", "stale"}] /\ isOwn' \subseteq Nodes
         /\ \A m \in isOwn' : table'[m] # "none"
         /\ Provider \in isOwn' <=> Provider \in isOwn /\ n # Provider
<1> USE DEF OwnRowInv
<1>1. table \in [Nodes -> {"none", "fresh", "stale"}] /\ isOwn \subseteq Nodes
  BY DEF GossipTypeOK
<1> QED BY <1>1 DEF RemoveRow

LEMMA OwnRowStep == ASSUME OwnRowInv, [GossipNext]_gossipVars PROVE OwnRowInv'
<1> USE GossipAssumption
<1>t. /\ GossipTypeOK
      /\ config \in BOOLEAN /\ valid \in BOOLEAN /\ up \in BOOLEAN /\ reload \in BOOLEAN
      /\ handler \in BOOLEAN /\ own \in BOOLEAN /\ raw \in BOOLEAN
      /\ lost \in BOOLEAN /\ kept \in BOOLEAN /\ isOwn \subseteq Nodes
      /\ table \in [Nodes -> {"none", "fresh", "stale"}]
      /\ seenIds \in [Nodes -> SUBSET Ids] /\ net \subseteq GossipMessage /\ found \subseteq Others
      /\ edits \in 0..MaxEdits /\ outages \in 0..MaxOutages
      /\ MaxEdits \in Nat /\ MaxOutages \in Nat /\ Hops \in Nat
      /\ Provider \in Nodes /\ Others \subseteq Nodes /\ Provider \notin Others
  BY DEF OwnRowInv, GossipTypeOK, Others
<1>u. Others' = Others  OBVIOUS
<1>1. CASE EditConfig
  <2>1. /\ edits' \in 0..MaxEdits /\ config' \in BOOLEAN /\ reload' \in BOOLEAN
        /\ UNCHANGED <<up, handler, own, raw, step, table, isOwn, lost, kept, seenIds, net, found, outages>>
    BY <1>1, <1>t DEF EditConfig, skillVars, doubtVars
  <2>2. valid' \in BOOLEAN  BY <1>1 DEF EditConfig
  <2>3. GossipTypeOK'  BY <2>1, <2>2, <1>t DEF GossipTypeOK
  <2> QED BY <2>1, <2>3 DEF OwnRowInv
<1>2. CASE NodeStarts
  <2>1. /\ ~up /\ up' = TRUE /\ own' = (Provider \in isOwn) /\ reload' = TRUE
        /\ UNCHANGED <<config, valid, handler, raw, step, table, isOwn, lost, kept, net, found, edits, outages>>
    BY <1>2 DEF NodeStarts, boundVars, configVars, doubtVars
  <2>2. seenIds' \in [Nodes -> SUBSET Ids]  BY <1>2, <1>t DEF NodeStarts
  <2>3. own' \in BOOLEAN  BY <2>1
  <2>4. GossipTypeOK'  BY <2>1, <2>2, <2>3, <1>t DEF GossipTypeOK
  <2>5. step = "idle"  BY <2>1 DEF OwnRowInv
  <2> QED BY <2>1, <2>4, <2>5 DEF OwnRowInv
<1>3. CASE NodeStops
  <2>1. /\ up' = FALSE /\ reload' = FALSE /\ handler' = FALSE /\ own' = FALSE /\ raw' = FALSE
        /\ step' = "idle" /\ lost' = FALSE /\ kept' = FALSE
        /\ UNCHANGED <<config, valid, table, isOwn, seenIds, net, found, edits>>
        /\ outages' \in 0..MaxOutages
    BY <1>3, <1>t DEF NodeStops, configVars
  <2>2. GossipTypeOK'  BY <2>1, <1>t DEF GossipTypeOK
  <2> QED BY <2>1, <2>2 DEF OwnRowInv
<1>4. CASE LoadSkills
  <2>1. /\ up /\ step = "idle" /\ reload' = FALSE
        /\ UNCHANGED <<config, valid, up, table, isOwn, lost, kept, seenIds, net, found, edits, outages>>
    BY <1>4 DEF LoadSkills, boundVars, configVars, doubtVars
  <2>2. \/ UNCHANGED <<handler, own, raw, step>>
        \/ handler' = TRUE /\ UNCHANGED <<own, raw, step>>
        \/ handler' = TRUE /\ own' = TRUE /\ raw' = FALSE /\ step' = "announcing"
        \/ handler' = TRUE /\ own' = TRUE /\ raw' = TRUE /\ step' = "idle"
        \/ own' = FALSE /\ raw' = FALSE /\ step' = (IF own THEN "removing" ELSE "idle") /\ handler' = own
    BY <1>4, <2>1 DEF LoadSkills, BeginAnnounce, BeginDeregister, skillVars
  <2>3. /\ handler' \in BOOLEAN /\ own' \in BOOLEAN /\ raw' \in BOOLEAN
        /\ step' \in {"idle", "announcing", "removing"}
    BY <2>1, <2>2, <1>t
  <2>4. GossipTypeOK'  BY <2>1, <2>3, <1>t DEF GossipTypeOK
  <2>5. (Provider \in isOwn => own \/ kept) /\ (own => Provider \in isOwn \/ raw \/ lost)
    BY <2>1 DEF OwnRowInv
  <2>6. /\ up' /\ step' = "idle" => /\ Provider \in isOwn' => own' \/ kept'
                                    /\ own' => Provider \in isOwn' \/ raw' \/ lost'
        /\ step' # "idle" => (own' <=> step' = "announcing")
    <3>1. CASE UNCHANGED <<own, raw, step>>  BY <3>1, <2>1, <2>5
    <3>2. CASE own' = TRUE /\ raw' = FALSE /\ step' = "announcing"  BY <3>2
    <3>3. CASE own' = TRUE /\ raw' = TRUE /\ step' = "idle"  BY <3>3
    <3>4. CASE own' = FALSE /\ step' = (IF own THEN "removing" ELSE "idle")  BY <3>4, <2>1, <2>5
    <3> QED BY <3>1, <3>2, <3>3, <3>4, <2>2
  <2> QED BY <2>1, <2>4, <2>6 DEF OwnRowInv
<1>5. CASE Load
  <2>1. PICK i \in Ids : Announced(i) \/ Deregistered(i)  BY <1>5 DEF Load
  <2>2. seenIds' \in [Nodes -> SUBSET Ids]
    BY <2>1, <1>t DEF Announced, Deregistered
  <2>3. net' \subseteq GossipMessage
    <3>1. PICK kind \in {"announce", "deregister"}, to \in Samples(Others, Fanout) :
            net' = net \cup Sent(kind, i, 0, to)
      BY <2>1 DEF Announced, Deregistered
    <3>2. to \in SUBSET Others /\ 0 \in 0..Hops  BY <1>t, SampleOf
    <3> QED BY <3>1, <3>2, <1>t, SentTyped
  <2>4. CASE Announced(i)
    <3>1. /\ step = "announcing" /\ Upsert(Provider, TRUE) /\ step' = "idle"
          /\ lost' = FALSE /\ kept' = FALSE
          /\ UNCHANGED <<config, valid, up, reload, handler, own, raw, found, edits, outages>>
      BY <2>4 DEF Announced, boundVars, configVars
    <3>2. /\ table' \in [Nodes -> {"none", "fresh", "stale"}] /\ isOwn' \subseteq Nodes
          /\ \A m \in isOwn' : table'[m] # "none"
          /\ Provider \in isOwn'
      BY <3>1, <1>t, UpsertKeeps
    <3>3. GossipTypeOK'  BY <3>1, <3>2, <2>2, <2>3, <1>t DEF GossipTypeOK
    <3>4. own  BY <3>1 DEF OwnRowInv
    <3> QED BY <3>1, <3>2, <3>3, <3>4 DEF OwnRowInv
  <2>5. CASE Deregistered(i)
    <3>1. /\ step = "removing" /\ RemoveRow(Provider) /\ step' = "idle" /\ handler' = FALSE
          /\ lost' = FALSE /\ kept' = FALSE
          /\ UNCHANGED <<config, valid, up, reload, own, raw, found, edits, outages>>
      BY <2>5 DEF Deregistered, boundVars, configVars
    <3>2. /\ table' \in [Nodes -> {"none", "fresh", "stale"}] /\ isOwn' \subseteq Nodes
          /\ \A m \in isOwn' : table'[m] # "none"
          /\ Provider \notin isOwn'
      BY <3>1, <1>t, RemoveKeeps
    <3>3. GossipTypeOK'  BY <3>1, <3>2, <2>2, <2>3, <1>t DEF GossipTypeOK
    <3>4. ~own  BY <3>1 DEF OwnRowInv
    <3> QED BY <3>1, <3>2, <3>3, <3>4 DEF OwnRowInv
  <2> QED BY <2>1, <2>4, <2>5
<1>6. CASE \E i \in Ids : Republish(i)
  <2>1. PICK i \in Ids : Republish(i)  BY <1>6
  <2>2. UNCHANGED <<config, valid, up, reload, handler, own, raw, step, lost, kept, table, isOwn, found, edits, outages>>
    BY <2>1 DEF Republish, boundVars, configVars, skillVars, doubtVars
  <2>3. seenIds' \in [Nodes -> SUBSET Ids]  BY <2>1, <1>t DEF Republish
  <2>4. net' \subseteq GossipMessage
    <3>1. PICK to \in Samples(Others, RepublishFanout) : net' = Sent("announce", i, 0, to)
      BY <2>1 DEF Republish
    <3>2. to \in SUBSET Others /\ 0 \in 0..Hops  BY <1>t, SampleOf
    <3> QED BY <3>1, <3>2, <1>t, SentTyped
  <2>5. GossipTypeOK'  BY <2>2, <2>3, <2>4, <1>t DEF GossipTypeOK
  <2> QED BY <2>2, <2>5 DEF OwnRowInv
<1>7. CASE \E n \in Others, kind \in {"announce", "deregister"} : Hear(n, kind)
  <2>1. PICK m \in net : m.to \in Others /\ GossipReceive(m)  BY <1>7 DEF Hear
  <2>2. UNCHANGED <<config, valid, up, reload, handler, own, raw, step, lost, kept, found, edits, outages>>
    BY <2>1 DEF GossipReceive, boundVars, configVars, skillVars, doubtVars
  <2>3. /\ table' \in [Nodes -> {"none", "fresh", "stale"}] /\ isOwn' \subseteq Nodes
        /\ \A n \in isOwn' : table'[n] # "none"
        /\ Provider \in isOwn' <=> Provider \in isOwn
    <3>1. m.to \in Nodes /\ m.to # Provider  BY <2>1, <1>t
    <3>2. Upsert(m.to, FALSE) \/ RemoveRow(m.to)  BY <2>1 DEF GossipReceive
    <3>3. CASE Upsert(m.to, FALSE)  BY <3>1, <3>3, UpsertKeeps
    <3>4. CASE RemoveRow(m.to)  BY <3>1, <3>4, RemoveKeeps
    <3> QED BY <3>2, <3>3, <3>4
  <2>4. m \in GossipMessage  BY <1>t
  <2>5. seenIds' \in [Nodes -> SUBSET Ids]
    BY <2>1, <2>4, <1>t DEF GossipReceive, GossipMessage, Remember
  <2>6. net' \subseteq GossipMessage
    <3>1. CASE net' = net \ {m}  BY <3>1, <1>t
    <3>2. CASE m.hops < Hops /\ \E to \in Samples(Others \ {m.to}, Fanout) :
                  net' = (net \ {m}) \cup Sent(m.kind, m.id, m.hops + 1, to)
      <4>1. PICK to \in Samples(Others \ {m.to}, Fanout) :
              net' = (net \ {m}) \cup Sent(m.kind, m.id, m.hops + 1, to)
        BY <3>2
      <4>2. to \in SUBSET Others  BY SampleOf
      <4>3. m.kind \in {"announce", "deregister"} /\ m.id \in Ids /\ m.hops + 1 \in 0..Hops
        BY <3>2, <2>4, <1>t DEF GossipMessage
      <4>4. Sent(m.kind, m.id, m.hops + 1, to) \subseteq GossipMessage  BY <4>2, <4>3, SentTyped
      <4> QED BY <4>1, <4>4, <1>t
    <3> QED BY <3>1, <3>2, <2>1 DEF GossipReceive
  <2>7. GossipTypeOK'  BY <2>2, <2>3, <2>5, <2>6, <1>t DEF GossipTypeOK
  <2> QED BY <2>2, <2>3, <2>7 DEF OwnRowInv
<1>8. CASE DropAny \/ (\E n \in Others : PeerRestarts(n))
  <2>1. /\ UNCHANGED <<config, valid, up, reload, handler, own, raw, step, lost, kept, table, isOwn, edits, found>>
        /\ net' \subseteq net /\ outages' \in 0..MaxOutages /\ seenIds' \in [Nodes -> SUBSET Ids]
    BY <1>8, <1>t DEF DropAny, GossipLost, PeerRestarts, Remember, boundVars, configVars, skillVars, doubtVars
  <2>2. GossipTypeOK'  BY <2>1, <1>t DEF GossipTypeOK
  <2> QED BY <2>1, <2>2 DEF OwnRowInv
<1>9. CASE \/ \E n, m \in Nodes : n # m /\ SyncFrom(n, m)
           \/ \E n \in Others : CacheFound(n)
  <2>1. PICK n \in Nodes : Upsert(n, FALSE)  BY <1>9, <1>t DEF SyncFrom, CacheFound
  <2>2. /\ UNCHANGED <<config, valid, up, reload, handler, own, raw, step, lost, kept, seenIds, net, edits, outages>>
        /\ found' \subseteq found
    <3>1. CASE \E m, k \in Nodes : SyncFrom(m, k)  BY <3>1, <1>t DEF SyncFrom, boundVars, configVars, skillVars, doubtVars
    <3>2. CASE \E m \in Others : CacheFound(m)  BY <3>2, <1>t DEF CacheFound, boundVars, configVars, skillVars, doubtVars
    <3> QED BY <1>9, <3>1, <3>2
  <2>3. /\ table' \in [Nodes -> {"none", "fresh", "stale"}] /\ isOwn' \subseteq Nodes
        /\ \A m \in isOwn' : table'[m] # "none"
        /\ Provider \in isOwn' <=> Provider \in isOwn
    BY <2>1, UpsertKeeps
  <2>4. GossipTypeOK'  BY <2>2, <2>3, <1>t DEF GossipTypeOK
  <2> QED BY <2>2, <2>3, <2>4 DEF OwnRowInv
<1>10. CASE \E n \in Others : Query(n)
  <2>1. /\ UNCHANGED <<config, valid, up, reload, handler, own, raw, step, lost, kept, table, isOwn, seenIds, net, edits, outages>>
        /\ found' \subseteq Others
    BY <1>10, <1>t DEF Query, boundVars, configVars, skillVars, doubtVars
  <2>2. GossipTypeOK'  BY <2>1, <1>t DEF GossipTypeOK
  <2> QED BY <2>1, <2>2 DEF OwnRowInv
<1>11. CASE \E n \in Nodes : Expire(n) \/ PruneSkills(n)
  <2>1. UNCHANGED <<config, valid, up, reload, handler, own, raw, step, lost, kept, isOwn, seenIds, net, found, edits, outages>>
    BY <1>11 DEF Expire, PruneSkills, boundVars, configVars, skillVars, doubtVars
  <2>2. /\ table' \in [Nodes -> {"none", "fresh", "stale"}]
        /\ \A m \in isOwn : table'[m] # "none"
    BY <1>11, <1>t DEF Expire, PruneSkills, OwnRowInv
  <2>3. GossipTypeOK'  BY <2>1, <2>2, <1>t DEF GossipTypeOK
  <2> QED BY <2>1, <2>2, <2>3 DEF OwnRowInv
<1>13. CASE WriteRaises
  <2>1. /\ step # "idle" /\ step' = "idle"
        /\ lost' = (lost \/ step = "announcing") /\ kept' = (kept \/ step = "removing")
        /\ UNCHANGED <<config, valid, up, reload, handler, own, raw, table, isOwn, seenIds, net, found, edits, outages>>
    BY <1>13 DEF WriteRaises, boundVars, configVars
  <2>2. GossipTypeOK'  BY <2>1, <1>t DEF GossipTypeOK
  <2>3. (own <=> step = "announcing") /\ step \in {"announcing", "removing"}
    BY <2>1 DEF OwnRowInv, GossipTypeOK
  <2>4. CASE step = "announcing"  BY <2>1, <2>2, <2>3, <2>4 DEF OwnRowInv
  <2>5. CASE step = "removing"
    <3>1. ~own /\ kept'  BY <2>1, <2>3, <2>5
    <3> QED BY <2>1, <2>2, <3>1 DEF OwnRowInv
  <2> QED BY <2>3, <2>4, <2>5
<1>14. CASE \E n \in Nodes : Evict(n)
  <2>1. PICK n \in Nodes : Evict(n)  BY <1>14
  <2>2. /\ RemoveRow(n) /\ lost' = (lost \/ (n = Provider /\ n \in isOwn))
        /\ UNCHANGED <<config, valid, up, reload, handler, own, raw, step, kept, seenIds, net, found, edits, outages>>
    BY <2>1 DEF Evict, boundVars, configVars, skillVars
  <2>3. /\ table' \in [Nodes -> {"none", "fresh", "stale"}] /\ isOwn' \subseteq Nodes
        /\ \A m \in isOwn' : table'[m] # "none"
        /\ Provider \in isOwn' <=> Provider \in isOwn /\ n # Provider
    BY <2>2, RemoveKeeps
  <2>4. GossipTypeOK'  BY <2>2, <2>3, <1>t DEF GossipTypeOK
  <2> QED BY <2>2, <2>3, <2>4 DEF OwnRowInv
<1>12. CASE UNCHANGED gossipVars
  <2>1. UNCHANGED <<config, valid, up, reload, handler, own, raw, step, lost, kept, table, isOwn, seenIds, net, found, edits, outages>>
    BY <1>12 DEF gossipVars
  <2>2. GossipTypeOK'  BY <2>1, <1>t DEF GossipTypeOK
  <2> QED BY <2>1, <2>2 DEF OwnRowInv
<1> QED BY <1>1, <1>2, <1>3, <1>4, <1>5, <1>6, <1>7, <1>8, <1>9, <1>10, <1>11, <1>12, <1>13, <1>14 DEF GossipNext, Copies

\* Whatever announcements and tables come back to it, what a provider would
\* find as its own at a restart is what it provides, up to a write that raised,
\* a refused sheet and an eviction from a full table.
THEOREM OwnRowTheorem == GossipSpec => []OwnRowMatches
<1>1. GossipInit => OwnRowInv  BY OwnRowStarts
<1>2. OwnRowInv /\ [GossipNext]_gossipVars => OwnRowInv'  BY OwnRowStep
<1>3. OwnRowInv => OwnRowMatches  BY DEF OwnRowInv, OwnRowMatches
<1> QED BY <1>1, <1>2, <1>3, PTL DEF GossipSpec
-----------------------------------------------------------------------------
(* The connection pool.  A connection that is in the pool, or in the hands *)
(* of a send, has no answer under way but that of the send.                *)

Holding == {"send", "receive", "closing", "open", "dial", "failed"}

\* The lock of a peer is held by the send between its acquisition and its end.
LockOK ==
  /\ \A s \in Sends : pc[s] \in Holding <=> lockOf[PeerOf[s]] = s
  /\ \A p \in Peers : lockOf[p] # NoSend => PeerOf[lockOf[p]] = p

\* A connection in the pool is open, belongs to one peer and has been opened;
\* one that has not been opened is untouched.
PooledOK ==
  /\ \A p \in Peers : pool[p] \notin shut /\ pool[p] <= opened
  /\ \A p, q \in Peers : pool[p] # 0 /\ pool[p] = pool[q] => p = q
  /\ \A c \in Conns : c > opened => c \notin shut /\ c \notin torn /\ inFlight[c] = <<>>

\* The connection of a send in progress is the pooled one, or closed; a send
\* that looks for a new one has left none in the pool.
UsesPooled ==
  \A s \in Sends :
    /\ pc[s] \in {"send", "receive", "failed"} =>
         /\ conn[s] \in Conns /\ conn[s] <= opened /\ pool[PeerOf[s]] \in {0, conn[s]}
         /\ conn[s] \in shut \/ pool[PeerOf[s]] # 0
    /\ pc[s] \in {"closing", "open", "dial"} => pool[PeerOf[s]] = 0

\* Short of a cancelled send, a pooled connection is empty between two sends, ...
EmptyBetween ==
  \A p \in Peers :
    pool[p] # 0 /\ pool[p] \notin torn /\ (lockOf[p] = NoSend \/ pc[lockOf[p]] = "send")
      => inFlight[pool[p]] = <<>>

\* ... and holds the message of the send that waits, and no other.
OwnInFlight ==
  \A s \in Sends :
    pc[s] = "receive" /\ conn[s] \notin shut /\ conn[s] \notin torn => inFlight[conn[s]] = <<s>>

Unanswered == \A s \in Sends : pc[s] # "done" => answer[s] = NoSend

PoolInv == PoolTypeOK /\ LockOK /\ PooledOK /\ UsesPooled /\ EmptyBetween /\ OwnInFlight /\ Unanswered /\ AnswersOwn

LEMMA PeersOfSends == \A s \in Sends : PeerOf[s] \in Peers
BY DEF Peers

LEMMA PoppedType ==
  ASSUME PoolTypeOK, NEW p \in Peers, Popped(p)
  PROVE  pool' \in [Peers -> 0..MaxOpens] /\ shut' \subseteq Conns
<1>1. MaxOpens \in Nat
  BY PoolAssumption
<1>2. 0 \in 0..MaxOpens /\ pool[p] \in 0..MaxOpens /\ (pool[p] # 0 => pool[p] \in Conns)
  BY <1>1 DEF PoolTypeOK, Conns
<1> QED
  BY <1>2 DEF PoolTypeOK, Popped

LEMMA UntrackType ==
  ASSUME PoolTypeOK, NEW p \in Peers, Untrack(p)
  PROVE  /\ connHost' \in [Peers -> {"none", "clear", "onion"}]
         /\ order' \in Seq(Peers) /\ lastUsed' \subseteq Peers
BY RemoveFirstSeq DEF PoolTypeOK, Untrack

LEMMA DialFailsType ==
  ASSUME PoolTypeOK, NEW s \in Sends, DialFails(s)
  PROVE  /\ pc' \in [Sends -> {"new", "lock", "send", "receive", "closing", "open", "dial", "failed", "done"}]
         /\ attempt' \in [Sends -> 0..3] /\ host' \in [Sends -> {"none", "clear", "onion"}]
         /\ limited' \subseteq Peers /\ lockOf' \in [Peers -> Sends \cup {NoSend}]
<1> DEFINE p    == PeerOf[s]
           back == attempt[s] < 3 /\ Given(s) = "clear" /\ host[s] = "onion" /\ p \notin limited
<1>1. p \in Peers
  BY PeersOfSends
<1>2. CASE back
  BY <1>1, <1>2 DEF PoolTypeOK, DialFails, Go
<1>3. CASE ~back
  BY <1>1, <1>3 DEF PoolTypeOK, DialFails, Go, Unlocked
<1> QED
  BY <1>2, <1>3

LEMMA OnwardType ==
  ASSUME PoolTypeOK, NEW s \in Sends, Onward(s)
  PROVE  /\ pc' \in [Sends -> {"new", "lock", "send", "receive", "closing", "open", "dial", "failed", "done"}]
         /\ attempt' \in [Sends -> 0..3] /\ host' \in [Sends -> {"none", "clear", "onion"}]
         /\ limited' \subseteq Peers /\ lockOf' \in [Peers -> Sends \cup {NoSend}]
<1>1. CASE attempt[s] < 2
  <2>1. attempt[s] \in 0..3 /\ attempt[s] + 1 \in 0..3
    BY <1>1 DEF PoolTypeOK
  <2> QED
    BY <1>1, <2>1 DEF PoolTypeOK, Onward, Go
<1>2. CASE ~(attempt[s] < 2)
  BY <1>2, DialFailsType DEF Onward
<1> QED
  BY <1>1, <1>2

LEMMA PoolTypeStep ==
  ASSUME PoolTypeOK, UsesPooled, [PoolNext]_poolVars
  PROVE  PoolTypeOK'
<1> USE PeersOfSends DEF book, tor, cancelVars, outer, wires, ofSend
<1>1. ASSUME NEW s \in Sends, Resolve(s)
      PROVE  PoolTypeOK'
  BY <1>1 DEF PoolTypeOK, Resolve, Given
<1>2. ASSUME NEW s \in Sends, Acquire(s)
      PROVE  PoolTypeOK'
  <2>1. pool' \in [Peers -> 0..MaxOpens] /\ shut' \subseteq Conns
    BY <1>2, PoppedType DEF PoolTypeOK, Acquire
  <2>2. /\ pc' \in [Sends -> {"new", "lock", "send", "receive", "closing", "open", "dial", "failed", "done"}]
        /\ attempt' \in [Sends -> 0..3] /\ conn' \in [Sends -> 0..MaxOpens]
    <3>1. PeerOf[s] \in Peers /\ pool[PeerOf[s]] \in 0..MaxOpens
      BY DEF PoolTypeOK
    <3>2. CASE Go(s, "send") /\ conn' = [conn EXCEPT ![s] = pool[PeerOf[s]]] /\ UNCHANGED attempt
      BY <3>1, <3>2 DEF PoolTypeOK, Go
    <3>3. CASE Go(s, "closing") /\ UNCHANGED <<conn, attempt>>
      BY <3>3 DEF PoolTypeOK, Go
    <3>4. CASE Go(s, "open") /\ attempt' = [attempt EXCEPT ![s] = 1] /\ UNCHANGED conn
      BY <3>4 DEF PoolTypeOK, Go
    <3> QED
      BY <1>2, <3>2, <3>3, <3>4 DEF Acquire
  <2> QED
    BY <1>2, <2>1, <2>2 DEF PoolTypeOK, Acquire
<1>3. ASSUME NEW s \in Sends, Write(s)
      PROVE  PoolTypeOK'
  <2>1. inFlight' \in [Conns -> Seq(Sends)]
    <3>1. conn[s] \in Conns /\ inFlight[conn[s]] \in Seq(Sends)
      BY <1>3 DEF PoolTypeOK, Write, UsesPooled
    <3>2. Append(inFlight[conn[s]], s) \in Seq(Sends)
      BY <3>1
    <3> QED
      BY <1>3, <3>2 DEF PoolTypeOK, Write
  <2> QED
    BY <1>3, <2>1 DEF PoolTypeOK, Write, Go
<1>4. ASSUME NEW s \in Sends, GetsReply(s)
      PROVE  PoolTypeOK'
  <2> DEFINE q == inFlight[conn[s]]
  <2>0. conn[s] \in Conns /\ q \in Seq(Sends) /\ q # <<>>
    BY <1>4 DEF PoolTypeOK, GetsReply, UsesPooled
  <2>h. Head(q) \in Sends /\ Tail(q) \in Seq(Sends)
    BY <2>0
  <2>1. inFlight' \in [Conns -> Seq(Sends)]
    BY <1>4, <2>h DEF PoolTypeOK, GetsReply
  <2>2. answer' \in [Sends -> Sends \cup {NoSend}]
    BY <1>4, <2>h DEF PoolTypeOK, GetsReply
  <2> QED
    BY <1>4, <2>1, <2>2 DEF PoolTypeOK, GetsReply, Go, Unlocked
<1>5. ASSUME NEW s \in Sends, GiveUp(s)
      PROVE  PoolTypeOK'
  BY <1>5 DEF PoolTypeOK, GiveUp, Go
<1>6. ASSUME NEW s \in Sends, AfterFailure(s)
      PROVE  PoolTypeOK'
  <2>1. CASE pool[PeerOf[s]] # 0
    BY <1>6, <2>1, PoppedType DEF PoolTypeOK, AfterFailure, Go
  <2>2. CASE pool[PeerOf[s]] = 0
    BY <1>6, <2>2, OnwardType DEF PoolTypeOK, AfterFailure
  <2> QED
    BY <2>1, <2>2
<1>7. ASSUME NEW s \in Sends, Closed(s)
      PROVE  PoolTypeOK'
  BY <1>7, OnwardType, UntrackType DEF PoolTypeOK, Closed
<1>8. ASSUME NEW s \in Sends, Open(s)
      PROVE  PoolTypeOK'
  <2>1. /\ pool' \in [Peers -> 0..MaxOpens] /\ shut' \subseteq Conns
        /\ connHost' \in [Peers -> {"none", "clear", "onion"}]
        /\ order' \in Seq(Peers) /\ lastUsed' \subseteq Peers
    <3>1. ASSUME NEW i \in Evicted,
                 Popped(order[i]), lastUsed' = lastUsed \ {order[i]},
                 connHost' = [connHost EXCEPT ![order[i]] = "none"], order' = RemoveAt(order, i)
          PROVE  <2>1!:
      <4>1. order \in Seq(Peers) /\ i \in 1..Len(order) /\ order[i] \in Peers
        BY <3>1 DEF PoolTypeOK, Evicted
      <4> QED
        BY <3>1, <4>1, PoppedType, RemoveAtIs DEF PoolTypeOK
    <3>2. CASE UNCHANGED <<book, shut>>
      BY <3>2 DEF PoolTypeOK
    <3> QED
      BY <1>8, <3>1, <3>2 DEF Open
  <2>2. CASE host[s] = "onion" /\ DialFails(s)
    BY <1>8, <2>1, <2>2, DialFailsType DEF PoolTypeOK, Open
  <2>3. CASE Go(s, "dial") /\ UNCHANGED <<attempt, host, limited, lockOf>>
    BY <1>8, <2>1, <2>3 DEF PoolTypeOK, Open, Go
  <2> QED
    BY <1>8, <2>2, <2>3 DEF Open
<1>9. ASSUME NEW s \in Sends, Dialled(s)
      PROVE  PoolTypeOK'
  <2>1. opened' \in 0..MaxOpens
    BY <1>9, PoolAssumption DEF PoolTypeOK, Dialled
  <2>2. order' \in Seq(Peers)
    BY <1>9 DEF PoolTypeOK, Dialled
  <2> QED
    BY <1>9, <2>1, <2>2 DEF PoolTypeOK, Dialled, Go
<1>10. ASSUME NEW s \in Sends, NotDialled(s)
      PROVE  PoolTypeOK'
  BY <1>10, DialFailsType DEF PoolTypeOK, NotDialled
<1>11. ASSUME NEW s \in Sends, SendCancelled(s)
      PROVE  PoolTypeOK'
  <2>1. cancels' \in 0..MaxCancels
    BY <1>11, PoolAssumption DEF PoolTypeOK, SendCancelled
  <2>2. pc[s] = "receive" => conn[s] \in Conns
    BY DEF UsesPooled
  <2> QED
    BY <1>11, <2>1, <2>2 DEF PoolTypeOK, SendCancelled, Go, Unlocked
<1>12. ASSUME NEW p \in Peers, Refill(p) \/ WindowEnds(p)
       PROVE  PoolTypeOK'
  BY <1>12 DEF PoolTypeOK, Refill, WindowEnds
<1>13. ASSUME NEW p \in Peers, CloseStarts(p)
       PROVE  PoolTypeOK'
  <2>1. closes' \in 0..MaxCloses
    BY <1>13, PoolAssumption DEF PoolTypeOK, CloseStarts
  <2> QED
    BY <1>13, <2>1, PoppedType DEF PoolTypeOK, CloseStarts
<1>14. ASSUME NEW p \in Peers, CloseEnds(p)
       PROVE  PoolTypeOK'
  BY <1>14, UntrackType DEF PoolTypeOK, CloseEnds
<1>15. CASE UNCHANGED poolVars
  BY <1>15 DEF PoolTypeOK, poolVars
<1> QED
  BY <1>1, <1>2, <1>3, <1>4, <1>5, <1>6, <1>7, <1>8, <1>9, <1>10, <1>11, <1>12, <1>13, <1>14, <1>15
     DEF PoolNext

\* A send whose dial failed dials again or ends.
LEMMA OnwardEnds ==
  ASSUME NEW s \in Sends, DialFails(s) \/ Onward(s)
  PROVE  \/ Go(s, "open") /\ UNCHANGED lockOf
         \/ Go(s, "done") /\ Unlocked(s)
<1> DEFINE back == attempt[s] < 3 /\ Given(s) = "clear" /\ host[s] = "onion" /\ PeerOf[s] \notin limited
<1>1. CASE DialFails(s)
  <2>1. CASE back
    BY <1>1, <2>1 DEF DialFails, Go
  <2>2. CASE ~back
    BY <1>1, <2>2 DEF DialFails, Go, Unlocked
  <2> QED
    BY <2>1, <2>2
<1>2. CASE Onward(s) /\ attempt[s] < 2
  BY <1>2 DEF Onward, Go
<1>3. CASE Onward(s) /\ ~(attempt[s] < 2)
  <2>1. DialFails(s)
    BY <1>3 DEF Onward
  <2> QED
    BY <1>1, <2>1
<1> QED
  BY <1>1, <1>2, <1>3

\* The holder of a lock goes on.
LEMMA LockStays ==
  ASSUME PoolTypeOK, LockOK, NEW s \in Sends, pc[s] \in Holding,
         NEW to \in Holding, Go(s, to), UNCHANGED lockOf
  PROVE  LockOK'
<1>1. \A t \in Sends : pc'[t] = IF t = s THEN to ELSE pc[t]
  BY DEF PoolTypeOK, Go
<1> QED
  BY <1>1 DEF LockOK

\* The holder of a lock ends.
LEMMA LockEnds ==
  ASSUME PoolTypeOK, LockOK, NEW s \in Sends, pc[s] \in Holding, Go(s, "done"), Unlocked(s)
  PROVE  LockOK'
<1>1. \A t \in Sends : pc'[t] = IF t = s THEN "done" ELSE pc[t]
  BY DEF PoolTypeOK, Go
<1>2. \A p \in Peers : lockOf'[p] = IF p = PeerOf[s] THEN NoSend ELSE lockOf[p]
  BY DEF PoolTypeOK, Unlocked
<1>3. lockOf[PeerOf[s]] = s /\ "done" \notin Holding
  BY DEF LockOK, Holding
<1>4. \A t \in Sends : t # NoSend /\ PeerOf[t] \in Peers
  BY PeersOfSends, PoolAssumption
<1> QED
  BY <1>1, <1>2, <1>3, <1>4 DEF LockOK

\* A connection that leaves the pool is shut.
LEMMA PoppedIs ==
  ASSUME PoolTypeOK, PooledOK, NEW p \in Peers, Popped(p), UNCHANGED <<opened, torn, inFlight>>
  PROVE  /\ PooledOK'
         /\ \A q \in Peers : pool'[q] = IF q = p THEN 0 ELSE pool[q]
         /\ shut' = shut \cup ({pool[p]} \ {0})
<1>1. \A q \in Peers : pool'[q] = IF q = p THEN 0 ELSE pool[q]
  BY DEF PoolTypeOK, Popped
<1>2. shut' = shut \cup ({pool[p]} \ {0})
  BY DEF Popped
<1>3. 0 \notin shut' /\ opened \in Nat /\ \A q \in Peers : pool[q] \in Nat
  BY <1>2, PoolAssumption DEF PoolTypeOK, Conns
<1>4. \A q \in Peers : pool'[q] \notin shut' /\ pool'[q] <= opened'
  BY <1>1, <1>2, <1>3 DEF PooledOK
<1>5. \A q, r \in Peers : pool'[q] # 0 /\ pool'[q] = pool'[r] => q = r
  BY <1>1 DEF PooledOK
<1>6. \A c \in Conns : c > opened => c \notin shut'
  BY <1>2, <1>3 DEF PooledOK, Conns
<1> QED
  BY <1>1, <1>2, <1>4, <1>5, <1>6 DEF PooledOK

\* What a step of one send that holds its lock leaves of the others.
LEMMA OthersKeep ==
  ASSUME PoolTypeOK, LockOK, UsesPooled, NEW s \in Sends, lockOf[PeerOf[s]] \in {s, NoSend},
         NEW to, Go(s, to), shut \subseteq shut', opened \in Nat, opened' \in Nat, opened <= opened',
         \A t \in Sends \ {s} : conn'[t] = conn[t],
         \A q \in Peers \ {PeerOf[s]} :
           pool'[q] = pool[q] \/ (pool'[q] = 0 /\ pool[q] \in shut')
  PROVE  \A t \in Sends \ {s} :
           /\ pc[t] \in {"send", "receive", "failed"} =>
                /\ conn'[t] \in Conns /\ conn'[t] <= opened' /\ pool'[PeerOf[t]] \in {0, conn'[t]}
                /\ conn'[t] \in shut' \/ pool'[PeerOf[t]] # 0
           /\ pc[t] \in {"closing", "open", "dial"} => pool'[PeerOf[t]] = 0
           /\ pc'[t] = pc[t]
<1> TAKE t \in Sends \ {s}
<1>0. pc'[t] = pc[t] /\ conn'[t] = conn[t]
  BY DEF PoolTypeOK, Go
<1>1. pc[t] \in Holding => PeerOf[t] # PeerOf[s]
  BY PoolAssumption DEF LockOK
<1>2. CASE pc[t] \in {"send", "receive", "failed"}
  <2>1. PeerOf[t] \in Peers \ {PeerOf[s]}
    BY <1>1, <1>2, PeersOfSends DEF Holding
  <2>2. /\ conn[t] \in Conns /\ conn[t] <= opened /\ pool[PeerOf[t]] \in {0, conn[t]}
        /\ conn[t] \in shut \/ pool[PeerOf[t]] # 0
    BY <1>2 DEF UsesPooled
  <2>3. conn[t] # 0 /\ conn[t] \in Nat /\ opened \in Nat
    BY <2>2, PoolAssumption DEF Conns, PoolTypeOK
  <2> QED
    <3>1. conn'[t] \in Conns /\ conn'[t] <= opened'
      BY <1>0, <2>2, <2>3
    <3>2. pool'[PeerOf[t]] \in {0, conn'[t]} /\ (conn'[t] \in shut' \/ pool'[PeerOf[t]] # 0)
      <4>1. CASE pool'[PeerOf[t]] = pool[PeerOf[t]]
        BY <1>0, <2>2, <4>1
      <4>2. CASE pool'[PeerOf[t]] = 0 /\ pool[PeerOf[t]] \in shut'
        BY <1>0, <2>2, <4>2
      <4> QED
        BY <2>1, <4>1, <4>2
    <3> QED
      BY <1>0, <1>2, <3>1, <3>2
<1>3. CASE pc[t] \in {"closing", "open", "dial"}
  <2>1. PeerOf[t] \in Peers \ {PeerOf[s]}
    BY <1>1, <1>3, PeersOfSends DEF Holding
  <2> QED
    BY <1>0, <1>3, <2>1 DEF UsesPooled
<1> QED
  BY <1>0, <1>2, <1>3

\* EmptyBetween, when only the connection of s's own peer is touched.
LEMMA EmptyOthers ==
  ASSUME PoolTypeOK, LockOK, EmptyBetween, NEW s \in Sends, NEW to, Go(s, to), torn \subseteq torn',
         \A q \in Peers \ {PeerOf[s]} :
           /\ pool'[q] \in {0, pool[q]} /\ lockOf'[q] = lockOf[q]
           /\ pool'[q] # 0 => inFlight'[pool[q]] = inFlight[pool[q]],
         (/\ pool'[PeerOf[s]] # 0 /\ pool'[PeerOf[s]] \notin torn'
          /\ lockOf'[PeerOf[s]] = NoSend \/ pc'[lockOf'[PeerOf[s]]] = "send")
           => inFlight'[pool'[PeerOf[s]]] = <<>>
  PROVE  EmptyBetween'
<1> SUFFICES ASSUME NEW q \in Peers, q # PeerOf[s], pool'[q] # 0, pool'[q] \notin torn',
                    lockOf'[q] = NoSend \/ pc'[lockOf'[q]] = "send"
             PROVE  inFlight'[pool'[q]] = <<>>
  BY DEF EmptyBetween
<1>1. pool'[q] = pool[q] /\ lockOf'[q] = lockOf[q] /\ inFlight'[pool[q]] = inFlight[pool[q]]
  OBVIOUS
<1>2. lockOf[q] # NoSend => lockOf[q] \in Sends /\ lockOf[q] # s
  BY DEF PoolTypeOK, LockOK
<1>3. lockOf[q] # NoSend => pc'[lockOf[q]] = pc[lockOf[q]]
  BY <1>2 DEF PoolTypeOK, Go
<1> QED
  BY <1>1, <1>3 DEF EmptyBetween

\* OwnInFlight, when the connections of the others keep what is in flight.
LEMMA OwnOthers ==
  ASSUME PoolTypeOK, OwnInFlight, NEW s \in Sends, NEW to, Go(s, to),
         torn \subseteq torn', shut \subseteq shut',
         \A t \in Sends \ {s} :
           /\ conn'[t] = conn[t]
           /\ pc[t] = "receive" /\ conn[t] \notin shut => inFlight'[conn[t]] = inFlight[conn[t]],
         pc'[s] = "receive" /\ conn'[s] \notin shut' /\ conn'[s] \notin torn' => inFlight'[conn'[s]] = <<s>>
  PROVE  OwnInFlight'
<1>1. \A t \in Sends \ {s} : pc'[t] = pc[t]
  BY DEF PoolTypeOK, Go
<1> QED
  BY <1>1 DEF OwnInFlight

\* A send that goes on has no answer yet.
LEMMA UnansweredStays ==
  ASSUME PoolTypeOK, Unanswered, NEW s \in Sends, NEW to, Go(s, to), pc[s] # "done", UNCHANGED answer
  PROVE  Unanswered'
BY DEF PoolTypeOK, Unanswered, Go

\* A step of the holder s of a lock that neither writes nor reads.
LEMMA HolderMoves ==
  ASSUME PoolInv, PoolTypeOK', LockOK', PooledOK', NEW s \in Sends, pc[s] # "done",
         lockOf[PeerOf[s]] \in {s, NoSend},
         NEW to \in {"closing", "open", "dial", "done"}, Go(s, to), shut \subseteq shut', torn \subseteq torn',
         UNCHANGED <<inFlight, opened, conn, answer>>, lockOf'[PeerOf[s]] \in {s, NoSend},
         \A q \in Peers \ {PeerOf[s]} :
           /\ pool'[q] = pool[q] \/ (pool'[q] = 0 /\ pool[q] \in shut')
           /\ lockOf'[q] = lockOf[q],
         to \in {"closing", "open", "dial"} => pool'[PeerOf[s]] = 0,
         lockOf'[PeerOf[s]] = NoSend => pool'[PeerOf[s]] = 0 \/ pool'[PeerOf[s]] \in torn'
  PROVE  PoolInv'
<1>1. PeerOf[s] \in Peers /\ pc'[s] = to /\ opened \in Nat
  BY PeersOfSends, PoolAssumption DEF PoolInv, PoolTypeOK, Go
<1>2. UsesPooled'
  <2>1. \A t \in Sends \ {s} :
          /\ pc'[t] \in {"send", "receive", "failed"} =>
               /\ conn'[t] \in Conns /\ conn'[t] <= opened' /\ pool'[PeerOf[t]] \in {0, conn'[t]}
               /\ conn'[t] \in shut' \/ pool'[PeerOf[t]] # 0
          /\ pc'[t] \in {"closing", "open", "dial"} => pool'[PeerOf[t]] = 0
    BY <1>1, OthersKeep DEF PoolInv
  <2> QED
    BY <1>1, <2>1 DEF UsesPooled
<1>3. EmptyBetween'
  BY <1>1, EmptyOthers DEF PoolInv
<1>4. OwnInFlight'
  BY <1>1, OwnOthers DEF PoolInv
<1>5. Unanswered'
  BY UnansweredStays DEF PoolInv
<1>6. AnswersOwn'
  BY DEF PoolInv, AnswersOwn
<1> QED
  BY <1>2, <1>3, <1>4, <1>5, <1>6 DEF PoolInv

LEMMA PoolStep ==
  ASSUME PoolInv, [PoolNext]_poolVars
  PROVE  PoolInv'
<1> USE PeersOfSends, PoolAssumption DEF book, tor, cancelVars, outer, wires, ofSend, Holding, Conns
<1>t. PoolTypeOK'
  BY PoolTypeStep DEF PoolInv
<1>1. ASSUME NEW s \in Sends, Resolve(s)
      PROVE  PoolInv'
  <2>1. LockOK'
    BY <1>t, <1>1 DEF PoolInv, PoolTypeOK, LockOK, PooledOK, UsesPooled, Resolve, Go, Popped, Untrack, Unlocked, Onward, DialFails, Given
  <2>2. PooledOK'
    BY <1>t, <1>1 DEF PoolInv, PoolTypeOK, LockOK, PooledOK, UsesPooled, Resolve, Go, Popped, Untrack, Unlocked, Onward, DialFails, Given
  <2>3. UsesPooled'
    BY <1>t, <1>1 DEF PoolInv, PoolTypeOK, LockOK, PooledOK, UsesPooled, Resolve, Go, Popped, Untrack, Unlocked, Onward, DialFails, Given
  <2>4. EmptyBetween'
    BY <1>t, <1>1 DEF PoolInv, PoolTypeOK, LockOK, PooledOK, UsesPooled, EmptyBetween, Resolve, Go, Popped, Untrack, Unlocked, Onward, DialFails, Given
  <2>5. OwnInFlight'
    BY <1>t, <1>1 DEF PoolInv, PoolTypeOK, LockOK, PooledOK, UsesPooled, OwnInFlight, Resolve, Go, Popped, Untrack, Unlocked, Onward, DialFails, Given
  <2>6. Unanswered'
    BY <1>t, <1>1 DEF PoolInv, PoolTypeOK, LockOK, PooledOK, UsesPooled, Unanswered, Resolve, Go, Popped, Untrack, Unlocked, Onward, DialFails, Given
  <2>7. AnswersOwn'
    BY <1>t, <1>1 DEF PoolInv, PoolTypeOK, LockOK, PooledOK, UsesPooled, AnswersOwn, Unanswered, OwnInFlight, Resolve, Go, Popped, Untrack, Unlocked, Onward, DialFails, Given
  <2> QED
    BY <1>t, <2>1, <2>2, <2>3, <2>4, <2>5, <2>6, <2>7 DEF PoolInv
<1>2. ASSUME NEW s \in Sends, Acquire(s)
      PROVE  PoolInv'
  <2> DEFINE P == PeerOf[s]
  <2>1. /\ P \in Peers /\ pc[s] = "lock" /\ lockOf[P] = NoSend /\ UNCHANGED <<inFlight, opened, answer, torn>>
        /\ \A q \in Peers : lockOf'[q] = IF q = P THEN s ELSE lockOf[q]
    BY <1>2 DEF Acquire, PoolInv, PoolTypeOK
  <2>2. answer[s] = NoSend
    BY <2>1 DEF PoolInv, Unanswered
  <2>3. CASE pool[P] # 0 /\ Go(s, "send") /\ conn' = [conn EXCEPT ![s] = pool[P]] /\ UNCHANGED <<pool, shut>>
    <3>1. /\ \A t \in Sends : pc'[t] = IF t = s THEN "send" ELSE pc[t]
          /\ \A t \in Sends : conn'[t] = IF t = s THEN pool[P] ELSE conn[t]
      BY <2>3 DEF PoolInv, PoolTypeOK, Go
    <3>2. LockOK'
      BY <2>1, <3>1 DEF PoolInv, LockOK
    <3>3. PooledOK'
      BY <2>1, <2>3 DEF PoolInv, PooledOK
    <3>4. UsesPooled'
      <4>1. pool[P] \in Conns /\ pool[P] <= opened
        BY <2>1, <2>3 DEF PoolInv, PoolTypeOK, PooledOK
      <4> QED
        BY <2>1, <2>3, <3>1, <4>1 DEF PoolInv, UsesPooled
    <3>5. EmptyBetween'
      <4>1. pool[P] \notin torn => inFlight[pool[P]] = <<>>
        BY <2>1, <2>3 DEF PoolInv, EmptyBetween
      <4> QED
        BY <2>1, <2>3, <4>1, EmptyOthers DEF PoolInv
    <3>6. OwnInFlight'
      BY <2>1, <2>3, <3>1, OwnOthers DEF PoolInv
    <3>7. Unanswered' /\ AnswersOwn'
      BY <2>1, <2>2, <3>1 DEF PoolInv, Unanswered, AnswersOwn
    <3> QED
      BY <1>t, <3>2, <3>3, <3>4, <3>5, <3>6, <3>7 DEF PoolInv
  <2>4. CASE Go(s, "closing") /\ Popped(P) /\ UNCHANGED conn
    <3>1. /\ \A t \in Sends : pc'[t] = IF t = s THEN "closing" ELSE pc[t]
          /\ PooledOK' /\ \A q \in Peers : pool'[q] = IF q = P THEN 0 ELSE pool[q]
          /\ shut \subseteq shut' /\ opened \in Nat
      BY <2>1, <2>4, PoppedIs DEF PoolInv, PoolTypeOK, Go
    <3>2. LockOK'
      BY <2>1, <3>1 DEF PoolInv, LockOK
    <3>4. UsesPooled'
      <4>1. pool'[P] = 0
        BY <2>1, <3>1
      <4>2. \A t \in Sends \ {s} :
              /\ pc'[t] \in {"send", "receive", "failed"} =>
                   /\ conn'[t] \in Conns /\ conn'[t] <= opened' /\ pool'[PeerOf[t]] \in {0, conn'[t]}
                   /\ conn'[t] \in shut' \/ pool'[PeerOf[t]] # 0
              /\ pc'[t] \in {"closing", "open", "dial"} => pool'[PeerOf[t]] = 0
        BY <2>1, <2>4, <3>1, OthersKeep DEF PoolInv
      <4> QED
        BY <3>1, <4>1, <4>2 DEF UsesPooled
    <3>5. EmptyBetween'
      BY <2>1, <2>4, <3>1, EmptyOthers DEF PoolInv
    <3>6. OwnInFlight'
      BY <2>1, <2>4, <3>1, OwnOthers DEF PoolInv
    <3>7. Unanswered' /\ AnswersOwn'
      BY <2>1, <2>2, <2>4, <3>1 DEF PoolInv, Unanswered, AnswersOwn
    <3> QED
      BY <1>t, <3>1, <3>2, <3>4, <3>5, <3>6, <3>7 DEF PoolInv
  <2>5. CASE pool[P] = 0 /\ Go(s, "open") /\ UNCHANGED <<pool, shut, conn>>
    <3>1. \A t \in Sends : pc'[t] = IF t = s THEN "open" ELSE pc[t]
      BY <2>5 DEF PoolInv, PoolTypeOK, Go
    <3>2. LockOK' /\ PooledOK' /\ UsesPooled'
      BY <2>1, <2>5, <3>1 DEF PoolInv, LockOK, PooledOK, UsesPooled
    <3>5. EmptyBetween'
      BY <2>1, <2>5, <3>1, EmptyOthers DEF PoolInv
    <3>6. OwnInFlight'
      BY <2>1, <2>5, <3>1, OwnOthers DEF PoolInv
    <3>7. Unanswered' /\ AnswersOwn'
      BY <2>1, <2>2, <2>5, <3>1 DEF PoolInv, Unanswered, AnswersOwn
    <3> QED
      BY <1>t, <3>2, <3>5, <3>6, <3>7 DEF PoolInv
  <2> QED
    BY <1>2, <2>3, <2>4, <2>5 DEF Acquire
<1>3. ASSUME NEW s \in Sends, Write(s)
      PROVE  PoolInv'
  <2> DEFINE P == PeerOf[s]
             c == conn[s]
  <2>1. /\ P \in Peers /\ pc[s] = "send" /\ lockOf[P] = s
        /\ UNCHANGED <<pool, lockOf, shut, opened, conn, answer, torn>>
        /\ c \in Conns /\ c <= opened /\ (c \in shut \/ c = pool[P])
    BY <1>3 DEF Write, PoolInv, LockOK, UsesPooled
  <2>2. PICK to \in {"receive", "failed"} : Go(s, to)
    BY <1>3 DEF Write
  <2>3. \A t \in Sends : pc'[t] = IF t = s THEN to ELSE pc[t]
    BY <2>2 DEF PoolInv, PoolTypeOK, Go
  <2>4. LockOK' /\ UsesPooled' /\ Unanswered' /\ AnswersOwn'
    BY <2>1, <2>2, <2>3, LockStays DEF PoolInv, UsesPooled, Unanswered, AnswersOwn
  <2>5. CASE UNCHANGED inFlight /\ Go(s, "failed")
    <3>1. PooledOK'
      BY <2>1, <2>5 DEF PoolInv, PooledOK
    <3>2. pc'[s] = "failed"
      BY <2>5 DEF PoolInv, PoolTypeOK, Go
    <3>3. EmptyBetween'
      BY <2>1, <2>5, <3>2, EmptyOthers DEF PoolInv
    <3>4. OwnInFlight'
      BY <2>1, <2>5, <3>2, OwnOthers DEF PoolInv
    <3> QED
      BY <1>t, <2>4, <3>1, <3>3, <3>4 DEF PoolInv
  <2>6. CASE c \notin shut /\ inFlight' = [inFlight EXCEPT ![c] = Append(@, s)] /\ Go(s, "receive")
    <3>1. /\ c = pool[P] /\ c # 0 /\ inFlight'[c] = Append(inFlight[c], s)
          /\ \A d \in Conns \ {c} : inFlight'[d] = inFlight[d]
      BY <2>1, <2>6 DEF PoolInv, PoolTypeOK
    <3>2. pc'[s] = "receive"
      BY <2>6 DEF PoolInv, PoolTypeOK, Go
    <3>3. PooledOK'
      <4>1. /\ \A p \in Peers : pool[p] \notin shut /\ pool[p] <= opened
            /\ \A p, q \in Peers : pool[p] # 0 /\ pool[p] = pool[q] => p = q
            /\ \A d \in Conns : d > opened => d \notin shut /\ d \notin torn /\ inFlight[d] = <<>>
        BY DEF PoolInv, PooledOK
      <4>2. opened \in Nat /\ \A d \in Conns : d \in Nat
        BY DEF PoolInv, PoolTypeOK, Conns
      <4>3. \A d \in Conns : d > opened => d # c
        BY <2>1, <4>2
      <4>4. \A d \in Conns : d > opened => inFlight'[d] = <<>>
        BY <3>1, <4>1, <4>3
      <4> QED
        BY <2>1, <4>1, <4>4 DEF PooledOK
    <3>4. EmptyBetween'
      <4>1. \A q \in Peers \ {P} : pool[q] # 0 => pool[q] \in Conns \ {c}
        BY <2>1, <3>1 DEF PoolInv, PooledOK, PoolTypeOK
      <4> QED
        BY <2>1, <2>6, <3>1, <3>2, <4>1, EmptyOthers DEF PoolInv
    <3>5. OwnInFlight'
      <4>1. ASSUME NEW t \in Sends \ {s}, pc[t] = "receive", conn[t] \notin shut
            PROVE  conn[t] \in Conns \ {c}
        <5>1. conn[t] \in Conns /\ conn[t] = pool[PeerOf[t]] /\ lockOf[PeerOf[t]] = t /\ PeerOf[t] \in Peers
          BY <4>1 DEF PoolInv, UsesPooled, LockOK
        <5>2. PeerOf[t] # P
          BY <2>1, <5>1
        <5> QED
          BY <2>1, <3>1, <5>1, <5>2 DEF PoolInv, PooledOK
      <4>2. c \notin torn => inFlight[c] = <<>>
        BY <2>1, <3>1 DEF PoolInv, EmptyBetween
      <4>3. c \notin torn' => inFlight'[c] = <<s>>
        <5>1. Append(<<>>, s) = <<s>>
          OBVIOUS
        <5> QED
          BY <2>1, <3>1, <4>2, <5>1, Zenon
      <4> QED
        BY <2>1, <2>6, <3>1, <3>2, <4>1, <4>3, OwnOthers DEF PoolInv
    <3> QED
      BY <1>t, <2>4, <3>3, <3>4, <3>5 DEF PoolInv
  <2> QED
    BY <1>3, <2>5, <2>6 DEF Write
<1>4. ASSUME NEW s \in Sends, GetsReply(s)
      PROVE  PoolInv'
  <2> DEFINE P == PeerOf[s]
             c == conn[s]
  <2>1. /\ P \in Peers /\ pc[s] = "receive" /\ lockOf[P] = s /\ Go(s, "done") /\ Unlocked(s)
        /\ UNCHANGED <<pool, shut, opened, conn, torn>>
        /\ c \in Conns /\ c <= opened /\ c # 0 /\ c = pool[P] /\ c \notin shut
    BY <1>4 DEF GetsReply, PoolInv, LockOK, UsesPooled
  <2>2. /\ \A t \in Sends : pc'[t] = IF t = s THEN "done" ELSE pc[t]
        /\ \A t \in Sends : answer'[t] = IF t = s THEN Head(inFlight[c]) ELSE answer[t]
        /\ \A q \in Peers : lockOf'[q] = IF q = P THEN NoSend ELSE lockOf[q]
        /\ \A d \in Conns \ {c} : inFlight'[d] = inFlight[d]
        /\ inFlight'[c] = Tail(inFlight[c])
    BY <1>4, <2>1 DEF GetsReply, PoolInv, PoolTypeOK, Go, Unlocked
  <2>3. c \notin torn => inFlight[c] = <<s>>
    BY <2>1 DEF PoolInv, OwnInFlight
  <2>4. LockOK' /\ UsesPooled'
    BY <2>1, <2>2, LockEnds DEF PoolInv, UsesPooled
  <2>5. PooledOK'
    BY <2>1, <2>2 DEF PoolInv, PoolTypeOK, PooledOK
  <2>6. EmptyBetween'
    <3>1. \A q \in Peers \ {P} : pool[q] # 0 => pool[q] \in Conns \ {c}
      BY <2>1 DEF PoolInv, PooledOK, PoolTypeOK
    <3>2. c \notin torn => inFlight'[c] = <<>>
      <4>1. Tail(<<s>>) = <<>>
        OBVIOUS
      <4> QED
        BY <2>2, <2>3, <4>1, Zenon
    <3> QED
      BY <2>1, <2>2, <3>1, <3>2, EmptyOthers DEF PoolInv
  <2>7. OwnInFlight'
    <3>1. ASSUME NEW t \in Sends \ {s}, pc[t] = "receive", conn[t] \notin shut
          PROVE  conn[t] \in Conns \ {c}
      <4>1. conn[t] \in Conns /\ conn[t] = pool[PeerOf[t]] /\ lockOf[PeerOf[t]] = t /\ PeerOf[t] \in Peers
        BY <3>1 DEF PoolInv, UsesPooled, LockOK
      <4>2. PeerOf[t] # P
        BY <2>1, <4>1
      <4> QED
        BY <2>1, <4>1, <4>2 DEF PoolInv, PooledOK
    <3> QED
      BY <2>1, <2>2, <3>1, OwnOthers DEF PoolInv
  <2>8. Unanswered'
    BY <2>2 DEF PoolInv, Unanswered
  <2>9. AnswersOwn'
    BY <2>1, <2>2, <2>3 DEF PoolInv, AnswersOwn
  <2> QED
    BY <1>t, <2>4, <2>5, <2>6, <2>7, <2>8, <2>9 DEF PoolInv
<1>5. ASSUME NEW s \in Sends, GiveUp(s)
      PROVE  PoolInv'
  <2>1. LockOK'
    BY <1>t, <1>5 DEF PoolInv, PoolTypeOK, LockOK, PooledOK, UsesPooled, GiveUp, Go, Popped, Untrack, Unlocked, Onward, DialFails, Given
  <2>2. PooledOK'
    BY <1>t, <1>5 DEF PoolInv, PoolTypeOK, LockOK, PooledOK, UsesPooled, GiveUp, Go, Popped, Untrack, Unlocked, Onward, DialFails, Given
  <2>3. UsesPooled'
    BY <1>t, <1>5 DEF PoolInv, PoolTypeOK, LockOK, PooledOK, UsesPooled, GiveUp, Go, Popped, Untrack, Unlocked, Onward, DialFails, Given
  <2>4. EmptyBetween'
    BY <1>t, <1>5 DEF PoolInv, PoolTypeOK, LockOK, PooledOK, UsesPooled, EmptyBetween, GiveUp, Go, Popped, Untrack, Unlocked, Onward, DialFails, Given
  <2>5. OwnInFlight'
    BY <1>t, <1>5 DEF PoolInv, PoolTypeOK, LockOK, PooledOK, UsesPooled, OwnInFlight, GiveUp, Go, Popped, Untrack, Unlocked, Onward, DialFails, Given
  <2>6. Unanswered'
    BY <1>t, <1>5 DEF PoolInv, PoolTypeOK, LockOK, PooledOK, UsesPooled, Unanswered, GiveUp, Go, Popped, Untrack, Unlocked, Onward, DialFails, Given
  <2>7. AnswersOwn'
    BY <1>t, <1>5 DEF PoolInv, PoolTypeOK, LockOK, PooledOK, UsesPooled, AnswersOwn, Unanswered, OwnInFlight, GiveUp, Go, Popped, Untrack, Unlocked, Onward, DialFails, Given
  <2> QED
    BY <1>t, <2>1, <2>2, <2>3, <2>4, <2>5, <2>6, <2>7 DEF PoolInv
<1>6. ASSUME NEW s \in Sends, AfterFailure(s)
      PROVE  PoolInv'
  <2> DEFINE P == PeerOf[s]
  <2>1. P \in Peers /\ pc[s] = "failed" /\ lockOf[P] = s /\ UNCHANGED <<inFlight, opened, conn, answer, torn>>
    BY <1>6 DEF AfterFailure, PoolInv, LockOK
  <2>2. CASE pool[P] # 0 /\ Popped(P) /\ Go(s, "closing") /\ UNCHANGED lockOf
    <3>1. PooledOK' /\ shut \subseteq shut' /\ \A q \in Peers : pool'[q] = IF q = P THEN 0 ELSE pool[q]
      BY <2>1, <2>2, PoppedIs DEF PoolInv
    <3>2. LockOK'
      BY <2>1, <2>2, LockStays DEF PoolInv
    <3> QED
      BY <1>t, <2>1, <2>2, <3>1, <3>2, HolderMoves
  <2>3. CASE pool[P] = 0 /\ UNCHANGED <<pool, shut>> /\ Onward(s)
    <3>1. PooledOK'
      BY <2>1, <2>3 DEF PoolInv, PooledOK
    <3>2. CASE Go(s, "open") /\ UNCHANGED lockOf
      BY <1>t, <2>1, <2>3, <3>1, <3>2, LockStays, HolderMoves DEF PoolInv
    <3>3. CASE Go(s, "done") /\ Unlocked(s)
      <4>1. \A q \in Peers : lockOf'[q] = IF q = P THEN NoSend ELSE lockOf[q]
        BY <3>3 DEF Unlocked, PoolInv, PoolTypeOK
      <4>2. LockOK'
        BY <2>1, <3>3, LockEnds DEF PoolInv
      <4> QED
        BY <1>t, <2>1, <2>3, <3>1, <3>3, <4>1, <4>2, HolderMoves
    <3> QED
      BY <2>3, <3>2, <3>3, OnwardEnds
  <2> QED
    BY <1>6, <2>2, <2>3 DEF AfterFailure
<1>7. ASSUME NEW s \in Sends, Closed(s)
      PROVE  PoolInv'
  <2> DEFINE P == PeerOf[s]
  <2>1. /\ P \in Peers /\ pc[s] = "closing" /\ lockOf[P] = s /\ pool[P] = 0
        /\ UNCHANGED <<pool, shut, inFlight, opened, conn, answer, torn>>
    BY <1>7 DEF Closed, PoolInv, LockOK, UsesPooled
  <2>2. PooledOK'
    BY <2>1 DEF PoolInv, PooledOK
  <2>3. CASE Go(s, "open") /\ UNCHANGED lockOf
    BY <1>t, <2>1, <2>2, <2>3, LockStays, HolderMoves DEF PoolInv
  <2>4. CASE Go(s, "done") /\ Unlocked(s)
    <3>1. \A q \in Peers : lockOf'[q] = IF q = P THEN NoSend ELSE lockOf[q]
      BY <2>4 DEF Unlocked, PoolInv, PoolTypeOK
    <3>2. LockOK'
      BY <2>1, <2>4, LockEnds DEF PoolInv
    <3> QED
      BY <1>t, <2>1, <2>2, <2>4, <3>1, <3>2, HolderMoves
  <2> QED
    BY <1>7, <2>3, <2>4, OnwardEnds DEF Closed
<1>8. ASSUME NEW s \in Sends, Open(s)
      PROVE  PoolInv'
  <2> DEFINE P == PeerOf[s]
  <2>1. /\ P \in Peers /\ pc[s] = "open" /\ lockOf[P] = s /\ pool[P] = 0
        /\ UNCHANGED <<inFlight, opened, conn, answer, torn>>
    BY <1>8 DEF Open, PoolInv, LockOK, UsesPooled
  <2>2. /\ PooledOK' /\ shut \subseteq shut' /\ pool'[P] = 0
        /\ \A q \in Peers \ {P} : pool'[q] = pool[q] \/ (pool'[q] = 0 /\ pool[q] \in shut')
    <3>1. ASSUME NEW i \in Evicted, Popped(order[i])
          PROVE  <2>2!:
      <4>1. order[i] \in Peers /\ pool[order[i]] # 0 /\ lockOf[order[i]] = NoSend
        BY DEF Evicted, PoolInv, PoolTypeOK
      <4>2. /\ PooledOK'
            /\ \A q \in Peers : pool'[q] = IF q = order[i] THEN 0 ELSE pool[q]
            /\ shut' = shut \cup ({pool[order[i]]} \ {0})
        BY <2>1, <3>1, <4>1, PoppedIs DEF PoolInv
      <4> QED
        BY <2>1, <4>1, <4>2
    <3>2. CASE UNCHANGED <<pool, shut>>
      BY <2>1, <3>2 DEF PoolInv, PooledOK
    <3> QED
      BY <1>8, <3>1, <3>2 DEF Open
  <2>3. CASE Go(s, "dial") /\ UNCHANGED lockOf
    BY <1>t, <2>1, <2>2, <2>3, LockStays, HolderMoves DEF PoolInv
  <2>4. CASE Go(s, "open") /\ UNCHANGED lockOf
    BY <1>t, <2>1, <2>2, <2>4, LockStays, HolderMoves DEF PoolInv
  <2>5. CASE Go(s, "done") /\ Unlocked(s)
    <3>1. \A q \in Peers : lockOf'[q] = IF q = P THEN NoSend ELSE lockOf[q]
      BY <2>5 DEF Unlocked, PoolInv, PoolTypeOK
    <3>2. LockOK'
      BY <2>1, <2>5, LockEnds DEF PoolInv
    <3> QED
      BY <1>t, <2>1, <2>2, <2>5, <3>1, <3>2, HolderMoves
  <2> QED
    BY <1>8, <2>3, <2>4, <2>5, OnwardEnds DEF Open
<1>9. ASSUME NEW s \in Sends, Dialled(s)
      PROVE  PoolInv'
  <2>1. LockOK'
    BY <1>t, <1>9 DEF PoolInv, PoolTypeOK, LockOK, PooledOK, UsesPooled, Dialled, Go, Popped, Untrack, Unlocked, Onward, DialFails, Given
  <2>2. PooledOK'
    BY <1>t, <1>9 DEF PoolInv, PoolTypeOK, LockOK, PooledOK, UsesPooled, Dialled, Go, Popped, Untrack, Unlocked, Onward, DialFails, Given
  <2>3. UsesPooled'
    BY <1>t, <1>9 DEF PoolInv, PoolTypeOK, LockOK, PooledOK, UsesPooled, Dialled, Go, Popped, Untrack, Unlocked, Onward, DialFails, Given
  <2>4. EmptyBetween'
    BY <1>t, <1>9 DEF PoolInv, PoolTypeOK, LockOK, PooledOK, UsesPooled, EmptyBetween, Dialled, Go, Popped, Untrack, Unlocked, Onward, DialFails, Given
  <2>5. OwnInFlight'
    BY <1>t, <1>9 DEF PoolInv, PoolTypeOK, LockOK, PooledOK, UsesPooled, OwnInFlight, Dialled, Go, Popped, Untrack, Unlocked, Onward, DialFails, Given
  <2>6. Unanswered'
    BY <1>t, <1>9 DEF PoolInv, PoolTypeOK, LockOK, PooledOK, UsesPooled, Unanswered, Dialled, Go, Popped, Untrack, Unlocked, Onward, DialFails, Given
  <2>7. AnswersOwn'
    BY <1>t, <1>9 DEF PoolInv, PoolTypeOK, LockOK, PooledOK, UsesPooled, AnswersOwn, Unanswered, OwnInFlight, Dialled, Go, Popped, Untrack, Unlocked, Onward, DialFails, Given
  <2> QED
    BY <1>t, <2>1, <2>2, <2>3, <2>4, <2>5, <2>6, <2>7 DEF PoolInv
<1>10. ASSUME NEW s \in Sends, NotDialled(s)
      PROVE  PoolInv'
  <2> DEFINE P == PeerOf[s]
  <2>1. /\ P \in Peers /\ pc[s] = "dial" /\ lockOf[P] = s /\ pool[P] = 0
        /\ UNCHANGED <<pool, shut, inFlight, opened, conn, answer, torn>>
    BY <1>10 DEF NotDialled, PoolInv, LockOK, UsesPooled
  <2>2. PooledOK'
    BY <2>1 DEF PoolInv, PooledOK
  <2>3. CASE Go(s, "open") /\ UNCHANGED lockOf
    BY <1>t, <2>1, <2>2, <2>3, LockStays, HolderMoves DEF PoolInv
  <2>4. CASE Go(s, "done") /\ Unlocked(s)
    <3>1. \A q \in Peers : lockOf'[q] = IF q = P THEN NoSend ELSE lockOf[q]
      BY <2>4 DEF Unlocked, PoolInv, PoolTypeOK
    <3>2. LockOK'
      BY <2>1, <2>4, LockEnds DEF PoolInv
    <3> QED
      BY <1>t, <2>1, <2>2, <2>4, <3>1, <3>2, HolderMoves
  <2> QED
    BY <1>10, <2>3, <2>4, OnwardEnds DEF NotDialled
<1>11. ASSUME NEW s \in Sends, SendCancelled(s)
      PROVE  PoolInv'
  <2> DEFINE P == PeerOf[s]
  <2>1. /\ P \in Peers /\ pc[s] \in {"lock", "receive", "closing", "dial"} /\ Go(s, "done")
        /\ UNCHANGED <<pool, shut, inFlight, opened, conn, answer>>
        /\ torn' = IF pc[s] = "receive" THEN torn \cup {conn[s]} ELSE torn
    BY <1>11 DEF SendCancelled
  <2>2. PooledOK'
    <3>1. pc[s] = "receive" => conn[s] <= opened
      BY DEF PoolInv, UsesPooled
    <3>2. \A c \in Conns : c > opened => c \notin torn'
      <4>1. opened \in Nat /\ Conns \subseteq Nat /\ (pc[s] = "receive" => conn[s] \in Nat)
        BY DEF PoolInv, PoolTypeOK
      <4> QED
        BY <2>1, <3>1, <4>1 DEF PoolInv, PooledOK
    <3> QED
      BY <2>1, <3>2 DEF PoolInv, PooledOK
  <2>3. CASE pc[s] = "lock" /\ UNCHANGED lockOf
    <3>1. LockOK'
      BY <2>1, <2>3 DEF PoolInv, PoolTypeOK, LockOK, Go
    <3>2. UsesPooled' /\ Unanswered' /\ AnswersOwn'
      BY <2>1, <2>3 DEF PoolInv, PoolTypeOK, UsesPooled, Unanswered, AnswersOwn, Go
    <3>3. EmptyBetween'
      <4>1. \A q \in Peers : lockOf[q] # NoSend => lockOf[q] # s
        BY <2>3 DEF PoolInv, LockOK
      <4> QED
        BY <2>1, <2>3, <4>1 DEF PoolInv, PoolTypeOK, EmptyBetween, Go
    <3>4. OwnInFlight'
      BY <2>1, <2>3, OwnOthers DEF PoolInv, PoolTypeOK, Go
    <3> QED
      BY <1>t, <2>2, <3>1, <3>2, <3>3, <3>4 DEF PoolInv
  <2>4. CASE pc[s] # "lock" /\ Unlocked(s)
    <3>1. lockOf[P] = s /\ \A q \in Peers : lockOf'[q] = IF q = P THEN NoSend ELSE lockOf[q]
      BY <2>1, <2>4 DEF Unlocked, PoolInv, PoolTypeOK, LockOK
    <3>2. LockOK'
      BY <2>1, <2>4, LockEnds DEF PoolInv
    <3>3. pool[P] = 0 \/ pool[P] \in torn'
      BY <2>1, <2>4 DEF PoolInv, UsesPooled
    <3> QED
      BY <1>t, <2>1, <2>2, <3>1, <3>2, <3>3, HolderMoves
  <2> QED
    BY <1>11, <2>3, <2>4 DEF SendCancelled
<1>12. ASSUME NEW p \in Peers, Refill(p) \/ WindowEnds(p)
      PROVE  PoolInv'
  <2>1. LockOK'
    BY <1>t, <1>12 DEF PoolInv, PoolTypeOK, LockOK, PooledOK, UsesPooled, Refill, WindowEnds, Go, Popped, Untrack, Unlocked, Onward, DialFails, Given
  <2>2. PooledOK'
    BY <1>t, <1>12 DEF PoolInv, PoolTypeOK, LockOK, PooledOK, UsesPooled, Refill, WindowEnds, Go, Popped, Untrack, Unlocked, Onward, DialFails, Given
  <2>3. UsesPooled'
    BY <1>t, <1>12 DEF PoolInv, PoolTypeOK, LockOK, PooledOK, UsesPooled, Refill, WindowEnds, Go, Popped, Untrack, Unlocked, Onward, DialFails, Given
  <2>4. EmptyBetween'
    BY <1>t, <1>12 DEF PoolInv, PoolTypeOK, LockOK, PooledOK, UsesPooled, EmptyBetween, Refill, WindowEnds, Go, Popped, Untrack, Unlocked, Onward, DialFails, Given
  <2>5. OwnInFlight'
    BY <1>t, <1>12 DEF PoolInv, PoolTypeOK, LockOK, PooledOK, UsesPooled, OwnInFlight, Refill, WindowEnds, Go, Popped, Untrack, Unlocked, Onward, DialFails, Given
  <2>6. Unanswered'
    BY <1>t, <1>12 DEF PoolInv, PoolTypeOK, LockOK, PooledOK, UsesPooled, Unanswered, Refill, WindowEnds, Go, Popped, Untrack, Unlocked, Onward, DialFails, Given
  <2>7. AnswersOwn'
    BY <1>t, <1>12 DEF PoolInv, PoolTypeOK, LockOK, PooledOK, UsesPooled, AnswersOwn, Unanswered, OwnInFlight, Refill, WindowEnds, Go, Popped, Untrack, Unlocked, Onward, DialFails, Given
  <2> QED
    BY <1>t, <2>1, <2>2, <2>3, <2>4, <2>5, <2>6, <2>7 DEF PoolInv
<1>13. ASSUME NEW p \in Peers, CloseStarts(p)
      PROVE  PoolInv'
  <2>1. LockOK'
    BY <1>t, <1>13 DEF PoolInv, PoolTypeOK, LockOK, PooledOK, UsesPooled, CloseStarts, Go, Popped, Untrack, Unlocked, Onward, DialFails, Given
  <2>2. PooledOK'
    BY <1>t, <1>13 DEF PoolInv, PoolTypeOK, LockOK, PooledOK, UsesPooled, CloseStarts, Go, Popped, Untrack, Unlocked, Onward, DialFails, Given
  <2>3. UsesPooled'
    BY <1>t, <1>13 DEF PoolInv, PoolTypeOK, LockOK, PooledOK, UsesPooled, CloseStarts, Go, Popped, Untrack, Unlocked, Onward, DialFails, Given
  <2>4. EmptyBetween'
    BY <1>t, <1>13 DEF PoolInv, PoolTypeOK, LockOK, PooledOK, UsesPooled, EmptyBetween, CloseStarts, Go, Popped, Untrack, Unlocked, Onward, DialFails, Given
  <2>5. OwnInFlight'
    BY <1>t, <1>13 DEF PoolInv, PoolTypeOK, LockOK, PooledOK, UsesPooled, OwnInFlight, CloseStarts, Go, Popped, Untrack, Unlocked, Onward, DialFails, Given
  <2>6. Unanswered'
    BY <1>t, <1>13 DEF PoolInv, PoolTypeOK, LockOK, PooledOK, UsesPooled, Unanswered, CloseStarts, Go, Popped, Untrack, Unlocked, Onward, DialFails, Given
  <2>7. AnswersOwn'
    BY <1>t, <1>13 DEF PoolInv, PoolTypeOK, LockOK, PooledOK, UsesPooled, AnswersOwn, Unanswered, OwnInFlight, CloseStarts, Go, Popped, Untrack, Unlocked, Onward, DialFails, Given
  <2> QED
    BY <1>t, <2>1, <2>2, <2>3, <2>4, <2>5, <2>6, <2>7 DEF PoolInv
<1>14. ASSUME NEW p \in Peers, CloseEnds(p)
      PROVE  PoolInv'
  <2>1. LockOK'
    BY <1>t, <1>14 DEF PoolInv, PoolTypeOK, LockOK, PooledOK, UsesPooled, CloseEnds, Go, Popped, Untrack, Unlocked, Onward, DialFails, Given
  <2>2. PooledOK'
    BY <1>t, <1>14 DEF PoolInv, PoolTypeOK, LockOK, PooledOK, UsesPooled, CloseEnds, Go, Popped, Untrack, Unlocked, Onward, DialFails, Given
  <2>3. UsesPooled'
    BY <1>t, <1>14 DEF PoolInv, PoolTypeOK, LockOK, PooledOK, UsesPooled, CloseEnds, Go, Popped, Untrack, Unlocked, Onward, DialFails, Given
  <2>4. EmptyBetween'
    BY <1>t, <1>14 DEF PoolInv, PoolTypeOK, LockOK, PooledOK, UsesPooled, EmptyBetween, CloseEnds, Go, Popped, Untrack, Unlocked, Onward, DialFails, Given
  <2>5. OwnInFlight'
    BY <1>t, <1>14 DEF PoolInv, PoolTypeOK, LockOK, PooledOK, UsesPooled, OwnInFlight, CloseEnds, Go, Popped, Untrack, Unlocked, Onward, DialFails, Given
  <2>6. Unanswered'
    BY <1>t, <1>14 DEF PoolInv, PoolTypeOK, LockOK, PooledOK, UsesPooled, Unanswered, CloseEnds, Go, Popped, Untrack, Unlocked, Onward, DialFails, Given
  <2>7. AnswersOwn'
    BY <1>t, <1>14 DEF PoolInv, PoolTypeOK, LockOK, PooledOK, UsesPooled, AnswersOwn, Unanswered, OwnInFlight, CloseEnds, Go, Popped, Untrack, Unlocked, Onward, DialFails, Given
  <2> QED
    BY <1>t, <2>1, <2>2, <2>3, <2>4, <2>5, <2>6, <2>7 DEF PoolInv
<1>15. CASE UNCHANGED poolVars
  BY <1>15 DEF poolVars, PoolInv, PoolTypeOK, LockOK, PooledOK, UsesPooled, EmptyBetween, OwnInFlight, Unanswered, AnswersOwn
<1> QED
  BY <1>1, <1>2, <1>3, <1>4, <1>5, <1>6, <1>7, <1>8, <1>9, <1>10, <1>11, <1>12, <1>13, <1>14, <1>15
     DEF PoolNext

\* The invariant of the pool holds in every state, for any peers, sends,
\* evictions and cancellations.
THEOREM PoolInvTheorem == PoolSpec => []PoolInv
<1>1. PoolInit => PoolInv
  <2> SUFFICES ASSUME PoolInit PROVE PoolInv
    OBVIOUS
  <2>1. PoolTypeOK
    <3>1. <<>> \in Seq(Peers) /\ <<>> \in Seq(Sends) /\ 0 \in 0..MaxOpens /\ 0 \in 0..MaxCloses /\ 0 \in 0..MaxCancels
      BY PoolAssumption
    <3> QED
      BY <3>1 DEF PoolTypeOK, PoolInit
  <2>2. LockOK /\ PooledOK
    BY PeersOfSends, PoolAssumption DEF PoolInit, LockOK, PooledOK, Holding, Conns
  <2>3. UsesPooled /\ EmptyBetween /\ OwnInFlight /\ Unanswered /\ AnswersOwn
    BY DEF PoolInit, UsesPooled, EmptyBetween, OwnInFlight, Unanswered, AnswersOwn
  <2> QED
    BY <2>1, <2>2, <2>3 DEF PoolInv
<1>2. PoolInv /\ [PoolNext]_poolVars => PoolInv'
  BY PoolStep
<1> QED
  BY <1>1, <1>2, PTL DEF PoolSpec

\* Unless a send was cancelled on it, a pooled connection gives every send the
\* answer to its own message.
THEOREM AnswersOwnTheorem == PoolSpec => []AnswersOwn
<1>1. PoolInv => AnswersOwn
  BY DEF PoolInv
<1> QED
  BY <1>1, PoolInvTheorem, PTL
-----------------------------------------------------------------------------
(* The loops.  What was read from a bus was taken by a task of some call;  *)
(* an event is lost only with the call whose task took it, and each timeout*)
(* loses at most one call.                                                 *)

\* next() is under way.
Busy == lpc \in {"await", "reap"}

\* Results of its inner tasks
Pending == IF Busy THEN UNION {result[t] : t \in Mine} ELSE {}

\* What next() returned or will return without another call
Delivered == In(handled) \cup current \cup In(buffer)
OnWay     == current \cup In(buffer) \cup Pending

WasRead(e) == \E p \in 1..innerCursor[BusOf[e]] : log[BusOf[e]][p] = e

\* Two events of a bus in the order of the bus
Before(x, y) ==
  \E k, l \in DOMAIN log[BusOf[x]] : k < l /\ log[BusOf[x]][k] = x /\ log[BusOf[x]][l] = y

LoopType ==
  /\ log \in [Buses -> Seq(Events)] /\ innerCursor \in [Buses -> Nat]
  /\ calls \in Nat
  /\ task \in [CallIds \X Buses -> {"none", "scheduled", "waiting", "done", "cancelled"}]
  /\ result \in [CallIds \X Buses -> SUBSET Events]
  /\ lpc \in {"call", "await", "reap", "handle"}
  /\ current \subseteq Events /\ buffer \in Seq(Events) /\ handled \in Seq(Events)
  /\ timeouts \in 0..MaxTimeouts

\* Each event is on its bus, once.
LogOK ==
  \A b \in Buses : /\ innerCursor[b] <= Len(log[b]) /\ Once(log[b])
                   /\ \A i \in DOMAIN log[b] : BusOf[log[b][i]] = b

\* A task has taken one event if it is done, and none otherwise.
TaskOK(t) ==
  /\ t[1] > calls => task[t] = "none"
  /\ task[t] # "done" => result[t] = {}
  /\ task[t] = "done" => \E p \in 1..innerCursor[t[2]] : result[t] = {log[t[2]][p]}
  /\ lpc = "reap" /\ t[1] = calls => task[t] \in {"done", "cancelled"}

TasksOK == \A t \in CallIds \X Buses : TaskOK(t)

\* What was read from a bus was taken by a task of some call.
ReadOK ==
  \A b \in Buses : \A p \in 1..innerCursor[b] : \E c \in 1..calls : result[<<c, b>>] = {log[b][p]}

\* At most one event of each bus is between next() and the handler.
PhaseOK ==
  /\ lpc # "handle" => current = {}
  /\ Busy => buffer = <<>> /\ calls # 0
  /\ \A x, y \in current : x = y
  /\ \A i, j \in DOMAIN buffer : BusOf[buffer[i]] = BusOf[buffer[j]] => i = j
  /\ \A e \in current, i \in DOMAIN buffer : BusOf[e] # BusOf[buffer[i]]

OrderOK ==
  /\ \A e \in OnWay \cup In(handled) : WasRead(e)
  /\ \A i, j \in DOMAIN handled :
       i < j /\ BusOf[handled[i]] = BusOf[handled[j]] => Before(handled[i], handled[j])
  /\ \A i \in DOMAIN handled, e \in OnWay : BusOf[handled[i]] = BusOf[e] => Before(handled[i], e)

\* Calls that ended without all that their tasks took or will take
Lost ==
  {c \in 1..calls : /\ c < calls \/ ~Busy
                    /\ \E b \in Buses : \/ task[<<c, b>>] \in {"scheduled", "waiting"}
                                        \/ ~(result[<<c, b>>] \subseteq Delivered)}

CountOK ==
  /\ calls <= MaxCalls
  /\ Cardinality(Lost) <= timeouts
  /\ calls <= timeouts + Cardinality(Delivered) + (IF Busy THEN 1 ELSE 0)

LoopInv == LoopType /\ LogOK /\ TasksOK /\ ReadOK /\ PhaseOK /\ OrderOK /\ CountOK
-----------------------------------------------------------------------------
\* The assumptions on the constants, spelled out
LEMMA BoundsAre ==
  /\ MaxCalls \in Nat /\ MaxCalls # 0 /\ Cardinality(Events) \in Nat /\ MaxTimeouts \in Nat
  /\ MaxCalls = Cardinality(Events) + MaxTimeouts + 1
  /\ IsFiniteSet(Events) /\ BusOf \in [Events -> Buses]
<1>1. Cardinality(Events) \in Nat
  BY LoopAssumption, FS_CardinalityType
<1> QED
  BY <1>1, LoopAssumption DEF MaxCalls

\* Tasks are pairs of a call and a bus.
LEMMA TasksAre ==
  /\ \A c \in 1..MaxCalls, b \in Buses : <<c, b>> \in CallIds \X Buses /\ <<c, b>>[1] = c /\ <<c, b>>[2] = b
  /\ \A t \in CallIds \X Buses : t[1] \in 1..MaxCalls /\ t[2] \in Buses /\ t = <<t[1], t[2]>>
BY DEF CallIds

\* The sets that are counted are finite.
LEMMA CountsAre ==
  ASSUME LoopType
  PROVE  /\ IsFiniteSet(Lost) /\ Cardinality(Lost) \in Nat
         /\ IsFiniteSet(Delivered) /\ Cardinality(Delivered) \in Nat /\ Cardinality(Delivered) <= Cardinality(Events)
         /\ Delivered \subseteq Events
<1>1. IsFiniteSet(1..calls)
  BY FS_Interval DEF LoopType
<1>2. Lost \subseteq 1..calls
  BY DEF Lost
<1>3. Delivered \subseteq Events
  BY DEF LoopType, Delivered, In
<1>4. IsFiniteSet(Lost) /\ IsFiniteSet(Delivered) /\ Cardinality(Delivered) <= Cardinality(Events)
  BY <1>1, <1>2, <1>3, BoundsAre, FS_Subset
<1> QED
  BY <1>3, <1>4, FS_CardinalityType

\* While next() is under way its tasks are the pairs of its number and a bus.
LEMMA MineIs ==
  ASSUME LoopInv, Busy
  PROVE  /\ calls \in 1..MaxCalls
         /\ \A b \in Buses : <<calls, b>> \in CallIds \X Buses /\ <<calls, b>> \in Mine
         /\ \A t \in Mine : t \in CallIds \X Buses /\ t[1] = calls /\ t[2] \in Buses /\ t = <<calls, t[2]>>
<1>1. calls \in Nat /\ calls # 0 /\ calls <= MaxCalls
  BY DEF LoopInv, LoopType, PhaseOK, CountOK
<1>2. calls \in 1..MaxCalls
  BY <1>1, BoundsAre
<1> QED
  BY <1>2 DEF Mine, CallIds

\* What a task has taken is of its bus.
LEMMA TakenIs ==
  ASSUME LoopInv, NEW t \in CallIds \X Buses, NEW e \in result[t]
  PROVE  /\ e \in Events /\ BusOf[e] = t[2] /\ WasRead(e) /\ task[t] = "done" /\ result[t] = {e}
         /\ t[1] <= calls
<1>1. TaskOK(t) /\ t[2] \in Buses /\ t[1] \in Nat
  BY TasksAre DEF LoopInv, TasksOK
<1>2. task[t] = "done" /\ ~(t[1] > calls)
  BY <1>1 DEF TaskOK
<1>3. PICK p \in 1..innerCursor[t[2]] : result[t] = {log[t[2]][p]}
  BY <1>1, <1>2 DEF TaskOK
<1>4. innerCursor[t[2]] \in Nat /\ log[t[2]] \in Seq(Events) /\ innerCursor[t[2]] <= Len(log[t[2]])
  BY <1>1 DEF LoopInv, LoopType, LogOK
<1>5. p \in DOMAIN log[t[2]] /\ e = log[t[2]][p]
  BY <1>3, <1>4
<1>6. BusOf[e] = t[2] /\ e \in Events
  BY <1>1, <1>4, <1>5 DEF LoopInv, LogOK
<1>7. t[1] <= calls
  BY <1>1, <1>2 DEF LoopInv, LoopType
<1> QED
  BY <1>2, <1>3, <1>5, <1>6, <1>7 DEF WasRead

\* Nothing new is on the way: the order holds.
LEMMA OrderStays ==
  ASSUME LoopInv, UNCHANGED <<log, innerCursor, handled>>, OnWay' \subseteq OnWay
  PROVE  OrderOK'
<1>1. OrderOK
  BY DEF LoopInv
<1>2. \A e : WasRead(e)' <=> WasRead(e)
  BY DEF WasRead
<1>3. \A x, y : Before(x, y)' <=> Before(x, y)
  BY DEF Before
<1> QED
  BY <1>1, <1>2, <1>3 DEF OrderOK

\* The calls that lost something are the same.
LEMMA CountStays ==
  ASSUME LoopInv, calls' = calls, Lost' \subseteq Lost, Cardinality(Lost) <= timeouts => Cardinality(Lost) <= timeouts',
         timeouts' \in Nat, timeouts' >= timeouts, Delivered' = Delivered, Busy => Busy'
  PROVE  CountOK'
<1>1. IsFiniteSet(Lost) /\ Cardinality(Lost) \in Nat /\ Cardinality(Delivered) \in Nat /\ calls \in Nat /\ timeouts \in Nat
  BY CountsAre DEF LoopInv, LoopType
<1>2. Cardinality(Lost') <= Cardinality(Lost) /\ Cardinality(Lost') \in Nat
  BY <1>1, FS_Subset, FS_CardinalityType
<1>3. Cardinality(Lost) <= timeouts /\ calls <= MaxCalls /\ MaxCalls \in Nat
  BY BoundsAre DEF LoopInv, CountOK
<1>4. calls <= timeouts + Cardinality(Delivered) + (IF Busy THEN 1 ELSE 0)
  BY DEF LoopInv, CountOK
<1>5. calls <= timeouts' + Cardinality(Delivered') + (IF Busy' THEN 1 ELSE 0)
  <2>1. CASE Busy
    BY <1>1, <1>4, <2>1
  <2>2. CASE ~Busy
    <3>1. calls <= timeouts' + Cardinality(Delivered)
      BY <1>1, <1>4, <2>2
    <3> QED
      BY <1>1, <3>1
  <2> QED
    BY <2>1, <2>2
<1>6. Cardinality(Lost') <= timeouts'
  BY <1>1, <1>2, <1>3
<1> QED
  BY <1>3, <1>5, <1>6 DEF CountOK
-----------------------------------------------------------------------------
\* An event is behind all others of its bus.
LEMMA EmitKeeps ==
  ASSUME LoopInv, NEW e \in Events, Emit(e)
  PROVE  LoopInv'
<1> DEFINE b == BusOf[e]
<1>1. /\ \A d \in Buses : ~Contains(log[d], e)
      /\ log' = [log EXCEPT ![b] = Append(@, e)]
      /\ task' = [t \in CallIds \X Buses |->
                    IF task[t] = "waiting" /\ t[2] = b THEN "scheduled" ELSE task[t]]
      /\ UNCHANGED <<innerCursor, calls, result, lpc, current, buffer, handled, timeouts>>
  BY DEF Emit
<1>2. /\ log \in [Buses -> Seq(Events)] /\ innerCursor \in [Buses -> Nat]
      /\ task \in [CallIds \X Buses -> {"none", "scheduled", "waiting", "done", "cancelled"}]
  BY DEF LoopInv, LoopType
<1>3. b \in Buses
  BY BoundsAre
<1> HIDE DEF b
<1>4. /\ log' \in [Buses -> Seq(Events)] /\ log'[b] = Append(log[b], e)
      /\ \A d \in Buses : d # b => log'[d] = log[d]
  BY <1>1, <1>2, <1>3
<1>5. task' \in [CallIds \X Buses -> {"none", "scheduled", "waiting", "done", "cancelled"}]
  BY <1>1, <1>2
<1>6. LoopType'
  BY <1>1, <1>4, <1>5 DEF LoopInv, LoopType
<1>7. \A d \in Buses : \A p \in DOMAIN log[d] : p \in DOMAIN log'[d] /\ log'[d][p] = log[d][p]
  <2>1. SUFFICES ASSUME NEW d \in Buses, NEW p \in DOMAIN log[d]
                 PROVE  p \in DOMAIN log'[d] /\ log'[d][p] = log[d][p]
    OBVIOUS
  <2>2. CASE d = b
    <3>1. log'[d] = Append(log[d], e) /\ log[d] \in Seq(Events)
      BY <1>2, <1>4, <2>2
    <3> QED
      BY <3>1, AppendedIs
  <2>3. CASE d # b
    BY <1>4, <2>3
  <2> QED
    BY <2>2, <2>3
<1>8. \A d \in Buses : /\ DOMAIN log[d] = 1..Len(log[d]) /\ Len(log[d]) \in Nat /\ innerCursor[d] \in Nat
                       /\ innerCursor[d] <= Len(log[d])
  BY <1>2 DEF LoopInv, LogOK
<1>9. \A d \in Buses : \A p \in 1..innerCursor[d] : p \in DOMAIN log[d] /\ log'[d][p] = log[d][p]
  BY <1>7, <1>8
<1>10. LogOK'
  <2>1. SUFFICES ASSUME NEW d \in Buses
                 PROVE  /\ innerCursor[d] <= Len(log'[d]) /\ Once(log'[d])
                        /\ \A i \in DOMAIN log'[d] : BusOf[log'[d][i]] = d
    BY <1>1 DEF LogOK
  <2>2. /\ innerCursor[d] <= Len(log[d]) /\ Once(log[d]) /\ \A i \in DOMAIN log[d] : BusOf[log[d][i]] = d
    BY DEF LoopInv, LogOK
  <2>3. CASE d = b
    <3>1. /\ log'[d] = Append(log[d], e) /\ log[d] \in Seq(Events)
      BY <1>2, <1>4, <2>3
    <3>2. e \notin In(log[d])
      BY <1>1, <1>8 DEF In, Contains
    <3>3. Once(log'[d])
      BY <2>2, <3>1, <3>2, OnceAppended
    <3>4. /\ DOMAIN log'[d] = 1..Len(log[d]) + 1 /\ log'[d][Len(log[d]) + 1] = e
          /\ \A i \in 1..Len(log[d]) : log'[d][i] = log[d][i]
          /\ Len(log'[d]) = Len(log[d]) + 1
      BY <3>1, AppendedIs
    <3>5. \A i \in DOMAIN log'[d] : BusOf[log'[d][i]] = d
      BY <1>8, <2>2, <2>3, <3>4 DEF b
    <3> QED
      BY <1>8, <3>3, <3>4, <3>5
  <2>4. CASE d # b
    BY <1>4, <2>2, <2>4
  <2> QED
    BY <2>3, <2>4
<1>11. \A t \in CallIds \X Buses :
         /\ task'[t] = "done" <=> task[t] = "done"
         /\ task'[t] = "none" <=> task[t] = "none"
         /\ task'[t] = "cancelled" <=> task[t] = "cancelled"
         /\ task'[t] \in {"scheduled", "waiting"} <=> task[t] \in {"scheduled", "waiting"}
  BY <1>1
<1>12. TasksOK'
  <2>1. SUFFICES ASSUME NEW t \in CallIds \X Buses PROVE TaskOK(t)'
    BY DEF TasksOK
  <2>2. TaskOK(t) /\ t[2] \in Buses
    BY TasksAre DEF LoopInv, TasksOK
  <2>3. ASSUME task[t] = "done"
        PROVE  \E p \in 1..innerCursor[t[2]] : result[t] = {log'[t[2]][p]}
    <3>1. PICK p \in 1..innerCursor[t[2]] : result[t] = {log[t[2]][p]}
      BY <2>2, <2>3 DEF TaskOK
    <3> QED
      BY <1>9, <2>2, <3>1
  <2> QED
    BY <1>1, <1>11, <2>2, <2>3 DEF TaskOK
<1>13. ReadOK'
  <2>1. SUFFICES ASSUME NEW d \in Buses, NEW p \in 1..innerCursor[d]
                 PROVE  \E c \in 1..calls : result[<<c, d>>] = {log'[d][p]}
    BY <1>1 DEF ReadOK
  <2>2. PICK c \in 1..calls : result[<<c, d>>] = {log[d][p]}
    BY DEF LoopInv, ReadOK
  <2> QED
    BY <1>9, <2>2
<1>14. PhaseOK'
  BY <1>1 DEF LoopInv, PhaseOK, Busy
<1>15. OnWay' = OnWay /\ Delivered' = Delivered /\ (Busy' <=> Busy)
  BY <1>1 DEF OnWay, Delivered, Pending, Busy, Mine
<1>16. OrderOK'
  <2>1. \A x \in OnWay \cup In(handled) : x \in Events
    <3>1. \A x \in Pending : x \in Events
      <4>1. ASSUME NEW x \in Pending PROVE x \in Events
        <5>1. Busy /\ \E t \in Mine : x \in result[t]
          BY <4>1 DEF Pending
        <5> QED
          BY <5>1, MineIs DEF LoopInv, LoopType
      <4> QED
        BY <4>1
    <3> QED
      BY <3>1 DEF OnWay, In, LoopInv, LoopType
  <2>2. ASSUME NEW x \in Events, WasRead(x) PROVE WasRead(x)'
    <3>1. BusOf[x] \in Buses
      BY BoundsAre
    <3>2. PICK p \in 1..innerCursor[BusOf[x]] : log[BusOf[x]][p] = x
      BY <2>2 DEF WasRead
    <3>3. log'[BusOf[x]][p] = x
      BY <1>9, <3>1, <3>2
    <3> QED
      BY <1>1, <3>3 DEF WasRead
  <2>3. ASSUME NEW x \in Events, NEW y \in Events, Before(x, y) PROVE Before(x, y)'
    <3>1. BusOf[x] \in Buses
      BY BoundsAre
    <3>2. PICK k, l \in DOMAIN log[BusOf[x]] : k < l /\ log[BusOf[x]][k] = x /\ log[BusOf[x]][l] = y
      BY <2>3 DEF Before
    <3>3. /\ k \in DOMAIN log'[BusOf[x]] /\ l \in DOMAIN log'[BusOf[x]]
          /\ log'[BusOf[x]][k] = x /\ log'[BusOf[x]][l] = y
      BY <1>7, <3>1, <3>2
    <3> QED
      BY <3>2, <3>3 DEF Before
  <2>4. \A i \in DOMAIN handled : handled[i] \in In(handled) /\ handled[i] \in Events
    BY DEF In, LoopInv, LoopType
  <2>5. OrderOK
    BY DEF LoopInv
  <2>6. handled' = handled
    BY <1>1
  <2>7. \A x \in OnWay' \cup In(handled') : WasRead(x)'
    BY <1>15, <2>1, <2>2, <2>5, <2>6 DEF OrderOK
  <2>8. \A i, j \in DOMAIN handled' :
          i < j /\ BusOf[handled'[i]] = BusOf[handled'[j]] => Before(handled[i], handled[j])'
    BY <2>3, <2>4, <2>5, <2>6 DEF OrderOK
  <2>9. \A i \in DOMAIN handled', x \in OnWay' : BusOf[handled'[i]] = BusOf[x] => Before(handled[i], x)'
    <3>1. SUFFICES ASSUME NEW i \in DOMAIN handled, NEW x \in OnWay, BusOf[handled[i]] = BusOf[x]
                   PROVE  Before(handled[i], x)'
      BY <1>15, <2>6
    <3>2. Before(handled[i], x)
      BY <2>5, <3>1 DEF OrderOK
    <3> QED
      BY <2>1, <2>3, <2>4, <3>2, <2>6 DEF Before
  <2> QED
    BY <2>6, <2>7, <2>8, <2>9 DEF OrderOK, Before
<1>17. Lost' \subseteq Lost
  <2>1. SUFFICES ASSUME NEW c \in Lost' PROVE c \in Lost
    OBVIOUS
  <2>2. PICK d \in Buses : \/ task'[<<c, d>>] \in {"scheduled", "waiting"}
                           \/ ~(result[<<c, d>>] \subseteq Delivered)
    BY <1>1, <1>15, <2>1 DEF Lost
  <2>3. c \in 1..calls /\ (c < calls \/ ~Busy)
    BY <1>1, <1>15, <2>1 DEF Lost
  <2>4. <<c, d>> \in CallIds \X Buses
    <3>1. calls <= MaxCalls /\ calls \in Nat
      BY DEF LoopInv, CountOK, LoopType
    <3> QED
      BY <2>3, <3>1, BoundsAre, TasksAre
  <2> QED
    BY <1>11, <2>2, <2>3, <2>4 DEF Lost
<1>18. CountOK'
  BY <1>1, <1>15, <1>17, CountStays DEF LoopInv, LoopType
<1> QED
  BY <1>6, <1>10, <1>12, <1>13, <1>14, <1>16, <1>18 DEF LoopInv
-----------------------------------------------------------------------------
\* A buffered event is returned.
LEMMA NextBufferedKeeps == LoopInv /\ NextBuffered => LoopInv'
<1> SUFFICES ASSUME LoopInv, NextBuffered PROVE LoopInv'
  OBVIOUS
<1> DEFINE h == Head(buffer)
           q == Tail(buffer)
<1>1. /\ lpc = "call" /\ lpc' = "handle" /\ buffer # <<>> /\ buffer \in Seq(Events)
      /\ current = {} /\ current' = {h} /\ buffer' = q
      /\ UNCHANGED <<log, innerCursor, calls, task, result, handled, timeouts>>
  BY DEF NextBuffered, taskVars, LoopInv, LoopType, PhaseOK
<1>2. /\ q \in Seq(Events) /\ h = buffer[1] /\ h \in Events /\ Len(buffer) \in Nat \ {0}
      /\ DOMAIN buffer = 1..Len(buffer) /\ DOMAIN q = 1..Len(buffer) - 1
      /\ \A i \in 1..Len(buffer) - 1 : q[i] = buffer[i + 1]
  BY <1>1, TailIs
<1> HIDE DEF h, q
<1>3. In(buffer) = {h} \cup In(q)
  <2>1. \A x \in In(buffer) : x \in {h} \cup In(q)
    <3>1. SUFFICES ASSUME NEW i \in DOMAIN buffer PROVE buffer[i] \in {h} \cup In(q)
      BY DEF In
    <3>2. CASE i = 1
      BY <1>2, <3>2
    <3>3. CASE i # 1
      <4>1. i - 1 \in DOMAIN q /\ q[i - 1] = buffer[i]
        BY <1>2, <3>3
      <4> QED
        BY <4>1 DEF In
    <3> QED
      BY <3>2, <3>3
  <2>2. \A i \in DOMAIN q : q[i] \in In(buffer)
    <3>1. \A i \in DOMAIN q : i + 1 \in DOMAIN buffer /\ q[i] = buffer[i + 1]
      BY <1>2
    <3> QED
      BY <3>1 DEF In
  <2>3. h \in In(buffer)
    BY <1>2 DEF In
  <2> QED
    BY <2>1, <2>2, <2>3 DEF In
<1>4. ~Busy /\ ~Busy'
  BY <1>1 DEF Busy
<1>5. Delivered' = Delivered /\ OnWay' = OnWay
  BY <1>1, <1>3, <1>4 DEF Delivered, OnWay, Pending
<1>6. LoopType'
  BY <1>1, <1>2 DEF LoopInv, LoopType
<1>7. LogOK' /\ ReadOK'
  BY <1>1 DEF LoopInv, LogOK, ReadOK
<1>8. TasksOK'
  BY <1>1 DEF LoopInv, TasksOK, TaskOK
<1>9. PhaseOK'
  <2>1. \A i \in DOMAIN q : i + 1 \in DOMAIN buffer /\ q[i] = buffer[i + 1] /\ i + 1 # 1 /\ i \in Nat
    BY <1>2
  <2>2. \A i, j \in DOMAIN buffer : BusOf[buffer[i]] = BusOf[buffer[j]] => i = j
    BY DEF LoopInv, PhaseOK
  <2>3. \A i, j \in DOMAIN q : BusOf[q[i]] = BusOf[q[j]] => i = j
    <3>1. SUFFICES ASSUME NEW i \in DOMAIN q, NEW j \in DOMAIN q, BusOf[q[i]] = BusOf[q[j]] PROVE i = j
      OBVIOUS
    <3>2. i + 1 = j + 1
      BY <2>1, <2>2, <3>1
    <3> QED
      BY <2>1, <3>2
  <2>4. 1 \in DOMAIN buffer
    BY <1>2
  <2>5. \A i \in DOMAIN q : BusOf[h] # BusOf[q[i]]
    BY <1>2, <2>1, <2>2, <2>4
  <2> QED
    BY <1>1, <1>4, <2>3, <2>5 DEF PhaseOK
<1>10. OrderOK'
  BY <1>1, <1>5, OrderStays
<1>11. Lost' = Lost
  BY <1>1, <1>4, <1>5 DEF Lost
<1>12. CountOK'
  BY <1>1, <1>4, <1>5, <1>11, CountStays DEF LoopInv, LoopType
<1> QED
  BY <1>6, <1>7, <1>8, <1>9, <1>10, <1>12 DEF LoopInv

\* The tasks of a new call have taken nothing.
LEMMA NextTasksKeeps == LoopInv /\ NextTasks => LoopInv'
<1> SUFFICES ASSUME LoopInv, NextTasks PROVE LoopInv'
  OBVIOUS
<1> DEFINE n == calls + 1
<1>1. /\ lpc = "call" /\ lpc' = "await" /\ buffer = <<>> /\ calls' = n /\ current = {}
      /\ task' = [t \in CallIds \X Buses |-> IF t[1] = n THEN "scheduled" ELSE task[t]]
      /\ UNCHANGED <<log, innerCursor, result, current, buffer, handled, timeouts>>
  BY DEF NextTasks, LoopInv, PhaseOK
<1>2. ~Busy /\ Busy'
  BY <1>1 DEF Busy
<1>3. calls \in Nat /\ timeouts \in Nat /\ timeouts <= MaxTimeouts
  BY BoundsAre DEF LoopInv, LoopType
<1>4. /\ Cardinality(Delivered) \in Nat /\ Cardinality(Delivered) <= Cardinality(Events)
      /\ IsFiniteSet(Lost) /\ Cardinality(Lost) \in Nat
  BY CountsAre DEF LoopInv
<1>5. calls <= timeouts + Cardinality(Delivered)
  <2>1. calls <= timeouts + Cardinality(Delivered) + (IF Busy THEN 1 ELSE 0)
    BY DEF LoopInv, CountOK
  <2> QED
    BY <1>2, <1>3, <1>4, <2>1
<1>6. n \in Nat /\ n # 0 /\ n <= MaxCalls /\ n > calls
  BY <1>3, <1>4, <1>5, BoundsAre
<1> HIDE DEF n
<1>7. /\ task \in [CallIds \X Buses -> {"none", "scheduled", "waiting", "done", "cancelled"}]
      /\ task' \in [CallIds \X Buses -> {"none", "scheduled", "waiting", "done", "cancelled"}]
  BY <1>1 DEF LoopInv, LoopType
<1>8. LoopType'
  BY <1>1, <1>6, <1>7 DEF LoopInv, LoopType
<1>9. \A t \in CallIds \X Buses : t[1] \in Nat /\ TaskOK(t)
  BY TasksAre DEF LoopInv, TasksOK
<1>10. \A t \in CallIds \X Buses : t[1] = n => result[t] = {}
  BY <1>6, <1>9 DEF TaskOK
<1>11. Pending' = {} /\ Pending = {}
  <2>1. \A t \in Mine' : t \in CallIds \X Buses /\ t[1] = n
    BY <1>1, <1>6, BoundsAre DEF Mine, CallIds
  <2>2. \A t \in Mine' : result'[t] = {}
    BY <1>1, <1>10, <2>1
  <2>3. UNION {result'[t] : t \in Mine'} = {}
    BY <2>2
  <2> QED
    BY <1>2, <2>3 DEF Pending
<1>12. OnWay' = OnWay /\ Delivered' = Delivered
  BY <1>1, <1>11 DEF OnWay, Delivered
<1>13. LogOK'
  BY <1>1 DEF LoopInv, LogOK
<1>14. ReadOK'
  <2>1. SUFFICES ASSUME NEW b \in Buses, NEW p \in 1..innerCursor[b]
                 PROVE  \E c \in 1..n : result[<<c, b>>] = {log[b][p]}
    BY <1>1 DEF ReadOK
  <2>2. PICK c \in 1..calls : result[<<c, b>>] = {log[b][p]}
    BY DEF LoopInv, ReadOK
  <2>3. c \in 1..n
    BY <1>3, <1>6
  <2> QED
    BY <2>2, <2>3
<1>15. TasksOK'
  <2>1. SUFFICES ASSUME NEW t \in CallIds \X Buses PROVE TaskOK(t)'
    BY DEF TasksOK
  <2>2. CASE t[1] = n
    <3>1. task'[t] = "scheduled" /\ result'[t] = {}
      BY <1>1, <1>10, <2>2
    <3>2. ~(t[1] > n)
      BY <1>6, <2>2
    <3> QED
      BY <1>1, <3>1, <3>2 DEF TaskOK
  <2>3. CASE t[1] # n
    <3>1. task'[t] = task[t]
      BY <1>1, <2>3
    <3>2. t[1] > n => t[1] > calls
      BY <1>3, <1>6, <1>9
    <3> QED
      BY <1>1, <1>9, <3>1, <3>2 DEF TaskOK
  <2> QED
    BY <2>2, <2>3
<1>16. PhaseOK'
  BY <1>1, <1>6 DEF LoopInv, PhaseOK
<1>17. OrderOK'
  BY <1>1, <1>12, OrderStays
<1>18. Lost' \subseteq Lost
  <2>1. SUFFICES ASSUME NEW c \in Lost' PROVE c \in Lost
    OBVIOUS
  <2>2. c \in 1..n /\ c < n
    BY <1>1, <1>2, <2>1 DEF Lost
  <2>3. c \in 1..calls /\ c # n /\ c \in 1..MaxCalls
    BY <1>3, <1>6, <2>2, BoundsAre DEF n
  <2>4. PICK b \in Buses : \/ task'[<<c, b>>] \in {"scheduled", "waiting"}
                           \/ ~(result[<<c, b>>] \subseteq Delivered)
    BY <1>1, <1>12, <2>1 DEF Lost
  <2>5. task'[<<c, b>>] = task[<<c, b>>]
    BY <1>1, <2>3, TasksAre
  <2> QED
    BY <1>2, <2>3, <2>4, <2>5 DEF Lost
<1>19. CountOK'
  <2>1. Cardinality(Lost) <= timeouts
    BY DEF LoopInv, CountOK
  <2>2. Cardinality(Lost') <= Cardinality(Lost) /\ Cardinality(Lost') \in Nat
    BY <1>4, <1>18, FS_Subset, FS_CardinalityType
  <2>3. Cardinality(Lost') <= timeouts'
    BY <1>1, <1>3, <1>4, <2>1, <2>2
  <2>4. n <= timeouts + Cardinality(Delivered) + 1
    BY <1>3, <1>4, <1>5 DEF n
  <2>5. calls' <= timeouts' + Cardinality(Delivered') + (IF Busy' THEN 1 ELSE 0)
    BY <1>1, <1>2, <1>12, <2>4
  <2> QED
    BY <1>1, <1>6, <2>3, <2>5 DEF CountOK
<1> QED
  BY <1>8, <1>13, <1>14, <1>15, <1>16, <1>17, <1>19 DEF LoopInv

\* The tasks of the call that have not finished are cancelled.
LEMMA FirstCompletedKeeps == LoopInv /\ FirstCompleted => LoopInv'
<1> SUFFICES ASSUME LoopInv, FirstCompleted PROVE LoopInv'
  OBVIOUS
<1>1. /\ lpc = "await" /\ lpc' = "reap"
      /\ task' = [t \in CallIds \X Buses |-> IF t \in Mine \ Finished THEN "cancelled" ELSE task[t]]
      /\ UNCHANGED <<log, innerCursor, calls, result, current, buffer, handled, timeouts>>
  BY DEF FirstCompleted, CancelInner
<1>2. Busy /\ Busy'
  BY <1>1 DEF Busy
<1>3. calls \in Nat
  BY DEF LoopInv, LoopType
<1>4. /\ task \in [CallIds \X Buses -> {"none", "scheduled", "waiting", "done", "cancelled"}]
      /\ task' \in [CallIds \X Buses -> {"none", "scheduled", "waiting", "done", "cancelled"}]
  BY <1>1 DEF LoopInv, LoopType
<1>5. LoopType'
  BY <1>1, <1>4 DEF LoopInv, LoopType
<1>6. Pending' = Pending
  BY <1>1, <1>2 DEF Pending, Mine
<1>7. OnWay' = OnWay /\ Delivered' = Delivered
  BY <1>1, <1>6 DEF OnWay, Delivered
<1>8. LogOK' /\ ReadOK'
  BY <1>1 DEF LoopInv, LogOK, ReadOK
<1>9. TasksOK'
  <2>1. SUFFICES ASSUME NEW t \in CallIds \X Buses PROVE TaskOK(t)'
    BY DEF TasksOK
  <2>2. TaskOK(t) /\ t[1] \in Nat /\ t[2] \in Buses /\ t = <<t[1], t[2]>>
    BY TasksAre DEF LoopInv, TasksOK
  <2>3. CASE t \in Mine \ Finished
    <3>1. task'[t] = "cancelled" /\ t[1] = calls /\ task[t] # "done"
      BY <1>1, <2>3 DEF Mine, Finished
    <3>2. ~(t[1] > calls)
      BY <1>3, <3>1
    <3> QED
      BY <1>1, <2>2, <3>1, <3>2 DEF TaskOK
  <2>4. CASE t \notin Mine \ Finished
    <3>1. task'[t] = task[t]
      BY <1>1, <2>4
    <3>2. t[1] = calls => task[t] = "done"
      BY <2>2, <2>4 DEF Mine, Finished
    <3> QED
      BY <1>1, <2>2, <3>1, <3>2 DEF TaskOK
  <2> QED
    BY <2>3, <2>4
<1>10. PhaseOK'
  BY <1>1, <1>2 DEF LoopInv, PhaseOK
<1>11. OrderOK'
  BY <1>1, <1>7, OrderStays
<1>12. Lost' \subseteq Lost
  <2>1. SUFFICES ASSUME NEW c \in Lost' PROVE c \in Lost
    OBVIOUS
  <2>2. c \in 1..calls /\ c < calls
    BY <1>1, <1>2, <2>1 DEF Lost
  <2>3. c \in 1..MaxCalls /\ c # calls
    <3>1. calls <= MaxCalls /\ MaxCalls \in Nat
      BY BoundsAre DEF LoopInv, CountOK
    <3> QED
      BY <1>3, <2>2, <3>1
  <2>4. PICK b \in Buses : \/ task'[<<c, b>>] \in {"scheduled", "waiting"}
                           \/ ~(result[<<c, b>>] \subseteq Delivered)
    BY <1>1, <1>7, <2>1 DEF Lost
  <2>5. <<c, b>> \in CallIds \X Buses /\ <<c, b>> \notin Mine
    BY <2>3, TasksAre DEF Mine
  <2>6. task'[<<c, b>>] = task[<<c, b>>]
    BY <1>1, <2>5
  <2> QED
    BY <2>2, <2>4, <2>6 DEF Lost
<1>13. CountOK'
  BY <1>1, <1>2, <1>7, <1>12, CountStays DEF LoopInv, LoopType
<1> QED
  BY <1>5, <1>8, <1>9, <1>10, <1>11, <1>13 DEF LoopInv
\* While next() is under way nothing is buffered and nothing is handled.
LEMMA PendingIs ==
  ASSUME LoopInv, Busy
  PROVE  /\ current = {} /\ buffer = <<>> /\ OnWay = Pending /\ Delivered = In(handled)
         /\ Pending = UNION {result[t] : t \in Mine} /\ Pending = UNION {result[t] : t \in Finished}
         /\ \A e \in Pending : e \in Events /\ e \notin In(handled)
         /\ \A x, y \in Pending : BusOf[x] = BusOf[y] => x = y
<1>1. current = {} /\ buffer = <<>>
  BY DEF LoopInv, PhaseOK, Busy
<1>2. In(buffer) = {}
  BY <1>1 DEF In
<1>3. OnWay = Pending /\ Delivered = In(handled) /\ Pending = UNION {result[t] : t \in Mine}
  BY <1>1, <1>2 DEF OnWay, Delivered, Pending
<1>4. \A t \in Mine : t \in CallIds \X Buses /\ t[1] = calls /\ t[2] \in Buses /\ t = <<calls, t[2]>>
  BY MineIs
<1>5. \A e \in Pending : \E t \in Mine : e \in result[t]
  BY <1>3
<1>6. Finished \subseteq Mine /\ \A t \in Mine : task[t] = "done" => t \in Finished
  BY DEF Finished
<1>7. Pending = UNION {result[t] : t \in Finished}
  <2>1. ASSUME NEW e \in Pending PROVE \E t \in Finished : e \in result[t]
    <3>1. PICK t \in Mine : e \in result[t]
      BY <1>5
    <3>2. task[t] = "done"
      BY <1>4, <3>1, TakenIs
    <3> QED
      BY <1>6, <3>1, <3>2
  <2> QED
    BY <1>3, <1>6, <2>1
<1>8. ASSUME NEW e \in Pending PROVE e \in Events /\ e \notin In(handled)
  <2>1. PICK t \in Mine : e \in result[t]
    BY <1>5
  <2>2. e \in Events
    BY <1>4, <2>1, TakenIs
  <2>3. ASSUME e \in In(handled) PROVE FALSE
    <3>1. PICK i \in DOMAIN handled : handled[i] = e
      BY <2>3 DEF In
    <3>2. Before(handled[i], e)
      BY <1>3, <3>1 DEF LoopInv, OrderOK
    <3>3. Before(e, e)
      BY <3>1, <3>2
    <3>4. BusOf[e] \in Buses
      BY <2>2, BoundsAre
    <3>5. PICK k, l \in DOMAIN log[BusOf[e]] : k < l /\ log[BusOf[e]][k] = e /\ log[BusOf[e]][l] = e
      BY <3>3 DEF Before
    <3>6. k = l
      BY <3>4, <3>5 DEF LoopInv, LogOK, Once
    <3>7. log[BusOf[e]] \in Seq(Events)
      BY <3>4 DEF LoopInv, LoopType
    <3>8. k \in Nat
      BY <3>5, <3>7
    <3> QED
      BY <3>5, <3>6, <3>8
  <2> QED
    BY <2>2, <2>3
<1>9. ASSUME NEW x \in Pending, NEW y \in Pending, BusOf[x] = BusOf[y] PROVE x = y
  <2>1. PICK t \in Mine : x \in result[t]
    BY <1>5
  <2>2. PICK u \in Mine : y \in result[u]
    BY <1>5
  <2>3. BusOf[x] = t[2] /\ BusOf[y] = u[2] /\ result[t] = {x}
    BY <1>4, <2>1, <2>2, TakenIs
  <2>4. t = u
    BY <1>4, <1>9, <2>3
  <2> QED
    BY <2>2, <2>3, <2>4
<1> QED
  BY <1>1, <1>3, <1>7, <1>8, <1>9

\* A function on 1..n is a sequence.
LEMMA ListIsSeq ==
  ASSUME NEW S, NEW n \in Nat, NEW z \in [1..n -> S]
  PROVE  z \in Seq(S) /\ DOMAIN z = 1..n /\ Len(z) = n /\ <<>> \o z = z
<1>1. z \in Seq(S) /\ DOMAIN z = 1..n /\ Len(z) = n
  OBVIOUS
<1> QED
  BY <1>1

\* One of the events that were taken is returned and the others are buffered.
LEMMA CollectKeeps == LoopInv /\ Collect => LoopInv'
<1> SUFFICES ASSUME LoopInv, Collect PROVE LoopInv'
  OBVIOUS
<1>1. /\ lpc = "reap" /\ lpc' = "handle"
      /\ UNCHANGED <<log, innerCursor, calls, task, result, handled, timeouts>>
  BY DEF Collect, taskVars
<1>2. Busy /\ ~Busy'
  BY <1>1 DEF Busy
<1>3. /\ current = {} /\ buffer = <<>> /\ OnWay = Pending /\ Delivered = In(handled)
      /\ Pending = UNION {result[t] : t \in Mine} /\ Pending = UNION {result[t] : t \in Finished}
      /\ \A e \in Pending : e \in Events /\ e \notin In(handled)
      /\ \A x, y \in Pending : BusOf[x] = BusOf[y] => x = y
  BY <1>2, PendingIs
<1>4. \E e \in Pending : current' = {e} /\ buffer' = buffer \o SetToSeq(Pending \ {e})
  BY <1>3 DEF Collect
<1>5. PICK e \in Pending : current' = {e} /\ buffer' = buffer \o SetToSeq(Pending \ {e})
  BY <1>4
<1> DEFINE R == Pending \ {e}
           n == Cardinality(R)
<1>6. R \subseteq Events /\ IsFiniteSet(R) /\ n \in Nat
  <2>1. R \subseteq Events
    BY <1>3
  <2>2. IsFiniteSet(R)
    BY <2>1, BoundsAre, FS_Subset
  <2> QED
    BY <2>1, <2>2, FS_CardinalityType
<1>7. /\ SetToSeq(R) \in [1..n -> R]
      /\ \A i, j \in 1..n : SetToSeq(R)[i] = SetToSeq(R)[j] => i = j
      /\ \A x \in R : \E i \in 1..n : SetToSeq(R)[i] = x
  BY <1>6, SetToSeqIs
<1>8. SetToSeq(R) \in Seq(Events) /\ DOMAIN SetToSeq(R) = 1..n /\ <<>> \o SetToSeq(R) = SetToSeq(R)
  <2>1. SetToSeq(R) \in [1..n -> Events]
    BY <1>6, <1>7
  <2> QED
    BY <1>6, <2>1, ListIsSeq
<1>9. buffer' = SetToSeq(R)
  BY <1>3, <1>5, <1>8
<1>10. In(buffer') = R
  <2>1. \A x \in In(buffer') : x \in R
    <3>1. SUFFICES ASSUME NEW i \in DOMAIN buffer' PROVE buffer'[i] \in R
      BY DEF In
    <3>2. i \in 1..n
      BY <1>8, <1>9
    <3> QED
      BY <1>7, <1>9, <3>2
  <2>2. \A x \in R : x \in In(buffer')
    <3>1. SUFFICES ASSUME NEW x \in R PROVE x \in In(buffer')
      OBVIOUS
    <3>2. PICK i \in 1..n : SetToSeq(R)[i] = x
      BY <1>7
    <3>3. i \in DOMAIN buffer' /\ buffer'[i] = x
      BY <1>8, <1>9, <3>2
    <3> QED
      BY <3>3 DEF In
  <2> QED
    BY <2>1, <2>2
<1>11. Pending' = {}
  BY <1>2 DEF Pending
<1>12. OnWay' = Pending /\ Delivered' = In(handled) \cup Pending
  BY <1>1, <1>5, <1>10, <1>11 DEF OnWay, Delivered
<1>13. LoopType'
  BY <1>1, <1>3, <1>5, <1>8, <1>9 DEF LoopInv, LoopType
<1>14. LogOK' /\ ReadOK'
  BY <1>1 DEF LoopInv, LogOK, ReadOK
<1>15. TasksOK'
  BY <1>1 DEF LoopInv, TasksOK, TaskOK
<1>16. PhaseOK'
  <2>1. \A i \in DOMAIN buffer' : i \in 1..n /\ buffer'[i] \in Pending /\ buffer'[i] # e
    BY <1>7, <1>8, <1>9
  <2>2. \A i, j \in DOMAIN buffer' : BusOf[buffer'[i]] = BusOf[buffer'[j]] => i = j
    <3>1. SUFFICES ASSUME NEW i \in DOMAIN buffer', NEW j \in DOMAIN buffer',
                          BusOf[buffer'[i]] = BusOf[buffer'[j]]
                   PROVE  i = j
      OBVIOUS
    <3>2. buffer'[i] = buffer'[j]
      BY <1>3, <2>1, <3>1
    <3> QED
      BY <1>7, <1>9, <2>1, <3>2
  <2>3. \A i \in DOMAIN buffer' : BusOf[e] # BusOf[buffer'[i]]
    BY <1>3, <2>1
  <2> QED
    BY <1>1, <1>2, <1>5, <2>2, <2>3 DEF PhaseOK
<1>17. OrderOK'
  BY <1>1, <1>3, <1>12, OrderStays
<1>18. Lost' \subseteq Lost
  <2>1. SUFFICES ASSUME NEW c \in Lost' PROVE c \in Lost
    OBVIOUS
  <2>2. c \in 1..calls
    BY <1>1, <2>1 DEF Lost
  <2>3. PICK b \in Buses : \/ task[<<c, b>>] \in {"scheduled", "waiting"}
                           \/ ~(result[<<c, b>>] \subseteq In(handled) \cup Pending)
    BY <1>1, <1>12, <2>1 DEF Lost
  <2>4. calls \in Nat
    BY DEF LoopInv, LoopType
  <2>5. CASE c = calls
    <3>1. <<c, b>> \in CallIds \X Buses /\ <<c, b>> \in Mine /\ <<c, b>>[1] = calls
      BY <1>2, <2>5, MineIs
    <3>2. TaskOK(<<c, b>>)
      BY <3>1 DEF LoopInv, TasksOK
    <3>3. task[<<c, b>>] \in {"done", "cancelled"}
      BY <1>1, <3>1, <3>2 DEF TaskOK
    <3>4. result[<<c, b>>] \subseteq Pending
      BY <1>3, <3>1
    <3> QED
      BY <2>3, <3>3, <3>4
  <2>6. CASE c # calls
    <3>1. c < calls
      BY <2>2, <2>4, <2>6
    <3> QED
      BY <1>3, <2>2, <2>3, <3>1 DEF Lost
  <2> QED
    BY <2>5, <2>6
<1>19. CountOK'
  <2>1. /\ IsFiniteSet(Lost) /\ Cardinality(Lost) \in Nat
        /\ IsFiniteSet(Delivered) /\ Cardinality(Delivered) \in Nat
    BY CountsAre DEF LoopInv
  <2>2. Cardinality(Lost) <= timeouts /\ calls <= MaxCalls
    BY DEF LoopInv, CountOK
  <2>3. Cardinality(Lost') <= Cardinality(Lost) /\ Cardinality(Lost') \in Nat
    BY <1>18, <2>1, FS_Subset, FS_CardinalityType
  <2>4. calls \in Nat /\ timeouts \in Nat
    BY BoundsAre DEF LoopInv, LoopType
  <2>5. Cardinality(Lost') <= timeouts'
    BY <1>1, <2>1, <2>2, <2>3, <2>4
  <2>6. IsFiniteSet(Delivered \cup {e}) /\ Cardinality(Delivered \cup {e}) = Cardinality(Delivered) + 1
    BY <1>3, <2>1, FS_AddElement
  <2>7. IsFiniteSet(Delivered') /\ Cardinality(Delivered') \in Nat
    <3>1. Delivered' \subseteq Events
      BY <1>13 DEF LoopType, Delivered, In
    <3>2. IsFiniteSet(Delivered')
      BY <3>1, BoundsAre, FS_Subset
    <3> QED
      BY <3>2, FS_CardinalityType
  <2>8. Delivered \cup {e} \subseteq Delivered'
    BY <1>3, <1>12
  <2>9. Cardinality(Delivered) + 1 <= Cardinality(Delivered')
    BY <2>6, <2>7, <2>8, FS_Subset
  <2>10. calls <= timeouts + Cardinality(Delivered) + 1
    BY <1>2, <2>1, <2>4 DEF LoopInv, CountOK
  <2>11. calls <= timeouts + Cardinality(Delivered')
    BY <2>1, <2>4, <2>7, <2>9, <2>10
  <2>12. calls' <= timeouts' + Cardinality(Delivered') + (IF Busy' THEN 1 ELSE 0)
    BY <1>1, <1>2, <2>4, <2>7, <2>11
  <2> QED
    BY <1>1, <2>2, <2>5, <2>12 DEF CountOK
<1> QED
  BY <1>13, <1>14, <1>15, <1>16, <1>17, <1>18, <1>19 DEF LoopInv

\* The event is the next of its bus.
LEMMA HandleKeeps == LoopInv /\ Handle => LoopInv'
<1> SUFFICES ASSUME LoopInv, Handle PROVE LoopInv'
  OBVIOUS
<1>1. /\ lpc = "handle" /\ lpc' = "call" /\ current' = {} /\ handled' = handled \o SetToSeq(current)
      /\ UNCHANGED <<log, innerCursor, calls, task, result, buffer, timeouts>>
      /\ handled \in Seq(Events) /\ current \subseteq Events
  BY DEF Handle, taskVars, LoopInv, LoopType
<1>2. ~Busy /\ ~Busy' /\ Pending = {} /\ Pending' = {}
  BY <1>1 DEF Busy, Pending
<1>3. \/ current = {} /\ handled' = handled
      \/ \E e \in Events : current = {e} /\ handled' = Append(handled, e)
  <2>1. CASE current = {}
    BY <1>1, <2>1, SetToSeqNone
  <2>2. CASE current # {}
    <3>1. PICK e \in current : TRUE
      BY <2>2
    <3>2. current = {e} /\ e \in Events
      BY <1>1, <3>1 DEF LoopInv, PhaseOK
    <3>3. SetToSeq(current) = <<e>>
      BY <3>2, SetToSeqOne
    <3>4. handled \o <<e>> = Append(handled, e)
      BY <1>1
    <3> QED
      BY <1>1, <3>2, <3>3, <3>4
  <2> QED
    BY <2>1, <2>2
<1>4. In(handled') = In(handled) \cup current /\ handled' \in Seq(Events)
  <2>1. CASE current = {} /\ handled' = handled
    BY <1>1, <2>1
  <2>2. ASSUME NEW e \in Events, current = {e}, handled' = Append(handled, e)
        PROVE  In(handled') = In(handled) \cup current /\ handled' \in Seq(Events)
    <3>1. /\ Append(handled, e) \in Seq(Events) /\ DOMAIN Append(handled, e) = 1..Len(handled) + 1
          /\ DOMAIN handled = 1..Len(handled) /\ Len(handled) \in Nat
          /\ Append(handled, e)[Len(handled) + 1] = e
          /\ \A i \in 1..Len(handled) : Append(handled, e)[i] = handled[i]
      BY <1>1, AppendedIs
    <3>2. 1..Len(handled) + 1 = 1..Len(handled) \cup {Len(handled) + 1}
      BY <3>1
    <3> QED
      BY <2>2, <3>1, <3>2 DEF In
  <2> QED
    BY <1>3, <2>1, <2>2
<1>5. Delivered' = Delivered /\ OnWay = current \cup In(buffer) /\ OnWay' = In(buffer)
  BY <1>1, <1>2, <1>4 DEF Delivered, OnWay
<1>6. LoopType'
  BY <1>1, <1>4 DEF LoopInv, LoopType
<1>7. LogOK' /\ ReadOK'
  BY <1>1 DEF LoopInv, LogOK, ReadOK
<1>8. TasksOK'
  BY <1>1 DEF LoopInv, TasksOK, TaskOK
<1>9. PhaseOK'
  BY <1>1, <1>2 DEF LoopInv, PhaseOK
<1>10. Lost' = Lost
  BY <1>1, <1>2, <1>5 DEF Lost
<1>11. CountOK'
  BY <1>1, <1>2, <1>5, <1>10, CountStays DEF LoopInv, LoopType
<1>12. OrderOK'
  <2>1. OrderOK
    BY DEF LoopInv
  <2>2. CASE current = {} /\ handled' = handled
    BY <1>1, <1>5, <2>2, OrderStays
  <2>3. ASSUME NEW e \in Events, current = {e}, handled' = Append(handled, e)
        PROVE  OrderOK'
    <3> DEFINE m == Len(handled) + 1
    <3>1. /\ DOMAIN handled' = 1..m /\ DOMAIN handled = 1..Len(handled) /\ Len(handled) \in Nat
          /\ handled'[m] = e /\ \A i \in 1..Len(handled) : handled'[i] = handled[i]
      <4>1. /\ DOMAIN Append(handled, e) = 1..Len(handled) + 1
            /\ DOMAIN handled = 1..Len(handled) /\ Len(handled) \in Nat
            /\ Append(handled, e)[Len(handled) + 1] = e
            /\ \A i \in 1..Len(handled) : Append(handled, e)[i] = handled[i]
        BY <1>1, AppendedIs
      <4> QED
        BY <2>3, <4>1
    <3>2. \A i \in DOMAIN handled' : i = m \/ (i \in DOMAIN handled /\ handled'[i] = handled[i] /\ i < m)
      BY <3>1
    <3>3. \A x, y : Before(x, y)' <=> Before(x, y)
      BY <1>1 DEF Before
    <3>4. \A x : WasRead(x)' <=> WasRead(x)
      BY <1>1 DEF WasRead
    <3>5. e \in OnWay
      BY <1>5, <2>3
    <3>6. \A x \in OnWay' \cup In(handled') : WasRead(x)
      BY <1>4, <1>5, <2>1 DEF OrderOK
    <3>7. \A i, j \in DOMAIN handled' :
            i < j /\ BusOf[handled'[i]] = BusOf[handled'[j]] => Before(handled'[i], handled'[j])
      <4>1. SUFFICES ASSUME NEW i \in DOMAIN handled', NEW j \in DOMAIN handled', i < j,
                            BusOf[handled'[i]] = BusOf[handled'[j]]
                     PROVE  Before(handled'[i], handled'[j])
        OBVIOUS
      <4>2. i \in DOMAIN handled /\ handled'[i] = handled[i]
        BY <3>1, <3>2, <4>1
      <4>3. CASE j = m
        BY <2>1, <3>1, <3>5, <4>1, <4>2, <4>3 DEF OrderOK
      <4>4. CASE j # m
        BY <2>1, <3>2, <4>1, <4>2, <4>4 DEF OrderOK
      <4> QED
        BY <4>3, <4>4
    <3>8. \A i \in DOMAIN handled', x \in OnWay' : BusOf[handled'[i]] = BusOf[x] => Before(handled'[i], x)
      <4>1. SUFFICES ASSUME NEW i \in DOMAIN handled', NEW x \in OnWay', BusOf[handled'[i]] = BusOf[x]
                     PROVE  Before(handled'[i], x)
        OBVIOUS
      <4>2. x \in OnWay
        BY <1>5, <4>1
      <4>3. PICK j \in DOMAIN buffer : x = buffer[j]
        BY <1>5, <4>1 DEF In
      <4>4. i # m
        BY <2>3, <3>1, <4>1, <4>3 DEF LoopInv, PhaseOK
      <4> QED
        BY <2>1, <3>2, <4>1, <4>2, <4>4 DEF OrderOK
    <3> QED
      BY <3>3, <3>4, <3>6, <3>7, <3>8 DEF OrderOK
  <2> QED
    BY <1>3, <2>2, <2>3
<1> QED
  BY <1>6, <1>7, <1>8, <1>9, <1>11, <1>12 DEF LoopInv
\* A call that times out is the only new one that may have lost something.
LEMMA TimeoutKeeps == LoopInv /\ Timeout => LoopInv'
<1> SUFFICES ASSUME LoopInv, Timeout PROVE LoopInv'
  OBVIOUS
<1>1. /\ lpc \in {"await", "reap"} /\ timeouts < MaxTimeouts /\ lpc' = "call" /\ timeouts' = timeouts + 1
      /\ UNCHANGED <<log, innerCursor, calls, task, result, current, buffer, handled>>
  BY DEF Timeout, taskVars
<1>2. Busy /\ ~Busy'
  BY <1>1 DEF Busy
<1>3. calls \in Nat /\ timeouts \in Nat /\ timeouts' \in 0..MaxTimeouts
  BY <1>1, BoundsAre DEF LoopInv, LoopType
<1>4. Pending' = {}
  BY <1>2 DEF Pending
<1>5. OnWay' \subseteq OnWay /\ Delivered' = Delivered
  BY <1>1, <1>4 DEF OnWay, Delivered
<1>6. LoopType'
  BY <1>1, <1>3 DEF LoopInv, LoopType
<1>7. LogOK' /\ ReadOK'
  BY <1>1 DEF LoopInv, LogOK, ReadOK
<1>8. TasksOK'
  BY <1>1 DEF LoopInv, TasksOK, TaskOK
<1>9. PhaseOK'
  BY <1>1, <1>2 DEF LoopInv, PhaseOK
<1>10. OrderOK'
  BY <1>1, <1>5, OrderStays
<1>11. Lost' \subseteq Lost \cup {calls}
  <2>1. SUFFICES ASSUME NEW c \in Lost', c # calls PROVE c \in Lost
    OBVIOUS
  <2>2. c \in 1..calls /\ c < calls
    BY <1>1, <1>3, <2>1 DEF Lost
  <2> QED
    BY <1>1, <1>5, <2>1, <2>2 DEF Lost
<1>12. CountOK'
  <2>1. /\ IsFiniteSet(Lost) /\ Cardinality(Lost) \in Nat /\ Cardinality(Delivered) \in Nat
    BY CountsAre DEF LoopInv
  <2>2. Cardinality(Lost) <= timeouts /\ calls <= MaxCalls
    BY DEF LoopInv, CountOK
  <2>3. IsFiniteSet(Lost \cup {calls}) /\ Cardinality(Lost \cup {calls}) <= Cardinality(Lost) + 1
        /\ Cardinality(Lost \cup {calls}) \in Nat
    <3>1. /\ IsFiniteSet(Lost \cup {calls})
          /\ Cardinality(Lost \cup {calls}) = IF calls \in Lost THEN Cardinality(Lost) ELSE Cardinality(Lost) + 1
      BY <2>1, FS_AddElement
    <3> QED
      BY <2>1, <3>1
  <2>4. Cardinality(Lost') <= Cardinality(Lost \cup {calls}) /\ Cardinality(Lost') \in Nat
    BY <1>11, <2>3, FS_Subset, FS_CardinalityType
  <2>5. Cardinality(Lost') <= timeouts'
    BY <1>1, <1>3, <2>1, <2>2, <2>3, <2>4
  <2>6. calls <= timeouts + Cardinality(Delivered) + 1
    BY <1>2, <1>3, <2>1 DEF LoopInv, CountOK
  <2>7. calls <= timeouts' + Cardinality(Delivered)
    BY <1>1, <1>3, <2>1, <2>6
  <2>8. calls' <= timeouts' + Cardinality(Delivered') + (IF Busy' THEN 1 ELSE 0)
    BY <1>1, <1>2, <1>3, <1>5, <2>1, <2>7
  <2> QED
    BY <1>1, <2>2, <2>5, <2>8 DEF CountOK
<1> QED
  BY <1>6, <1>7, <1>8, <1>9, <1>10, <1>12 DEF LoopInv

\* A task that finds no event waits.
LEMMA TaskWaits ==
  ASSUME LoopInv, NEW t \in CallIds \X Buses, task[t] = "scheduled", task' = [task EXCEPT ![t] = "waiting"],
         UNCHANGED <<log, innerCursor, calls, result, lpc, current, buffer, handled, timeouts>>
  PROVE  LoopInv'
<1>1. UNCHANGED <<log, innerCursor, calls, result, lpc, current, buffer, handled, timeouts>>
  OBVIOUS
<1>2. /\ task \in [CallIds \X Buses -> {"none", "scheduled", "waiting", "done", "cancelled"}]
      /\ task' \in [CallIds \X Buses -> {"none", "scheduled", "waiting", "done", "cancelled"}]
  BY DEF LoopInv, LoopType
<1>3. task'[t] = "waiting" /\ \A u \in CallIds \X Buses : u # t => task'[u] = task[u]
  BY <1>2
<1>4. OnWay' = OnWay /\ Delivered' = Delivered /\ (Busy' <=> Busy)
  BY <1>1 DEF OnWay, Delivered, Pending, Busy, Mine
<1>5. LoopType'
  BY <1>1, <1>2 DEF LoopInv, LoopType
<1>6. LogOK' /\ ReadOK'
  BY <1>1 DEF LoopInv, LogOK, ReadOK
<1>7. \A u \in CallIds \X Buses : TaskOK(u)
  BY DEF LoopInv, TasksOK
<1>8. TasksOK'
  <2>1. SUFFICES ASSUME NEW u \in CallIds \X Buses PROVE TaskOK(u)'
    BY DEF TasksOK
  <2>2. CASE u = t
    <3>1. ~(t[1] > calls) /\ result[t] = {} /\ ~(lpc = "reap" /\ t[1] = calls)
      BY <1>7 DEF TaskOK
    <3> QED
      BY <1>1, <1>3, <2>2, <3>1 DEF TaskOK
  <2>3. CASE u # t
    BY <1>1, <1>3, <1>7, <2>3 DEF TaskOK
  <2> QED
    BY <2>2, <2>3
<1>9. PhaseOK'
  BY <1>1, <1>4 DEF LoopInv, PhaseOK
<1>10. OrderOK'
  BY <1>1, <1>4, OrderStays
<1>11. Lost' \subseteq Lost
  <2>1. SUFFICES ASSUME NEW c \in Lost' PROVE c \in Lost
    OBVIOUS
  <2>2. c \in 1..calls /\ (c < calls \/ ~Busy) /\ c \in 1..MaxCalls
    <3>1. calls <= MaxCalls /\ calls \in Nat /\ MaxCalls \in Nat
      BY BoundsAre DEF LoopInv, CountOK, LoopType
    <3> QED
      BY <1>1, <1>4, <2>1, <3>1 DEF Lost
  <2>3. PICK b \in Buses : \/ task'[<<c, b>>] \in {"scheduled", "waiting"}
                           \/ ~(result[<<c, b>>] \subseteq Delivered)
    BY <1>1, <1>4, <2>1 DEF Lost
  <2>4. <<c, b>> \in CallIds \X Buses
    BY <2>2, TasksAre
  <2>5. task'[<<c, b>>] \in {"scheduled", "waiting"} => task[<<c, b>>] \in {"scheduled", "waiting"}
    BY <1>3, <2>4
  <2> QED
    BY <2>2, <2>3, <2>5 DEF Lost
<1>12. CountOK'
  BY <1>1, <1>4, <1>11, CountStays DEF LoopInv, LoopType
<1> QED
  BY <1>5, <1>6, <1>8, <1>9, <1>10, <1>12 DEF LoopInv

\* A task takes the next event of its bus, which is behind all that were taken.
LEMMA TaskTakes ==
  ASSUME LoopInv, NEW t \in CallIds \X Buses, task[t] = "scheduled",
         NEW b, b = t[2], NEW k, k = innerCursor[b] + 1, NEW e, e = log[b][k],
         innerCursor[b] < Len(log[b]),
         task' = [task EXCEPT ![t] = "done"], result' = [result EXCEPT ![t] = {e}],
         innerCursor' = [innerCursor EXCEPT ![b] = @ + 1],
         UNCHANGED <<log, calls, lpc, current, buffer, handled, timeouts>>
  PROVE  LoopInv'
<1>1. UNCHANGED <<log, calls, lpc, current, buffer, handled, timeouts>>
  OBVIOUS
<1>2. /\ task \in [CallIds \X Buses -> {"none", "scheduled", "waiting", "done", "cancelled"}]
      /\ result \in [CallIds \X Buses -> SUBSET Events] /\ innerCursor \in [Buses -> Nat]
      /\ log \in [Buses -> Seq(Events)] /\ calls \in Nat
  BY DEF LoopInv, LoopType
<1>3. b \in Buses /\ t[1] \in Nat /\ t = <<t[1], b>>
  BY TasksAre
<1>4. innerCursor[b] \in Nat /\ innerCursor[b] < Len(log[b]) /\ log[b] \in Seq(Events)
  BY <1>2, <1>3
<1>5. k \in Nat /\ k \in DOMAIN log[b] /\ e \in Events /\ BusOf[e] = b /\ k > innerCursor[b] /\ k <= Len(log[b])
  <2>1. k \in Nat /\ k \in DOMAIN log[b] /\ k > innerCursor[b] /\ k <= Len(log[b])
    BY <1>4
  <2>2. e \in Events
    BY <1>4, <2>1
  <2>3. BusOf[e] = b
    BY <1>3, <2>1 DEF LoopInv, LogOK
  <2> QED
    BY <2>1, <2>2, <2>3
<1>6. /\ task'[t] = "done" /\ result'[t] = {e} /\ innerCursor'[b] = k
      /\ \A u \in CallIds \X Buses : u # t => task'[u] = task[u] /\ result'[u] = result[u]
      /\ \A d \in Buses : d # b => innerCursor'[d] = innerCursor[d]
      /\ task' \in [CallIds \X Buses -> {"none", "scheduled", "waiting", "done", "cancelled"}]
      /\ result' \in [CallIds \X Buses -> SUBSET Events] /\ innerCursor' \in [Buses -> Nat]
  BY <1>2, <1>3, <1>5
<1>7. /\ \A d \in Buses : innerCursor[d] \in Nat /\ innerCursor'[d] \in Nat /\ innerCursor[d] <= innerCursor'[d]
      /\ innerCursor[b] = k - 1
  BY <1>2, <1>3, <1>5, <1>6
<1>8. \A u \in CallIds \X Buses : TaskOK(u)
  BY DEF LoopInv, TasksOK
<1>9. result[t] = {} /\ ~(t[1] > calls) /\ t[1] \in 1..calls
  <2>1. result[t] = {} /\ ~(t[1] > calls)
    BY <1>8 DEF TaskOK
  <2>2. t[1] # 0 /\ t[1] >= 0
    BY TasksAre, BoundsAre
  <2> QED
    BY <1>2, <1>3, <2>1, <2>2
<1>10. LoopType'
  BY <1>1, <1>6 DEF LoopInv, LoopType
<1>11. LogOK'
  <2>1. SUFFICES ASSUME NEW d \in Buses
                 PROVE  /\ innerCursor'[d] <= Len(log[d]) /\ Once(log[d])
                        /\ \A i \in DOMAIN log[d] : BusOf[log[d][i]] = d
    BY <1>1 DEF LogOK
  <2>2. /\ innerCursor[d] <= Len(log[d]) /\ Once(log[d]) /\ \A i \in DOMAIN log[d] : BusOf[log[d][i]] = d
    BY DEF LoopInv, LogOK
  <2> QED
    BY <1>5, <1>6, <2>2
<1>12. TasksOK'
  <2>1. SUFFICES ASSUME NEW u \in CallIds \X Buses PROVE TaskOK(u)'
    BY DEF TasksOK
  <2>2. CASE u = t
    <3>1. k \in 1..innerCursor'[t[2]] /\ result'[t] = {log'[t[2]][k]}
      BY <1>1, <1>5, <1>6, <1>7
    <3>2. ~(t[1] > calls')
      BY <1>1, <1>9
    <3> QED
      BY <1>6, <2>2, <3>1, <3>2 DEF TaskOK
  <2>3. CASE u # t
    <3>1. u[2] \in Buses
      BY TasksAre
    <3>2. 1..innerCursor[u[2]] \subseteq 1..innerCursor'[u[2]]
      BY <1>7, <3>1
    <3>3. task'[u] = task[u] /\ result'[u] = result[u]
      BY <1>6, <2>3
    <3> QED
      BY <1>1, <1>8, <3>2, <3>3 DEF TaskOK
  <2> QED
    BY <2>2, <2>3
<1>13. ReadOK'
  <2>1. SUFFICES ASSUME NEW d \in Buses, NEW p \in 1..innerCursor'[d]
                 PROVE  \E c \in 1..calls : result'[<<c, d>>] = {log[d][p]}
    BY <1>1 DEF ReadOK
  <2>2. CASE d = b /\ p = k
    BY <1>3, <1>6, <1>9, <2>2
  <2>3. CASE ~(d = b /\ p = k)
    <3>1. p \in 1..innerCursor[d]
      BY <1>5, <1>6, <1>7, <2>3
    <3>2. PICK c \in 1..calls : result[<<c, d>>] = {log[d][p]}
      BY <3>1 DEF LoopInv, ReadOK
    <3>3. c \in 1..MaxCalls
      <4>1. calls <= MaxCalls
        BY DEF LoopInv, CountOK
      <4> QED
        BY <1>2, <4>1, BoundsAre
    <3>4. <<c, d>> \in CallIds \X Buses /\ <<c, d>> # t
      BY <1>9, <3>2, <3>3, TasksAre
    <3> QED
      BY <1>6, <3>2, <3>4
  <2> QED
    BY <2>2, <2>3
<1>14. (Busy' <=> Busy) /\ Delivered' = Delivered /\ Mine' = Mine
  BY <1>1 DEF Busy, Delivered, Mine
<1>15. OnWay' \subseteq OnWay \cup {e}
  <2>1. Pending' \subseteq Pending \cup {e}
    <3>1. SUFFICES ASSUME NEW x \in Pending', x # e PROVE x \in Pending
      OBVIOUS
    <3>2. Busy /\ \E u \in Mine : x \in result'[u]
      BY <1>14, <3>1 DEF Pending
    <3>3. PICK u \in Mine : x \in result'[u]
      BY <3>2
    <3>4. u \in CallIds \X Buses
      BY <3>2, MineIs
    <3>5. u # t
      BY <1>6, <3>1, <3>3
    <3>6. x \in result[u]
      BY <1>6, <3>3, <3>4, <3>5
    <3> QED
      BY <3>2, <3>6 DEF Pending
  <2> QED
    BY <1>1, <2>1 DEF OnWay
<1>16. PhaseOK'
  BY <1>1, <1>14 DEF LoopInv, PhaseOK
<1>17. OrderOK'
  <2>1. OrderOK
    BY DEF LoopInv
  <2>2. \A x, y : Before(x, y)' <=> Before(x, y)
    BY <1>1 DEF Before
  <2>3. \A x \in OnWay \cup In(handled) : x \in Events
    <3>1. \A x \in Pending : x \in Events
      <4>1. SUFFICES ASSUME NEW x \in Pending PROVE x \in Events
        OBVIOUS
      <4>2. Busy /\ \E u \in Mine : x \in result[u]
        BY <4>1 DEF Pending
      <4> QED
        BY <1>2, <4>2, MineIs
    <3> QED
      BY <3>1 DEF OnWay, In, LoopInv, LoopType
  <2>4. \A x \in Events : WasRead(x) => WasRead(x)'
    <3>1. SUFFICES ASSUME NEW x \in Events, WasRead(x) PROVE WasRead(x)'
      OBVIOUS
    <3>2. BusOf[x] \in Buses
      BY BoundsAre
    <3>3. PICK p \in 1..innerCursor[BusOf[x]] : log[BusOf[x]][p] = x
      BY <3>1 DEF WasRead
    <3>4. p \in 1..innerCursor'[BusOf[x]]
      BY <1>7, <3>2
    <3> QED
      BY <1>1, <3>3, <3>4 DEF WasRead
  <2>5. WasRead(e)'
    <3>1. k \in 1..innerCursor'[BusOf[e]] /\ log'[BusOf[e]][k] = e
      BY <1>1, <1>5, <1>6, <1>7
    <3> QED
      BY <3>1 DEF WasRead
  <2>6. ASSUME NEW i \in DOMAIN handled, BusOf[handled[i]] = BusOf[e] PROVE Before(handled[i], e)
    <3>1. WasRead(handled[i])
      BY <2>1 DEF OrderOK, In
    <3>2. PICK p \in 1..innerCursor[b] : log[b][p] = handled[i]
      BY <1>5, <2>6, <3>1 DEF WasRead
    <3>3. p \in DOMAIN log[b] /\ p < k
      BY <1>4, <1>5, <1>7
    <3> QED
      BY <1>5, <2>6, <3>2, <3>3 DEF Before
  <2>7. handled' = handled
    BY <1>1
  <2>8. \A x \in OnWay' \cup In(handled') : WasRead(x)'
    BY <1>15, <2>1, <2>3, <2>4, <2>5, <2>7 DEF OrderOK
  <2>9. \A i \in DOMAIN handled, x \in OnWay' : BusOf[handled[i]] = BusOf[x] => Before(handled[i], x)
    BY <1>15, <2>1, <2>6 DEF OrderOK
  <2> QED
    BY <2>1, <2>2, <2>7, <2>8, <2>9 DEF OrderOK
<1>18. Lost' \subseteq Lost
  <2>1. SUFFICES ASSUME NEW c \in Lost' PROVE c \in Lost
    OBVIOUS
  <2>2. c \in 1..calls /\ (c < calls \/ ~Busy) /\ c \in 1..MaxCalls
    <3>1. calls <= MaxCalls /\ calls \in Nat /\ MaxCalls \in Nat
      BY BoundsAre DEF LoopInv, CountOK, LoopType
    <3> QED
      BY <1>1, <1>14, <2>1, <3>1 DEF Lost
  <2>3. PICK d \in Buses : \/ task'[<<c, d>>] \in {"scheduled", "waiting"}
                           \/ ~(result'[<<c, d>>] \subseteq Delivered)
    BY <1>1, <1>14, <2>1 DEF Lost
  <2>4. <<c, d>> \in CallIds \X Buses
    BY <2>2, TasksAre
  <2>5. \/ task[<<c, d>>] \in {"scheduled", "waiting"} \/ ~(result[<<c, d>>] \subseteq Delivered)
    <3>1. CASE <<c, d>> = t
      BY <3>1
    <3>2. CASE <<c, d>> # t
      BY <1>6, <2>3, <2>4, <3>2
    <3> QED
      BY <3>1, <3>2
  <2> QED
    BY <2>2, <2>5 DEF Lost
<1>19. CountOK'
  BY <1>1, <1>14, <1>18, CountStays DEF LoopInv, LoopType
<1> QED
  BY <1>10, <1>11, <1>12, <1>13, <1>16, <1>17, <1>19 DEF LoopInv
-----------------------------------------------------------------------------
LEMMA LoopInitially == LoopInit => LoopInv
<1> SUFFICES ASSUME LoopInit PROVE LoopInv
  OBVIOUS
<1>1. /\ log = [b \in Buses |-> <<>>] /\ innerCursor = [b \in Buses |-> 0]
      /\ calls = 0 /\ task = [t \in CallIds \X Buses |-> "none"]
      /\ result = [t \in CallIds \X Buses |-> {}]
      /\ lpc = "call" /\ current = {} /\ buffer = <<>> /\ handled = <<>> /\ timeouts = 0
  BY DEF LoopInit
<1>2. ~Busy
  BY <1>1 DEF Busy
<1>3. OnWay = {} /\ Delivered = {}
  BY <1>1, <1>2 DEF OnWay, Delivered, Pending, In
<1>4. Lost = {}
  BY <1>1 DEF Lost
<1>5. LoopType
  BY <1>1, BoundsAre DEF LoopType
<1>6. LogOK /\ ReadOK
  BY <1>1 DEF LogOK, ReadOK, Once
<1>7. TasksOK
  BY <1>1 DEF TasksOK, TaskOK
<1>8. PhaseOK
  BY <1>1, <1>2 DEF PhaseOK
<1>9. OrderOK
  BY <1>1, <1>3 DEF OrderOK, In
<1>10. CountOK
  BY <1>1, <1>2, <1>3, <1>4, FS_EmptySet, BoundsAre DEF CountOK
<1> QED
  BY <1>5, <1>6, <1>7, <1>8, <1>9, <1>10 DEF LoopInv

LEMMA LoopKeeps == LoopInv /\ [LoopNext]_loopVars => LoopInv'
<1> SUFFICES ASSUME LoopInv, [LoopNext]_loopVars PROVE LoopInv'
  OBVIOUS
<1>1. ASSUME NEW e \in Events, Emit(e) PROVE LoopInv'
  BY <1>1, EmitKeeps
<1>2. ASSUME NEW t \in CallIds \X Buses, TaskRun(t) PROVE LoopInv'
  <2>1. CASE innerCursor[t[2]] < Len(log[t[2]])
    <3>1. /\ task[t] = "scheduled" /\ task' = [task EXCEPT ![t] = "done"]
          /\ result' = [result EXCEPT ![t] = {log[t[2]][innerCursor[t[2]] + 1]}]
          /\ innerCursor' = [innerCursor EXCEPT ![t[2]] = @ + 1]
          /\ UNCHANGED <<log, calls, lpc, current, buffer, handled, timeouts>>
      BY <1>2, <2>1 DEF TaskRun
    <3> QED
      BY <2>1, <3>1, TaskTakes
  <2>2. CASE ~(innerCursor[t[2]] < Len(log[t[2]]))
    BY <1>2, <2>2, TaskWaits DEF TaskRun
  <2> QED
    BY <2>1, <2>2
<1>3. CASE LoopStep
  BY <1>3, NextBufferedKeeps, NextTasksKeeps, FirstCompletedKeeps, CollectKeeps, HandleKeeps DEF LoopStep
<1>4. CASE Timeout
  BY <1>4, TimeoutKeeps
<1>5. CASE UNCHANGED loopVars
  <2>1. UNCHANGED <<log, innerCursor, calls, task, result, lpc, current, buffer, handled, timeouts>>
    BY <1>5 DEF loopVars, taskVars
  <2>2. OnWay' = OnWay /\ Delivered' = Delivered /\ (Busy' <=> Busy)
    BY <2>1 DEF OnWay, Delivered, Pending, Busy, Mine
  <2>3. Lost' = Lost
    BY <2>1, <2>2 DEF Lost
  <2>4. CountOK' /\ OrderOK'
    BY <2>1, <2>2, <2>3, CountStays, OrderStays DEF LoopInv, LoopType
  <2>5. LoopType' /\ LogOK' /\ ReadOK'
    BY <2>1 DEF LoopInv, LoopType, LogOK, ReadOK
  <2>6. TasksOK'
    BY <2>1 DEF LoopInv, TasksOK, TaskOK
  <2>7. PhaseOK'
    BY <2>1, <2>2 DEF LoopInv, PhaseOK
  <2> QED
    BY <2>4, <2>5, <2>6, <2>7 DEF LoopInv
<1> QED
  BY <1>1, <1>2, <1>3, <1>4, <1>5 DEF LoopNext

\* Each event that is swallowed was taken by a task of a call that lost it.
LEMMA SwallowedBounded == ASSUME LoopInv, NEW b \in Buses PROVE Cardinality(Swallowed(b)) <= timeouts
<1> DEFINE S == Swallowed(b)
           took(e) == CHOOSE c \in Lost : result[<<c, b>>] = {e}
           f == [e \in S |-> took(e)]
<1>1. /\ log[b] \in Seq(Events) /\ innerCursor[b] \in Nat /\ innerCursor[b] <= Len(log[b])
      /\ calls \in Nat
  BY DEF LoopInv, LoopType, LogOK
<1>2. \A q : ToSet(q) = In(q)
  BY DEF ToSet, In
<1>3. Delivered \cup Pending \subseteq InHand \cup ToSet(handled)
  BY <1>2 DEF Delivered, Pending, InHand, Busy
<1>4. ASSUME NEW e \in S PROVE \E c \in Lost : result[<<c, b>>] = {e}
  <2>1. e \in ToSet(SubSeq(log[b], 1, innerCursor[b])) /\ e \notin InHand \cup ToSet(handled)
    BY <1>4 DEF Swallowed
  <2>2. \E p \in 1..innerCursor[b] : log[b][p] = e
    <3>1. PICK p \in DOMAIN SubSeq(log[b], 1, innerCursor[b]) : SubSeq(log[b], 1, innerCursor[b])[p] = e
      BY <2>1 DEF ToSet
    <3> QED
      BY <1>1, <3>1
  <2>3. PICK c \in 1..calls : result[<<c, b>>] = {e}
    BY <2>2 DEF LoopInv, ReadOK
  <2>4. ~(result[<<c, b>>] \subseteq Delivered)
    BY <1>3, <2>1, <2>3
  <2>5. c < calls \/ ~Busy
    <3>1. SUFFICES ASSUME Busy, ~(c < calls) PROVE FALSE
      OBVIOUS
    <3>2. c = calls
      BY <1>1, <3>1
    <3>3. <<c, b>> \in Mine
      BY <3>1, <3>2, MineIs
    <3>4. e \in Pending
      BY <2>3, <3>1, <3>3 DEF Pending
    <3> QED
      BY <1>3, <2>1, <3>4
  <2>6. c \in Lost
    BY <2>4, <2>5 DEF Lost
  <2> QED
    BY <2>3, <2>6
<1> HIDE DEF S
<1>5. \A e \in S : took(e) \in Lost /\ result[<<took(e), b>>] = {e}
  BY <1>4
<1> HIDE DEF took
<1>6. f \in [S -> Lost] /\ \A x, y \in S : f[x] = f[y] => x = y
  BY <1>5
<1>7. f \in Injection(S, Lost)
  BY <1>6 DEF Injection, IsInjective
<1>8. IsFiniteSet(Lost) /\ Cardinality(Lost) \in Nat /\ Cardinality(Lost) <= timeouts /\ timeouts \in Nat
  BY CountsAre, BoundsAre DEF LoopInv, CountOK, LoopType
<1>9. Cardinality(S) <= Cardinality(Lost) /\ Cardinality(S) \in Nat
  BY <1>7, <1>8, FS_Injection, FS_CardinalityType
<1> QED
  BY <1>8, <1>9 DEF S

\* The events of a bus are handled in its order.
LEMMA HandledInOrder ==
  ASSUME LoopInv, NEW b \in Buses
  PROVE  LET h == On(b, handled) IN
         \A i, j \in 1..Len(h) : i < j =>
           \E k, l \in 1..Len(log[b]) : k < l /\ log[b][k] = h[i] /\ log[b][l] = h[j]
<1> DEFINE T == {e \in Events : BusOf[e] = b}
           h == Kept(handled, T)
<1>1. handled \in Seq(Events) /\ log[b] \in Seq(Events)
  BY DEF LoopInv, LoopType
<1>2. \E e : IsPlaces(e, h, handled, T, Len(handled))
  BY <1>1, KeptAll
<1>3. PICK e : IsPlaces(e, h, handled, T, Len(handled))
  BY <1>2
<1> HIDE DEF h
<1>4. /\ \A i \in 1..Len(h) : e[i] \in DOMAIN handled /\ h[i] = handled[e[i]] /\ BusOf[h[i]] = b
      /\ \A i, j \in 1..Len(h) : i < j => e[i] < e[j]
  <2>1. DOMAIN handled = 1..Len(handled)
    BY <1>1
  <2>2. e \in [1..Len(h) -> 1..Len(handled)] /\ \A i, j \in 1..Len(h) : i < j => e[i] < e[j]
    BY <1>3 DEF IsPlaces
  <2>3. \A i \in 1..Len(h) : h[i] = handled[e[i]] /\ h[i] \in T
    BY <1>3 DEF IsPlaces
  <2> QED
    BY <2>1, <2>2, <2>3
<1>5. ASSUME NEW i \in 1..Len(h), NEW j \in 1..Len(h), i < j
      PROVE  \E k, l \in 1..Len(log[b]) : k < l /\ log[b][k] = h[i] /\ log[b][l] = h[j]
  <2>1. Before(h[i], h[j])
    <3>1. e[i] < e[j] /\ BusOf[handled[e[i]]] = BusOf[handled[e[j]]]
      BY <1>4, <1>5
    <3>2. Before(handled[e[i]], handled[e[j]])
      BY <1>4, <3>1 DEF LoopInv, OrderOK
    <3> QED
      BY <1>4, <3>2
  <2>2. DOMAIN log[b] = 1..Len(log[b]) /\ BusOf[h[i]] = b
    BY <1>1, <1>4
  <2> QED
    BY <2>1, <2>2 DEF Before
<1> QED
  BY <1>5 DEF h, On

\* Each timeout of a loop loses at most one event of each bus, nothing else is
\* lost, and what is handled comes in the order of its bus; for any events,
\* buses and timeouts.
THEOREM LossBoundTheorem == LoopSpec => []LossBound
<1>1. LoopInv => LossBound
  BY SwallowedBounded, HandledInOrder DEF LossBound
<1> QED
  BY <1>1, LoopInitially, LoopKeeps, PTL DEF LoopSpec

-----------------------------------------------------------------------------
(* Provider records                                                        *)

\* A cache c with rows s, a heap h and n records counted, after k stores: no two
\* rows come from one store, and a cached record has its entry in the heap.  The
\* count grows beyond the capacity only for an empty cache.
Shape(c, s, h, n, k) ==
  /\ DOMAIN c \subseteq DOMAIN s /\ DOMAIN s \subseteq Records /\ IsFiniteSet(DOMAIN s)
  /\ \A x \in DOMAIN c : c[x] = s[x] /\ <<c[x], x>> \in h
  /\ \A x \in DOMAIN s : s[x] \in Nat /\ s[x] <= k
  /\ \A x, y \in DOMAIN s : s[x] = s[y] => x = y
  /\ h \subseteq Nat \X Records
  /\ n \in Nat /\ Cardinality(DOMAIN c) <= n /\ (n > MaxRecords => Cardinality(DOMAIN c) <= 1)

\* The cache, its rows and its heap have this shape, and no PUT is at an unknown
\* point.
ProviderInv ==
  /\ Shape(cache, stored, heap, total, storeCalls) /\ storeCalls \in 0..MaxStores
  /\ put \in [Remote -> {"idle", "asking", "now", "before", "invalid"}]

\* x is the record of c that was stored first.
First(c, x) == x \in DOMAIN c /\ \A o \in DOMAIN c : c[x] <= c[o]

\* A cache that is not empty has such a record.
LEMMA FirstExists ==
  ASSUME NEW c, NEW s, NEW h, NEW n, NEW k \in Nat, Shape(c, s, h, n, k), DOMAIN c # {}
  PROVE  \E x : First(c, x)
<1> DEFINE N == {c[x] : x \in DOMAIN c}
<1>1. N \in SUBSET Nat /\ N # {}
  <2>1. \A x \in DOMAIN c : c[x] \in Nat  BY DEF Shape
  <2> QED BY <2>1
<1>2. PICK m \in N : \A l \in N : m <= l  BY <1>1, LeastNat
<1>3. PICK x \in DOMAIN c : c[x] = m  BY <1>2
<1> QED BY <1>2, <1>3 DEF First

\* What a store at capacity takes away is the oldest record, if there is one.
LEMMA OldestIs ==
  ASSUME NEW c, NEW s, NEW h, NEW n, NEW k \in Nat, Shape(c, s, h, n, k)
  PROVE  /\ DOMAIN c # {} => \E x : Oldest(h, c) = {x} /\ First(c, x) /\ Valid(h, c) # {}
         /\ DOMAIN c = {} => Valid(h, c) = {} /\ (Oldest(h, c) = {} \/ \E x : Oldest(h, c) = {x})
<1>1. CASE DOMAIN c # {}
  <2>1. PICK x : First(c, x)  BY <1>1, FirstExists
  <2>2. \A e \in Valid(h, c) : e[2] \in DOMAIN c /\ e[1] = c[e[2]]  BY DEF Valid
  <2>3. \A y \in DOMAIN c : <<c[y], y>> \in Valid(h, c)
    BY DEF Valid, Shape
  <2>4. <<c[x], x>> \in Valid(h, c) /\ x \in DOMAIN c  BY <2>1, <2>3 DEF First
  <2> DEFINE Least(e) == e \in Valid(h, c) /\ \A f \in Valid(h, c) : e[1] <= f[1]
             e == CHOOSE e \in Valid(h, c) : \A f \in Valid(h, c) : e[1] <= f[1]
  <2>5. Least(<<c[x], x>>)
    BY <2>1, <2>2, <2>4 DEF First
  <2>6. Least(e)  BY <2>5
  <2>7. Oldest(h, c) = {e[2]}  BY <2>4 DEF Oldest
  <2> HIDE DEF e
  <2>8. e[2] \in DOMAIN c /\ e[1] = c[e[2]]  BY <2>2, <2>6
  <2>9. \A o \in DOMAIN c : c[e[2]] <= c[o]
    <3> TAKE o \in DOMAIN c
    <3>1. <<c[o], o>> \in Valid(h, c) /\ <<c[o], o>>[1] = c[o]  BY <2>3
    <3> QED BY <2>6, <2>8, <3>1
  <2> QED BY <1>1, <2>4, <2>7, <2>8, <2>9 DEF First
<1>2. CASE DOMAIN c = {}
  BY <1>2 DEF Valid, Oldest
<1> QED BY <1>1, <1>2

\* Records that go take their rows with them.
LEMMA ShapeWithout ==
  ASSUME NEW c, NEW s, NEW h, NEW n, NEW k \in Nat, Shape(c, s, h, n, k),
         NEW gone, NEW g, g = gone \cap DOMAIN c, ProviderAssumption
  PROVE  /\ Shape(Without(c, gone), Without(s, gone), h, n - Cardinality(g), k)
         /\ Cardinality(g) \in Nat /\ IsFiniteSet(g) /\ IsFiniteSet(DOMAIN c)
         /\ Cardinality(DOMAIN Without(c, gone)) = Cardinality(DOMAIN c) - Cardinality(g)
<1> DEFINE cc == Without(c, gone)
           ss == Without(s, gone)
<1>1. IsFiniteSet(DOMAIN c) /\ IsFiniteSet(g) /\ IsFiniteSet(DOMAIN s)
  BY FS_Subset DEF Shape
<1>2. /\ Cardinality(DOMAIN c) \in Nat /\ Cardinality(g) \in Nat
      /\ Cardinality(DOMAIN c \ gone) = Cardinality(DOMAIN c) - Cardinality(g)
      /\ Cardinality(g) <= Cardinality(DOMAIN c)
  <2>1. Cardinality(DOMAIN c \ g) = Cardinality(DOMAIN c) - Cardinality(DOMAIN c \cap g)
    BY <1>1, FS_Difference
  <2>2. DOMAIN c \cap g = g /\ g \subseteq DOMAIN c /\ DOMAIN c \ g = DOMAIN c \ gone  OBVIOUS
  <2> QED BY <1>1, <2>1, <2>2, FS_CardinalityType, FS_Subset
<1>3. /\ DOMAIN cc = DOMAIN c \ gone /\ \A x \in DOMAIN cc : cc[x] = c[x]
      /\ DOMAIN ss = DOMAIN s \ gone /\ \A x \in DOMAIN ss : ss[x] = s[x]
  BY DEF Without
<1> HIDE DEF cc, ss
<1>4. IsFiniteSet(DOMAIN ss)
  <2>1. DOMAIN ss \subseteq DOMAIN s  BY <1>3
  <2> QED BY <1>1, <2>1, FS_Subset
<1>5. Shape(cc, ss, h, n - Cardinality(g), k)
  <2>1. /\ DOMAIN cc \subseteq DOMAIN ss /\ DOMAIN ss \subseteq Records
        /\ \A x \in DOMAIN cc : cc[x] = ss[x] /\ <<cc[x], x>> \in h
        /\ \A x \in DOMAIN ss : ss[x] \in Nat /\ ss[x] <= k
        /\ \A x, y \in DOMAIN ss : ss[x] = ss[y] => x = y
        /\ h \subseteq Nat \X Records
    BY <1>3 DEF Shape
  <2>2. /\ n \in Nat /\ MaxRecords \in Nat /\ Cardinality(DOMAIN c) <= n
        /\ (n > MaxRecords => Cardinality(DOMAIN c) <= 1)
    BY DEF Shape, ProviderAssumption
  <2>3. /\ n - Cardinality(g) \in Nat /\ Cardinality(DOMAIN cc) <= n - Cardinality(g)
        /\ n - Cardinality(g) > MaxRecords => Cardinality(DOMAIN cc) <= 1
    BY <1>2, <1>3, <2>2
  <2> QED BY <1>4, <2>1, <2>3 DEF Shape
<1> QED BY <1>1, <1>2, <1>3, <1>5 DEF cc, ss

\* A record is written, with the next number.
LEMMA ShapeWith ==
  ASSUME NEW c, NEW s, NEW h, NEW n, NEW k \in Nat, Shape(c, s, h, n, k), NEW r \in Records,
         NEW h2 \in SUBSET (Nat \X Records), \A y \in DOMAIN c : <<c[y], y>> \in h2, <<k + 1, r>> \in h2,
         NEW n2 \in Nat, Cardinality(DOMAIN c \cup {r}) <= n2,
         n2 > MaxRecords => Cardinality(DOMAIN c \cup {r}) <= 1
  PROVE  Shape(StoredAt(c, r, k + 1), StoredAt(s, r, k + 1), h2, n2, k + 1)
<1> DEFINE cc == StoredAt(c, r, k + 1)
           ss == StoredAt(s, r, k + 1)
<1>1. /\ DOMAIN cc = DOMAIN c \cup {r} /\ \A x \in DOMAIN cc : cc[x] = IF x = r THEN k + 1 ELSE c[x]
      /\ DOMAIN ss = DOMAIN s \cup {r} /\ \A x \in DOMAIN ss : ss[x] = IF x = r THEN k + 1 ELSE s[x]
  BY DEF StoredAt
<1> HIDE DEF cc, ss
<1>2. IsFiniteSet(DOMAIN ss)
  <2>1. IsFiniteSet(DOMAIN s)  BY DEF Shape
  <2>2. IsFiniteSet(DOMAIN s \cup {r})  BY <2>1, FS_AddElement
  <2> QED BY <1>1, <2>2
<1>3. DOMAIN cc \subseteq DOMAIN ss /\ DOMAIN ss \subseteq Records
  BY <1>1 DEF Shape
<1>4. \A x \in DOMAIN cc : cc[x] = ss[x] /\ <<cc[x], x>> \in h2
  BY <1>1 DEF Shape
<1>5. \A x \in DOMAIN ss : ss[x] \in Nat /\ ss[x] <= k + 1
  BY <1>1 DEF Shape
<1>6. ASSUME NEW x \in DOMAIN ss, NEW y \in DOMAIN ss, ss[x] = ss[y] PROVE x = y
  <2>1. \A z \in DOMAIN s : s[z] \in Nat /\ s[z] <= k  BY DEF Shape
  <2>2. CASE x = r \/ y = r
    BY <1>1, <1>6, <2>1, <2>2
  <2>3. CASE x # r /\ y # r
    <3>1. x \in DOMAIN s /\ y \in DOMAIN s /\ s[x] = s[y]  BY <1>1, <1>6, <2>3
    <3> QED BY <3>1 DEF Shape
  <2> QED BY <2>2, <2>3
<1>7. /\ h2 \subseteq Nat \X Records /\ n2 \in Nat /\ Cardinality(DOMAIN cc) <= n2
      /\ n2 > MaxRecords => Cardinality(DOMAIN cc) <= 1
  BY <1>1
<1>8. Shape(cc, ss, h2, n2, k + 1)
  BY <1>2, <1>3, <1>4, <1>5, <1>6, <1>7 DEF Shape
<1> QED BY <1>8 DEF cc, ss

\* store() takes away no record but the one that is the oldest of what it is
\* called on, and that only at capacity.
LEMMA StoreStep ==
  ASSUME NEW c, NEW s, NEW n, storeCalls \in Nat, Shape(c, s, heap, n, storeCalls),
         NEW r \in Records, Store(r, c, s, n), ProviderAssumption
  PROVE  /\ Shape(cache', stored', heap', total', storeCalls') /\ storeCalls' \in 0..MaxStores
         /\ \A x \in DOMAIN c \ DOMAIN cache' : First(c, x) /\ n >= MaxRecords
<1> DEFINE k      == storeCalls
           gone   == IF r \notin DOMAIN c /\ n >= MaxRecords THEN Oldest(heap, c) ELSE {}
           g      == gone \cap DOMAIN c
           raises == \E x \in gone : OfKey(c, r[1]) = {x}
           popped == {e \in heap : gone # {} /\ \A x \in gone : e[1] <= c[x]}
           popAll == r \notin DOMAIN c /\ n >= MaxRecords /\ Valid(heap, c) = {}
           left   == IF popAll THEN {} ELSE heap \ popped
           cc     == Without(c, gone)
           ss     == Without(s, gone)
<1>1. /\ n \in Nat /\ MaxRecords \in Nat \ {0} /\ Cardinality(DOMAIN c) <= n
      /\ n > MaxRecords => Cardinality(DOMAIN c) <= 1
  BY DEF Shape, ProviderAssumption
<1>2. /\ storeCalls' = k + 1 /\ storeCalls' \in 0..MaxStores
      /\ cache' = IF raises THEN cc ELSE StoredAt(cc, r, k + 1)
      /\ stored' = IF raises THEN ss ELSE StoredAt(ss, r, k + 1)
      /\ heap' = left \cup (IF raises THEN {} ELSE {<<k + 1, r>>})
      /\ total' = n + (IF r \notin DOMAIN c THEN 1 ELSE 0) - Cardinality(gone)
  <2>1. MaxStores \in Nat  BY DEF ProviderAssumption
  <2> QED BY <2>1 DEF Store
<1>3. /\ gone # {} => r \notin DOMAIN c /\ n >= MaxRecords
      /\ r \notin DOMAIN c /\ n >= MaxRecords /\ DOMAIN c # {} => gone # {}
      /\ DOMAIN c # {} /\ gone # {} => \E x : gone = {x} /\ First(c, x)
      /\ DOMAIN c # {} => ~popAll
      /\ gone = {} \/ \E x : gone = {x}
  BY OldestIs
<1>4. /\ Shape(cc, ss, heap, n - Cardinality(g), k) /\ Cardinality(g) \in Nat
      /\ IsFiniteSet(DOMAIN c) /\ Cardinality(DOMAIN cc) = Cardinality(DOMAIN c) - Cardinality(g)
  BY ShapeWithout
<1>5. DOMAIN cc = DOMAIN c \ gone /\ \A y \in DOMAIN cc : cc[y] = c[y]
  BY DEF Without
<1>6. \A x \in g : First(c, x) /\ n >= MaxRecords
  BY <1>3
<1>7. \A x \in DOMAIN c : c[x] \in Nat /\ <<c[x], x>> \in heap /\ x \in Records
  BY DEF Shape
<1>8. \A x, y \in DOMAIN c : c[x] = c[y] => x = y
  BY DEF Shape
<1>9. heap \subseteq Nat \X Records  BY DEF Shape
<1>10. \A y \in DOMAIN cc : <<cc[y], y>> \in left
  <2>1. SUFFICES ASSUME NEW y \in DOMAIN cc PROVE <<cc[y], y>> \in left
    OBVIOUS
  <2>2. y \in DOMAIN c /\ y \notin gone /\ cc[y] = c[y] /\ <<c[y], y>> \in heap /\ ~popAll
    BY <1>3, <1>5, <1>7
  <2>3. <<c[y], y>> \notin popped
    <3>1. SUFFICES ASSUME <<c[y], y>> \in popped PROVE FALSE  OBVIOUS
    <3>2. PICK x : gone = {x} /\ First(c, x)  BY <1>3, <2>2, <3>1
    <3>3. c[y] <= c[x] /\ c[x] <= c[y] /\ x \in DOMAIN c  BY <2>2, <3>1, <3>2 DEF First
    <3>4. c[x] \in Nat /\ c[y] \in Nat  BY <1>7, <2>2, <3>3
    <3>5. c[x] = c[y]  BY <3>3, <3>4
    <3>6. x = y  BY <1>8, <2>2, <3>3, <3>5
    <3> QED BY <2>2, <3>2, <3>6
  <2> QED BY <2>2, <2>3
<1>11. Cardinality(gone) = (IF gone = {} THEN 0 ELSE 1) /\ Cardinality(g) = (IF g = {} THEN 0 ELSE 1)
  <2>1. g = {} \/ \E x : g = {x}  BY <1>3
  <2> QED BY <1>3, <2>1, FS_EmptySet, FS_Singleton
<1>12. /\ g = {} => Cardinality(DOMAIN cc) = Cardinality(DOMAIN c)
       /\ DOMAIN c # {} => g = gone /\ Cardinality(DOMAIN c) \in Nat
       /\ DOMAIN c = {} => g = {} /\ Cardinality(DOMAIN c) = 0 /\ Cardinality(DOMAIN cc) = 0
  <2>1. DOMAIN c # {} => g = gone  BY <1>3 DEF First
  <2> QED BY <1>4, <1>11, <2>1, FS_EmptySet, FS_CardinalityType
<1> DEFINE new == DOMAIN cc \cup {r}
<1>13. /\ IsFiniteSet(DOMAIN cc) /\ Cardinality(DOMAIN cc) \in Nat
       /\ Cardinality(new) = Cardinality(DOMAIN cc) + (IF r \in DOMAIN cc THEN 0 ELSE 1)
  <2>1. IsFiniteSet(DOMAIN cc)
    <3>1. DOMAIN cc \subseteq DOMAIN c  BY <1>5
    <3> QED BY <1>4, <3>1, FS_Subset
  <2>2. Cardinality(DOMAIN cc \cup {r}) =
          IF r \in DOMAIN cc THEN Cardinality(DOMAIN cc) ELSE Cardinality(DOMAIN cc) + 1
    BY <2>1, FS_AddElement
  <2> QED BY <2>1, <2>2, FS_CardinalityType
<1>14. raises => gone # {} /\ g = gone /\ DOMAIN c # {}
  <2>1. \A x : OfKey(c, r[1]) = {x} => x \in DOMAIN c  BY DEF OfKey
  <2> QED BY <1>12, <2>1
<1>15. left \subseteq heap /\ DOMAIN cc \subseteq new /\ r \in new  OBVIOUS
<1>16. r \in DOMAIN cc <=> r \in DOMAIN c  BY <1>3, <1>5
<1> HIDE DEF k, gone, g, raises, popped, popAll, left, cc, ss, new
<1>17. /\ total' \in Nat
       /\ ~raises => Cardinality(new) <= total' /\ (total' > MaxRecords => Cardinality(new) <= 1)
       /\ raises => total' = n
  <2>1. CASE gone = {}
    <3>1. g = {}  BY <2>1 DEF g
    <3>2. r \in DOMAIN c \/ n < MaxRecords \/ DOMAIN c = {}
      <4>1. n < MaxRecords \/ n >= MaxRecords  BY <1>1
      <4> QED BY <1>3, <2>1, <4>1
    <3> QED BY <1>1, <1>2, <1>11, <1>12, <1>13, <1>14, <1>16, <2>1, <3>1, <3>2
  <2>2. CASE gone # {}
    <3>1. r \notin DOMAIN c /\ n >= MaxRecords  BY <1>3, <2>2
    <3>2. CASE DOMAIN c = {}
      BY <1>1, <1>2, <1>11, <1>12, <1>13, <1>14, <1>16, <2>2, <3>1, <3>2
    <3>3. CASE DOMAIN c # {}
      <4>1. g = gone /\ Cardinality(gone) = 1 /\ Cardinality(g) = 1 /\ Cardinality(DOMAIN c) \in Nat
        BY <1>11, <1>12, <2>2, <3>3
      <4>2. total' = n /\ Cardinality(DOMAIN cc) = Cardinality(DOMAIN c) - 1
        BY <1>1, <1>2, <1>4, <3>1, <4>1
      <4>3. Cardinality(new) = Cardinality(DOMAIN c)
        BY <1>13, <1>16, <3>1, <4>1, <4>2
      <4> QED BY <1>1, <4>2, <4>3
    <3> QED BY <3>2, <3>3
  <2> QED BY <2>1, <2>2
<1>18. k \in Nat  BY DEF k
<1>19. CASE raises
  <2>1. cache' = cc /\ stored' = ss /\ heap' = left /\ total' = n /\ storeCalls' = k + 1
    BY <1>2, <1>17, <1>19
  <2>2. \A x \in DOMAIN ss : ss[x] \in Nat /\ ss[x] <= k + 1
    BY <1>4, <1>18 DEF Shape
  <2>3. Cardinality(DOMAIN cc) <= n /\ (n > MaxRecords => Cardinality(DOMAIN cc) <= 1)
    <3>1. g = gone /\ Cardinality(g) = 1 /\ Cardinality(DOMAIN c) \in Nat
      BY <1>11, <1>12, <1>14, <1>19
    <3>2. Cardinality(DOMAIN cc) = Cardinality(DOMAIN c) - 1
      BY <1>4, <3>1
    <3> QED BY <1>1, <3>1, <3>2
  <2>4. Shape(cc, ss, left, n, k + 1)
    BY <1>1, <1>4, <1>9, <1>10, <1>15, <2>2, <2>3 DEF Shape
  <2>5. \A x \in DOMAIN c \ DOMAIN cc : x \in g
    BY <1>5 DEF g
  <2> QED BY <1>2, <1>6, <2>1, <2>4, <2>5
<1>20. CASE ~raises
  <2>1. /\ cache' = StoredAt(cc, r, k + 1) /\ stored' = StoredAt(ss, r, k + 1)
        /\ heap' = left \cup {<<k + 1, r>>} /\ storeCalls' = k + 1
    BY <1>2, <1>20
  <2>2. heap' \in SUBSET (Nat \X Records)
    BY <1>9, <1>15, <1>18, <2>1
  <2>3. (\A y \in DOMAIN cc : <<cc[y], y>> \in heap') /\ <<k + 1, r>> \in heap'
    BY <1>10, <2>1
  <2>4. Cardinality(DOMAIN cc \cup {r}) <= total' /\ (total' > MaxRecords => Cardinality(DOMAIN cc \cup {r}) <= 1)
    BY <1>17, <1>20 DEF new
  <2> DEFINE h2 == heap'
             n2 == total'
  <2>5. h2 \in SUBSET (Nat \X Records) /\ (\A y \in DOMAIN cc : <<cc[y], y>> \in h2) /\ <<k + 1, r>> \in h2
    BY <2>2, <2>3
  <2>6. n2 \in Nat /\ Cardinality(DOMAIN cc \cup {r}) <= n2 /\ (n2 > MaxRecords => Cardinality(DOMAIN cc \cup {r}) <= 1)
    BY <1>17, <2>4
  <2> HIDE DEF h2, n2
  <2>7. Shape(StoredAt(cc, r, k + 1), StoredAt(ss, r, k + 1), h2, n2, k + 1)
    BY <1>4, <1>18, <2>5, <2>6, ShapeWith
  <2>8. \A x \in DOMAIN c \ DOMAIN cache' : x \in g
    BY <1>5, <2>1 DEF StoredAt, g
  <2> QED BY <1>2, <1>6, <2>1, <2>7, <2>8 DEF h2, n2
<1> QED BY <1>19, <1>20

\* Nothing is cached at first.
LEMMA ProviderInitInv == ASSUME ProviderAssumption PROVE ProviderInit => ProviderInv
<1> SUFFICES ASSUME ProviderInit PROVE ProviderInv  OBVIOUS
<1>1. /\ DOMAIN cache = {} /\ DOMAIN stored = {} /\ heap = {} /\ total = 0 /\ storeCalls = 0
      /\ put \in [Remote -> {"idle", "asking", "now", "before", "invalid"}]
  BY DEF ProviderInit
<1>2. IsFiniteSet({}) /\ Cardinality({}) = 0  BY FS_EmptySet
<1>3. MaxRecords \in Nat /\ MaxStores \in Nat  BY DEF ProviderAssumption
<1>4. Shape(cache, stored, heap, total, storeCalls)
  BY <1>1, <1>2, <1>3 DEF Shape
<1> QED BY <1>1, <1>3, <1>4 DEF ProviderInv

\* A store that may take the oldest, or the oldest of its full key.
MayGo ==
  \A r \in DOMAIN cache \ DOMAIN cache' :
     \/ \A o \in DOMAIN cache : cache[r] <= cache[o]
     \/ /\ Cardinality(OfKey(cache, r[1])) >= PerKey
        /\ \A o \in OfKey(cache, r[1]) : cache[r] <= cache[o]

\* A record heard of is stored.
LEMMA LearnStep ==
  ASSUME ProviderInv, ProviderAssumption, NEW r \in Records, Learn(r) PROVE ProviderInv' /\ MayGo
<1>1. storeCalls \in Nat /\ Shape(cache, stored, heap, total, storeCalls)
  BY DEF ProviderInv
<1>2. Store(r, cache, stored, total) /\ put' = put  BY DEF Learn
<1>3. /\ Shape(cache', stored', heap', total', storeCalls') /\ storeCalls' \in 0..MaxStores
      /\ \A x \in DOMAIN cache \ DOMAIN cache' : First(cache, x)
  BY <1>1, <1>2, StoreStep
<1> QED BY <1>2, <1>3 DEF ProviderInv, MayGo, First

\* A PUT makes room under its key, then stores.
LEMMA PutStep ==
  ASSUME ProviderInv, ProviderAssumption, NEW r \in Remote, PutArrives(r) PROVE ProviderInv' /\ MayGo
<1> DEFINE key  == OfKey(cache, r[1])
           over == IF r \notin key /\ Cardinality(key) >= PerKey
                   THEN {CHOOSE o \in key : \A x \in key : cache[o] <= cache[x]} ELSE {}
           n    == total - Cardinality(over)
           c    == Without(cache, over)
           s    == Without(stored, over)
<1>1. storeCalls \in Nat /\ Shape(cache, stored, heap, total, storeCalls)
  BY DEF ProviderInv
<1>2. put' \in [Remote -> {"idle", "asking", "now", "before", "invalid"}]
  BY DEF PutArrives, ProviderInv
<1>3. CASE UNCHANGED <<cache, stored, outdated, heap, total, storeCalls>>
  BY <1>2, <1>3 DEF ProviderInv, MayGo
<1>4. CASE Store(r, c, s, n)
  <2>1. over = {} \/ \E x : over = {x} /\ x \in key /\ Cardinality(key) >= PerKey
                                /\ \A y \in key : cache[x] <= cache[y]
    <3>1. SUFFICES ASSUME over # {} PROVE \E x : over = {x} /\ x \in key /\ Cardinality(key) >= PerKey
                                                   /\ \A y \in key : cache[x] <= cache[y]
      OBVIOUS
    <3>2. key # {} /\ Cardinality(key) >= PerKey
      <4>1. Cardinality(key) >= PerKey /\ PerKey \in Nat \ {0}  BY <3>1 DEF ProviderAssumption
      <4> QED BY <4>1, FS_EmptySet
    <3> DEFINE N == {cache[y] : y \in key}
    <3>3. \A y \in key : y \in DOMAIN cache /\ cache[y] \in Nat
      BY <1>1 DEF Shape, OfKey
    <3>4. N \in SUBSET Nat /\ N # {}  BY <3>2, <3>3
    <3>5. PICK m \in N : \A l \in N : m <= l  BY <3>4, LeastNat
    <3>6. PICK y \in key : cache[y] = m  BY <3>5
    <3>7. \A x \in key : cache[y] <= cache[x]  BY <3>5, <3>6
    <3> DEFINE x == CHOOSE o \in key : \A z \in key : cache[o] <= cache[z]
    <3>8. x \in key /\ \A z \in key : cache[x] <= cache[z]  BY <3>7
    <3>9. over = {x}  BY <3>1
    <3> HIDE DEF x
    <3> QED BY <3>2, <3>8, <3>9
  <2>2. over = over \cap DOMAIN cache  BY <2>1 DEF OfKey
  <2>3. /\ Shape(c, s, heap, n, storeCalls) /\ Cardinality(over) \in Nat /\ IsFiniteSet(DOMAIN cache)
        /\ Cardinality(DOMAIN c) = Cardinality(DOMAIN cache) - Cardinality(over)
    BY <1>1, <2>2, ShapeWithout
  <2>4. DOMAIN c = DOMAIN cache \ over /\ \A x \in DOMAIN c : c[x] = cache[x]
    BY DEF Without
  <2>5. r \in Records  BY DEF ProviderAssumption, Records
  <2> HIDE DEF c, s, n, over
  <2>6. /\ Shape(cache', stored', heap', total', storeCalls') /\ storeCalls' \in 0..MaxStores
        /\ \A x \in DOMAIN c \ DOMAIN cache' : First(c, x) /\ n >= MaxRecords
    BY <1>1, <1>4, <2>3, <2>5, StoreStep
  <2>7. over # {} => DOMAIN c = {} \/ n < MaxRecords
    <3>1. SUFFICES ASSUME over # {}, n >= MaxRecords PROVE DOMAIN c = {}
      <4>1. n \in Nat /\ MaxRecords \in Nat  BY <2>3 DEF Shape, ProviderAssumption
      <4> QED BY <4>1
    <3>2. Cardinality(over) = 1  BY <2>1, <3>1, FS_Singleton
    <3>3. total \in Nat /\ MaxRecords \in Nat /\ (total > MaxRecords => Cardinality(DOMAIN cache) <= 1)
      BY <1>1 DEF Shape, ProviderAssumption
    <3>4. n = total - 1  BY <3>2 DEF n
    <3>5. Cardinality(DOMAIN cache) <= 1  BY <3>1, <3>3, <3>4
    <3>6. IsFiniteSet(DOMAIN c)
      <4>1. DOMAIN c \subseteq DOMAIN cache  BY <2>4
      <4> QED BY <2>3, <4>1, FS_Subset
    <3>7. Cardinality(DOMAIN c) \in Nat /\ Cardinality(DOMAIN cache) \in Nat  BY <2>3, <3>6, FS_CardinalityType
    <3>8. Cardinality(DOMAIN c) = 0  BY <2>3, <3>2, <3>5, <3>7
    <3> QED BY <3>6, <3>8, FS_EmptySet
  <2>8. ASSUME NEW x \in DOMAIN cache \ DOMAIN cache'
        PROVE  \/ \A o \in DOMAIN cache : cache[x] <= cache[o]
               \/ /\ Cardinality(OfKey(cache, x[1])) >= PerKey
                  /\ \A o \in OfKey(cache, x[1]) : cache[x] <= cache[o]
    <3>1. CASE x \in over
      <4>1. over = {x} /\ x \in key  BY <2>1, <3>1
      <4>2. OfKey(cache, x[1]) = key  BY <4>1 DEF OfKey
      <4> QED BY <2>1, <4>1, <4>2
    <3>2. CASE x \notin over
      <4>1. x \in DOMAIN c \ DOMAIN cache'  BY <2>4, <3>2
      <4>2. First(c, x) /\ n >= MaxRecords  BY <2>6, <4>1
      <4>3. n \in Nat /\ MaxRecords \in Nat  BY <2>3 DEF Shape, ProviderAssumption
      <4>4. over = {}  BY <2>7, <4>1, <4>2, <4>3
      <4> QED BY <2>4, <4>2, <4>4 DEF First
    <3> QED BY <3>1, <3>2
  <2>9. MayGo  BY <2>8 DEF MayGo
  <2> QED BY <1>2, <2>6, <2>9 DEF ProviderInv
<1> QED BY <1>3, <1>4 DEF PutArrives

\* A record and its row go together.
LEMMA WithdrawStep ==
  ASSUME ProviderInv, ProviderAssumption, NEW r \in Records, Withdraw(r) PROVE ProviderInv'
<1>1. storeCalls \in Nat /\ Shape(cache, stored, heap, total, storeCalls)
  BY DEF ProviderInv
<1>2. r \in DOMAIN cache /\ {r} = {r} \cap DOMAIN cache /\ Cardinality({r}) = 1
  BY FS_Singleton DEF Withdraw
<1>3. Shape(Without(cache, {r}), Without(stored, {r}), heap, total - Cardinality({r}), storeCalls)
  BY <1>1, <1>2, ShapeWithout
<1>4. /\ cache' = Without(cache, {r}) /\ stored' = Without(stored, {r}) /\ total' = total - 1
      /\ UNCHANGED <<heap, put, storeCalls>>
  BY DEF Withdraw
<1>5. Shape(cache', stored', heap', total', storeCalls')
  BY <1>2, <1>3, <1>4
<1> QED BY <1>4, <1>5 DEF ProviderInv

\* What is outdated goes with its rows; the heap may be rebuilt.
LEMMA ExpireStep ==
  ASSUME ProviderInv, ProviderAssumption, EvictExpired PROVE ProviderInv'
<1> DEFINE gone == DOMAIN cache \cap outdated
           left == Without(cache, gone)
           ks   == Without(stored, gone)
           n    == total - Cardinality(gone)
           h    == {<<left[r], r>> : r \in DOMAIN left}
<1>1. storeCalls \in Nat /\ Shape(cache, stored, heap, total, storeCalls)
  BY DEF ProviderInv
<1>2. gone = gone \cap DOMAIN cache  OBVIOUS
<1>3. Shape(left, ks, heap, n, storeCalls)
  BY <1>1, <1>2, ShapeWithout
<1>4. /\ cache' = left /\ stored' = ks /\ total' = n /\ (heap' = h \/ heap' = heap)
      /\ UNCHANGED <<put, storeCalls>>
  BY DEF EvictExpired
<1> HIDE DEF left, ks, n
<1>5. \A x \in DOMAIN left : left[x] \in Nat /\ x \in Records
  BY <1>3 DEF Shape
<1>6. h \subseteq Nat \X Records /\ \A x \in DOMAIN left : <<left[x], x>> \in h
  BY <1>5
<1> HIDE DEF h
<1>7. Shape(left, ks, h, n, storeCalls)
  BY <1>3, <1>6 DEF Shape
<1>8. Shape(cache', stored', heap', total', storeCalls')
  BY <1>3, <1>4, <1>7
<1> QED BY <1>4, <1>8 DEF ProviderInv

\* A restart reads rows, which still come from different stores.
LEMMA ReloadStep ==
  ASSUME ProviderInv, ProviderAssumption, Reload PROVE ProviderInv'
<1> DEFINE live == DOMAIN stored \ outdated
           m    == Min({Cardinality(live), MaxRecords})
<1>1. storeCalls \in Nat /\ Shape(cache, stored, heap, total, storeCalls)
  BY DEF ProviderInv
<1>2. IsFiniteSet(DOMAIN stored) /\ live \subseteq DOMAIN stored  BY <1>1 DEF Shape
<1>3. IsFiniteSet(live) /\ Cardinality(live) \in Nat /\ MaxRecords \in Nat
  BY <1>2, FS_Subset, FS_CardinalityType DEF ProviderAssumption
<1>4. m \in Nat /\ m <= MaxRecords
  <2>1. \E x \in {Cardinality(live), MaxRecords} : \A y \in {Cardinality(live), MaxRecords} : x <= y
    BY <1>3
  <2>2. m \in {Cardinality(live), MaxRecords} /\ \A y \in {Cardinality(live), MaxRecords} : m <= y
    BY <2>1 DEF Min
  <2> QED BY <1>3, <2>2
<1> HIDE DEF m
<1>5. PICK taken \in kSubset(m, live) :
         /\ cache' = [r \in taken |-> stored[r]] /\ heap' = {<<stored[r], r>> : r \in taken}
         /\ total' = Cardinality(taken)
  BY DEF Reload, m
<1>6. taken \subseteq DOMAIN stored /\ Cardinality(taken) = m
  BY <1>5 DEF kSubset
<1>7. stored' = stored /\ storeCalls' = storeCalls
      /\ put' \in [Remote -> {"idle", "asking", "now", "before", "invalid"}]
  BY DEF Reload, ProviderInv
<1>8. /\ DOMAIN stored \subseteq Records
      /\ \A x \in DOMAIN stored : stored[x] \in Nat /\ stored[x] <= storeCalls /\ x \in Records
      /\ \A x, y \in DOMAIN stored : stored[x] = stored[y] => x = y
  BY <1>1 DEF Shape
<1>9. DOMAIN cache' = taken /\ (\A x \in taken : cache'[x] = stored[x] /\ <<cache'[x], x>> \in heap')
  BY <1>5
<1>10. heap' \subseteq Nat \X Records
  BY <1>5, <1>6, <1>8
<1>11. total' \in Nat /\ Cardinality(DOMAIN cache') <= total' /\ ~(total' > MaxRecords)
  BY <1>3, <1>4, <1>5, <1>6, <1>9
<1> DEFINE c2 == cache'
           h2 == heap'
           n2 == total'
<1>12. /\ DOMAIN c2 \subseteq DOMAIN stored
       /\ \A x \in DOMAIN c2 : c2[x] = stored[x] /\ <<c2[x], x>> \in h2
       /\ h2 \subseteq Nat \X Records
       /\ n2 \in Nat /\ Cardinality(DOMAIN c2) <= n2 /\ ~(n2 > MaxRecords)
  BY <1>6, <1>9, <1>10, <1>11
<1> HIDE DEF c2, h2, n2
<1>13. Shape(c2, stored, h2, n2, storeCalls)
  BY <1>2, <1>8, <1>12 DEF Shape
<1>14. Shape(cache', stored', heap', total', storeCalls')
  BY <1>7, <1>13 DEF c2, h2, n2
<1> QED BY <1>7, <1>14 DEF ProviderInv

\* Every step keeps the shape, and a store takes only what it may.
LEMMA ProviderStep ==
  ASSUME ProviderInv, ProviderAssumption, [ProviderNext]_providerVars
  PROVE  ProviderInv' /\ (storeCalls' # storeCalls => MayGo)
<1>1. ASSUME UNCHANGED <<cache, stored, heap, total, storeCalls>>,
             put' \in [Remote -> {"idle", "asking", "now", "before", "invalid"}]
      PROVE  ProviderInv' /\ storeCalls' = storeCalls
  BY <1>1 DEF ProviderInv
<1>2. ASSUME NEW r \in Records, Learn(r) \/ Withdraw(r) \/ Outdate(r)
      PROVE  ProviderInv' /\ (storeCalls' # storeCalls => MayGo)
  <2>1. CASE Learn(r)  BY <2>1, LearnStep
  <2>2. CASE Withdraw(r)  BY <2>2, WithdrawStep DEF Withdraw
  <2>3. CASE Outdate(r)  BY <1>1, <2>3 DEF Outdate, ProviderInv
  <2> QED BY <1>2, <2>1, <2>2, <2>3
<1>3. ASSUME NEW r \in Remote, Publish(r) \/ GetAnswered(r) \/ PutFails(r)
      PROVE  ProviderInv' /\ (storeCalls' # storeCalls => MayGo)
  <2>1. put' \in [Remote -> {"idle", "asking", "now", "before", "invalid"}]
    BY <1>3 DEF Publish, GetAnswered, PutFails, ProviderInv
  <2>2. UNCHANGED <<cache, stored, heap, total, storeCalls>>
    BY <1>3 DEF Publish, GetAnswered, PutFails
  <2> QED BY <1>1, <2>1, <2>2
<1>4. ASSUME NEW r \in Remote, PutArrives(r) PROVE ProviderInv' /\ MayGo
  BY <1>4, PutStep
<1>5. CASE EvictExpired  BY <1>5, ExpireStep DEF EvictExpired
<1>6. CASE NextWindow
  <2>1. put' \in [Remote -> {"idle", "asking", "now", "before", "invalid"}]
    BY <1>6 DEF NextWindow, ProviderInv
  <2> QED BY <1>1, <1>6, <2>1 DEF NextWindow
<1>7. CASE Reload  BY <1>7, ReloadStep DEF Reload
<1>8. CASE UNCHANGED providerVars  BY <1>1, <1>8 DEF providerVars, ProviderInv
<1> QED BY <1>2, <1>3, <1>4, <1>5, <1>6, <1>7, <1>8 DEF ProviderNext

\* What a store takes away is the oldest record of the cache, or of its full key,
\* whatever the heap still names (store() and _handle_dht_put()).
THEOREM OldestGoesTheorem == ProviderSpec => OldestGoes
<1>1. ProviderInit => ProviderInv  BY ProviderAssumption, ProviderInitInv
<1>2. ProviderInv /\ [ProviderNext]_providerVars => ProviderInv'  BY ProviderAssumption, ProviderStep
<1>3. ProviderInv /\ [ProviderNext]_providerVars => [storeCalls' # storeCalls => MayGo]_providerVars
  BY ProviderAssumption, ProviderStep
<1> QED BY <1>1, <1>2, <1>3, PTL DEF ProviderSpec, OldestGoes, MayGo

-----------------------------------------------------------------------------
(* Dials through Tor                                                       *)

\* The elements of a log or of a family of times that are not before s.
Late(A, s) == {i \in DOMAIN A : A[i] >= s}

\* The log L has all times of A that are in the window at time c.
Covers(L, A, c) ==
  /\ L \in Seq(Times)
  /\ \A i, j \in 1..Len(L) : i <= j => L[i] <= L[j]
  /\ \A i \in 1..Len(L) : L[i] <= c
  /\ IsFiniteSet(DOMAIN A) /\ \A i \in DOMAIN A : A[i] \in Times /\ A[i] <= c
  /\ \A s \in Int : s >= c - Window => Cardinality(Late(A, s)) <= Cardinality(Late(L, s))

\* No window has more than max of the times of A.
Bounded(A, max) ==
  \A t \in Times : Cardinality({i \in DOMAIN A : A[i] \in (t - Window)..t}) <= max

\* Late elements can be counted.
LEMMA LateFinite ==
  /\ \A L \in Seq(Times), s \in Int :
        /\ IsFiniteSet(Late(L, s)) /\ Cardinality(Late(L, s)) \in Nat
        /\ Cardinality(Late(L, s)) <= Len(L) /\ Late(L, s) = {i \in 1..Len(L) : L[i] >= s}
  /\ \A A, s : IsFiniteSet(DOMAIN A) => IsFiniteSet(Late(A, s)) /\ Cardinality(Late(A, s)) \in Nat
<1>1. ASSUME NEW L \in Seq(Times), NEW s \in Int
      PROVE  /\ IsFiniteSet(Late(L, s)) /\ Cardinality(Late(L, s)) \in Nat
             /\ Cardinality(Late(L, s)) <= Len(L) /\ Late(L, s) = {i \in 1..Len(L) : L[i] >= s}
  <2>1. DOMAIN L = 1..Len(L) /\ Len(L) \in Nat  OBVIOUS
  <2>2. Late(L, s) = {i \in 1..Len(L) : L[i] >= s} /\ Late(L, s) \subseteq 1..Len(L)  BY <2>1 DEF Late
  <2>3. IsFiniteSet(1..Len(L)) /\ Cardinality(1..Len(L)) = Len(L)
    <3>1. 0 \in Int /\ 1 \in Int /\ Len(L) \in Int  BY <2>1
    <3>2. IsFiniteSet(1..Len(L)) /\ Cardinality(1..Len(L)) = IF 1 > Len(L) THEN 0 ELSE Len(L) - 1 + 1
      BY <3>1, FS_Interval
    <3> QED BY <2>1, <3>2
  <2>4. IsFiniteSet(Late(L, s)) /\ Cardinality(Late(L, s)) <= Len(L)  BY <2>2, <2>3, FS_Subset
  <2> QED BY <2>2, <2>4, FS_CardinalityType
<1>2. ASSUME NEW A, NEW s, IsFiniteSet(DOMAIN A)
      PROVE  IsFiniteSet(Late(A, s)) /\ Cardinality(Late(A, s)) \in Nat
  <2>1. Late(A, s) \subseteq DOMAIN A  BY DEF Late
  <2> QED BY <1>2, <2>1, FS_Subset, FS_CardinalityType
<1> QED BY <1>1, <1>2

\* Times are numbers.
LEMMA TimesInt == Times \subseteq Nat /\ Window \in Nat
BY BudgetAssumption DEF Times

\* Pruning keeps what is in the window, in its order.
LEMMA PrunedCovers ==
  ASSUME NEW L, NEW A, NEW c \in Times, Covers(L, A, c)
  PROVE  Covers(Kept(L, {t \in Times : t >= c - Window}), A, c)
<1> DEFINE T == {t \in Times : t >= c - Window}
           r == Kept(L, T)
<1>1. L \in Seq(Times) /\ \A i, j \in 1..Len(L) : i <= j => L[i] <= L[j]
  BY DEF Covers
<1>2. r \in Seq(Times) /\ \E e : IsPlaces(e, r, L, T, Len(L))  BY <1>1, KeptAll
<1>3. PICK e : IsPlaces(e, r, L, T, Len(L))  BY <1>2
<1> HIDE DEF r
<1>4. /\ e \in [1..Len(r) -> 1..Len(L)]
      /\ \A i, j \in 1..Len(r) : i < j => e[i] < e[j]
      /\ \A i \in 1..Len(r) : r[i] = L[e[i]] /\ r[i] \in T
      /\ \A i \in 1..Len(L) : L[i] \in T => \E j \in 1..Len(r) : e[j] = i
  BY <1>3 DEF IsPlaces
<1>5. \A i, j \in 1..Len(r) : i <= j => r[i] <= r[j]
  <2>1. SUFFICES ASSUME NEW i \in 1..Len(r), NEW j \in 1..Len(r), i <= j PROVE r[i] <= r[j]
    OBVIOUS
  <2>2. e[i] \in 1..Len(L) /\ e[j] \in 1..Len(L) /\ (i = j \/ e[i] < e[j])  BY <1>4, <2>1
  <2>3. L[e[i]] <= L[e[j]]
    <3>1. e[i] <= e[j]  BY <2>2
    <3> QED BY <1>1, <2>2, <3>1
  <2> QED BY <1>4, <2>3
<1>6. \A i \in 1..Len(r) : r[i] <= c
  BY <1>4 DEF Covers
<1>7. ASSUME NEW s \in Int, s >= c - Window PROVE Cardinality(Late(A, s)) <= Cardinality(Late(r, s))
  <2> DEFINE f == [i \in Late(r, s) |-> e[i]]
  <2>1. Late(r, s) = {i \in 1..Len(r) : r[i] >= s} /\ Late(L, s) = {i \in 1..Len(L) : L[i] >= s}
        /\ IsFiniteSet(Late(r, s)) /\ Cardinality(Late(r, s)) \in Nat /\ Cardinality(Late(L, s)) \in Nat
    BY <1>1, <1>2, LateFinite
  <2>2. f \in [Late(r, s) -> Late(L, s)]  BY <1>4, <2>1
  <2>3. ASSUME NEW i \in Late(L, s) PROVE \E j \in Late(r, s) : f[j] = i
    <3>1. i \in 1..Len(L) /\ L[i] >= s /\ L[i] \in Times  BY <1>1, <2>1
    <3>2. L[i] \in T
      <4>1. L[i] \in Int /\ c - Window \in Int  BY <3>1, BudgetAssumption DEF Times
      <4> QED BY <1>7, <3>1, <4>1
    <3>3. PICK j \in 1..Len(r) : e[j] = i  BY <1>4, <3>1, <3>2
    <3>4. j \in Late(r, s)  BY <1>4, <2>1, <3>1, <3>3
    <3> QED BY <3>3, <3>4
  <2>4. f \in Surjection(Late(r, s), Late(L, s))  BY <2>2, <2>3 DEF Surjection
  <2>5. Cardinality(Late(L, s)) <= Cardinality(Late(r, s))  BY <2>1, <2>4, FS_Surjection
  <2>6. Cardinality(Late(A, s)) <= Cardinality(Late(L, s))  BY <1>7 DEF Covers
  <2>7. Cardinality(Late(A, s)) \in Nat  BY LateFinite DEF Covers
  <2> QED BY <2>1, <2>5, <2>6, <2>7
<1>8. IsFiniteSet(DOMAIN A) /\ \A i \in DOMAIN A : A[i] \in Times /\ A[i] <= c
  BY DEF Covers
<1>9. Covers(r, A, c)
  BY <1>2, <1>5, <1>6, <1>7, <1>8 DEF Covers
<1> QED BY <1>9 DEF r

\* A bucket whose last dial has left the window has nothing that is in it.
LEMMA SweptCovers ==
  ASSUME NEW L, NEW A, NEW c \in Times, Covers(L, A, c), L # <<>>, Last(L) < c - Window
  PROVE  Covers(<<>>, A, c)
<1>1. /\ L \in Seq(Times) /\ Len(L) \in Nat \ {0} /\ Last(L) = L[Len(L)]
      /\ \A i, j \in 1..Len(L) : i <= j => L[i] <= L[j]
  BY DEF Covers, Last
<1>2. ASSUME NEW s \in Int, s >= c - Window PROVE Cardinality(Late(A, s)) <= Cardinality(Late(<<>>, s))
  <2>1. Late(L, s) = {i \in 1..Len(L) : L[i] >= s}  BY <1>1, LateFinite
  <2>2. ASSUME NEW i \in 1..Len(L), L[i] >= s PROVE FALSE
    <3>1. L[i] <= L[Len(L)] /\ L[Len(L)] \in Times /\ L[i] \in Times  BY <1>1
    <3>2. L[i] \in Int /\ L[Len(L)] \in Int /\ c - Window \in Int  BY <3>1, BudgetAssumption DEF Times
    <3> QED BY <1>1, <1>2, <2>2, <3>1, <3>2
  <2>3. Late(L, s) = {}  BY <2>1, <2>2
  <2>4. Late(<<>>, s) = {}  BY DEF Late
  <2> QED BY <1>2, <2>3, <2>4 DEF Covers
<1>3. /\ <<>> \in Seq(Times) /\ \A i \in 1..Len(<<>>) : FALSE  OBVIOUS
<1> QED BY <1>2, <1>3 DEF Covers

\* Time passes without a dial.
LEMMA PassCovers ==
  ASSUME NEW L, NEW A, NEW c \in Times, Covers(L, A, c), NEW d, d = c + 1 PROVE Covers(L, A, d)
<1>1. c \in Int /\ Window \in Int /\ d \in Int  BY TimesInt
<1>2. L \in Seq(Times) /\ \A i \in 1..Len(L) : L[i] \in Times /\ L[i] <= c
  BY DEF Covers
<1>3. IsFiniteSet(DOMAIN A) /\ \A i, j \in 1..Len(L) : i <= j => L[i] <= L[j]
  BY DEF Covers
<1>4. \A i \in DOMAIN A : A[i] \in Times /\ A[i] <= c
  BY DEF Covers
<1>5. \A t \in Times : t <= c => t <= d  BY <1>1, TimesInt
<1>6. \A s \in Int : s >= d - Window => s >= c - Window  BY <1>1
<1>7. \A s \in Int : s >= d - Window => Cardinality(Late(A, s)) <= Cardinality(Late(L, s))
  BY <1>6 DEF Covers
<1>8. (\A i \in 1..Len(L) : L[i] <= d) /\ \A i \in DOMAIN A : A[i] \in Times /\ A[i] <= d
  BY <1>2, <1>4, <1>5
<1> QED BY <1>2, <1>3, <1>7, <1>8 DEF Covers

\* The family A with time c for x.
Grown(A, x, c) == [i \in DOMAIN A \cup {x} |-> IF i = x THEN c ELSE A[i]]

\* A dial at time c is written to a log that is not full.
LEMMA DialCovers ==
  ASSUME NEW L, NEW A, NEW c \in Times, Covers(L, A, c), NEW max \in Nat, Len(L) < max,
         NEW x, x \notin DOMAIN A, Bounded(A, max)
  PROVE  Covers(Append(L, c), Grown(A, x, c), c) /\ Bounded(Grown(A, x, c), max)
<1> DEFINE B == Grown(A, x, c)
           M == Append(L, c)
           n == Len(L)
<1>1. L \in Seq(Times) /\ n \in Nat  BY DEF Covers
<1>2. M \in Seq(Times) /\ Len(M) = n + 1 /\ M[n + 1] = c /\ \A i \in 1..n : M[i] = L[i]
  BY <1>1, AppendedIs
<1>3. DOMAIN B = DOMAIN A \cup {x} /\ B[x] = c /\ \A i \in DOMAIN A : B[i] = A[i]
  BY DEF Grown
<1> HIDE DEF B, M, n
<1>4. c \in Int /\ Window \in Nat /\ \A t \in Times : t \in Int  BY BudgetAssumption DEF Times
<1>5. /\ \A i \in 1..n : L[i] \in Int /\ L[i] <= c
      /\ \A i, j \in 1..n : i <= j => L[i] <= L[j]
  <2>1. /\ \A i \in 1..n : L[i] \in Times /\ L[i] <= c
        /\ \A i, j \in 1..n : i <= j => L[i] <= L[j]
    BY <1>1 DEF Covers, n
  <2> QED BY <1>4, <2>1
<1>6. \A i \in 1..Len(M) : M[i] <= c
  BY <1>1, <1>2, <1>4, <1>5
<1>7. \A i, j \in 1..Len(M) : i <= j => M[i] <= M[j]
  BY <1>1, <1>2, <1>4, <1>5
<1>8. IsFiniteSet(DOMAIN A) /\ IsFiniteSet(DOMAIN B) /\ \A i \in DOMAIN B : B[i] \in Times /\ B[i] <= c
  <2>1. IsFiniteSet(DOMAIN A) /\ \A i \in DOMAIN A : A[i] \in Times /\ A[i] <= c  BY DEF Covers
  <2>2. IsFiniteSet(DOMAIN A \cup {x})  BY <2>1, FS_AddElement
  <2> QED BY <1>3, <1>4, <2>1, <2>2
<1>9. ASSUME NEW s \in Int, s >= c - Window
      PROVE  /\ Cardinality(Late(B, s)) <= Cardinality(Late(M, s))
             /\ Cardinality(Late(M, s)) <= n + 1 /\ Cardinality(Late(B, s)) \in Nat
  <2>1. /\ Late(M, s) = {i \in 1..n + 1 : M[i] >= s} /\ Late(L, s) = {i \in 1..n : L[i] >= s}
        /\ IsFiniteSet(Late(L, s)) /\ Cardinality(Late(L, s)) \in Nat
        /\ Cardinality(Late(M, s)) \in Nat /\ Cardinality(Late(M, s)) <= n + 1
    BY <1>1, <1>2, LateFinite DEF n
  <2>2. /\ IsFiniteSet(Late(A, s)) /\ Cardinality(Late(A, s)) \in Nat /\ Cardinality(Late(B, s)) \in Nat
        /\ Cardinality(Late(A, s)) <= Cardinality(Late(L, s))
    <3>1. Cardinality(Late(A, s)) <= Cardinality(Late(L, s))  BY <1>9 DEF Covers
    <3> QED BY <1>8, <3>1, LateFinite
  <2>3. CASE c >= s
    <3>1. Late(M, s) = Late(L, s) \cup {n + 1} /\ n + 1 \notin Late(L, s)
      <4>1. n + 1 \in 1..n + 1 /\ n + 1 \notin 1..n /\ 1..n + 1 = 1..n \cup {n + 1}  BY <1>1 DEF n
      <4> QED BY <1>2, <2>1, <2>3, <4>1
    <3>2. Late(B, s) = Late(A, s) \cup {x} /\ x \notin Late(A, s)
      BY <1>3, <2>3 DEF Late
    <3>3. Cardinality(Late(M, s)) = Cardinality(Late(L, s)) + 1  BY <2>1, <3>1, FS_AddElement
    <3>4. Cardinality(Late(B, s)) = Cardinality(Late(A, s)) + 1  BY <2>2, <3>2, FS_AddElement
    <3> QED BY <2>1, <2>2, <3>3, <3>4
  <2>4. CASE ~(c >= s)
    <3>1. Late(B, s) = {}
      <4>1. \A t \in Int : t <= c => ~(t >= s)  BY <1>4, <2>4
      <4>2. \A i \in DOMAIN B : B[i] \in Int /\ B[i] <= c  BY <1>4, <1>8
      <4> QED BY <4>1, <4>2 DEF Late
    <3>2. Cardinality(Late(B, s)) = 0  BY <3>1, FS_EmptySet
    <3> QED BY <2>1, <2>2, <3>2
  <2> QED BY <2>3, <2>4
<1>10. Covers(M, B, c)
  BY <1>2, <1>6, <1>7, <1>8, <1>9 DEF Covers
<1>11. ASSUME NEW t \in Times PROVE Cardinality({i \in DOMAIN B : B[i] \in (t - Window)..t}) <= max
  <2>0. t \in Int /\ \A i \in DOMAIN B : B[i] \in Int  BY <1>4, <1>8
  <2>1. CASE t >= c
    <3>1. \A z \in Int : z <= c => (z \in (t - Window)..t <=> z >= t - Window)  BY <1>4, <2>0, <2>1
    <3>2. \A i \in DOMAIN B : B[i] \in (t - Window)..t <=> B[i] >= t - Window  BY <1>8, <2>0, <3>1
    <3>3. {i \in DOMAIN B : B[i] \in (t - Window)..t} = Late(B, t - Window)  BY <3>2 DEF Late
    <3>4. t - Window \in Int /\ t - Window >= c - Window  BY <1>4, <2>0, <2>1
    <3>5. /\ Cardinality(Late(B, t - Window)) \in Nat
          /\ Cardinality(Late(B, t - Window)) <= Cardinality(Late(M, t - Window))
          /\ Cardinality(Late(M, t - Window)) <= n + 1
      BY <1>9, <3>4
    <3>6. Cardinality(Late(M, t - Window)) \in Nat  BY <1>2, <3>4, LateFinite
    <3>7. n + 1 <= max  BY <1>1 DEF n
    <3>8. Cardinality(Late(B, t - Window)) <= max
      <4> DEFINE a == Cardinality(Late(B, t - Window))
                 b == Cardinality(Late(M, t - Window))
      <4>1. a \in Nat /\ b \in Nat /\ a <= b /\ b <= n + 1 /\ n \in Nat /\ max \in Nat  BY <1>1, <3>5, <3>6
      <4> HIDE DEF a, b
      <4>2. a <= max  BY <3>7, <4>1
      <4> QED BY <4>2 DEF a
    <3> QED BY <3>3, <3>8
  <2>2. CASE ~(t >= c)
    <3>1. {i \in DOMAIN B : B[i] \in (t - Window)..t} = {i \in DOMAIN A : A[i] \in (t - Window)..t}
      BY <1>3, <1>4, <2>0, <2>2
    <3> QED BY <3>1 DEF Bounded
  <2> QED BY <2>1, <2>2
<1> QED BY <1>10, <1>11 DEF B, M, Bounded

\* The times of some dials.
AtOf(D) == [i \in D |-> dials[i].at]

\* Every log covers its dials, and no window holds more than the log may.
BudgetInv ==
  /\ clock \in Times
  /\ dials \in Seq([peer : TorPeers, keyed : BOOLEAN, at : Times])
  /\ DOMAIN ofPeer = TorPeers /\ DOMAIN ofKey = Keys
  /\ Covers(ofAll, AtOf(DOMAIN dials), clock) /\ Bounded(AtOf(DOMAIN dials), Global)
  /\ \A p \in TorPeers : Covers(ofPeer[p], AtOf(DialsTo(p)), clock) /\ Bounded(AtOf(DialsTo(p)), PerPeer)
  /\ \A k \in Keys : Covers(ofKey[k], AtOf(KeyedDials(k)), clock) /\ Bounded(AtOf(KeyedDials(k)), PerPeer)

\* At first no log has a dial to cover.
LEMMA BudgetInitInv == BudgetInit => BudgetInv
<1> SUFFICES ASSUME BudgetInit PROVE BudgetInv  OBVIOUS
<1>1. 0 \in Times  BY BudgetAssumption DEF Times
<1>2. ASSUME NEW A, DOMAIN A = {} PROVE Covers(<<>>, A, 0) /\ \A max \in Nat : Bounded(A, max)
  <2>1. \A s : Late(A, s) = {} /\ Late(<<>>, s) = {}  BY <1>2 DEF Late
  <2>2. IsFiniteSet({}) /\ Cardinality({}) = 0  BY FS_EmptySet
  <2>3. \A t : {i \in DOMAIN A : A[i] \in (t - Window)..t} = {}  BY <1>2
  <2>4. \A max \in Nat : Bounded(A, max)  BY <2>2, <2>3 DEF Bounded
  <2>5. <<>> \in Seq(Times) /\ \A i \in 1..Len(<<>>) : FALSE  OBVIOUS
  <2>6. \A s \in Int : Cardinality(Late(A, s)) <= Cardinality(Late(<<>>, s))  
    <3> TAKE s \in Int
    <3>1. Cardinality(Late(A, s)) = 0 /\ Cardinality(Late(<<>>, s)) = 0  BY <2>1, <2>2
    <3> QED BY <3>1
  <2>7. IsFiniteSet(DOMAIN A) /\ \A i \in DOMAIN A : FALSE  BY <1>2, <2>2
  <2>8. Covers(<<>>, A, 0)  BY <2>5, <2>6, <2>7 DEF Covers
  <2> QED BY <2>4, <2>8
<1>3. DOMAIN dials = {} /\ dials \in Seq([peer : TorPeers, keyed : BOOLEAN, at : Times])
  BY DEF BudgetInit
<1>4. DOMAIN AtOf(DOMAIN dials) = {} /\ (\A p : DOMAIN AtOf(DialsTo(p)) = {}) /\ \A k : DOMAIN AtOf(KeyedDials(k)) = {}
  BY <1>3 DEF AtOf, DialsTo, KeyedDials
<1>5. PerPeer \in Nat /\ Global \in Nat  BY BudgetAssumption
<1>6. /\ clock = 0 /\ ofAll = <<>> /\ DOMAIN ofPeer = TorPeers /\ DOMAIN ofKey = Keys
      /\ (\A p \in TorPeers : ofPeer[p] = <<>>) /\ \A k \in Keys : ofKey[k] = <<>>
  BY DEF BudgetInit
<1> QED BY <1>1, <1>2, <1>3, <1>4, <1>5, <1>6 DEF BudgetInv

\* What _sweep_stale() leaves covers what it covered.
LEMMA SweptKeeps ==
  ASSUME NEW logs, NEW x \in DOMAIN logs, NEW A, clock \in Times, Covers(logs[x], A, clock)
  PROVE  Covers(Swept(logs)[x], A, clock) /\ DOMAIN Swept(logs) = DOMAIN logs
<1>1. DOMAIN Swept(logs) = DOMAIN logs
      /\ Swept(logs)[x] = IF logs[x] # <<>> /\ Last(logs[x]) < clock - Window THEN <<>> ELSE logs[x]
  BY DEF Swept
<1>2. CASE logs[x] # <<>> /\ Last(logs[x]) < clock - Window
  BY <1>1, <1>2, SweptCovers
<1> QED BY <1>1, <1>2

\* A dial is written to all its logs or refused, after a sweep or not.
LEMMA AllowStep ==
  ASSUME BudgetInv, NEW p \in TorPeers, Allow(p) PROVE BudgetInv'
<1> DEFINE due   == asked + 1 >= SweepEvery
           peers == IF due THEN Swept(ofPeer) ELSE ofPeer
           keys  == IF due THEN Swept(ofKey) ELSE ofKey
           all   == Pruned(ofAll)
           mine  == Pruned(peers[p])
           k     == KeyOf[p]
           ours  == Pruned(keys[k])
           open  == Len(all) < Global
           free  == open /\ Len(mine) < PerPeer
           keyed == p \in keyCached
           ok    == free /\ (keyed => Len(ours) < PerPeer)
           all2  == IF ok THEN Append(all, clock) ELSE all
           mine2 == IF ok THEN Append(mine, clock) ELSE mine
           ours2 == IF ok THEN Append(ours, clock) ELSE ours
           dial  == [peer |-> p, keyed |-> keyed, at |-> clock]
           n     == Len(dials)
<1>1. /\ ofAll' = all2 /\ clock' = clock
      /\ ofPeer' = IF open THEN [peers EXCEPT ![p] = mine2] ELSE peers
      /\ ofKey' = IF free /\ keyed THEN [keys EXCEPT ![k] = ours2] ELSE keys
      /\ dials' = IF ok THEN Append(dials, dial) ELSE dials
  BY DEF Allow
<1>2. /\ clock \in Times /\ dials \in Seq([peer : TorPeers, keyed : BOOLEAN, at : Times])
      /\ k \in Keys /\ PerPeer \in Nat /\ Global \in Nat
  BY BudgetAssumption DEF BudgetInv, Keys
<1>3. /\ DOMAIN peers = TorPeers
      /\ \A q \in TorPeers : Covers(peers[q], AtOf(DialsTo(q)), clock) /\ Bounded(AtOf(DialsTo(q)), PerPeer)
  BY <1>2, SweptKeeps DEF BudgetInv
<1>4. /\ DOMAIN keys = Keys
      /\ \A j \in Keys : Covers(keys[j], AtOf(KeyedDials(j)), clock) /\ Bounded(AtOf(KeyedDials(j)), PerPeer)
  BY <1>2, SweptKeeps DEF BudgetInv
<1>5. /\ Covers(all, AtOf(DOMAIN dials), clock) /\ Bounded(AtOf(DOMAIN dials), Global)
      /\ Covers(mine, AtOf(DialsTo(p)), clock) /\ Covers(ours, AtOf(KeyedDials(k)), clock)
  BY <1>2, <1>3, <1>4, PrunedCovers DEF BudgetInv, Pruned
<1> HIDE DEF due, peers, keys, all, mine, k, ours
<1>6. CASE ~ok
  <2>1. dials' = dials /\ all2 = all /\ mine2 = mine /\ ours2 = ours  BY <1>1, <1>6
  <2>2. AtOf(DOMAIN dials)' = AtOf(DOMAIN dials) /\ (\A q : AtOf(DialsTo(q))' = AtOf(DialsTo(q)))
        /\ \A j : AtOf(KeyedDials(j))' = AtOf(KeyedDials(j))
    BY <2>1 DEF AtOf, DialsTo, KeyedDials
  <2>3. DOMAIN ofPeer' = TorPeers /\ \A q \in TorPeers : Covers(ofPeer'[q], AtOf(DialsTo(q)), clock)
    BY <1>1, <1>3, <1>5, <2>1
  <2>4. DOMAIN ofKey' = Keys /\ \A j \in Keys : Covers(ofKey'[j], AtOf(KeyedDials(j)), clock)
    BY <1>1, <1>4, <1>5, <2>1
  <2> QED BY <1>1, <1>2, <1>3, <1>4, <1>5, <2>1, <2>2, <2>3, <2>4 DEF BudgetInv
<1>7. CASE ok
  <2>1. /\ ofAll' = Append(all, clock) /\ ofPeer' = [peers EXCEPT ![p] = Append(mine, clock)]
        /\ dials' = Append(dials, dial)
        /\ ofKey' = IF keyed THEN [keys EXCEPT ![k] = Append(ours, clock)] ELSE keys
        /\ Len(all) < Global /\ Len(mine) < PerPeer /\ (keyed => Len(ours) < PerPeer)
    BY <1>1, <1>7
  <2>2. dial \in [peer : TorPeers, keyed : BOOLEAN, at : Times] /\ dial.peer = p /\ dial.keyed = keyed /\ dial.at = clock
    BY <1>2
  <2> HIDE DEF dial, keyed
  <2>3. /\ dials' \in Seq([peer : TorPeers, keyed : BOOLEAN, at : Times]) /\ DOMAIN dials' = 1..n + 1
        /\ DOMAIN dials = 1..n /\ n \in Nat /\ dials'[n + 1] = dial /\ \A i \in 1..n : dials'[i] = dials[i]
    BY <1>2, <2>1, <2>2, AppendedIs
  <2>4. DOMAIN dials' = DOMAIN dials \cup {n + 1} /\ n + 1 \notin DOMAIN dials
        /\ \A i \in DOMAIN dials : dials'[i] = dials[i]
    BY <2>3
  <2> HIDE DEF n
  <2>5. ASSUME NEW D, D \subseteq DOMAIN dials
        PROVE  /\ [i \in D |-> dials'[i].at] = AtOf(D) /\ n + 1 \notin DOMAIN AtOf(D)
               /\ [i \in D \cup {n + 1} |-> dials'[i].at] = Grown(AtOf(D), n + 1, clock)
    BY <2>2, <2>3, <2>4, <2>5 DEF AtOf, Grown
  <2>6. Covers(Append(all, clock), AtOf(DOMAIN dials)', clock) /\ Bounded(AtOf(DOMAIN dials)', Global)
    <3>1. AtOf(DOMAIN dials)' = [i \in DOMAIN dials \cup {n + 1} |-> dials'[i].at]
      BY <2>4 DEF AtOf
    <3>2. AtOf(DOMAIN dials)' = Grown(AtOf(DOMAIN dials), n + 1, clock)
          /\ n + 1 \notin DOMAIN AtOf(DOMAIN dials)
      BY <2>5, <3>1
    <3> DEFINE A == AtOf(DOMAIN dials)
    <3>3. Covers(all, A, clock) /\ Bounded(A, Global) /\ n + 1 \notin DOMAIN A /\ Global \in Nat /\ Len(all) < Global
      BY <1>2, <1>5, <2>1, <3>2
    <3> HIDE DEF A
    <3>4. Covers(Append(all, clock), Grown(A, n + 1, clock), clock) /\ Bounded(Grown(A, n + 1, clock), Global)
      BY <1>2, <3>3, DialCovers
    <3> QED BY <3>2, <3>4 DEF A
  <2>7. \A q \in TorPeers \ {p} : AtOf(DialsTo(q))' = AtOf(DialsTo(q))
    <3>1. \A q \in TorPeers \ {p} : DialsTo(q)' = DialsTo(q) /\ DialsTo(q) \subseteq DOMAIN dials
      BY <2>2, <2>3, <2>4 DEF DialsTo
    <3> QED BY <2>5, <3>1 DEF AtOf
  <2>8. Covers(Append(mine, clock), AtOf(DialsTo(p))', clock) /\ Bounded(AtOf(DialsTo(p))', PerPeer)
    <3>1. DialsTo(p)' = DialsTo(p) \cup {n + 1} /\ DialsTo(p) \subseteq DOMAIN dials
      BY <2>2, <2>3, <2>4 DEF DialsTo
    <3>2. AtOf(DialsTo(p))' = [i \in DialsTo(p) \cup {n + 1} |-> dials'[i].at]
      BY <3>1 DEF AtOf
    <3>3. AtOf(DialsTo(p))' = Grown(AtOf(DialsTo(p)), n + 1, clock)
          /\ n + 1 \notin DOMAIN AtOf(DialsTo(p))
      BY <2>5, <3>1, <3>2
    <3>4. Bounded(AtOf(DialsTo(p)), PerPeer)  BY <1>3
    <3> DEFINE A == AtOf(DialsTo(p))
    <3>5. Covers(mine, A, clock) /\ Bounded(A, PerPeer) /\ n + 1 \notin DOMAIN A /\ PerPeer \in Nat /\ Len(mine) < PerPeer
      BY <1>2, <1>5, <2>1, <3>3, <3>4
    <3> HIDE DEF A
    <3>6. Covers(Append(mine, clock), Grown(A, n + 1, clock), clock) /\ Bounded(Grown(A, n + 1, clock), PerPeer)
      BY <1>2, <3>5, DialCovers
    <3> QED BY <3>3, <3>6 DEF A
  <2>9. \A j \in Keys : j # k \/ ~keyed => AtOf(KeyedDials(j))' = AtOf(KeyedDials(j))
    <3>1. \A j \in Keys : j # k \/ ~keyed => KeyedDials(j)' = KeyedDials(j)
      BY <2>2, <2>3, <2>4 DEF KeyedDials, k
    <3>2. \A j \in Keys : KeyedDials(j) \subseteq DOMAIN dials
      BY DEF KeyedDials
    <3> QED BY <2>5, <3>1, <3>2 DEF AtOf
  <2>10. keyed => Covers(Append(ours, clock), AtOf(KeyedDials(k))', clock) /\ Bounded(AtOf(KeyedDials(k))', PerPeer)
    <3> SUFFICES ASSUME keyed
                 PROVE  Covers(Append(ours, clock), AtOf(KeyedDials(k))', clock) /\ Bounded(AtOf(KeyedDials(k))', PerPeer)
      OBVIOUS
    <3>1. KeyedDials(k)' = KeyedDials(k) \cup {n + 1} /\ KeyedDials(k) \subseteq DOMAIN dials
      BY <2>2, <2>3, <2>4 DEF KeyedDials, k
    <3>2. AtOf(KeyedDials(k))' = [i \in KeyedDials(k) \cup {n + 1} |-> dials'[i].at]
      BY <3>1 DEF AtOf
    <3>3. AtOf(KeyedDials(k))' = Grown(AtOf(KeyedDials(k)), n + 1, clock)
          /\ n + 1 \notin DOMAIN AtOf(KeyedDials(k))
      BY <2>5, <3>1, <3>2
    <3>4. Bounded(AtOf(KeyedDials(k)), PerPeer)  BY <1>2, <1>4
    <3> DEFINE A == AtOf(KeyedDials(k))
    <3>5. Covers(ours, A, clock) /\ Bounded(A, PerPeer) /\ n + 1 \notin DOMAIN A /\ PerPeer \in Nat /\ Len(ours) < PerPeer
      BY <1>2, <1>5, <2>1, <3>3, <3>4
    <3> HIDE DEF A
    <3>6. Covers(Append(ours, clock), Grown(A, n + 1, clock), clock) /\ Bounded(Grown(A, n + 1, clock), PerPeer)
      BY <1>2, <3>5, DialCovers
    <3> QED BY <3>3, <3>6 DEF A
  <2>11. /\ DOMAIN ofPeer' = TorPeers
         /\ \A q \in TorPeers : Covers(ofPeer'[q], AtOf(DialsTo(q))', clock) /\ Bounded(AtOf(DialsTo(q))', PerPeer)
    BY <1>3, <2>1, <2>7, <2>8
  <2>12. /\ DOMAIN ofKey' = Keys
         /\ \A j \in Keys : Covers(ofKey'[j], AtOf(KeyedDials(j))', clock) /\ Bounded(AtOf(KeyedDials(j))', PerPeer)
    BY <1>2, <1>4, <2>1, <2>9, <2>10
  <2> QED BY <1>1, <1>2, <2>1, <2>3, <2>6, <2>11, <2>12 DEF BudgetInv
<1> QED BY <1>6, <1>7

\* Every step keeps the logs covering the dials.
LEMMA BudgetStep == BudgetInv /\ [BudgetNext]_budgetVars => BudgetInv'
<1> SUFFICES ASSUME BudgetInv, [BudgetNext]_budgetVars PROVE BudgetInv'  OBVIOUS
<1>1. CASE Passes
  <2>1. clock \in Times /\ clock' = clock + 1 /\ clock' \in Times
    BY <1>1, BudgetAssumption DEF Passes, BudgetInv, Times
  <2>2. UNCHANGED <<ofPeer, ofKey, ofAll, dials>>  BY <1>1 DEF Passes
  <2>3. AtOf(DOMAIN dials)' = AtOf(DOMAIN dials) /\ (\A q : AtOf(DialsTo(q))' = AtOf(DialsTo(q)))
        /\ \A j : AtOf(KeyedDials(j))' = AtOf(KeyedDials(j))
    BY <2>2 DEF AtOf, DialsTo, KeyedDials
  <2> QED BY <2>1, <2>2, <2>3, PassCovers DEF BudgetInv
<1>2. CASE UNCHANGED budgetVars
  <2>1. UNCHANGED <<clock, ofPeer, ofKey, ofAll, dials>>  BY <1>2 DEF budgetVars
  <2>2. AtOf(DOMAIN dials)' = AtOf(DOMAIN dials) /\ (\A q : AtOf(DialsTo(q))' = AtOf(DialsTo(q)))
        /\ \A j : AtOf(KeyedDials(j))' = AtOf(KeyedDials(j))
    BY <2>1 DEF AtOf, DialsTo, KeyedDials
  <2> QED BY <2>1, <2>2 DEF BudgetInv
<1> QED BY <1>1, <1>2, AllowStep DEF BudgetNext

\* No window of Window holds more dials to a peer, of a key or of all than
\* allowed, for any limits and however often the sweep runs (allow()).
THEOREM WithinBudgetTheorem == BudgetSpec => []WithinBudget
<1>1. BudgetInv => WithinBudget
  <2> SUFFICES ASSUME BudgetInv, NEW t \in Times
               PROVE  /\ Cardinality(DialsIn(DOMAIN dials, t)) <= Global
                      /\ \A p \in TorPeers : Cardinality(DialsIn(DialsTo(p), t)) <= PerPeer
                      /\ \A k \in Keys : Cardinality(DialsIn(KeyedDials(k), t)) <= PerPeer
    BY DEF WithinBudget
  <2>1. ASSUME NEW D PROVE DialsIn(D, t) = {i \in DOMAIN AtOf(D) : AtOf(D)[i] \in (t - Window)..t}
    BY DEF DialsIn, AtOf
  <2> QED BY <2>1 DEF BudgetInv, Bounded
<1> QED BY <1>1, BudgetInitInv, BudgetStep, PTL DEF BudgetSpec
=============================================================================
