------------------------------- MODULE Gossip -------------------------------
(***************************************************************************)
(* How the network learns of a skill and forgets it: the provider loads it *)
(* from its config, announces it, announces it again every five minutes    *)
(* and deregisters it; the peers store, forward and age what they hear,    *)
(* a node that joins copies the table of another, and one that is asked    *)
(* for a skill it does not know asks its peers and keeps what they answer. *)
(*                                                                         *)
(* One provider and one skill.  Every send opens its own exchange, so      *)
(* messages overtake each other; a send that fails is dropped silently.    *)
(* A message id is fresh when it is issued; ids are reused here once no    *)
(* message in flight carries them.                                         *)
(***************************************************************************)
EXTENDS Naturals, FiniteSets, FiniteSetsExt

CONSTANTS
  Nodes, Provider,
  Ids,             \* message ids
  Hops,            \* forwarding limit (2 in networks below 50 peers)
  Fanout,          \* peers an announcement or a forward goes to
  RepublishFanout, \* peers the periodic announcement goes to
  MaxEdits,        \* bound: edits of the config
  MaxQueries,      \* bound: queries of the peers at one time
  MaxOutages       \* bound: stops of the provider and restarts of others

ASSUME GossipAssumption ==
  /\ Provider \in Nodes /\ IsFiniteSet(Nodes) /\ Ids \subseteq Nat
  /\ {Hops, Fanout, RepublishFanout, MaxEdits, MaxQueries, MaxOutages} \subseteq Nat

VARIABLES
  config,   \* the config file has a section of the skill
  valid,    \* with a sheet that passes validate_skill_sheet()
  up,       \* the provider runs
  reload,   \* it has not read the config since it started or was signalled
  handler,  \* _handler_specs has the skill
  own,      \* _own_skills has it
  raw,      \* with a sheet that was refused
  step,     \* what the loader is at: "idle", "announcing" or "removing"
  table,    \* row of the skill at each node: "none", "fresh" or "stale"
  isOwn,    \* nodes whose row has is_own
  lost,     \* history: the own row was not stored, or evicted from a full table
  kept,     \* history: the own row of a skill that was dropped was not removed
  seenIds,  \* _seen_messages of each node
  net,      \* messages on their way
  found,    \* peers whose query has found the skill and not stored it yet
  edits, outages

gossipVars == <<config, valid, up, reload, handler, own, raw, step, table, isOwn, lost, kept,
                seenIds, net, found, edits, outages>>
configVars == <<config, valid>>
skillVars  == <<handler, own, raw, step>>
doubtVars  == <<lost, kept>>
boundVars  == <<edits, outages>>

Others == Nodes \ {Provider}
GossipMessage == [kind : {"announce", "deregister"}, id : Ids, hops : 0..Hops, to : Others]

GossipTypeOK ==
  /\ config \in BOOLEAN /\ valid \in BOOLEAN /\ up \in BOOLEAN /\ reload \in BOOLEAN
  /\ handler \in BOOLEAN /\ own \in BOOLEAN /\ raw \in BOOLEAN
  /\ lost \in BOOLEAN /\ kept \in BOOLEAN /\ isOwn \subseteq Nodes
  /\ step \in {"idle", "announcing", "removing"}
  /\ table \in [Nodes -> {"none", "fresh", "stale"}]
  /\ seenIds \in [Nodes -> SUBSET Ids] /\ net \subseteq GossipMessage
  /\ found \subseteq Others
  /\ edits \in 0..MaxEdits /\ outages \in 0..MaxOutages

\* A provider with the skill in its config, about to start; nobody knows it.
GossipInit ==
  /\ config = TRUE /\ valid \in BOOLEAN /\ up = FALSE /\ reload = FALSE
  /\ handler = FALSE /\ own = FALSE /\ raw = FALSE /\ lost = FALSE /\ kept = FALSE
  /\ step = "idle" /\ table = [n \in Nodes |-> "none"] /\ isOwn = {}
  /\ seenIds = [n \in Nodes |-> {}] /\ net = {} /\ found = {} /\ edits = 0 /\ outages = 0
-----------------------------------------------------------------------------
(* The table and the messages                                              *)

\* Mutant of Upsert: the flag of the last writer stays.
UpsertLast(n, asOwn) ==
  /\ table' = [table EXCEPT ![n] = "fresh"]
  /\ isOwn' = IF asOwn THEN isOwn \cup {n} ELSE isOwn \ {n}

\* upsert_skill(): a new row, or the old one announced now; is_own only grows.
\* What a new row evicts from a full table is Evict.
Upsert(n, asOwn) ==
  /\ table' = [table EXCEPT ![n] = "fresh"]
  /\ isOwn' = IF asOwn THEN isOwn \cup {n} ELSE isOwn

\* remove_skill(): whoever asks, also for an own row.
RemoveRow(n) ==
  /\ table' = [table EXCEPT ![n] = "none"] /\ isOwn' = isOwn \ {n}

\* The first id that no message on its way carries
InFlight(i) == \E m \in net : m.id = i
FreshId(i)  == ~InFlight(i) /\ \A j \in Ids : j < i => InFlight(j)


\* The id of no message on its way is the id of a new one, a new uuid, so the
\* sets need not keep it.
Remember(seen) == seenIds' = [n \in Nodes |-> seen[n] \cap {m.id : m \in net'}]

\* random.sample() of the eligible peers
Samples(peers, k) == kSubset(IF k < Cardinality(peers) THEN k ELSE Cardinality(peers), peers)

Sent(kind, i, hops, targets) ==
  {[kind |-> kind, id |-> i, hops |-> hops, to |-> n] : n \in targets}
-----------------------------------------------------------------------------
(* The provider                                                            *)

\* `knarr skill install` and `knarr skill remove`: rewrite the file, signal.
EditConfig ==
  /\ edits < MaxEdits /\ edits' = edits + 1 /\ config' = ~config /\ reload' = (reload \/ up)
  /\ valid' \in (IF config THEN {FALSE} ELSE BOOLEAN)
  /\ UNCHANGED <<up, skillVars, table, isOwn, doubtVars, seenIds, net, found, outages>>

\* start(): the own rows of the table are own skills; the config is read later.
NodeStarts ==
  /\ ~up /\ up' = TRUE /\ own' = (Provider \in isOwn) /\ reload' = TRUE
  /\ seenIds' = [seenIds EXCEPT ![Provider] = {}]
  /\ UNCHANGED <<configVars, handler, raw, step, table, isOwn, doubtVars, net, found, boundVars>>

NodeStops ==
  /\ up /\ outages < MaxOutages /\ outages' = outages + 1
  /\ up' = FALSE /\ reload' = FALSE
  /\ handler' = FALSE /\ own' = FALSE /\ raw' = FALSE /\ step' = "idle"
  /\ lost' = FALSE /\ kept' = FALSE
  /\ UNCHANGED <<configVars, table, isOwn, seenIds, net, found, edits>>

\* The beginning of announce(): a sheet that does not pass becomes an own skill
\* all the same, where it can be read at all, and is neither stored nor announced.
BeginAnnounce ==
  /\ handler' = TRUE
  /\ \/ valid /\ own' = TRUE /\ raw' = FALSE /\ step' = "announcing"
     \/ ~valid /\ own' = TRUE /\ raw' = TRUE /\ UNCHANGED step
     \/ ~valid /\ UNCHANGED <<own, raw, step>>

\* The beginning of deregister(), which does nothing for a skill that is not own
BeginDeregister ==
  /\ own' = FALSE /\ raw' = FALSE /\ handler' = own
  /\ step' = IF own THEN "removing" ELSE "idle"

\* load_skills_from_config() up to its first await.  Only a skill whose handler
\* this run has loaded can be found missing.
LoadSkills ==
  /\ up /\ reload /\ step = "idle" /\ reload' = FALSE
  /\ \/ config = handler /\ UNCHANGED skillVars
     \/ config /\ ~handler /\ BeginAnnounce
     \/ ~config /\ handler /\ BeginDeregister
  /\ UNCHANGED <<configVars, up, table, isOwn, doubtVars, seenIds, net, found, boundVars>>

\* The rest of announce()
Announced(i) ==
  /\ step = "announcing" /\ FreshId(i) /\ Upsert(Provider, TRUE)
  /\ \E to \in Samples(Others, Fanout) : net' = net \cup Sent("announce", i, 0, to)
  /\ step' = "idle" /\ lost' = FALSE /\ kept' = FALSE
  /\ UNCHANGED <<configVars, up, reload, handler, own, raw, seenIds, found, boundVars>>

\* The rest of deregister(), and what the loader does after it
Deregistered(i) ==
  /\ step = "removing" /\ FreshId(i) /\ RemoveRow(Provider)
  /\ \E to \in Samples(Others, Fanout) : net' = net \cup Sent("deregister", i, 0, to)
  /\ step' = "idle" /\ handler' = FALSE /\ lost' = FALSE /\ kept' = FALSE
  /\ UNCHANGED <<configVars, up, reload, own, raw, seenIds, found, boundVars>>

\* The write of the row raises: nothing is sent, and the loader goes on or, at
\* a removal, ends before it forgets the handler.
WriteRaises ==
  /\ step # "idle" /\ step' = "idle"
  /\ lost' = (lost \/ step = "announcing") /\ kept' = (kept \/ step = "removing")
  /\ UNCHANGED <<configVars, up, reload, handler, own, raw, table, isOwn, seenIds, net, found, boundVars>>

\* _reannounce_all(): to the peers only, the own row is not touched.  Sends
\* time out long before the next cycle.  A sheet that does not pass is sent as
\* well, and refused by every peer before it changes anything.
Republish(i) ==
  /\ up /\ own /\ ~raw /\ net = {} /\ FreshId(i)
  /\ \E to \in Samples(Others, RepublishFanout) : net' = Sent("announce", i, 0, to)
  /\ UNCHANGED <<configVars, up, reload, skillVars, table, isOwn, doubtVars, seenIds, found, boundVars>>
-----------------------------------------------------------------------------
(* The peers                                                               *)

\* _process_message() of an Announce or a Deregister.  The table changes
\* before the dedup check, so an old or a second copy counts as much as a new
\* one; nothing goes back to its origin.
GossipReceive(m) ==
  LET n == m.to IN
  /\ m \in net
  /\ IF m.kind = "announce" THEN Upsert(n, FALSE) ELSE RemoveRow(n)
  /\ IF m.id \notin seenIds[n] /\ m.hops < Hops
     THEN /\ \E to \in Samples(Others \ {n}, Fanout) :
               net' = (net \ {m}) \cup Sent(m.kind, m.id, m.hops + 1, to)
          /\ Remember([seenIds EXCEPT ![n] = @ \cup {m.id}])
     ELSE net' = net \ {m} /\ Remember(seenIds)
  /\ UNCHANGED <<configVars, up, reload, skillVars, doubtVars, found, boundVars>>

\* _send_to_peer() and _send_fire_forget() swallow every error.
GossipLost(m) ==
  /\ m \in net /\ net' = net \ {m} /\ Remember(seenIds)
  /\ UNCHANGED <<configVars, up, reload, skillVars, table, isOwn, doubtVars, found, boundVars>>

\* The dedup set is memory, and halved when it is full.
PeerRestarts(n) ==
  /\ outages < MaxOutages /\ outages' = outages + 1
  /\ seenIds[n] # {} /\ seenIds' = [seenIds EXCEPT ![n] = {}]
  /\ UNCHANGED <<configVars, up, reload, skillVars, table, isOwn, doubtVars, net, found, edits>>

\* Mutant of SyncFrom: what is copied is entered as own.
SyncFromOwn(n, m) ==
  /\ (n = Provider => up) /\ (m = Provider => up)
  /\ table[m] = "fresh" /\ Upsert(n, TRUE)
  /\ UNCHANGED <<configVars, up, reload, skillVars, doubtVars, seenIds, net, found, boundVars>>

\* join() or reconnect_from_cache() of n by way of m: get_all_skills() of m
\* answers with the rows within their time, and each starts a full time at n.
SyncFrom(n, m) ==
  /\ (n = Provider => up) /\ (m = Provider => up)
  /\ table[m] = "fresh" /\ Upsert(n, FALSE)
  /\ UNCHANGED <<configVars, up, reload, skillVars, doubtVars, seenIds, net, found, boundVars>>

\* query_skills_by_name() and the handler of a Query: a row within its time, or
\* an own skill.
Answers(m) == IF m = Provider THEN up /\ own ELSE table[m] = "fresh"

\* query(): only a node that finds nothing itself asks its peers; what they
\* answer waits for the slowest of them.
Query(n) ==
  /\ table[n] # "fresh" /\ n \notin found /\ Cardinality(found) < MaxQueries
  /\ \E m \in Nodes \ {n} : Answers(m)
  /\ found' = found \cup {n}
  /\ UNCHANGED <<configVars, up, reload, skillVars, table, isOwn, doubtVars, seenIds, net, boundVars>>

\* and is stored with a full time, whatever happened to the skill meanwhile.
CacheFound(n) ==
  /\ n \in found /\ found' = found \ {n} /\ Upsert(n, FALSE)
  /\ UNCHANGED <<configVars, up, reload, skillVars, doubtVars, seenIds, net, boundVars>>

\* announced_at + ttl passes
Expire(n) ==
  /\ table[n] = "fresh" /\ table' = [table EXCEPT ![n] = "stale"]
  /\ UNCHANGED <<configVars, up, reload, skillVars, isOwn, doubtVars, seenIds, net, found, boundVars>>

\* upsert_skill() of another skill, in a table of MAX_SKILLS rows whose oldest
\* this one is: is_own does not protect it.
Evict(n) ==
  /\ table[n] # "none" /\ (n = Provider => up) /\ RemoveRow(n)
  /\ lost' = (lost \/ (n = Provider /\ n \in isOwn))
  /\ UNCHANGED <<configVars, up, reload, skillVars, kept, seenIds, net, found, boundVars>>

\* prune_stale_skills()
PruneSkills(n) ==
  /\ table[n] = "stale" /\ n \notin isOwn /\ (n = Provider => up)
  /\ table' = [table EXCEPT ![n] = "none"]
  /\ UNCHANGED <<configVars, up, reload, skillVars, isOwn, doubtVars, seenIds, net, found, boundVars>>

Hear(n, kind) == \E m \in net : m.to = n /\ m.kind = kind /\ GossipReceive(m)
DropAny       == \E m \in net : GossipLost(m)
Load          == \E i \in Ids : Announced(i) \/ Deregistered(i)
Copies        == \/ \E n, m \in Nodes : n # m /\ SyncFrom(n, m)
                 \/ \E n \in Others : Query(n)

GossipNext ==
  \/ EditConfig \/ NodeStarts \/ NodeStops \/ LoadSkills \/ Load \/ WriteRaises
  \/ \E i \in Ids : Republish(i)
  \/ \E n \in Others, kind \in {"announce", "deregister"} : Hear(n, kind)
  \/ DropAny
  \/ \E n \in Others : PeerRestarts(n)
  \/ Copies \/ \E n \in Others : CacheFound(n)
  \/ \E n \in Nodes : Expire(n) \/ Evict(n) \/ PruneSkills(n)

GossipSpec == GossipInit /\ [][GossipNext]_gossipVars

\* The loader and the republish and prune loops run, time passes, a send ends
\* one way or the other, and of the announcements sent to a peer again and
\* again some arrive.  Nothing makes a stopped provider start.
GossipFairness ==
  /\ WF_gossipVars(LoadSkills) /\ WF_gossipVars(Load)
  /\ WF_gossipVars(\E i \in Ids : Republish(i)) /\ WF_gossipVars(DropAny)
  /\ WF_gossipVars(\E n \in Others : CacheFound(n))
  /\ \A n \in Others : SF_gossipVars(Hear(n, "announce"))
  /\ \A n \in Nodes : WF_gossipVars(Expire(n)) /\ WF_gossipVars(PruneSkills(n))
GossipFair == GossipSpec /\ GossipFairness
-----------------------------------------------------------------------------
(* Properties                                                              *)

\* storage.py:709 (is_own only grows) and node.py:2149: whatever peers send
\* back, a restart brings back what is provided and nothing that is not: the
\* own row is there only for an own skill, unless its removal raised, and is
\* missing only for one whose sheet was refused, whose write raised or whose row
\* made room for another in a full table.
OwnRowMatches ==
  up /\ step = "idle" =>
    /\ Provider \in isOwn => table[Provider] # "none" /\ (own \/ kept)
    /\ own => Provider \in isOwn \/ raw \/ lost

\* node.py:2929 and storage.py:962: once the provider has stopped or dropped the
\* skill for good, and no node copies it from another any more, every peer
\* forgets it, however late a copy of an announcement or what a query found
\* arrives.  A copy starts a full time to live (node.py:2755), so as long as
\* nodes go on asking each other they keep a skill that is gone.
GoneIsForgotten ==
  <>[](~own) /\ <>[][~Copies]_gossipVars => <>[](\A n \in Others : table[n] = "none")

=============================================================================
