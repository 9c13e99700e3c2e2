----------------------------- MODULE Membership -----------------------------
(***************************************************************************)
(* Whom a node knows: the peers table, filled by the answers to its joins  *)
(* and by what peers send, pruned of the silent ones, and rebuilt by way   *)
(* of a bootstrap peer when the node finds itself alone.                   *)
(*                                                                         *)
(* The node is one of `knarr serve`: its own row is in the table too, never *)
(* pruned and counted with the others.                                     *)
(*                                                                         *)
(* The seconds are classes: a row is "fresh" or older than the prune       *)
(* timeout; a peer is in `active` while its last message is younger.       *)
(* A peer that is there answers in time.                                   *)
(***************************************************************************)
EXTENDS Naturals, FiniteSets

CONSTANTS
  Peers, Boots,   \* other nodes, and those given as bootstrap peers
  Floor,          \* min_peers: up to so many rows are not pruned
  EvictFloor,     \* MIN_PEER_FLOOR: with fewer other rows the bootstrap peers stay
  FromConfig      \* the bootstrap peers are in the config, not only on the command line

ASSUME MembershipAssumption ==
  /\ Boots \subseteq Peers /\ IsFiniteSet(Peers)
  /\ {Floor, EvictFloor} \subseteq Nat \ {0}
  /\ FromConfig \in BOOLEAN

Joiners == {"start", "sweep"}   \* the command that starts the node, and the sweep loop

VARIABLES
  running,    \* the node
  there,      \* peers that can be reached
  ownRow,     \* the table has the row of the node itself
  row,        \* row of each peer in the table: "none", "fresh" or "stale"
  active,     \* peers in _peer_last_activity within the prune timeout
  initial,    \* _initial_bootstrap_peers is set
  joining,    \* what a join is at: "idle", "row", "cache" or "ask"
  since,      \* _isolation_since: "none", "set" or "long" ago
  due,        \* the rejoin backoff has passed
  evict,      \* _evict_bootstrap_peers(): "idle", "wait" or "remove"
  evicting,   \* bootstrap rows it has yet to remove
  pruneAt,    \* the prune loop: "idle", "touch", "count" or "prune"
  alive       \* what it read of active

memberVars == <<running, there, ownRow, row, active, initial, joining, since, due, evict, evicting,
                pruneAt, alive>>
joinVars   == <<initial, joining>>
sweepVars  == <<since, due>>
evictVars  == <<evict, evicting>>
pruneVars  == <<pruneAt, alive>>
worldVars  == <<running, there, ownRow>>

\* The rows of get_peers() for other nodes, and what it counts
Table == {p \in Peers : row[p] # "none"}
Counted(peers) == Cardinality(peers) + (IF ownRow THEN 1 ELSE 0)

MembershipTypeOK ==
  /\ {running, ownRow, initial, due} \subseteq BOOLEAN
  /\ {there, active, evicting, alive} \subseteq SUBSET Peers
  /\ row \in [Peers -> {"none", "fresh", "stale"}]
  /\ joining \in [Joiners -> {"idle", "row", "cache", "ask"}]
  /\ since \in {"none", "set", "long"} /\ evict \in {"idle", "wait", "remove"}
  /\ pruneAt \in {"idle", "touch", "count", "prune"}

MembershipInit ==
  /\ running = FALSE /\ there = Peers /\ ownRow = FALSE /\ row = [p \in Peers |-> "none"] /\ active = {}
  /\ initial = FALSE /\ joining = [w \in Joiners |-> "idle"]
  /\ since = "none" /\ due = TRUE
  /\ evict = "idle" /\ evicting = {} /\ pruneAt = "idle" /\ alive = {}
-----------------------------------------------------------------------------
(* The table                                                               *)

\* upsert_peer(), far below MAX_PEERS
Upserted(peers) == row' = [p \in Peers |-> IF p \in peers THEN "fresh" ELSE row[p]]

\* touch_peer(), touch_peers(): no row is created.
Touched(peers) == [p \in Peers |-> IF p \in peers \cap Table THEN "fresh" ELSE row[p]]

\* A verified message of a type that counts as a heartbeat
Heard(p) == active' = active \cup {p}

\* One that only shows that the sender lives: mail and task messages
PeerSpeaks(p) ==
  /\ running /\ p \in there /\ Heard(p)
  /\ UNCHANGED <<worldVars, row, joinVars, sweepVars, evictVars, pruneVars>>

\* Heartbeat, at most one in five seconds for each peer
PeerBeats(p) ==
  /\ running /\ p \in there /\ Heard(p) /\ row' = Touched({p})
  /\ UNCHANGED <<worldVars, joinVars, sweepVars, evictVars, pruneVars>>

\* JoinRequest, TaskRequest, Announce: they carry an address.
PeerIntroduces(p) ==
  /\ running /\ p \in there /\ Heard(p) /\ Upserted({p})
  /\ UNCHANGED <<worldVars, joinVars, sweepVars, evictVars, pruneVars>>

\* The prune timeout passes for what was last heard of p, or for its row; a
\* round of the prune loop takes no time next to it.
GoesQuiet(p) ==
  /\ p \in active /\ active' = active \ {p}
  /\ UNCHANGED <<worldVars, row, joinVars, sweepVars, evictVars, pruneVars>>

Ages(p) ==
  /\ row[p] = "fresh" /\ pruneAt = "idle" /\ row' = [row EXCEPT ![p] = "stale"]
  /\ UNCHANGED <<worldVars, active, joinVars, sweepVars, evictVars, pruneVars>>

\* _remove_peer_cb(): kademlia has not heard of a contact of its table for long.
KadRemoves(p) ==
  /\ running /\ p \in Table \ there /\ row' = [row EXCEPT ![p] = "none"] /\ active' = active \ {p}
  /\ UNCHANGED <<worldVars, joinVars, sweepVars, evictVars, pruneVars>>
-----------------------------------------------------------------------------
(* Joining                                                                 *)

\* The rows of an answer are stored, the skills synchronised, and the task that
\* populates the routing table is started.
Joined(w, peers) ==
  /\ Upserted(peers) /\ joining' = [joining EXCEPT ![w] = "idle"]
  /\ evict' = IF evict = "idle" THEN "wait" ELSE evict

\* The answer of p to a JoinRequest: its table, and itself.
AnswerOf(p) == {peers \in SUBSET Peers : p \in peers}

\* start(): the loops run,
NodeBegins ==
  /\ ~running /\ running' = TRUE /\ joining' = [joining EXCEPT !["start"] = "row"]
  /\ UNCHANGED <<there, ownRow, row, active, initial, sweepVars, evictVars, pruneVars>>

\* and cmd_serve() stores the node's own row, then joins: cached peers first.
StoreOwnRow ==
  /\ joining["start"] = "row" /\ joining' = [joining EXCEPT !["start"] = "cache"] /\ ownRow' = TRUE
  /\ UNCHANGED <<running, there, row, active, initial, sweepVars, evictVars, pruneVars>>

\* reconnect_from_cache(): the first that answers, else the bootstrap peers
Reconnect ==
  /\ joining["start"] = "cache"
  /\ IF Table \cap there # {}
     THEN (\E p \in Table \cap there : \E peers \in AnswerOf(p) : Joined("start", peers))
          /\ UNCHANGED initial
     ELSE joining' = [joining EXCEPT !["start"] = "ask"] /\ initial' = TRUE
          /\ UNCHANGED <<row, evict>>
  /\ UNCHANGED <<worldVars, active, sweepVars, evicting, pruneVars>>

\* Mutant of AskBootstrap: a backoff that is never over.
AskBootstrapForGood(w) ==
  /\ joining[w] = "ask"
  /\ IF Boots \cap there # {}
     THEN \E b \in Boots \cap there : \E peers \in AnswerOf(b) : Joined(w, peers \ {b})
     ELSE joining' = [joining EXCEPT ![w] = "idle"] /\ UNCHANGED <<row, evict>>
  /\ due' = (due /\ w # "sweep")
  /\ UNCHANGED <<worldVars, active, initial, since, evicting, pruneVars>>

\* join(): the bootstrap peers in turn.  _record_rejoin_attempt() after it.
AskBootstrap(w) ==
  /\ joining[w] = "ask"
  /\ IF Boots \cap there # {}
     THEN \E b \in Boots \cap there : \E peers \in AnswerOf(b) : Joined(w, peers)
     ELSE joining' = [joining EXCEPT ![w] = "idle"] /\ UNCHANGED <<row, evict>>
  /\ due' = (due /\ w # "sweep")
  /\ UNCHANGED <<worldVars, active, initial, since, evicting, pruneVars>>

JoinSteps == StoreOwnRow \/ Reconnect \/ \E w \in Joiners : AskBootstrap(w)
-----------------------------------------------------------------------------
(* The sweep loop                                                          *)

\* Bootstrap peers the loop can ask
Known == FromConfig \/ initial

\* Mutant of Rejoin: the cleared _bootstrap_peers are asked.
RejoinCleared ==
  /\ joining' = [joining EXCEPT !["sweep"] = "idle"] /\ initial' = initial

Rejoin ==
  /\ joining' = [joining EXCEPT !["sweep"] = "ask"] /\ initial' = TRUE

\* _peer_heartbeat_sweep_loop(), one round
Sweep ==
  /\ running /\ joining["sweep"] = "idle"
  /\ \/ /\ Counted(Table) = 0 /\ since' = "none" /\ UNCHANGED due
        /\ IF Known /\ due THEN Rejoin ELSE UNCHANGED <<joining, initial>>
     \/ /\ Counted(Table) = 1 /\ UNCHANGED due
        /\ CASE since = "none" -> since' = "set" /\ UNCHANGED <<joining, initial>>
             [] since = "set"  -> UNCHANGED <<since, joining, initial>>
             [] since = "long" -> /\ since' = "none"
                                  /\ IF Known /\ due THEN Rejoin ELSE UNCHANGED <<joining, initial>>
     \/ /\ Counted(Table) > 1 /\ since' = "none" /\ due' = TRUE
        /\ UNCHANGED <<joining, initial>>
  /\ UNCHANGED <<worldVars, row, active, evictVars, pruneVars>>

FiveMinutes ==
  /\ since = "set" /\ since' = "long"
  /\ UNCHANGED <<worldVars, row, active, joinVars, due, evictVars, pruneVars>>

BackoffPasses ==
  /\ running /\ ~due /\ due' = TRUE
  /\ UNCHANGED <<worldVars, row, active, joinVars, since, evictVars, pruneVars>>
-----------------------------------------------------------------------------
(* Eviction of the bootstrap peers, and pruning                            *)

\* _evict_bootstrap_peers() decides on one reading of the table,
EvictRead ==
  /\ evict = "wait"
  /\ IF initial /\ Counted(Table \ Boots) >= EvictFloor
     THEN evicting' = Table \cap Boots /\ evict' = "remove"
     ELSE evict' = "idle" /\ UNCHANGED evicting
  /\ UNCHANGED <<worldVars, row, active, joinVars, sweepVars, pruneVars>>

\* and removes the rows one by one.
EvictRemove ==
  /\ evict = "remove"
  /\ IF evicting = {} THEN evict' = "idle" /\ UNCHANGED <<evicting, row>>
     ELSE \E p \in evicting :
            /\ row' = [row EXCEPT ![p] = "none"] /\ evicting' = evicting \ {p} /\ UNCHANGED evict
  /\ UNCHANGED <<worldVars, active, joinVars, sweepVars, pruneVars>>

\* _prune_loop(): who spoke lately,
PruneReads ==
  /\ running /\ pruneAt = "idle" /\ pruneAt' = "touch" /\ alive' = active
  /\ UNCHANGED <<worldVars, row, active, joinVars, sweepVars, evictVars>>

\* is touched,
PruneTouches ==
  /\ pruneAt = "touch" /\ pruneAt' = "count" /\ row' = Touched(alive) /\ alive' = {}
  /\ UNCHANGED <<worldVars, active, joinVars, sweepVars, evictVars>>

\* the rows are counted,
PruneCounts ==
  /\ pruneAt = "count"
  /\ pruneAt' = IF Counted(Table) <= Floor THEN "idle" ELSE "prune"
  /\ UNCHANGED <<worldVars, row, active, joinVars, sweepVars, evictVars, alive>>

\* and prune_stale_peers() removes every stale one, below the floor too.
Prune ==
  /\ pruneAt = "prune" /\ pruneAt' = "idle"
  /\ row' = [p \in Peers |-> IF row[p] = "stale" THEN "none" ELSE row[p]]
  /\ UNCHANGED <<worldVars, active, joinVars, sweepVars, evictVars, alive>>

PruneSteps == PruneReads \/ PruneTouches \/ PruneCounts \/ Prune
EvictSteps == EvictRead \/ EvictRemove
-----------------------------------------------------------------------------
(* The world                                                               *)

PeerLeaves(p) ==
  /\ p \in there /\ there' = there \ {p}
  /\ UNCHANGED <<running, ownRow, row, active, joinVars, sweepVars, evictVars, pruneVars>>

PeerReturns(p) ==
  /\ p \in Peers \ there /\ there' = there \cup {p}
  /\ UNCHANGED <<running, ownRow, row, active, joinVars, sweepVars, evictVars, pruneVars>>

\* The table is all that is left of a node that stops; purge_stale_peers() of
\* the next start takes rows of three days.
NodeEnds ==
  /\ running /\ running' = FALSE
  /\ \E gone \in SUBSET {p \in Peers : row[p] = "stale"} :
       row' = [p \in Peers |-> IF p \in gone THEN "none" ELSE row[p]]
  /\ active' = {} /\ initial' = FALSE /\ joining' = [w \in Joiners |-> "idle"]
  /\ since' = "none" /\ due' = TRUE
  /\ evict' = "idle" /\ evicting' = {} /\ pruneAt' = "idle" /\ alive' = {}
  /\ UNCHANGED <<there, ownRow>>

MembershipNext ==
  \/ \E p \in Peers : \/ PeerSpeaks(p) \/ PeerBeats(p) \/ PeerIntroduces(p)
                      \/ GoesQuiet(p) \/ Ages(p) \/ KadRemoves(p)
                      \/ PeerLeaves(p) \/ PeerReturns(p)
  \/ NodeBegins \/ NodeEnds
  \/ StoreOwnRow \/ Reconnect \/ \E w \in Joiners : AskBootstrap(w)
  \/ Sweep \/ FiveMinutes \/ BackoffPasses \/ EvictSteps \/ PruneSteps

MembershipSpec == MembershipInit /\ [][MembershipNext]_memberVars

\* The loops of a running node run, time passes, joins end.
MembershipFairness ==
  /\ WF_memberVars(JoinSteps) /\ WF_memberVars(Sweep)
  /\ WF_memberVars(FiveMinutes) /\ WF_memberVars(BackoffPasses)
  /\ WF_memberVars(EvictSteps) /\ WF_memberVars(PruneSteps)
  /\ \A p \in Peers : WF_memberVars(GoesQuiet(p)) /\ WF_memberVars(Ages(p))
-----------------------------------------------------------------------------
(* Properties                                                              *)

\* Rows of peers that are gone, too few for the floor to let them be pruned and,
\* with the own row, too many for the sweep to see isolation.
KeptByFloor == Table # {} /\ Table \cap there = {} /\ Counted(Table) \in 2..Floor

\* node.py:6812: while its bootstrap peers are there and in its config, a
\* node comes back to a peer that is there, whoever left, was evicted or pruned.
\* The floor is what stands in the way of it: a node that is left with rows of
\* dead peers only, no more than min_peers with its own, may stay alone with them.
FindsPeers ==
  FromConfig /\ <>[](running /\ Boots \subseteq there)
    => []<>(Table \cap there # {} \/ KeptByFloor)
=============================================================================
