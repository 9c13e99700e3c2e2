----------------------------- MODULE KadRouting -----------------------------
(***************************************************************************)
(* One bucket of the Kademlia routing table: contacts in the order they    *)
(* were last seen, a newcomer that waits for the oldest to fail a ping,    *)
(* the sweep that drops a silent contact, and the tick that drives it all  *)
(* from the peer table of the node.                                        *)
(***************************************************************************)
EXTENDS Naturals, Sequences, FiniteSets, SequencesExt

CONSTANTS
  RowOrder,    \* peers whose distance falls into the bucket, in the order
               \* in which the rows of the peer table are read
  K,           \* size of the bucket
  HostOf,      \* address of each peer
  MaxSameHost, \* contacts of one address (2)
  Rotation,    \* ticks in which every bucket is swept once (32)
  MaxMoves,    \* bound: peers that enter or leave the peer table
  NoOne

Contacts == ToSet(RowOrder)

ASSUME RoutingAssumption ==
  /\ IsInjective(RowOrder) /\ {K, MaxSameHost, Rotation} \subseteq Nat \ {0}
  /\ DOMAIN HostOf = Contacts /\ MaxMoves \in Nat /\ NoOne \notin Contacts

VARIABLES
  bucket,    \* the contacts, oldest first
  waiting,   \* _pending_evictions: contact -> newcomer
  silent,    \* contacts not seen for two minutes
  pinged,    \* "no" if _ping_sent_at has no entry, "sent", "late" after ten
             \* seconds, or "answered" if the last PONG is not older
  pings,     \* peers with a PING to them or its PONG on the way, or lost
  peersKnown,\* the peer table of the node
  tick,      \* on_tick(): "idle", "refresh" or "resolve"
  tickLeft,  \* and the peers it still goes through
  sweepIn,   \* ticks until the sweep, _sweep_bucket_idx, is at the bucket
  moves

routingVars == <<bucket, waiting, silent, pinged, pings, peersKnown, tick,
                 tickLeft, sweepIn, moves>>

RoutingTypeOK ==
  /\ bucket \in SeqOf(Contacts, K) /\ IsInjective(bucket)
  /\ waiting \in [Contacts -> Contacts \cup {NoOne}]
  /\ pinged \in [Contacts -> {"no", "sent", "late", "answered"}]
  /\ silent \subseteq Contacts /\ pings \subseteq Contacts /\ peersKnown \subseteq Contacts
  /\ moves \in 0..MaxMoves /\ sweepIn \in 0..Rotation - 1
  /\ tick \in {"idle", "refresh", "resolve"} /\ ToSet(tickLeft) \subseteq Contacts

RoutingInit ==
  /\ bucket = <<>> /\ waiting = [c \in Contacts |-> NoOne] /\ silent = {}
  /\ pinged = [c \in Contacts |-> "no"] /\ pings = {}
  /\ peersKnown \in SUBSET Contacts /\ moves = 0 /\ tick = "idle" /\ tickLeft = <<>>
  /\ sweepIn \in 0..Rotation - 1
-----------------------------------------------------------------------------
(* The table                                                               *)

Held == ToSet(bucket)

\* add_peer() on a table with contacts b, pending evictions w and silent ones s
Add(b, w, s, c) ==
  LET room == Cardinality({x \in ToSet(b) : HostOf[x] = HostOf[c]}) < MaxSameHost
      held == c \in ToSet(b)
  IN /\ bucket'  = IF held THEN Append(Remove(b, c), c)
                   ELSE IF room /\ Len(b) < K THEN Append(b, c) ELSE b
     /\ waiting' = IF ~held /\ room /\ Len(b) >= K THEN [w EXCEPT ![b[1]] = c] ELSE w
     /\ silent'  = s \ {c}

\* Mutant of Forgotten: pending evictions are left to the tick.
ForgottenLater(c) == waiting

\* remove_peer() also ends the pending eviction of a contact and those it is the
\* newcomer of.  When its PING was sent the plugin remembers, and keeps.
Forgotten(c) ==
  [x \in Contacts |-> IF x = c \/ waiting[x] = c THEN NoOne ELSE waiting[x]]

Resolved(c) == [waiting EXCEPT ![c] = NoOne]
-----------------------------------------------------------------------------
(* on_tick(): no other step comes between those of a tick                  *)

Between == tick = "idle" /\ UNCHANGED <<tick, tickLeft, sweepIn>>

\* Every peer of the table counts as seen.  A tick without peers or contacts
\* changes nothing.
TickStarts ==
  /\ peersKnown # {} \/ bucket # <<>> \/ \E c \in Contacts : waiting[c] # NoOne
  /\ tick = "idle" /\ tick' = "refresh" /\ tickLeft' = SelectSeq(RowOrder, LAMBDA c : c \in peersKnown)
  /\ UNCHANGED <<bucket, waiting, silent, pinged, pings, peersKnown, sweepIn, moves>>

TickRefreshes ==
  /\ tick = "refresh" /\ tickLeft # <<>> /\ Add(bucket, waiting, silent, Head(tickLeft))
  /\ tickLeft' = Tail(tickLeft) /\ UNCHANGED <<tick, pinged, pings, peersKnown, sweepIn, moves>>

\* _sweep_k_buckets(), eight buckets in a tick: one that is looked at loses its
\* oldest contact if that is silent, and so does the peer table.
TickSweeps ==
  LET drop == sweepIn = 0 /\ bucket # <<>> /\ Head(bucket) \in silent
      c    == Head(bucket)
      due  == {x \in Contacts : waiting'[x] # NoOne}
  IN /\ tick = "refresh" /\ tickLeft = <<>>
     /\ bucket' = IF drop THEN Tail(bucket) ELSE bucket
     /\ waiting' = IF drop THEN Forgotten(c) ELSE waiting
     /\ silent' = IF drop THEN silent \ {c} ELSE silent
     /\ peersKnown' = IF drop THEN peersKnown \ {c} ELSE peersKnown
     /\ tickLeft' = SelectSeq(RowOrder, LAMBDA x : x \in due)
     /\ tick' = IF due = {} THEN "idle" ELSE "resolve"
     /\ sweepIn' = IF sweepIn = 0 THEN Rotation - 1 ELSE sweepIn - 1
     /\ UNCHANGED <<pinged, pings, moves>>

\* _resolve_pending_evictions(), for the next of the contacts that were pending
TickResolves ==
  LET c == Head(tickLeft) IN
  /\ tick = "resolve"
  /\ \/ \* no PING yet
        /\ pinged[c] = "no" /\ c \in peersKnown
        /\ pinged' = [pinged EXCEPT ![c] = "sent"] /\ pings' = pings \cup {c}
        /\ UNCHANGED <<bucket, waiting, silent>>
     \/ \* answered: resolve_keep_oldest()
        /\ pinged[c] = "answered" /\ pinged' = [pinged EXCEPT ![c] = "no"]
        /\ IF c \in Held /\ waiting[c] # NoOne THEN Add(bucket, Resolved(c), silent, c)
           ELSE waiting' = Resolved(c) /\ UNCHANGED <<bucket, silent>>
        /\ UNCHANGED pings
     \/ \* too late: resolve_evict_oldest()
        /\ pinged[c] = "late" /\ pinged' = [pinged EXCEPT ![c] = "no"]
        /\ IF waiting[c] = NoOne THEN UNCHANGED <<bucket, waiting, silent>>
           ELSE Add(Remove(bucket, c), [Forgotten(c) EXCEPT ![c] = NoOne], silent \ {c}, waiting[c])
        /\ UNCHANGED pings
     \/ /\ IF pinged[c] = "no" THEN c \notin peersKnown ELSE pinged[c] = "sent"
        /\ UNCHANGED <<bucket, waiting, silent, pinged, pings>>
  /\ tickLeft' = Tail(tickLeft) /\ tick' = IF Tail(tickLeft) = <<>> THEN "idle" ELSE "resolve"
  /\ UNCHANGED <<peersKnown, sweepIn, moves>>
-----------------------------------------------------------------------------
(* Messages and time                                                       *)

\* on_inbound() and on_outbound(): a message from or to a peer of the table.
Traffic(c) ==
  /\ Between /\ c \in peersKnown /\ Add(bucket, waiting, silent, c)
  /\ UNCHANGED <<pinged, pings, peersKnown, moves>>

\* _handle_ping() of a peer that is alive and knows this node, and _record_pong()
\* here; a PONG is a message of its sender like any other.
PongArrives(c) ==
  /\ Between /\ c \in pings /\ pings' = pings \ {c}
  /\ IF c \in peersKnown THEN Add(bucket, waiting, silent, c) ELSE UNCHANGED <<bucket, waiting, silent>>
  /\ pinged' = [pinged EXCEPT ![c] = IF @ = "no" THEN "no" ELSE "answered"]
  /\ UNCHANGED <<peersKnown, moves>>

\* Ten and 120 seconds pass, also while a tick runs.
PingLate(c) ==
  /\ pinged[c] = "sent" /\ pinged' = [pinged EXCEPT ![c] = "late"]
  /\ UNCHANGED <<bucket, waiting, silent, pings, peersKnown, tick, tickLeft, sweepIn, moves>>

FallsSilent(c) ==
  /\ c \in Held \ silent /\ (tick = "idle" \/ c \notin peersKnown) /\ silent' = silent \cup {c}
  /\ UNCHANGED <<bucket, waiting, pinged, pings, peersKnown, tick, tickLeft, sweepIn, moves>>

\* A peer joins or is announced; it is pruned or removed.
PeerMoves(c) ==
  /\ Between /\ moves < MaxMoves /\ moves' = moves + 1
  /\ peersKnown' = IF c \in peersKnown THEN peersKnown \ {c} ELSE peersKnown \cup {c}
  /\ UNCHANGED <<bucket, waiting, silent, pinged, pings>>

RoutingNext ==
  \/ \E c \in Contacts : \/ Traffic(c) \/ PongArrives(c) \/ PingLate(c)
                         \/ FallsSilent(c) \/ PeerMoves(c)
  \/ TickStarts \/ TickRefreshes \/ TickSweeps \/ TickResolves

RoutingSpec == RoutingInit /\ [][RoutingNext]_routingVars

\* The node ticks and time passes.
RoutingFairness ==
  /\ WF_routingVars(TickStarts) /\ WF_routingVars(TickRefreshes \/ TickResolves)
  /\ WF_routingVars(TickSweeps)
  /\ \A c \in Contacts : WF_routingVars(PingLate(c)) /\ WF_routingVars(FallsSilent(c))
RoutingFair == RoutingSpec /\ RoutingFairness
-----------------------------------------------------------------------------
(* Properties                                                              *)

\* kbuckets.py:110 and :249: a newcomer does not wait for ever: the oldest
\* contact answers, is evicted or is swept, or another newcomer takes its
\* place, also when the oldest is no longer a peer that could be pinged.
PendingResolves ==
  \A c \in Contacts : \A d \in Contacts \ {c} : waiting[c] = d ~> waiting[c] # d
=============================================================================
