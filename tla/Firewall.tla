------------------------------ MODULE Firewall ------------------------------
(* The firewall plugin.  Inbound, it takes every message that needs no     *)
(* answer on the connection out of the chain of plugins, drops duplicates  *)
(* and hands the others to the node from a queue of its own.  Outbound, it *)
(* sends announcements itself, spaced if the peer has asked for that, and  *)
(* drains what it had to defer at each tick of the heartbeat.              *)
(*                                                                         *)
(* How near a sender is to its limit (windows, weights, roles, groups,     *)
(* pressure bands) is any of three results.  The list of addresses and the *)
(* list of certificates are one set of senders.  Outbound, time is what it *)
(* decides: whether a peer's wish has lapsed and whether its delay is      *)
(* over.                                                                   *)
(***************************************************************************)
EXTENDS DataOps, FiniteSets, SequencesExt

CONSTANTS
  Arrivals,      \* messages that come in and need no answer
  DedupKeyOf,    \* dedup key of each; those with one key are duplicates
  SenderOf,      \* sender of each
  Urgent,        \* results and states of tasks
  PendingMax, HistoryMax, Staleness, DedupTtl,
  Departures,    \* messages that go out
  TargetOf,      \* peer each goes to
  MaxCopies,     \* bound: how often each message comes
  MaxFwTime,     \* bound: inbound time
  MaxTicks       \* bound: drains

ASSUME FirewallAssumption ==
  /\ {PendingMax, HistoryMax, MaxFwTime} \subseteq Nat \ {0}
  /\ {Staleness, DedupTtl, MaxCopies, MaxTicks} \subseteq Nat
  /\ Urgent \subseteq Arrivals

FwKeys  == {DedupKeyOf[m] : m \in Arrivals}
Senders == {SenderOf[m] : m \in Arrivals}
Targets == {TargetOf[m] : m \in Departures}

VARIABLES
  pendingIn,   \* queued messages in the order of their insertion: msg, seen
  history,     \* the same of those taken from the queue
  banned,      \* senders on a blocklist
  inHand,      \* messages whose on_inbound() awaits the warning to the sender
  copies,      \* how often each message came
  handed,      \* history: deliveries of each key
  lastHeard,   \* history: when a message of each key last came
  forgot,      \* history: how often each key was rightly forgotten
  fwTime, fwRunning

VARIABLES
  outAt,       \* "new", "sending", "deferred", "done" or "lost"
  penalty,     \* _penalty_queue
  remaining,   \* of the drain under way
  drained,     \* messages that it has taken and is sending: none or one
  draining,
  lookup,      \* peers it knows
  held,        \* peers with a delay in its view
  warned, blockedBy,   \* peers that asked for a delay, or for nothing at all
  justSent,    \* peers sent to less than their delay ago
  sends,       \* history: sends of each message
  unknown,     \* history: messages dropped since their peer was not known
  ticks

inVars  == <<pendingIn, history, banned, inHand, copies, handed, lastHeard, forgot,
             fwTime, fwRunning>>
outVars == <<outAt, penalty, remaining, drained, draining, lookup, held, warned,
             blockedBy, justSent, sends, unknown, ticks>>
fwVars  == <<inVars, outVars>>

FwItem == [msg : Arrivals, seen : 1..MaxFwTime]

FirewallTypeOK ==
  /\ pendingIn \in Seq(FwItem) /\ history \in Seq(FwItem)
  /\ banned \subseteq Senders /\ inHand \subseteq Arrivals
  /\ copies \in [Arrivals -> 0..MaxCopies] /\ handed \in [FwKeys -> Nat]
  /\ lastHeard \in [FwKeys -> 0..MaxFwTime] /\ forgot \in [FwKeys -> Nat]
  /\ fwTime \in 1..MaxFwTime /\ {fwRunning, draining} \subseteq BOOLEAN
  /\ outAt \in [Departures -> {"new", "sending", "deferred", "done", "lost"}]
  /\ penalty \in Seq(Departures) /\ remaining \in Seq(Departures)
  /\ drained \cup unknown \subseteq Departures
  /\ lookup \cup held \cup warned \cup blockedBy \cup justSent \subseteq Targets
  /\ sends \in [Departures -> Nat] /\ ticks \in 0..MaxTicks

FirewallInit ==
  /\ pendingIn = << >> /\ history = << >> /\ banned = {} /\ inHand = {}
  /\ copies = [m \in Arrivals |-> 0] /\ handed = [k \in FwKeys |-> 0]
  /\ lastHeard = [k \in FwKeys |-> 0] /\ forgot = [k \in FwKeys |-> 0]
  /\ fwTime = 1 /\ fwRunning = TRUE
  /\ outAt = [m \in Departures |-> "new"] /\ penalty = << >> /\ remaining = << >>
  /\ drained = {} /\ draining = FALSE /\ lookup = {} /\ held = {} /\ warned = {}
  /\ blockedBy = {} /\ justSent = {} /\ sends = [m \in Departures |-> 0]
  /\ unknown = {} /\ ticks = 0
-----------------------------------------------------------------------------
(* Inbound                                                                 *)

ItemsOf(q, k) == {i \in DOMAIN q : DedupKeyOf[q[i].msg] = k}
Live(item)    == fwTime - item.seen <= DedupTtl
Seen(q, k)    == [i \in DOMAIN q |-> IF i \in ItemsOf(q, k) THEN [q[i] EXCEPT !.seen = fwTime]
                                     ELSE q[i]]
Purged(q)     == Kept(q, {e \in FwItem : Live(e)})

\* No copy has come for so long that the next one is new.
Lapsed(k) == lastHeard[k] \in 1..fwTime - DedupTtl - 1

Counted(f, keys) == [k \in FwKeys |-> IF k \in keys THEN f[k] + 1 ELSE f[k]]

\* The oldest goes when the queue is over its size, whatever its priority.
Capped(q, max) == IF Len(q) > max THEN Tail(q) ELSE q

\* on_inbound() from the dedup key on, which does not await.
Deduplicate(m) ==
  LET k == DedupKeyOf[m] item == [msg |-> m, seen |-> fwTime]
      known == ItemsOf(Purged(history), k) # {} IN
  /\ lastHeard' = [lastHeard EXCEPT ![k] = fwTime]
  /\ CASE ItemsOf(pendingIn, k) # {} ->
            pendingIn' = Seen(pendingIn, k) /\ UNCHANGED <<history, forgot>>
       [] ItemsOf(pendingIn, k) = {} /\ known ->
            history' = Seen(history, k) /\ UNCHANGED <<pendingIn, forgot>>
       [] OTHER ->
            /\ pendingIn' = Capped(Append(pendingIn, item), PendingMax)
            /\ history' = Kept(history, {e \in FwItem : DedupKeyOf[e.msg] # k})
            /\ forgot' = Counted(forgot, {k} \cap {j \in FwKeys : Lapsed(j)})

\* A message's weight in the window of its sender against the limit for it
Standings == {"fine", "near", "over"}

\* _ban()
Bans(s) == banned' = banned \cup {s}

\* on_inbound(): a banned sender is refused, one over its limit is banned, and
\* a warning to one near it is awaited.
MessageArrives(m) ==
  /\ m \notin inHand /\ copies[m] < MaxCopies /\ copies' = [copies EXCEPT ![m] = @ + 1]
  /\ \E standing \in Standings :
       LET refused == SenderOf[m] \in banned \/ standing = "over" IN
       /\ IF standing = "over" THEN Bans(SenderOf[m]) ELSE UNCHANGED banned
       /\ inHand' = IF ~refused /\ standing = "near" THEN inHand \cup {m} ELSE inHand
       /\ IF ~refused /\ standing = "fine" THEN Deduplicate(m)
          ELSE UNCHANGED <<pendingIn, history, lastHeard, forgot>>
  /\ UNCHANGED <<handed, fwTime, fwRunning, outVars>>

SenderWarned(m) ==
  /\ m \in inHand /\ inHand' = inHand \ {m} /\ Deduplicate(m)
  /\ UNCHANGED <<banned, copies, handed, fwTime, fwRunning, outVars>>

\* The first of the highest priority
Chosen ==
  LET urgent == {i \in DOMAIN pendingIn : pendingIn[i].msg \in Urgent}
      among  == IF urgent = {} THEN DOMAIN pendingIn ELSE urgent IN
  CHOOSE i \in among : \A j \in among : i <= j

\* Mutant of TakesNext: the message is remembered when its delivery has ended.
TakesNextUnremembered ==
  LET item == pendingIn[Chosen] k == DedupKeyOf[item.msg] IN
  /\ fwRunning /\ pendingIn # << >> /\ pendingIn' = RemoveAt(pendingIn, Chosen)
  /\ handed' = Counted(handed, IF fwTime - item.seen <= Staleness THEN {k} ELSE {})
  /\ UNCHANGED <<history, forgot, banned, inHand, copies, lastHeard, fwTime, fwRunning, outVars>>

\* _process_loop(): what waited too long since it was last heard is remembered
\* as well, and not delivered.
TakesNext ==
  LET item == pendingIn[Chosen] k == DedupKeyOf[item.msg]
      over == Len(history) = HistoryMax IN
  /\ fwRunning /\ pendingIn # << >> /\ pendingIn' = RemoveAt(pendingIn, Chosen)
  /\ history' = Capped(Append(history, item), HistoryMax)
  /\ forgot' = Counted(forgot, IF over THEN {DedupKeyOf[history[1].msg]} ELSE {})
  /\ handed' = Counted(handed, IF fwTime - item.seen <= Staleness THEN {k} ELSE {})
  /\ UNCHANGED <<banned, inHand, copies, lastHeard, fwTime, fwRunning, outVars>>

\* on_tick(): HistoryBuffer.cleanup() and the blocklists
TickCleans ==
  /\ history # Purged(history) \/ banned # {}
  /\ history' = Purged(history)
  /\ banned' \in SUBSET banned
  /\ UNCHANGED <<pendingIn, inHand, copies, handed, lastHeard, forgot, fwTime, fwRunning, outVars>>

FwTimePasses ==
  /\ fwTime < MaxFwTime /\ fwTime' = fwTime + 1
  /\ UNCHANGED <<pendingIn, history, banned, inHand, copies, handed, lastHeard, forgot,
                 fwRunning, outVars>>

\* on_shutdown()
FirewallStops ==
  /\ fwRunning /\ fwRunning' = FALSE
  /\ UNCHANGED <<pendingIn, history, banned, inHand, copies, handed, lastHeard, forgot,
                 fwTime, outVars>>

FirewallInNext ==
  \/ \E m \in Arrivals : MessageArrives(m) \/ SenderWarned(m)
  \/ TakesNext \/ TickCleans \/ FwTimePasses \/ FirewallStops
-----------------------------------------------------------------------------
(* Outbound                                                                *)

Sent(m) == sends' = [sends EXCEPT ![m] = @ + 1] /\ outAt' = [outAt EXCEPT ![m] = "done"]
\* _sent_buffer
Recently(p) ==
  /\ justSent' = justSent \cup {p}
  /\ held' = IF draining THEN held \cup {p} ELSE held

\* on_outbound() up to its send
GoesOut(m) ==
  LET p == TargetOf[m] IN
  /\ outAt[m] = "new"
  /\ \/ /\ p \in blockedBy /\ outAt' = [outAt EXCEPT ![m] = "done"] /\ UNCHANGED penalty
     \/ /\ p \notin blockedBy /\ p \in warned \cap justSent
        /\ outAt' = [outAt EXCEPT ![m] = "deferred"] /\ penalty' = Append(penalty, m)
     \/ /\ p \notin blockedBy /\ p \notin warned \cap justSent
        /\ outAt' = [outAt EXCEPT ![m] = "sending"] /\ UNCHANGED penalty
  /\ UNCHANGED <<inVars, remaining, drained, draining, lookup, held, warned, blockedBy,
                 justSent, sends, unknown, ticks>>

HasGone(m) ==
  /\ outAt[m] = "sending" /\ Sent(m) /\ Recently(TargetOf[m])
  /\ UNCHANGED <<inVars, penalty, remaining, drained, draining, lookup, warned,
                 blockedBy, unknown, ticks>>

\* drain_penalty_queue()
DrainStarts ==
  /\ ~draining /\ draining' = TRUE /\ ticks < MaxTicks /\ ticks' = ticks + 1
  /\ lookup' \in SUBSET Targets /\ held' = justSent
  /\ UNCHANGED <<inVars, outAt, penalty, remaining, drained, warned, blockedBy, justSent,
                 sends, unknown>>

\* The next message is dropped, sent or kept.
DrainTakes ==
  LET m == Head(penalty) p == TargetOf[m] IN
  /\ draining /\ drained = {} /\ penalty # << >> /\ penalty' = Tail(penalty)
  /\ CASE p \notin lookup ->
            /\ outAt' = [outAt EXCEPT ![m] = "lost"] /\ unknown' = unknown \cup {m}
            /\ UNCHANGED <<drained, remaining>>
       [] p \in lookup /\ p \notin warned \cap held ->
            drained' = {m} /\ UNCHANGED <<outAt, unknown, remaining>>
       [] OTHER -> remaining' = Append(remaining, m) /\ UNCHANGED <<outAt, unknown, drained>>
  /\ UNCHANGED <<inVars, draining, lookup, held, warned, blockedBy, justSent, sends, ticks>>

DrainSends(m) ==
  /\ m \in drained /\ drained' = {} /\ Sent(m) /\ Recently(TargetOf[m])
  /\ UNCHANGED <<inVars, penalty, remaining, draining, lookup, warned, blockedBy,
                 unknown, ticks>>

\* The loop ends with nothing left, so that a message deferred while it
\* awaited a send is taken too,
Emptied == penalty = << >>

\* and what remains becomes the queue.
DrainEnds ==
  /\ draining /\ drained = {} /\ Emptied /\ draining' = FALSE
  /\ penalty' = remaining /\ remaining' = << >> /\ held' = {} /\ lookup' = {}
  /\ UNCHANGED <<inVars, outAt, drained, warned, blockedBy, justSent, sends, unknown, ticks>>

\* Warn and Blocked from the peer, which on_inbound() takes, the end of the
\* time they are honoured, and the end of its delay
PeerAsks(p) ==
  /\ \/ warned' = warned \cup {p} /\ UNCHANGED <<blockedBy, justSent>>
     \/ blockedBy' = blockedBy \cup {p} /\ UNCHANGED <<warned, justSent>>
     \/ warned' = warned \ {p} /\ UNCHANGED <<blockedBy, justSent>>
     \/ blockedBy' = blockedBy \ {p} /\ UNCHANGED <<warned, justSent>>
     \/ justSent' = justSent \ {p} /\ UNCHANGED <<warned, blockedBy>>
  /\ UNCHANGED <<inVars, outAt, penalty, remaining, drained, draining, lookup, held,
                 sends, unknown, ticks>>

FirewallOutNext ==
  \/ \E m \in Departures : GoesOut(m) \/ HasGone(m) \/ DrainSends(m)
  \/ DrainStarts \/ DrainTakes \/ DrainEnds
  \/ \E p \in Targets : PeerAsks(p)

FirewallSpec == FirewallInit /\ [][FirewallInNext \/ FirewallOutNext]_fwVars
-----------------------------------------------------------------------------
(* Properties                                                              *)

Places(m) ==
  Cardinality({i \in DOMAIN penalty : penalty[i] = m})
    + Cardinality({i \in DOMAIN remaining : remaining[i] = m})
    + Cardinality(drained \cap {m}) + sends[m]

\* handler.py:37 and :168: however copies, the queue, the history and the
\* cleanups interleave, a message reaches the node again only if no copy was
\* heard for DedupTtl or the history was full; and a message that is deferred
\* waits, is kept or is sent, once, although others are deferred while the
\* drain awaits a send: only one whose peer is not known is dropped.
OnceEach ==
  /\ \A k \in FwKeys : handed[k] <= 1 + forgot[k]
  /\ \A m \in Departures : /\ outAt[m] = "deferred" => Places(m) = 1
                           /\ outAt[m] = "lost" => m \in unknown
                           /\ sends[m] <= 1
=============================================================================
