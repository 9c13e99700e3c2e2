---------------------------- MODULE CircuitBudget ----------------------------
(***************************************************************************)
(* The sliding-window limits on Tor circuits: _CircuitBudget of the tor    *)
(* plugin (plugins/tor/handler.py), which ConnectionPool._open asks before *)
(* it dials an onion address.  Three logs of times are kept: one per peer, *)
(* one per public key (so that several ids of one key share a bucket) and  *)
(* one for all; a call drops what has left the window, refuses when a log  *)
(* is full and otherwise records the dial in each of them.  Every so many  *)
(* calls the buckets of silent peers and keys are dropped as a whole.      *)
(***************************************************************************)
EXTENDS DataOps, FiniteSets, SequencesExt

CONSTANTS
  TorPeers,      \* peers
  KeyOf,        \* and the public key of each
  PerPeer,      \* circuits per peer, and per key, in a window
  Global,       \* circuits in a window
  Window,       \* length of the window
  SweepEvery,   \* _cleanup_interval (128)
  MaxTime       \* bound: time up to which calls are made

ASSUME BudgetAssumption ==
  /\ {PerPeer, Global, SweepEvery} \subseteq Nat \ {0}
  /\ {Window, MaxTime} \subseteq Nat

VARIABLES
  clock,      \* time.monotonic()
  ofPeer,     \* _per_peer: times of the dials of each peer
  ofKey,      \* _per_pubkey
  ofAll,      \* _global
  asked,      \* _call_count
  keyCached,       \* peers whose key the pool has cached
  dials       \* history: dials that were allowed, [peer, keyed, at]

budgetVars == <<clock, ofPeer, ofKey, ofAll, asked, keyCached, dials>>

Keys == {KeyOf[p] : p \in TorPeers}
Times == 0..MaxTime

BudgetTypeOK ==
  /\ clock \in Times
  /\ ofPeer \in [TorPeers -> Seq(Times)]
  /\ ofKey \in [Keys -> Seq(Times)]
  /\ ofAll \in Seq(Times)
  /\ asked \in 0..(SweepEvery - 1)
  /\ keyCached \subseteq TorPeers
  /\ dials \in Seq([peer: TorPeers, keyed: BOOLEAN, at: Times])

BudgetInit ==
  /\ clock = 0
  /\ ofPeer = [p \in TorPeers |-> <<>>]
  /\ ofKey = [k \in Keys |-> <<>>]
  /\ ofAll = <<>>
  /\ asked = 0
  /\ keyCached = {}
  /\ dials = <<>>

\* _prune(): times strictly before the window are dropped.
Pruned(log) == Kept(log, {t \in Times : t >= clock - Window})

SweptByFirst(logs) ==
  [x \in DOMAIN logs |-> IF logs[x] # <<>> /\ Head(logs[x]) < clock - Window
                         THEN <<>> ELSE logs[x]]

\* _sweep_stale(): buckets whose last dial has left the window are dropped.
Swept(logs) ==
  [x \in DOMAIN logs |-> IF logs[x] # <<>> /\ Last(logs[x]) < clock - Window
                         THEN <<>> ELSE logs[x]]

\* ConnectionPool._open() asks for a circuit to p; pubkey_hex is given when
\* the key is cached.  The checks come in the order global, peer, key, and
\* a log is pruned only when the checks before it have passed.
Allow(p) ==
  LET due   == asked + 1 >= SweepEvery
      peers == IF due THEN Swept(ofPeer) ELSE ofPeer
      keys  == IF due THEN Swept(ofKey) ELSE ofKey
      all   == Pruned(ofAll)
      mine  == Pruned(peers[p])
      k     == KeyOf[p]
      ours  == Pruned(keys[k])
      open  == Len(all) < Global
      free  == open /\ Len(mine) < PerPeer
      keyed == p \in keyCached
      ok    == free /\ (keyed => Len(ours) < PerPeer)
      With(log) == IF ok THEN Append(log, clock) ELSE log
  IN /\ asked' = IF due THEN 0 ELSE asked + 1
     /\ ofAll' = With(all)
     /\ ofPeer' = IF open THEN [peers EXCEPT ![p] = With(mine)] ELSE peers
     /\ ofKey' = IF free /\ keyed THEN [keys EXCEPT ![k] = With(ours)] ELSE keys
     /\ dials' = IF ok THEN Append(dials, [peer |-> p, keyed |-> keyed, at |-> clock])
                 ELSE dials
     /\ keyCached' = keyCached \union {p}
     /\ UNCHANGED clock

Passes ==
  /\ clock < MaxTime
  /\ clock' = clock + 1
  /\ UNCHANGED <<ofPeer, ofKey, ofAll, asked, keyCached, dials>>

BudgetNext == Passes \/ \E p \in TorPeers : Allow(p)

BudgetSpec == BudgetInit /\ [][BudgetNext]_budgetVars

(***************************************************************************)
(* Properties                                                              *)
(***************************************************************************)
DialsIn(D, t) == {i \in D : dials[i].at \in (t - Window)..t}
DialsTo(p)    == {i \in DOMAIN dials : dials[i].peer = p}
KeyedDials(k) == {i \in DOMAIN dials : dials[i].keyed /\ KeyOf[dials[i].peer] = k}

\* Wherever a window is laid over the time line, and whatever the pruning
\* and the sweeps have thrown away, it holds at most Global dials, at most
\* PerPeer to one peer and at most PerPeer to the peers of one key, not
\* counting dials made before the pool had cached the key (the gap that
\* _pubkey_hex_for() documents).
WithinBudget ==
  \A t \in Times :
    /\ Cardinality(DialsIn(DOMAIN dials, t)) <= Global
    /\ \A p \in TorPeers : Cardinality(DialsIn(DialsTo(p), t)) <= PerPeer
    /\ \A k \in Keys : Cardinality(DialsIn(KeyedDials(k), t)) <= PerPeer
=============================================================================
