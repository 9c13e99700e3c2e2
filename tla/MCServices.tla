----------------------------- MODULE MCServices -----------------------------
(* An instance for TLC of services of the node that do not call each       *)
(* other: mail, the bus loops, the punchhole cache, the watchman, the Tor  *)
(* plugin, the connection pool, provider records, the circuit budget,      *)
(* payments with and without the websocket, the caller's side of tasks,    *)
(* once for a command and once for jobs, the archive and the read cache of *)
(* the storage strategy plugin, both sides of the firewall, and prices.  A *)
(* behaviour is one scene; the variables of the other modules keep their   *)
(* first values.                                                           *)
EXTENDS MailSync, BusLoop, PunchholeCache, Watchman, TorPlugin, ConnectionPool,
        KadProviders, CircuitBudget, Payments, CallerSide, Archive, ReadCache,
        Firewall, Pricing

CONSTANTS
  i1, i2, e1, e2, e3, protocol, identity, a1, a2, o1, o2, m1, m2, m3, q1, q2,
  s1, s2, h1, h2, b1, b2, b3, k1, k2, a, x1, x2, x3,
  cmd, j1, j2, input, r1, r2, r3, rl, el, g1, g2,
  f1, f2, f3, fk1, fk2, fs, d1, d2, d3, t1

MCItems    == {i1, i2}
MCBusOf    == e1 :> protocol @@ e2 :> identity @@ e3 :> identity
MCAccess   == o1 :> "known_hosts" @@ o2 :> "peer"
MCListed   == a1 :> "peer" @@ a2 :> "trusted"
MCPeerOf   == m1 :> q1 @@ m2 :> q1 @@ m3 :> q2
MCRemote   == {<<s1, h1>>}
MCKeyOf    == b1 :> k1 @@ b2 :> k1 @@ b3 :> k2
MCTx       == x1 :> 1 @@ x2 :> 1 @@ x3 :> 2
MCPayee    == x1 :> a @@ x2 :> a @@ x3 :> a
MCInputs   == j1 :> input @@ j2 :> input
MCTableOf  == r1 :> rl @@ r2 :> rl @@ r3 :> el
MCTables   == <<rl, el>>
MCDedup    == f1 :> fk1 @@ f2 :> fk1 @@ f3 :> fk2
MCSender   == [m \in Arrivals |-> fs]
MCTarget   == [m \in Departures |-> t1]

VARIABLE scene
mailVars  == vars
sceneVars == <<scene, mailVars, loopVars, punchVars, watchmanVars, torVars, poolVars,
               providerVars, budgetVars, payVars, callerVars, archiveVars, cacheVars,
               fwVars, quote>>

MCInit ==
  /\ scene \in {"mail", "bus", "punchhole", "watchman", "tor", "pool", "providers",
                "budget", "payments", "command", "jobs", "archive", "cache",
                "inbound", "outbound", "pricing"}
  /\ wsUsable \in IF scene = "payments" THEN BOOLEAN ELSE {FALSE}
  /\ auto \in IF scene = "watchman" THEN BOOLEAN ELSE {FALSE}
  /\ torProcess \in IF scene = "tor" THEN {"none", "other", "up"} ELSE {"none"}
  /\ onionFile \in IF scene = "tor" THEN BOOLEAN ELSE {FALSE}
  /\ Init /\ LoopInit /\ PunchInit /\ WatchmanInit /\ TorInit /\ PoolInit
  /\ ProviderInit /\ BudgetInit /\ PaymentsInit /\ CallerInit
  /\ ArchiveInit /\ CacheInit /\ FirewallInit /\ PricingInit

MCNext ==
  \/ scene = "mail" /\ Next
     /\ UNCHANGED <<scene, loopVars, punchVars, watchmanVars, torVars,
                    poolVars, providerVars, budgetVars, payVars, callerVars,
                    archiveVars, cacheVars, fwVars, quote>>
  \/ scene = "bus" /\ LoopNext
     /\ UNCHANGED <<scene, mailVars, punchVars, watchmanVars, torVars,
                    poolVars, providerVars, budgetVars, payVars, callerVars,
                    archiveVars, cacheVars, fwVars, quote>>
  \/ scene = "punchhole" /\ PunchNext
     /\ UNCHANGED <<scene, mailVars, loopVars, watchmanVars, torVars,
                    poolVars, providerVars, budgetVars, payVars, callerVars,
                    archiveVars, cacheVars, fwVars, quote>>
  \/ scene = "watchman" /\ WatchmanNext
     /\ UNCHANGED <<scene, mailVars, loopVars, punchVars, torVars, poolVars,
                    providerVars, budgetVars, payVars, callerVars,
                    archiveVars, cacheVars, fwVars, quote>>
  \/ scene = "tor" /\ TorNext
     /\ UNCHANGED <<scene, mailVars, loopVars, punchVars, watchmanVars,
                    poolVars, providerVars, budgetVars, payVars, callerVars,
                    archiveVars, cacheVars, fwVars, quote>>
  \/ scene = "pool" /\ PoolNext
     /\ UNCHANGED <<scene, mailVars, loopVars, punchVars, watchmanVars,
                    torVars, providerVars, budgetVars, payVars, callerVars,
                    archiveVars, cacheVars, fwVars, quote>>
  \/ scene = "providers" /\ ProviderNext
     /\ UNCHANGED <<scene, mailVars, loopVars, punchVars, watchmanVars,
                    torVars, poolVars, budgetVars, payVars, callerVars,
                    archiveVars, cacheVars, fwVars, quote>>
  \/ scene = "budget" /\ BudgetNext
     /\ UNCHANGED <<scene, mailVars, loopVars, punchVars, watchmanVars,
                    torVars, poolVars, providerVars, payVars, callerVars,
                    archiveVars, cacheVars, fwVars, quote>>
  \/ scene = "payments" /\ PaymentsNext
     /\ UNCHANGED <<scene, mailVars, loopVars, punchVars, watchmanVars,
                    torVars, poolVars, providerVars, budgetVars, callerVars,
                    archiveVars, cacheVars, fwVars, quote>>
  \/ scene = "command" /\ CommandNext
     /\ UNCHANGED <<scene, mailVars, loopVars, punchVars, watchmanVars,
                    torVars, poolVars, providerVars, budgetVars, payVars,
                    archiveVars, cacheVars, fwVars, quote>>
  \/ scene = "jobs" /\ JobNext
     /\ UNCHANGED <<scene, mailVars, loopVars, punchVars, watchmanVars,
                    torVars, poolVars, providerVars, budgetVars, payVars,
                    archiveVars, cacheVars, fwVars, quote>>
  \/ scene = "archive" /\ ArchiveNext
     /\ UNCHANGED <<scene, mailVars, loopVars, punchVars, watchmanVars,
                    torVars, poolVars, providerVars, budgetVars, payVars,
                    callerVars, cacheVars, fwVars, quote>>
  \/ scene = "cache" /\ CacheNext
     /\ UNCHANGED <<scene, mailVars, loopVars, punchVars, watchmanVars,
                    torVars, poolVars, providerVars, budgetVars, payVars,
                    callerVars, archiveVars, fwVars, quote>>
  \/ scene = "inbound" /\ FirewallInNext
     /\ UNCHANGED <<scene, mailVars, loopVars, punchVars, watchmanVars,
                    torVars, poolVars, providerVars, budgetVars, payVars,
                    callerVars, archiveVars, cacheVars, quote>>
  \/ scene = "outbound" /\ FirewallOutNext
     /\ UNCHANGED <<scene, mailVars, loopVars, punchVars, watchmanVars,
                    torVars, poolVars, providerVars, budgetVars, payVars,
                    callerVars, archiveVars, cacheVars, quote>>
  \/ scene = "pricing" /\ PricingNext
     /\ UNCHANGED <<scene, mailVars, loopVars, punchVars, watchmanVars,
                    torVars, poolVars, providerVars, budgetVars, payVars,
                    callerVars, archiveVars, cacheVars, fwVars>>

MCSpec == MCInit /\ [][MCNext]_sceneVars
=============================================================================
