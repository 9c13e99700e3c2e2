------------------------------ MODULE MCEconomy -----------------------------
(* An instance for TLC of settlement, payments without the websocket, the  *)
(* warehouse, the routing table, and mail with many faults, under their    *)
(* fairness.  A behaviour is one scene; the variables of the others keep   *)
(* their first values, with which none of their fair actions is enabled.   *)
EXTENDS MailSync, Settlement, Payments, Warehouse, KadRouting, TLC

CONSTANTS i1, p1, t1, a, x1, x2, x3, c1, c2, c3

MCTaskPeer == t1 :> p1
MCHard     == -4
MCTx       == x1 :> 1 @@ x2 :> 1 @@ x3 :> 2
MCPayee    == x1 :> a @@ x2 :> a @@ x3 :> a
MCRows     == <<c1, c2, c3>>
MCHost     == c1 :> c1 @@ c2 :> c2 @@ c3 :> c3
\* At most one gate fails, with the gates of one rule or all of them.
MCDocKinds ==
  {k \in DocKind :
     /\ k.fails \in {{}, {1}, {3}, {5}} /\ k.gates \in {{1, 3, 4}, 1..5}
     /\ (k.route # "uri" => k.wall) /\ (k.trusted => k.commerce)
     /\ (k.route = "legacy" => k.fails = {} /\ k.gates = 1..5 /\ k.commerce /\ k.proof)}

VARIABLE scene
mailVars  == vars
sceneVars == <<scene, mailVars, settleVars, payVars, wmVars, routingVars>>

MCInit ==
  /\ scene \in {"mail", "settlement", "payments", "warehouse", "routing"}
  /\ wsUsable = FALSE
  /\ doc \in IF scene = "warehouse" THEN [Docs -> DocKinds]
             ELSE {[d \in Docs |-> CHOOSE k \in DocKinds : TRUE]}
  /\ peersKnown \in IF scene = "routing" THEN SUBSET Contacts ELSE {{}}
  /\ sweepIn \in IF scene = "routing" THEN 0..Rotation - 1 ELSE {0}
  /\ Init /\ SettlementInit /\ PaymentsInit /\ WarehouseInit /\ RoutingInit

MCNext ==
  \/ scene = "routing" /\ RoutingNext
     /\ UNCHANGED <<scene, mailVars, settleVars, payVars, wmVars>>
  \/ scene = "mail" /\ Next
     /\ UNCHANGED <<scene, routingVars, settleVars, payVars, wmVars>>
  \/ scene = "settlement" /\ SettlementNext
     /\ UNCHANGED <<scene, routingVars, mailVars, payVars, wmVars>>
  \/ scene = "payments" /\ PaymentsNext
     /\ UNCHANGED <<scene, routingVars, mailVars, settleVars, wmVars>>
  \/ scene = "warehouse" /\ WarehouseNext
     /\ UNCHANGED <<scene, routingVars, mailVars, settleVars, payVars>>

MCSpec ==
  /\ MCInit /\ [][MCNext]_sceneVars
  /\ Fairness /\ SettlementFairness /\ PaymentsFairness /\ WarehouseFairness
  /\ RoutingFairness
=============================================================================
