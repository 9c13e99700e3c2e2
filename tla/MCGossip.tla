------------------------------ MODULE MCGossip ------------------------------
(* An instance for TLC of Gossip, with a provider and two other nodes, and *)
(* of Membership, with a bootstrap peer and another one.  A behaviour is   *)
(* one scene; the other one keeps its first values, with which none of its *)
(* fair actions is enabled.                                                *)
EXTENDS Gossip, Membership

CONSTANTS n0, n1, n2, b1, p1

VARIABLE scene
sceneVars == <<scene, gossipVars, memberVars>>

MCInit ==
  /\ scene \in {"gossip", "membership"}
  /\ GossipInit /\ MembershipInit

MCNext ==
  \/ scene = "gossip" /\ GossipNext
     /\ UNCHANGED <<scene, memberVars>>
  \/ scene = "membership" /\ MembershipNext
     /\ UNCHANGED <<scene, gossipVars>>

MCSpec ==
  /\ MCInit /\ [][MCNext]_sceneVars
  /\ GossipFairness /\ MembershipFairness
=============================================================================
