------------------------------- MODULE MCPool -------------------------------
(* An instance of ConnectionPool for TLC: two messages to one peer.        *)
EXTENDS ConnectionPool, TLC

CONSTANTS m1, m2, q1

MCPeerOf == m1 :> q1 @@ m2 :> q1
=============================================================================
