--------------------------- MODULE MCTaskPipeline ---------------------------
(* Instances of TaskPipeline for TLC: three requests, of one caller or of  *)
(* two remote ones and the node itself.                                    *)
EXTENDS TaskPipeline

CONSTANTS r1, r2, r3, p1, p2, p3, h1, h2

MCReqs       == {r1, r2, r3}
MCPeers      == {p1}
MCThreePeers == {p1, p2, p3}

OneCaller    == [r \in Reqs |-> p1]
LocalCaller  == [r \in Reqs |-> IF r = r3 THEN p2 ELSE p1]
OwnCaller    == [r \in Reqs |-> IF r = r1 THEN p1 ELSE p3]

\* r1 and r2 are the same skill, input and caller ...
TwinHash == [r \in Reqs |-> IF r = r3 THEN h2 ELSE h1]
\* ... or every request is its own
OwnHash  == [r \in Reqs |-> r]

TightLimit == -3
=============================================================================
