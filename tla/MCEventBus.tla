----------------------------- MODULE MCEventBus -----------------------------
(* An instance of EventBus for TLC: an immediate event and two deferred    *)
(* ones of which one expires, a ring of two slots.                         *)
EXTENDS EventBus

CONSTANTS e1, e2, e3, s1

MCEvents == {e1, e2, e3}
MCSubs   == {s1}
\* The event that expires is not one the subscriber matches.
MCWants  == [s \in Subs |-> {e1, e2}]
MCFrom   == [e \in Events |-> IF e = e1 THEN 0 ELSE IF e = e2 THEN 2 ELSE 1]
MCUntil  == [e \in Events |-> IF e = e3 THEN 2 ELSE 0]
=============================================================================
