---------------------------- MODULE MailDelivery ----------------------------
(***************************************************************************)
(* What mail between two nodes promises, without pushes, pulls, answers,   *)
(* retries and backoff: a posted item is held until it is settled or has   *)
(* lapsed, an item whose row is kept is not stored again, and a handler is *)
(* due once for each time an item is stored.  MailSync implements it.      *)
(***************************************************************************)
EXTENDS Naturals

CONSTANTS Items, System

VARIABLES
  posted,   \* items given to enqueue()
  released, \* items the sender keeps no more: delivered, or deleted
  kept,     \* items with a row at the receiver
  stored,   \* how often each was stored
  due,      \* items whose handler has not run
  handled,  \* how often the handler of each ran
  refused,  \* items confirmed without being stored
  lapsed    \* items past their TTL

deliveryVars == <<posted, released, kept, stored, due, handled, refused, lapsed>>

DeliveryInit ==
  /\ posted = {} /\ released = {} /\ kept = {} /\ due = {} /\ refused = {} /\ lapsed = {}
  /\ stored = [i \in Items |-> 0] /\ handled = [i \in Items |-> 0]

Post(i) ==
  /\ i \in Items \ posted /\ posted' = posted \cup {i}
  /\ UNCHANGED <<released, kept, stored, due, handled, refused, lapsed>>

\* Items arrive, from whatever message and however often.
Deliver(new, no) ==
  /\ new \subseteq posted \ kept /\ no \subseteq posted
  /\ kept' = kept \cup new /\ due' = due \cup (new \cap System)
  /\ stored' = [i \in Items |-> IF i \in new THEN stored[i] + 1 ELSE stored[i]]
  /\ refused' = refused \cup no
  /\ UNCHANGED <<posted, released, handled, lapsed>>

\* The sender lets go of items that are settled or have lapsed.
Release(set) ==
  /\ set \subseteq {i \in posted : stored[i] > 0 \/ i \in refused \cup lapsed}
  /\ released' = released \cup set
  /\ UNCHANGED <<posted, kept, stored, due, handled, refused, lapsed>>

\* A push that failed puts items a pull has delivered back.
Resume(set) ==
  /\ released' = released \ set
  /\ UNCHANGED <<posted, kept, stored, due, handled, refused, lapsed>>

Lapse(i) ==
  /\ i \in posted /\ lapsed' = lapsed \cup {i}
  /\ UNCHANGED <<posted, released, kept, stored, due, handled, refused>>

Handle(i) ==
  /\ i \in due /\ due' = due \ {i} /\ handled' = [handled EXCEPT ![i] = @ + 1]
  /\ UNCHANGED <<posted, released, kept, stored, refused, lapsed>>

\* The owner or a purge deletes a row; a restart loses the handlers due.
Remove(i) ==
  /\ i \in kept /\ kept' = kept \ {i}
  /\ UNCHANGED <<posted, released, stored, due, handled, refused, lapsed>>
Restart ==
  /\ due' = {}
  /\ UNCHANGED <<posted, released, kept, stored, handled, refused, lapsed>>

DeliveryNext ==
  \/ \E i \in Items : Post(i) \/ Lapse(i) \/ Handle(i) \/ Remove(i)
  \/ \E new, no \in SUBSET Items : Deliver(new, no)
  \/ \E set \in SUBSET Items : Release(set) \/ Resume(set)
  \/ Restart

DeliverySpec == DeliveryInit /\ [][DeliveryNext]_deliveryVars
=============================================================================
