---------------------------- MODULE PunchholeCache ----------------------------
(***************************************************************************)
(* The punchhole disclosure cache.  The backend plugin                     *)
(* (plugins/09-punchhole-backend/handler.py) reads the node's tables and   *)
(* pushes signed objects, one per object and access group, over the event  *)
(* bus to the frontend (08-punchhole-frontend/handler.py), which answers   *)
(* peers from them.  Events of the node tell the backend which objects are *)
(* out of date; it tells the frontend, which marks its entries stale and   *)
(* asks for a new one when a peer asks for them.                           *)
(***************************************************************************)
EXTENDS Integers, Sequences, FiniteSets, SequencesExt

CONSTANTS
  Objects,     \* cache objects
  Access,      \* group each of them needs
  Askers,      \* peers that ask
  ListedAs,    \* group of each in the backend's lists at start, "" for none
  MaxChanges,  \* bound: changes of the tables
  MaxAsks      \* bound: requests that miss

ASSUME PunchAssumption ==
  /\ IsFiniteSet(Objects)
  /\ {MaxChanges, MaxAsks} \subseteq Nat
  /\ Access \in [Objects -> {"all_signed", "trusted", "known_hosts", "peer", "private"}]
  /\ ListedAs \in [Askers -> {"", "all_signed", "trusted", "known_hosts", "peer", "private"}]

Groups == <<"all_signed", "trusted", "known_hosts", "peer", "private">>   \* _TIER_ORDER
GroupSet == {Groups[i] : i \in DOMAIN Groups}

VARIABLES
  table,     \* object -> version of the rows it is built from
  writing,   \* objects whose rows were changed and the event not yet emitted
  quiet,     \* objects whose last change came without an event
  internal,  \* events the backend has not taken: the objects each makes stale
  misses,    \* cache.miss events it has not taken: [object, group]
  toFront,   \* events the frontend has not taken
  warm,      \* _startup(): "idle", "lists", "done"
  ready,     \* _backend_ready of the frontend
  acl,       \* its _acl, "" for an unknown peer
  shelf,     \* its cache: object, group -> version and stale flag, or Nothing
  changes, asks

punchVars == <<table, writing, quiet, internal, misses, toFront, warm, ready, acl, shelf,
               changes, asks>>
backVars  == <<table, writing, quiet, internal, changes>>
frontVars == <<ready, acl, shelf, asks>>

Nothing == [version |-> 0, stale |-> TRUE]
FrontEvents ==
  [kind: {"fill"}, object: Objects, group: GroupSet, version: Nat]
  \union [kind: {"stale"}, object: Objects]
  \union [kind: {"acl"}, of: [Askers -> GroupSet \union {""}]]
  \union [kind: {"ready"}]

PunchTypeOK ==
  /\ table \in [Objects -> 1..(MaxChanges + 1)]
  /\ writing \subseteq Objects /\ quiet \subseteq Objects
  /\ internal \in Seq(Objects)
  /\ misses \in Seq([object: Objects, group: GroupSet])
  /\ toFront \in Seq(FrontEvents)
  /\ warm \in {"idle", "lists", "done"} /\ ready \in BOOLEAN
  /\ acl \in [Askers -> GroupSet \union {""}]
  /\ shelf \in [Objects \X GroupSet -> [version: 0..(MaxChanges + 1), stale: BOOLEAN]]
  /\ changes \in 0..MaxChanges /\ asks \in 0..MaxAsks

PunchInit ==
  /\ table = [o \in Objects |-> 1]
  /\ writing = {} /\ quiet = {}
  /\ internal = <<>> /\ misses = <<>> /\ toFront = <<>>
  /\ warm = "idle" /\ ready = FALSE
  /\ acl = [a \in Askers |-> ""]
  /\ shelf = [x \in Objects \X GroupSet |-> Nothing]
  /\ changes = 0 /\ asks = 0

Rank(g) == CHOOSE i \in DOMAIN Groups : Groups[i] = g
HasAccess(g, needed) == Rank(g) >= Rank(needed)     \* _tier_has_access()

(***************************************************************************)
(* The node                                                                *)
(***************************************************************************)
\* A charge, a receipt, a registered or removed skill: the row is written
\* and awaited, then the event is emitted.
Writes(o) ==
  /\ o \notin writing
  /\ writing' = writing \union {o}
  /\ table' = [table EXCEPT ![o] = @ + 1]
  /\ UNCHANGED <<quiet, internal>>

Change(o) ==
  /\ changes < MaxChanges
  /\ Writes(o)
  /\ changes' = changes + 1
  /\ UNCHANGED <<misses, toFront, warm, frontVars>>

Emits(o) ==
  /\ o \in writing
  /\ writing' = writing \ {o}
  /\ internal' = Append(internal, o)
  /\ quiet' = quiet \ {o}
  /\ UNCHANGED <<table, changes, misses, toFront, warm, frontVars>>

\* A settlement or a chain payment changes the ledger and emits nothing the
\* backend subscribes to.
ChangesQuietly(o) ==
  /\ changes < MaxChanges
  /\ table' = [table EXCEPT ![o] = @ + 1]
  /\ quiet' = quiet \union {o}
  /\ changes' = changes + 1
  /\ UNCHANGED <<writing, internal, misses, toFront, warm, frontVars>>

(***************************************************************************)
(* The backend                                                             *)
(***************************************************************************)
Filled(o, g) == [kind |-> "fill", object |-> o, group |-> g, version |-> table[o]]

\* _startup(): the lists are read in a thread.
StartupReads ==
  /\ warm = "idle"
  /\ warm' = "lists"
  /\ UNCHANGED <<backVars, misses, toFront, frontVars>>

\* Then, without a break: the lists, every object for every group with
\* access to it, and the word that the backend is ready.
StartupPushes ==
  /\ warm = "lists"
  /\ warm' = "done"
  /\ LET given == SetToSeq({x \in Objects \X GroupSet : HasAccess(x[2], Access[x[1]])})
     IN toFront' = toFront \o (<<[kind |-> "acl", of |-> ListedAs]>>
                                 \o [i \in DOMAIN given |-> Filled(given[i][1], given[i][2])]
                                 \o <<[kind |-> "ready"]>>)
  /\ UNCHANGED <<backVars, misses, frontVars>>

\* _stale_loop()
TellsStale ==
  /\ internal # <<>>
  /\ toFront' = Append(toFront, [kind |-> "stale", object |-> Head(internal)])
  /\ internal' = Tail(internal)
  /\ UNCHANGED <<table, writing, quiet, changes, misses, warm, frontVars>>

\* _miss_loop(): the object is built again for the group that was named.
Refills ==
  /\ misses # <<>>
  /\ misses' = Tail(misses)
  /\ toFront' = Append(toFront, Filled(Head(misses).object, Head(misses).group))
  /\ UNCHANGED <<backVars, warm, frontVars>>

(***************************************************************************)
(* The frontend                                                            *)
(***************************************************************************)
MarksFirst(o) ==
  IF \E g \in GroupSet : ~shelf[o, g].stale
  THEN LET h == CHOOSE g \in GroupSet : ~shelf[o, g].stale
       IN [shelf EXCEPT ![<<o, h>>].stale = TRUE]
  ELSE shelf

\* cache.stale: every entry of the object, whatever its group.
Marks(o) ==
  [x \in DOMAIN shelf |-> IF x[1] = o THEN [shelf[x] EXCEPT !.stale = TRUE] ELSE shelf[x]]

\* _bus_loop() takes one event.
Takes ==
  /\ toFront # <<>>
  /\ toFront' = Tail(toFront)
  /\ LET e == Head(toFront) IN
       /\ ready' = (ready \/ e.kind = "ready")
       /\ acl' = IF e.kind = "acl" THEN e.of ELSE acl
       /\ shelf' = CASE e.kind = "fill"  -> [shelf EXCEPT ![<<e.object, e.group>>] =
                                               [version |-> e.version, stale |-> FALSE]]
                     [] e.kind = "stale" -> Marks(e.object)
                     [] OTHER            -> shelf
  /\ UNCHANGED <<backVars, misses, warm, asks>>

\* _process_request(): not ready and unknown peers are refused; an entry
\* that is there and not stale is the answer, which changes nothing but the
\* disclosure log; otherwise the backend is asked for the peer's group and
\* the peer told to come again.
Misses(a, o) ==
  /\ ready /\ acl[a] # ""
  /\ shelf[o, acl[a]].stale
  /\ asks < MaxAsks
  /\ asks' = asks + 1
  /\ misses' = Append(misses, [object |-> o, group |-> acl[a]])
  /\ UNCHANGED <<backVars, toFront, warm, ready, acl, shelf>>

PunchNext ==
  \/ \E o \in Objects : Change(o) \/ Emits(o) \/ ChangesQuietly(o)
  \/ StartupReads \/ StartupPushes \/ TellsStale \/ Refills
  \/ Takes
  \/ \E a \in Askers, o \in Objects : Misses(a, o)

PunchSpec == PunchInit /\ [][PunchNext]_punchVars

(***************************************************************************)
(* Properties                                                              *)
(***************************************************************************)
\* Something on its way will mark the entry of o and g stale or replace it:
\* an event the node has still to emit, one the backend has not taken, or a
\* stale notice or a newer fill in front of the frontend.
Announced(o, g) ==
  \/ o \in writing
  \/ \E i \in DOMAIN internal : internal[i] = o
  \/ \E i \in DOMAIN toFront : toFront[i].kind = "stale" /\ toFront[i].object = o

\* An entry that would be served and is older than its rows is about to be
\* found out, unless the rows changed without an event: no order of writes,
\* events, misses, fills and stale notices leaves an old object on the shelf
\* for good.
OldIsAnnounced ==
  \A o \in Objects \ quiet, g \in GroupSet :
    ~shelf[o, g].stale /\ shelf[o, g].version # table[o] => Announced(o, g)
=============================================================================
