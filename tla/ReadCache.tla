----------------------------- MODULE ReadCache ------------------------------
(* The read cache that the storage strategy plugin puts in front of the    *)
(* storage: one of its keys, read by threads of the pools and by the event *)
(* loop, while writes go through to the storage.                           *)
(*                                                                         *)
(* What is stored under the key is its version.  A write either drops the  *)
(* entry (loud: remove_peer, upsert_skill for the own skills, the billing  *)
(* of a task in the ledger) or leaves it to its time (quiet: upsert_peer   *)
(* for the list of peers, credit_ledger, update_ledger_refund, which the   *)
(* proxy only passes on).                                                  *)
(***************************************************************************)
EXTENDS Naturals, FiniteSets

CONSTANTS
  Readers,       \* threads that read the key
  Ttl,           \* time an entry is good for
  MaxWrites,     \* bound: writes
  MaxClock,      \* bound: time
  NoEntry

ASSUME CacheAssumption ==
  IsFiniteSet(Readers) /\ {Ttl, MaxWrites, MaxClock} \subseteq Nat

VARIABLES
  version,     \* of the value in the storage
  replaced,    \* when each version was overwritten
  quietly,     \* versions overwritten by a quiet write
  entry,       \* NoEntry, or the version and when it expires
  reader,      \* threads: "idle", "miss" or "store"
  began,       \* the time each looked at
  got,         \* the version each has read
  dropping,    \* a loud write has reached the storage, not yet the cache
  crossed,     \* versions that a thread held when their entry was dropped
  undropped,   \* versions whose loud write raised before it dropped the entry
  second

readVars  == <<reader, began, got>>
cacheVars == <<version, replaced, quietly, entry, readVars, dropping, crossed, undropped,
               second>>

Versions == 0..MaxWrites
Moments  == 0..MaxClock

CacheTypeOK ==
  /\ version \in Versions /\ replaced \in [Versions -> Moments] /\ second \in Moments
  /\ entry \in {NoEntry} \cup [val : Versions, until : 0..MaxClock + Ttl]
  /\ reader \in [Readers -> {"idle", "miss", "store"}]
  /\ began \in [Readers -> Moments] /\ got \in [Readers -> Versions]
  /\ quietly \cup crossed \cup undropped \subseteq Versions /\ dropping \in BOOLEAN

CacheInit ==
  /\ version = 0 /\ replaced = [v \in Versions |-> 0] /\ quietly = {} /\ entry = NoEntry
  /\ reader = [r \in Readers |-> "idle"] /\ began = [r \in Readers |-> 0]
  /\ got = [r \in Readers |-> 0] /\ dropping = FALSE /\ crossed = {} /\ undropped = {}
  /\ second = 0
-----------------------------------------------------------------------------
Unexpired(e) == e # NoEntry /\ second < e.until

\* _cached_read() of an entry that is not fresh; a fresh one is returned.
Miss(r) ==
  /\ reader[r] = "idle" /\ ~Unexpired(entry)
  /\ reader' = [reader EXCEPT ![r] = "miss"] /\ began' = [began EXCEPT ![r] = second]
  /\ UNCHANGED <<version, replaced, quietly, entry, got, dropping, crossed, undropped, second>>

ReadsStorage(r) ==
  /\ reader[r] = "miss" /\ reader' = [reader EXCEPT ![r] = "store"]
  /\ got' = [got EXCEPT ![r] = version]
  /\ UNCHANGED <<version, replaced, quietly, entry, began, dropping, crossed, undropped, second>>

\* Mutant of Expiry: the time at the end of the read, as the async_* reads,
\* which nothing calls, take it.
ExpiryFromEnd(r) == second + Ttl

\* From the time at which the read began
Expiry(r) == began[r] + Ttl

StoresEntry(r) ==
  /\ reader[r] = "store" /\ reader' = [reader EXCEPT ![r] = "idle"]
  /\ entry' = [val |-> got[r], until |-> Expiry(r)]
  /\ began' = [began EXCEPT ![r] = 0] /\ got' = [got EXCEPT ![r] = 0]
  /\ UNCHANGED <<version, replaced, quietly, dropping, crossed, undropped, second>>

Overwritten ==
  /\ version < MaxWrites /\ version' = version + 1
  /\ replaced' = [replaced EXCEPT ![version] = second]

\* The event loop executes one write at a time.
WriteQuietly ==
  /\ ~dropping /\ Overwritten /\ quietly' = quietly \cup {version}
  /\ UNCHANGED <<entry, readVars, dropping, crossed, undropped, second>>

\* The storage first,
WriteLoudly ==
  /\ ~dropping /\ Overwritten /\ dropping' = TRUE
  /\ UNCHANGED <<quietly, entry, readVars, crossed, undropped, second>>

Storing == {r \in Readers : reader[r] = "store"}

\* then _invalidate_key() or _invalidate_prefix().
Drops ==
  /\ dropping /\ dropping' = FALSE /\ entry' = NoEntry
  /\ crossed' = crossed \cup {got[r] : r \in Storing}
  /\ UNCHANGED <<version, replaced, quietly, readVars, undropped, second>>

\* _invalidate_prefix() looks through all keys.  A pool thread that adds one
\* meanwhile, this or another, makes it raise before it has deleted any: the
\* write fails although it is in the storage.
DropRaises ==
  /\ dropping /\ dropping' = FALSE /\ undropped' = undropped \cup {version - 1}
  /\ UNCHANGED <<version, replaced, quietly, entry, readVars, crossed, second>>

ClockTicks ==
  /\ second < MaxClock /\ second' = second + 1
  /\ UNCHANGED <<version, replaced, quietly, entry, readVars, dropping, crossed, undropped>>

CacheNext ==
  \/ \E r \in Readers : Miss(r) \/ ReadsStorage(r) \/ StoresEntry(r)
  \/ WriteQuietly \/ WriteLoudly \/ Drops \/ DropRaises
  \/ ClockTicks

CacheSpec == CacheInit /\ [][CacheNext]_cacheVars
-----------------------------------------------------------------------------
(* Properties                                                              *)

\* cache.py:8, "never stale after write": a value that is served and no longer
\* true was true within the last Ttl, and was replaced by a write that leaves
\* the cache alone, is about to be dropped, was in the hands of a thread when
\* the write dropped the entry, or was replaced by a write that raised before
\* it could drop it.
ServedIsRecent ==
  Unexpired(entry) /\ entry.val # version =>
    /\ replaced[entry.val] + Ttl >= second
    /\ entry.val \in quietly \cup crossed \cup undropped \/ dropping
=============================================================================
