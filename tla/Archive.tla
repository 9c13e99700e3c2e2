------------------------------ MODULE Archive -------------------------------
(* The storage strategy plugin's hourly rotation of receipt_log and        *)
(* execution_log: a tick archives the rows of each table that have reached *)
(* their retention, in a thread, and then prunes the tables it archived.   *)
(* The node's own bucket GC deletes from the same tables, by default with  *)
(* the same retention and without an archive.                              *)
(*                                                                         *)
(* Time is what a row has reached: it is "young", or "old" once past the   *)
(* retention of its table.  A file is the set of rows written to it;       *)
(* compression, encryption and the signature are left out.                 *)
(***************************************************************************)
EXTENDS Naturals, Sequences

CONSTANTS
  Rows,           \* rows that will be written
  TableOf,        \* table of each row
  Tables,         \* the tables in the order in which they are archived
  MaxRotations,   \* bound: ticks at which the rotation is due
  MaxStops        \* bound: stops and crashes of the node

ASSUME ArchiveAssumption ==
  /\ Len(Tables) \in Nat \ {0} /\ DOMAIN Tables = 1..Len(Tables)
  /\ \A i, j \in DOMAIN Tables : Tables[i] = Tables[j] => i = j
  /\ TableOf \in [Rows -> {Tables[i] : i \in DOMAIN Tables}]
  /\ {MaxRotations, MaxStops} \subseteq Nat

VARIABLES
  logged,      \* rows: "none", "young", "old" or "gone"
  archived,    \* rows in some archive file
  tick,        \* on_tick(): "idle", "archive" or "prune"
  thread,      \* archive_table(): "idle", "select", "write" or "delete"
  nth,         \* index of the table it is at
  cut,         \* rows beyond its cutoff
  picked,      \* rows it has selected
  confirmed,   \* archived_tables
  dueArchive, duePrune,   \* an hour since _last_archive, _last_prune
  late,        \* rows that came of age after the cutoff of the rotation under way
  unread,      \* rows of a SELECT that failed in it
  rotations, stops

logVars    == <<logged, archived>>
workVars   == <<tick, thread, nth, cut, picked, confirmed>>
excuseVars == <<late, unread>>
archiveVars == <<logVars, workVars, dueArchive, duePrune, excuseVars, rotations, stops>>

Old(t) == {r \in Rows : logged[r] = "old" /\ TableOf[r] = t}

ArchiveTypeOK ==
  /\ logged \in [Rows -> {"none", "young", "old", "gone"}]
  /\ tick \in {"idle", "archive", "prune"}
  /\ thread \in {"idle", "select", "write", "delete"} /\ nth \in 1..Len(Tables) + 1
  /\ {archived, cut, picked, late, unread} \subseteq SUBSET Rows
  /\ confirmed \subseteq {Tables[i] : i \in DOMAIN Tables}
  /\ {dueArchive, duePrune} \subseteq BOOLEAN
  /\ rotations \in 0..MaxRotations /\ stops \in 0..MaxStops

ArchiveInit ==
  /\ logged = [r \in Rows |-> "none"] /\ archived = {}
  /\ tick = "idle" /\ thread = "idle" /\ nth = 1 /\ cut = {} /\ picked = {} /\ confirmed = {}
  /\ dueArchive = TRUE /\ duePrune = TRUE
  /\ late = {} /\ unread = {} /\ rotations = 0 /\ stops = 0

Removed(rows) == logged' = [r \in Rows |-> IF r \in rows THEN "gone" ELSE logged[r]]
-----------------------------------------------------------------------------
(* The rows                                                                *)

RowLogged(r) ==
  /\ logged[r] = "none" /\ logged' = [logged EXCEPT ![r] = "young"]
  /\ UNCHANGED <<archived, workVars, dueArchive, duePrune, excuseVars, rotations, stops>>

\* A cutoff that is computed stays behind.
RowAges(r) ==
  /\ logged[r] = "young" /\ logged' = [logged EXCEPT ![r] = "old"]
  /\ late' = IF tick = "idle" THEN late ELSE late \cup {r}
  /\ UNCHANGED <<archived, workVars, dueArchive, duePrune, unread, rotations, stops>>

\* _run_bucket_gc()
NodeCollects(t) ==
  /\ Old(t) # {} /\ Removed(Old(t))
  /\ UNCHANGED <<archived, workVars, dueArchive, duePrune, excuseVars, rotations, stops>>
-----------------------------------------------------------------------------
(* The rotation                                                            *)

\* The next table, or the end of the cycle; the rows `missed` were not read.
\* The thread of a cancelled tick ends.
NextTable(missed) ==
  LET more == nth + 1 \in DOMAIN Tables /\ tick = "archive" IN
  /\ picked' = {} /\ nth' = nth + 1
  /\ cut' = IF more THEN Old(Tables[nth + 1]) ELSE {}
  /\ late' = late \ cut' /\ unread' = (unread \cup missed) \ cut'
  /\ thread' = IF more THEN "select" ELSE "idle"
  /\ tick' = IF tick = "archive" /\ ~more THEN "prune" ELSE tick

\* on_tick() with the archive due
TickArchives ==
  /\ tick = "idle" /\ thread = "idle" /\ dueArchive
  /\ rotations < MaxRotations /\ rotations' = rotations + 1
  /\ dueArchive' = FALSE /\ confirmed' = {}
  /\ tick' = "archive" /\ thread' = "select" /\ nth' = 1 /\ picked' = {}
  /\ cut' = Old(Tables[1]) /\ late' = {} /\ unread' = {}
  /\ UNCHANGED <<logVars, duePrune, stops>>

SelectRows ==
  /\ thread = "select" /\ UNCHANGED <<dueArchive, duePrune, rotations, stops>>
  /\ LET found == {r \in cut : logged[r] = "old"} IN
     IF found # {}
     THEN /\ picked' = found /\ thread' = "write"
          /\ UNCHANGED <<logVars, tick, nth, cut, confirmed, excuseVars>>
     ELSE confirmed' = confirmed \cup {Tables[nth]} /\ NextTable({}) /\ UNCHANGED logVars

\* The exception is caught and no row reported: the table counts as archived.
SelectFails ==
  /\ thread = "select" /\ UNCHANGED <<logVars, dueArchive, duePrune, rotations, stops>>
  /\ confirmed' = confirmed \cup {Tables[nth]}
  /\ NextTable(cut)

WriteFile ==
  /\ thread = "write" /\ archived' = archived \cup picked /\ thread' = "delete"
  /\ UNCHANGED <<logged, tick, nth, cut, picked, confirmed, dueArchive, duePrune,
                 excuseVars, rotations, stops>>

\* Mutant of FileFails: the table is noted before archive_table() is awaited.
FileFailsConfirmed ==
  /\ thread = "write" /\ confirmed' = confirmed \cup {Tables[nth]} /\ NextTable({})
  /\ UNCHANGED <<logVars, dueArchive, duePrune, rotations, stops>>

\* The archive or its .meta.json: archive_table() raises.
FileFails ==
  /\ thread = "write" /\ NextTable({})
  /\ \/ UNCHANGED archived
     \/ archived' = archived \cup picked
  /\ UNCHANGED <<logged, confirmed, dueArchive, duePrune, rotations, stops>>

\* Every row beyond the cutoff, or none
DeleteRows ==
  /\ thread = "delete" /\ confirmed' = confirmed \cup {Tables[nth]}
  /\ Removed({r \in cut : logged[r] = "old"}) \/ UNCHANGED logged
  /\ NextTable({})
  /\ UNCHANGED <<archived, dueArchive, duePrune, rotations, stops>>

\* The pruner has a cutoff of its own.  It is due together with the archive,
\* unless a tick was cancelled between them.
PruneTables ==
  /\ tick = "prune" /\ tick' = "idle" /\ confirmed' = {}
  /\ IF duePrune
     THEN duePrune' = FALSE /\ Removed(UNION {Old(t) : t \in confirmed})
     ELSE UNCHANGED <<duePrune, logged>>
  /\ UNCHANGED <<archived, thread, nth, cut, picked, dueArchive, excuseVars, rotations, stops>>

\* on_tick() with only the pruning due: no table is archived.
TickPrunes ==
  /\ tick = "idle" /\ ~dueArchive /\ duePrune /\ duePrune' = FALSE
  /\ UNCHANGED <<logVars, workVars, dueArchive, excuseVars, rotations, stops>>

HourPasses ==
  /\ tick = "idle" /\ thread = "idle"
  /\ \/ ~dueArchive /\ dueArchive' = TRUE /\ UNCHANGED duePrune
     \/ ~duePrune /\ duePrune' = TRUE /\ UNCHANGED dueArchive
  /\ UNCHANGED <<logVars, workVars, excuseVars, rotations, stops>>

\* stop() cancels the heartbeat loop, not the thread that archives.
TickCancelled ==
  /\ tick = "archive" /\ stops < MaxStops /\ stops' = stops + 1 /\ tick' = "idle"
  /\ UNCHANGED <<logVars, thread, nth, cut, picked, confirmed, dueArchive, duePrune,
                 excuseVars, rotations>>

\* Only the database and the files outlive the process.
ArchiveCrash ==
  /\ stops < MaxStops /\ stops' = stops + 1
  /\ tick' = "idle" /\ thread' = "idle" /\ nth' = 1 /\ cut' = {} /\ picked' = {}
  /\ confirmed' = {} /\ dueArchive' = TRUE /\ duePrune' = TRUE
  /\ UNCHANGED <<logVars, excuseVars, rotations>>

ArchiveNext ==
  \/ \E r \in Rows : RowLogged(r) \/ RowAges(r)
  \/ \E i \in DOMAIN Tables : NodeCollects(Tables[i])
  \/ TickArchives \/ SelectRows \/ SelectFails \/ WriteFile \/ FileFails \/ DeleteRows
  \/ PruneTables \/ TickPrunes \/ HourPasses \/ TickCancelled \/ ArchiveCrash

ArchiveSpec == ArchiveInit /\ [][ArchiveNext]_archiveVars
-----------------------------------------------------------------------------
(* Properties                                                              *)

\* pruning.py:4, "archived before deletion": whatever fails or is cut short, a
\* row that the plugin deletes is in an archive, except for one that came of
\* age after the cutoff and before the pruner's, or whose SELECT failed.
ArchivedFirst ==
  [][\A r \in Rows : (DeleteRows \/ PruneTables) /\ logged[r] = "old" /\ logged'[r] = "gone"
                     => r \in archived \cup late \cup unread]_archiveVars
=============================================================================
