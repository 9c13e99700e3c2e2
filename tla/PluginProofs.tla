----------------------------- MODULE PluginProofs -----------------------------
(***************************************************************************)
(* Plugins and the supervisor, for every value of the constants of each    *)
(* module: how stale a value from the read cache can be, that the rotation *)
(* deletes no row that was not archived, that the watchman leaves no node  *)
(* behind, what the Tor plugin publishes, and that the firewall hands on a *)
(* message once and the punchhole cache marks what is old.                 *)
(***************************************************************************)
EXTENDS ReadCache, Archive, Watchman, TorPlugin, Firewall, PunchholeCache, DataOpsTheorems

USE CacheAssumption
USE DEF cacheVars, readVars, Versions, Moments
-----------------------------------------------------------------------------
(* The read cache.  A thread that carries a value from the storage to the  *)
(* cache is as good, or as bad, as the entry it will make: the invariant   *)
(* says the same of both.                                                  *)

\* Version v, looked at from time t on, is current or was replaced since.
RecentFrom(v, t) == v # version => t <= replaced[v]

\* A version that is not current has a reason to be about still.
Explained(v) == v # version => \/ v \in quietly \cup crossed \cup undropped
                               \/ dropping /\ v = version - 1

ReaderOK ==
  \A r \in Readers :
    /\ reader[r] # "idle" => began[r] <= second
    /\ reader[r] = "store" => RecentFrom(got[r], began[r]) /\ Explained(got[r])

EntryOK ==
  entry # NoEntry =>
    /\ entry.until <= second + Ttl /\ Explained(entry.val)
    /\ entry.val # version => entry.until <= replaced[entry.val] + Ttl

CacheInv == CacheTypeOK /\ ReaderOK /\ EntryOK /\ (dropping => version > 0)
-----------------------------------------------------------------------------
\* A write replaces the current version now, whatever it does to the cache.
LEMMA WriteKeeps ==
  ASSUME CacheInv, Overwritten, ~dropping,
         UNCHANGED <<entry, readVars, crossed, undropped, second>>,
         \/ quietly' = quietly \cup {version} /\ dropping' = dropping
         \/ quietly' = quietly /\ dropping' = TRUE
  PROVE  CacheInv'
<1>1. /\ version \in Versions /\ version' = version + 1 /\ version' \in Versions
      /\ replaced' \in [Versions -> Moments] /\ replaced'[version] = second
      /\ \A v \in Versions : v # version => replaced'[v] = replaced[v]
      /\ second \in Nat
  BY DEF CacheInv, CacheTypeOK, Overwritten
<1>2. CacheTypeOK'
  BY <1>1 DEF CacheInv, CacheTypeOK
<1>3. \A v \in Versions : Explained(v) => Explained(v)'
  BY <1>1 DEF Explained
<1>7. dropping' => version' > 0
  BY <1>1
<1>4. \A v \in Versions, t \in Nat : RecentFrom(v, t) /\ t <= second => RecentFrom(v, t)'
  BY <1>1 DEF RecentFrom
<1>5. ReaderOK'
  <2>1. \A r \in Readers : got[r] \in Versions /\ began[r] \in Nat
    BY DEF CacheInv, CacheTypeOK
  <2> QED BY <1>3, <1>4, <2>1 DEF CacheInv, ReaderOK
<1>6. EntryOK'
  <2> SUFFICES ASSUME entry # NoEntry PROVE EntryOK'
    BY DEF EntryOK
  <2>1. entry.val \in Versions /\ entry.until \in Nat
    BY DEF CacheInv, CacheTypeOK
  <2> QED BY <1>1, <1>3, <2>1 DEF CacheInv, EntryOK
<1> QED BY <1>2, <1>5, <1>6, <1>7 DEF CacheInv

\* A thread stores what it has read, with the time at which it began.
LEMMA StoreKeeps ==
  ASSUME CacheInv, NEW r \in Readers, StoresEntry(r)
  PROVE  CacheInv'
<1>1. /\ reader[r] = "store" /\ began[r] <= second /\ second \in Nat
      /\ began[r] \in Moments /\ got[r] \in Versions
      /\ RecentFrom(got[r], began[r]) /\ Explained(got[r])
  BY DEF StoresEntry, CacheInv, CacheTypeOK, ReaderOK
<1>2. /\ entry' = [val |-> got[r], until |-> began[r] + Ttl]
      /\ reader' = [reader EXCEPT ![r] = "idle"] /\ began' = [began EXCEPT ![r] = 0]
      /\ got' = [got EXCEPT ![r] = 0]
      /\ UNCHANGED <<version, replaced, quietly, dropping, crossed, undropped, second>>
  BY DEF StoresEntry, Expiry
<1>3. CacheTypeOK'
  <2>1. entry' \in [val : Versions, until : 0..MaxClock + Ttl]
    BY <1>1, <1>2
  <2>2. reader' \in [Readers -> {"idle", "miss", "store"}]
    BY <1>2 DEF CacheInv, CacheTypeOK
  <2>3. began' \in [Readers -> Moments] /\ got' \in [Readers -> Versions]
    BY <1>2 DEF CacheInv, CacheTypeOK
  <2> QED BY <1>2, <2>1, <2>2, <2>3 DEF CacheInv, CacheTypeOK
<1>4. ReaderOK'
  BY <1>2 DEF CacheInv, CacheTypeOK, ReaderOK, RecentFrom, Explained
<1>5. EntryOK'
  <2>1. entry'.val = got[r] /\ entry'.until = began[r] + Ttl
    BY <1>2
  <2>2. entry'.val # version => began[r] <= replaced[got[r]]
    BY <1>1, <2>1 DEF RecentFrom
  <2>3. replaced[got[r]] \in Nat
    BY <1>1 DEF CacheInv, CacheTypeOK
  <2> QED BY <1>1, <1>2, <2>1, <2>2, <2>3 DEF EntryOK, Explained
<1> QED BY <1>2, <1>3, <1>4, <1>5 DEF CacheInv

\* Every step keeps the invariant.
LEMMA StepCache ==
  ASSUME CacheInv, [CacheNext]_cacheVars
  PROVE  CacheInv'
<1>1. ASSUME NEW r \in Readers, Miss(r) PROVE CacheInv'
  BY <1>1 DEF Miss, CacheInv, CacheTypeOK, ReaderOK, EntryOK, RecentFrom, Explained
<1>2. ASSUME NEW r \in Readers, ReadsStorage(r) PROVE CacheInv'
  BY <1>2 DEF ReadsStorage, CacheInv, CacheTypeOK, ReaderOK, EntryOK, RecentFrom, Explained
<1>3. ASSUME NEW r \in Readers, StoresEntry(r) PROVE CacheInv'
  BY <1>3, StoreKeeps
<1>4. CASE WriteQuietly
  BY <1>4, WriteKeeps DEF WriteQuietly
<1>5. CASE WriteLoudly
  BY <1>5, WriteKeeps DEF WriteLoudly
<1>6. CASE Drops
  <2>1. /\ entry' = NoEntry /\ dropping' = FALSE
        /\ crossed' = crossed \cup {got[r] : r \in Storing}
        /\ UNCHANGED <<version, replaced, quietly, reader, began, got, undropped, second>>
    BY <1>6 DEF Drops
  <2>2. CacheTypeOK'
    BY <2>1 DEF CacheInv, CacheTypeOK, Storing
  <2>3. \A r \in Readers : reader[r] = "store" => got[r] \in crossed'
    BY <2>1 DEF Storing
  <2>4. ReaderOK'
    BY <2>1, <2>3 DEF CacheInv, ReaderOK, RecentFrom, Explained
  <2> QED BY <2>1, <2>2, <2>4 DEF CacheInv, EntryOK
<1>7. CASE ClockTicks
  <2>1. /\ second \in Nat /\ second' = second + 1 /\ second' \in Moments
        /\ UNCHANGED <<version, replaced, quietly, entry, readVars, dropping, crossed,
                       undropped>>
    BY <1>7 DEF ClockTicks, CacheInv, CacheTypeOK
  <2>2. CacheTypeOK'
    BY <2>1 DEF CacheInv, CacheTypeOK
  <2>3. ReaderOK'
    <3>1. \A r \in Readers : began[r] \in Nat
      BY DEF CacheInv, CacheTypeOK
    <3> QED BY <2>1, <3>1 DEF CacheInv, ReaderOK, RecentFrom, Explained
  <2>4. EntryOK'
    <3> SUFFICES ASSUME entry # NoEntry PROVE EntryOK'
      BY <2>1 DEF EntryOK
    <3>1. entry.until \in Nat
      BY DEF CacheInv, CacheTypeOK
    <3> QED BY <2>1, <3>1 DEF CacheInv, EntryOK, Explained
  <2> QED BY <2>1, <2>2, <2>3, <2>4 DEF CacheInv
<1>9. CASE DropRaises
  <2>1. /\ dropping /\ dropping' = FALSE /\ undropped' = undropped \cup {version - 1}
        /\ UNCHANGED <<version, replaced, quietly, entry, readVars, crossed, second>>
    BY <1>9 DEF DropRaises
  <2>2. version \in Versions /\ version - 1 \in Versions
    BY <2>1 DEF CacheInv, CacheTypeOK
  <2>3. CacheTypeOK'
    BY <2>1, <2>2 DEF CacheInv, CacheTypeOK
  <2>4. \A v \in Versions : Explained(v) => Explained(v)'
    BY <2>1 DEF Explained
  <2>5. ReaderOK'
    <3>1. \A r \in Readers : got[r] \in Versions
      BY DEF CacheInv, CacheTypeOK
    <3> QED BY <2>1, <2>4, <3>1 DEF CacheInv, ReaderOK, RecentFrom
  <2>6. EntryOK'
    <3> SUFFICES ASSUME entry # NoEntry PROVE EntryOK'
      BY <2>1 DEF EntryOK
    <3>1. entry.val \in Versions
      BY DEF CacheInv, CacheTypeOK
    <3> QED BY <2>1, <2>4, <3>1 DEF CacheInv, EntryOK
  <2> QED BY <2>1, <2>3, <2>5, <2>6 DEF CacheInv
<1>8. CASE UNCHANGED cacheVars
  BY <1>8 DEF CacheInv, CacheTypeOK, ReaderOK, EntryOK, RecentFrom, Explained
<1> QED BY <1>1, <1>2, <1>3, <1>4, <1>5, <1>6, <1>7, <1>8, <1>9
         DEF CacheNext

(* However many threads read, and however reads, writes and drops cross,   *)
(* a value that is served was true within the last Ttl, and if it is not   *)
(* true any more there is a quiet write, a drop on its way, a thread that  *)
(* carried it across a drop, or a drop that raised, to blame.              *)
THEOREM ServedIsRecentTheorem == CacheSpec => []ServedIsRecent
<1>1. CacheInit => CacheInv
  <2> SUFFICES ASSUME CacheInit PROVE CacheInv
    OBVIOUS
  <2>1. CacheTypeOK
    <3>1. version = 0 /\ second = 0 /\ 0 \in Versions /\ 0 \in Moments
      BY DEF CacheInit
    <3> QED BY <3>1 DEF CacheInit, CacheTypeOK
  <2>2. ReaderOK /\ EntryOK
    BY DEF CacheInit, ReaderOK, EntryOK
  <2> QED BY <2>1, <2>2 DEF CacheInit, CacheInv
<1>2. CacheInv /\ [CacheNext]_cacheVars => CacheInv'
  BY StepCache
<1>3. CacheInv => ServedIsRecent
  <2> SUFFICES ASSUME CacheInv, Unexpired(entry), entry.val # version
               PROVE  /\ replaced[entry.val] + Ttl >= second
                      /\ entry.val \in quietly \cup crossed \cup undropped \/ dropping
    BY DEF ServedIsRecent
  <2>1. entry # NoEntry /\ second < entry.until
    BY DEF Unexpired
  <2>2. entry.val \in Versions /\ entry.until \in Nat /\ second \in Nat
    BY <2>1 DEF CacheInv, CacheTypeOK
  <2>3. replaced[entry.val] \in Nat
    BY <2>2 DEF CacheInv, CacheTypeOK
  <2> QED BY <2>1, <2>2, <2>3 DEF CacheInv, EntryOK, Explained
<1> QED BY <1>1, <1>2, <1>3, PTL DEF CacheSpec
-----------------------------------------------------------------------------
(* The rotation                                                            *)

Accounted == archived \cup late \cup unread

\* While the tick is alive, the rows of the table the thread is at are within
\* its cutoff or too late for it, and the old rows of a table that was noted
\* are in a file, unless they are late or were not read.
CycleOK ==
  tick # "idle" =>
    /\ confirmed \subseteq {Tables[i] : i \in 1..(nth - 1)}
    /\ thread # "idle" => Old(Tables[nth]) \subseteq cut \cup late
    /\ \A t \in confirmed : Old(t) \subseteq Accounted

\* What a thread will delete it has selected, and then it is in a file.  A
\* thread outlives its tick, never the other way round.
ThreadOK ==
  /\ nth \in Nat \ {0}
  /\ tick = "archive" => thread # "idle"
  /\ tick = "prune" => thread = "idle"
  /\ tick \in {"idle", "archive", "prune"}
  /\ thread # "idle" => nth \in DOMAIN Tables
  /\ thread = "write" => {r \in cut : logged[r] = "old"} \subseteq picked
  /\ thread = "delete" => {r \in cut : logged[r] = "old"} \subseteq archived

\* A row beyond a cutoff was old when it was computed, and does not get younger.
CutOK == cut \subseteq Rows /\ \A r \in cut : logged[r] \in {"old", "gone"}

ArchiveInv == DOMAIN logged = Rows /\ CutOK /\ ThreadOK /\ CycleOK

\* A step that removes rows of the tables, or adds to the archives, and leaves
\* the rest alone.
LEMMA FewerRows ==
  ASSUME ArchiveInv, DOMAIN logged' = Rows,
         \A r \in Rows : /\ logged'[r] = "old" => logged[r] = "old"
                         /\ logged[r] \in {"old", "gone"} => logged'[r] \in {"old", "gone"},
         archived \subseteq archived',
         UNCHANGED <<workVars, excuseVars>>
  PROVE  ArchiveInv'
<1>1. \A t : Old(t)' \subseteq Old(t)
  BY DEF Old
<1>2. Accounted \subseteq Accounted'
  BY DEF Accounted, excuseVars
<1>3. {r \in cut : logged[r] = "old"}' \subseteq {r \in cut : logged[r] = "old"}
  <2> SUFFICES ASSUME NEW r \in cut', logged'[r] = "old" PROVE logged[r] = "old"
    BY DEF workVars
  <2> QED BY DEF workVars, ArchiveInv, CutOK
<1>4. ThreadOK'
  BY <1>3 DEF ArchiveInv, ThreadOK, workVars
<1>5. CycleOK'
  BY <1>1, <1>2 DEF ArchiveInv, CycleOK, workVars, excuseVars
<1> QED BY <1>4, <1>5 DEF ArchiveInv, CutOK, workVars

\* The thread goes on to the next table, or ends.  The rows beyond the cutoff of
\* this one were left in the log, or are accounted for.
LEMMA NextKeeps ==
  ASSUME ArchiveInv, NEW missed, thread # "idle", NextTable(missed),
         DOMAIN logged' = Rows,
         \A r \in Rows : /\ logged'[r] = "old" => logged[r] = "old"
                         /\ logged[r] = "old" => logged'[r] \in {"old", "gone"},
         archived \subseteq archived',
         \/ confirmed' = confirmed
         \/ /\ confirmed' = confirmed \cup {Tables[nth]}
            /\ \A r \in cut : logged'[r] = "old" => r \in archived' \cup missed
  PROVE  ArchiveInv'
<1>1. nth \in DOMAIN Tables /\ nth \in Nat \ {0} /\ nth' = nth + 1
  BY DEF ArchiveInv, ThreadOK, NextTable
<1>2. CASE tick = "archive" /\ nth + 1 \in DOMAIN Tables
  <2>1. /\ tick' = "archive" /\ thread' = "select" /\ cut' = Old(Tables[nth + 1])
        /\ late' = late \ cut' /\ unread' = (unread \cup missed) \ cut'
    BY <1>2 DEF NextTable
  <2>2. ThreadOK'
    BY <1>1, <1>2, <2>1 DEF ThreadOK
  <2>3. CycleOK'
    <3>1. confirmed' \subseteq {Tables[i] : i \in 1..nth}
      BY <1>1, <1>2 DEF ArchiveInv, CycleOK
    <3>2. Tables[nth + 1] \notin confirmed'
      BY <1>1, <1>2, <3>1, ArchiveAssumption
    <3>3. Old(Tables[nth])' \subseteq cut'
      BY <1>1, <2>1 DEF Old
    <3>4. ASSUME NEW t \in confirmed', NEW r \in Old(t)' PROVE r \in Accounted'
      <4>1. r \in Old(t) /\ r \notin cut'
        BY <2>1, <3>2, <3>4 DEF Old
      <4>2. r \in archived' \cup late \cup unread \cup missed
        BY <1>2, <3>4, <4>1 DEF ArchiveInv, CycleOK, Accounted, Old
      <4> QED BY <2>1, <4>1, <4>2 DEF Accounted
    <3> QED BY <1>1, <2>1, <3>1, <3>3, <3>4 DEF CycleOK
  <2>4. CutOK'
    BY <2>1 DEF CutOK, Old, ArchiveInv
  <2> QED BY <2>2, <2>3, <2>4 DEF ArchiveInv
<1>3. CASE tick = "archive" /\ nth + 1 \notin DOMAIN Tables
  <2>1. /\ tick' = "prune" /\ thread' = "idle" /\ cut' = {}
        /\ late' = late /\ unread' = unread \cup missed
    BY <1>3 DEF NextTable
  <2>2. \A t \in confirmed' : Old(t)' \subseteq Accounted'
    BY <1>3, <2>1 DEF ArchiveInv, CycleOK, Accounted, Old
  <2>3. confirmed' \subseteq {Tables[i] : i \in 1..nth}
    BY <1>1, <1>3 DEF ArchiveInv, CycleOK
  <2>4. CycleOK'
    BY <1>1, <2>1, <2>2, <2>3 DEF CycleOK
  <2> QED BY <1>1, <2>1, <2>4 DEF ArchiveInv, ThreadOK, CutOK
<1>4. CASE tick # "archive"
  <2>1. tick' = tick /\ tick = "idle" /\ thread' = "idle" /\ cut' = {}
    BY <1>4 DEF NextTable, ArchiveInv, ThreadOK
  <2> QED BY <1>1, <2>1 DEF ArchiveInv, ThreadOK, CycleOK, CutOK
<1> QED BY <1>2, <1>3, <1>4

\* Every step keeps the invariant.
LEMMA StepArchive ==
  ASSUME ArchiveInv, [ArchiveNext]_archiveVars
  PROVE  ArchiveInv'
<1> USE DEF workVars, excuseVars, logVars
<1>1. ASSUME NEW r \in Rows, RowLogged(r) PROVE ArchiveInv'
  BY <1>1, FewerRows DEF RowLogged, ArchiveInv
<1>2. ASSUME NEW r \in Rows, RowAges(r) PROVE ArchiveInv'
  <2>1. \A t : Old(t)' \subseteq Old(t) \cup {r}
    BY <1>2 DEF RowAges, Old, ArchiveInv
  <2>2. ThreadOK'
    BY <1>2 DEF RowAges, ArchiveInv, ThreadOK, CutOK
  <2>3. CycleOK'
    <3> SUFFICES ASSUME tick # "idle" PROVE CycleOK'
      BY <1>2 DEF RowAges, CycleOK
    <3>1. UNCHANGED <<archived, tick, thread, nth, cut, confirmed, unread>>
          /\ late' = late \cup {r}
      BY <1>2 DEF RowAges
    <3>2. Old(Tables[nth])' \subseteq Old(Tables[nth]) \cup {r}
      BY <1>2 DEF RowAges, Old, ArchiveInv
    <3> QED BY <2>1, <3>1, <3>2 DEF ArchiveInv, CycleOK, Accounted
  <2> QED BY <1>2, <2>2, <2>3 DEF RowAges, ArchiveInv, CutOK
<1>3. ASSUME NEW t, NodeCollects(t) PROVE ArchiveInv'
  BY <1>3, FewerRows DEF NodeCollects, Removed, ArchiveInv
<1>4. CASE TickArchives
  BY <1>4, ArchiveAssumption
    DEF TickArchives, ArchiveInv, ThreadOK, CycleOK, CutOK, Old
<1>5. CASE SelectRows
  <2>1. CASE {r \in cut : logged[r] = "old"} = {}
    <3>1. NextTable({}) /\ confirmed' = confirmed \cup {Tables[nth]}
          /\ UNCHANGED logVars /\ thread # "idle"
      BY <1>5, <2>1 DEF SelectRows
    <3> QED BY <2>1, <3>1, NextKeeps DEF ArchiveInv
  <2>2. CASE {r \in cut : logged[r] = "old"} # {}
    BY <1>5, <2>2 DEF SelectRows, ArchiveInv, ThreadOK, CycleOK, CutOK, Old, Accounted
  <2> QED BY <2>1, <2>2
<1>6. CASE SelectFails
  BY <1>6, NextKeeps DEF SelectFails, ArchiveInv
<1>7. CASE WriteFile
  BY <1>7 DEF WriteFile, ArchiveInv, ThreadOK, CycleOK, CutOK, Old, Accounted
<1>8. CASE FileFails
  <2>1. NextTable({}) /\ thread # "idle" /\ archived \subseteq archived'
        /\ UNCHANGED <<logged, confirmed>>
    BY <1>8 DEF FileFails
  <2> QED BY <2>1, NextKeeps DEF ArchiveInv
<1>9. CASE DeleteRows
  <2>1. /\ NextTable({}) /\ thread # "idle" /\ archived' = archived
        /\ confirmed' = confirmed \cup {Tables[nth]}
        /\ Removed({r \in cut : logged[r] = "old"}) \/ UNCHANGED logged
    BY <1>9 DEF DeleteRows
  <2>2. /\ DOMAIN logged' = Rows
        /\ \A r \in Rows : /\ logged'[r] = "old" => logged[r] = "old"
                           /\ logged[r] = "old" => logged'[r] \in {"old", "gone"}
    BY <2>1 DEF Removed, ArchiveInv
  <2>3. \A r \in cut : logged'[r] = "old" => r \in archived
    BY <1>9, <2>2 DEF DeleteRows, ArchiveInv, ThreadOK, CutOK
  <2> QED BY <2>1, <2>2, <2>3, NextKeeps
<1>10. CASE PruneTables
  BY <1>10 DEF PruneTables, Removed, ArchiveInv, ThreadOK, CycleOK, CutOK
<1>11. CASE TickPrunes
  BY <1>11, FewerRows DEF TickPrunes, ArchiveInv
<1>12. CASE HourPasses
  BY <1>12, FewerRows DEF HourPasses, ArchiveInv
<1>13. CASE TickCancelled
  BY <1>13 DEF TickCancelled, ArchiveInv, ThreadOK, CycleOK, CutOK
<1>14. CASE ArchiveCrash
  BY <1>14 DEF ArchiveCrash, ArchiveInv, ThreadOK, CycleOK, CutOK
<1>15. CASE UNCHANGED archiveVars
  BY <1>15, FewerRows DEF archiveVars, ArchiveInv
<1> QED BY <1>1, <1>2, <1>3, <1>4, <1>5, <1>6, <1>7, <1>8, <1>9, <1>10, <1>11, <1>12,
           <1>13, <1>14, <1>15 DEF ArchiveNext

(* Whatever fails or is cut short, and whatever the node deletes meanwhile, *)
(* the plugin takes a row out of its log only if it is in a written file,  *)
(* came of age after the cutoff, or was not read.                          *)
THEOREM ArchivedFirstTheorem == ArchiveSpec => ArchivedFirst
<1>1. ArchiveInit => ArchiveInv
  BY DEF ArchiveInit, ArchiveInv, ThreadOK, CycleOK, CutOK
<1>2. ArchiveInv /\ [ArchiveNext]_archiveVars => ArchiveInv'
  BY StepArchive
<1>3. ArchiveInv /\ [ArchiveNext]_archiveVars =>
        [\A r \in Rows : (DeleteRows \/ PruneTables) /\ logged[r] = "old" /\ logged'[r] = "gone"
                         => r \in archived \cup late \cup unread]_archiveVars
  <2> SUFFICES ASSUME ArchiveInv, NEW r \in Rows, DeleteRows \/ PruneTables,
                      logged[r] = "old", logged'[r] = "gone"
               PROVE  r \in archived \cup late \cup unread
    OBVIOUS
  <2>1. CASE DeleteRows
    BY <2>1 DEF DeleteRows, Removed, ArchiveInv, ThreadOK
  <2>2. CASE PruneTables
    BY <2>2 DEF PruneTables, Removed, ArchiveInv, CycleOK, Accounted, Old
  <2> QED BY <2>1, <2>2
<1> QED BY <1>1, <1>2, <1>3, PTL DEF ArchiveSpec, ArchivedFirst
HIDE CacheAssumption
HIDE DEF cacheVars, readVars, Versions, Moments

-----------------------------------------------------------------------------
(***************************************************************************)
(* The watchman                                                            *)
(***************************************************************************)
\* Without automatic upgrades only the monitor spawns, it spawns when the
\* process it waited for, which is the one that is known, has exited, and run()
\* terminates the known process after the monitor has ended.
OneNode ==
  ~auto =>
    /\ upgrade = "over" /\ alive \subseteq {proc}
    /\ monitor # "over" => watched = proc
    /\ monitor = "backoff" => alive = {}
    /\ run # "on" => monitor = "over"
    /\ run = "ending" => killing["run"] = proc \/ alive = {}
    /\ run = "exited" => alive = {}

\* The monitor counts no restart after the one it gave up at.
GivesUp == restarts > MaxRestarts => ~running

WatchmanInv == WatchmanTypeOK /\ OneNode /\ GivesUp

LEMMA WatchmanInitInv == WatchmanInit => WatchmanInv
<1> SUFFICES ASSUME WatchmanInit PROVE WatchmanInv  OBVIOUS
<1> USE WatchmanAssumption DEF WatchmanInit, Procs, Callers
<1>1. running \in BOOLEAN /\ shutdown \in BOOLEAN /\ auto \in BOOLEAN  OBVIOUS
<1>2. upgrade \in {"idle", "over"} /\ (~auto => upgrade = "over")  OBVIOUS
<1>3. WatchmanTypeOK  BY <1>1, <1>2 DEF WatchmanTypeOK
<1>4. OneNode /\ GivesUp  BY <1>2 DEF OneNode, GivesUp
<1> QED BY <1>3, <1>4 DEF WatchmanInv

LEMMA WatchmanStep ==
  ASSUME WatchmanInv, [WatchmanNext]_watchmanVars PROVE WatchmanInv'
<1> USE WatchmanAssumption DEF WatchmanInv, WatchmanTypeOK, OneNode, GivesUp, Procs, Callers, flags, loops
<1>1. ASSUME NEW i \in Procs, NodeExits(i) PROVE WatchmanInv'
  BY <1>1 DEF NodeExits
<1>2. ASSUME NEW c \in Callers, Forced(c) PROVE WatchmanInv'
  BY <1>2 DEF Forced
<1>3. ASSUME NEW b \in BOOLEAN, NodeEnded(b) PROVE WatchmanInv'
  <2>1. restarts' \in 0..MaxRestarts + 1
    BY <1>3 DEF NodeEnded
  <2> QED BY <1>3, <2>1 DEF NodeEnded
<1>4. ASSUME NEW b \in BOOLEAN, Probe(b) PROVE WatchmanInv'
  BY <1>4 DEF Probe
<1>5. ASSUME NEW b \in BOOLEAN, UpgradeProbed(b) PROVE WatchmanInv'
  BY <1>5 DEF UpgradeProbed, Terminating
<1>6. CASE Watch  BY <1>6 DEF Watch
<1>7. CASE Respawn  BY <1>7 DEF Respawn, Spawn
<1>8. CASE HealthOver  BY <1>8 DEF HealthOver
<1>9. CASE UpgradeStops  BY <1>9 DEF UpgradeStops, Terminating
<1>10. CASE UpgradeInstalls  BY <1>10 DEF UpgradeInstalls, Terminated
<1>11. CASE UpgradeSpawns
  <2>1. CASE Spawn  BY <1>11, <2>1 DEF UpgradeSpawns, Spawn
  <2>2. CASE UNCHANGED <<alive, proc, spawned>>  BY <1>11, <2>2 DEF UpgradeSpawns
  <2> QED BY <1>11, <2>1, <2>2 DEF UpgradeSpawns
<1>12. CASE RolledBack
  <2>1. CASE Spawn  BY <1>12, <2>1 DEF RolledBack, Spawn
  <2>2. CASE UNCHANGED <<alive, proc, spawned>>  BY <1>12, <2>2 DEF RolledBack
  <2> QED BY <1>12, <2>1, <2>2 DEF RolledBack
<1>13. CASE UpgradeOver  BY <1>13 DEF UpgradeOver
<1>14. CASE Stop
  <2>1. shutdown' \in BOOLEAN /\ running' \in BOOLEAN /\ ~running'
    BY <1>14 DEF Stop
  <2>3. killing' \in [Callers -> 0..MaxSpawns] /\ killing'["run"] = killing["run"]
    BY <1>14 DEF Stop, Terminating
  <2>2. UNCHANGED <<alive, proc, auto, restarts, fails, monitor, watched, health, upgrade, run, spawned>>
    BY <1>14 DEF Stop
  <2> QED BY <2>1, <2>2, <2>3
<1>15. CASE StopDone  BY <1>15 DEF StopDone, Terminated
<1>16. CASE RunEnds  BY <1>16 DEF RunEnds, Terminating
<1>17. CASE RunExits  BY <1>17 DEF RunExits, Terminated
<1>18. CASE UNCHANGED watchmanVars  BY <1>18 DEF watchmanVars
<1> QED
  BY <1>1, <1>2, <1>3, <1>4, <1>5, <1>6, <1>7, <1>8, <1>9, <1>10, <1>11, <1>12, <1>13, <1>14,
     <1>15, <1>16, <1>17, <1>18 DEF WatchmanNext

\* When run() of the supervisor has returned no node process is left, unless
\* upgrades are automatic.
THEOREM ExitedIsDeadTheorem == WatchmanSpec => []ExitedIsDead
<1>1. WatchmanInv => ExitedIsDead  BY DEF WatchmanInv, OneNode, ExitedIsDead
<1> QED BY <1>1, WatchmanInitInv, WatchmanStep, PTL DEF WatchmanSpec
-----------------------------------------------------------------------------
(* The Tor plugin.  A line of the control stream says that the service is  *)
(* published only if its descriptor was.                                   *)

Told == {l \in [cmd : Nat, last : BOOLEAN, state : HsStates] : l.state = "published" => everLive}

TorLiveInv ==
  /\ everLive \in BOOLEAN
  /\ published \in BOOLEAN
  /\ torLive \in BOOLEAN
  /\ torLive => everLive
  /\ published => everLive
  /\ stream \in Seq(Told) /\ heard \in Seq(Told)
  /\ due \in Seq(Nat) /\ commands \in Nat

\* A sequence over a set is one over a larger set.
LEMMA SeqGrows ==
  ASSUME NEW S, NEW T, S \subseteq T, NEW q \in Seq(S)
  PROVE  q \in Seq(T)
OBVIOUS

\* Sequences of what has been heard
LEMMA OneSeq ==
  ASSUME NEW S, NEW x \in S
  PROVE  <<>> \in Seq(S) /\ <<x>> \in Seq(S)
OBVIOUS

LEMMA ConcatSeq ==
  ASSUME NEW S, NEW p \in Seq(S), NEW q \in Seq(S)
  PROVE  p \o q \in Seq(S)
OBVIOUS

\* A state that is read off the lines was live.
LEMMA StateOfTold ==
  ASSUME NEW q \in Seq(Told), StateOf(q) = "published"
  PROVE  everLive
<1> DEFINE valued == {i \in DOMAIN q : q[i].state # "none"}
           at     == CHOOSE i \in valued : \A j \in valued : i <= j
<1>1. valued # {}
  BY DEF StateOf
<1>2. valued \in SUBSET Nat
  OBVIOUS
<1>3. \E i \in valued : \A j \in valued : i <= j
  BY <1>1, <1>2, LeastNat
<1>4. at \in valued
  BY <1>3
<1>5. StateOf(q) = q[at].state
  BY <1>1 DEF StateOf
<1>6. q[at] \in Told
  BY <1>4
<1> QED
  BY <1>5, <1>6 DEF Told

\* Reading a reply leaves the lines as good as they were.
LEMMA RepliedKeeps ==
  ASSUME TorLiveInv, UNCHANGED <<everLive, torLive, due>>, NEW q \in Seq(Told), Replied(q), stream' \in Seq(Told)
  PROVE  TorLiveInv'
<1>0. Told' = Told
  BY DEF Told
<1>1. heard' \in Seq(Told') /\ UNCHANGED commands
  BY <1>0 DEF Replied
<1>2. published' \in BOOLEAN /\ (published' => everLive)
  <2>1. CASE Good(StateOf(q))
    <3>1. everLive
      BY <2>1, StateOfTold DEF Good
    <3>2. published' = TRUE
      BY <2>1 DEF Replied
    <3> QED
      BY <3>1, <3>2
  <2>2. CASE ~Good(StateOf(q))
    BY <2>2 DEF Replied, TorLiveInv
  <2> QED
    BY <2>1, <2>2
<1> QED
  BY <1>0, <1>1, <1>2 DEF TorLiveInv

LEMMA TorLiveStep ==
  ASSUME TorLiveInv, [TorNext]_torVars
  PROVE  TorLiveInv'
<1> USE DEF torWorld, torLink, torReady, torVerify, torHost, torStops
<1> DEFINE Same == UNCHANGED <<everLive, torLive, published, stream, heard, due, commands>>
<1>s. ASSUME Same PROVE TorLiveInv'
  BY <1>s DEF TorLiveInv, Told
<1>1. CASE Publishes
  <2>1. torLive' \in BOOLEAN /\ everLive' \in BOOLEAN /\ (torLive' => everLive') /\ (everLive => everLive')
    BY <1>1 DEF Publishes, TorLiveInv
  <2>2. Told \subseteq Told'
    BY <2>1 DEF Told
  <2>3. UNCHANGED <<published, stream, heard, due, commands>>
    BY <1>1 DEF Publishes
  <2>4. stream' \in Seq(Told') /\ heard' \in Seq(Told')
    BY <2>2, <2>3, SeqGrows DEF TorLiveInv
  <2> QED
    BY <2>1, <2>3, <2>4 DEF TorLiveInv
<1>2. CASE AnswersCommand
  <2>1. PICK s \in (IF torLive THEN {"published", "", "none"} ELSE {"creating", "", "none"}) :
          stream' = stream \o
            (IF s = "none" THEN <<>> ELSE <<[cmd |-> Head(due), last |-> FALSE, state |-> s]>>)
            \o <<[cmd |-> Head(due), last |-> TRUE, state |-> "none"]>>
    BY <1>2 DEF AnswersCommand
  <2>2. Head(due) \in Nat /\ due' \in Seq(Nat)
    <3>1. due \in Seq(Nat) /\ due # <<>> /\ due' = Tail(due)
      BY <1>2 DEF AnswersCommand, TorLiveInv
    <3> QED
      BY <3>1, Zenon, HeadTailProperties
  <2>3. s \in HsStates /\ (s = "published" => everLive) /\ "none" \in HsStates
    BY DEF HsStates, TorLiveInv
  <2>4. [cmd |-> Head(due), last |-> FALSE, state |-> s] \in Told
    BY <2>2, <2>3 DEF Told
  <2>5. [cmd |-> Head(due), last |-> TRUE, state |-> "none"] \in Told
    BY <2>2, <2>3 DEF Told
  <2>6. UNCHANGED <<everLive, torLive, published, heard, commands>> /\ Told' = Told
    BY <1>2 DEF AnswersCommand, Told
  <2>7. stream' \in Seq(Told)
    <3> DEFINE u == [cmd |-> Head(due), last |-> FALSE, state |-> s]
               v == [cmd |-> Head(due), last |-> TRUE, state |-> "none"]
               w == IF s = "none" THEN <<>> ELSE <<u>>
    <3>1. u \in Told /\ v \in Told /\ stream \in Seq(Told) /\ stream' = stream \o w \o <<v>>
      BY <2>1, <2>4, <2>5 DEF TorLiveInv
    <3> HIDE DEF u, v
    <3>2. w \in Seq(Told) /\ <<v>> \in Seq(Told)
      BY <3>1, OneSeq
    <3> HIDE DEF w
    <3>3. stream \o w \in Seq(Told)
      BY <3>1, <3>2, ConcatSeq
    <3> QED
      BY <3>1, <3>2, <3>3, ConcatSeq
  <2> QED
    BY <2>2, <2>6, <2>7 DEF TorLiveInv
<1>3. CASE TorDies
  <2>1. /\ torLive' = FALSE /\ due' = <<>> /\ UNCHANGED <<everLive, published, stream, heard, commands>>
    BY <1>3 DEF TorDies
  <2>2. Told' = Told /\ <<>> \in Seq(Nat)
    BY <2>1 DEF Told
  <2> QED
    BY <2>1, <2>2 DEF TorLiveInv
<1>4. CASE Asks
  <2>1. UNCHANGED <<everLive, torLive, published, stream>> /\ Told' = Told
    BY <1>4 DEF Asks, Told
  <2>2. heard' \in Seq(Told) /\ commands' \in Nat /\ due' \in Seq(Nat)
    <3>1. CASE UNCHANGED <<commands, pending, heard, due>>
      BY <3>1 DEF TorLiveInv
    <3>2. CASE /\ commands' = commands + 1 /\ heard' = <<>>
               /\ due' = IF torProcess = "up" THEN Append(due, commands') ELSE due
      BY <3>2 DEF TorLiveInv
    <3> QED
      BY <1>4, <3>1, <3>2 DEF Asks
  <2> QED
    BY <2>1, <2>2 DEF TorLiveInv
<1>5. CASE \E ok \in BOOLEAN : SelfDial(ok)
  <2>1. PICK ok \in BOOLEAN : SelfDial(ok)
    BY <1>5
  <2>2. UNCHANGED <<everLive, torLive, stream, heard, due, commands>> /\ Told' = Told
    BY <2>1 DEF SelfDial, Told
  <2>3. published' = ok /\ (ok => torLive)
    BY <2>1 DEF SelfDial
  <2> QED
    BY <2>2, <2>3 DEF TorLiveInv
<1>6. CASE ReadsLine \/ ReadsDirectly
  <2>1. UNCHANGED <<everLive, torLive, due>> /\ Told' = Told
    BY <1>6 DEF ReadsLine, ReadsDirectly, Told
  <2>2. Head(stream) \in Told /\ stream' \in Seq(Told)
    <3>1. stream \in Seq(Told) /\ stream # <<>> /\ stream' = Tail(stream)
      BY <1>6 DEF ReadsLine, ReadsDirectly, TorLiveInv
    <3> QED
      BY <3>1
  <2>3. Append(heard, Head(stream)) \in Seq(Told)
    BY <2>2 DEF TorLiveInv
  <2>4. CASE Replied(Append(heard, Head(stream)))
    BY <2>1, <2>2, <2>3, <2>4, RepliedKeeps
  <2>5. CASE heard' \in {heard, Append(heard, Head(stream))} /\ UNCHANGED torVerify
    BY <2>1, <2>2, <2>3, <2>5 DEF TorLiveInv
  <2> QED
    BY <1>6, <2>4, <2>5 DEF ReadsLine, ReadsDirectly
<1>7. CASE ReplyTimesOut \/ LoopEnds \/ ReadFails
  <2>1. /\ heard' = <<>> /\ UNCHANGED <<everLive, torLive, published, stream, due, commands>>
    BY <1>7 DEF ReplyTimesOut, LoopEnds, ReadFails
  <2>2. Told' = Told /\ <<>> \in Seq(Told)
    BY <2>1 DEF Told
  <2> QED
    BY <2>1, <2>2 DEF TorLiveInv
<1>8. CASE Cancels
  <2>1. /\ heard' \in {heard, <<>>} /\ UNCHANGED <<everLive, torLive, published, stream, due, commands>>
    BY <1>8 DEF Cancels
  <2>2. Told' = Told /\ <<>> \in Seq(Told)
    BY <2>1 DEF Told
  <2> QED
    BY <2>1, <2>2 DEF TorLiveInv
<1>9. CASE Restores
  <2>1. /\ stream' = <<>> /\ due' = <<>> /\ UNCHANGED <<everLive, torLive, published, heard, commands>>
    BY <1>9 DEF Restores
  <2>2. Told' = Told /\ <<>> \in Seq(Told) /\ <<>> \in Seq(Nat)
    BY <2>1 DEF Told
  <2> QED
    BY <2>1, <2>2 DEF TorLiveInv
<1>10. CASE WritesHostname \/ Connects \/ Wires \/ StatusAsked \/ Looks \/ BlockBegins \/ BlockEnds \/ StopCalled \/ StopEnds
  <2>1. Same
    BY <1>10 DEF WritesHostname, Connects, Wires, StatusAsked, Looks, BlockBegins, BlockEnds, StopCalled, StopEnds
  <2> QED
    BY <2>1, <1>s
<1>11. CASE \E b \in BOOLEAN : Imports(b) \/ Subscribes(b) \/ ReadsEvent(b)
  <2>1. Same
    BY <1>11 DEF Imports, Subscribes, ReadsEvent
  <2> QED
    BY <2>1, <1>s
<1>12. CASE UNCHANGED torVars
  <2>1. Same
    BY <1>12 DEF torVars
  <2> QED
    BY <2>1, <1>s
<1> QED
  BY <1>1, <1>2, <1>3, <1>4, <1>5, <1>6, <1>7, <1>8, <1>9, <1>10, <1>11, <1>12 DEF TorNext

\* The service is shown as published only if its descriptor was, whatever lines
\* of the control stream come late or are taken by another command.
THEOREM PublishedWasLiveTheorem == TorSpec => []PublishedWasLive
<1>1. TorInit => TorLiveInv
  <2> SUFFICES ASSUME TorInit PROVE TorLiveInv
    OBVIOUS
  <2>1. <<>> \in Seq(Told) /\ <<>> \in Seq(Nat)
    OBVIOUS
  <2> QED
    BY <2>1 DEF TorInit, TorLiveInv
<1>2. TorLiveInv /\ [TorNext]_torVars => TorLiveInv'
  BY TorLiveStep
<1>3. TorLiveInv => PublishedWasLive
  BY DEF TorLiveInv, PublishedWasLive
<1> QED
  BY <1>1, <1>2, <1>3, PTL DEF TorSpec
-----------------------------------------------------------------------------
(* The firewall.  The inbound half and the outbound half share no variable *)
(* but the time.                                                           *)

\* The duplicates that wait, and those remembered.
Keyed1(q, i, j) == DedupKeyOf[q[i].msg] = DedupKeyOf[q[j].msg]

\* A duplicate is still recognised, or no copy has come for DedupTtl.
Remembered(k) ==
  \/ \E i \in ItemsOf(history, k) : history[i].seen = lastHeard[k]
  \/ Lapsed(k)

KeyOK(k) ==
  /\ handed[k] <= 1 + forgot[k]
  /\ ItemsOf(pendingIn, k) # {} => handed[k] <= forgot[k]
  /\ handed[k] = 1 + forgot[k] => Remembered(k)

InboundOK ==
  /\ Len(history) <= HistoryMax
  /\ \A i, j \in DOMAIN pendingIn : Keyed1(pendingIn, i, j) => i = j
  /\ \A i \in DOMAIN pendingIn : pendingIn[i].seen = lastHeard[DedupKeyOf[pendingIn[i].msg]]
  /\ \A k \in FwKeys : KeyOK(k)

OutboundOK ==
  /\ Once(penalty) /\ Once(remaining)
  /\ In(penalty) \cap In(remaining) = {}
  /\ (In(penalty) \cup In(remaining)) \cap drained = {}
  /\ \A m, n \in drained : m = n
  /\ \A m \in Departures :
       /\ outAt[m] = "deferred" <=> m \in In(penalty) \cup In(remaining) \cup drained
       /\ outAt[m] = "lost" => m \in unknown
       /\ sends[m] <= 1
       /\ outAt[m] # "done" => sends[m] = 0

InType ==
  /\ pendingIn \in Seq(FwItem) /\ history \in Seq(FwItem)
  /\ handed \in [FwKeys -> Nat] /\ forgot \in [FwKeys -> Nat]
  /\ lastHeard \in [FwKeys -> 0..MaxFwTime] /\ fwTime \in 1..MaxFwTime

OutType ==
  /\ outAt \in [Departures -> {"new", "sending", "deferred", "done", "lost"}]
  /\ penalty \in Seq(Departures) /\ remaining \in Seq(Departures)
  /\ drained \subseteq Departures /\ unknown \subseteq Departures
  /\ sends \in [Departures -> Nat]

OutInv == OutType /\ OutboundOK

-----------------------------------------------------------------------------
LEMMA OutStep ==
  ASSUME OutInv, [FirewallInNext \/ FirewallOutNext]_fwVars
  PROVE  OutInv'
<1> USE DEF outVars
<1> DEFINE Same == UNCHANGED <<outAt, penalty, remaining, drained, sends, unknown>>
<1>s. ASSUME Same PROVE OutInv'
  <2>1. OutType'
    BY <1>s DEF OutInv, OutType
  <2>2. In(penalty') = In(penalty) /\ In(remaining') = In(remaining) /\ Once(penalty') /\ Once(remaining')
    BY <1>s DEF OutInv, OutboundOK
  <2>3. OutboundOK'
    BY <1>s, <2>2 DEF OutInv, OutboundOK
  <2> QED
    BY <2>1, <2>3 DEF OutInv
<1>1. CASE FirewallInNext \/ UNCHANGED fwVars
  <2>1. Same
    BY <1>1 DEF FirewallInNext, MessageArrives, SenderWarned, TakesNext, TickCleans, FwTimePasses,
                FirewallStops, fwVars
  <2> QED
    BY <2>1, <1>s
<1>2. ASSUME NEW m \in Departures, GoesOut(m)
      PROVE  OutInv'
  <2>1. UNCHANGED <<remaining, drained, sends, unknown>> /\ outAt[m] = "new"
    BY <1>2 DEF GoesOut
  <2>2. m \notin In(penalty) \cup In(remaining) \cup drained
    BY <2>1 DEF OutInv, OutboundOK
  <2>3. CASE outAt' = [outAt EXCEPT ![m] = "deferred"] /\ penalty' = Append(penalty, m)
    <3>1. Once(penalty') /\ In(penalty') = In(penalty) \cup {m} /\ penalty' \in Seq(Departures)
      BY <2>2, <2>3, OnceAppended DEF OutInv, OutType, OutboundOK
    <3>2. In(remaining') = In(remaining) /\ Once(remaining')
      BY <2>1 DEF In, OutInv, OutboundOK
    <3>3. \A d \in Departures : outAt'[d] = IF d = m THEN "deferred" ELSE outAt[d]
      BY <2>3 DEF OutInv, OutType
    <3>4. OutType'
      BY <2>1, <2>3, <3>1 DEF OutInv, OutType
    <3>5. OutboundOK'
      BY <2>1, <2>2, <3>1, <3>2, <3>3 DEF OutInv, OutboundOK
    <3> QED
      BY <3>4, <3>5 DEF OutInv
  <2>4. ASSUME NEW to \in {"done", "sending"}, outAt' = [outAt EXCEPT ![m] = to], UNCHANGED penalty
        PROVE  OutInv'
    <3>1. In(remaining') = In(remaining) /\ In(penalty') = In(penalty) /\ Once(remaining') /\ Once(penalty')
      BY <2>1, <2>4 DEF In, OutInv, OutboundOK
    <3>2. \A d \in Departures : outAt'[d] = IF d = m THEN to ELSE outAt[d]
      BY <2>4 DEF OutInv, OutType
    <3>3. OutType'
      BY <2>1, <2>4 DEF OutInv, OutType
    <3>4. OutboundOK'
      BY <2>1, <2>2, <2>4, <3>1, <3>2 DEF OutInv, OutboundOK
    <3> QED
      BY <3>3, <3>4 DEF OutInv
  <2> QED
    BY <1>2, <2>3, <2>4 DEF GoesOut
<1>3. ASSUME NEW m \in Departures, HasGone(m)
      PROVE  OutInv'
  <2>1. UNCHANGED <<penalty, remaining, drained, unknown>> /\ outAt[m] = "sending" /\ Sent(m)
    BY <1>3 DEF HasGone
  <2>2. m \notin In(penalty) \cup In(remaining) \cup drained /\ sends[m] = 0
    BY <2>1 DEF OutInv, OutboundOK
  <2>3. In(remaining') = In(remaining) /\ In(penalty') = In(penalty) /\ Once(remaining') /\ Once(penalty')
    BY <2>1 DEF In, OutInv, OutboundOK
  <2>4. \A d \in Departures : /\ outAt'[d] = IF d = m THEN "done" ELSE outAt[d]
                              /\ sends'[d] = IF d = m THEN 1 ELSE sends[d]
    BY <2>1, <2>2 DEF Sent, OutInv, OutType
  <2>5. OutType'
    BY <2>1, <2>2 DEF Sent, OutInv, OutType
  <2>6. OutboundOK'
    BY <2>1, <2>2, <2>3, <2>4 DEF OutInv, OutboundOK
  <2> QED
    BY <2>5, <2>6 DEF OutInv
<1>4. CASE DrainStarts \/ \E p \in Targets : PeerAsks(p)
  <2>1. Same
    BY <1>4 DEF DrainStarts, PeerAsks
  <2> QED
    BY <2>1, <1>s
<1>5. CASE DrainTakes
  <2> DEFINE m == Head(penalty)
  <2>1. /\ drained = {} /\ penalty # <<>> /\ penalty' = Tail(penalty) /\ UNCHANGED sends
        /\ penalty \in Seq(Departures) /\ Once(penalty)
    BY <1>5 DEF DrainTakes, OutInv, OutType, OutboundOK
  <2>2. /\ m \in Departures /\ penalty' \in Seq(Departures) /\ Once(penalty')
        /\ In(penalty') = In(penalty) \ {m} /\ m \in In(penalty)
    BY <2>1, OnceTail, TailIs
  <2>3. outAt[m] = "deferred" /\ m \notin In(remaining)
    BY <2>2 DEF OutInv, OutboundOK
  <2> HIDE DEF m
  <2>4. CASE /\ outAt' = [outAt EXCEPT ![m] = "lost"] /\ unknown' = unknown \cup {m}
             /\ UNCHANGED <<drained, remaining>>
    <3>1. In(remaining') = In(remaining) /\ Once(remaining')
      BY <2>4 DEF In, OutInv, OutboundOK
    <3>2. \A d \in Departures : outAt'[d] = IF d = m THEN "lost" ELSE outAt[d]
      BY <2>4 DEF OutInv, OutType
    <3>3. OutType'
      BY <2>1, <2>2, <2>4 DEF OutInv, OutType
    <3>4. OutboundOK'
      BY <2>1, <2>2, <2>3, <2>4, <3>1, <3>2 DEF OutInv, OutboundOK
    <3> QED
      BY <3>3, <3>4 DEF OutInv
  <2>5. CASE drained' = {m} /\ UNCHANGED <<outAt, unknown, remaining>>
    <3>1. In(remaining') = In(remaining) /\ Once(remaining')
      BY <2>5 DEF In, OutInv, OutboundOK
    <3>3. OutType'
      BY <2>1, <2>2, <2>5 DEF OutInv, OutType
    <3>4. OutboundOK'
      BY <2>1, <2>2, <2>3, <2>5, <3>1 DEF OutInv, OutboundOK
    <3> QED
      BY <3>3, <3>4 DEF OutInv
  <2>6. CASE remaining' = Append(remaining, m) /\ UNCHANGED <<outAt, unknown, drained>>
    <3>1. In(remaining') = In(remaining) \cup {m} /\ Once(remaining') /\ remaining' \in Seq(Departures)
      BY <2>2, <2>3, <2>6, OnceAppended DEF OutInv, OutType, OutboundOK
    <3>3. OutType'
      BY <2>1, <2>2, <2>6, <3>1 DEF OutInv, OutType
    <3>4. OutboundOK'
      BY <2>1, <2>2, <2>3, <2>6, <3>1 DEF OutInv, OutboundOK
    <3> QED
      BY <3>3, <3>4 DEF OutInv
  <2> QED
    BY <1>5, <2>4, <2>5, <2>6 DEF DrainTakes, m
<1>6. ASSUME NEW m \in Departures, DrainSends(m)
      PROVE  OutInv'
  <2>1. UNCHANGED <<penalty, remaining, unknown>> /\ m \in drained /\ drained' = {} /\ Sent(m)
    BY <1>6 DEF DrainSends
  <2>2. drained = {m} /\ m \notin In(penalty) \cup In(remaining) /\ outAt[m] = "deferred" /\ sends[m] = 0
    BY <2>1 DEF OutInv, OutboundOK
  <2>3. In(remaining') = In(remaining) /\ In(penalty') = In(penalty) /\ Once(remaining') /\ Once(penalty')
    BY <2>1 DEF In, OutInv, OutboundOK
  <2>4. \A d \in Departures : /\ outAt'[d] = IF d = m THEN "done" ELSE outAt[d]
                              /\ sends'[d] = IF d = m THEN 1 ELSE sends[d]
    BY <2>1, <2>2 DEF Sent, OutInv, OutType
  <2>5. OutType'
    BY <2>1, <2>2 DEF Sent, OutInv, OutType
  <2>6. OutboundOK'
    BY <2>1, <2>2, <2>3, <2>4 DEF OutInv, OutboundOK
  <2> QED
    BY <2>5, <2>6 DEF OutInv
<1>7. CASE DrainEnds
  <2>1. /\ drained = {} /\ penalty = <<>> /\ penalty' = remaining /\ remaining' = <<>>
        /\ UNCHANGED <<outAt, drained, sends, unknown>>
    BY <1>7 DEF DrainEnds, Emptied
  <2>2. In(penalty') = In(remaining) /\ In(penalty) = {} /\ In(remaining') = {} /\ Once(remaining')
        /\ Once(penalty')
    BY <2>1 DEF In, Once, OutInv, OutboundOK
  <2>3. OutType'
    BY <2>1 DEF OutInv, OutType
  <2>4. OutboundOK'
    BY <2>1, <2>2 DEF OutInv, OutboundOK
  <2> QED
    BY <2>3, <2>4 DEF OutInv
<1> QED
  BY <1>1, <1>2, <1>3, <1>4, <1>5, <1>6, <1>7 DEF FirewallOutNext

LEMMA Occurrences ==
  ASSUME NEW S, NEW q \in Seq(S), NEW x, Once(q)
  PROVE  Cardinality({i \in DOMAIN q : q[i] = x}) = IF x \in In(q) THEN 1 ELSE 0
<1>1. CASE x \in In(q)
  <2>1. PICK i \in DOMAIN q : q[i] = x
    BY <1>1 DEF In
  <2>2. {j \in DOMAIN q : q[j] = x} = {i}
    BY <2>1 DEF Once
  <2> QED
    BY <1>1, <2>2, FS_Singleton
<1>2. CASE x \notin In(q)
  <2>1. {j \in DOMAIN q : q[j] = x} = {}
    BY <1>2 DEF In
  <2> QED
    BY <1>2, <2>1, FS_EmptySet
<1> QED
  BY <1>1, <1>2

LEMMA OutOnce ==
  ASSUME OutInv, NEW m \in Departures
  PROVE  /\ outAt[m] = "deferred" => Places(m) = 1
         /\ outAt[m] = "lost" => m \in unknown
         /\ sends[m] <= 1
<1>1. SUFFICES ASSUME outAt[m] = "deferred" PROVE Places(m) = 1
  BY DEF OutInv, OutboundOK
<1> DEFINE a == Cardinality({i \in DOMAIN penalty : penalty[i] = m})
           b == Cardinality({i \in DOMAIN remaining : remaining[i] = m})
           c == Cardinality(drained \cap {m})
<1>2. /\ a = IF m \in In(penalty) THEN 1 ELSE 0
      /\ b = IF m \in In(remaining) THEN 1 ELSE 0
  BY Occurrences DEF OutInv, OutType, OutboundOK
<1>3. c = IF m \in drained THEN 1 ELSE 0
  <2>1. CASE m \in drained
    <3>1. drained \cap {m} = {m}
      BY <2>1
    <3> QED
      BY <2>1, <3>1, FS_Singleton
  <2>2. CASE m \notin drained
    <3>1. drained \cap {m} = {}
      BY <2>2
    <3> QED
      BY <2>2, <3>1, FS_EmptySet
  <2> QED
    BY <2>1, <2>2
<1>4. Places(m) = a + b + c + sends[m] /\ sends[m] = 0
  BY <1>1 DEF Places, OutInv, OutboundOK
<1> HIDE DEF a, b, c
<1> QED
  BY <1>1, <1>2, <1>3, <1>4 DEF OutInv, OutboundOK
-----------------------------------------------------------------------------
(* Inbound                                                                 *)

InInv == InType /\ InboundOK

LEMMA PurgedIs ==
  ASSUME NEW q \in Seq(FwItem)
  PROVE  /\ Purged(q) \in Seq(FwItem) /\ Len(Purged(q)) <= Len(q)
         /\ \A k : ItemsOf(Purged(q), k) # {} => ItemsOf(q, k) # {}
         /\ \A i \in DOMAIN q : Live(q[i]) => \E j \in DOMAIN Purged(q) : Purged(q)[j] = q[i]
<1> DEFINE T == {e \in FwItem : Live(e)}
           p == Kept(q, T)
<1>1. /\ p \in Seq(FwItem) /\ Len(p) <= Len(q)
      /\ \A i \in DOMAIN p : \E j \in DOMAIN q : p[i] = q[j] /\ q[j] \in T
      /\ \A j \in DOMAIN q : q[j] \in T => \E i \in DOMAIN p : p[i] = q[j]
  <2> HIDE DEF T
  <2> QED
    BY KeptElements
<1>2. p = Purged(q)
  BY DEF Purged
<1> HIDE DEF p
<1>3. \A i \in DOMAIN q : Live(q[i]) => q[i] \in T
  OBVIOUS
<1>4. \A k : ItemsOf(p, k) # {} => ItemsOf(q, k) # {}
  BY <1>1 DEF ItemsOf
<1> QED
  BY <1>1, <1>2, <1>3, <1>4

LEMMA KeysOfItems == \A e \in FwItem : e.msg \in Arrivals /\ e.seen \in 1..MaxFwTime /\ DedupKeyOf[e.msg] \in FwKeys
BY DEF FwItem, FwKeys

LEMMA SeenIs ==
  ASSUME NEW q \in Seq(FwItem), NEW k, fwTime \in 1..MaxFwTime
  PROVE  /\ Seen(q, k) \in Seq(FwItem) /\ Len(Seen(q, k)) = Len(q) /\ DOMAIN Seen(q, k) = DOMAIN q
         /\ \A i \in DOMAIN q : /\ Seen(q, k)[i].msg = q[i].msg
                                /\ Seen(q, k)[i].seen = IF i \in ItemsOf(q, k) THEN fwTime ELSE q[i].seen
         /\ \A j : ItemsOf(Seen(q, k), j) = ItemsOf(q, j)
<1> DEFINE p == Seen(q, k)
<1>0. \A e \in FwItem : [e EXCEPT !.seen = fwTime] \in FwItem
  BY DEF FwItem
<1>1. \A i \in DOMAIN q : q[i] \in FwItem /\ [q[i] EXCEPT !.seen = fwTime] \in FwItem
  BY <1>0
<1>2. p \in Seq(FwItem) /\ Len(p) = Len(q) /\ DOMAIN p = DOMAIN q
  BY <1>1 DEF Seen
<1>3. \A i \in DOMAIN q : /\ p[i].msg = q[i].msg
                          /\ p[i].seen = IF i \in ItemsOf(q, k) THEN fwTime ELSE q[i].seen
  BY <1>1 DEF Seen, FwItem
<1> HIDE DEF p
<1>4. \A j : ItemsOf(p, j) = ItemsOf(q, j)
  BY <1>2, <1>3 DEF ItemsOf
<1> QED
  BY <1>2, <1>3, <1>4 DEF p

LEMMA CappedIs ==
  ASSUME NEW S, NEW q \in Seq(S), NEW max \in Nat, max # 0
  PROVE  /\ Capped(q, max) \in Seq(S)
         /\ \E d \in {0, 1} :
              /\ d = 1 <=> Len(q) > max
              /\ Len(Capped(q, max)) = Len(q) - d /\ DOMAIN Capped(q, max) = 1..Len(q) - d
              /\ \A i \in 1..Len(q) - d : Capped(q, max)[i] = q[i + d]
<1>1. CASE Len(q) > max
  <2>1. q # <<>>
    BY <1>1
  <2> QED
    BY <1>1, <2>1, TailIs DEF Capped
<1>2. CASE ~(Len(q) > max)
  BY <1>2 DEF Capped
<1> QED
  BY <1>1, <1>2

LEMMA DeduplicateKeeps ==
  ASSUME InInv, NEW m \in Arrivals, Deduplicate(m), UNCHANGED <<handed, fwTime>>
  PROVE  InInv'
<1> USE FirewallAssumption
<1> DEFINE k == DedupKeyOf[m]
<1>1. /\ k \in FwKeys /\ lastHeard' \in [FwKeys -> 0..MaxFwTime]
      /\ \A j \in FwKeys : lastHeard'[j] = IF j = k THEN fwTime ELSE lastHeard[j]
  BY DEF FwKeys, Deduplicate, InInv, InType
<1>2. \A j \in FwKeys : j # k => (Lapsed(j)' <=> Lapsed(j))
  BY <1>1 DEF Lapsed
<1>t. /\ fwTime \in 1..MaxFwTime /\ pendingIn \in Seq(FwItem) /\ history \in Seq(FwItem)
      /\ handed \in [FwKeys -> Nat] /\ forgot \in [FwKeys -> Nat] /\ lastHeard \in [FwKeys -> 0..MaxFwTime]
  BY DEF InInv, InType
<1> HIDE DEF k
<1>3. CASE ItemsOf(pendingIn, k) # {} /\ pendingIn' = Seen(pendingIn, k) /\ UNCHANGED <<history, forgot>>
  <2>1. /\ pendingIn' \in Seq(FwItem) /\ DOMAIN pendingIn' = DOMAIN pendingIn
        /\ \A i \in DOMAIN pendingIn :
             /\ pendingIn'[i].msg = pendingIn[i].msg
             /\ pendingIn'[i].seen = IF i \in ItemsOf(pendingIn, k) THEN fwTime ELSE pendingIn[i].seen
        /\ \A j : ItemsOf(pendingIn', j) = ItemsOf(pendingIn, j)
    BY <1>3, <1>t, SeenIs
  <2>2. InType'
    BY <1>1, <1>3, <1>t, <2>1 DEF InType
  <2>3. \A i, j \in DOMAIN pendingIn' : Keyed1(pendingIn', i, j) => i = j
    BY <2>1 DEF InInv, InboundOK, Keyed1
  <2>4. \A i \in DOMAIN pendingIn' : pendingIn'[i].seen = lastHeard'[DedupKeyOf[pendingIn'[i].msg]]
    <3>1. TAKE i \in DOMAIN pendingIn'
    <3>2. pendingIn[i] \in FwItem /\ DedupKeyOf[pendingIn[i].msg] \in FwKeys
      BY <1>t, <2>1, KeysOfItems
    <3>3. pendingIn[i].seen = lastHeard[DedupKeyOf[pendingIn[i].msg]]
      BY <2>1 DEF InInv, InboundOK
    <3> QED
      BY <1>1, <2>1, <3>2, <3>3 DEF ItemsOf
  <2>5. ASSUME NEW j \in FwKeys PROVE KeyOK(j)'
    <3>1. KeyOK(j)
      BY DEF InInv, InboundOK
    <3>2. ItemsOf(pendingIn', j) = ItemsOf(pendingIn, j) /\ ItemsOf(history', j) = ItemsOf(history, j)
      BY <1>3, <2>1
    <3>3. CASE j = k
      <4>1. handed[j] <= forgot[j]
        BY <1>3, <3>1, <3>3 DEF KeyOK
      <4>2. handed'[j] <= forgot'[j] /\ handed'[j] \in Nat /\ forgot'[j] \in Nat
        BY <1>3, <1>t, <4>1
      <4> QED
        BY <4>2 DEF KeyOK
    <3>4. CASE j # k
      BY <1>1, <1>2, <1>3, <3>1, <3>2, <3>4 DEF KeyOK, Remembered
    <3> QED
      BY <3>3, <3>4
  <2> QED
    BY <1>3, <2>2, <2>3, <2>4, <2>5 DEF InInv, InboundOK
<1>4. CASE /\ ItemsOf(pendingIn, k) = {} /\ ItemsOf(Purged(history), k) # {}
           /\ history' = Seen(history, k) /\ UNCHANGED <<pendingIn, forgot>>
  <2>1. /\ history' \in Seq(FwItem) /\ DOMAIN history' = DOMAIN history /\ Len(history') = Len(history)
        /\ \A i \in DOMAIN history :
             /\ history'[i].msg = history[i].msg
             /\ history'[i].seen = IF i \in ItemsOf(history, k) THEN fwTime ELSE history[i].seen
        /\ \A j : ItemsOf(history', j) = ItemsOf(history, j)
    BY <1>4, <1>t, SeenIs
  <2>2. InType'
    BY <1>1, <1>4, <1>t, <2>1 DEF InType
  <2>3. \A i \in DOMAIN pendingIn' : pendingIn'[i].seen = lastHeard'[DedupKeyOf[pendingIn'[i].msg]]
    <3>1. TAKE i \in DOMAIN pendingIn'
    <3>2. pendingIn[i] \in FwItem /\ DedupKeyOf[pendingIn[i].msg] \in FwKeys
      BY <1>t, <1>4, KeysOfItems
    <3>3. pendingIn[i].seen = lastHeard[DedupKeyOf[pendingIn[i].msg]] /\ DedupKeyOf[pendingIn[i].msg] # k
      BY <1>4 DEF InInv, InboundOK, ItemsOf
    <3> QED
      BY <1>1, <1>4, <3>2, <3>3
  <2>4. ASSUME NEW j \in FwKeys PROVE KeyOK(j)'
    <3>1. KeyOK(j)
      BY DEF InInv, InboundOK
    <3>2. ItemsOf(pendingIn', j) = ItemsOf(pendingIn, j) /\ ItemsOf(history', j) = ItemsOf(history, j)
      BY <1>4, <2>1
    <3>3. Remembered(j)' \/ (j # k /\ ~Remembered(j))
      <4>1. CASE j = k
        <5>1. PICK i \in ItemsOf(history, k) : TRUE
          BY <1>4, <1>t, PurgedIs
        <5>2. i \in DOMAIN history /\ history'[i].seen = fwTime /\ lastHeard'[j] = fwTime
          BY <1>1, <2>1, <4>1, <5>1 DEF ItemsOf
        <5> QED
          BY <3>2, <4>1, <5>1, <5>2 DEF Remembered
      <4>2. CASE j # k /\ Lapsed(j)
        BY <1>2, <4>2 DEF Remembered
      <4>3. ASSUME j # k, NEW i \in ItemsOf(history, j), history[i].seen = lastHeard[j]
            PROVE  Remembered(j)'
        <5>1. i \in DOMAIN history /\ i \notin ItemsOf(history, k)
          BY <4>3 DEF ItemsOf
        <5>2. history'[i].seen = history[i].seen /\ lastHeard'[j] = lastHeard[j]
          BY <1>1, <2>1, <4>3, <5>1
        <5> QED
          BY <3>2, <4>3, <5>2 DEF Remembered
      <4> QED
        BY <4>1, <4>2, <4>3 DEF Remembered
    <3> QED
      BY <1>4, <3>1, <3>2, <3>3 DEF KeyOK
  <2> QED
    BY <1>4, <2>1, <2>2, <2>3, <2>4 DEF InInv, InboundOK
<1>5. CASE /\ ItemsOf(pendingIn, k) = {} /\ ItemsOf(Purged(history), k) = {}
           /\ pendingIn' = Capped(Append(pendingIn, [msg |-> m, seen |-> fwTime]), PendingMax)
           /\ history' = Kept(history, {e \in FwItem : DedupKeyOf[e.msg] # k})
           /\ forgot' = Counted(forgot, {k} \cap {j \in FwKeys : Lapsed(j)})
  <2> DEFINE item == [msg |-> m, seen |-> fwTime]
             p    == Append(pendingIn, item)
             n    == Len(pendingIn)
             T    == {e \in FwItem : DedupKeyOf[e.msg] # k}
  <2>1. item \in FwItem /\ item.seen = fwTime /\ DedupKeyOf[item.msg] = k
    BY <1>t DEF FwItem, k
  <2> HIDE DEF item
  <2>2. /\ p \in Seq(FwItem) /\ Len(p) = n + 1 /\ n \in Nat /\ DOMAIN pendingIn = 1..n
        /\ p[n + 1] = item /\ \A i \in 1..n : p[i] = pendingIn[i]
    BY <1>t, <2>1
  <2>3. pendingIn' = Capped(p, PendingMax)
    BY <1>5 DEF item
  <2> HIDE DEF p
  <2>4. /\ pendingIn' \in Seq(FwItem)
        /\ \E d \in {0, 1} : /\ DOMAIN pendingIn' = 1..(n + 1) - d
                             /\ \A i \in 1..(n + 1) - d : pendingIn'[i] = p[i + d]
    <3>1. PendingMax \in Nat /\ PendingMax # 0
      OBVIOUS
    <3> QED
      BY <2>2, <2>3, <3>1, CappedIs, SMTT(30)
  <2>5. PICK d \in {0, 1} : /\ DOMAIN pendingIn' = 1..(n + 1) - d
                           /\ \A i \in 1..(n + 1) - d : pendingIn'[i] = p[i + d]
    BY <2>4
  <2>6. \A i \in DOMAIN pendingIn' :
          \/ i + d = n + 1 /\ pendingIn'[i] = item
          \/ i + d \in DOMAIN pendingIn /\ pendingIn'[i] = pendingIn[i + d] /\ DedupKeyOf[pendingIn[i + d].msg] # k
    <3>1. TAKE i \in DOMAIN pendingIn'
    <3>2. pendingIn'[i] = p[i + d] /\ (i + d = n + 1 \/ i + d \in 1..n)
      BY <2>2, <2>5
    <3>3. ASSUME i + d \in 1..n PROVE DedupKeyOf[pendingIn[i + d].msg] # k
      BY <1>5, <2>2, <3>3 DEF ItemsOf
    <3> QED
      BY <2>2, <3>2, <3>3
  <2>7. \A i, j \in DOMAIN pendingIn' : Keyed1(pendingIn', i, j) => i = j
    <3>1. TAKE i, j \in DOMAIN pendingIn'
    <3>2. HAVE Keyed1(pendingIn', i, j)
    <3>3. i \in Int /\ j \in Int /\ d \in Int
      BY <2>5
    <3>4. i + d = j + d
      BY <2>1, <2>6, <3>2 DEF Keyed1, InInv, InboundOK
    <3> QED
      BY <3>3, <3>4
  <2>8. \A i \in DOMAIN pendingIn' : pendingIn'[i].seen = lastHeard'[DedupKeyOf[pendingIn'[i].msg]]
    <3>1. TAKE i \in DOMAIN pendingIn'
    <3>2. CASE pendingIn'[i] = item
      BY <1>1, <2>1, <3>2
    <3>3. CASE /\ i + d \in DOMAIN pendingIn /\ pendingIn'[i] = pendingIn[i + d]
               /\ DedupKeyOf[pendingIn[i + d].msg] # k
      <4>1. pendingIn[i + d] \in FwItem /\ DedupKeyOf[pendingIn[i + d].msg] \in FwKeys
        BY <1>t, <3>3, KeysOfItems
      <4>2. pendingIn[i + d].seen = lastHeard[DedupKeyOf[pendingIn[i + d].msg]]
        BY <3>3 DEF InInv, InboundOK
      <4> QED
        BY <1>1, <3>3, <4>1, <4>2
    <3> QED
      BY <2>6, <3>2, <3>3
  <2>9. /\ history' \in Seq(FwItem) /\ Len(history') <= Len(history)
        /\ \A i \in DOMAIN history : history[i] \in T => \E j \in DOMAIN history' : history'[j] = history[i]
    <3>1. history' = Kept(history, T)
      BY <1>5
    <3> HIDE DEF T
    <3> QED
      BY <1>t, <3>1, KeptElements
  <2>10. /\ forgot' \in [FwKeys -> Nat]
         /\ \A j \in FwKeys : forgot'[j] = IF j = k /\ Lapsed(k) THEN forgot[j] + 1 ELSE forgot[j]
    <3>1. \A j \in FwKeys : forgot[j] \in Nat
      BY <1>t
    <3> QED
      BY <1>1, <1>5, <3>1 DEF Counted
  <2>11. InType'
    BY <1>1, <1>t, <2>4, <2>9, <2>10 DEF InType
  <2>12. handed[k] <= forgot'[k]
    <3>1. KeyOK(k) /\ handed[k] \in Nat /\ forgot[k] \in Nat
      BY <1>1, <1>t DEF InInv, InboundOK
    <3>2. CASE handed[k] = 1 + forgot[k]
      <4>1. Lapsed(k)
        <5>1. ASSUME NEW i \in ItemsOf(history, k), history[i].seen = lastHeard[k]
              PROVE  Lapsed(k)
          <6>1. i \in DOMAIN history /\ history[i] \in FwItem /\ DedupKeyOf[history[i].msg] = k
            BY <1>t DEF ItemsOf
          <6>2. ~Live(history[i])
            <7>1. SUFFICES ASSUME Live(history[i]) PROVE FALSE
              OBVIOUS
            <7>2. PICK j \in DOMAIN Purged(history) : Purged(history)[j] = history[i]
              BY <1>t, <6>1, <7>1, PurgedIs
            <7>3. j \in ItemsOf(Purged(history), k)
              BY <6>1, <7>2 DEF ItemsOf
            <7> QED
              BY <1>5, <7>3
          <6>3. history[i].seen \in 1..MaxFwTime /\ fwTime - history[i].seen > DedupTtl
            BY <1>t, <6>1, <6>2, KeysOfItems, SMTT(30) DEF Live
          <6> QED
            BY <1>t, <5>1, <6>3 DEF Lapsed
        <5> QED
          BY <3>1, <3>2, <5>1 DEF KeyOK, Remembered
      <4> QED
        BY <1>1, <2>10, <3>1, <3>2, <4>1
    <3>3. CASE handed[k] # 1 + forgot[k]
      <4>1. handed[k] <= forgot[k]
        BY <3>1, <3>3 DEF KeyOK
      <4> QED
        BY <1>1, <2>10, <3>1, <4>1
    <3> QED
      BY <3>2, <3>3
  <2>13. ASSUME NEW j \in FwKeys PROVE KeyOK(j)'
    <3>1. KeyOK(j) /\ handed'[j] = handed[j] /\ handed[j] \in Nat /\ forgot'[j] \in Nat
      BY <1>t, <2>10 DEF InInv, InboundOK
    <3>2. CASE j = k
      BY <2>12, <3>1, <3>2 DEF KeyOK
    <3>3. CASE j # k
      <4>1. forgot'[j] = forgot[j] /\ lastHeard'[j] = lastHeard[j]
        BY <1>1, <2>10, <3>3
      <4>2. ItemsOf(pendingIn', j) # {} => ItemsOf(pendingIn, j) # {}
        BY <2>1, <2>6, <3>3 DEF ItemsOf
      <4>3. ASSUME NEW i \in ItemsOf(history, j), history[i].seen = lastHeard[j]
            PROVE  Remembered(j)'
        <5>1. i \in DOMAIN history /\ history[i] \in T /\ DedupKeyOf[history[i].msg] = j
          BY <1>t, <3>3 DEF ItemsOf
        <5>2. PICK h \in DOMAIN history' : history'[h] = history[i]
          BY <2>9, <5>1
        <5>3. h \in ItemsOf(history', j) /\ history'[h].seen = lastHeard'[j]
          BY <4>1, <4>3, <5>1, <5>2 DEF ItemsOf
        <5> QED
          BY <5>3 DEF Remembered
      <4>4. Remembered(j) => Remembered(j)'
        BY <1>2, <3>3, <4>3 DEF Remembered
      <4> QED
        BY <3>1, <4>1, <4>2, <4>4 DEF KeyOK
    <3> QED
      BY <3>2, <3>3
  <2>14. Len(history') <= HistoryMax
    BY <1>t, <2>9 DEF InInv, InboundOK
  <2> QED
    BY <2>7, <2>8, <2>11, <2>13, <2>14 DEF InInv, InboundOK
<1> QED
  BY <1>3, <1>4, <1>5 DEF Deduplicate, k

LEMMA TakesNextKeeps ==
  ASSUME InInv, TakesNext
  PROVE  InInv'
<1> USE FirewallAssumption
<1> DEFINE c    == Chosen
           item == pendingIn[c]
           k    == DedupKeyOf[item.msg]
           n    == Len(pendingIn)
           p    == Append(history, item)
           over == Len(history) = HistoryMax
<1>t. /\ fwTime \in 1..MaxFwTime /\ pendingIn \in Seq(FwItem) /\ history \in Seq(FwItem)
      /\ handed \in [FwKeys -> Nat] /\ forgot \in [FwKeys -> Nat] /\ lastHeard \in [FwKeys -> 0..MaxFwTime]
      /\ Len(history) <= HistoryMax /\ HistoryMax \in Nat /\ HistoryMax # 0
  BY DEF InInv, InType, InboundOK
<1>1. c \in 1..n
  <2> DEFINE urgent == {i \in DOMAIN pendingIn : pendingIn[i].msg \in Urgent}
             among  == IF urgent = {} THEN DOMAIN pendingIn ELSE urgent
  <2>1. pendingIn # <<>>
    BY DEF TakesNext
  <2>2. DOMAIN pendingIn = 1..n /\ n \in Nat /\ n # 0
    BY <1>t, <2>1
  <2>3. among \in SUBSET Nat /\ among # {} /\ among \subseteq 1..n
    BY <2>2
  <2>4. c = CHOOSE i \in among : \A j \in among : i <= j
    BY DEF Chosen
  <2> HIDE DEF among, c
  <2>5. \E i \in among : \A j \in among : i <= j
    BY <2>3, LeastNat
  <2>6. c \in among
    BY <2>4, <2>5
  <2> QED
    BY <2>3, <2>6
<1>2. /\ pendingIn' = RemoveAt(pendingIn, c) /\ history' = Capped(p, HistoryMax)
      /\ forgot' = Counted(forgot, IF over THEN {DedupKeyOf[history[1].msg]} ELSE {})
      /\ handed' = Counted(handed, IF fwTime - item.seen <= Staleness THEN {k} ELSE {})
      /\ UNCHANGED <<lastHeard, fwTime>>
  BY DEF TakesNext
<1> HIDE DEF c
<1>3. /\ item \in FwItem /\ k \in FwKeys /\ item.seen = lastHeard[k] /\ c \in ItemsOf(pendingIn, k)
  BY <1>1, <1>t, KeysOfItems, SMTT(30) DEF InInv, InboundOK, ItemsOf
<1> HIDE DEF item
<1>4. /\ p \in Seq(FwItem) /\ Len(p) = Len(history) + 1 /\ Len(history) \in Nat /\ DOMAIN history = 1..Len(history)
      /\ p[Len(history) + 1] = item /\ \A i \in 1..Len(history) : p[i] = history[i]
  BY <1>3, <1>t
<1> HIDE DEF p
<1>5. /\ pendingIn' \in Seq(FwItem) /\ DOMAIN pendingIn' = 1..n - 1 /\ n \in Nat /\ DOMAIN pendingIn = 1..n
      /\ \A i \in 1..n - 1 : pendingIn'[i] = pendingIn[IF i < c THEN i ELSE i + 1]
  <2>1. /\ pendingIn' \in Seq(FwItem) /\ Len(pendingIn') = n - 1
        /\ \A i \in 1..n - 1 : pendingIn'[i] = IF i < c THEN pendingIn[i] ELSE pendingIn[i + 1]
    BY <1>1, <1>2, <1>t, RemoveAtIs
  <2>2. n \in Nat /\ DOMAIN pendingIn = 1..n /\ DOMAIN pendingIn' = 1..Len(pendingIn')
    BY <1>t, <2>1
  <2>3. ASSUME NEW i \in 1..n - 1
        PROVE  pendingIn'[i] = pendingIn[IF i < c THEN i ELSE i + 1]
    <3>1. pendingIn'[i] = IF i < c THEN pendingIn[i] ELSE pendingIn[i + 1]
      BY <2>1, <2>3
    <3>2. CASE i < c
      BY <3>1, <3>2
    <3>3. CASE ~(i < c)
      BY <3>1, <3>3
    <3> QED
      BY <3>2, <3>3
  <2> QED
    BY <2>1, <2>2, <2>3
<1> DEFINE from(i) == IF i < c THEN i ELSE i + 1
<1>6. \A i \in DOMAIN pendingIn' : from(i) \in DOMAIN pendingIn \ {c} /\ pendingIn'[i] = pendingIn[from(i)]
  BY <1>1, <1>5
<1>7. \A i, j \in DOMAIN pendingIn' : from(i) = from(j) => i = j
  BY <1>1, <1>5
<1> HIDE DEF from
<1>8. \A i, j \in DOMAIN pendingIn' : Keyed1(pendingIn', i, j) => i = j
  BY <1>6, <1>7 DEF InInv, InboundOK, Keyed1
<1>9. \A i \in DOMAIN pendingIn' : pendingIn'[i].seen = lastHeard'[DedupKeyOf[pendingIn'[i].msg]]
  BY <1>2, <1>6 DEF InInv, InboundOK
<1>10. \A j \in FwKeys : ItemsOf(pendingIn', j) # {} => ItemsOf(pendingIn, j) # {} /\ j # k
  <2>1. ASSUME NEW j \in FwKeys, NEW i \in ItemsOf(pendingIn', j)
        PROVE  ItemsOf(pendingIn, j) # {} /\ j # k
    <3>1. i \in DOMAIN pendingIn' /\ DedupKeyOf[pendingIn'[i].msg] = j
      BY <2>1 DEF ItemsOf
    <3>2. from(i) \in DOMAIN pendingIn /\ from(i) # c /\ DedupKeyOf[pendingIn[from(i)].msg] = j
      BY <1>6, <3>1
    <3>3. c \in DOMAIN pendingIn /\ DedupKeyOf[pendingIn[c].msg] = k
      BY <1>3 DEF ItemsOf
    <3>4. j # k
      BY <3>2, <3>3 DEF InInv, InboundOK, Keyed1
    <3> QED
      BY <3>2, <3>4 DEF ItemsOf
  <2> QED
    BY <2>1
<1>12. /\ history' \in Seq(FwItem)
       /\ \E d \in {0, 1} : /\ d = 1 <=> Len(p) > HistoryMax
                           /\ Len(history') = Len(p) - d /\ DOMAIN history' = 1..Len(p) - d
                           /\ \A i \in 1..Len(p) - d : history'[i] = p[i + d]
  <2>1. p \in Seq(FwItem) /\ HistoryMax \in Nat /\ HistoryMax # 0 /\ history' = Capped(p, HistoryMax)
    BY <1>2, <1>4, <1>t
  <2> QED
    BY <2>1, CappedIs, SMTT(30)
<1>11. PICK d \in {0, 1} : /\ d = 1 <=> Len(p) > HistoryMax
                           /\ Len(history') = Len(p) - d /\ DOMAIN history' = 1..Len(p) - d
                           /\ \A i \in 1..Len(p) - d : history'[i] = p[i + d]
  BY <1>12
<1>13. (d = 1 <=> over) /\ Len(history') <= HistoryMax
  <2>1. Len(p) = Len(history) + 1 /\ Len(history) \in Nat /\ HistoryMax \in Nat /\ Len(history) <= HistoryMax
    BY <1>4, <1>t
  <2>2. d = 1 <=> Len(history) = HistoryMax
    BY <2>1, <1>11
  <2>3. Len(history') = Len(history) + 1 - d /\ (d = 0 \/ d = 1)
    BY <2>1, <1>11
  <2>4. Len(history') <= HistoryMax
    BY <2>1, <2>2, <2>3
  <2> QED
    BY <2>2, <2>4
<1>14. /\ forgot' \in [FwKeys -> Nat]
       /\ \A j \in FwKeys : /\ forgot'[j] >= forgot[j]
                            /\ forgot'[j] = forgot[j] => ~(over /\ DedupKeyOf[history[1].msg] = j)
  <2>1. \A j \in FwKeys : forgot[j] \in Nat
    BY <1>t
  <2> QED
    BY <1>2, <2>1 DEF Counted
<1>15. /\ handed' \in [FwKeys -> Nat] /\ handed'[k] <= handed[k] + 1
       /\ \A j \in FwKeys : j # k => handed'[j] = handed[j]
  <2>1. \A j \in FwKeys : handed[j] \in Nat
    BY <1>t
  <2> QED
    BY <1>2, <1>3, <2>1 DEF Counted
<1>16. ASSUME NEW j \in FwKeys PROVE KeyOK(j)'
  <2>1. /\ KeyOK(j) /\ handed[j] \in Nat /\ forgot[j] \in Nat /\ handed'[j] \in Nat /\ forgot'[j] \in Nat
        /\ forgot'[j] >= forgot[j]
    BY <1>t, <1>14, <1>15 DEF InInv, InboundOK
  <2>2. CASE j = k
    <3>1. handed'[j] <= 1 + forgot'[j]
      <4>1. handed[j] <= forgot[j]
        BY <1>3, <2>1, <2>2 DEF KeyOK
      <4> QED
        BY <1>15, <2>1, <2>2, <4>1
    <3>2. Remembered(j)'
      <4> DEFINE h == Len(history) + 1 - d
      <4>1. h \in DOMAIN history' /\ history'[h] = item
        <5>1. Len(p) = Len(history) + 1 /\ Len(history) \in Nat /\ (d = 0 \/ d = 1) /\ HistoryMax \in Nat
              /\ HistoryMax # 0 /\ (d = 1 => Len(history) = HistoryMax)
          BY <1>4, <1>11, <1>13, <1>t
        <5>2. h \in 1..Len(p) - d /\ h + d = Len(history) + 1
          BY <5>1
        <5>3. h \in DOMAIN history' /\ history'[h] = p[h + d]
          BY <1>11, <5>2
        <5> QED
          BY <1>4, <5>2, <5>3
      <4>2. h \in ItemsOf(history', j) /\ history'[h].seen = lastHeard'[j]
        BY <1>2, <1>3, <2>2, <4>1 DEF ItemsOf, item
      <4> QED
        BY <4>2 DEF Remembered
    <3> QED
      BY <1>10, <2>2, <3>1, <3>2 DEF KeyOK
  <2>3. CASE j # k
    <3>1. handed'[j] = handed[j] /\ lastHeard'[j] = lastHeard[j] /\ (Lapsed(j) => Lapsed(j)')
      BY <1>2, <1>15, <2>3 DEF Lapsed
    <3>2. handed'[j] = 1 + forgot'[j] => Remembered(j)'
      <4>1. SUFFICES ASSUME handed'[j] = 1 + forgot'[j] PROVE Remembered(j)'
        OBVIOUS
      <4>2. forgot'[j] = forgot[j] /\ Remembered(j)
        BY <2>1, <3>1, <4>1 DEF KeyOK
      <4>3. ASSUME NEW i \in ItemsOf(history, j), history[i].seen = lastHeard[j]
            PROVE  Remembered(j)'
        <5>1. i \in 1..Len(history) /\ DedupKeyOf[history[i].msg] = j
          BY <1>4 DEF ItemsOf
        <5>2. d = 1 => i # 1
          BY <1>13, <1>14, <4>2, <5>1
        <5>3. i - d \in 1..Len(p) - d /\ (i - d) + d = i
          BY <1>4, <5>1, <5>2
        <5>4. i - d \in DOMAIN history' /\ history'[i - d] = history[i]
          BY <1>4, <1>11, <5>1, <5>3
        <5>5. i - d \in ItemsOf(history', j) /\ history'[i - d].seen = lastHeard'[j]
          BY <3>1, <4>3, <5>1, <5>4 DEF ItemsOf
        <5> QED
          BY <5>5 DEF Remembered
      <4> QED
        BY <3>1, <4>2, <4>3 DEF Remembered
    <3> QED
      BY <1>10, <2>1, <3>1, <3>2 DEF KeyOK
  <2> QED
    BY <2>2, <2>3
<1>17. InType'
  BY <1>2, <1>5, <1>12, <1>14, <1>15, <1>t DEF InType
<1> QED
  BY <1>8, <1>9, <1>13, <1>16, <1>17 DEF InInv, InboundOK

LEMMA InStep ==
  ASSUME InInv, [FirewallInNext \/ FirewallOutNext]_fwVars
  PROVE  InInv'
<1> USE FirewallAssumption DEF inVars
<1> DEFINE Same == UNCHANGED <<pendingIn, history, handed, forgot, lastHeard, fwTime>>
<1>s. ASSUME Same PROVE InInv'
  <2>1. InType'
    BY <1>s DEF InInv, InType
  <2>2. \A k \in FwKeys : KeyOK(k)'
    BY <1>s DEF InInv, InboundOK, KeyOK, Remembered, ItemsOf, Lapsed
  <2>3. InboundOK'
    BY <1>s, <2>2 DEF InInv, InboundOK, Keyed1
  <2> QED
    BY <2>1, <2>3 DEF InInv
<1>1. CASE FirewallOutNext \/ UNCHANGED fwVars
  <2>1. Same
    BY <1>1 DEF FirewallOutNext, GoesOut, HasGone, DrainSends, DrainStarts, DrainTakes, DrainEnds, PeerAsks, fwVars
  <2> QED
    BY <2>1, <1>s
<1>2. ASSUME NEW m \in Arrivals, MessageArrives(m) \/ SenderWarned(m)
      PROVE  InInv'
  <2>1. UNCHANGED <<handed, fwTime>>
    BY <1>2 DEF MessageArrives, SenderWarned
  <2>2. CASE Deduplicate(m)
    BY <2>1, <2>2, DeduplicateKeeps
  <2>3. CASE UNCHANGED <<pendingIn, history, lastHeard, forgot>>
    BY <2>1, <2>3, <1>s
  <2> QED
    BY <1>2, <2>2, <2>3 DEF MessageArrives, SenderWarned
<1>3. CASE TakesNext
  BY <1>3, TakesNextKeeps
<1>4. CASE TickCleans
  <2>1. history' = Purged(history) /\ UNCHANGED <<pendingIn, handed, forgot, lastHeard, fwTime>>
    BY <1>4 DEF TickCleans
  <2>2. /\ history \in Seq(FwItem) /\ Len(history) <= HistoryMax /\ fwTime \in 1..MaxFwTime
        /\ lastHeard \in [FwKeys -> 0..MaxFwTime]
    BY DEF InInv, InType, InboundOK
  <2>3. /\ history' \in Seq(FwItem) /\ Len(history') <= HistoryMax
        /\ \A i \in DOMAIN history : Live(history[i]) => \E j \in DOMAIN history' : history'[j] = history[i]
    BY <2>1, <2>2, PurgedIs
  <2>4. ASSUME NEW k \in FwKeys PROVE KeyOK(k)'
    <3>1. KeyOK(k) /\ UNCHANGED <<handed, forgot, lastHeard, fwTime, pendingIn>>
      BY <2>1 DEF InInv, InboundOK
    <3>2. ASSUME NEW i \in ItemsOf(history, k), history[i].seen = lastHeard[k]
          PROVE  Remembered(k)'
      <4>1. i \in DOMAIN history /\ history[i] \in FwItem /\ DedupKeyOf[history[i].msg] = k
        BY <2>2 DEF ItemsOf
      <4>2. CASE Live(history[i])
        <5>1. PICK j \in DOMAIN history' : history'[j] = history[i]
          BY <2>3, <4>1, <4>2
        <5>2. j \in ItemsOf(history', k) /\ history'[j].seen = lastHeard'[k]
          BY <3>1, <3>2, <4>1, <5>1 DEF ItemsOf
        <5> QED
          BY <5>2 DEF Remembered
      <4>3. CASE ~Live(history[i])
        <5>1. history[i].seen \in 1..MaxFwTime /\ fwTime - history[i].seen > DedupTtl
          BY <2>2, <4>1, <4>3, KeysOfItems DEF Live
        <5>2. Lapsed(k)'
          BY <2>2, <3>1, <3>2, <5>1 DEF Lapsed
        <5> QED
          BY <5>2 DEF Remembered
      <4> QED
        BY <4>2, <4>3
    <3>3. Remembered(k) => Remembered(k)'
      BY <3>1, <3>2 DEF Remembered, Lapsed
    <3> QED
      BY <3>1, <3>3 DEF KeyOK, ItemsOf
  <2>5. InType'
    BY <2>1, <2>3 DEF InInv, InType
  <2>6. InboundOK'
    BY <2>1, <2>3, <2>4 DEF InInv, InboundOK, Keyed1
  <2> QED
    BY <2>5, <2>6 DEF InInv
<1>5. CASE FwTimePasses
  <2>1. fwTime' = fwTime + 1 /\ fwTime < MaxFwTime /\ UNCHANGED <<pendingIn, history, handed, forgot, lastHeard>>
    BY <1>5 DEF FwTimePasses
  <2>2. fwTime \in 1..MaxFwTime /\ fwTime' \in 1..MaxFwTime /\ lastHeard \in [FwKeys -> 0..MaxFwTime]
    BY <2>1 DEF InInv, InType
  <2>3. ASSUME NEW k \in FwKeys PROVE KeyOK(k)'
    <3>1. Lapsed(k) => Lapsed(k)'
      BY <2>1, <2>2 DEF Lapsed
    <3>2. Remembered(k) => Remembered(k)'
      BY <2>1, <3>1 DEF Remembered, ItemsOf
    <3> QED
      BY <2>1, <3>2 DEF KeyOK, InInv, InboundOK, ItemsOf
  <2>4. InType'
    BY <2>1, <2>2 DEF InInv, InType
  <2>5. InboundOK'
    BY <2>1, <2>3 DEF InInv, InboundOK, Keyed1
  <2> QED
    BY <2>4, <2>5 DEF InInv
<1>6. CASE FirewallStops
  <2>1. Same
    BY <1>6 DEF FirewallStops
  <2> QED
    BY <2>1, <1>s
<1> QED
  BY <1>1, <1>2, <1>3, <1>4, <1>5, <1>6 DEF FirewallInNext

\* A message reaches the node again only if its copy was forgotten, and a
\* message that was put off waits, is kept or is sent, once; for any messages,
\* peers, sizes of the queues and lifetimes.
THEOREM OnceEachTheorem == FirewallSpec => []OnceEach
<1>1. FirewallInit => InInv
  <2> SUFFICES ASSUME FirewallInit PROVE InInv
    OBVIOUS
  <2>1. InType
    <3>1. <<>> \in Seq(FwItem) /\ 1 \in 1..MaxFwTime /\ 0 \in 0..MaxFwTime
      BY FirewallAssumption
    <3> QED
      BY <3>1 DEF FirewallInit, InType
  <2>2. Len(<<>>) <= HistoryMax /\ DOMAIN <<>> = {}
    BY FirewallAssumption
  <2>3. \A k \in FwKeys : handed[k] = 0 /\ forgot[k] = 0 /\ ItemsOf(pendingIn, k) = {}
    BY <2>2 DEF FirewallInit, ItemsOf
  <2>4. \A k \in FwKeys : KeyOK(k)
    BY <2>3 DEF KeyOK
  <2> QED
    BY <2>1, <2>2, <2>4 DEF FirewallInit, InInv, InboundOK
<1>2. FirewallInit => OutInv
  <2> SUFFICES ASSUME FirewallInit PROVE OutInv
    OBVIOUS
  <2>1. In(penalty) = {} /\ In(remaining) = {} /\ Once(penalty) /\ Once(remaining)
    BY DEF FirewallInit, In, Once
  <2> QED
    BY <2>1 DEF FirewallInit, OutInv, OutType, OutboundOK
<1>3. InInv /\ OutInv /\ [FirewallInNext \/ FirewallOutNext]_fwVars => InInv' /\ OutInv'
  BY InStep, OutStep
<1>4. InInv /\ OutInv => OnceEach
  <2> SUFFICES ASSUME InInv, OutInv PROVE OnceEach
    OBVIOUS
  <2>1. \A k \in FwKeys : handed[k] <= 1 + forgot[k]
    BY DEF InInv, InboundOK, KeyOK
  <2>2. \A m \in Departures : /\ outAt[m] = "deferred" => Places(m) = 1
                              /\ outAt[m] = "lost" => m \in unknown
                              /\ sends[m] <= 1
    BY OutOnce
  <2> QED
    BY <2>1, <2>2 DEF OnceEach
<1> QED
  BY <1>1, <1>2, <1>3, <1>4, PTL DEF FirewallSpec
-----------------------------------------------------------------------------
(* The punchhole cache.  What the frontend holds or is about to get is as  *)
(* recent as the tables, or a stale event is on its way behind it, or the  *)
(* backend still has to hear of the change.                                *)

\* Shape of what the steps read
PunchType ==
  /\ internal \in Seq(Objects)
  /\ misses \in Seq([object: Objects, group: GroupSet])
  /\ toFront \in Seq(FrontEvents)
  /\ table \in [Objects -> Nat]
  /\ shelf \in [Objects \X GroupSet -> [version: Nat, stale: BOOLEAN]]
  /\ acl \in [Askers -> GroupSet \cup {""}]

\* The node or the backend still has the word that o has changed.
ToldOf(o) == o \in writing \/ \E i \in DOMAIN internal : internal[i] = o

IsFill(e, o)  == e.kind = "fill" /\ e.object = o
IsStale(e, o) == e.kind = "stale" /\ e.object = o

\* A fill on its way that is older than its rows is followed by a notice.
FillAnnounced(o) ==
  \A i \in DOMAIN toFront :
    IsFill(toFront[i], o) /\ toFront[i].version # table[o] =>
      \E j \in DOMAIN toFront : i < j /\ IsStale(toFront[j], o)

\* So is an old entry.
EntryAnnounced(o) ==
  \A g \in GroupSet :
    ~shelf[o, g].stale /\ shelf[o, g].version # table[o] =>
      \E j \in DOMAIN toFront : IsStale(toFront[j], o)

ObjectOK(o) == o \notin quiet /\ ~ToldOf(o) => FillAnnounced(o) /\ EntryAnnounced(o)

PunchInv == PunchType /\ \A o \in Objects : ObjectOK(o)

\* What the frontend may be sent
LEMMA EventsAre ==
  /\ \A o \in Objects, g \in GroupSet, v \in Nat :
       [kind |-> "fill", object |-> o, group |-> g, version |-> v] \in FrontEvents
  /\ \A o \in Objects : [kind |-> "stale", object |-> o] \in FrontEvents
  /\ [kind |-> "acl", of |-> ListedAs] \in FrontEvents
  /\ [kind |-> "ready"] \in FrontEvents
<1>1. ListedAs \in [Askers -> GroupSet \cup {""}]
  <2>1. GroupSet = {"all_signed", "trusted", "known_hosts", "peer", "private"}
    BY DEF GroupSet, Groups
  <2> QED
    BY <2>1, PunchAssumption
<1> QED
  BY <1>1 DEF FrontEvents

\* A fill carries an object, a group and a version.
LEMMA FillsAre ==
  ASSUME NEW e \in FrontEvents, e.kind = "fill"
  PROVE  e.object \in Objects /\ e.group \in GroupSet /\ e.version \in Nat
BY DEF FrontEvents

\* An event behind the others
LEMMA OneMoreEvent ==
  ASSUME NEW S, NEW q \in Seq(S), NEW x \in S
  PROVE  /\ Append(q, x) \in Seq(S) /\ DOMAIN Append(q, x) = 1..Len(q) + 1
         /\ DOMAIN q = 1..Len(q) /\ Len(q) \in Nat /\ Append(q, x)[Len(q) + 1] = x
         /\ \A i \in 1..Len(q) : Append(q, x)[i] = q[i]
OBVIOUS

\* More events behind the others
LEMMA MoreEvents ==
  ASSUME NEW S, NEW q \in Seq(S), NEW r \in Seq(S)
  PROVE  /\ q \o r \in Seq(S) /\ Len(q \o r) = Len(q) + Len(r) /\ DOMAIN (q \o r) = 1..Len(q) + Len(r)
         /\ DOMAIN q = 1..Len(q) /\ Len(q) \in Nat /\ Len(r) \in Nat /\ DOMAIN r = 1..Len(r)
         /\ \A i \in 1..Len(q) : (q \o r)[i] = q[i]
         /\ \A i \in 1..Len(r) : (q \o r)[Len(q) + i] = r[i]
OBVIOUS

\* New fills are made from the rows as they are: what is on its way stays
\* announced.
LEMMA FreshEventsKeep ==
  ASSUME PunchInv, NEW r \in Seq(FrontEvents), toFront' = toFront \o r,
         \A i \in DOMAIN r : r[i].kind = "fill" => r[i].version = table[r[i].object],
         UNCHANGED <<table, writing, quiet, internal, shelf, acl>>
  PROVE  \A o \in Objects : ObjectOK(o)'
<1>1. SUFFICES ASSUME NEW o \in Objects, o \notin quiet, ~ToldOf(o)
               PROVE  FillAnnounced(o)' /\ EntryAnnounced(o)'
  BY DEF ObjectOK, ToldOf
<1>2. FillAnnounced(o) /\ EntryAnnounced(o)
  BY <1>1 DEF PunchInv, ObjectOK
<1>3. /\ DOMAIN toFront' = 1..Len(toFront) + Len(r) /\ DOMAIN toFront = 1..Len(toFront)
      /\ Len(toFront) \in Nat /\ Len(r) \in Nat /\ DOMAIN r = 1..Len(r)
      /\ \A i \in 1..Len(toFront) : toFront'[i] = toFront[i]
      /\ \A i \in 1..Len(r) : toFront'[Len(toFront) + i] = r[i]
  <2>1. toFront \in Seq(FrontEvents)
    BY DEF PunchInv, PunchType
  <2> QED
    BY <2>1, MoreEvents
<1>4. EntryAnnounced(o)'
  <2>1. SUFFICES ASSUME NEW g \in GroupSet, ~shelf[o, g].stale, shelf[o, g].version # table[o]
                 PROVE  \E j \in DOMAIN toFront' : IsStale(toFront'[j], o)
    BY DEF EntryAnnounced, IsStale
  <2>2. PICK j \in DOMAIN toFront : IsStale(toFront[j], o)
    BY <1>2, <2>1 DEF EntryAnnounced
  <2>3. j \in DOMAIN toFront' /\ toFront'[j] = toFront[j]
    BY <1>3
  <2> QED
    BY <2>2, <2>3
<1>5. FillAnnounced(o)'
  <2>1. SUFFICES ASSUME NEW i \in DOMAIN toFront', IsFill(toFront'[i], o), toFront'[i].version # table[o]
                 PROVE  \E j \in DOMAIN toFront' : i < j /\ IsStale(toFront'[j], o)
    BY DEF FillAnnounced, IsStale, IsFill
  <2>2. CASE i \in DOMAIN toFront
    <3>1. toFront'[i] = toFront[i]
      BY <1>3, <2>2
    <3>2. PICK j \in DOMAIN toFront : i < j /\ IsStale(toFront[j], o)
      BY <1>2, <2>1, <2>2, <3>1 DEF FillAnnounced
    <3>3. j \in DOMAIN toFront' /\ toFront'[j] = toFront[j]
      BY <1>3
    <3> QED
      BY <3>2, <3>3
  <2>3. CASE i \notin DOMAIN toFront
    <3>1. i - Len(toFront) \in DOMAIN r /\ i = Len(toFront) + (i - Len(toFront))
      BY <1>3, <2>3
    <3>2. toFront'[i] = r[i - Len(toFront)]
      BY <1>3, <3>1
    <3> QED
      BY <2>1, <3>1, <3>2 DEF IsFill
  <2> QED
    BY <2>2, <2>3
<1> QED
  BY <1>4, <1>5

\* One fill from the rows as they are
LEMMA RefillsKeeps ==
  ASSUME PunchInv, Refills
  PROVE  PunchInv'
<1> DEFINE m == Head(misses)
           e == Filled(m.object, m.group)
<1>1. /\ misses # <<>> /\ misses' = Tail(misses) /\ toFront' = Append(toFront, e)
      /\ UNCHANGED <<table, writing, quiet, internal, shelf, acl>>
  BY DEF Refills, backVars, frontVars
<1>2. m \in [object: Objects, group: GroupSet] /\ misses' \in Seq([object: Objects, group: GroupSet])
  <2> DEFINE X == [object: Objects, group: GroupSet]
  <2>1. misses \in Seq(X) /\ misses # <<>> /\ misses' = Tail(misses)
    BY <1>1 DEF PunchInv, PunchType
  <2> HIDE DEF X
  <2>2. Head(misses) \in X /\ misses' \in Seq(X)
    BY <2>1
  <2> QED
    BY <2>2 DEF X
<1>3. e \in FrontEvents /\ e.version = table[e.object]
  <2>1. m.object \in Objects /\ m.group \in GroupSet /\ table[m.object] \in Nat
    BY <1>2 DEF PunchInv, PunchType
  <2> QED
    BY <2>1, EventsAre DEF Filled
<1> HIDE DEF e
<1>4. toFront \in Seq(FrontEvents)
  BY DEF PunchInv, PunchType
<1>5. /\ <<e>> \in Seq(FrontEvents) /\ toFront' = toFront \o <<e>>
      /\ \A i \in DOMAIN <<e>> : <<e>>[i].kind = "fill" => <<e>>[i].version = table[<<e>>[i].object]
  BY <1>1, <1>3, <1>4
<1>6. \A o \in Objects : ObjectOK(o)'
  BY <1>1, <1>5, FreshEventsKeep
<1>7. toFront' \in Seq(FrontEvents)
  BY <1>1, <1>3, <1>4
<1> QED
  BY <1>1, <1>2, <1>6, <1>7 DEF PunchInv, PunchType

\* The lists, every object for every group, and the word that it is ready
LEMMA StartupPushesKeeps ==
  ASSUME PunchInv, StartupPushes
  PROVE  PunchInv'
<1> DEFINE among == {x \in Objects \X GroupSet : HasAccess(x[2], Access[x[1]])}
           given == SetToSeq(among)
           fills == [i \in DOMAIN given |-> Filled(given[i][1], given[i][2])]
           acls  == <<[kind |-> "acl", of |-> ListedAs]>>
           last  == <<[kind |-> "ready"]>>
<1>1. toFront' = toFront \o (acls \o fills \o last) /\ UNCHANGED <<table, writing, quiet, internal, shelf, acl, misses>>
  BY DEF StartupPushes, backVars, frontVars
<1>2. IsFiniteSet(among)
  <2>1. GroupSet = {"all_signed", "trusted", "known_hosts", "peer", "private"}
    BY DEF GroupSet, Groups
  <2>2. IsFiniteSet({"all_signed", "trusted", "known_hosts", "peer", "private"})
    <3>1. IsFiniteSet({})
      BY FS_EmptySet
    <3>2. {"private"} = {} \cup {"private"}
      OBVIOUS
    <3>3. {"peer", "private"} = {"private"} \cup {"peer"}
      OBVIOUS
    <3>4. {"known_hosts", "peer", "private"} = {"peer", "private"} \cup {"known_hosts"}
      OBVIOUS
    <3>5. {"trusted", "known_hosts", "peer", "private"} = {"known_hosts", "peer", "private"} \cup {"trusted"}
      OBVIOUS
    <3>6. {"all_signed", "trusted", "known_hosts", "peer", "private"}
            = {"trusted", "known_hosts", "peer", "private"} \cup {"all_signed"}
      OBVIOUS
    <3>7. IsFiniteSet({"private"})
      BY <3>1, <3>2, FS_AddElement, Zenon
    <3>8. IsFiniteSet({"peer", "private"})
      BY <3>3, <3>7, FS_AddElement, Zenon
    <3>9. IsFiniteSet({"known_hosts", "peer", "private"})
      BY <3>4, <3>8, FS_AddElement, Zenon
    <3>10. IsFiniteSet({"trusted", "known_hosts", "peer", "private"})
      BY <3>5, <3>9, FS_AddElement, Zenon
    <3>11. IsFiniteSet({"all_signed", "trusted", "known_hosts", "peer", "private"})
      BY <3>6, <3>10, FS_AddElement, Zenon
    <3> QED
      BY <3>11
  <2>3. IsFiniteSet(Objects \X GroupSet)
    BY <2>1, <2>2, PunchAssumption, FS_Product
  <2> QED
    BY <2>3, FS_Subset
<1>3. given \in [1..Cardinality(among) -> among] /\ Cardinality(among) \in Nat
  BY <1>2, SetToSeqIs, FS_CardinalityType
<1> HIDE DEF given
<1>4. \A i \in 1..Cardinality(among) : fills[i] \in FrontEvents /\ fills[i].version = table[fills[i].object]
  <2>1. SUFFICES ASSUME NEW i \in 1..Cardinality(among)
                 PROVE  fills[i] \in FrontEvents /\ fills[i].version = table[fills[i].object]
    OBVIOUS
  <2>2. given[i] \in Objects \X GroupSet /\ fills[i] = Filled(given[i][1], given[i][2])
    BY <1>3, <2>1
  <2>3. given[i][1] \in Objects /\ given[i][2] \in GroupSet /\ table[given[i][1]] \in Nat
    BY <2>2 DEF PunchInv, PunchType
  <2> QED
    BY <2>2, <2>3, EventsAre DEF Filled
<1>5. fills \in Seq(FrontEvents) /\ DOMAIN fills = 1..Cardinality(among)
  <2>1. DOMAIN fills = 1..Cardinality(among)
    BY <1>3
  <2>2. fills \in [1..Cardinality(among) -> FrontEvents]
    BY <1>4, <2>1
  <2> QED
    BY <1>3, <2>1, <2>2
<1> HIDE DEF fills
<1> DEFINE r == acls \o fills \o last
<1>6. /\ acls \in Seq(FrontEvents) /\ last \in Seq(FrontEvents)
      /\ acls[1].kind = "acl" /\ last[1].kind = "ready" /\ Len(acls) = 1 /\ Len(last) = 1
  BY EventsAre
<1>7. \A i \in DOMAIN fills : fills[i].kind = "fill" => fills[i].version = table[fills[i].object]
  BY <1>4, <1>5
<1> HIDE DEF acls, last
<1>8. r \in Seq(FrontEvents) /\ toFront' = toFront \o r
  <2>1. toFront \in Seq(FrontEvents)
    BY DEF PunchInv, PunchType
  <2>2. acls \o fills \in Seq(FrontEvents)
    BY <1>5, <1>6
  <2>4. r \in Seq(FrontEvents)
    BY <1>5, <1>6, <2>2, ConcatProperties
  <2>5. toFront' = toFront \o r
    BY <1>1
  <2> QED
    BY <2>4, <2>5
<1>9. \A i \in DOMAIN r : r[i].kind = "fill" => r[i].version = table[r[i].object]
  <2>1. SUFFICES ASSUME NEW i \in DOMAIN r, r[i].kind = "fill" PROVE r[i].version = table[r[i].object]
    OBVIOUS
  <2> DEFINE a == acls \o fills
  <2>2. /\ a \in Seq(FrontEvents) /\ DOMAIN a = 1..1 + Len(fills) /\ Len(a) = 1 + Len(fills) /\ Len(fills) \in Nat
        /\ a[1] = acls[1] /\ \A n \in 1..Len(fills) : a[1 + n] = fills[n] /\ n \in DOMAIN fills
    <3>1. 1 \in 1..Len(acls) /\ Len(acls) = 1
      BY <1>6
    <3>2. a = acls \o fills
      BY DEF a
    <3>3. /\ a \in Seq(FrontEvents) /\ Len(a) = Len(acls) + Len(fills) /\ DOMAIN a = 1..Len(acls) + Len(fills)
          /\ \A n \in 1..Len(acls) : a[n] = acls[n]
          /\ \A n \in 1..Len(fills) : a[Len(acls) + n] = fills[n]
          /\ Len(fills) \in Nat /\ DOMAIN fills = 1..Len(fills)
      <4>1. acls \in Seq(FrontEvents) /\ fills \in Seq(FrontEvents)
        BY <1>5, <1>6
      <4> QED
        BY <4>1, MoreEvents
    <3> HIDE DEF a
    <3> QED
      BY <3>1, <3>3
  <2> HIDE DEF a
  <2>3. /\ DOMAIN r = 1..Len(a) + 1 /\ \A n \in 1..Len(a) : r[n] = a[n]
        /\ r[Len(a) + 1] = last[1]
    <3>1. r = a \o last
      BY DEF a
    <3>2. 1 \in 1..Len(last)
      BY <1>6
    <3> QED
      BY <1>6, <2>2, <3>1, <3>2, MoreEvents
  <2> HIDE DEF r
  <2>4. CASE i = Len(a) + 1
    BY <1>6, <2>1, <2>3, <2>4
  <2>5. CASE i = 1
    BY <1>6, <2>1, <2>2, <2>3, <2>5
  <2>6. CASE i \in 2..Len(a)
    <3>1. i - 1 \in 1..Len(fills) /\ i = 1 + (i - 1) /\ i \in 1..Len(a)
      BY <2>2, <2>6
    <3>2. r[i] = fills[i - 1] /\ i - 1 \in DOMAIN fills
      BY <2>2, <2>3, <3>1
    <3> QED
      BY <1>7, <2>1, <3>2
  <2> QED
    BY <2>2, <2>3, <2>4, <2>5, <2>6
<1> HIDE DEF r
<1>10. \A o \in Objects : ObjectOK(o)'
  BY <1>1, <1>8, <1>9, FreshEventsKeep
<1>11. toFront' \in Seq(FrontEvents)
  BY <1>8, MoreEvents DEF PunchInv, PunchType
<1> QED
  BY <1>1, <1>10, <1>11 DEF PunchInv, PunchType

\* The rows of an object change: it is told of, or changed quietly.
LEMMA ChangesKeep ==
  ASSUME PunchInv, NEW o \in Objects, table' = [table EXCEPT ![o] = @ + 1],
         UNCHANGED <<internal, toFront, shelf, acl, misses>>,
         writing \subseteq writing', quiet \subseteq quiet', o \in writing' \cup quiet',
         writing' \subseteq writing \cup {o}, quiet' \subseteq quiet \cup {o}
  PROVE  PunchInv'
<1>1. table \in [Objects -> Nat]
  BY DEF PunchInv, PunchType
<1>2. table' \in [Objects -> Nat] /\ \A p \in Objects : p # o => table'[p] = table[p]
  BY <1>1
<1>3. ASSUME NEW p \in Objects PROVE ObjectOK(p)'
  <2>1. CASE p = o
    BY <2>1 DEF ObjectOK, ToldOf
  <2>2. CASE p # o
    <3>1. table'[p] = table[p]
      BY <1>2, <2>2
    <3>2. SUFFICES ASSUME p \notin quiet, ~ToldOf(p) PROVE FillAnnounced(p)' /\ EntryAnnounced(p)'
      BY DEF ObjectOK, ToldOf
    <3>3. FillAnnounced(p) /\ EntryAnnounced(p)
      BY <3>2 DEF PunchInv, ObjectOK
    <3> QED
      BY <3>1, <3>3 DEF FillAnnounced, EntryAnnounced, IsFill, IsStale
  <2> QED
    BY <2>1, <2>2
<1> QED
  BY <1>2, <1>3 DEF PunchInv, PunchType

\* The event is in the queue of the backend.
LEMMA EmitsKeeps ==
  ASSUME PunchInv, NEW o \in Objects, Emits(o)
  PROVE  PunchInv'
<1>1. /\ writing' = writing \ {o} /\ internal' = Append(internal, o) /\ quiet' = quiet \ {o}
      /\ UNCHANGED <<table, toFront, shelf, acl, misses>>
  BY DEF Emits, frontVars
<1>2. internal \in Seq(Objects)
  BY DEF PunchInv, PunchType
<1>3. /\ internal' \in Seq(Objects) /\ DOMAIN internal' = 1..Len(internal) + 1
      /\ DOMAIN internal = 1..Len(internal) /\ Len(internal) \in Nat /\ internal'[Len(internal) + 1] = o
      /\ \A i \in 1..Len(internal) : internal'[i] = internal[i]
  BY <1>1, <1>2, OneMoreEvent
<1>4. ASSUME NEW p \in Objects PROVE ObjectOK(p)'
  <2>1. CASE p = o
    <3>1. Len(internal) + 1 \in DOMAIN internal'
      BY <1>3
    <3> QED
      BY <1>3, <2>1, <3>1 DEF ObjectOK, ToldOf
  <2>2. CASE p # o
    <3>1. ToldOf(p) => ToldOf(p)'
      BY <1>1, <1>3, <2>2 DEF ToldOf
    <3>2. ObjectOK(p)
      BY DEF PunchInv
    <3> QED
      BY <1>1, <2>2, <3>1, <3>2 DEF ObjectOK, FillAnnounced, EntryAnnounced, IsFill, IsStale
  <2> QED
    BY <2>1, <2>2
<1> QED
  BY <1>1, <1>3, <1>4 DEF PunchInv, PunchType

\* The notice goes behind every fill.
LEMMA TellsStaleKeeps ==
  ASSUME PunchInv, TellsStale
  PROVE  PunchInv'
<1> DEFINE o == Head(internal)
           e == [kind |-> "stale", object |-> o]
<1>1. /\ internal # <<>> /\ toFront' = Append(toFront, e) /\ internal' = Tail(internal)
      /\ UNCHANGED <<table, writing, quiet, shelf, acl, misses>>
  BY DEF TellsStale, frontVars
<1>2. internal \in Seq(Objects) /\ toFront \in Seq(FrontEvents)
  BY DEF PunchInv, PunchType
<1>3. /\ internal' \in Seq(Objects) /\ o \in Objects /\ Len(internal) \in Nat /\ DOMAIN internal = 1..Len(internal)
      /\ DOMAIN internal' = 1..Len(internal) - 1 /\ internal[1] = o
      /\ \A i \in 1..Len(internal) - 1 : internal'[i] = internal[i + 1]
  BY <1>1, <1>2
<1>4. e \in FrontEvents /\ e.kind = "stale" /\ e.object = o
  BY <1>3, EventsAre
<1> HIDE DEF e, o
<1>5. /\ toFront' \in Seq(FrontEvents) /\ DOMAIN toFront' = 1..Len(toFront) + 1
      /\ DOMAIN toFront = 1..Len(toFront) /\ Len(toFront) \in Nat /\ toFront'[Len(toFront) + 1] = e
      /\ \A i \in 1..Len(toFront) : toFront'[i] = toFront[i]
  BY <1>1, <1>2, <1>4, OneMoreEvent
<1>6. ASSUME NEW p \in Objects, p \notin quiet', ~ToldOf(p)' PROVE FillAnnounced(p)' /\ EntryAnnounced(p)'
  <2>1. CASE p = o
    <3> DEFINE l == Len(toFront) + 1
    <3>1. l \in DOMAIN toFront' /\ IsStale(toFront'[l], p) /\ \A i \in DOMAIN toFront' : i < l \/ i = l
      BY <1>4, <1>5, <2>1 DEF IsStale
    <3>2. \A i \in DOMAIN toFront' : IsFill(toFront'[i], p) => i # l
      BY <1>4, <1>5 DEF IsFill
    <3> HIDE DEF l
    <3> QED
      BY <3>1, <3>2 DEF FillAnnounced, EntryAnnounced, IsFill, IsStale
  <2>2. CASE p # o
    <3>1. ~ToldOf(p)
      <4>1. SUFFICES ASSUME NEW i \in DOMAIN internal, internal[i] = p PROVE FALSE
        BY <1>1, <1>6 DEF ToldOf
      <4>2. i # 1
        BY <1>3, <2>2, <4>1
      <4>3. i - 1 \in DOMAIN internal' /\ internal'[i - 1] = internal[(i - 1) + 1] /\ (i - 1) + 1 = i
        BY <1>3, <4>1, <4>2
      <4> QED
        BY <1>6, <4>1, <4>3 DEF ToldOf
    <3>2. FillAnnounced(p) /\ EntryAnnounced(p)
      BY <1>1, <1>6, <3>1 DEF PunchInv, ObjectOK
    <3>3. EntryAnnounced(p)'
      <4>1. \A j \in DOMAIN toFront : j \in DOMAIN toFront' /\ toFront'[j] = toFront[j]
        BY <1>5
      <4> QED
        BY <1>1, <3>2, <4>1 DEF EntryAnnounced, IsStale
    <3>4. FillAnnounced(p)'
      <4>1. \A j \in DOMAIN toFront : j \in DOMAIN toFront' /\ toFront'[j] = toFront[j]
        BY <1>5
      <4>2. \A i \in DOMAIN toFront' : IsFill(toFront'[i], p) => i \in DOMAIN toFront
        BY <1>4, <1>5 DEF IsFill
      <4> QED
        BY <1>1, <3>2, <4>1, <4>2 DEF FillAnnounced, IsFill, IsStale
    <3> QED
      BY <3>3, <3>4
  <2> QED
    BY <2>1, <2>2
<1>7. \A p \in Objects : ObjectOK(p)'
  BY <1>6 DEF ObjectOK
<1> QED
  BY <1>1, <1>3, <1>5, <1>7 DEF PunchInv, PunchType

\* The frontend takes the first event: an old fill has its notice behind it.
LEMMA TakesKeeps ==
  ASSUME PunchInv, Takes
  PROVE  PunchInv'
<1> DEFINE e == Head(toFront)
<1>1. /\ toFront # <<>> /\ toFront' = Tail(toFront)
      /\ e.kind = "fill" => shelf' = [shelf EXCEPT ![<<e.object, e.group>>] = [version |-> e.version, stale |-> FALSE]]
      /\ e.kind = "stale" => shelf' = Marks(e.object)
      /\ e.kind \notin {"fill", "stale"} => shelf' = shelf
      /\ acl' = IF e.kind = "acl" THEN e.of ELSE acl
      /\ UNCHANGED <<table, writing, quiet, internal, misses>>
  BY DEF Takes, backVars
<1>2. toFront \in Seq(FrontEvents) /\ shelf \in [Objects \X GroupSet -> [version: Nat, stale: BOOLEAN]]
  BY DEF PunchInv, PunchType
<1>3. /\ toFront' \in Seq(FrontEvents) /\ e \in FrontEvents /\ Len(toFront) \in Nat
      /\ DOMAIN toFront = 1..Len(toFront) /\ toFront[1] = e /\ Len(toFront) # 0
      /\ DOMAIN toFront' = 1..Len(toFront) - 1
      /\ \A i \in 1..Len(toFront) - 1 : toFront'[i] = toFront[i + 1]
  BY <1>1, <1>2
<1> HIDE DEF e
<1>9. acl' \in [Askers -> GroupSet \cup {""}]
  <2>1. e.kind = "acl" => e.of \in [Askers -> GroupSet \cup {""}]
    BY <1>3 DEF FrontEvents
  <2> QED
    BY <1>1, <2>1 DEF PunchInv, PunchType
<1>4. \A j \in DOMAIN toFront : j # 1 => j - 1 \in DOMAIN toFront' /\ toFront'[j - 1] = toFront[j]
  BY <1>3
<1>5. ASSUME NEW o \in Objects, FillAnnounced(o) PROVE FillAnnounced(o)'
  <2>1. SUFFICES ASSUME NEW i \in DOMAIN toFront', IsFill(toFront'[i], o), toFront'[i].version # table[o]
                 PROVE  \E j \in DOMAIN toFront' : i < j /\ IsStale(toFront'[j], o)
    BY <1>1 DEF FillAnnounced, IsStale, IsFill
  <2>2. i + 1 \in DOMAIN toFront /\ toFront'[i] = toFront[i + 1] /\ i \in Nat
    BY <1>3
  <2>3. PICK j \in DOMAIN toFront : i + 1 < j /\ IsStale(toFront[j], o)
    BY <1>5, <2>1, <2>2 DEF FillAnnounced
  <2>4. j # 1 /\ i < j - 1
    BY <1>3, <2>2, <2>3
  <2> QED
    BY <1>4, <2>3, <2>4
<1>6. CASE e.kind = "fill"
  <2>1. /\ shelf' = [shelf EXCEPT ![<<e.object, e.group>>] = [version |-> e.version, stale |-> FALSE]]
        /\ e.object \in Objects /\ e.group \in GroupSet /\ e.version \in Nat
    BY <1>1, <1>3, <1>6, FillsAre
  <2>2. shelf' \in [Objects \X GroupSet -> [version: Nat, stale: BOOLEAN]]
    <3>1. [version |-> e.version, stale |-> FALSE] \in [version: Nat, stale: BOOLEAN]
      BY <2>1
    <3> QED
      BY <1>2, <2>1, <3>1
  <2>3. ASSUME NEW o \in Objects, o \notin quiet, ~ToldOf(o) PROVE EntryAnnounced(o)'
    <3>1. FillAnnounced(o) /\ EntryAnnounced(o)
      BY <2>3 DEF PunchInv, ObjectOK
    <3>2. SUFFICES ASSUME NEW g \in GroupSet, ~shelf'[o, g].stale, shelf'[o, g].version # table[o]
                   PROVE  \E j \in DOMAIN toFront' : IsStale(toFront'[j], o)
      BY <1>1 DEF EntryAnnounced, IsStale
    <3>3. \E j \in DOMAIN toFront : j # 1 /\ IsStale(toFront[j], o)
      <4>1. CASE o = e.object /\ g = e.group
        <5>1. shelf'[o, g].version = e.version
          BY <1>2, <2>1, <4>1
        <5>2. 1 \in DOMAIN toFront /\ IsFill(toFront[1], o) /\ toFront[1].version # table[o]
          <6>1. 1 \in DOMAIN toFront /\ toFront[1] = e
            BY <1>3
          <6>2. IsFill(e, o) /\ e.version # table[o]
            BY <1>6, <3>2, <4>1, <5>1 DEF IsFill
          <6> QED
            BY <6>1, <6>2
        <5>3. PICK j \in DOMAIN toFront : 1 < j /\ IsStale(toFront[j], o)
          BY <3>1, <5>2 DEF FillAnnounced
        <5> QED
          BY <1>3, <5>3
      <4>2. CASE ~(o = e.object /\ g = e.group)
        <5>1. shelf'[o, g] = shelf[o, g]
          BY <1>2, <2>1, <4>2
        <5>2. PICK j \in DOMAIN toFront : IsStale(toFront[j], o)
          BY <3>1, <3>2, <5>1 DEF EntryAnnounced
        <5>3. j # 1
          BY <1>3, <1>6, <5>2 DEF IsStale
        <5> QED
          BY <5>2, <5>3
      <4> QED
        BY <4>1, <4>2
    <3> QED
      BY <1>4, <3>3
  <2>4. \A o \in Objects : ObjectOK(o)'
    BY <1>1, <1>5, <2>3 DEF PunchInv, ObjectOK, ToldOf
  <2> QED
    BY <1>9, <1>1, <1>3, <2>2, <2>4 DEF PunchInv, PunchType
<1>7. CASE e.kind = "stale"
  <2>1. shelf' = Marks(e.object)
    BY <1>1, <1>7
  <2>2. /\ shelf' \in [Objects \X GroupSet -> [version: Nat, stale: BOOLEAN]]
        /\ \A o \in Objects, g \in GroupSet : o # e.object => shelf'[o, g] = shelf[o, g]
        /\ \A o \in Objects, g \in GroupSet : o = e.object => shelf'[o, g].stale
    <3>1. DOMAIN shelf' = Objects \X GroupSet
      BY <1>2, <2>1 DEF Marks
    <3>2. ASSUME NEW x \in Objects \X GroupSet
          PROVE  /\ shelf'[x] \in [version: Nat, stale: BOOLEAN]
                 /\ x[1] # e.object => shelf'[x] = shelf[x]
                 /\ x[1] = e.object => shelf'[x].stale
      <4>1. shelf[x] \in [version: Nat, stale: BOOLEAN]
        BY <1>2
      <4>2. shelf'[x] = IF x[1] = e.object THEN [shelf[x] EXCEPT !.stale = TRUE] ELSE shelf[x]
        BY <1>2, <2>1, <3>1 DEF Marks
      <4> QED
        BY <4>1, <4>2
    <3>3. shelf' = [x \in Objects \X GroupSet |-> shelf'[x]]
      BY <1>2, <2>1 DEF Marks
    <3>4. \A o \in Objects, g \in GroupSet :
            <<o, g>> \in Objects \X GroupSet /\ <<o, g>>[1] = o
      OBVIOUS
    <3>5. /\ \A o \in Objects, g \in GroupSet : o # e.object => shelf'[o, g] = shelf[o, g]
          /\ \A o \in Objects, g \in GroupSet : o = e.object => shelf'[o, g].stale
      BY <3>2, <3>4, Zenon
    <3> DEFINE V == [version: Nat, stale: BOOLEAN]
               D == Objects \X GroupSet
    <3>6. \A x \in D : shelf'[x] \in V
      BY <3>2
    <3> HIDE DEF V, D
    <3>7. shelf' \in [D -> V]
      BY <3>3, <3>6 DEF D
    <3> QED
      BY <3>5, <3>7 DEF V, D
  <2>3. ASSUME NEW o \in Objects, EntryAnnounced(o) PROVE EntryAnnounced(o)'
    <3>1. SUFFICES ASSUME NEW g \in GroupSet, ~shelf'[o, g].stale, shelf'[o, g].version # table[o]
                   PROVE  \E j \in DOMAIN toFront' : IsStale(toFront'[j], o)
      BY <1>1 DEF EntryAnnounced, IsStale
    <3>2. o # e.object /\ shelf'[o, g] = shelf[o, g]
      BY <2>2, <3>1
    <3>3. PICK j \in DOMAIN toFront : IsStale(toFront[j], o)
      BY <2>3, <3>1, <3>2 DEF EntryAnnounced
    <3>4. j # 1
      BY <1>3, <3>2, <3>3 DEF IsStale
    <3> QED
      BY <1>4, <3>3, <3>4
  <2>4. \A o \in Objects : ObjectOK(o)'
    BY <1>1, <1>5, <2>3 DEF PunchInv, ObjectOK, ToldOf
  <2> QED
    BY <1>9, <1>1, <1>3, <2>2, <2>4 DEF PunchInv, PunchType
<1>8. CASE e.kind # "fill" /\ e.kind # "stale"
  <2>1. shelf' = shelf
    BY <1>1, <1>8
  <2>3. ASSUME NEW o \in Objects, EntryAnnounced(o) PROVE EntryAnnounced(o)'
    <3>1. SUFFICES ASSUME NEW g \in GroupSet, ~shelf[o, g].stale, shelf[o, g].version # table[o]
                   PROVE  \E j \in DOMAIN toFront' : IsStale(toFront'[j], o)
      BY <1>1, <2>1 DEF EntryAnnounced, IsStale
    <3>3. PICK j \in DOMAIN toFront : IsStale(toFront[j], o)
      BY <2>3, <3>1 DEF EntryAnnounced
    <3>4. j # 1
      BY <1>3, <1>8, <3>3 DEF IsStale
    <3> QED
      BY <1>4, <3>3, <3>4
  <2>4. \A o \in Objects : ObjectOK(o)'
    BY <1>1, <1>5, <2>3 DEF PunchInv, ObjectOK, ToldOf
  <2> QED
    BY <1>9, <1>1, <1>2, <1>3, <2>1, <2>4 DEF PunchInv, PunchType
<1> QED
  BY <1>6, <1>7, <1>8

\* A miss is one more request to the backend.
LEMMA MissesKeeps ==
  ASSUME PunchInv, NEW a \in Askers, NEW o \in Objects, acl[a] \in GroupSet, Misses(a, o)
  PROVE  PunchInv'
<1>1. /\ misses' = Append(misses, [object |-> o, group |-> acl[a]])
      /\ UNCHANGED <<table, writing, quiet, internal, toFront, shelf, acl>>
  BY DEF Misses, backVars
<1>2. misses' \in Seq([object: Objects, group: GroupSet])
  <2> DEFINE X == [object: Objects, group: GroupSet]
             x == [object |-> o, group |-> acl[a]]
  <2>1. misses \in Seq(X) /\ misses' = Append(misses, x) /\ x \in X
    BY <1>1 DEF PunchInv, PunchType
  <2> HIDE DEF X, x
  <2>2. misses' \in Seq(X)
    BY <2>1
  <2> QED
    BY <2>2 DEF X
<1>3. \A p \in Objects : ObjectOK(p)'
  <2>1. ASSUME NEW p \in Objects PROVE ObjectOK(p)'
    <3>1. ObjectOK(p) /\ (ToldOf(p)' <=> ToldOf(p)) /\ quiet' = quiet
      BY <1>1 DEF PunchInv, ToldOf
    <3>2. (FillAnnounced(p)' <=> FillAnnounced(p)) /\ (EntryAnnounced(p)' <=> EntryAnnounced(p))
      BY <1>1 DEF FillAnnounced, EntryAnnounced, IsFill, IsStale
    <3> QED
      BY <3>1, <3>2 DEF ObjectOK
  <2> QED
    BY <2>1
<1> QED
  BY <1>1, <1>2, <1>3 DEF PunchInv, PunchType

\* Nothing changes.
LEMMA PunchStutters ==
  ASSUME PunchInv, UNCHANGED <<table, writing, quiet, internal, misses, toFront, shelf, acl>>
  PROVE  PunchInv'
<1>1. PunchType'
  BY DEF PunchInv, PunchType
<1>2. ASSUME NEW p \in Objects PROVE ObjectOK(p)'
  <2>1. ObjectOK(p) /\ (ToldOf(p)' <=> ToldOf(p)) /\ quiet' = quiet
    BY DEF PunchInv, ToldOf
  <2>2. (FillAnnounced(p)' <=> FillAnnounced(p)) /\ (EntryAnnounced(p)' <=> EntryAnnounced(p))
    BY DEF FillAnnounced, EntryAnnounced, IsFill, IsStale
  <2> QED
    BY <2>1, <2>2 DEF ObjectOK
<1> QED
  BY <1>1, <1>2 DEF PunchInv

\* At the start there is nothing on the shelf and nothing on its way.
LEMMA PunchStarts == PunchInit => PunchInv
<1>1. SUFFICES ASSUME PunchInit PROVE PunchInv
  OBVIOUS
<1>2. PunchType
  <2>1. table \in [Objects -> Nat] /\ acl \in [Askers -> GroupSet \cup {""}]
    BY <1>1 DEF PunchInit
  <2>2. Nothing \in [version: Nat, stale: BOOLEAN]
    BY DEF Nothing
  <2> HIDE DEF Nothing
  <2>3. shelf \in [Objects \X GroupSet -> [version: Nat, stale: BOOLEAN]]
    BY <1>1, <2>2 DEF PunchInit
  <2>4. internal \in Seq(Objects) /\ misses \in Seq([object: Objects, group: GroupSet])
        /\ toFront \in Seq(FrontEvents)
    <3>1. internal = <<>> /\ misses = <<>> /\ toFront = <<>>
      BY <1>1 DEF PunchInit
    <3>2. \A S : <<>> \in Seq(S)
      OBVIOUS
    <3> QED
      BY <3>1, EmptySeq, Zenon
  <2> QED
    BY <2>1, <2>3, <2>4 DEF PunchType
<1>3. ASSUME NEW o \in Objects, NEW g \in GroupSet PROVE shelf[o, g].stale
  <2>1. <<o, g>> \in Objects \X GroupSet
    BY <1>3
  <2>2. shelf[o, g] = Nothing
    BY <1>1, <2>1 DEF PunchInit
  <2>3. Nothing.stale = TRUE
    BY DEF Nothing
  <2> HIDE DEF Nothing
  <2> QED
    BY <2>2, <2>3, Zenon
<1>4. \A o \in Objects : FillAnnounced(o)
  <2>1. toFront = <<>>
    BY <1>1 DEF PunchInit
  <2>2. \A i \in DOMAIN toFront : FALSE
    BY <2>1
  <2> QED
    BY <2>2 DEF FillAnnounced
<1> QED
  BY <1>2, <1>3, <1>4 DEF PunchInv, ObjectOK, EntryAnnounced

LEMMA PunchKeeps == PunchInv /\ [PunchNext]_punchVars => PunchInv'
<1>1. SUFFICES ASSUME PunchInv, [PunchNext]_punchVars PROVE PunchInv'
  OBVIOUS
<1>2. ASSUME NEW o \in Objects, Change(o) PROVE PunchInv'
  <2>1. /\ table' = [table EXCEPT ![o] = @ + 1] /\ writing' = writing \cup {o}
        /\ UNCHANGED <<quiet, internal, toFront, shelf, acl, misses>>
    BY <1>2 DEF Change, Writes, frontVars
  <2> QED
    BY <1>1, <2>1, ChangesKeep
<1>3. ASSUME NEW o \in Objects, ChangesQuietly(o) PROVE PunchInv'
  <2>1. /\ table' = [table EXCEPT ![o] = @ + 1] /\ quiet' = quiet \cup {o}
        /\ UNCHANGED <<writing, internal, toFront, shelf, acl, misses>>
    BY <1>3 DEF ChangesQuietly, frontVars
  <2> QED
    BY <1>1, <2>1, ChangesKeep
<1>4. ASSUME NEW o \in Objects, Emits(o) PROVE PunchInv'
  BY <1>1, <1>4, EmitsKeeps
<1>5. CASE StartupReads
  BY <1>1, <1>5, PunchStutters DEF StartupReads, backVars, frontVars
<1>6. CASE StartupPushes
  BY <1>1, <1>6, StartupPushesKeeps
<1>7. CASE TellsStale
  BY <1>1, <1>7, TellsStaleKeeps
<1>8. CASE Refills
  BY <1>1, <1>8, RefillsKeeps
<1>9. CASE Takes
  BY <1>1, <1>9, TakesKeeps
<1>10. ASSUME NEW a \in Askers, NEW o \in Objects, Misses(a, o) PROVE PunchInv'
  <2>1. acl[a] \in GroupSet
    BY <1>1, <1>10 DEF Misses, PunchInv, PunchType
  <2> QED
    BY <1>1, <1>10, <2>1, MissesKeeps
<1>11. CASE UNCHANGED punchVars
  BY <1>1, <1>11, PunchStutters DEF punchVars
<1> QED
  BY <1>1, <1>2, <1>3, <1>4, <1>5, <1>6, <1>7, <1>8, <1>9, <1>10, <1>11 DEF PunchNext

\* handler.py:500 of the backend: whatever the order of writes, events,
\* misses, fills and notices, an old object that peers would be given is
\* about to be found out, for any set of objects and groups of peers.
THEOREM OldIsAnnouncedTheorem == PunchSpec => []OldIsAnnounced
<1>1. PunchInv => OldIsAnnounced
  <2>1. SUFFICES ASSUME PunchInv, NEW o \in Objects \ quiet, NEW g \in GroupSet,
                        ~shelf[o, g].stale, shelf[o, g].version # table[o]
                 PROVE  Announced(o, g)
    BY DEF OldIsAnnounced
  <2>2. ToldOf(o) \/ EntryAnnounced(o)
    BY <2>1 DEF PunchInv, ObjectOK
  <2> QED
    BY <2>1, <2>2 DEF Announced, ToldOf, EntryAnnounced, IsStale
<1> QED
  BY <1>1, PunchStarts, PunchKeeps, PTL DEF PunchSpec
=============================================================================
