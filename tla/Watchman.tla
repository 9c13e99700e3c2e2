------------------------------ MODULE Watchman ------------------------------
(***************************************************************************)
(* The supervisor of the node process: the monitor restarts a node that    *)
(* exits, the health loop kills one that does not answer, the upgrade loop *)
(* replaces it, and a stop request ends them all.  They are coroutines of  *)
(* one loop and share the handle of the process.                           *)
(***************************************************************************)
EXTENDS Naturals

CONSTANTS
  MaxSpawns,    \* bound: processes started
  MaxRestarts,  \* max_restarts (10)
  Threshold     \* health_fail_threshold (3)

ASSUME WatchmanAssumption == {MaxSpawns, MaxRestarts, Threshold} \subseteq Nat \ {0}

Procs == 1..MaxSpawns
Callers == {"upgrade", "stop", "run"}

VARIABLES
  alive,      \* node processes that run
  proc,       \* _proc, the process the supervisor knows
  running, shutdown,
  auto,       \* upgrade.auto_upgrade
  restarts,   \* _restart_count
  fails,      \* _consecutive_health_fails
  monitor,    \* _monitor_loop: "waiting", "backoff" or "over"
  watched,    \* process whose exit it waits for
  health,     \* _health_loop: "on" or "over"
  upgrade,    \* _upgrade_loop: "idle", "stopping", "installing", "probing", "undoing", "restoring", "over"
  killing,    \* caller of _terminate() -> process whose exit it waits for, 0 if none
  run,        \* run(): "on", "ending" in its finally, "exited"
  spawned

watchmanVars == <<alive, proc, running, shutdown, auto, restarts, fails, monitor, watched,
                  health, upgrade, killing, run, spawned>>
flags == <<running, shutdown, auto>>
loops == <<monitor, watched, health, upgrade>>

WatchmanTypeOK ==
  /\ alive \subseteq Procs /\ proc \in Procs /\ watched \in Procs /\ spawned \in Procs
  /\ running \in BOOLEAN /\ shutdown \in BOOLEAN /\ auto \in BOOLEAN /\ restarts \in 0..MaxRestarts + 1
  /\ fails \in 0..Threshold /\ monitor \in {"waiting", "backoff", "over"}
  /\ health \in {"on", "over"} /\ run \in {"on", "ending", "exited"}
  /\ upgrade \in {"idle", "stopping", "installing", "probing", "undoing", "restoring", "over"}
  /\ killing \in [Callers -> 0..MaxSpawns]

\* run(): plugins are synced, the node is spawned, the loops start.
WatchmanInit ==
  /\ alive = {1} /\ proc = 1 /\ spawned = 1 /\ watched = 1 /\ auto \in BOOLEAN
  /\ running = TRUE /\ shutdown = FALSE /\ restarts = 0 /\ fails = 0
  /\ monitor = "waiting" /\ health = "on" /\ upgrade = IF auto THEN "idle" ELSE "over"
  /\ killing = [c \in Callers |-> 0] /\ run = "on"
-----------------------------------------------------------------------------
Spawn ==
  /\ spawned < MaxSpawns /\ spawned' = spawned + 1 /\ proc' = spawned' /\ alive' = alive \cup {spawned'}

\* _terminate() writes the sentinel and waits, if the process known is alive.
Terminating(c) == killing' = [killing EXCEPT ![c] = IF proc \in alive THEN proc ELSE 0]
Terminated(c)  == killing[c] \notin alive /\ killing' = [killing EXCEPT ![c] = 0]

\* The node sees the sentinel and drains, or it ends in any other way.
NodeExits(i) ==
  /\ i \in alive /\ run # "exited" /\ alive' = alive \ {i}
  /\ UNCHANGED <<proc, flags, restarts, fails, loops, killing, run, spawned>>

\* shutdown_drain_timeout: SIGTERM and, ten seconds later, SIGKILL to the
\* process known by then.
Forced(c) ==
  /\ killing[c] \in alive /\ run # "exited" /\ alive' = alive \ {proc}
  /\ UNCHANGED <<proc, flags, restarts, fails, loops, killing, run, spawned>>

\* _monitor_loop() waits a second at a time.
Watch ==
  /\ monitor = "waiting" /\ watched \in alive /\ run # "exited" /\ watched' = proc
  /\ monitor' = IF running THEN "waiting" ELSE "over"
  /\ UNCHANGED <<alive, proc, flags, restarts, fails, health, upgrade, killing, run, spawned>>

\* An exit that nobody asked this loop about is a crash: _restart() gives up or
\* backs off, from the start if the node had been up for long.
NodeEnded(long) ==
  LET n == IF long THEN 1 ELSE restarts + 1 IN
  /\ monitor = "waiting" /\ watched \notin alive /\ run # "exited"
  /\ IF shutdown \/ ~running
     THEN monitor' = "over" /\ UNCHANGED <<restarts, running>>
     ELSE /\ restarts' = n
          /\ IF n > MaxRestarts THEN running' = FALSE /\ monitor' = "over"
             ELSE monitor' = "backoff" /\ UNCHANGED running
  /\ UNCHANGED <<alive, proc, shutdown, auto, fails, watched, health, upgrade, killing, run, spawned>>

\* After the backoff a node is spawned, whatever happened meanwhile.
Respawn ==
  /\ monitor = "backoff" /\ run # "exited" /\ Spawn /\ watched' = proc'
  /\ monitor' = IF running THEN "waiting" ELSE "over"
  /\ UNCHANGED <<flags, restarts, fails, health, upgrade, killing, run>>

\* _health_loop()
Probe(ok) ==
  LET n == IF fails < Threshold THEN fails + 1 ELSE fails IN
  /\ health = "on" /\ running /\ run # "exited"
  /\ fails' = IF ok THEN 0 ELSE n
  /\ alive' = IF ~ok /\ n >= Threshold THEN alive \ {proc} ELSE alive
  /\ UNCHANGED <<proc, flags, restarts, loops, killing, run, spawned>>

HealthOver ==
  /\ health = "on" /\ ~running /\ health' = "over"
  /\ UNCHANGED <<alive, proc, flags, restarts, fails, monitor, watched, upgrade, killing, run, spawned>>

\* run_upgrade(): a newer release is there, was verified, and tasks have drained.
UpgradeStops ==
  /\ upgrade = "idle" /\ running /\ run = "on" /\ Terminating("upgrade") /\ upgrade' = "stopping"
  /\ UNCHANGED <<alive, proc, flags, restarts, fails, monitor, watched, health, run, spawned>>

UpgradeInstalls ==
  /\ upgrade \in {"stopping", "undoing"} /\ run # "exited" /\ Terminated("upgrade")
  /\ upgrade' = IF upgrade = "stopping" THEN "installing" ELSE "restoring"
  /\ UNCHANGED <<alive, proc, flags, restarts, fails, monitor, watched, health, run, spawned>>

\* Installed, the new version starts; if it could not be, the old one is restored.
UpgradeSpawns ==
  /\ upgrade = "installing" /\ run # "exited"
  /\ \/ Spawn /\ upgrade' = "probing"
     \/ upgrade' = "restoring" /\ UNCHANGED <<alive, proc, spawned>>
  /\ UNCHANGED <<flags, restarts, fails, monitor, watched, health, killing, run>>

\* _probe_health() until upgrade_health_timeout
UpgradeProbed(ok) ==
  /\ upgrade = "probing" /\ run # "exited"
  /\ IF ok THEN upgrade' = "idle" /\ UNCHANGED killing ELSE upgrade' = "undoing" /\ Terminating("upgrade")
  /\ UNCHANGED <<alive, proc, flags, restarts, fails, monitor, watched, health, run, spawned>>

\* _rollback() spawns the old version if that could be installed.
RolledBack ==
  /\ upgrade = "restoring" /\ run # "exited" /\ upgrade' = "idle"
  /\ (Spawn \/ UNCHANGED <<alive, proc, spawned>>)
  /\ UNCHANGED <<flags, restarts, fails, monitor, watched, health, killing, run>>

UpgradeOver ==
  /\ upgrade = "idle" /\ ~running /\ upgrade' = "over"
  /\ UNCHANGED <<alive, proc, flags, restarts, fails, monitor, watched, health, killing, run, spawned>>

\* SIGTERM: stop() is a task of its own.
Stop ==
  /\ ~shutdown /\ run # "exited" /\ shutdown' = TRUE /\ running' = FALSE /\ Terminating("stop")
  /\ UNCHANGED <<alive, proc, auto, restarts, fails, loops, run, spawned>>

StopDone ==
  /\ killing["stop"] # 0 /\ Terminated("stop")
  /\ UNCHANGED <<alive, proc, flags, restarts, fails, loops, run, spawned>>

\* Mutant of RunEnds: the node is stopped by stop() only.
RunEndsAtOnce ==
  /\ run = "on" /\ monitor = "over" /\ health = "over" /\ upgrade = "over" /\ run' = "exited"
  /\ UNCHANGED <<alive, proc, flags, restarts, fails, loops, killing, spawned>>

\* The loops are over: run() terminates the node that is known then.
RunEnds ==
  /\ run = "on" /\ monitor = "over" /\ health = "over" /\ upgrade = "over"
  /\ run' = "ending" /\ Terminating("run")
  /\ UNCHANGED <<alive, proc, flags, restarts, fails, loops, spawned>>

RunExits ==
  /\ run = "ending" /\ Terminated("run") /\ run' = "exited"
  /\ UNCHANGED <<alive, proc, flags, restarts, fails, loops, spawned>>

WatchmanNext ==
  \/ \E i \in Procs : NodeExits(i)
  \/ \E c \in Callers : Forced(c)
  \/ \E b \in BOOLEAN : NodeEnded(b) \/ Probe(b) \/ UpgradeProbed(b)
  \/ Watch \/ Respawn \/ HealthOver \/ UpgradeStops \/ UpgradeInstalls \/ UpgradeSpawns
  \/ RolledBack \/ UpgradeOver \/ Stop \/ StopDone \/ RunEnds \/ RunExits

WatchmanSpec == WatchmanInit /\ [][WatchmanNext]_watchmanVars
-----------------------------------------------------------------------------
(* Properties                                                              *)

\* supervisor.py:73 and :80: when run() returns no node is left behind, also if
\* the stop came while the monitor was backing off and about to spawn one.
ExitedIsDead == run = "exited" /\ ~auto => alive = {}

\* supervisor.py:126: "WM-04: always tracked".
AlwaysTracked == alive \subseteq {proc}
=============================================================================
