--------------------------- MODULE SingboxManager ---------------------------
(***************************************************************************)
(* The agent's supervisor of the sing-box process:                         *)
(* internal/agent/singbox/manager.go, with the commands and the start of   *)
(* internal/agent/runtime.go that call it.                                 *)
(*                                                                         *)
(* A watcher goroutine per process waits for its end and starts another;   *)
(* command workers kill and start processes; the agent itself may crash    *)
(* or replace its own image.  Restart, Stop and ForceKill hold Manager.mu  *)
(* until they return, and so are one step each.                            *)
(***************************************************************************)
EXTENDS Naturals, FiniteSets

CONSTANTS
  Proc,         \* sing-box processes that may exist at the same time
  Worker,       \* command workers of the reporter
  None,         \* no process
  MaxRestarts,  \* maxRestarts of NewManager (5)
  MaxExit,      \* bound: processes that end on their own
  MaxCommand,   \* bound: commands
  MaxBoot,      \* bound: times the agent starts
  MaxStartFail  \* bound: processes that cannot be started

ASSUME NoneAssumption == None \notin Proc

ASSUME BoundAssumption ==
  {MaxRestarts, MaxExit, MaxCommand, MaxBoot, MaxStartFail} \subseteq Nat

VARIABLES
  alive,      \* sing-box processes that run
  child,      \* processes whose parent is the agent
  watcher,    \* watchProcess of each process: "none", "waiting", "delay"
  clearers,   \* goroutines that will clear restartCounter 10 s after a restart
  cmd,        \* Manager.cmd, None for nil
  running,    \* Manager.running
  restartCounter, \* Manager.restartCounter
  pidFile,    \* process named by the PID file, or None
  booted,     \* initSingBox has returned
  worker,     \* what each worker is about to do: "idle", "start", "restart", "verify"
  exits, commands, boots, startFails  \* budgets

manager == <<cmd, running, restartCounter, pidFile>>
budgets == <<exits, commands, boots, startFails>>
vars == <<alive, child, watcher, clearers, manager, booted, worker, budgets>>

TypeOK ==
  /\ alive \subseteq Proc /\ child \subseteq Proc
  /\ watcher \in [Proc -> {"none", "waiting", "delay"}]
  /\ clearers \in Nat
  /\ cmd \in Proc \cup {None}
  /\ running \in BOOLEAN
  /\ restartCounter \in Nat /\ restartCounter <= MaxRestarts + 1
  /\ pidFile \in Proc \cup {None}
  /\ booted \in BOOLEAN
  /\ worker \in [Worker -> {"idle", "start", "restart", "verify"}]
  /\ exits \in Nat /\ commands \in Nat /\ boots \in Nat /\ startFails \in Nat

(* An agent that has just been started on a machine without sing-box.       *)
Init ==
  /\ alive = {} /\ child = {}
  /\ watcher = [p \in Proc |-> "none"]
  /\ clearers = 0
  /\ cmd = None /\ running = FALSE /\ restartCounter = 0 /\ pidFile = None
  /\ booted = FALSE
  /\ worker = [w \in Worker |-> "idle"]
  /\ exits = 0 /\ commands = 0 /\ boots = 1 /\ startFails = 0
-----------------------------------------------------------------------------
(* startProcess, after the processes of gone have ended, with the watchers   *)
(* of watch: a new process runs under a new watcher.                         *)
StartProcess(gone, watch) ==
  \E p \in Proc :
    /\ p \notin alive \ gone /\ watch[p] = "none"
    /\ alive' = (alive \ gone) \cup {p}
    /\ child' = child \cup {p}
    /\ watcher' = [watch EXCEPT ![p] = "waiting"]
    /\ cmd' = p /\ running' = TRUE /\ pidFile' = p
    /\ UNCHANGED startFails

(* The program cannot be executed.                                           *)
StartFails(gone, watch) ==
  /\ startFails < MaxStartFail
  /\ startFails' = startFails + 1
  /\ alive' = alive \ gone
  /\ watcher' = watch
  /\ UNCHANGED child

(* The end of stopProcess and of ForceKill: the manager manages no process.  *)
NothingRuns ==
  IF running THEN cmd' = None /\ running' = FALSE /\ pidFile' = None
             ELSE UNCHANGED <<cmd, running, pidFile>>

(* A sing-box process ends on its own: it crashes or its port is taken.      *)
Exit(p) ==
  /\ p \in alive
  /\ exits < MaxExit
  /\ exits' = exits + 1
  /\ alive' = alive \ {p}
  /\ UNCHANGED <<child, watcher, clearers, manager, booted, worker, commands, boots,
                 startFails>>

(* Mutant: the watcher that gives up leaves running as it is.                *)
WatchExit_GivesUpEarly(p) ==
  /\ watcher[p] = "waiting" /\ p \notin alive
  /\ running' = (running /\ restartCounter >= MaxRestarts)
  /\ pidFile' = None
  /\ restartCounter' = IF restartCounter > MaxRestarts THEN restartCounter
                       ELSE restartCounter + 1
  /\ watcher' = [watcher EXCEPT ![p] =
                   IF restartCounter >= MaxRestarts THEN "none" ELSE "delay"]
  /\ UNCHANGED <<alive, child, clearers, cmd, booted, worker, budgets>>

(* Mutant: the last of the restarts allowed is not made.                     *)
WatchExit_OneTooFew(p) ==
  /\ watcher[p] = "waiting" /\ p \notin alive
  /\ running' = FALSE
  /\ pidFile' = None
  /\ restartCounter' = IF restartCounter > MaxRestarts THEN restartCounter
                       ELSE restartCounter + 1
  /\ watcher' = [watcher EXCEPT ![p] =
                   IF restartCounter' >= MaxRestarts THEN "none" ELSE "delay"]
  /\ UNCHANGED <<alive, child, clearers, cmd, booted, worker, budgets>>

(* watchProcess up to its delay: the process has ended, for whatever reason. *)
(* The counter is kept at MaxRestarts + 1 once it is there.                  *)
(* The context it looks at is cancelled only when the agent is gone.         *)
WatchExit(p) ==
  /\ watcher[p] = "waiting" /\ p \notin alive
  /\ running' = FALSE
  /\ pidFile' = None
  /\ restartCounter' = IF restartCounter > MaxRestarts THEN restartCounter
                       ELSE restartCounter + 1
  /\ watcher' = [watcher EXCEPT ![p] =
                   IF restartCounter >= MaxRestarts THEN "none" ELSE "delay"]
  /\ UNCHANGED <<alive, child, clearers, cmd, booted, worker, budgets>>

(* watchProcess after restartDelay.                                          *)
WatchRestart(p) ==
  LET ended == [watcher EXCEPT ![p] = "none"] IN
  /\ watcher[p] = "delay"
  /\ \/ StartProcess({}, ended) /\ clearers' = clearers + 1
     \/ StartFails({}, ended) /\ UNCHANGED <<clearers, cmd, running, pidFile>>
  /\ UNCHANGED <<restartCounter, booted, worker, exits, commands, boots>>

(* Ten seconds after an automatic restart.                                   *)
ClearCounter ==
  /\ clearers > 0
  /\ clearers' = clearers - 1
  /\ restartCounter' = IF running THEN 0 ELSE restartCounter
  /\ UNCHANGED <<alive, child, watcher, cmd, running, pidFile, booted, worker, budgets>>
-----------------------------------------------------------------------------
(* initSingBox.                                                              *)

(* It returns before it looks for processes: no configuration, no program.   *)
BootAborts ==
  /\ ~booted /\ booted' = TRUE
  /\ UNCHANGED <<alive, child, watcher, clearers, manager, worker, budgets>>

(* Mutant: the process named by the PID file is not looked for.              *)
Orphans_ChildrenOnly == child

(* What KillOrphanProcess finds.                                             *)
Orphans == child \cup (IF pidFile = None THEN {} ELSE {pidFile})

(* KillOrphanProcess, and then a port conflict.                              *)
BootOnlyKills ==
  /\ ~booted /\ booted' = TRUE
  /\ alive' = alive \ Orphans
  /\ pidFile' = None
  /\ UNCHANGED <<child, watcher, clearers, cmd, running, restartCounter, worker, budgets>>

(* KillOrphanProcess and Start.                                              *)
BootStarts ==
  /\ ~booted /\ booted' = TRUE
  /\ \/ StartProcess(Orphans, watcher)
     \/ StartFails(Orphans, watcher) /\ pidFile' = None /\ UNCHANGED <<cmd, running>>
  /\ UNCHANGED <<clearers, restartCounter, worker, exits, commands, boots>>

(* The agent is gone with all its goroutines.  An agent that updates itself  *)
(* keeps its process id and so its children; one that crashes loses them.    *)
Reboot(kept) ==
  /\ booted /\ boots < MaxBoot
  /\ boots' = boots + 1
  /\ booted' = FALSE
  /\ child' = kept
  /\ watcher' = [p \in Proc |-> "none"]
  /\ clearers' = 0
  /\ cmd' = None /\ running' = FALSE /\ restartCounter' = 0
  /\ worker' = [w \in Worker |-> "idle"]
  /\ UNCHANGED <<alive, pidFile, exits, commands, startFails>>

Reexec == Reboot(child)
AgentCrash == Reboot({})
-----------------------------------------------------------------------------
(* The commands push-config, reinstall-singbox and reset-links.              *)

(* ForceKill, with which each begins; next is what follows.                  *)
Command(w, next) ==
  /\ booted /\ worker[w] = "idle"
  /\ commands < MaxCommand
  /\ commands' = commands + 1
  /\ worker' = [worker EXCEPT ![w] = next]
  /\ alive' = alive \ child
  /\ NothingRuns
  /\ restartCounter' = 0
  /\ UNCHANGED <<child, watcher, clearers, booted, exits, boots, startFails>>

(* A port is taken, a download fails, a file cannot be written.              *)
CommandFails(w) ==
  /\ worker[w] \in {"start", "restart"}
  /\ worker' = [worker EXCEPT ![w] = "idle"]
  /\ UNCHANGED <<alive, child, watcher, clearers, manager, booted, budgets>>

(* Start refuses while it believes that a process runs.                      *)
StartRefused(w) ==
  /\ worker[w] = "start" /\ running
  /\ worker' = [worker EXCEPT ![w] = "idle"]
  /\ UNCHANGED <<alive, child, watcher, clearers, manager, booted, budgets>>

Start(w) ==
  /\ worker[w] = "start" /\ ~running
  /\ \/ StartProcess({}, watcher) /\ worker' = [worker EXCEPT ![w] = "verify"]
     \/ /\ StartFails({}, watcher) /\ UNCHANGED <<cmd, running, pidFile>>
        /\ worker' = [worker EXCEPT ![w] = "idle"]
  /\ UNCHANGED <<clearers, restartCounter, booted, exits, commands, boots>>

(* The end of StartAndVerify; what it answers is not part of the state.      *)
Verify(w) ==
  /\ worker[w] = "verify"
  /\ worker' = [worker EXCEPT ![w] = "idle"]
  /\ UNCHANGED <<alive, child, watcher, clearers, manager, booted, budgets>>

(* What stopProcess ends: the process it believes to run.                    *)
Stopped == IF running /\ cmd # None THEN {cmd} ELSE {}

(* Restart, called by ReloadConfig.                                          *)
Restart(w) ==
  /\ worker[w] = "restart"
  /\ worker' = [worker EXCEPT ![w] = "idle"]
  /\ restartCounter' = 0
  /\ \/ StartProcess(Stopped, watcher)
     \/ StartFails(Stopped, watcher) /\ NothingRuns
  /\ UNCHANGED <<clearers, booted, exits, commands, boots>>

Next ==
  \/ \E p \in Proc : Exit(p) \/ WatchExit(p) \/ WatchRestart(p)
  \/ ClearCounter
  \/ BootAborts \/ BootOnlyKills \/ BootStarts
  \/ Reexec \/ AgentCrash
  \/ \E w \in Worker :
       \/ \E next \in {"start", "restart"} : Command(w, next)
       \/ CommandFails(w) \/ StartRefused(w) \/ Start(w) \/ Verify(w) \/ Restart(w)

Spec == Init /\ [][Next]_vars

(* A watcher is a goroutine of its own, and its delay is three seconds.      *)
FairSpec == Spec /\ \A p \in Proc : WF_vars(WatchExit(p)) /\ WF_vars(WatchRestart(p))
-----------------------------------------------------------------------------
(* Whenever the manager says that sing-box runs, a watcher is waiting for    *)
(* the process it means, so that the end of it cannot go unnoticed, although *)
(* watchers of processes long gone write to the same fields.                 *)
RunningIsWatched == running => cmd # None /\ watcher[cmd] = "waiting"

(* Until a command kills it, there is one sing-box process at most, over its *)
(* crashes, restarts of the agent that keep or lose the process, and starts  *)
(* of the agent that stop half-way.                                          *)
SingleUntilCommand == commands = 0 => Cardinality(alive) <= 1

(* The comment on killSingboxChildren: "the agent has 0 (after ForceKill) or *)
(* 1 (running) sing-box processes, always".                                  *)
AtMostOneProcess == Cardinality(alive) <= 1

(* A sing-box process that ends on its own is replaced, unless it has ended  *)
(* MaxRestarts times in a row, cannot be started, or the agent or a command  *)
(* comes in between.                                                         *)
Recovers ==
  \A p \in Proc :
    watcher[p] = "waiting" /\ p \notin alive /\ commands = 0
      ~> \/ alive # {} \/ restartCounter > MaxRestarts
         \/ startFails > 0 \/ commands > 0 \/ ~booted
=============================================================================
