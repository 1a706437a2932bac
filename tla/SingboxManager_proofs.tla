----------------------- MODULE SingboxManager_proofs ------------------------
(***************************************************************************)
(* Proofs about SingboxManager: its types, that a process the manager      *)
(* believes to run is watched, and that there is one process at most until *)
(* a command kills it.                                                     *)
(***************************************************************************)
EXTENDS SingboxManager, FiniteSetTheorems, TLAPS

WatchInv == TypeOK /\ RunningIsWatched

LEMMA MaxRestartsIsNat == MaxRestarts \in Nat
  BY BoundAssumption

(* TypeOK in two halves: the counters, and the processes with their fields.  *)
CountersOK ==
  /\ clearers \in Nat
  /\ restartCounter \in Nat /\ restartCounter <= MaxRestarts + 1
  /\ exits \in Nat /\ commands \in Nat /\ boots \in Nat /\ startFails \in Nat

ProcessesOK ==
  /\ alive \subseteq Proc /\ child \subseteq Proc
  /\ watcher \in [Proc -> {"none", "waiting", "delay"}]
  /\ cmd \in Proc \cup {None}
  /\ pidFile \in Proc \cup {None}
  /\ worker \in [Worker -> {"idle", "start", "restart", "verify"}]

FlagsOK == running \in BOOLEAN /\ booted \in BOOLEAN

LEMMA TypeHalves == TypeOK <=> CountersOK /\ ProcessesOK /\ FlagsOK
  BY Zenon DEF TypeOK, CountersOK, ProcessesOK, FlagsOK

LEMMA TypeInit == Init => TypeOK
<1> SUFFICES ASSUME Init PROVE TypeOK
  OBVIOUS
<1>1. CountersOK
  BY MaxRestartsIsNat DEF Init, CountersOK
<1>2. ProcessesOK
  BY DEF Init, ProcessesOK
<1>3. FlagsOK
  BY DEF Init, FlagsOK
<1> QED BY <1>1, <1>2, <1>3, TypeHalves

LEMMA CountersStep == TypeOK /\ [Next]_vars => CountersOK'
<1> SUFFICES ASSUME CountersOK, ProcessesOK, FlagsOK, [Next]_vars PROVE CountersOK'
  BY TypeHalves
<1> USE MaxRestartsIsNat DEF CountersOK
<1>1. ASSUME NEW p \in Proc, Exit(p) \/ WatchExit(p) PROVE CountersOK'
  BY <1>1 DEF Exit, WatchExit, manager, budgets
<1>2. ASSUME NEW p \in Proc, WatchRestart(p) PROVE CountersOK'
  BY <1>2 DEF WatchRestart, StartProcess, StartFails
<1>3. ASSUME ClearCounter \/ BootAborts \/ BootOnlyKills PROVE CountersOK'
  BY <1>3 DEF ClearCounter, BootAborts, BootOnlyKills, manager, budgets
<1>4. ASSUME BootStarts PROVE CountersOK'
  BY <1>4 DEF BootStarts, StartProcess, StartFails
<1>5. ASSUME Reexec \/ AgentCrash PROVE CountersOK'
  BY <1>5 DEF Reexec, AgentCrash, Reboot
<1>6. ASSUME NEW w \in Worker, NEW next \in {"start", "restart"}, Command(w, next)
      PROVE  CountersOK'
  BY <1>6 DEF Command, NothingRuns
<1>7. ASSUME NEW w \in Worker, CommandFails(w) \/ StartRefused(w) \/ Verify(w)
      PROVE  CountersOK'
  BY <1>7 DEF CommandFails, StartRefused, Verify, manager, budgets
<1>8. ASSUME NEW w \in Worker, Start(w) PROVE CountersOK'
  BY <1>8 DEF Start, StartProcess, StartFails
<1>9. ASSUME NEW w \in Worker, Restart(w) PROVE CountersOK'
  BY <1>9 DEF Restart, StartProcess, StartFails, NothingRuns
<1>10. ASSUME UNCHANGED vars PROVE CountersOK'
  BY <1>10 DEF vars, manager, budgets
<1> QED
  BY <1>1, <1>2, <1>3, <1>4, <1>5, <1>6, <1>7, <1>8, <1>9, <1>10 DEF Next

LEMMA ProcessesStep == TypeOK /\ [Next]_vars => ProcessesOK'
<1> SUFFICES ASSUME CountersOK, ProcessesOK, FlagsOK, [Next]_vars PROVE ProcessesOK'
  BY TypeHalves
<1> USE NoneAssumption DEF ProcessesOK
<1>1. ASSUME NEW p \in Proc, Exit(p) \/ WatchExit(p) PROVE ProcessesOK'
  BY <1>1 DEF Exit, WatchExit, manager, budgets
<1>2. ASSUME NEW p \in Proc, WatchRestart(p) PROVE ProcessesOK'
  BY <1>2 DEF WatchRestart, StartProcess, StartFails
<1>3. ASSUME ClearCounter \/ BootAborts \/ BootOnlyKills PROVE ProcessesOK'
  BY <1>3 DEF ClearCounter, BootAborts, BootOnlyKills, manager, budgets
<1>4. ASSUME BootStarts PROVE ProcessesOK'
  BY <1>4 DEF BootStarts, StartProcess, StartFails
<1>5. ASSUME Reexec \/ AgentCrash PROVE ProcessesOK'
  BY <1>5 DEF Reexec, AgentCrash, Reboot
<1>6. ASSUME NEW w \in Worker, NEW next \in {"start", "restart"}, Command(w, next)
      PROVE  ProcessesOK'
  BY <1>6 DEF Command, NothingRuns
<1>7. ASSUME NEW w \in Worker, CommandFails(w) \/ StartRefused(w) \/ Verify(w)
      PROVE  ProcessesOK'
  BY <1>7 DEF CommandFails, StartRefused, Verify, manager, budgets
<1>8. ASSUME NEW w \in Worker, Start(w) PROVE ProcessesOK'
  BY <1>8 DEF Start, StartProcess, StartFails
<1>9. ASSUME NEW w \in Worker, Restart(w) PROVE ProcessesOK'
  BY <1>9 DEF Restart, StartProcess, StartFails, NothingRuns
<1>10. ASSUME UNCHANGED vars PROVE ProcessesOK'
  BY <1>10 DEF vars, manager, budgets
<1> QED
  BY <1>1, <1>2, <1>3, <1>4, <1>5, <1>6, <1>7, <1>8, <1>9, <1>10 DEF Next

LEMMA FlagsStep == TypeOK /\ [Next]_vars => FlagsOK'
<1> SUFFICES ASSUME CountersOK, ProcessesOK, FlagsOK, [Next]_vars PROVE FlagsOK'
  BY TypeHalves
<1> USE DEF FlagsOK
<1>1. ASSUME NEW p \in Proc, Exit(p) \/ WatchExit(p) PROVE FlagsOK'
  BY <1>1 DEF Exit, WatchExit, manager, budgets
<1>2. ASSUME NEW p \in Proc, WatchRestart(p) PROVE FlagsOK'
  BY <1>2 DEF WatchRestart, StartProcess, StartFails
<1>3. ASSUME ClearCounter \/ BootAborts \/ BootOnlyKills PROVE FlagsOK'
  BY <1>3 DEF ClearCounter, BootAborts, BootOnlyKills, manager, budgets
<1>4. ASSUME BootStarts PROVE FlagsOK'
  BY <1>4 DEF BootStarts, StartProcess, StartFails
<1>5. ASSUME Reexec \/ AgentCrash PROVE FlagsOK'
  BY <1>5 DEF Reexec, AgentCrash, Reboot
<1>6. ASSUME NEW w \in Worker, NEW next \in {"start", "restart"}, Command(w, next)
      PROVE  FlagsOK'
  BY <1>6 DEF Command, NothingRuns
<1>7. ASSUME NEW w \in Worker, CommandFails(w) \/ StartRefused(w) \/ Verify(w)
      PROVE  FlagsOK'
  BY <1>7 DEF CommandFails, StartRefused, Verify, manager, budgets
<1>8. ASSUME NEW w \in Worker, Start(w) PROVE FlagsOK'
  BY <1>8 DEF Start, StartProcess, StartFails
<1>9. ASSUME NEW w \in Worker, Restart(w) PROVE FlagsOK'
  BY <1>9 DEF Restart, StartProcess, StartFails, NothingRuns
<1>10. ASSUME UNCHANGED vars PROVE FlagsOK'
  BY <1>10 DEF vars, manager, budgets
<1> QED
  BY <1>1, <1>2, <1>3, <1>4, <1>5, <1>6, <1>7, <1>8, <1>9, <1>10 DEF Next

LEMMA TypeStep == TypeOK /\ [Next]_vars => TypeOK'
<1>1. (CountersOK /\ ProcessesOK /\ FlagsOK)' => TypeOK'
  BY TypeHalves, PTL
<1> QED BY <1>1, CountersStep, ProcessesStep, FlagsStep

LEMMA WatchedInit == Init => RunningIsWatched
  BY DEF Init, RunningIsWatched

LEMMA WatchedStep == TypeOK /\ RunningIsWatched /\ [Next]_vars => RunningIsWatched'
<1> SUFFICES ASSUME TypeOK, RunningIsWatched, [Next]_vars PROVE RunningIsWatched'
  OBVIOUS
<1> USE MaxRestartsIsNat, NoneAssumption DEF TypeOK, RunningIsWatched
<1>1. ASSUME NEW p \in Proc, Exit(p) PROVE RunningIsWatched'
  BY <1>1 DEF Exit, manager
<1>2. ASSUME NEW p \in Proc, WatchExit(p) PROVE RunningIsWatched'
  BY <1>2 DEF WatchExit, budgets
<1>3. ASSUME NEW p \in Proc, WatchRestart(p) PROVE RunningIsWatched'
  <2> DEFINE ended == [watcher EXCEPT ![p] = "none"]
  <2>1. ended \in [Proc -> {"none", "waiting", "delay"}]
    OBVIOUS
  <2>2. CASE StartProcess({}, ended) /\ clearers' = clearers + 1
    BY <1>3, <2>1, <2>2 DEF WatchRestart, StartProcess
  <2>3. CASE StartFails({}, ended) /\ UNCHANGED <<clearers, cmd, running, pidFile>>
    BY <1>3, <2>1, <2>3 DEF WatchRestart, StartFails
  <2> QED BY <1>3, <2>2, <2>3 DEF WatchRestart
<1>4. ASSUME ClearCounter PROVE RunningIsWatched'
  BY <1>4 DEF ClearCounter, budgets
<1>5. ASSUME BootAborts \/ BootOnlyKills PROVE RunningIsWatched'
  BY <1>5 DEF BootAborts, BootOnlyKills, manager, budgets
<1>6. ASSUME BootStarts PROVE RunningIsWatched'
  <2>1. CASE StartProcess(Orphans, watcher)
    BY <1>6, <2>1 DEF BootStarts, StartProcess
  <2>2. CASE StartFails(Orphans, watcher) /\ pidFile' = None /\ UNCHANGED <<cmd, running>>
    BY <1>6, <2>2 DEF BootStarts, StartFails
  <2> QED BY <1>6, <2>1, <2>2 DEF BootStarts
<1>7. ASSUME Reexec \/ AgentCrash PROVE RunningIsWatched'
  BY <1>7 DEF Reexec, AgentCrash, Reboot
<1>8. ASSUME NEW w \in Worker, NEW next \in {"start", "restart"}, Command(w, next)
      PROVE  RunningIsWatched'
  BY <1>8 DEF Command, NothingRuns
<1>9. ASSUME NEW w \in Worker, CommandFails(w) \/ StartRefused(w) \/ Verify(w)
      PROVE  RunningIsWatched'
  BY <1>9 DEF CommandFails, StartRefused, Verify, manager, budgets
<1>10. ASSUME NEW w \in Worker, Start(w) PROVE RunningIsWatched'
  <2>1. CASE StartProcess({}, watcher) /\ worker' = [worker EXCEPT ![w] = "verify"]
    BY <1>10, <2>1 DEF Start, StartProcess
  <2>2. CASE /\ StartFails({}, watcher) /\ UNCHANGED <<cmd, running, pidFile>>
             /\ worker' = [worker EXCEPT ![w] = "idle"]
    BY <1>10, <2>2 DEF Start, StartFails
  <2> QED BY <1>10, <2>1, <2>2 DEF Start
<1>11. ASSUME NEW w \in Worker, Restart(w) PROVE RunningIsWatched'
  <2>1. CASE StartProcess(Stopped, watcher)
    BY <1>11, <2>1 DEF Restart, StartProcess
  <2>2. CASE StartFails(Stopped, watcher) /\ NothingRuns
    BY <1>11, <2>2 DEF Restart, StartFails, NothingRuns
  <2> QED BY <1>11, <2>1, <2>2 DEF Restart
<1>12. ASSUME UNCHANGED vars PROVE RunningIsWatched'
  BY <1>12 DEF vars, manager, budgets
<1> QED
  BY <1>1, <1>2, <1>3, <1>4, <1>5, <1>6, <1>7, <1>8, <1>9, <1>10, <1>11, <1>12 DEF Next

LEMMA WatchInvariant == Spec => []WatchInv
<1>1. Init => WatchInv
  BY TypeInit, WatchedInit DEF WatchInv
<1>2. WatchInv /\ [Next]_vars => WatchInv'
  BY TypeStep, WatchedStep DEF WatchInv
<1> QED BY <1>1, <1>2, PTL DEF Spec

(* Every variable keeps its type in every behaviour.                        *)
THEOREM TypeCorrect == Spec => []TypeOK
<1>1. WatchInv => TypeOK
  BY DEF WatchInv
<1> QED BY <1>1, WatchInvariant, PTL

(* A process the manager believes to run has a watcher that waits for it,    *)
(* however many watchers of earlier processes are about.                     *)
THEOREM RunningProcessIsWatched == Spec => []RunningIsWatched
<1>1. WatchInv => RunningIsWatched
  BY DEF WatchInv
<1> QED BY <1>1, WatchInvariant, PTL
-----------------------------------------------------------------------------
(* Before the first command the PID file names the process that runs, one    *)
(* goroutine at most watches, and the one in its delay waits for nothing.    *)
Idle == \A w \in Worker : worker[w] = "idle"

OneWatcher == \A p, q \in Proc : watcher[p] # "none" /\ watcher[q] # "none" => p = q

PidFileNames == alive \subseteq {pidFile}

WatcherKnows == \A p \in Proc :
  /\ watcher[p] = "waiting" => alive \subseteq {p}
  /\ watcher[p] = "delay" => alive = {}

UnwatchedAtBoot == ~booted => \A p \in Proc : watcher[p] = "none"

SingleInv ==
  commands = 0 => Idle /\ OneWatcher /\ PidFileNames /\ WatcherKnows /\ UnwatchedAtBoot

LEMMA SingleInit == Init => SingleInv
  BY DEF Init, SingleInv, Idle, OneWatcher, PidFileNames, WatcherKnows, UnwatchedAtBoot

LEMMA SingleStep == WatchInv /\ SingleInv /\ [Next]_vars => SingleInv'
<1> SUFFICES ASSUME WatchInv, SingleInv, [Next]_vars, commands' = 0 PROVE SingleInv'
  BY DEF SingleInv
<1> USE DEF SingleInv, Idle, OneWatcher, PidFileNames, WatcherKnows, UnwatchedAtBoot
<1> USE DEF WatchInv, TypeOK
<1>1. ASSUME NEW p \in Proc, Exit(p) PROVE SingleInv'
  BY <1>1 DEF Exit, manager
<1>2. ASSUME NEW p \in Proc, WatchExit(p) PROVE SingleInv'
  BY <1>2 DEF WatchExit, budgets
<1>3. ASSUME NEW p \in Proc, WatchRestart(p) PROVE SingleInv'
  <2> DEFINE ended == [watcher EXCEPT ![p] = "none"]
  <2>1. commands = 0 /\ UNCHANGED <<booted, worker>>
    BY <1>3 DEF WatchRestart
  <2>2. alive = {} /\ booted /\ \A q \in Proc : ended[q] = "none"
    BY <1>3, <2>1 DEF WatchRestart
  <2> HIDE DEF ended
  <2>3. CASE StartProcess({}, ended)
    <3>1. PICK q \in Proc : /\ alive' = {q} /\ pidFile' = q
                            /\ watcher' = [ended EXCEPT ![q] = "waiting"]
      BY <2>2, <2>3 DEF StartProcess
    <3>2. ended \in [Proc -> {"none", "waiting", "delay"}]
      BY DEF ended
    <3> QED BY <2>1, <2>2, <3>1, <3>2
  <2>4. CASE StartFails({}, ended)
    BY <2>1, <2>2, <2>4 DEF StartFails
  <2> QED BY <1>3, <2>3, <2>4 DEF WatchRestart, ended
<1>4. ASSUME ClearCounter PROVE SingleInv'
  BY <1>4 DEF ClearCounter, budgets
<1>5. ASSUME BootAborts \/ BootOnlyKills PROVE SingleInv'
  BY <1>5 DEF BootAborts, BootOnlyKills, Orphans, manager, budgets
<1>6. ASSUME BootStarts PROVE SingleInv'
  <2>1. commands = 0 /\ booted' /\ worker' = worker /\ \A p \in Proc : watcher[p] = "none"
    BY <1>6 DEF BootStarts
  <2>2. alive \ Orphans = {}
    <3>1. alive \subseteq {pidFile} /\ None \notin alive
      BY <2>1, NoneAssumption
    <3>2. CASE pidFile = None
      BY <3>1, <3>2
    <3>3. CASE pidFile # None
      BY <3>1, <3>3 DEF Orphans
    <3> QED BY <3>2, <3>3
  <2>3. CASE StartProcess(Orphans, watcher)
    <3>1. PICK q \in Proc : /\ alive' = {q} /\ pidFile' = q
                            /\ watcher' = [watcher EXCEPT ![q] = "waiting"]
      BY <2>2, <2>3 DEF StartProcess
    <3> QED BY <2>1, <3>1
  <2>4. CASE StartFails(Orphans, watcher)
    BY <1>6, <2>1, <2>2, <2>4 DEF StartFails
  <2> QED BY <1>6, <2>3, <2>4 DEF BootStarts
<1>7. ASSUME Reexec \/ AgentCrash PROVE SingleInv'
  BY <1>7 DEF Reexec, AgentCrash, Reboot
<1>8. ASSUME NEW w \in Worker, NEW next \in {"start", "restart"}, Command(w, next)
      PROVE  SingleInv'
  BY <1>8 DEF Command
<1>9. ASSUME NEW w \in Worker,
             \/ CommandFails(w) \/ StartRefused(w) \/ Verify(w) \/ Start(w) \/ Restart(w)
      PROVE  SingleInv'
  BY <1>9 DEF CommandFails, StartRefused, Verify, Start, Restart, budgets
<1>10. ASSUME UNCHANGED vars PROVE SingleInv'
  BY <1>10 DEF vars, manager, budgets
<1> QED
  BY <1>1, <1>2, <1>3, <1>4, <1>5, <1>6, <1>7, <1>8, <1>9, <1>10 DEF Next

(* Until the first command there is one sing-box process at most, for any    *)
(* number of crashes of the process and of the agent.                        *)
THEOREM OneProcessUntilCommand == Spec => []SingleUntilCommand
<1>1. Init => SingleInv
  BY SingleInit
<1>2. WatchInv /\ SingleInv /\ [Next]_vars => SingleInv'
  BY SingleStep
<1>3. SingleInv => SingleUntilCommand
  <2> SUFFICES ASSUME alive \subseteq {pidFile} PROVE Cardinality(alive) <= 1
    BY DEF SingleInv, PidFileNames, SingleUntilCommand
  <2>1. IsFiniteSet({pidFile}) /\ Cardinality({pidFile}) = 1
    BY FS_Singleton
  <2> QED BY <2>1, FS_Subset
<1> QED BY <1>1, <1>2, <1>3, WatchInvariant, PTL DEF Spec
=============================================================================
