------------------------------ MODULE IPOptTask ------------------------------
(***************************************************************************)
(* The speed test that looks for good Cloudflare addresses: the task part  *)
(* of internal/service/cf_ipopt.go.                                        *)
(*                                                                         *)
(* A start makes a goroutine, which runs the program cfst, reads what it   *)
(* prints, and waits for its end, a request to stop or 20 minutes.  The    *)
(* state shown to the user, the command and the stop channel are globals:  *)
(* a goroutine that is still there when the next task starts shares them   *)
(* with the new one.  From the assignment of the command to the wait for   *)
(* its end a goroutine is taken to do one step, and a task has an id of    *)
(* its own (the code takes the second of the start).                       *)
(*                                                                         *)
(* The log lines kept for the page and the log files are left out, and the *)
(* program is taken to be installed.                                       *)
(***************************************************************************)
EXTENDS Naturals, FiniteSets

CONSTANTS
  MaxTask,  \* bound: tasks started
  MaxEnd,   \* bound: ends of the panel
  Word,     \* names of phases that cfst prints
  Bar,      \* percentages that its bars show
  None

ASSUME TaskAssumption == MaxTask \in Nat /\ MaxEnd \in Nat
ASSUME WordAssumption == Word \subseteq {"latency", "download", "result"}
ASSUME BarAssumption == Bar \subseteq 0 .. 100

Task == 1 .. MaxTask

ASSUME NoTaskAssumption == None \notin Task

VARIABLES
  status,   \* cfIPOptState.Status
  owner,    \* cfIPOptState.TaskID, and the number of its channel cfIPOptStopChan
  progress, \* cfIPOptState.Progress
  cmd,      \* the task whose command cfIPOptCmd is, or None
  closed,   \* stop channels that are closed
  pc,       \* where each goroutine is
  hears,    \* the stop channel that each goroutine waits on, or None
  proc,     \* the process of each task
  prints,   \* tasks whose output is still being read
  csv,      \* a result.csv is there, of whichever task: none is ever removed
  result,   \* the task that saved latest_result.json, or None
  raced,    \* history: a task was started while another had not ended altogether
  unheard,  \* history: tasks stopped before their process, or left by a dead panel
  ends      \* number of ends of the panel

stateVars == <<status, owner, progress>>
taskVars == <<stateVars, cmd, closed, pc, hears, proc, prints, csv, result, raced, unheard, ends>>

Final == {"completed", "failed", "stopped"}
Active == {"prepare", "select", "collect"}
Live == {t \in Task : proc[t] = "runs"}

TaskTypeOK ==
  /\ status \in {"idle", "running"} \cup Final /\ owner \in Task \cup {None}
  /\ progress \in 0 .. 100
  /\ cmd \in Task \cup {None} /\ closed \subseteq Task
  /\ pc \in [Task -> {"new", "end"} \cup Active]
  /\ hears \in [Task -> Task \cup {None}]
  /\ proc \in [Task -> {"none", "runs", "good", "bad"}]
  /\ prints \subseteq Task
  /\ csv \in BOOLEAN /\ result \in Task \cup {None}
  /\ raced \in BOOLEAN /\ unheard \subseteq Task /\ ends \in 0 .. MaxEnd

TaskInit ==
  /\ status = "idle" /\ owner = None /\ progress = 0
  /\ cmd = None /\ closed = {}
  /\ pc = [t \in Task |-> "new"] /\ hears = [t \in Task |-> None]
  /\ proc = [t \in Task |-> "none"] /\ prints = {}
  /\ csv = FALSE /\ result = None
  /\ raced = FALSE /\ unheard = {} /\ ends = 0
-----------------------------------------------------------------------------
(* The process in the global command is killed, if it is there and runs.    *)
Killed == [t \in Task |-> IF t = cmd /\ proc[t] = "runs" THEN "bad" ELSE proc[t]]

(* How a process ended is of interest only while its goroutine is there.    *)
Forgotten(p, t) == [p EXCEPT ![t] = IF @ = "runs" THEN "runs" ELSE "none"]

Ends(t, how) ==
  /\ status' = how
  /\ pc' = [pc EXCEPT ![t] = "end"] /\ hears' = [hears EXCEPT ![t] = None]
  /\ UNCHANGED owner

(* A task starts, unless one is running.  Tasks are numbered in turn.       *)
Start(t) ==
  /\ status # "running"
  /\ pc[t] = "new" /\ \A u \in Task : u < t => pc[u] # "new"
  /\ status' = "running" /\ owner' = t /\ progress' = 0
  /\ pc' = [pc EXCEPT ![t] = "prepare"]
  /\ raced' = (raced \/ prints # {} \/ \E u \in Task : pc[u] \in Active)
  /\ UNCHANGED <<cmd, closed, hears, proc, prints, csv, result, unheard, ends>>

(* Mutant: the state is left to the goroutine, which will hear the channel. *)
Stop_LeavesState ==
  /\ status = "running"
  /\ closed' = closed \cup {owner}
  /\ proc' = Killed
  /\ unheard' = unheard \cup {t \in {owner} : pc[t] = "prepare"}
  /\ UNCHANGED <<status, owner, progress, cmd, pc, hears, prints, csv, result, raced, ends>>

(* Mutant: only the channel is closed.                                      *)
Stop_KillsNothing ==
  /\ status = "running"
  /\ closed' = closed \cup {owner}
  /\ status' = "stopped"
  /\ unheard' = unheard \cup {t \in {owner} : pc[t] = "prepare"}
  /\ UNCHANGED <<owner, progress, cmd, pc, hears, proc, prints, csv, result, raced, ends>>

(* The request to stop closes the channel, kills and changes the state.     *)
Stop ==
  /\ status = "running"
  /\ closed' = closed \cup {owner}
  /\ proc' = Killed
  /\ status' = "stopped"
  /\ unheard' = unheard \cup {t \in {owner} : pc[t] = "prepare"}
  /\ UNCHANGED <<owner, progress, cmd, pc, hears, prints, csv, result, raced, ends>>

(* The goroutine makes its command the global one, starts it and waits on   *)
(* the global channel, stopped or not.                                      *)
Launch(t) ==
  /\ pc[t] = "prepare"
  /\ cmd' = t /\ hears' = [hears EXCEPT ![t] = owner]
  /\ proc' = [proc EXCEPT ![t] = "runs"] /\ prints' = prints \cup {t}
  /\ pc' = [pc EXCEPT ![t] = "select"]
  /\ UNCHANGED <<stateVars, closed, csv, result, raced, unheard, ends>>

(* Paths, pipes or the start fail: setTaskFailed.                           *)
LaunchFails(t) ==
  /\ pc[t] = "prepare"
  /\ cmd' \in {cmd, t}
  /\ Ends(t, "failed")
  /\ UNCHANGED <<progress, closed, proc, prints, csv, result, raced, unheard, ends>>

(* What a line makes of the percentage shown: the names of the phases set   *)
(* marks, a bar counts for the first half or for the second.                *)
Named(p, word) ==
  CASE word = "latency"  -> IF p < 5 THEN 5 ELSE p
    [] word = "download" -> 50
    [] word = "result"   -> 95

Drawn(p, bar) == IF p < 50 THEN bar \div 2 ELSE 50 + (bar * 4) \div 10

(* A line of any task's output changes the global percentage.               *)
Prints(t) ==
  /\ t \in prints
  /\ \/ \E word \in Word : progress' = Named(progress, word)
     \/ \E bar \in Bar : progress' = Drawn(progress, bar)
  /\ UNCHANGED <<status, owner, cmd, closed, pc, hears, proc, prints, csv, result, raced,
                 unheard, ends>>

(* Both pipes are at their end.                                             *)
Drained(t) ==
  /\ t \in prints /\ proc[t] # "runs"
  /\ prints' = prints \ {t}
  /\ UNCHANGED <<stateVars, cmd, closed, pc, hears, proc, csv, result, raced, unheard, ends>>

(* cfst ends: well, with a file of results or, when no address was good     *)
(* enough, without, or badly.  It may also hang.                            *)
Exits(t) ==
  /\ proc[t] = "runs"
  /\ \E how \in IF pc[t] = "end" THEN {"none"} ELSE {"good", "bad"} :
       /\ proc' = [proc EXCEPT ![t] = how]
       /\ csv' \in IF how = "bad" THEN {csv} ELSE {csv, TRUE}
  /\ UNCHANGED <<stateVars, cmd, closed, pc, hears, prints, result, raced, unheard, ends>>

(* The three cases of the goroutine's select: the channel it waits on ...   *)
HearsStop(t) ==
  /\ pc[t] = "select" /\ hears[t] \in closed
  /\ Ends(t, "stopped") /\ proc' = Forgotten(proc, t)
  /\ UNCHANGED <<progress, cmd, closed, prints, csv, result, raced, unheard, ends>>

(* ... 20 minutes ...                                                       *)
TimesOut(t) ==
  /\ pc[t] = "select"
  /\ proc' = Forgotten(Killed, t)
  /\ Ends(t, "failed")
  /\ UNCHANGED <<progress, cmd, closed, prints, csv, result, raced, unheard, ends>>

(* ... and the end of the process, after which it waits for the output.     *)
HearsEnd(t) ==
  /\ pc[t] = "select" /\ proc[t] \in {"good", "bad"}
  /\ pc' = [pc EXCEPT ![t] = "collect"]
  /\ UNCHANGED <<stateVars, cmd, closed, hears, proc, prints, csv, result, raced, unheard, ends>>

Fails(t) ==
  /\ Ends(t, "failed")
  /\ UNCHANGED <<progress, result>>

(* parseAndSaveResult takes the file that is there, whoever wrote it.       *)
Completes(t) ==
  /\ proc[t] = "good" /\ csv
  /\ result' = t
  /\ Ends(t, "completed") /\ progress' = 100

(* The result is saved.  A file that cannot be read or saved, or that has   *)
(* no lines, is a failure, like a bad end.                                  *)
Collect(t) ==
  /\ pc[t] = "collect" /\ t \notin prints
  /\ Fails(t) \/ Completes(t)
  /\ proc' = Forgotten(proc, t)
  /\ UNCHANGED <<cmd, closed, prints, csv, raced, unheard, ends>>

(* Nothing of the tasks but their processes outlives the panel.             *)
PanelEnds ==
  /\ ends < MaxEnd /\ ends' = ends + 1
  /\ status' = "idle" /\ owner' = None /\ progress' = 0
  /\ cmd' = None
  /\ pc' = [t \in Task |-> IF pc[t] = "new" THEN "new" ELSE "end"]
  /\ hears' = [t \in Task |-> None]
  /\ proc' = [t \in Task |-> IF t \in Live THEN "runs" ELSE "none"]
  /\ prints' = {}
  /\ raced' = FALSE /\ unheard' = unheard \cup Live
  /\ UNCHANGED <<closed, csv, result>>

Goes(t) ==
  \/ Launch(t) \/ LaunchFails(t) \/ HearsStop(t) \/ TimesOut(t) \/ HearsEnd(t) \/ Collect(t)

TaskRuns == \E t \in Task : Goes(t) \/ Prints(t) \/ Drained(t) \/ Exits(t)

TaskNext == (\E t \in Task : Start(t)) \/ Stop \/ TaskRuns \/ PanelEnds

(* Goroutines go on, 20 minutes pass, and an output ends with its process.  *)
(* Nothing is assumed of cfst and of the users.                             *)
TaskFairSpec ==
  /\ TaskInit /\ [][TaskNext]_taskVars
  /\ \A t \in Task : WF_taskVars(Goes(t)) /\ WF_taskVars(Drained(t))
-----------------------------------------------------------------------------
(* What the page says of tasks is true.  A task said to be running has a    *)
(* goroutine that will end it, and its stop channel is open: a stop never   *)
(* closes a channel twice, which would panic, and no start is refused for   *)
(* good.  And, unless a task was started while another was ending, any cfst *)
(* that runs belongs to the task said to be running, but for those stopped  *)
(* before they were there and those that a dead panel left; a task said to  *)
(* be completed has saved its results and stays at 100 %.                   *)
TasksAreTrue ==
  /\ status = "running" => owner \notin closed /\ pc[owner] \in Active
  /\ ~raced => \A t \in Live \ unheard : owner = t /\ status = "running"
  /\ ~raced /\ status = "completed" => result = owner /\ progress = 100

(* Each task ends, even when cfst hangs, and so does its process, if the    *)
(* panel lives and a stop came in time.                                     *)
TasksEnd ==
  /\ status = "running" ~> status # "running"
  /\ \A t \in Task : t \in Live ~> (t \notin Live \/ raced \/ t \in unheard)
=============================================================================
