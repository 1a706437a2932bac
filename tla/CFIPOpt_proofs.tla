--------------------------- MODULE CFIPOpt_proofs ----------------------------
(***************************************************************************)
(* Theorems about IPOptTask and CFIPOpt: what the page says of the speed   *)
(* tests, of the schedule and of the lists is true, for any number of      *)
(* tasks, stops, requests, schedulers and ends of the panel, whatever cfst *)
(* prints and however it ends.                                             *)
(***************************************************************************)
EXTENDS CFIPOpt, TLAPS

TasksOK ==
  /\ status \in {"idle", "running"} \cup Final /\ owner \in Task \cup {None}
  /\ cmd \in Task \cup {None} /\ closed \subseteq Task
  /\ pc \in [Task -> {"new", "end"} \cup Active]
  /\ hears \in [Task -> Task \cup {None}]
  /\ proc \in [Task -> {"none", "runs", "good", "bad"}]
  /\ prints \subseteq Task /\ unheard \subseteq Task /\ raced \in BOOLEAN

(* The task said to be running is there and its channel is open; a task     *)
(* that has not started has neither a closed channel nor a process.         *)
OwnerInv ==
  /\ status = "running" => owner \in Task /\ owner \notin closed /\ pc[owner] \in Active
  /\ \A t \in Task : pc[t] = "new" => t \notin closed
  /\ \A t \in Task : pc[t] \in {"new", "prepare"} => proc[t] = "none"
  /\ \A t \in Task : pc[t] = "collect" => proc[t] # "runs"

(* As long as no task was started into the end of another one, the globals  *)
(* belong to the one task that is there.                                    *)
SoleInv ==
  ~raced =>
    /\ \A t \in Task : pc[t] \in Active => owner = t /\ status \in {"running", "stopped"}
    /\ prints \subseteq {owner}
    /\ \A t \in Task : pc[t] = "select" => hears[t] = t
    /\ \A t \in Task : pc[t] = "prepare" => status = "running" \/ t \in unheard
    /\ \A t \in Live \ unheard : owner = t /\ cmd = t /\ status = "running"
    /\ status = "completed" => result = owner /\ progress = 100 /\ prints = {}

TaskInv == TasksOK /\ OwnerInv /\ SoleInv

LEMMA TaskInvInit == TaskInit => TaskInv
<1> SUFFICES ASSUME TaskInit PROVE TaskInv
  OBVIOUS
<1>1. TasksOK
  BY DEF TaskInit, TasksOK, Final
<1>2. OwnerInv
  BY DEF TaskInit, OwnerInv
<1>3. SoleInv
  BY DEF TaskInit, SoleInv, Active, Live
<1> QED BY <1>1, <1>2, <1>3 DEF TaskInv

LEMMA TasksOKStep == TaskInv /\ [TaskNext]_taskVars => TasksOK'
<1> SUFFICES ASSUME TaskInv, [TaskNext]_taskVars PROVE TasksOK'
  OBVIOUS
<1> USE NoTaskAssumption DEF TaskInv, TasksOK, OwnerInv, SoleInv, Active, Final, Live, stateVars
<1>1. ASSUME NEW t \in Task, Start(t) PROVE TasksOK'
  BY <1>1 DEF Start
<1>2. ASSUME NEW t \in Task, Launch(t) PROVE TasksOK'
  BY <1>2 DEF Launch
<1>3. ASSUME NEW t \in Task, LaunchFails(t) PROVE TasksOK'
  BY <1>3 DEF LaunchFails, Ends
<1>4. ASSUME NEW t \in Task, HearsStop(t) PROVE TasksOK'
  BY <1>4 DEF HearsStop, Ends, Forgotten
<1>5. ASSUME NEW t \in Task, TimesOut(t) PROVE TasksOK'
  BY <1>5 DEF TimesOut, Ends, Forgotten, Killed
<1>6. ASSUME NEW t \in Task, HearsEnd(t) PROVE TasksOK'
  BY <1>6 DEF HearsEnd
<1>7. ASSUME NEW t \in Task, Collect(t) PROVE TasksOK'
  BY <1>7 DEF Collect, Fails, Completes, Ends, Forgotten
<1>8. ASSUME NEW t \in Task, Prints(t) PROVE TasksOK'
  BY <1>8 DEF Prints
<1>9. ASSUME NEW t \in Task, Drained(t) PROVE TasksOK'
  BY <1>9 DEF Drained
<1>10. ASSUME NEW t \in Task, Exits(t) PROVE TasksOK'
  BY <1>10 DEF Exits
<1>11. CASE Stop
  BY <1>11 DEF Stop, Killed
<1>12. CASE PanelEnds
  BY <1>12 DEF PanelEnds
<1>13. CASE UNCHANGED taskVars
  BY <1>13 DEF taskVars
<1> QED
  BY <1>1, <1>2, <1>3, <1>4, <1>5, <1>6, <1>7, <1>8, <1>9, <1>10, <1>11, <1>12, <1>13
  DEF TaskNext, TaskRuns, Goes

LEMMA OwnerInvStep == TaskInv /\ [TaskNext]_taskVars => OwnerInv'
<1> SUFFICES ASSUME TaskInv, [TaskNext]_taskVars PROVE OwnerInv'
  OBVIOUS
<1> USE NoTaskAssumption DEF TaskInv, TasksOK, OwnerInv, SoleInv, Active, Final, Live, stateVars
<1>1. ASSUME NEW t \in Task, Start(t) PROVE OwnerInv'
  BY <1>1 DEF Start
<1>2. ASSUME NEW t \in Task, Launch(t) PROVE OwnerInv'
  BY <1>2 DEF Launch
<1>3. ASSUME NEW t \in Task, LaunchFails(t) PROVE OwnerInv'
  BY <1>3 DEF LaunchFails, Ends
<1>4. ASSUME NEW t \in Task, HearsStop(t) PROVE OwnerInv'
  BY <1>4 DEF HearsStop, Ends, Forgotten
<1>5. ASSUME NEW t \in Task, TimesOut(t) PROVE OwnerInv'
  BY <1>5 DEF TimesOut, Ends, Forgotten, Killed
<1>6. ASSUME NEW t \in Task, HearsEnd(t) PROVE OwnerInv'
  BY <1>6 DEF HearsEnd
<1>7. ASSUME NEW t \in Task, Collect(t) PROVE OwnerInv'
  BY <1>7 DEF Collect, Fails, Completes, Ends, Forgotten
<1>8. ASSUME NEW t \in Task, Prints(t) PROVE OwnerInv'
  BY <1>8 DEF Prints
<1>9. ASSUME NEW t \in Task, Drained(t) PROVE OwnerInv'
  BY <1>9 DEF Drained
<1>10. ASSUME NEW t \in Task, Exits(t) PROVE OwnerInv'
  BY <1>10 DEF Exits
<1>11. CASE Stop
  BY <1>11 DEF Stop, Killed
<1>12. CASE PanelEnds
  BY <1>12 DEF PanelEnds
<1>13. CASE UNCHANGED taskVars
  BY <1>13 DEF taskVars
<1> QED
  BY <1>1, <1>2, <1>3, <1>4, <1>5, <1>6, <1>7, <1>8, <1>9, <1>10, <1>11, <1>12, <1>13
  DEF TaskNext, TaskRuns, Goes

LEMMA SoleInvStep == TaskInv /\ [TaskNext]_taskVars => SoleInv'
<1> SUFFICES ASSUME TaskInv, [TaskNext]_taskVars PROVE SoleInv'
  OBVIOUS
<1> USE NoTaskAssumption DEF TaskInv, TasksOK, OwnerInv, SoleInv, Active, Final, Live, stateVars
<1>1. ASSUME NEW t \in Task, Start(t) PROVE SoleInv'
  <2>1. SUFFICES ASSUME ~raced' PROVE SoleInv'
    OBVIOUS
  <2>2. ~raced /\ prints = {} /\ \A u \in Task : pc[u] \notin Active
    BY <1>1, <2>1 DEF Start
  <2>3. \A u \in Task : u \in unheard \/ proc[u] # "runs"
    BY <1>1, <2>2 DEF Start
  <2> QED BY <1>1, <2>1, <2>2, <2>3 DEF Start
<1>2. ASSUME NEW t \in Task, Launch(t) PROVE SoleInv'
  BY <1>2 DEF Launch
<1>3. ASSUME NEW t \in Task, LaunchFails(t) PROVE SoleInv'
  BY <1>3 DEF LaunchFails, Ends
<1>4. ASSUME NEW t \in Task, HearsStop(t) PROVE SoleInv'
  BY <1>4 DEF HearsStop, Ends, Forgotten
<1>5. ASSUME NEW t \in Task, TimesOut(t) PROVE SoleInv'
  BY <1>5 DEF TimesOut, Ends, Forgotten, Killed
<1>6. ASSUME NEW t \in Task, HearsEnd(t) PROVE SoleInv'
  BY <1>6 DEF HearsEnd
<1>7. ASSUME NEW t \in Task, Collect(t) PROVE SoleInv'
  BY <1>7 DEF Collect, Fails, Completes, Ends, Forgotten
<1>8. ASSUME NEW t \in Task, Prints(t) PROVE SoleInv'
  BY <1>8 DEF Prints
<1>9. ASSUME NEW t \in Task, Drained(t) PROVE SoleInv'
  BY <1>9 DEF Drained
<1>10. ASSUME NEW t \in Task, Exits(t) PROVE SoleInv'
  BY <1>10 DEF Exits
<1>11. CASE Stop
  BY <1>11 DEF Stop, Killed
<1>12. CASE PanelEnds
  BY <1>12 DEF PanelEnds
<1>13. CASE UNCHANGED taskVars
  BY <1>13 DEF taskVars
<1> QED
  BY <1>1, <1>2, <1>3, <1>4, <1>5, <1>6, <1>7, <1>8, <1>9, <1>10, <1>11, <1>12, <1>13
  DEF TaskNext, TaskRuns, Goes

LEMMA TaskInvStep == TaskInv /\ [TaskNext]_taskVars => TaskInv'
  BY TasksOKStep, OwnerInvStep, SoleInvStep DEF TaskInv

(* What the page says of the tasks is true: a task said to be running has a *)
(* goroutine and an open channel, the cfst that runs belongs to it, and the *)
(* results of a task said to be complete are its own.                       *)
THEOREM TasksAlwaysTrue == TaskFairSpec => []TasksAreTrue
<1>1. TaskInv => TasksAreTrue
  BY DEF TaskInv, OwnerInv, SoleInv, TasksAreTrue
<1>2. TaskInv /\ [TaskNext]_taskVars => TaskInv'
  BY TaskInvStep
<1> QED BY TaskInvInit, <1>1, <1>2, PTL DEF TaskFairSpec
-----------------------------------------------------------------------------
(* The steps of the tasks are those of IPOptTask, whatever the pages and the *)
(* schedule do.                                                              *)
LEMMA NextIsTaskNext == [Next]_vars => [TaskNext]_taskVars
<1> USE DEF PageVars, settingVars, schedVars, requestVars
<1>1. ASSUME NEW r \in Request, Arrival(r) PROVE UNCHANGED taskVars
  BY <1>1 DEF Arrival, Arrives, EditReads, DefaultReads, SettingsArrive, ApplyReads, PriorityArrives
<1>2. ASSUME NEW r \in Request, Handle(r) PROVE UNCHANGED taskVars
  BY <1>2 DEF Handle, EditWrites, DeleteEnds, DefaultWrites, SettingsWrite, SettingsEnd, ApplyWrites,
     PriorityWrites, PriorityEnds
<1>3. ASSUME NEW g \in Scheduler, Schedules(g) \/ SchedulerHears(g) \/ Ticks(g) PROVE [TaskNext]_taskVars
  BY <1>3 DEF Schedules, Awakes, Triggers, Skips, SchedulerHears, Ticks, TaskNext
<1>4. UserStarts \/ UserStops \/ TaskSteps \/ Restart \/ Hour => [TaskNext]_taskVars
  BY DEF UserStarts, UserStops, TaskSteps, Restart, Hour, TaskNext
<1>5. UNCHANGED vars => UNCHANGED taskVars
  BY DEF vars
<1> QED BY <1>1, <1>2, <1>3, <1>4, <1>5 DEF Next

(* So the page tells the truth about the tasks that a schedule starts, too.  *)
THEOREM ScheduledTasksAlwaysTrue == Spec => []TasksAreTrue
<1>1. Init => TaskInv
  BY TaskInvInit DEF Init
<1>2. TaskInv /\ [Next]_vars => TaskInv'
  BY NextIsTaskNext, TaskInvStep
<1>3. TaskInv => TasksAreTrue
  BY DEF TaskInv, OwnerInv, SoleInv, TasksAreTrue
<1> QED BY <1>1, <1>2, <1>3, PTL DEF Spec
-----------------------------------------------------------------------------
(* The schedule that is on runs: its own goroutine waits on the channel that *)
(* a stop will close.                                                        *)
RunsInv ==
  /\ sched \in [Scheduler -> Goroutine \cup {None}] /\ shut \subseteq Scheduler
  /\ every \in Interval
  /\ \A g \in Scheduler : sched[g] # None => channel \in Scheduler
  /\ on => /\ channel \in Scheduler /\ channel \notin shut
           /\ sched[channel] # None /\ sched[channel].hears = channel
           /\ ~missed => \A g \in Scheduler : sched[g] # None => g = channel

(* What a handler has read is still so, when it is the only one.             *)
Reads(r) ==
  LET q == request[r] IN
  /\ q.kind \in ListKind /\ q.step = "write" => q.x.new = Edited(q.x.list, q.kind, q.x.entry)
  /\ q.kind = "default" => q.x \in list["urls"].in \cup {None}
  /\ q.kind = "settings" /\ q.step = "last" => q.x.every = every
  /\ q.kind = "apply" => q.x.every = every

(* Between the two writes of a handler the settings may disagree.            *)
SettingsInv ==
  ~met =>
    /\ \A r, q \in Request : request[r] # None /\ request[q] # None => r = q
    /\ \A r \in Request : request[r] # None => Reads(r)
    /\ on /\ every = 0 => \E r \in Request : At(r, "settings", "last")
    /\ \/ default \in list["urls"].in \cup {None}
       \/ \E r \in Request : At(r, "delete", "last") /\ default = request[r].x.entry

RequestsInv ==
  /\ request \in [Request -> Handler \cup {None}]
  /\ list \in [Lists -> Entries]

PageInv == RunsInv /\ RequestsInv /\ SettingsInv

LEMMA PageInit == Init => PageInv
  BY IntervalAssumption DEF Init, PageInv, RunsInv, RequestsInv, SettingsInv, Entries, Lists

(* What a handler is about to write, by its kind.                            *)
LEMMA HandlerType ==
  ASSUME NEW q \in Handler
  PROVE  /\ q.kind \in ListKind \cup {"default", "settings", "apply", "priority"} /\ q.step \in Step
         /\ q.kind \in ListKind => q.x \in [list : Lists, entry : Entry, new : Entries]
         /\ q.kind = "default" => q.x \in Entry \cup {None}
         /\ q.kind \in {"settings", "apply"} => q.x.every \in Interval
         /\ [q EXCEPT !.step = "last"] \in Handler
         /\ [q EXCEPT !.step = "last"].step = "last"
         /\ [q EXCEPT !.step = "last"].kind = q.kind
         /\ [q EXCEPT !.step = "last"].x = q.x
<1>1. CASE q \in [kind : ListKind, step : Step, x : [list : Lists, entry : Entry, new : Entries]]
  BY <1>1 DEF Handler, ListKind, Step
<1>2. CASE q \in [kind : {"default"}, step : Step, x : Entry \cup {None}]
  BY <1>2 DEF Handler, ListKind, Step
<1>3. CASE q \in [kind : {"settings", "apply"}, step : Step, x : [every : Interval, apply : BOOLEAN]]
  BY <1>3 DEF Handler, ListKind, Step
<1>4. CASE q \in [kind : {"priority"}, step : Step, x : BOOLEAN]
  BY <1>4 DEF Handler, ListKind, Step
<1> QED BY <1>1, <1>2, <1>3, <1>4 DEF Handler

(* Steps that leave the schedule, or the requests and settings, as they are. *)
LEMMA RunsSame ==
  ASSUME RunsInv, UNCHANGED <<schedVars, every>> PROVE RunsInv'
  BY DEF RunsInv, schedVars

LEMMA SettingsSame ==
  ASSUME RequestsInv, SettingsInv, UNCHANGED <<request, met, list, default, every, on>>
  PROVE  RequestsInv' /\ SettingsInv'
  BY DEF RequestsInv, SettingsInv, Reads, Edited, At

LEMMA EditedType ==
  ASSUME list \in [Lists -> Entries], NEW l \in Lists, NEW kind \in ListKind, NEW e \in Entry
  PROVE  Edited(l, kind, e) \in Entries
<1>1. list[l] \in Entries
  OBVIOUS
<1> QED BY <1>1 DEF Edited, Entries, ListKind

LEMMA StartsRuns ==
  ASSUME RunsInv, SchedulerStarts, UNCHANGED every
  PROVE  RunsInv' /\ (on' => on \/ every # 0) /\ (on => on')
<1>1. CASE on \/ every = 0
  BY <1>1, RunsSame DEF SchedulerStarts, schedVars
<1>2. CASE ~on /\ every # 0
  <2>1. PICK g \in Scheduler : /\ Free(g)
                              /\ on' = TRUE /\ channel' = g
                              /\ sched' = [sched EXCEPT ![g] = [at |-> "wait", every |-> every,
                                                                aligned |-> FALSE, hears |-> g]]
                              /\ shut' = shut \ {g}
                              /\ missed' = (missed \/ \E f \in Scheduler : sched[f] # None)
    BY <1>2 DEF SchedulerStarts
  <2> DEFINE new == [at |-> "wait", every |-> every, aligned |-> FALSE, hears |-> g]
  <2>2. new \in Goroutine /\ new # None /\ new.hears = g
    <3>1. every \in Interval
      BY DEF RunsInv
    <3>2. new \in Goroutine
      BY <3>1 DEF Goroutine
    <3> QED BY <3>2, NoGoroutineAssumption
  <2>3. sched' = [sched EXCEPT ![g] = new]
    BY <2>1
  <2> HIDE DEF new
  <2>4. sched' \in [Scheduler -> Goroutine \cup {None}] /\ sched'[g] = new
    BY <2>2, <2>3 DEF RunsInv
  <2>5. ~missed' => \A f \in Scheduler : sched'[f] # None => f = g
    BY <2>1, <2>3 DEF RunsInv
  <2> QED BY <1>2, <2>1, <2>2, <2>4, <2>5 DEF RunsInv
<1> QED BY <1>1, <1>2

LEMMA StopsRuns ==
  ASSUME RunsInv, SchedulerStops, UNCHANGED every
  PROVE  RunsInv' /\ ~on'
  BY DEF RunsInv, SchedulerStops

(* A goroutine that goes round its loop waits on the channel there is.       *)
LEMMA LoopsRuns ==
  ASSUME RunsInv, NEW g \in Scheduler, sched[g] # None, NEW aligned \in BOOLEAN, Loops(g, aligned),
         UNCHANGED <<on, channel, shut, missed, every>>
  PROVE  RunsInv'
<1>1. sched[g] \in Goroutine /\ channel \in Scheduler
  BY DEF RunsInv
<1>2. sched'[g] = [sched[g] EXCEPT !.at = "loop", !.aligned = aligned, !.hears = channel]
  BY DEF Loops, RunsInv
<1>3. sched'[g] \in Goroutine /\ sched'[g].hears = channel
  BY <1>1, <1>2 DEF Goroutine
<1>4. DOMAIN sched' = Scheduler /\ \A f \in Scheduler : f # g => sched'[f] = sched[f]
  BY DEF Loops, RunsInv
<1>5. sched'[g] # None
  BY <1>3, NoGoroutineAssumption
<1>6. sched' \in [Scheduler -> Goroutine \cup {None}]
  <2>1. sched' = [f \in Scheduler |-> sched'[f]]
    BY DEF Loops, RunsInv
  <2> QED BY <1>3, <1>4, <2>1 DEF RunsInv
<1> QED BY <1>1, <1>3, <1>4, <1>5, <1>6 DEF RunsInv

LEMMA RunsStep == RunsInv /\ RequestsInv /\ [Next]_vars => RunsInv'
<1> SUFFICES ASSUME RunsInv, RequestsInv, [Next]_vars PROVE RunsInv'
  OBVIOUS
<1> USE DEF settingVars, schedVars, requestVars, PageVars
<1>1. ASSUME NEW r \in Request, Arrival(r) PROVE RunsInv'
  BY <1>1, RunsSame DEF Arrival, EditReads, DefaultReads, SettingsArrive, ApplyReads, PriorityArrives, Arrives
<1>2. ASSUME NEW r \in Request, Handle(r) PROVE RunsInv'
  <2>1. CASE (\E kind \in ListKind : EditWrites(r, kind)) \/ DeleteEnds(r) \/ DefaultWrites(r) \/ PriorityWrites(r)
    BY <2>1, RunsSame DEF EditWrites, DeleteEnds, DefaultWrites, PriorityWrites
  <2>2. CASE SettingsWrite(r) \/ ApplyWrites(r)
    <3>1. every' \in Interval
      BY <2>2, HandlerType DEF SettingsWrite, ApplyWrites, At, RequestsInv
    <3> QED BY <2>2, <3>1 DEF SettingsWrite, ApplyWrites, RunsInv
  <2>3. CASE SettingsEnd(r) \/ PriorityEnds(r)
    BY <2>3, StartsRuns, StopsRuns DEF SettingsEnd, PriorityEnds
  <2> QED BY <1>2, <2>1, <2>2, <2>3 DEF Handle
<1>3. ASSUME NEW g \in Scheduler, Awakes(g) PROVE RunsInv'
  <2>1. sched[g] \in Goroutine
    BY <1>3 DEF Awakes, In, RunsInv
  <2>2. /\ sched'[g] = [sched[g] EXCEPT !.at = "first"]
        /\ \A f \in Scheduler : f # g => sched'[f] = sched[f]
    BY <1>3 DEF Awakes, RunsInv
  <2>3. sched'[g] \in Goroutine /\ sched'[g].hears = sched[g].hears
    BY <2>1, <2>2 DEF Goroutine
  <2>4. sched'[g] # None /\ sched[g] # None
    BY <2>1, <2>3, NoGoroutineAssumption
  <2>5. sched' \in [Scheduler -> Goroutine \cup {None}]
    <3>1. sched' = [f \in Scheduler |-> sched'[f]]
      BY <1>3 DEF Awakes, RunsInv
    <3> QED BY <2>2, <2>3, <3>1 DEF RunsInv
  <2> QED BY <1>3, <2>2, <2>3, <2>4, <2>5 DEF Awakes, RunsInv
<1>4. ASSUME NEW g \in Scheduler, Triggers(g) \/ Skips(g) \/ Ticks(g) PROVE RunsInv'
  <2>1. sched[g] # None /\ sched[g] \in Goroutine
    BY <1>4 DEF Triggers, Skips, Ticks, In, RunsInv
  <2>2. PICK aligned \in BOOLEAN : Loops(g, aligned)
    BY <1>4, <2>1 DEF Triggers, Skips, Ticks, Goroutine
  <2>3. UNCHANGED <<on, channel, shut, missed, every>>
    BY <1>4 DEF Triggers, Skips, Ticks
  <2> QED BY <2>1, <2>2, <2>3, LoopsRuns
<1>5. ASSUME NEW g \in Scheduler, SchedulerHears(g) PROVE RunsInv'
  BY <1>5 DEF SchedulerHears, RunsInv, In
<1>6. CASE Hour
  <2>1. /\ sched' = [g \in Scheduler |->
                      IF In(g, "loop") /\ sched[g].aligned THEN [sched[g] EXCEPT !.at = "hour"] ELSE sched[g]]
        /\ UNCHANGED <<on, channel, shut, missed, every>>
    BY <1>6 DEF Hour
  <2>2. ASSUME NEW g \in Scheduler
        PROVE  /\ sched'[g] \in Goroutine \cup {None} /\ (sched'[g] # None <=> sched[g] # None)
               /\ sched[g] # None => sched'[g].hears = sched[g].hears
    <3>1. CASE sched[g] = None
      BY <2>1, <3>1 DEF In
    <3>2. CASE sched[g] # None
      <4>1. sched[g] \in Goroutine
        BY <3>2 DEF RunsInv
      <4>2. sched'[g] \in {sched[g], [sched[g] EXCEPT !.at = "hour"]}
        BY <2>1
      <4>3. sched'[g] \in Goroutine /\ sched'[g].hears = sched[g].hears
        BY <4>1, <4>2 DEF Goroutine
      <4> QED BY <3>2, <4>3, NoGoroutineAssumption
    <3> QED BY <3>1, <3>2
  <2>3. sched' \in [Scheduler -> Goroutine \cup {None}]
    BY <2>1, <2>2
  <2> QED BY <2>1, <2>2, <2>3 DEF RunsInv
<1>7. CASE UserStarts \/ UserStops \/ TaskSteps \/ UNCHANGED vars
  BY <1>7, RunsSame DEF UserStarts, UserStops, TaskSteps, vars
<1>8. CASE Restart
  BY <1>8 DEF Restart, RunsInv
<1> QED BY <1>1, <1>2, <1>3, <1>4, <1>5, <1>6, <1>7, <1>8 DEF Next, Schedules

(* A handler is the only one, as long as none has overlapped.                *)
LEMMA OnlyOne ==
  ASSUME SettingsInv, ~met, NEW r \in Request, request[r] # None
  PROVE  /\ \A q \in Request : request[q] # None => q = r
         /\ Reads(r)
         /\ on /\ every = 0 => At(r, "settings", "last")
         /\ \/ default \in list["urls"].in \cup {None}
            \/ At(r, "delete", "last") /\ default = request[r].x.entry
  BY DEF SettingsInv, At

(* A handler that is done leaves nothing half written ...                    *)
LEMMA DoneKeeps ==
  ASSUME RequestsInv, SettingsInv, NEW r \in Request, request[r] # None, Done(r),
         list' \in [Lists -> Entries],
         ~met => (on' => every' # 0) /\ default' \in list'["urls"].in \cup {None}
  PROVE  RequestsInv' /\ SettingsInv'
<1>1. request' = [request EXCEPT ![r] = None] /\ met' = met
  BY DEF Done
<1>2. RequestsInv'
  BY <1>1 DEF RequestsInv
<1>3. ASSUME ~met' PROVE \A q \in Request : request'[q] = None
  BY <1>1, <1>3, OnlyOne DEF RequestsInv
<1>4. SettingsInv'
  BY <1>1, <1>3 DEF SettingsInv
<1> QED BY <1>2, <1>4

(* ... and one that goes on leaves what its last step will set right.        *)
LEMMA ContinuesKeeps ==
  ASSUME RequestsInv, SettingsInv, NEW r \in Request, request[r] # None, Continues(r),
         request[r].step = "write", request[r].kind # "default", request[r].kind # "apply",
         list' \in [Lists -> Entries],
         request[r].kind = "settings" => request[r].x.every = every',
         ~met => /\ on' /\ every' = 0 => request[r].kind = "settings"
                 /\ \/ default' \in list'["urls"].in \cup {None}
                    \/ request[r].kind = "delete" /\ default' = request[r].x.entry
  PROVE  RequestsInv' /\ SettingsInv'
<1>1. request' = [request EXCEPT ![r].step = "last"] /\ met' = met
  BY DEF Continues
<1> DEFINE new == [request[r] EXCEPT !.step = "last"]
<1>2. request[r] \in Handler
  BY DEF RequestsInv
<1>3. /\ new \in Handler /\ new # None
      /\ new.kind = request[r].kind /\ new.step = "last" /\ new.x = request[r].x
  BY <1>2, HandlerType, NoHandlerAssumption
<1>4. request' = [request EXCEPT ![r] = new]
  BY <1>1
<1> HIDE DEF new
<1>5. request'[r] = new /\ \A q \in Request : q # r => request'[q] = request[q]
  BY <1>4 DEF RequestsInv
<1>6. RequestsInv'
  BY <1>3, <1>4 DEF RequestsInv
<1>7. SettingsInv'
  <2>1. SUFFICES ASSUME ~met PROVE SettingsInv'
    BY <1>1 DEF SettingsInv
  <2>2. \A q \in Request : request'[q] # None => q = r
    BY <1>5, <2>1, OnlyOne
  <2>3. Reads(r)'
    BY <1>3, <1>5 DEF Reads, ListKind
  <2>4. on' /\ every' = 0 => At(r, "settings", "last")'
    BY <1>3, <1>5, <2>1 DEF At
  <2>5. \/ default' \in list'["urls"].in \cup {None}
        \/ At(r, "delete", "last")' /\ default' = request'[r].x.entry
    BY <1>3, <1>5, <2>1 DEF At
  <2> QED BY <2>2, <2>3, <2>4, <2>5 DEF SettingsInv
<1> QED BY <1>6, <1>7

(* A handler arrives with what it has read, which nobody has changed yet.    *)
ReadsNow(k, x) ==
  /\ [kind |-> k, step |-> "write", x |-> x] \in Handler
  /\ k \in ListKind => x.new = Edited(x.list, k, x.entry)
  /\ k = "default" => x \in list["urls"].in \cup {None}
  /\ k = "apply" => x.every = every

LEMMA ArrivalReads ==
  ASSUME RequestsInv, every \in Interval, NEW r \in Request, Arrival(r)
  PROVE  \E k, x : Arrives(r, k, x) /\ ReadsNow(k, x)
<1>1. ASSUME NEW l \in Lists, NEW kind \in ListKind, NEW e \in Entry, EditReads(r, l, kind, e)
      PROVE  \E k, x : Arrives(r, k, x) /\ ReadsNow(k, x)
  <2> DEFINE x == [list |-> l, entry |-> e, new |-> Edited(l, kind, e)]
  <2>1. x \in [list : Lists, entry : Entry, new : Entries] /\ x.new = Edited(x.list, kind, x.entry)
    BY EditedType DEF RequestsInv
  <2>2. Arrives(r, kind, x)
    BY <1>1 DEF EditReads
  <2> HIDE DEF x
  <2>3. [kind |-> kind, step |-> "write", x |-> x] \in Handler
    BY <2>1 DEF Handler, Step
  <2>4. ReadsNow(kind, x)
    BY <2>1, <2>3 DEF ListKind, ReadsNow
  <2> QED BY <2>2, <2>4
<1>2. ASSUME NEW e \in Entry \cup {None}, DefaultReads(r, e)
      PROVE  \E k, x : Arrives(r, k, x) /\ ReadsNow(k, x)
  <2>1. ReadsNow("default", e)
    BY <1>2 DEF DefaultReads, ReadsNow, Handler, Step, ListKind
  <2> QED BY <1>2, <2>1 DEF DefaultReads
<1>3. ASSUME NEW i \in Interval, NEW a \in BOOLEAN, SettingsArrive(r, i, a)
      PROVE  \E k, x : Arrives(r, k, x) /\ ReadsNow(k, x)
  <2>1. ReadsNow("settings", [every |-> i, apply |-> a])
    BY DEF ReadsNow, Handler, Step, ListKind
  <2> QED BY <1>3, <2>1 DEF SettingsArrive
<1>4. ASSUME NEW a \in BOOLEAN, ApplyReads(r, a)
      PROVE  \E k, x : Arrives(r, k, x) /\ ReadsNow(k, x)
  <2>1. ReadsNow("apply", [every |-> every, apply |-> a])
    BY DEF ReadsNow, Handler, Step, ListKind
  <2> QED BY <1>4, <2>1 DEF ApplyReads
<1>5. ASSUME NEW p \in BOOLEAN, PriorityArrives(r, p)
      PROVE  \E k, x : Arrives(r, k, x) /\ ReadsNow(k, x)
  <2>1. ReadsNow("priority", p)
    BY DEF ReadsNow, Handler, Step, ListKind
  <2> QED BY <1>5, <2>1 DEF PriorityArrives
<1> QED BY <1>1, <1>2, <1>3, <1>4, <1>5 DEF Arrival

LEMMA ArrivalKeeps ==
  ASSUME RequestsInv, SettingsInv, every \in Interval, NEW r \in Request, Arrival(r)
  PROVE  RequestsInv' /\ SettingsInv'
<1>1. PICK k, x : Arrives(r, k, x) /\ ReadsNow(k, x)
  BY ArrivalReads
<1> DEFINE new == [kind |-> k, step |-> "write", x |-> x]
<1>2. new \in Handler /\ new.kind = k /\ new.step = "write" /\ new.x = x
  BY <1>1 DEF ReadsNow
<1>3. request' = [request EXCEPT ![r] = new] /\ UNCHANGED <<list, every, on, default>>
  BY <1>1 DEF Arrives, schedVars
<1> HIDE DEF new
<1>4. RequestsInv'
  BY <1>2, <1>3 DEF RequestsInv
<1>5. SettingsInv'
  <2>1. SUFFICES ASSUME ~met' PROVE SettingsInv'
    BY DEF SettingsInv
  <2>2. ~met /\ \A q \in Request : request[q] = None
    BY <1>1, <2>1 DEF Arrives, Busy
  <2>3. request'[r] = new /\ \A q \in Request : q # r => request'[q] = None
    BY <1>3, <2>2 DEF RequestsInv
  <2>4. Reads(r)'
    BY <1>1, <1>2, <1>3, <2>3 DEF Reads, ReadsNow, Edited
  <2>5. (on => every # 0) /\ default \in list["urls"].in \cup {None}
    BY <2>2 DEF SettingsInv, At
  <2> QED BY <1>3, <2>3, <2>4, <2>5 DEF SettingsInv
<1> QED BY <1>4, <1>5

LEMMA HandleKeeps ==
  ASSUME RequestsInv, SettingsInv, RunsInv, NEW r \in Request, Handle(r)
  PROVE  RequestsInv' /\ SettingsInv'
<1>1. request[r] # None /\ request[r] \in Handler
  BY DEF Handle, EditWrites, DeleteEnds, DefaultWrites, SettingsWrite, SettingsEnd, ApplyWrites,
     PriorityWrites, PriorityEnds, At, RequestsInv
<1>2. /\ request[r].step \in Step
      /\ request[r].kind \in ListKind =>
           request[r].x \in [list : Lists, entry : Entry, new : Entries]
      /\ request[r].kind = "default" => request[r].x \in Entry \cup {None}
  BY <1>1, HandlerType
<1>3. ~met => /\ Reads(r)
              /\ on /\ every = 0 => At(r, "settings", "last")
              /\ \/ default \in list["urls"].in \cup {None}
                 \/ At(r, "delete", "last") /\ default = request[r].x.entry
  BY <1>1, OnlyOne
<1>4. ASSUME NEW kind \in ListKind, EditWrites(r, kind) PROVE RequestsInv' /\ SettingsInv'
  <2> DEFINE x == request[r].x
  <2>1. /\ request[r].kind = kind /\ request[r].step = "write"
        /\ x.list \in Lists /\ x.entry \in Entry /\ x.new \in Entries
    BY <1>1, <1>2, <1>4 DEF EditWrites, At
  <2> HIDE DEF x
  <2>2. list' = [list EXCEPT ![x.list] = x.new] /\ UNCHANGED <<every, on, default>>
    BY <1>4 DEF EditWrites, schedVars, x
  <2>3. list' \in [Lists -> Entries]
    BY <2>1, <2>2 DEF RequestsInv
  <2>4. ~met => (on => every # 0) /\ x.new = Edited(x.list, kind, x.entry)
    BY <1>3, <2>1 DEF Reads, At, ListKind, x
  <2>5. ~met => default \in list["urls"].in \cup {None}
    BY <1>3, <2>1 DEF At, x
  <2>6. CASE kind = "delete" /\ x.list = "urls"
    <3>1. ~met => default \in list'["urls"].in \cup {None} \/ default = x.entry
      BY <2>1, <2>2, <2>3, <2>4, <2>5, <2>6 DEF Edited, RequestsInv
    <3> QED BY <1>1, <1>4, <2>1, <2>2, <2>3, <2>4, <2>6, <3>1, ContinuesKeeps DEF EditWrites, x
  <2>7. CASE ~(kind = "delete" /\ x.list = "urls")
    <3>1. ~met => list["urls"].in \subseteq list'["urls"].in
      BY <2>1, <2>2, <2>4, <2>7 DEF Edited, RequestsInv, Lists, ListKind, Entries
    <3> QED BY <1>1, <1>4, <2>2, <2>3, <2>4, <2>5, <2>7, <3>1, DoneKeeps DEF EditWrites, x
  <2> QED BY <2>6, <2>7
<1>5. CASE DeleteEnds(r)
  BY <1>1, <1>3, <1>5, DoneKeeps DEF DeleteEnds, At, schedVars, RequestsInv
<1>6. CASE DefaultWrites(r)
  BY <1>1, <1>3, <1>6, DoneKeeps DEF DefaultWrites, At, schedVars, RequestsInv, Reads
<1>7. CASE SettingsWrite(r)
  BY <1>1, <1>3, <1>7, ContinuesKeeps DEF SettingsWrite, At, schedVars, RequestsInv
<1>8. CASE SettingsEnd(r)
  <2>1. every \in 0 .. MaxAge /\ UNCHANGED <<every, list, default>> /\ At(r, "settings", "last") /\ Done(r)
    BY <1>8, IntervalAssumption DEF SettingsEnd, settingVars, RunsInv
  <2>2. ~met => request[r].x.every = every
    BY <1>3, <2>1 DEF Reads, At
  <2>3. ~met => (on' => every # 0)
    BY <1>8, <2>1, <2>2, StopsRuns DEF SettingsEnd
  <2>4. ~met => default \in list["urls"].in \cup {None}
    BY <1>3, <2>1 DEF At
  <2> QED BY <1>1, <2>1, <2>3, <2>4, DoneKeeps DEF RequestsInv
<1>9. CASE ApplyWrites(r)
  BY <1>1, <1>3, <1>9, DoneKeeps DEF ApplyWrites, At, schedVars, RequestsInv, Reads
<1>10. CASE PriorityWrites(r)
  BY <1>1, <1>3, <1>10, DoneKeeps, ContinuesKeeps DEF PriorityWrites, At, schedVars, RequestsInv
<1>11. CASE PriorityEnds(r)
  BY <1>1, <1>3, <1>11, DoneKeeps DEF PriorityEnds, SchedulerStops, At, settingVars, RequestsInv
<1> QED BY <1>4, <1>5, <1>6, <1>7, <1>8, <1>9, <1>10, <1>11 DEF Handle

LEMMA PageStep == PageInv /\ [Next]_vars => PageInv'
<1> SUFFICES ASSUME PageInv, [Next]_vars PROVE RequestsInv' /\ SettingsInv'
  BY RunsStep DEF PageInv
<1> USE DEF PageInv, settingVars, schedVars, requestVars, PageVars
<1>1. ASSUME NEW r \in Request, Arrival(r) PROVE RequestsInv' /\ SettingsInv'
  BY <1>1, ArrivalKeeps DEF RunsInv
<1>2. ASSUME NEW r \in Request, Handle(r) PROVE RequestsInv' /\ SettingsInv'
  BY <1>2, HandleKeeps
<1>3. ASSUME NEW g \in Scheduler, Schedules(g) \/ SchedulerHears(g) \/ Ticks(g)
      PROVE  RequestsInv' /\ SettingsInv'
  BY <1>3, SettingsSame DEF Schedules, Awakes, Triggers, Skips, SchedulerHears, Ticks
<1>4. CASE UserStarts \/ UserStops \/ TaskSteps \/ Hour \/ UNCHANGED vars
  BY <1>4, SettingsSame DEF UserStarts, UserStops, TaskSteps, Hour, vars
<1>5. CASE Restart
  BY <1>5 DEF Restart, RequestsInv, SettingsInv, Busy, At
<1> QED BY <1>1, <1>2, <1>3, <1>4, <1>5 DEF Next

LEMMA PageAlways == Spec => []PageInv
  BY PageInit, PageStep, PTL DEF Spec

(* A schedule that is said to be on has a goroutine, whose channel a stop    *)
(* can close, and no other, unless the one before was late to hear its stop; *)
(* and its interval is saved, unless requests overlapped.                    *)
THEOREM ScheduleAlwaysTrue == Spec => []ScheduleIsTrue
<1>1. PageInv => ScheduleIsTrue
  <2> SUFFICES ASSUME PageInv, on PROVE ScheduleIsTrue
    BY DEF ScheduleIsTrue
  <2>1. every \in 0 .. MaxAge
    BY IntervalAssumption DEF PageInv, RunsInv
  <2>2. ~Busy /\ ~met => every # 0
    BY DEF PageInv, SettingsInv, Busy, At
  <2>3. ~Busy /\ ~met => every > 0
    BY <2>1, <2>2
  <2> QED BY <2>3 DEF PageInv, RunsInv, ScheduleIsTrue
<1> QED BY PageAlways, <1>1, PTL

(* The default address is one of the list, unless requests overlapped.       *)
THEOREM DefaultAlwaysExists == Spec => []DefaultExists
<1>1. PageInv => DefaultExists
  BY DEF PageInv, SettingsInv, DefaultExists, Busy, At
<1> QED BY PageAlways, <1>1, PTL
-----------------------------------------------------------------------------
(* The rest of the types.  Whatever cfst prints, the percentage stays one.   *)
NumbersOK ==
  /\ progress \in 0 .. 100
  /\ csv \in BOOLEAN /\ result \in Task \cup {None} /\ ends \in 0 .. MaxEnd

LEMMA PercentageStays ==
  ASSUME NEW p \in 0 .. 100
  PROVE  /\ \A word \in Word : Named(p, word) \in 0 .. 100
         /\ \A bar \in Bar : Drawn(p, bar) \in 0 .. 100
<1>1. ASSUME NEW word \in Word PROVE Named(p, word) \in 0 .. 100
  BY WordAssumption DEF Named
<1>2. ASSUME NEW bar \in Bar PROVE Drawn(p, bar) \in 0 .. 100
  BY BarAssumption DEF Drawn
<1> QED BY <1>1, <1>2

LEMMA NumbersStep == NumbersOK /\ [TaskNext]_taskVars => NumbersOK'
<1> SUFFICES ASSUME NumbersOK, [TaskNext]_taskVars PROVE NumbersOK'
  OBVIOUS
<1> USE DEF NumbersOK, stateVars
<1>1. ASSUME NEW t \in Task, Prints(t) PROVE NumbersOK'
  <2>1. progress' \in 0 .. 100
    BY <1>1, PercentageStays DEF Prints
  <2> QED BY <1>1, <2>1 DEF Prints
<1>2. ASSUME NEW t \in Task, Exits(t) PROVE NumbersOK'
  BY <1>2 DEF Exits
<1>3. ASSUME NEW t \in Task, Start(t) \/ Drained(t) PROVE NumbersOK'
  BY <1>3 DEF Start, Drained
<1>4. ASSUME NEW t \in Task, Goes(t) PROVE NumbersOK'
  BY <1>4 DEF Goes, Launch, LaunchFails, HearsStop, TimesOut, HearsEnd, Collect, Fails, Completes
<1>5. CASE Stop \/ UNCHANGED taskVars
  BY <1>5 DEF Stop, taskVars
<1>6. CASE PanelEnds
  BY <1>6, TaskAssumption DEF PanelEnds
<1> QED BY <1>1, <1>2, <1>3, <1>4, <1>5, <1>6 DEF TaskNext, TaskRuns

LEMMA TaskTypes == TasksOK /\ NumbersOK => TaskTypeOK
  BY DEF TasksOK, NumbersOK, TaskTypeOK

(* Entries are enabled only if they are there, and have been given their id  *)
(* before; also in the copies that handlers are about to write.              *)
Listed(l) == l.on \subseteq l.in /\ l.in \subseteq used

ListsOK ==
  /\ used \subseteq Entry
  /\ \A l \in Lists : Listed(list[l])
  /\ \A r \in Request : request[r] # None /\ request[r].kind \in ListKind => Listed(request[r].x.new)

PagesOK ==
  /\ apply \in BOOLEAN /\ age \in 0 .. MaxAge \cup {None} /\ default \in Entry \cup {None}
  /\ priority \in BOOLEAN /\ on \in BOOLEAN /\ channel \in Scheduler \cup {None}
  /\ requests \in 0 .. MaxRequest /\ met \in BOOLEAN /\ missed \in BOOLEAN

LEMMA ListsStep == PageInv /\ ListsOK /\ [Next]_vars => ListsOK'
<1> SUFFICES ASSUME PageInv, ListsOK, [Next]_vars PROVE ListsOK'
  OBVIOUS
<1> USE DEF PageInv, RequestsInv, settingVars, schedVars, requestVars, PageVars
<1>1. ASSUME UNCHANGED <<used, list>>,
             \A r \in Request : request'[r] # None =>
               /\ request[r] # None /\ request'[r].kind = request[r].kind
               /\ request'[r].x = request[r].x
      PROVE  ListsOK'
  BY <1>1 DEF ListsOK, Listed
<1>2. ASSUME NEW r \in Request, Arrival(r) PROVE ListsOK'
  <2>1. CASE \E l \in Lists, kind \in ListKind, e \in Entry : EditReads(r, l, kind, e)
    <3> PICK l \in Lists, kind \in ListKind, e \in Entry : EditReads(r, l, kind, e)
      BY <2>1
    <3> DEFINE new == Edited(l, kind, e)
    <3> DEFINE q == [kind |-> kind, step |-> "write", x |-> [list |-> l, entry |-> e, new |-> new]]
    <3>1. used' = used \cup {e} /\ list' = list /\ request' = [request EXCEPT ![r] = q]
      BY DEF EditReads, Arrives
    <3>2. list[l] \in Entries /\ Listed(list[l]) /\ (kind # "add" => e \in list[l].in)
      BY DEF EditReads, ListsOK
    <3> DEFINE Fits(v) == v.on \subseteq v.in /\ v.in \subseteq used'
    <3>3. Fits(new)
      <4> DEFINE old == list[l]
      <4>0. old.on \subseteq old.in /\ old = [in |-> old.in, on |-> old.on]
        BY <3>2 DEF Listed, Entries
      <4>1. new.on \subseteq new.in /\ new.in \subseteq old.in \cup {e}
        <5>1. CASE kind = "add"
          BY <4>0, <5>1 DEF Edited
        <5>2. CASE kind = "delete"
          <6>1. new = [in |-> old.in \ {e}, on |-> old.on \ {e}]
            BY <5>2 DEF Edited
          <6> QED BY <4>0, <6>1
        <5>3. CASE kind = "enable"
          <6>1. new = [in |-> old.in, on |-> {e}]
            BY <4>0, <5>3 DEF Edited
          <6> QED BY <3>2, <5>3, <6>1
        <5>4. CASE kind = "disable"
          <6>1. new = [in |-> old.in, on |-> old.on \ {e}]
            BY <4>0, <5>4 DEF Edited
          <6> QED BY <4>0, <6>1
        <5>5. CASE kind \notin {"add", "delete", "enable", "disable"}
          <6>1. new = old
            BY <5>5 DEF Edited
          <6> QED BY <4>0, <6>1
        <5> QED BY <5>1, <5>2, <5>3, <5>4, <5>5
      <4> QED BY <3>1, <3>2, <4>1 DEF Listed
    <3> HIDE DEF new
    <3>4. q.kind = kind /\ q.x.new = new
      OBVIOUS
    <3> HIDE DEF q
    <3>5. \A p \in Request : p # r => request'[p] = request[p]
      BY <3>1
    <3>6. request'[r] = q
      BY <3>1
    <3>7. \A v : Listed(v) => Fits(v)
      BY <3>1 DEF Listed
    <3>8. used' \subseteq Entry /\ \A m \in Lists : Fits(list'[m])
      BY <3>1, <3>7 DEF ListsOK
    <3>9. ASSUME NEW p \in Request, request'[p] # None, request'[p].kind \in ListKind
          PROVE  Fits(request'[p].x.new)
      <4>1. CASE p = r
        BY <3>3, <3>4, <3>6, <4>1
      <4>2. CASE p # r
        BY <3>5, <3>7, <3>9, <4>2 DEF ListsOK
      <4> QED BY <4>1, <4>2
    <3> QED BY <3>8, <3>9 DEF ListsOK, Listed
  <2>2. ASSUME NEW kind \in {"default", "settings", "apply", "priority"}, NEW x,
               Arrives(r, kind, x), UNCHANGED used
        PROVE  ListsOK'
    <3>1. request' = [request EXCEPT ![r] = [kind |-> kind, step |-> "write", x |-> x]] /\ list' = list
      BY <2>2 DEF Arrives
    <3>2. request'[r].kind = kind /\ \A p \in Request : p # r => request'[p] = request[p]
      BY <3>1
    <3> QED BY <2>2, <3>1, <3>2 DEF ListsOK, Listed, ListKind
  <2>3. CASE \/ \E e \in Entry \cup {None} : DefaultReads(r, e)
             \/ \E i \in Interval, a \in BOOLEAN : SettingsArrive(r, i, a)
             \/ \E a \in BOOLEAN : ApplyReads(r, a) \/ PriorityArrives(r, a)
    BY <2>2, <2>3 DEF DefaultReads, SettingsArrive, ApplyReads, PriorityArrives
  <2> QED BY <1>2, <2>1, <2>3 DEF Arrival
<1>3. ASSUME NEW r \in Request, request[r] # None, Done(r) \/ Continues(r)
      PROVE  \A q \in Request : request'[q] # None =>
               /\ request[q] # None /\ request'[q].kind = request[q].kind
               /\ request'[q].x = request[q].x
  <2>1. CASE Done(r)
    BY <2>1 DEF Done
  <2>2. CASE Continues(r)
    <3> DEFINE new == [request[r] EXCEPT !.step = "last"]
    <3>1. new.kind = request[r].kind /\ new.x = request[r].x
      BY <1>3, HandlerType
    <3>2. request' = [request EXCEPT ![r] = new]
      BY <2>2 DEF Continues
    <3> HIDE DEF new
    <3> QED BY <1>3, <3>1, <3>2
  <2> QED BY <1>3, <2>1, <2>2
<1>4. ASSUME NEW r \in Request, NEW kind \in ListKind, EditWrites(r, kind) PROVE ListsOK'
  <2>1. /\ request[r] # None /\ request[r].kind = kind /\ (Done(r) \/ Continues(r)) /\ used' = used
        /\ list' = [list EXCEPT ![request[r].x.list] = request[r].x.new]
    BY <1>4 DEF EditWrites, At
  <2>2. Listed(request[r].x.new)
    BY <2>1 DEF ListsOK
  <2>3. \A l \in Lists : list'[l] \in {list[l], request[r].x.new}
    BY <2>1
  <2> QED BY <1>3, <2>1, <2>2, <2>3 DEF ListsOK, Listed
<1>5. ASSUME NEW r \in Request, Handle(r) PROVE ListsOK'
  <2>1. CASE \E kind \in ListKind : EditWrites(r, kind)
    BY <1>4, <2>1
  <2>2. CASE ~\E kind \in ListKind : EditWrites(r, kind)
    <3>1. request[r] # None /\ (Done(r) \/ Continues(r)) /\ UNCHANGED <<used, list>>
      BY <1>5, <2>2 DEF Handle, DeleteEnds, DefaultWrites, SettingsWrite, SettingsEnd, ApplyWrites,
         PriorityWrites, PriorityEnds, At
    <3> QED BY <1>1, <1>3, <3>1
  <2> QED BY <2>1, <2>2
<1>6. ASSUME NEW g \in Scheduler, Schedules(g) \/ SchedulerHears(g) \/ Ticks(g) PROVE ListsOK'
  BY <1>1, <1>6 DEF Schedules, Awakes, Triggers, Skips, SchedulerHears, Ticks
<1>7. CASE UserStarts \/ UserStops \/ TaskSteps \/ Hour \/ UNCHANGED vars
  BY <1>1, <1>7 DEF UserStarts, UserStops, TaskSteps, Hour, vars
<1>8. CASE Restart
  BY <1>1, <1>8 DEF Restart
<1> QED BY <1>2, <1>5, <1>6, <1>7, <1>8 DEF Next

LEMMA PagesStep == PageInv /\ PagesOK /\ [Next]_vars => PagesOK'
<1> SUFFICES ASSUME PageInv, PagesOK, [Next]_vars PROVE PagesOK'
  OBVIOUS
<1> USE DEF PagesOK, settingVars, schedVars, requestVars, PageVars
<1>1. ASSUME NEW r \in Request, Arrival(r) PROVE PagesOK'
  <2>1. PICK k, x : Arrives(r, k, x)
    BY <1>1 DEF Arrival, EditReads, DefaultReads, SettingsArrive, ApplyReads, PriorityArrives
  <2>2. met' \in BOOLEAN
    BY <2>1 DEF Arrives
  <2>3. requests' \in 0 .. MaxRequest
    BY <2>1, BoundAssumption DEF Arrives
  <2> QED BY <2>1, <2>2, <2>3 DEF Arrives
<1>2. ASSUME SchedulerStarts \/ SchedulerStops
      PROVE  on' \in BOOLEAN /\ channel' \in Scheduler \cup {None} /\ missed' \in BOOLEAN
  <2>1. CASE SchedulerStops \/ UNCHANGED schedVars
    BY <2>1 DEF SchedulerStops
  <2>2. CASE SchedulerStarts /\ ~UNCHANGED schedVars
    <3>1. PICK g \in Scheduler : /\ on' = TRUE /\ channel' = g
                                /\ missed' = (missed \/ \E f \in Scheduler : sched[f] # None)
      BY <2>2 DEF SchedulerStarts
    <3>2. missed' \in BOOLEAN
      BY <3>1
    <3> QED BY <3>1, <3>2
  <2> QED BY <1>2, <2>1, <2>2
<1>3. ASSUME NEW r \in Request, Handle(r) PROVE PagesOK'
  <2>0. /\ request[r] # None => request[r] \in Handler
        /\ requests' = requests /\ met' = met
    BY <1>3 DEF PageInv, RequestsInv, Handle, EditWrites, DeleteEnds, DefaultWrites, SettingsWrite,
       SettingsEnd, ApplyWrites, PriorityWrites, PriorityEnds, Done, Continues
  <2>1. CASE \E kind \in ListKind : EditWrites(r, kind)
    BY <2>0, <2>1 DEF EditWrites
  <2>2. CASE DeleteEnds(r)
    BY <2>0, <2>2 DEF DeleteEnds
  <2>3. CASE DefaultWrites(r)
    BY <2>0, <2>3, HandlerType DEF DefaultWrites, At
  <2>4. CASE SettingsWrite(r) \/ ApplyWrites(r)
    <3>1. apply' \in BOOLEAN
      <4>1. request[r] \in Handler /\ request[r].kind \in {"settings", "apply"} /\ apply' = request[r].x.apply
        BY <2>0, <2>4 DEF SettingsWrite, ApplyWrites, At
      <4> QED BY <4>1 DEF Handler, ListKind
    <3> QED BY <2>0, <2>4, <3>1 DEF SettingsWrite, ApplyWrites
  <2>5. CASE SettingsEnd(r) \/ PriorityEnds(r)
    <3>1. SchedulerStarts \/ SchedulerStops
      BY <2>5 DEF SettingsEnd, PriorityEnds
    <3> QED BY <1>2, <2>0, <2>5, <3>1 DEF SettingsEnd, PriorityEnds
  <2>6. CASE PriorityWrites(r)
    <3>1. priority' \in BOOLEAN
      <4>1. request[r] \in Handler /\ request[r].kind = "priority" /\ priority' = request[r].x
        BY <2>0, <2>6 DEF PriorityWrites, At
      <4> QED BY <4>1 DEF Handler, ListKind
    <3> QED BY <2>0, <2>6, <3>1 DEF PriorityWrites
  <2> QED BY <1>3, <2>1, <2>2, <2>3, <2>4, <2>5, <2>6 DEF Handle
<1>4. ASSUME NEW g \in Scheduler, Schedules(g) \/ SchedulerHears(g) \/ Ticks(g) PROVE PagesOK'
  BY <1>4, BoundAssumption DEF Schedules, Awakes, Triggers, Skips, SchedulerHears, Ticks
<1>5. CASE UserStarts \/ UserStops
  BY <1>5, BoundAssumption DEF UserStarts, UserStops
<1>6. CASE TaskSteps \/ UNCHANGED vars
  BY <1>6 DEF TaskSteps, vars
<1>7. CASE Hour
  BY <1>7, BoundAssumption DEF Hour
<1>8. CASE Restart
  <2>1. met' \in BOOLEAN
    BY <1>8 DEF Restart
  <2> QED BY <1>8, <2>1 DEF Restart
<1> QED BY <1>1, <1>3, <1>4, <1>5, <1>6, <1>7, <1>8 DEF Next

(* Every variable keeps its type: the percentage stays within its bounds     *)
(* whatever cfst prints (updateProgressFromOutput), and an entry is enabled  *)
(* only in a list it is in (ToggleManualIPOpt), also when requests overlap.  *)
THEOREM TypeCorrect == Spec => []TypeOK
<1>1. Init => TaskInv /\ NumbersOK /\ PageInv /\ ListsOK /\ PagesOK
  <2> SUFFICES ASSUME Init PROVE NumbersOK /\ ListsOK /\ PagesOK
    BY PageInit, TaskInvInit DEF Init
  <2>1. NumbersOK
    <3>1. progress = 0 /\ csv = FALSE /\ result = None /\ ends = 0
      BY DEF Init, TaskInit
    <3>2. 0 \in 0 .. MaxEnd /\ 0 \in 0 .. 100
      BY TaskAssumption
    <3> QED BY <3>1, <3>2 DEF NumbersOK
  <2>2. ListsOK
    BY DEF Init, ListsOK, Listed
  <2>3. PagesOK
    <3>1. /\ apply = FALSE /\ age \in {None, 0} /\ default = None /\ priority = FALSE /\ on = FALSE
          /\ channel = None /\ requests = 0 /\ met = FALSE /\ missed = FALSE
      BY DEF Init
    <3>2. 0 \in 0 .. MaxRequest /\ 0 \in 0 .. MaxAge
      BY BoundAssumption
    <3> QED BY <3>1, <3>2 DEF PagesOK
  <2> QED BY <2>1, <2>2, <2>3
<1>2. /\ TaskInv /\ NumbersOK /\ PageInv /\ ListsOK /\ PagesOK
      /\ [Next]_vars
      => TaskInv' /\ NumbersOK' /\ PageInv' /\ ListsOK' /\ PagesOK'
  BY NextIsTaskNext, TaskInvStep, NumbersStep, PageStep, ListsStep, PagesStep
<1>3. TaskInv /\ NumbersOK /\ PageInv /\ ListsOK /\ PagesOK => TypeOK
  BY TaskTypes DEF TaskInv, PageInv, RunsInv, RequestsInv, ListsOK, Listed, PagesOK, TypeOK
<1> QED BY <1>1, <1>2, <1>3, PTL DEF Spec
=============================================================================
