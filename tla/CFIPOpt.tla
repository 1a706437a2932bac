------------------------------- MODULE CFIPOpt -------------------------------
(***************************************************************************)
(* The choice of Cloudflare addresses: the tasks of IPOptTask, with the    *)
(* settings, the schedule and the two lists of internal/service/           *)
(* cf_ipopt.go and the handlers of internal/server/cf_ipopt_handlers.go.   *)
(*                                                                         *)
(* A list is one JSON value of the settings table: every change reads it,  *)
(* changes its copy and writes it back, without a lock.  The scheduler is  *)
(* a goroutine that the settings page starts and stops.  It reads the      *)
(* global stop channel anew each time it waits.                            *)
(*                                                                         *)
(* Hours are counted from the last start of a task.  A scheduler looks at  *)
(* the clock once a minute, at a second that depends on when it started;   *)
(* it is "aligned" when that second is 0.                                  *)
(***************************************************************************)
EXTENDS IPOptTask

CONSTANTS
  Request,   \* handlers of the settings and list pages
  Entry,     \* ids that entries of the lists may get
  Scheduler, \* goroutines of the scheduler
  Interval,  \* intervals offered, in hours; 0 is off
  MaxRequest,\* bound: requests, those to start and to stop a task included
  MaxAge     \* bound: hours counted since the last start

ASSUME IntervalAssumption == 0 \in Interval /\ Interval \subseteq 0 .. MaxAge
ASSUME BoundAssumption == {MaxRequest, MaxAge} \subseteq Nat

(* What a goroutine of the scheduler does, the interval it was started with, *)
(* and the scheduler whose stop channel it waits on.                         *)
Goroutine == [at : {"wait", "first", "loop", "hour"}, every : Interval, aligned : BOOLEAN,
              hears : Scheduler]

ASSUME NoGoroutineAssumption == None \notin Goroutine

VARIABLES
  every,    \* cf_ipopt_schedule_interval
  apply,    \* cf_ipopt_apply_tunnel_nodes
  age,      \* hours since cf_ipopt_last_run_at, or None if never
  list,     \* cf_ipopt_speed_urls and cf_ipopt_manual_ips: entries, and those enabled
  default,  \* cf_ipopt_default_speed_url_id, None also for the built-in address
  used,     \* ids given to entries
  priority, \* cf_ipopt_manual_priority is "preferred"
  on,       \* cfIPOptSchedulerRunning
  channel,  \* the scheduler that cfIPOptSchedulerStop was made for, or None
  shut,     \* stop channels of schedulers that are closed
  sched,    \* what each scheduler is doing, or None
  request,  \* what each handler is doing, or None
  requests, \* number of requests
  met,      \* history: requests overlapped, or the panel ended during one
  missed    \* history: a scheduler was started while an older one was there

settingVars == <<every, apply, list, default, used, priority>>
schedVars == <<on, channel, shut, sched, missed>>
requestVars == <<request, requests, met>>
vars == <<taskVars, settingVars, schedVars, requestVars, age>>

Lists == {"urls", "ips"}
ListKind == {"add", "update", "delete", "enable", "disable"}
Entries == [in : SUBSET Entry, on : SUBSET Entry]
Step == {"write", "last"}

(* What a handler has read and will write.                                   *)
Handler ==
  [kind : ListKind, step : Step, x : [list : Lists, entry : Entry, new : Entries]]
    \cup [kind : {"default"}, step : Step, x : Entry \cup {None}]
    \cup [kind : {"settings", "apply"}, step : Step, x : [every : Interval, apply : BOOLEAN]]
    \cup [kind : {"priority"}, step : Step, x : BOOLEAN]

ASSUME NoHandlerAssumption == None \notin Handler

TypeOK ==
  /\ TaskTypeOK
  /\ every \in Interval /\ apply \in BOOLEAN /\ age \in 0 .. MaxAge \cup {None}
  /\ list \in [Lists -> Entries] /\ default \in Entry \cup {None} /\ used \subseteq Entry
  /\ \A l \in Lists : list[l].on \subseteq list[l].in /\ list[l].in \subseteq used
  /\ priority \in BOOLEAN /\ on \in BOOLEAN
  /\ channel \in Scheduler \cup {None} /\ shut \subseteq Scheduler
  /\ sched \in [Scheduler -> Goroutine \cup {None}]
  /\ request \in [Request -> Handler \cup {None}]
  /\ requests \in 0 .. MaxRequest /\ met \in BOOLEAN /\ missed \in BOOLEAN

(* The settings of a new panel, but that in an earlier life of the panel a   *)
(* task may have been started, which left no result.                        *)
Init ==
  /\ TaskInit
  /\ every = 0 /\ apply = FALSE /\ age \in {None, 0}
  /\ list = [l \in Lists |-> [in |-> {}, on |-> {}]] /\ default = None /\ used = {}
  /\ priority = FALSE
  /\ on = FALSE /\ channel = None /\ shut = {}
  /\ sched = [g \in Scheduler |-> None]
  /\ request = [r \in Request |-> None] /\ requests = 0
  /\ met = FALSE /\ missed = FALSE
-----------------------------------------------------------------------------
(* A request arrives and does its first step, which reads what it needs:    *)
(* x is what it writes, if all goes well.  Handlers are alike.              *)
Busy == \E r \in Request : request[r] # None

Arrives(r, kind, x) ==
  /\ request[r] = None /\ requests < MaxRequest
  /\ r = CHOOSE q \in Request : request[q] = None
  /\ request' = [request EXCEPT ![r] = [kind |-> kind, step |-> "write", x |-> x]]
  /\ requests' = requests + 1
  /\ met' = (met \/ Busy)
  /\ UNCHANGED <<taskVars, every, apply, list, default, priority, schedVars, age>>

At(r, kind, step) ==
  request[r] # None /\ request[r].kind = kind /\ request[r].step = step

Continues(r) ==
  request' = [request EXCEPT ![r].step = "last"] /\ UNCHANGED <<requests, met>>

Done(r) == request' = [request EXCEPT ![r] = None] /\ UNCHANGED <<requests, met>>

(* A change made to a copy of a list.  An address that is added is enabled  *)
(* and leaves the others as they are; one that is enabled disables them.    *)
Edited(l, kind, e) ==
  LET old == list[l]
  IN CASE kind = "add"     -> [in |-> old.in \cup {e},
                               on |-> old.on \cup (IF l = "ips" THEN {e} ELSE {})]
       [] kind = "delete"  -> [in |-> old.in \ {e}, on |-> old.on \ {e}]
       [] kind = "enable"  -> [old EXCEPT !.on = {e}]
       [] kind = "disable" -> [old EXCEPT !.on = @ \ {e}]
       [] OTHER            -> old

(* AddSpeedTestURL, ..., ToggleManualIPOpt: a new entry has a new id, any   *)
(* other request must find its entry.  An address of a speed test cannot be *)
(* enabled.                                                                 *)
EditReads(r, l, kind, e) ==
  /\ kind \in {"enable", "disable"} => l = "ips"
  /\ IF kind = "add" THEN e \notin used ELSE e \in list[l].in
  /\ Arrives(r, kind, [list |-> l, entry |-> e, new |-> Edited(l, kind, e)])
  /\ used' = used \cup {e}

EditWrites(r, kind) ==
  /\ At(r, kind, "write")
  /\ list' = [list EXCEPT ![request[r].x.list] = request[r].x.new]
  /\ IF kind = "delete" /\ request[r].x.list = "urls" THEN Continues(r) ELSE Done(r)
  /\ UNCHANGED <<taskVars, every, apply, default, used, priority, schedVars, age>>

(* Mutant: the default is left alone when its address is deleted.           *)
DeleteEnds_KeepsDefault(r) ==
  /\ At(r, "delete", "last")
  /\ Done(r)
  /\ UNCHANGED <<taskVars, settingVars, schedVars, age>>

(* DeleteSpeedTestURL then clears the default, if it was the one deleted.   *)
DeleteEnds(r) ==
  /\ At(r, "delete", "last")
  /\ default' = IF default = request[r].x.entry THEN None ELSE default
  /\ Done(r)
  /\ UNCHANGED <<taskVars, every, apply, list, used, priority, schedVars, age>>

(* SetDefaultSpeedTestURL finds the address in the list, then saves it; the *)
(* empty id and the built-in one need no list.                              *)
DefaultReads(r, e) ==
  e \in list["urls"].in \cup {None} /\ Arrives(r, "default", e) /\ UNCHANGED used

DefaultWrites(r) ==
  /\ At(r, "default", "write")
  /\ default' = request[r].x
  /\ Done(r)
  /\ UNCHANGED <<taskVars, every, apply, list, used, priority, schedVars, age>>
-----------------------------------------------------------------------------
(* StartCFIPOptScheduler takes the interval that is saved, unless one runs. *)
(* A scheduler is free when it has ended and nobody waits on its channel.   *)
Heard(g) == \E f \in Scheduler : sched[f] # None /\ (f = g \/ sched[f].hears = g)

Free(g) == ~Heard(g) /\ g = CHOOSE f \in Scheduler : ~Heard(f)

SchedulerStarts ==
  IF on \/ every = 0
    THEN UNCHANGED schedVars
    ELSE \E g \in Scheduler :
           /\ Free(g)
           /\ on' = TRUE /\ channel' = g
           /\ sched' = [sched EXCEPT ![g] = [at |-> "wait", every |-> every,
                                             aligned |-> FALSE, hears |-> g]]
           /\ shut' = shut \ {g}
           /\ missed' = (missed \/ \E f \in Scheduler : sched[f] # None)

(* Mutant: the channel is not closed.                                       *)
SchedulerStops_Silently ==
  /\ on' = FALSE
  /\ UNCHANGED <<channel, shut, sched, missed>>

SchedulerStops ==
  /\ on' = FALSE
  /\ shut' = IF on THEN shut \cup {channel} ELSE shut
  /\ UNCHANGED <<channel, sched, missed>>

(* The settings page: the interval and the switch are written, the latter   *)
(* only if there is a result, then the scheduler is started or stopped by   *)
(* the interval of the request.                                             *)
SettingsArrive(r, i, a) ==
  /\ a => result # None
  /\ Arrives(r, "settings", [every |-> i, apply |-> a]) /\ UNCHANGED used

SettingsWrite(r) ==
  /\ At(r, "settings", "write")
  /\ every' = request[r].x.every /\ apply' = request[r].x.apply
  /\ Continues(r)
  /\ UNCHANGED <<taskVars, list, default, used, priority, schedVars, age>>

(* Mutant: the scheduler is only ever started.                              *)
SettingsEnd_NoStop(r) ==
  /\ At(r, "settings", "last")
  /\ SchedulerStarts
  /\ Done(r)
  /\ UNCHANGED <<taskVars, settingVars, age>>

SettingsEnd(r) ==
  /\ At(r, "settings", "last")
  /\ IF request[r].x.every > 0 THEN SchedulerStarts ELSE SchedulerStops
  /\ Done(r)
  /\ UNCHANGED <<taskVars, settingVars, age>>

(* The switch alone: apiCFIPOptApply and apiCFIPOptToggleApply read all     *)
(* settings and write the interval they read back with it.                  *)
ApplyReads(r, a) ==
  /\ a => result # None
  /\ Arrives(r, "apply", [every |-> every, apply |-> a]) /\ UNCHANGED used

ApplyWrites(r) ==
  /\ At(r, "apply", "write")
  /\ every' = request[r].x.every /\ apply' = request[r].x.apply
  /\ Done(r)
  /\ UNCHANGED <<taskVars, list, default, used, priority, schedVars, age>>

(* The manual list is preferred or not; if it is, the schedule stops.       *)
PriorityArrives(r, p) == Arrives(r, "priority", p) /\ UNCHANGED used

PriorityWrites(r) ==
  /\ At(r, "priority", "write")
  /\ priority' = request[r].x
  /\ IF request[r].x THEN Continues(r) ELSE Done(r)
  /\ UNCHANGED <<taskVars, every, apply, list, default, used, schedVars, age>>

PriorityEnds(r) ==
  /\ At(r, "priority", "last")
  /\ SchedulerStops
  /\ Done(r)
  /\ UNCHANGED <<taskVars, settingVars, age>>
-----------------------------------------------------------------------------
In(g, s) == sched[g] # None /\ sched[g].at = s

(* The scheduler waits for a minute, looks whether a run is overdue ...     *)
Awakes(g) ==
  /\ In(g, "wait")
  /\ sched' = [sched EXCEPT ![g].at = "first"]
  /\ UNCHANGED <<taskVars, settingVars, requestVars, on, channel, shut, missed, age>>

(* ... or hears that it is to stop, in either of its waits.                 *)
SchedulerHears(g) ==
  /\ In(g, "wait") \/ In(g, "loop")
  /\ sched[g].hears \in shut
  /\ sched' = [sched EXCEPT ![g] = None]
  /\ UNCHANGED <<taskVars, settingVars, requestVars, on, channel, shut, missed, age>>

Loops(g, aligned) ==
  sched' = [sched EXCEPT ![g].at = "loop", ![g].aligned = aligned, ![g].hears = channel]

(* Any other tick: it only waits on the global channel again.               *)
Ticks(g) ==
  /\ In(g, "loop") /\ sched[g].hears # channel
  /\ Loops(g, sched[g].aligned)
  /\ UNCHANGED <<taskVars, settingVars, requestVars, on, channel, shut, missed, age>>

(* Is a run due?  The clock times are compared: a start that many hours ago *)
(* may be a moment short of the interval, and is not yet due then.          *)
Due(g) ==
  \/ age = None
  \/ age # None /\ age >= sched[g].every

(* Mutant: at the hour a run is never due.                                  *)
NotDue_AtHour(g) ==
  \/ In(g, "hour")
  \/ age # None /\ age <= sched[g].every

NotDue(g) ==
  /\ age # None
  /\ age <= sched[g].every

CanStart == \E t \in Task : pc[t] = "new"

(* triggerScheduledIPOpt: a start like that of the user, if none runs.      *)
Triggers(g) ==
  /\ In(g, "first") \/ In(g, "hour")
  /\ Due(g) /\ (\E t \in Task : Start(t)) /\ age' = 0
  /\ \E aligned \in BOOLEAN :
       (In(g, "hour") => aligned = sched[g].aligned) /\ Loops(g, aligned)
  /\ UNCHANGED <<settingVars, requestVars, on, channel, shut, missed>>

Skips(g) ==
  /\ In(g, "first") \/ In(g, "hour")
  /\ NotDue(g) \/ status = "running" \/ ~CanStart
  /\ \E aligned \in BOOLEAN :
       (In(g, "hour") => aligned = sched[g].aligned) /\ Loops(g, aligned)
  /\ UNCHANGED <<taskVars, settingVars, requestVars, on, channel, shut, missed, age>>

(* An hour passes; on the hour the aligned schedulers look again.  What a   *)
(* scheduler does then takes less than an hour.                             *)
Hour ==
  /\ \A g \in Scheduler : ~In(g, "first") /\ ~In(g, "hour")
  /\ age' = IF age = None \/ age = MaxAge THEN age ELSE age + 1
  /\ sched' = [g \in Scheduler |->
                IF In(g, "loop") /\ sched[g].aligned THEN [sched[g] EXCEPT !.at = "hour"]
                ELSE sched[g]]
  /\ UNCHANGED <<taskVars, settingVars, requestVars, on, channel, shut, missed>>
-----------------------------------------------------------------------------
UserStarts ==
  /\ requests < MaxRequest /\ requests' = requests + 1
  /\ (\E t \in Task : Start(t)) /\ age' = 0
  /\ UNCHANGED <<settingVars, schedVars, request, met>>

UserStops ==
  /\ requests < MaxRequest /\ requests' = requests + 1
  /\ Stop
  /\ UNCHANGED <<settingVars, schedVars, request, met, age>>

PageVars == <<settingVars, schedVars, requestVars, age>>

TaskSteps == TaskRuns /\ UNCHANGED PageVars

(* The panel ends and comes back.  Nothing starts the scheduler then.       *)
Restart ==
  /\ PanelEnds
  /\ on' = FALSE /\ channel' = None /\ shut' = {} /\ missed' = FALSE
  /\ sched' = [g \in Scheduler |-> None]
  /\ met' = (met \/ Busy)
  /\ request' = [r \in Request |-> None]
  /\ UNCHANGED <<settingVars, requests, age>>

Handle(r) ==
  \/ \E kind \in ListKind : EditWrites(r, kind)
  \/ DeleteEnds(r) \/ DefaultWrites(r)
  \/ SettingsWrite(r) \/ SettingsEnd(r) \/ ApplyWrites(r)
  \/ PriorityWrites(r) \/ PriorityEnds(r)

Arrival(r) ==
  \/ \E l \in Lists, kind \in ListKind, e \in Entry : EditReads(r, l, kind, e)
  \/ \E e \in Entry \cup {None} : DefaultReads(r, e)
  \/ \E i \in Interval, a \in BOOLEAN : SettingsArrive(r, i, a)
  \/ \E a \in BOOLEAN : ApplyReads(r, a) \/ PriorityArrives(r, a)

Schedules(g) == Awakes(g) \/ Triggers(g) \/ Skips(g)

Next ==
  \/ UserStarts \/ UserStops \/ TaskSteps \/ Restart \/ Hour
  \/ \E r \in Request : Arrival(r) \/ Handle(r)
  \/ \E g \in Scheduler : Schedules(g) \/ SchedulerHears(g) \/ Ticks(g)

Spec == Init /\ [][Next]_vars

(* Schedulers go on and hours pass.  Go chooses at random between a tick    *)
(* and a stop that are both there, so a scheduler that could hear a stop    *)
(* again and again hears it.  Nothing else has to happen.                   *)
FairSpec ==
  /\ Spec
  /\ WF_vars(Hour)
  /\ \A g \in Scheduler :
       WF_vars(Schedules(g)) /\ WF_vars(Ticks(g)) /\ SF_vars(SchedulerHears(g))
-----------------------------------------------------------------------------
(* A schedule that is on has a goroutine, with a channel that a stop can    *)
(* close; only one, unless the one before was late to hear its stop; and it *)
(* is on only if an interval is saved, unless requests overlapped.          *)
ScheduleIsTrue ==
  /\ on => /\ channel \notin shut
           /\ \E g \in Scheduler : sched[g] # None /\ sched[g].hears = channel
           /\ ~missed => \A g \in Scheduler : sched[g] # None => g = channel
  /\ on /\ ~Busy /\ ~met => every > 0

(* The default address of the scheduled runs is one of the list, unless     *)
(* requests overlapped.                                                     *)
DefaultExists == ~Busy /\ ~met => default \in list["urls"].in \cup {None}

(* The schedule that is on sees the full hours, and the last start is as old *)
(* as its interval.                                                         *)
Overdue ==
  /\ on /\ (In(channel, "loop") \/ In(channel, "hour"))
  /\ sched[channel].aligned
  /\ age # None /\ age >= sched[channel].every

(* A schedule that is switched off ends, goroutines left over included.  An *)
(* aligned one that is on starts a task when the last start is as old as    *)
(* its interval, unless one is running.                                     *)
ScheduleWorks ==
  /\ <>[](~on) => <>[](\A g \in Scheduler : sched[g] = None)
  /\ []<>(Overdue => status = "running" \/ ~CanStart)
=============================================================================
