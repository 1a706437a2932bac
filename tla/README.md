# A TLA+ verification of nodectl

nodectl is a panel (one Go process with a database) and an agent (one Go process
on every proxy node, next to a sing-box process). The agent holds a websocket to
the panel, reports its traffic counters over it and takes commands from it. The
panel accounts for the traffic, ends billing cycles, announces outages by
Telegram and serves subscriptions and an administration site.

This directory holds TLA+ models of the parts of nodectl whose correctness
depends on the order in which things happen, TLC configurations that check them
on small instances, and TLAPS proofs of the properties that matter most for
every value of the constants. Paths below are relative to `src/`.

## 1. Inventory

### Panel (`internal/service`, `internal/server`, `internal/middleware`)

| Component | State | Operations | Hard behaviour |
|---|---|---|---|
| Traffic hub (`traffic_live.go`) | `hub.nodes` (live totals, baseline, boot id, dirty mark), `hub.agentConns`, `hub.subs` | bind and unbind a connection, apply a sample, flush dirty totals every few seconds, reset a live entry, clean up a deleted node | one goroutine per connection, a flusher, a reset goroutine and request handlers share two mutexes and give them up around every database call; an agent may hold two connections for a while |
| Live panel (`traffic_live.go`) | subscriber channels, pending commands, command logs | stream samples to browsers, send a command and wait for its result | channels closed from two sides, results after a timeout, a slow browser |
| Traffic reset (`traffic_reset.go`) | the rule and `traffic_reset_at` of a row | a tick every minute, a reset, a change of the rule | short months, interval anchors in the past, a tick that runs over midnight, an edit between the decision and the reset |
| Threshold (`traffic_threshold.go`) | a cache of rules with the mark `Reached`, the mark of the row | check on every sample and on every subscription request, clear on a reset | copies of a cache entry written back, the command sent twice |
| Statistics (`traffic_stats.go`, `traffic_history_count.go`) | hourly and daily rows and their counter | accumulate, prune, query | upserts that meet, a counter that is NULL at first |
| Offline notification (`telegram_bot.go`) | an entry per silent node, the notify cache, `offline_last_notify_at` of the row | a tick every second, a call at each connection and disconnection, a call when the setting changes, a mute after an update command | calls meet while one of them waits for Telegram; a restart of the panel in the middle of an outage |
| Node administration (`node_handler.go`) | the rows of nodes, their links | add, edit, delete, reset links, settings | an edit reads a row, changes the copy and saves every column of it |
| Login (`middleware/auth.go`, `auth_handler.go`) | failures and block of an address | check, record, clear, expire | window and block of different length, a change of the setting |
| Server life cycle (`server.go`, `main.go`) | the active HTTP server, the restart channel | start, restart, graceful shutdown | a shutdown that looks like a restart, a goroutine that waits for a server that is gone |
| Tunnel of a node (`node_handler.go`, `cf_tunnel.go`) | the tunnel columns of the row, the tunnel and the DNS records at Cloudflare | enable, disable, start, stop, remove, edit and delete the node | no lock spans the row, the account and the node; remote calls of which one fails |
| Tunnel of the panel (`cf_tunnel.go`, `cf_handlers.go`) | the settings, the tunnel and its record at Cloudflare, the cloudflared process | create, bind, start, stop, watch, delete, one-click setup | a process watched and stopped by different goroutines, remote calls of which one fails |
| IP optimisation (`cf_ipopt.go`, `cf_ipopt_handlers.go`) | the running test, its process, its schedule, its results, two lists, settings | start, stop, schedule, edit the lists, apply | a stop against the end of a test, globals shared with the goroutine of the test before, lists that are read, changed and written back without a lock |
| Daily updates (`auto_update.go`, `geo.go`, `mihomo.go`, `cf_tunnel.go`, `cf_ipopt.go`) | the date of the last check, the recorded version, a temporary file and the file in use | tick, check, download, unpack, replace | a check that is still running at the next tick, a download by a user beside it, a failure or a crash between two changes of files |
| Update command at start (`agent_startup_update.go`) | nodes still to be told | fire a command at each node | nodes that connect late |
| Subscriptions, Clash files, links, logs, certificates, settings, templates | rows and files | conversions and forms | none that spans several steps |

### Agent (`internal/agent`, `cmd/nodectl-agent`)

| Component | State | Operations | Hard behaviour |
|---|---|---|---|
| Runtime (`runtime.go`) | the collector, the connection, the push interval | run, reconnect, execute commands | commands run on two workers beside the main loop |
| Reporter (`reporter.go`) | the websocket, the command queue, the reconnect count | connect, read, answer, send, close | workers and read loops of an earlier connection live on for a while |
| Collector (`collector.go`) | the counters of the interface | sample | counters go back to zero, the boot id changes |
| sing-box manager (`singbox/manager.go`) | `cmd`, `running`, the restart counter, the PID file, a watcher per process | start, stop, restart, kill, watch, adopt or kill orphans | watchers of processes long gone write to the fields of their successors; the agent replaces its own image and keeps its children |
| Updater (`updater.go`, `cmd/nodectl-agent/main.go`) | the program, its `.bak`, `.update_state.json`, `postUpdatePending` | check, download, switch, count starts, roll back, lock, confirm | the process may die between any two renames; a release may fail in silence |
| Configuration, installer, certificates, links (`singbox/*.go`, `links/*.go`) | files | conversions | none that spans several steps |

### How they interact

* agent → hub: samples; hub → agent: commands and the end of a connection that
  was replaced.
* hub → database: totals (flusher); reset goroutine → database, then hub;
  administrator → database, then hub, notify cache and threshold cache.
* hub → offline notification: a call at each registration and at the end of the
  registered connection; the tick asks the hub whether traffic was heard.
* hub → threshold: a check after each sample; threshold → agent: `reset-links`.
* reporter → runtime → sing-box manager, updater: commands; updater → process:
  `execve`, which keeps the children of the agent.

### What makes them correct

* Hub: one registered connection per node; no live total that is silently out
  of step with the row; no byte counted twice; no row that loses traffic except
  by a reset; the row catches up.
* Reset: one reset per cycle of the rule, none missed.
* Offline notification: an outage is announced once, its end is told, also over
  a restart.
* sing-box manager: one process; a process that is said to run is watched; one
  that ends is replaced, a limited number of times.
* Updater: always a program to run that has proved itself; a version that was
  given up does not come back; a release that cannot reach the panel is left.
* Threshold: the command is sent once per crossing, and cache and row agree.
* Commands: a command is answered as long as its connection lives, the page that
  follows it shows each answer once and in order, a deleted node leaves no
  connection, and no channel is used once it is closed.
* Tunnels: row or settings, account and process belong to the same tunnel; a
  cleanup leaves nothing behind; a stop is final.
* IP optimisation: what the page says of a test is true, tests and their
  processes end, the schedule that is saved is the one that runs.
* Daily updates: the recorded version is that of the file, a failed update costs
  nothing, the panel comes to the newest release.

## 2. Modules

| Module | Models | Extended by |
|---|---|---|
| `TrafficHub` | `traffic_live.go` (handlers, flusher, reset of the live entry, clean-up), the write of totals in `traffic_stats.go`, the row side of a reset, edit and deletion of a node | `MCTrafficHub` (TLC), `TrafficHub_proofs` |
| `TrafficReset` | `traffic_reset.go`, the rule part of `apiUpdateNode` | `MCTrafficReset` (TLC), `Ticks_proofs` |
| `OfflineNotify` | the offline notification in `telegram_bot.go` with its callers | `Ticks_proofs` |
| `SingboxManager` | `singbox/manager.go`, `initSingBox` and the commands that call the manager | `SingboxManager_proofs` |
| `AgentUpdater` | `updater.go`, the start in `main.go`, the first connection in `runtime.go` | `Updates_proofs` |
| `Rollout` | no code: the abstract promise of a self-replacing agent, implemented by `AgentUpdater` | instantiated by `AgentUpdater` |
| `CommandLog` | no code: the abstract promise of a log that pages follow, implemented by `CommandChannel` | instantiated by `CommandChannel` |
| `NodeTunnel` | the tunnel of a node: its requests in `node_handler.go`, the calls of the API in `cf_tunnel.go`, the commands in `runtime.go` | `NodeTunnel_proofs` |
| `PanelTunnel` | the tunnel of the panel: `cf_tunnel.go`, `cf_handlers.go`, the start and end in `main.go` | `PanelTunnel_proofs` |
| `IPOptTask` | the speed test of `cf_ipopt.go`: task, process, stop, result | `CFIPOpt` |
| `CFIPOpt` | composes `IPOptTask` with settings, schedule, lists and requests of `cf_ipopt.go`, `cf_ipopt_handlers.go` | `CFIPOpt_proofs`, which also proves about `IPOptTask` |
| `AutoUpdate` | `auto_update.go` with the downloads of `geo.go`, `mihomo.go`, `cf_tunnel.go`, `cf_ipopt.go` | `Updates_proofs` |
| `CommandChannel` | commands and their answers: pages of `node_handler.go`, `agent_handler.go`, the hub in `traffic_live.go`, `reporter.go`, the workers of `runtime.go`, `agent_startup_update.go` | `CommandChannel_proofs` |

A step of a model is what the code does between two points at which another
goroutine, another process or a crash may come in: a critical section, a
database call, a call to Telegram, a rename of a file, a start of a process.
`PROJECT.json` maps every definition to its lines.

### TrafficHub

* `counter`, `bootId`, `moved`, `link` are the machine and its agent; `moved` is a
  history variable, the bytes that really flowed.
* A handler of a connection goes through `phase`: "fresh" until the first
  message, "checked" after `IsValidInstallID`, "open" once registered in
  `agentConns`, "closed" when another connection replaced it. `binding` holds
  those between registration and `ensureNodeLiveState`. `inHand` is a sample
  that was read and not applied. The first message of a connection is one: it is
  read before the node is checked and the connection registered, and applied
  after. The handler of a replaced connection may still apply the sample it
  holds, and one that registers late applies a first sample that may be older
  than the baseline; the history variable `late` names the nodes for which one of
  the two happened.
* `nodes` is `hub.nodes`; `Apply` is the critical section of a sample with its
  increment (`Delta`, `Counts`, `Updated`).
* `Collect` is `collectDirtyNodeTrafficAndClear`, `Save` and `SaveFails` the
  writes that follow without a lock; `ResetRow` and `ResetLive` the two halves
  of a reset; `DeleteRow`, `CleanupNodes`, `CleanupConn`, `DeleteNotifyConfig`
  the four steps of a deletion, between which handlers may run
  `EditRead`, `EditSave`, `EditFails` an edit; `Crash` a restart of the
  panel that leaves only the rows.
* Bytes are counted by direction with a small unit; `MaxSingleDelta` is the
  plausibility limit of the code and is small too, so that samples beyond it
  occur.

### TrafficReset

Time is counted in local days, because the code compares dates and never hours.
The calendar is a constant, `MonthEnd`: the last day of each month, days counted
from 1. Only that the months are not empty is assumed of it. `ShouldReset` is
`shouldResetNodeTrafficNow`, `Edited` the part of `apiUpdateNode` that works a
request into the row, `ResetAtOnRuleChange` the function of that name, with Go's
`AddDate(0, -1, 0)`, which turns the 31st into a day of the next month
(`PreviousMonth`). `Tick` and `Reset` are separate, because the decision is taken
with the row that was read and the reset is written later. `Scheduled` is the
reference: the days on which a cycle ends, from the rule alone.

### OfflineNotify

One node. Every goroutine that calls `OnNodeConnectionStatusChanged` is a
process with a program counter: "change" (about to enter), "send" (the message
"online"), "clear" (the row), "forget" (the entry is dropped). The goroutine of
the ticks also goes through `notifyOfflineIfDue`: "due", "alarm" (the message
"offline"), "mark" (the row), "sent" or "failed". Of a deadline only whether it
lies ahead or in the past is kept. The row may fail to be written, at "mark" with
a warning and at "clear" without one, and the cache changes all the same; an edit
of the node (`EditReads`, `EditSaves`) puts back what it has read of the row.
`misled` remembers that the panel started from a row that differed from its cache,
until the node is marked or cleared again. Names that `TrafficReset` has too begin with
`Notify` here, so that one module of proofs extends both.

`OnNodeConnectionStatusChanged` enters three short critical sections in a row
before it may block; the model makes one step of them. If another goroutine
dropped the entry exactly between them, the code would write to an entry that is
no longer in the map; the effect is that of a call that came earlier and was
forgotten, and the tick of the next second repairs it as it does in
`StatusFollows`.

### SingboxManager

A process is a model value that may be reused once it is dead and unwatched.
`watcher[p]` is the goroutine `watchProcess` of a process: waiting, or in the
delay before a restart. `child` says which processes the agent is the parent of,
because `ForceKill` and `KillOrphanProcess` look for children and for the process
of the PID file: `Reexec` keeps the parent, `AgentCrash` does not. Methods that
hold `Manager.mu` until they return are one step. The count of restarts is kept
at `MaxRestarts + 1` once it is there; the code compares it with `MaxRestarts` only.

### AgentUpdater

A program is its version number. `self` and `bak` are the files, `disk` and `mem`
the state file and its copy in memory, `image` the version that executes. Each
rename, removal and write is a step and may fail (`MaxIOFail`); the process may
die between any two of them (`Crash`) and the service manager starts what is at
`selfPath`. `Bad` is the set of releases that never complete a handshake.

`Rollout` says what these files are for: a current program, the one it came from
while it is on trial, and the programs that have worked. `KeepsPromise` maps the
files to them (`Promise`): the current program is the one at `selfPath`, or the
`.bak` while nothing is at `selfPath`. Under the mapping `Switch` begins a trial, a
`.bak` that is renamed back gives it up, a `.bak` that is removed confirms it, and
everything else, the first rename of an update included, is a stutter. `Lose`
is there because the code can lose the program, but only after two failures.

### NodeTunnel

One node. The row, the account at Cloudflare and the service on the node are
three records of one tunnel. A handler (`call`) goes through the calls that may
fail: of Cloudflare ("create", "token", "dns", "unbind", "destroy"), of the
database ("update"), of the agent ("fire", "halt"). `seen` is the row it read at
the beginning, and what it computes from it may be old when it is written; `new`
is the tunnel it has made. A tunnel stands for its id and token; the domain, from
which the host names are made, is a column of its own with the number of the
tunnel it was made with, because enabling writes back the domain it has read. The
agent's side has a queue and workers that write the configuration and start or
stop the service (`Take`, `WriteConfig`, `StartService`, `StopService`), and a node
that reboots starts what is enabled. Handlers and workers are interchangeable, so
that a step takes the first that is free. The history variable `mishaps` says
which of the excuses in the properties applies: handlers that met, one cut short,
a failed call, a link that was edited away.

### PanelTunnel

Part one is the process: `tracked` is `cfProcess` with the variables that always
change with it, `watcher[w]` the goroutine of a start with its process, `lock` the
handler that holds `cfProcessMu` across a call. `raced` records that a process was
started while an older watcher was still there; the code cannot tell the two
apart (section 6). Part two is the chain of calls of a request: settings, tunnel,
token, routing rule, record, start. The account is `remote`, `ingress`, `dns`. `smooth`
marks a call that nothing disturbed and none of whose own calls failed and was
passed over. A deletion ends with four writes of settings, each a step of its own
that may fail unnoticed (`Erases`).

### IPOptTask and CFIPOpt

`cfIPOptState`, `cfIPOptCmd` and `cfIPOptStopChan` are globals: `status`, `owner`,
`progress`, `cmd`, and `hears[t]` for the channel a goroutine got hold of. A goroutine
is at "prepare", "select" or "collect" and may be there when the next task has begun
(`raced`). What cfst prints is a word that names a phase, or a percentage.

`CFIPOpt` extends `IPOptTask`: a step of a task leaves settings and schedule alone
and the other way round, except that the scheduler and the user start tasks. A
list is the set of its entries and of those enabled; a request reads it, and writes
its copy in a later step. A scheduler is a goroutine with the stop channel that it
reads anew each time; hours are counted from the last start of a task.

### AutoUpdate

One behaviour is about one of the four downloads (`component`) on one of two
systems (`zip`). A worker is a goroutine; its `pc` goes from the tick through mutex,
version, download, unpacking and the changes of names and permissions. A file
has two halves, so that one that is half written differs from a whole one, and
two downloads that write the same temporary file can mix. Every call that returns
an error can fail: request, body, unpacking (of the program and of the later
files of its archive), rename, permission, opening of the database, row.
`disturbed` records overlaps and crashes, `botched` that the end of an update
failed, until one ends well. Names that
`AgentUpdater` has too begin with `Daily` here (`DailyInit`, `DailySpec`), so that one
module of proofs extends both.

### CommandChannel

One node with any number of commands, pages and connections. `Fire` and `Write` are
the two halves of `FireCommandToNode`: the log is made, then the command is
written. A connection is a number; `open`, `up`, `down` are the network, where what is
under way on a connection that closes may be lost. The agent has `conn` and
`connected`, a read loop per connection (`reading`; `failing` between its error and
`SetDown`), a queue and workers, which outlive their connection. An answer passes
`Send`, a handler (`Answers`), the log (`entries`) and the channels of the pages
that follow it (`stream`, `Told`). `CommandLog` says what log and pages are for:
what is in the channel of a page is what the page has not shown yet, and a
page whose channel was full (`over`) has lost its place. `Check` and `Register` are the two critical sections of
`bindAgentConnection`, and `DeleteNode`, `CleanupNodeState`, `Forget` the three steps of a
deletion; `late` records a connection that was between the two when the hub
was cleaned.

## 3. Runs

| Run | Module | Bounds | Shows |
|---|---|---|---|
| `hub_failures` | `MCTrafficHub` | two handlers of one node, one byte, and one of: a second boot, a reset, a crash | `RegisteredIsOpen`, `NoOvercount`, `RowNeverShrinks` |
| `hub_catchup` | `MCTrafficHub` | one handler, one boot, one byte, a reset, a failing write, a failing read, an edit; fairness | `CleanMatchesRow`, `StaleWriteHeals`, `RowCatchesUp` |
| `reset_calendar` | `MCTrafficReset` | four months of 4, 5, 3 and 5 days, nine rules, three edits | `NeverTwice`, `NeverSkipped` |
| `offline` | `OfflineNotify` | one connection, tick and administrator, one of: setting, update command, edit, lost message, restart; any write of the row may fail; fairness | `NoRepeat`, `NoFalseRecovery`, `StatusFollows`, `PlainOutageAnnounced`, `RecoveryAnnounced` |
| `singbox` | `SingboxManager` | three processes, two workers, two exits, two commands, two starts of the agent, one failing start; fairness | `RunningIsWatched`, `SingleUntilCommand`, `Recovers` |
| `updater` | `AgentUpdater` | four releases of which two are bad, four deaths, two failing operations; fairness | `FallbackExists`, `NeverReinstalled`, `Reconnects`, `KeepsPromise` |
| `node_tunnel` | `NodeTunnel` | three requests, two at a time, two tunnels, one protocol, two workers, one fault; fairness | `TokenMatches`, `NothingLeaks`, `CleanupRepairs`, `ServiceFollows` |
| `panel_tunnel` | `PanelTunnel` | three requests, two at a time, two tunnels, two watchers, one retry, one fault; fairness | `Supervised`, `OneClickServes`, `DeleteLeavesNothing`, `StopSticks` |
| `ipopt_tasks` | `IPOptTask` | two tasks, one end of the panel, three phases, two percentages; fairness | `TasksAreTrue`, `TasksEnd` |
| `ipopt` | `CFIPOpt` | four requests one after the other, one task, perhaps one before the panel started, two schedulers, one entry, one interval besides off, one end of the panel; fairness | `ScheduleIsTrue`, `DefaultExists`, `ScheduleWorks` |
| `auto_update` | `AutoUpdate` | each of the four downloads, two goroutines, one new release, one fault, one request of a user, two attempts; fairness | `RecordIsTrue`, `FailureKeepsFile`, `CatchesUp` |
| `commands` | `CommandChannel` | two commands of which one asks for an update, one page of each kind, two connections, one event; fairness | `DeletedIsGone`, `ShowsTheLog`, `StreamEnds`, `Answered` |

`StreamIsTrue` is in no run of its own: a page that broke it would go on to show
what `ShowsTheLog` forbids. It is what the proof of `ShowsTheLog` rests on.

Every property has a mutant: a definition with the name `<definition>_<what>`,
marked "Mutant" in its comment, is what a plausible bug would make of the
definition. With it in place TLC finds the property violated.

Each module has a type invariant, `TypeOK` (`TaskTypeOK` in `IPOptTask`,
`NotifyTypeOK` in `OfflineNotify`, `DailyTypeOK` in `AutoUpdate`). The runs spend
their time on the other properties; to check it, add it under `INVARIANTS` of any
cfg of its module. Every module has it as a theorem (`IPOptTask` within `CFIPOpt`).

### Why the bounds are enough

* Two handlers are the fewest that can overlap, and a third adds nothing: a
  handler refers to another only as "the registered one is not me". One node is
  enough for the hub, because every map of the hub is indexed by the node and no
  step of one node reads another's entry; the batch and the tick, which do go over
  all nodes, are sets of independent items. The theorems hold for any number.
* One direction of traffic: a second one changes the outcome only in `Counts`,
  where one direction that goes backwards vetoes both; the theorems hold for any
  set of directions.
* One byte with `MaxSingleDelta = 1` and two boots, as in `hub_failures`, give samples
  without traffic, with an increment that counts and with a counter that went
  back; with two handlers a first sample may be applied after a newer one. An
  increment that is too large needs more bytes than TLC can follow with all this;
  the theorem `NeverOvercounts` has it. `OneEvent`, a constraint in `MCTrafficHub`,
  lets one of a second boot, a reset and a crash happen in a behaviour, so that each
  meets every order of two handlers; their combinations are the theorems'.
  `hub_catchup` is about the way from the live total to the row, for which one
  handler and one boot do.
* One event that troubles the node or the panel, in `offline`, may fall between any
  two steps of the ticker, of a handler and of the administrator, and any write of the
  row may fail besides. Two of them, and two faults in `auto_update`, are left to
  the theorems of `NoRepeat`, `NoFalseRecovery`, `RecordIsTrue` and `FailureKeepsFile`.
* Months of 4, 5, 3 and 5 days with rules for the days 1, 3, 5 and 6 contain every
  relation between a day, this month and the previous one that months of 28 to
  31 days have: a month that is longer or shorter than the one before by one and
  by more, a day that both have, one that the shorter lacks, one that no month
  has. The theorems hold for every calendar.
* With `MaxRestarts = 1` a watcher restarts once and gives up once; three
  processes are one more than the two the code can start by mistake with the
  commands the bound allows.
* Four releases of which two in a row are bad include a bad release on top of a
  bad one; four deaths exceed `MaxCrashCount = 3`.
* Three requests about a tunnel, two at a time, contain every pair that meets
  after any one request has prepared the ground, or a pair followed by a request
  that has to cope with what they left. Two tunnels are the fewest of which one
  can be stale. One fault is placed at every call in turn; two faults are two
  excuses, and the properties claim nothing after the first. One protocol has
  every combination of link, record and exclusion; protocols do not interact but
  for the set they form, and the theorems hold for any set of them.
* Two tasks are the fewest of which one can be late; the three words and two
  percentages are all that `updateProgressFromOutput` tells apart at its edges.
* Two schedulers are the fewest of which one is left over. Four requests switch the
  schedule on, off, on and off again, so that the goroutine left over by the first
  stop meets the channel of the second start and is stopped with it. Requests that
  overlap are in the theorems of `ScheduleIsTrue` and `DefaultExists` alone, and
  what `ScheduleWorks` says of them is not checked. `MaxAge = 2` is
  above the interval of one hour, so that "not yet due", "due" and "overdue" occur.
  A task may have been started by an earlier life of the panel (`Init`), and so a
  task can be overdue while the one of the run has not been started.
* One release above the one installed: a release changes a file, and the next
  one changes it again in the same way. Two goroutines that share one temporary
  file are the fewest that mix.
* One answer before the result, a queue of one command for two workers and a
  channel of one entry: each buffer is full and empty in turn. Two connections are
  the fewest of which one is stale.

## 4. Fairness

* `TrafficHub`: the flusher collects and writes (weak fairness of `Collect` and of
  `Save(n)`), and the reset goroutine finishes a node it has begun. They are
  loops on a ticker that wait for nobody outside a critical section. Failing
  writes are bounded: a database that always fails gives no liveness.
* `OfflineNotify`: the ticker fires every second and `notifyOfflineIfDue` returns
  (weak fairness of the goroutine as a whole, `Watch`), a call that has begun
  ends (`Step(p)`), deadlines and mutes pass. The HTTP client for Telegram has a
  timeout of 70 seconds. Nothing is assumed of nodes, connections and the
  administrator.
* `SingboxManager`: a watcher whose process has ended runs, and its delay of three
  seconds ends. Nothing is assumed of commands.
* `AgentUpdater`: the service manager starts the program again (`Restart=always`
  in the installation script), a process takes its next step, the first
  connection succeeds or times out, and an update that is between its two renames
  goes on. Deaths are bounded.
* `NodeTunnel`: a worker of the agent that has a command, or finds one in the
  queue, goes on: its calls of systemctl return. Nothing is assumed of handlers.
* `PanelTunnel`: handlers and watchers go on. The HTTP client for Cloudflare has a
  timeout, `Wait` returns once the process has ended, and sleeps end. A process
  need not end by itself.
* `IPOptTask`: a goroutine whose `select` has a ready channel goes on, the timeout of
  20 minutes is one of them, and reading ends with the process. cfst may hang.
* `CFIPOpt`: hours pass and schedulers go on. That a scheduler hears a stop is
  assumed with strong fairness, because the `select` of Go chooses at random among
  the channels that are ready, and a stop that stays ready is chosen some time.
* `AutoUpdate`: days pass, the ticker ticks, and a goroutine goes on. Strong
  fairness stands for the mutex of Go, which hands itself over to the one that
  waits longest. `CatchesUp` assumes that no answer of the network stops half way:
  `http.Get` has no timeout.
* `CommandChannel`: what is under way is delivered and worked on: handlers, read
  loops, workers of the present connection, writes, pages. Nobody need connect,
  ask or leave, and no log need expire.

`TrafficReset` has no liveness property: a panel that is switched off on the day
of a reset and for the rest of the month drops that cycle by design.

## 5. Theorems

All are checked by TLAPS for arbitrary constants that satisfy the named
assumptions of the module: `None` differs from every other value, bounds are
natural numbers, `Bad` does not hold the release that was installed first, months
end one after the other, 0 is among the intervals of the schedule.

| Theorem | Says | Along |
|---|---|---|
| `TrafficHub_proofs!TypeCorrect` | `[]TypeOK` | `ConnInv` |
| `TrafficHub_proofs!RegisteredConnectionIsOpen` | `[]RegisteredIsOpen` | `ConnInv` |
| `TrafficHub_proofs!CleanEntryMatchesRow` | `[]CleanMatchesRow` | `ConnInv`, `CleanInv` |
| `TrafficHub_proofs!NeverOvercounts` | `[]NoOvercount` | `ConnInv`, `OrderInv`, `MeterInv` |
| `TrafficHub_proofs!RowOnlyGrows` | `RowNeverShrinks` | `ConnInv`, `RowInv` |
| `Ticks_proofs!TypeCorrect` | `[]TypeOK` | `CycleInv` |
| `Ticks_proofs!ResetsOncePerCycle` | `[]NeverTwice` | `CycleInv` |
| `Ticks_proofs!ResetsEveryCycle` | `[]NeverSkipped` | `CycleInv` |
| `Ticks_proofs!NotifyTypeCorrect` | `[]NotifyTypeOK` | `HandlerInv` |
| `Ticks_proofs!NeverRepeats` | `NoRepeat` | `HandlerInv`, `ToldInv` |
| `Ticks_proofs!NeverFalseRecovery` | `NoFalseRecovery` | `HandlerInv`, `BackInv` |
| `SingboxManager_proofs!TypeCorrect` | `[]TypeOK` | `WatchInv` |
| `SingboxManager_proofs!RunningProcessIsWatched` | `[]RunningIsWatched` | `WatchInv` |
| `SingboxManager_proofs!OneProcessUntilCommand` | `[]SingleUntilCommand` | `SingleInv` |
| `Updates_proofs!TypeCorrect` | `[]TypeOK` | `FilesInv` and more |
| `Updates_proofs!FallbackAlwaysExists` | `[]FallbackExists` | `FilesInv` |
| `Updates_proofs!LockedNeverReinstalled` | `NeverReinstalled` | `LockInv` |
| `Updates_proofs!UpdaterKeepsPromise` | `KeepsPromise` (implements `Rollout`) | `FilesInv`, `Forward` |
| `Updates_proofs!DailyTypeCorrect` | `[]DailyTypeOK` | `PlaceInv` |
| `Updates_proofs!RecordAlwaysTrue` | `[]RecordIsTrue` | `PlaceInv`, `OnceInv` |
| `Updates_proofs!FileAlwaysKept` | `FailureKeepsFile` | `PlaceInv`, `OnceInv` |
| `NodeTunnel_proofs!TokenAlwaysMatches` | `[]TokenMatches` | `PanelInv` |
| `NodeTunnel_proofs!NothingEverLeaks` | `[]NothingLeaks` | `PanelInv`, `LeakInv` |
| `NodeTunnel_proofs!CleanupAlwaysRepairs` | `CleanupRepairs` | `PanelInv`, `AloneInv` |
| `NodeTunnel_proofs!TypeCorrect` | `[]TypeOK` | `PanelInv`, `FireInv` |
| `PanelTunnel_proofs!AlwaysSupervised` | `[]Supervised` | `ProcInv` |
| `PanelTunnel_proofs!AlwaysLeavesNothing` | `DeleteLeavesNothing` | `ProcInv`, `DeleteInv` |
| `PanelTunnel_proofs!OneClickAlwaysServes` | `OneClickServes` | `ProcInv`, `DeleteInv`, `LockInv`, `ServeInv` |
| `PanelTunnel_proofs!TypeCorrect` | `[]TypeOK` | `ProcInv`, `LockInv`, `HeldInv` |
| `CFIPOpt_proofs!TasksAlwaysTrue` | `[]TasksAreTrue` of `TaskFairSpec` | `TaskInv` |
| `CFIPOpt_proofs!ScheduledTasksAlwaysTrue` | `[]TasksAreTrue` of the composition | `TaskInv` |
| `CFIPOpt_proofs!ScheduleAlwaysTrue` | `[]ScheduleIsTrue` | `RunsInv`, `SettingsInv` |
| `CFIPOpt_proofs!DefaultAlwaysExists` | `[]DefaultExists` | `SettingsInv` |
| `CFIPOpt_proofs!TypeCorrect` | `[]TypeOK` of the composition | `TaskInv`, `PageInv`, `ListsOK` |
| `CommandChannel_proofs!NeverSendsOnClosed` | `[]NoSendOnClosed` | `ViewInv` |
| `CommandChannel_proofs!DeletedIsAlwaysGone` | `[]DeletedIsGone` | `GoneInv`, `ViewInv` |
| `CommandChannel_proofs!StreamIsAlwaysTrue` | `[]StreamIsTrue` | `LogInv` |
| `CommandChannel_proofs!PagesShowTheLog` | `ShowsTheLog` (implements `CommandLog`) | `LogInv` |
| `CommandChannel_proofs!TypeCorrect` | `[]TypeOK` | `SampleInv`, `GoneInv`, `ViewInv`, `LogInv` |

* `ConnInv` is `TypeOK`, `RegisteredIsOpen` and `HandlerInv`. The type invariant is
  not inductive alone: `Apply` indexes the maps with the owner of the handler,
  which must be a node and not `None` while it has a sample in its hand or is
  binding; `HandlerInv` says so.
* `CleanInv` adds to `CleanMatchesRow` what makes it inductive: a total that is in
  a batch and not dirty again equals the live total (`InFlightMatches`), so that
  the write of the batch makes them agree; an entry that is gone has no batch
  (`NoOrphanBatch`); a node that is not being deleted has its row (`RowsAreKept`).
  `Save` without `InFlightMatches` could write anything.
* `OrderInv` puts the samples in order: what was heard of a node is at most what it
  moved, the baseline of its live entry is the counter of the last sample heard,
  and a sample in a handler's hand is later than the baseline if the handler is the
  registered one. `NoOvercount` needs that order, because an increment is what the
  machine moved only if it is taken from the sample before. The sample of a
  superseded handler and a first sample that is older than the baseline are the
  exceptions, and `late` marks both.
* `MeterInv` bounds every copy of a total at once: the live entry, the batch, the
  row and the copy of an edit, since each of them may become the live total by a
  write, a read after a deletion of the entry or a restart. In the first cycle
  of a node all of them are within what was heard (`FirstCycle`). After a reset
  an old copy is larger, and only the live entry and the fact that the panel has
  not crashed keep it from being read (`NeverCrashed`).
* `RowInv` orders the copies by age, edit, row, batch, live entry: a write moves a
  younger copy onto an older one, so the row grows. An entry whose base could not
  be read is no younger than anything and is left out (`misloaded`).
* `CycleInv` says that `traffic_reset_at` is either the day of the last reset or what
  the change of the rule made of it (`BooksInv`), the same of the row an open
  edit is about to save (`EditInv`), and that a tick which began before the present
  rule finds a later `traffic_reset_at` when it resets at last (`Noticed`), so that
  the late reset is seen. From these, `ShouldReset` and the reference agree on
  every day; that is a lemma for each mode (`CalendarMonthAgrees`,
  `FixedDayAgrees`, `IntervalAgrees`) about months as intervals of days, and about
  division for `interval_days`.
* `HandlerInv` adds to the types of `OfflineNotify` that the handler of a connection
  is in a call while it registers or ends, and only then, and that a tick that
  sends the alarm has no candidate left. `ToldInv` says where the knowledge is that
  "offline" was told and nothing was dropped since: in the goroutine of the tick
  that is about to record it, or in the entry; then the node is no candidate. Any
  call may rewrite the entry meanwhile, and every one of them keeps `last`, which
  is `Kept`.
* `BackInv` speaks of calls that have not met. One of them at most waits for
  Telegram or the database (`Alone`), and each of the places that make
  `NeedOnlineNotify` true goes back to an outage that was told, until the call that
  tells its end has taken it back: the marker at "clear", the entry at "forget".
  It says nothing of the row, which a failed write or an edit may falsify at any
  time; a start that believes such a row is what `misled` records.
* `WatchInv` is `TypeOK` and `RunningIsWatched`. The heart is `WatchExit`: a
  watcher of an old process sets `running` to false, which is wrong but makes the
  invariant true; only `StartProcess` sets it to true, and it sets the watcher too.
* `SingleInv` says that before the first command every worker is idle, one
  goroutine at most watches (`OneWatcher`), the process that lives is the one the
  PID file names (`PidFileNames`), a waiting watcher watches the only process and
  one in its delay waits for nothing (`WatcherKnows`), and a start of the agent
  finds no watcher. A process that lives through a crash of the agent is found by
  `KillOrphanProcess` because the PID file names it.
* `FilesInv` ties the version that executes to a file (`WhereImageIs`): it is at
  `selfPath` until an update moves it and then at `.bak`, and an update runs only in
  a program that has completed a handshake. So what an update leaves at `.bak` has
  proved itself, and `MarkHealthy` may remove it.
* `LockInv` says that versions do not run ahead of the newest release (`Older`),
  that the lock on disk names a condemned version, and that once the newest release
  is condemned its lock is on disk and in memory and neither an update nor a rollback
  is under way (`NewestCondemned`). Updates install the newest release only, so a
  lock that gives way to a newer one is not missed.
* The refinement of `Rollout` needs `FilesInv` for every step (what is at `.bak` when
  a file moves) and `Forward`: a target is newer than the version that executes.
* `PlaceInv` says of the goroutines of `AutoUpdate` that each is at a step its
  component has, that the file it has open exists under the name it knows, and
  that the mutex of Mihomo admits one.
* `OnceInv` speaks of an update that nothing disturbs: one download at a time, and
  at each step (`Stage`) how far it has come: the body, the temporary file and the
  file in use are whole and of a proper release where they must be, the row and
  the open database agree with the file (`Recorded`) except at the end of an
  update, or after an end that failed (`botched`). The recorded number of the
  database was once the newest (`RowKnown`), so that it is never ahead of the
  file, whatever fails. `RecordIsTrue` speaks of the moments between updates only and
  `FailureKeepsFile` of the file in use only; neither is inductive.

* `PanelInv` types the row, the account and the handlers, says which steps each kind
  of request goes through, and that every copy of the row that a handler holds
  has the token of its tunnel and a domain (`TokenInv`): a handler that is late writes
  an older row, and it must be a row that was right once. `DomainInv` says that
  enabling writes a domain.
* `LeakInv` says of a history without mishap that one handler runs at most and
  where it is (`Situation`): between creation and the write of the row the account
  has a tunnel that only the handler knows, during a cleanup it has less than the
  row says. Between requests the two agree (`Tidy`), and the row has a domain exactly
  if it has a tunnel (`Paired`). `NothingLeaks` speaks of the
  moments between requests only and is far from inductive.
* `FireInv` says that a handler that is about to send a command to start has a
  copy of the row with a tunnel: the row itself may have lost it since.
* `AloneInv` follows one cleanup whatever was there before: after "unbind" the
  records of the hosts it read are gone, after "destroy" its tunnel is.
* `ProcInv` adds to `Supervised` that one goroutine watches at most until `raced`
  (what `Notice` takes off the books is then the process that ended), and types.
* `DeleteInv` says of a deletion that nothing disturbs that its handler is alone and
  what it has done by each step (`Undone`): the request to stop is in force, the
  record of the host is gone, the tunnel, the file, then one setting after the
  other. That no process is left follows from `ProcInv`: after a request to stop
  nothing is tracked.
* `LockInv` of `PanelTunnel` says that between the two halves of a start the handler has
  the lock and nothing is tracked. `ServeInv` follows the setup that nothing disturbs: by each
  step the setting, the token, the record and the rule written so far belong to
  one tunnel that exists. It needs `DeleteInv` for the handler to be alone, and
  `LockInv` for the process that is started to be its own.
* `HeldInv` says who holds `cfProcessMu` across a call: nobody but a handler in
  the middle of `StartCFTunnel`, so that the lock names a handler that will let go.
* `TaskInv` is about what the goroutines share: the task said to be running has an
  open channel (`OwnerInv`), and as long as no task was started into the end of
  another, the globals belong to the one task there is (`SoleInv`).
* The steps of `CFIPOpt` are steps of `IPOptTask` or leave its variables alone
  (`NextIsTaskNext`), so `TaskInv` is carried over as it is.
* `RunsInv` says that the goroutine of the schedule that is on waits on its own
  channel, which is the global one; a goroutine left over may wait on the same
  channel. `SettingsInv` says of requests that have never met that what a handler
  read is still so when it writes (`Reads`), and what is inconsistent between its
  two writes: a schedule that is on while "off" is saved, a default address that
  has just been deleted.
* `ViewInv` ties an open channel to a page whose handler is still there; without it
  a page could come back to a channel that was closed.
* `GoneInv` says that of the connections that were ever registered only the
  registered one is open, and that once the hub is cleaned no handler is between
  its two critical sections, unless `late` says so.
* `LogInv` adds the types of all that is on its way (queue, jobs, messages) to
  `StreamIsTrue`, which is inductive for a page by itself: the log, the history a
  page starts from and its channel change together. The refinement of `CommandLog`
  needs `StreamIsTrue` twice: what a page shows next is the next answer of the log, and a
  page whose channel is full is as many answers behind as the channel holds.
* `SampleInv` says that at most one first sample is under way on a connection, and
  only to a handler that still waits for it; without it `TypeOK` is not inductive,
  because a connection could be checked again after it was registered.

Every safety property of the runs, invariant or action property, is a theorem.
Only model-checked: the liveness properties `StaleWriteHeals`, `RowCatchesUp`, `StatusFollows`,
`PlainOutageAnnounced`, `RecoveryAnnounced`, `Recovers`, `Reconnects`, `ServiceFollows`,
`StopSticks`, `TasksEnd`, `ScheduleWorks`, `CatchesUp`, `StreamEnds` and `Answered`: liveness under
fairness is out of the prover's reach.

## 6. Where the code and its texts disagree

Four definitions state what a comment or a page says, and the code does not do.
They are in the modules but in no run; checked with the constants given here, TLC
finds each violated.

* An edit of a node saves every column of a row that was read before
  (`node_handler.go:283`) and puts older totals back. `EditKeepsTotals` in
  `MCTrafficHub`, specification `Spec`, as `hub_catchup.cfg` with
  `MaxSingleDelta = 2`, `MaxReset = 0`, no failure and one edit.
* A rule that is changed on March 29 or 30 skips the reset of March 31 after a
  short February (`traffic_reset.go:148`, against the comment at 117):
  `AddDate(0, -1, 0)` of the 29th is a day of March. `UpcomingDayTriggers` in
  `MCTrafficReset` with `MonthEnd <- RealMonths`, `Request <- RealRequests`,
  `MaxDay = 31`, `DefaultInterval = 30`, `MaxInterval = 365`, `MaxEdit = 1`; with the
  constants of `reset_calendar.cfg`, too. `NeverSkipped` names this case and the
  proof shows that it is the only one.
* An outage that has begun before the grace period is raised from zero is never
  announced (`telegram_bot.go:902`, against `system_settings_modal.html:2875`).
  `OutageAnnounced` in `OfflineNotify` with `offline.cfg`.
* The watcher of a process that a command has killed starts a second process
  (`singbox/manager.go:330`, against the comments at 429 and 470).
  `AtMostOneProcess` in `SingboxManager` with three processes, one worker,
  `MaxRestarts = 1`, `MaxCommand = 1` and the other bounds 0.

Seen while modelling:

Traffic and nodes

* `traffic_live.go:998` says that `ResetNodeTrafficLiveState` keeps old totals from
  being written after a reset; a batch collected before the reset is written
  after it. `StaleWriteHeals` shows that it does not stay.
* `loadNodeTrafficBase` answers zero when its read fails, and the next flush
  writes a total that starts from zero (variable `misloaded`). The sample of a
  superseded handler may be counted after one of its successor.
* The first sample of a connection is read before the connection is registered
  (`traffic_live.go:543`) and applied after (`:627`). When an older connection
  applied a newer sample meanwhile, the baseline goes back and the next increment
  counts the bytes in between twice (`late`, the excuse of `NoOvercount`).
* `updater.go:339` calls the switch of programs atomic; it is two renames, and a
  death between them leaves no program at `selfPath`. `FallbackExists` shows that
  the `.bak` is there; nothing in the agent can restore it then.
* A temporary state file that could not be written in full is renamed over the
  good one all the same (`updater.go:114-117`) and reads as zero: count and lock are
  lost. `condemned` counts the locks written since.
* On the stable channel the updater gives up while the newest release lacks a
  file; on the alpha channel it takes the newest complete one.
* The threshold check writes its copy of a cache entry back, and two samples that
  pass the limit together both send the command.

Commands (`CommandChannel`)

* The log of a command whose write failed stays for good; the comment at
  `traffic_live.go:1232` says that it is removed after five minutes.
* A page waits for ever when the agent ends before the result, or when its channel
  is full as the result comes (`over` and the excuses of `Answered`).
* `CleanupNodeState` closes the channels of live pages, and the handler of the page
  closes its channel again: the panic is recovered by `net/http`.
* A read loop whose connection was replaced marks the new connection as down, and
  answers are dropped until the agent connects again.
* An agent that connects between `CleanupNodeState` and `DeleteNodeNotifyConfig`
  is registered for a node that is gone (`late`).
* The check at the start passes over a node that is offline at that minute and
  does not come back to it.

Tunnels (`NodeTunnel`, `PanelTunnel`)

* A stopped tunnel of a node comes back with a reboot: its service stays enabled.
* Enabling beside a deletion leaves a domain without a tunnel in the row; the next
  start makes records for it that point at the tunnel of the panel, before it looks
  for the id (`node_handler.go:1136`, `1160`).
* Two workers of the agent let a stop be overtaken by a start (`skewed`).
* After a failure between the deletion at Cloudflare and the write of the row the
  next enabling reuses a tunnel that is gone; an edit can bring back the columns
  of a tunnel in the same way.
* A protocol that is edited away leaves its DNS record behind, since a cleanup
  computes the hosts from the links that are there ("link" in `mishaps`).
* A start while an old watcher is in its delay ends in two cloudflared processes
  of which one is not tracked (`raced`); `retryCount` is never reset.
* A token that cannot be fetched leaves the token of the tunnel before in the
  settings and the start uses it, while the log speaks of the credentials file.
* `setCFConfig` and the removals of files do not look at errors
  (`cf_tunnel.go:209-211`, `898-906`): a deletion may report success and leave a
  setting or the file behind. A watcher that cannot open its log file when it
  wakes returns without a word to the administrator (`cf_tunnel.go:1397-1402`).
* Deletion by id and a change of the host leave a DNS record behind; a panel that
  is killed leaves cloudflared running.

IP optimisation (`IPOptTask`, `CFIPOpt`)

* Nothing starts the scheduler with the panel, a tick counts only at minute 0 and
  second 0, so that a scheduler that is not aligned never starts a task
  (`cf_modal.html:2496` says that tasks run on the hour), and a new interval has no
  effect on one that runs.
* Saving the settings starts the scheduler also while manual addresses are
  preferred, of which `cf_modal.html:2370` says that it disables the schedule.
* `GetEffectiveOptIP` is not called: subscriptions take the first optimised address.
* A new manual address is enabled beside another, while `ToggleManualIPOpt` keeps
  one enabled at most.
* A stop that comes before the process is there leaves cfst running (`unheard`),
  and a stopped task may end as failed or completed.

Offline notification (`OfflineNotify`)

* `offline_last_notify_at` is written without a look at the error
  (`telegram_bot.go:108`, and only a warning at 375), and an edit puts an old one
  back (`node_handler.go:283`). The cache hides it until the panel starts again:
  then the node is told to be back of an outage nobody heard of, or its return is
  not told (`misled`, the excuse of `NoFalseRecovery` and `RecoveryAnnounced`).

Updates (`AutoUpdate`)

* CloudflareST is unpacked over the program in use; a failure leaves a broken one,
  or a new one under the old number when only a later file of the archive fails.
  When the number was the newest already, as in a download that a user forces, no
  daily check repairs it before the next release: the checks compare numbers
  (the second case of `CatchesUp`). The same holds of a database whose reopening
  failed and of a core whose permission failed.
* The version of the GeoIP database is asked for before the download, so that the
  recorded version may be older than the file. A rename that fails leaves the
  database closed (`geo.go:157`).
* `os.Chmod` and `os.Remove` of the Mihomo core are not looked at
  (`mihomo.go:165`, `168`); cloudflared is renamed before it may be run
  (`cf_tunnel.go:486`).
* A check that fails is not repeated on the same day, and one that is caused by
  switching the updates on before three o'clock counts for the day.
* A crash between the removal and the rename of the Mihomo core loses it, and so
  does a rename that fails.

## 7. What is not modelled, and the plan

In this order:

1. `Threshold` (`traffic_threshold.go` with its five callers): cached rule and
   mark, mark of the row, command; one command per crossing, agreement of cache
   and row.
2. `NodeLinks` (the links of a node in `handleNodeOnline`, `handleLinksUpdate`,
   `apiUpdateNode`, `apiResetProtocol`): all of them read, change and write a JSON
   column and lose updates. `NodeTunnel` has the two that matter for records.
3. `LoginLimiter`, `ServerLifecycle`: small state machines under one mutex.
4. History rows (`traffic_stats.go`, `traffic_history_count.go`).
5. Abstract specifications: `BillingMeter` (a total that only grows within a
   cycle and is at most what was moved), implemented by `TrafficHub`; `OneProcess`
   (a supervised process that is up, down or waiting), implemented by
   `SingboxManager` without commands and by `PanelTunnel` while not `raced`.
6. Proofs: that the abstract specifications of item 5 are implemented, step by step.

Left out of modules that are there: the settings that a setup of the panel's tunnel
writes (`List`, `Token`, `Post`, `NewToken`, `Save` of `PanelTunnel`) are taken to be
stored, only those that a deletion clears may fail; and an edit of a node with a
stale row also brings back the old choice whether to notify, which takes effect at
the next start: `OfflineNotify` leaves that out.

Not modelled and not planned: conversions (configuration files, links, Clash
files, subscriptions), logs, forms and templates, the ACME library, the check of
a token's permissions, the bot commands of Telegram, the installation script, the
online status and history charts, and the drivers of the databases. They keep no
state that two steps share, or only state that a database transaction guards.
