--------------------------- MODULE CommandChannel ---------------------------
(***************************************************************************)
(* Commands from the panel to the agent of a node and their answers: the   *)
(* pages that send them (internal/server/node_handler.go,                  *)
(* agent_handler.go, and the check of internal/service/                    *)
(* agent_startup_update.go), the hub that keeps a log of the answers for   *)
(* the pages that follow it (internal/service/traffic_live.go), and the    *)
(* agent's connections, queue and workers (internal/agent/reporter.go,     *)
(* runtime.go).  The live page of the node and its deletion share the      *)
(* connection and the subscribers with them.                               *)
(*                                                                         *)
(* One node.  A command is its id: it is sent once.  Its answers are       *)
(* numbered: 1 is "accepted", then progress, and Result.  Connections are  *)
(* numbered in the order the agent makes them.  The samples of traffic     *)
(* that flow on a connection matter here by the first of them, which       *)
(* tells the panel whose connection it is; TrafficHub has the others.      *)
(***************************************************************************)
EXTENDS Naturals, Sequences, SequencesExt, FiniteSets

CONSTANTS
  Cmd,       \* ids of commands
  Update,    \* those that ask the agent to look for a new version
  Stream,    \* pages that follow the log of a command
  Viewer,    \* live pages
  Version,   \* numbers of releases
  None,      \* no connection, no command, no version
  Steps,     \* answers before the result
  QueueCap,  \* capacity of Reporter.cmdCh (4)
  PerConn,   \* workers started for a connection (2)
  StreamCap, \* capacity of the channel of a stream (64)
  MaxConn,   \* bound: connections
  MaxEvent,  \* bound: connections broken, restarts of the agent, the deletion
             \* of the node, commands after the first, pages left, logs expired
  MaxPage    \* bound: pages opened

ASSUME UpdateAssumption == Update \subseteq Cmd
ASSUME SizeAssumption == {Steps, QueueCap, PerConn, StreamCap, MaxConn} \subseteq Nat \ {0}
ASSUME BoundAssumption == {MaxEvent, MaxPage} \subseteq Nat
ASSUME NoneAssumption == None \notin 1 .. MaxConn /\ None \notin Cmd

Conn == 1 .. MaxConn
Result == Steps + 1
Worker == Conn \X (1 .. PerConn)

VARIABLES
  \* the panel
  node,       \* "there", "deleted" from the table, "cleaned" in the hub, "forgotten"
  registered, \* hub.agentConns, or None
  served,     \* connections that a handler reads
  checked,    \* those whose handler found the node known and has yet to register it
  bound,      \* those that were registered
  request,    \* how far FireCommandToNode is with a command, and on which connection
  kept,       \* commands with a log in hub.cmdLogs
  entries,    \* the answers that came into the log of a command
  stream,     \* pages that follow a log, or None: what they showed, their channel
  startup,    \* the check at the start is to come, and will find the agent behind
  late,       \* history: a connection was taken on while the node was deleted
  \* the network
  open,       \* connections that are not closed
  up,         \* messages to the panel
  down,       \* commands to the agent
  \* the agent
  made,       \* number of connections made
  conn,       \* Reporter.conn, or None
  connected,  \* Reporter.connected
  reading,    \* connections with a read loop
  failing,    \* those whose read loop met an error and is about to say so
  queue,      \* Reporter.cmdCh: commands, and the connection each came by
  alive,      \* workers that run
  job,        \* the command each one carries out, or None
  aside,      \* checks for a new version that go on beside the workers
  \* the live pages
  viewer,     \* what the handler of each live page is doing
  subscribed, \* hub.subscribers of the node: its channels
  closed,     \* channels that are closed
  events      \* budget

bindVars == <<registered, served, checked, bound, late>>
logVars == <<kept, entries, stream>>
netVars == <<open, up, down>>
linkVars == <<made, conn, connected, reading, failing>>
workVars == <<queue, alive, job, aside>>
viewVars == <<viewer, subscribed, closed>>
panelVars == <<node, request, startup, bindVars, logVars, viewVars>>
agentVars == <<linkVars, workVars>>
vars == <<panelVars, netVars, agentVars, events>>

Task == [cmd : Cmd, via : Conn]
Answer == 1 .. Result
Sample == <<"sample">>
Following == [cmd : Cmd, on : BOOLEAN, over : BOOLEAN, got : Seq(Answer), buf : Seq(Answer)]

ASSUME PageAssumption == None \notin Following

TypeOK ==
  /\ node \in {"there", "deleted", "cleaned", "forgotten"}
  /\ registered \in Conn \cup {None}
  /\ served \subseteq Conn /\ checked \subseteq served /\ bound \subseteq Conn
  /\ checked \cap bound = {}
  /\ request \in [Cmd -> [at : {"new", "write", "sent", "failed"}, on : Conn \cup {None}]]
  /\ kept \subseteq Cmd /\ entries \in [Cmd -> Seq(Answer)]
  /\ stream \in [Stream -> Following \cup {None}]
  /\ startup \in BOOLEAN /\ late \in BOOLEAN
  /\ open \subseteq Conn
  /\ up \in [Conn -> Seq({Sample} \cup (Cmd \X Answer))] /\ down \in [Conn -> Seq(Cmd)]
  /\ made \in 0 .. MaxConn /\ conn \in Conn \cup {None}
  /\ connected \in BOOLEAN /\ (connected => conn = made)
  /\ reading \subseteq Conn /\ failing \subseteq Conn
  /\ queue \in Seq(Task) /\ Len(queue) <= QueueCap
  /\ alive \subseteq Worker
  /\ job \in [Worker -> {None} \cup [cmd : Cmd, via : Conn, next : Answer]]
  /\ \A w \in Worker : job[w] # None => w \in alive
  /\ aside \subseteq Task
  /\ viewer \in [Viewer -> {"new", "on", "left", "panicked"}]
  /\ subscribed \subseteq Viewer /\ closed \subseteq Viewer
  /\ events \in 0 .. MaxEvent

(* The releases at GitHub, and the newest of a channel.                     *)
Release == [alpha : BOOLEAN, n : Version]
Newest(releases, alpha) ==
  LET numbers == {r.n : r \in {x \in releases : x.alpha = alpha}} IN
  IF numbers = {} THEN None ELSE Max(numbers)

(* An agent is asked to update when the newest release of its own channel  *)
(* is above the version in its row; a row without one is passed over.      *)
Behind(version, releases) ==
  /\ version # None
  /\ Newest(releases, version.alpha) # None
  /\ version.n < Newest(releases, version.alpha)

Init ==
  /\ node = "there" /\ registered = None
  /\ served = {} /\ checked = {} /\ bound = {} /\ late = FALSE
  /\ request = [c \in Cmd |-> [at |-> "new", on |-> None]]
  /\ kept = {} /\ entries = [c \in Cmd |-> <<>>] /\ stream = [s \in Stream |-> None]
  /\ \E version \in Release \cup {None}, releases \in SUBSET Release :
       startup = Behind(version, releases)
  /\ open = {} /\ up = [k \in Conn |-> <<>>] /\ down = [k \in Conn |-> <<>>]
  /\ made = 0 /\ conn = None /\ connected = FALSE /\ reading = {} /\ failing = {}
  /\ queue = <<>> /\ alive = {} /\ job = [w \in Worker |-> None] /\ aside = {}
  /\ viewer = [v \in Viewer |-> "new"] /\ subscribed = {} /\ closed = {} /\ events = 0
-----------------------------------------------------------------------------
Event == events < MaxEvent /\ events' = events + 1

(* The network.  When a connection closes, by either side or by itself,    *)
(* what is under way on it may arrive or not.                              *)
Emptied(queues, k) == IF k \in open THEN {queues, [queues EXCEPT ![k] = <<>>]} ELSE {queues}

Closes(k) ==
  /\ open' = open \ {k} /\ up' \in Emptied(up, k) /\ down' \in Emptied(down, k)

Drop(k) ==
  /\ k \in open /\ Closes(k) /\ Event
  /\ UNCHANGED <<panelVars, agentVars>>

Delivers(k, message) == k \in open /\ up' = [up EXCEPT ![k] = Append(@, message)] /\ UNCHANGED <<open, down>>
-----------------------------------------------------------------------------
(* The agent makes a connection: it closes the one before and ends its     *)
(* read loop, and starts a read loop and workers of its own.               *)
Connect ==
  /\ ~connected /\ made < MaxConn
  /\ LET k == made + 1 IN
     /\ made' = k /\ conn' = k /\ connected' = TRUE /\ reading' = {k}
     /\ alive' = alive \cup {w \in Worker : w[1] = k}
     /\ open' = (open \ {conn}) \cup {k} /\ up' \in Emptied(up, conn)
     /\ down' = [i \in Conn |-> <<>>]
     /\ served' = served \cup {k}
  /\ UNCHANGED <<node, registered, checked, bound, late, request, logVars, startup, failing,
                 queue, job, aside, viewVars, events>>

(* The main loop's next sample: the first one on a connection is the one   *)
(* that counts here.  A write that fails marks the agent as not connected. *)
SendLive ==
  /\ connected
  /\ \/ /\ conn \in open /\ conn \notin checked \cup bound /\ Sample \notin Range(up[conn])
        /\ Delivers(conn, Sample)
        /\ UNCHANGED linkVars
     \/ /\ conn \notin open /\ connected' = FALSE
        /\ UNCHANGED <<netVars, made, conn, reading, failing>>
  /\ UNCHANGED <<panelVars, workVars, events>>

Cancelled(k) == k # conn

(* A read loop meets an error.  Unless its context was cancelled it is     *)
(* going to set connected, once Reporter.mu is free: Connect holds it.     *)
ReadError(k) ==
  /\ k \in reading /\ k \notin open /\ down[k] = <<>>
  /\ reading' = reading \ {k} /\ failing' = failing \cup {k}
  /\ UNCHANGED <<panelVars, netVars, made, conn, connected, workVars, events>>

SetDown(k) ==
  /\ k \in failing
  /\ failing' = failing \ {k} /\ connected' = FALSE
  /\ UNCHANGED <<panelVars, netVars, made, conn, reading, workVars, events>>

(* sendResult: an answer goes out on the present connection, under the     *)
(* context of the connection its command came by.  When that one is        *)
(* cancelled, the write may go through, fail, or close the connection.     *)
Send(c, answer, via) ==
  \/ connected /\ Delivers(conn, <<c, answer>>)
  \/ (~connected \/ conn \notin open \/ Cancelled(via)) /\ UNCHANGED netVars
  \/ connected /\ conn \in open /\ Cancelled(via) /\ Closes(conn)

(* Mutant: a command that finds the queue full is dropped.                  *)
Receive_Drops(k) ==
  /\ k \in reading /\ down[k] # <<>>
  /\ down' = [down EXCEPT ![k] = Tail(@)]
  /\ queue' = IF Len(queue) < QueueCap THEN Append(queue, [cmd |-> Head(down[k]), via |-> k]) ELSE queue
  /\ UNCHANGED <<panelVars, linkVars, alive, job, aside, open, up, events>>

(* The read loop gets a command and puts it in the queue, or refuses it.   *)
Receive(k) ==
  /\ k \in reading /\ down[k] # <<>>
  /\ LET c == Head(down[k])
         rest == [down EXCEPT ![k] = Tail(@)]
     IN \/ /\ Len(queue) < QueueCap
           /\ queue' = Append(queue, [cmd |-> c, via |-> k])
           /\ down' = rest /\ UNCHANGED <<open, up>>
        \/ /\ Len(queue) = QueueCap
           /\ down' = rest /\ UNCHANGED <<open, queue>>
           /\ IF connected /\ conn \in open
              THEN up' = [up EXCEPT ![conn] = Append(@, <<c, Result>>)] ELSE UNCHANGED up
  /\ UNCHANGED <<panelVars, linkVars, alive, job, aside, events>>

(* A worker takes a command.  One of an older connection ends when it      *)
(* looks at its context, and the select may find the command first.        *)
Take(w) ==
  /\ w \in alive /\ job[w] = None /\ queue # <<>>
  /\ job' = [job EXCEPT ![w] = [cmd |-> Head(queue).cmd, via |-> Head(queue).via, next |-> 1]]
  /\ queue' = Tail(queue)
  /\ UNCHANGED <<panelVars, netVars, linkVars, alive, aside, events>>

(* "accepted", and the progress of the command.                            *)
Work(w) ==
  /\ job[w] # None /\ job[w].next < Result
  /\ Send(job[w].cmd, job[w].next, job[w].via)
  /\ job' = [job EXCEPT ![w].next = @ + 1]
  /\ UNCHANGED <<panelVars, linkVars, queue, alive, aside, events>>

(* The result, after all progress or, when a step fails, before; a check   *)
(* for a new version gives it from a goroutine of its own.                 *)
Finish(w) ==
  /\ job[w] # None /\ job[w].next > 1
  /\ \/ /\ job[w].cmd \notin Update
        /\ Send(job[w].cmd, Result, job[w].via)
        /\ UNCHANGED aside
     \/ /\ job[w].cmd \in Update /\ job[w].next = Result
        /\ aside' = aside \cup {[cmd |-> job[w].cmd, via |-> job[w].via]}
        /\ UNCHANGED netVars
  /\ job' = [job EXCEPT ![w] = None]
  /\ UNCHANGED <<panelVars, linkVars, queue, alive, events>>

TriggerCheck(t) ==
  /\ t \in aside
  /\ Send(t.cmd, Result, t.via)
  /\ aside' = aside \ {t}
  /\ UNCHANGED <<panelVars, linkVars, queue, alive, job, events>>

(* The agent ends and starts anew, to update itself for one.               *)
Restart ==
  /\ conn # None
  /\ Event /\ open' = open \ {conn} /\ up' \in Emptied(up, conn)
  /\ down' = [i \in Conn |-> <<>>]
  /\ conn' = None /\ connected' = FALSE /\ reading' = {} /\ failing' = {}
  /\ queue' = <<>> /\ alive' = {} /\ job' = [w \in Worker |-> None] /\ aside' = {}
  /\ UNCHANGED <<panelVars, made>>
-----------------------------------------------------------------------------
(* Mutant: nobody asks whether the node is known.                           *)
Check_Any(k) ==
  /\ k \in served /\ up[k] # <<>> /\ Head(up[k]) = Sample
  /\ checked' = checked \cup {k} /\ late' = (late \/ node = "cleaned")
  /\ up' = [up EXCEPT ![k] = Tail(@)]
  /\ UNCHANGED <<node, registered, served, bound, request, logVars, startup, viewVars, agentVars,
                 open, down, events>>

(* The handler of a connection finds with the first sample that the node   *)
(* is known, and then registers the connection.                            *)
Check(k) ==
  /\ k \in served /\ up[k] # <<>> /\ Head(up[k]) = Sample
  /\ IF node # "forgotten"
     THEN /\ checked' = checked \cup {k} /\ late' = (late \/ node = "cleaned")
          /\ up' = [up EXCEPT ![k] = Tail(@)] /\ UNCHANGED <<open, down>>
     ELSE /\ up' = [up EXCEPT ![k] = <<>>] /\ open' = open \ {k}
          /\ UNCHANGED <<checked, late, down>>
  /\ UNCHANGED <<node, registered, served, bound, request, logVars, startup, viewVars, agentVars, events>>

Register(k) ==
  /\ k \in checked
  /\ checked' = checked \ {k} /\ bound' = bound \cup {k}
  /\ registered' = k
  /\ Closes(registered)
  /\ UNCHANGED <<node, served, late, request, logVars, startup, viewVars, agentVars, events>>

Unregister(k) ==
  /\ k \in served \ checked /\ k \notin open /\ up[k] = <<>>
  /\ served' = served \ {k}
  /\ registered' = IF registered = k THEN None ELSE registered
  /\ UNCHANGED <<node, checked, bound, late, request, logVars, startup, viewVars, netVars, agentVars, events>>
-----------------------------------------------------------------------------
IsNodeOnline == registered # None

(* FireCommandToNode: the log is made before the command is written, and   *)
(* only a write that succeeds starts the clock that removes it.  A write   *)
(* to a connection that has just broken may still seem to succeed.         *)
Fire(c) ==
  /\ request[c].at = "new" /\ registered # None
  /\ request' = [request EXCEPT ![c] = [at |-> "write", on |-> registered]]
  /\ kept' = kept \cup {c}
  /\ IF \A other \in Cmd : request[other].at = "new" THEN UNCHANGED events ELSE Event
  /\ UNCHANGED <<entries, stream>>

Write(c) ==
  /\ request[c].at = "write"
  /\ LET k == request[c].on IN
     \/ /\ k \in open /\ down' = [down EXCEPT ![k] = Append(@, c)]
        /\ request' = [request EXCEPT ![c].at = "sent"]
     \/ /\ k \notin open /\ UNCHANGED down
        /\ \E at \in {"sent", "failed"} : request' = [request EXCEPT ![c].at = at]
  /\ UNCHANGED <<node, startup, bindVars, logVars, viewVars, open, up, agentVars, events>>

FromPage == UNCHANGED <<node, startup, bindVars, viewVars, netVars, agentVars>>

CheckAgentUpdate(c) == c \in Update /\ node = "there" /\ IsNodeOnline /\ Fire(c) /\ FromPage

PushConfig(c) == c \notin Update /\ node = "there" /\ IsNodeOnline /\ Fire(c) /\ FromPage

ResetProtocol(c) == c \notin Update /\ node = "there" /\ Fire(c) /\ FromPage

(* The check made once, a minute after the start: a node that is behind    *)
(* gets the command if it is connected at that moment.                     *)
StartupCheck ==
  /\ startup /\ startup' = FALSE
  /\ IF node = "there" /\ IsNodeOnline /\ \E c \in Update : request[c].at = "new"
     THEN \E c \in Update : Fire(c)
     ELSE UNCHANGED <<request, logVars, events>>
  /\ UNCHANGED <<node, bindVars, viewVars, netVars, agentVars>>

Done(c) == Result \in Range(entries[c])

(* Mutant: the channel has no buffer, and a page that is not waiting at    *)
(* that moment misses the answer.                                          *)
Told_Unbuffered(s, c, answer) ==
  IF s = None \/ c \notin kept THEN s
  ELSE IF s.cmd # c \/ ~s.on THEN s ELSE [s EXCEPT !.over = TRUE]

(* An answer for a page that follows the log: it goes into the channel of  *)
(* the page, or is dropped if there is no room.                            *)
Told(s, c, answer) ==
  IF s = None \/ c \notin kept THEN s
  ELSE IF s.cmd # c \/ ~s.on THEN s
  ELSE IF Len(s.buf) < StreamCap THEN [s EXCEPT !.buf = Append(@, answer)]
  ELSE [s EXCEPT !.over = TRUE]

(* An answer arrives: it is added to the log of its command, if there is   *)
(* one, and to the channel of every page that follows it and has room.     *)
Answers(k) ==
  /\ k \in served \ checked /\ up[k] # <<>> /\ Head(up[k]) # Sample
  /\ LET c == Head(up[k])[1]
         answer == Head(up[k])[2]
     IN /\ entries' = IF c \in kept THEN [entries EXCEPT ![c] = Append(@, answer)] ELSE entries
        /\ stream' = [s \in Stream |-> Told(stream[s], c, answer)]
  /\ up' = [up EXCEPT ![k] = Tail(@)]
  /\ UNCHANGED <<node, request, kept, startup, bindVars, viewVars, open, down, agentVars, events>>

(* Five minutes after the command was sent.                                *)
Expire(c) ==
  /\ request[c].at = "sent" /\ c \in kept /\ Event
  /\ kept' = kept \ {c}
  /\ UNCHANGED <<node, request, startup, bindVars, entries, stream, viewVars, netVars, agentVars>>

Opens == Cardinality({s \in Stream : stream[s] # None} \cup {v \in Viewer : viewer[v] # "new"}) < MaxPage

StreamOnly == UNCHANGED <<node, request, startup, bindVars, kept, entries, viewVars, netVars, agentVars>>

(* A page follows the log: it gets what is there, and a channel for what   *)
(* is to come unless the result is there already.                          *)
Follow(s, c) ==
  /\ stream[s] = None /\ c \in kept /\ Opens /\ UNCHANGED events
  /\ stream' = [stream EXCEPT ![s] =
       [cmd |-> c, on |-> ~Done(c), over |-> FALSE, got |-> entries[c], buf |-> <<>>]]
  /\ StreamOnly

On(s) == stream[s] # None /\ stream[s].on

(* Mutant: the page waits on after the result.                              *)
Show_GoesOn(s) ==
  /\ stream[s] # None /\ stream[s].on /\ stream[s].buf # <<>> /\ UNCHANGED events
  /\ stream' = [stream EXCEPT ![s].got = Append(@, Head(stream[s].buf)), ![s].buf = Tail(@)]
  /\ StreamOnly

Show(s) ==
  /\ On(s) /\ stream[s].buf # <<>> /\ UNCHANGED events
  /\ stream' = [stream EXCEPT ![s].got = Append(@, Head(stream[s].buf)),
                              ![s].buf = Tail(@),
                              ![s].on = Head(stream[s].buf) # Result]
  /\ StreamOnly

Leave(s) ==
  /\ On(s) /\ Event
  /\ stream' = [stream EXCEPT ![s].on = FALSE]
  /\ StreamOnly
-----------------------------------------------------------------------------
ViewOnly == UNCHANGED <<node, request, startup, bindVars, logVars, netVars, agentVars, events>>

(* A live page of the node.                                                *)
Subscribe(v) ==
  /\ viewer[v] = "new" /\ Opens
  /\ viewer' = [viewer EXCEPT ![v] = "on"] /\ subscribed' = subscribed \cup {v}
  /\ UNCHANGED closed /\ ViewOnly

(* It ends, because the browser went or its channel was closed.  The       *)
(* handler closes the channel then: a second time, which panics.           *)
Unsubscribe(v) ==
  /\ viewer[v] = "on"
  /\ subscribed' = subscribed \ {v} /\ closed' = closed \cup {v}
  /\ viewer' = [viewer EXCEPT ![v] = IF v \in closed THEN "panicked" ELSE "left"]
  /\ ViewOnly

(* Channels that broadcast sends to.                                       *)
Reached == subscribed

(* apiDeleteNode: the row, then the state in the hub, then the caches by   *)
(* which an agent is known.                                                *)
DeleteNode ==
  /\ node = "there" /\ node' = "deleted" /\ Event
  /\ UNCHANGED <<request, startup, bindVars, logVars, viewVars, netVars, agentVars>>

CleanupNodeState ==
  /\ node = "deleted" /\ node' = "cleaned"
  /\ registered' = None /\ late' = (late \/ checked # {})
  /\ Closes(registered)
  /\ closed' = closed \cup subscribed /\ subscribed' = {}
  /\ UNCHANGED <<served, checked, bound, request, logVars, startup, viewer, agentVars, events>>

Forget ==
  /\ node = "cleaned" /\ node' = "forgotten"
  /\ UNCHANGED <<request, startup, bindVars, logVars, viewVars, netVars, agentVars, events>>
-----------------------------------------------------------------------------
NextAgent ==
  \/ Connect \/ SendLive \/ Restart
  \/ \E k \in Conn : ReadError(k) \/ SetDown(k) \/ Receive(k)
  \/ \E w \in Worker : Take(w) \/ Work(w) \/ Finish(w)
  \/ \E t \in aside : TriggerCheck(t)

NextPanel ==
  \/ \E k \in Conn : Check(k) \/ Register(k) \/ Unregister(k) \/ Answers(k)
  \/ \E c \in Cmd : CheckAgentUpdate(c) \/ PushConfig(c) \/ ResetProtocol(c) \/ Write(c) \/ Expire(c)
  \/ StartupCheck
  \/ \E s \in Stream : Show(s) \/ Leave(s) \/ \E c \in Cmd : Follow(s, c)
  \/ \E v \in Viewer : Subscribe(v) \/ Unsubscribe(v)
  \/ DeleteNode \/ CleanupNodeState \/ Forget

Next == NextAgent \/ NextPanel \/ \E k \in Conn : Drop(k)

Spec == Init /\ [][Next]_vars

(* What is under way goes on.  Nobody need connect, ask or leave, and the  *)
(* log need not expire.                                                    *)
FairSpec ==
  /\ Spec
  /\ \A k \in Conn : WF_vars(Receive(k)) /\ WF_vars(Check(k)) /\ WF_vars(Register(k)) /\ WF_vars(Answers(k))
  /\ \A w \in Worker : WF_vars(~Cancelled(w[1]) /\ Take(w)) /\ WF_vars(Work(w) \/ Finish(w))
  /\ WF_vars(\E t \in aside : TriggerCheck(t))
  /\ \A c \in Cmd : WF_vars(Write(c))
  /\ \A s \in Stream : WF_vars(Show(s))
-----------------------------------------------------------------------------
(* A page that follows a command shows its log, each answer once and in    *)
(* the order of the log, whether the answer came before the page asked,    *)
(* while it did or after; except that a page whose channel once was full   *)
(* has a gap (SubscribeCommandLog and appendCommandLog).                   *)
StreamIsTrue ==
  \A s \in Stream :
    stream[s] # None /\ ~stream[s].over =>
      LET shown == stream[s].got \o stream[s].buf
          log == entries[stream[s].cmd]
      IN IsPrefix(shown, log) /\ (stream[s].on => shown = log)

(* What a page is to one who knows the log and not its channel.            *)
Seen(r) ==
  IF r = None THEN [cmd |-> None, at |-> "closed", shown |-> <<>>]
  ELSE IF r.over THEN [cmd |-> r.cmd, at |-> "lost", shown |-> <<>>]
  ELSE [cmd |-> r.cmd, at |-> IF r.on THEN "on" ELSE "ended", shown |-> r.got]

Log == INSTANCE CommandLog WITH
  Final <- Result,
  Cap   <- StreamCap,
  Page  <- Stream,
  log   <- entries,
  page  <- [s \in Stream |-> Seen(stream[s])]

(* The log and the pages keep the promise of a log that is followed: no    *)
(* answer is taken back or put before another, a page goes on answer by    *)
(* answer and no further than the result, and an answer is dropped only    *)
(* for a page whose channel is full (appendCommandLog, its select with     *)
(* default, and apiNodeControlStream).                                     *)
ShowsTheLog == Log!Spec

(* A page whose command has its result ends, unless its channel was full   *)
(* (apiNodeControlStream).                                                 *)
StreamEnds ==
  \A s \in Stream :
    (On(s) /\ Done(stream[s].cmd)) ~> ~(On(s) /\ ~stream[s].over)

(* A command that was sent gets a result, be it that the queue is full, as *)
(* long as its connection stays, the agent does not take it for broken and *)
(* the log is there (startReadLoop, cmdWorker, sendResult,                 *)
(* appendCommandLog).                                                      *)
Answered ==
  \A c \in Cmd :
    request[c].at = "sent" ~>
      Done(c) \/ c \notin kept \/ request[c].on \notin open \/ ~connected

(* broadcast never sends on a closed channel, which would panic while it   *)
(* holds the samples of all nodes (subscribe, unsubscribe,                 *)
(* CleanupNodeState).                                                      *)
NoSendOnClosed == Reached \cap closed = {}

(* What the deletion of a node closes is gone from the hub: no channel of  *)
(* a live page is sent to any more, and no connection of the agent is left *)
(* or comes back, unless one was taken on between CleanupNodeState and the *)
(* removal of the node from the cache that bindAgentConnection asks.       *)
DeletedIsGone ==
  /\ NoSendOnClosed
  /\ node = "forgotten" /\ ~late => registered = None /\ bound \cap open = {}
=============================================================================
