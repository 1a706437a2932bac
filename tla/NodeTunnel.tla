----------------------------- MODULE NodeTunnel -----------------------------
(***************************************************************************)
(* The Cloudflare tunnel of a node: the handlers of the panel in           *)
(* internal/server/node_handler.go, the calls of the Cloudflare API in     *)
(* internal/service/cf_tunnel.go, and the service that the agent installs  *)
(* on the node (internal/agent/runtime.go, reporter.go).                   *)
(*                                                                         *)
(* One node.  Three records of its tunnel have to agree and no lock guards *)
(* them: the row of the node, the account at Cloudflare, and the service   *)
(* on the node, which learns of the other two by commands.  Handlers run   *)
(* concurrently and one step is what they do between two calls that may    *)
(* fail: of Cloudflare, of the database, of the agent.                     *)
(*                                                                         *)
(* A tunnel stands for its id and its token.  A domain, as                 *)
(* generateNodeTunnelDomain makes it, has the number of the tunnel that it *)
(* was made with; handlers that meet may leave a row with another.  The    *)
(* requests are those of the page, which names neither tunnel nor domain.  *)
(*                                                                         *)
(* The tunnel carries the protocols of the row, one host name each.  The   *)
(* agent reports their links and the admin edits them, so the hosts that a *)
(* cleanup computes need not be those that were made to point at the       *)
(* tunnel.  A link is left out of the model but for being there or not.    *)
(***************************************************************************)
EXTENDS Naturals, Sequences, FiniteSets

CONSTANTS
  Call,       \* handlers of requests
  Worker,     \* goroutines of the agent that carry out commands
  None,       \* no tunnel, no row, no command
  Proto,      \* protocols a tunnel can carry (isTunnelCompatibleProtocol)
  QueueCap,   \* capacity of Reporter.cmdCh (4)
  MaxTunnel,  \* bound: tunnels created
  MaxCall,    \* bound: requests
  MaxFault    \* bound: calls that fail, crashes, lost connections

ASSUME BoundAssumption == {QueueCap, MaxTunnel, MaxCall, MaxFault} \subseteq Nat

Tunnel == 1 .. MaxTunnel

VARIABLES
  row,      \* the columns of the row of the node, or None
  remote,   \* tunnels that exist at Cloudflare
  dns,      \* the hosts, of a domain for a protocol, that have a CNAME record
  created,  \* number of tunnels created so far
  call,     \* what each handler is doing, or None; alone is history:
            \* it has met no other and its tunnel could be deleted
  calls,    \* number of requests
  online,   \* hub.agentConns knows the agent
  queue,    \* commands on their way to the agent and in its cmdCh
  busy,     \* the command of each worker, or None
  conf,     \* the tunnel of /etc/nodectl-tunnel/config.yml, or None
  runs,     \* the tunnel that the service nodectl-tunnel serves, or None
  autostart, \* the service is enabled
  mishaps,  \* history: "met": handlers overlapped; "cut": a handler was cut short
            \* or could not write the row; "api": a call of Cloudflare failed;
            \* "link": a link was edited away, or a host made without one
  last,     \* history: the command sent last, or None
  skewed,   \* history: the agent did not carry out the commands one after the other
  faults    \* budget

panelVars == <<row, call, calls>>
cloudVars == <<remote, dns, created>>
agentVars == <<queue, busy, conf, runs, autostart>>
vars == <<panelVars, cloudVars, online, agentVars, mishaps, last, skewed, faults>>

(* A protocol can be in the row with an empty link, until the agent reports. *)
Links == [Proto -> {"none", "blank", "link"}]

Row == [on : BOOLEAN, id : Tunnel \cup {None}, token : Tunnel \cup {None},
        domain : Tunnel \cup {None}, links : Links, off : SUBSET Proto]
Command == [act : {"stop"}, tunnel : {None}] \cup [act : {"start"}, tunnel : Tunnel]
Kind == {"enable", "disable", "delete", "remove", "start", "stop", "edit", "report"}
Step == {"create", "token", "discard", "update", "again", "halt", "unbind", "destroy", "dns", "fire"}
Handler == [kind : Kind, step : Step, seen : Row, new : Tunnel \cup {None}, alone : BOOLEAN]

ASSUME NoneAssumption == None \notin Tunnel /\ None \notin Row /\ None \notin Handler

TypeOK ==
  /\ row \in Row \cup {None}
  /\ remote \subseteq Tunnel /\ dns \subseteq Tunnel \X Proto /\ created \in 0 .. MaxTunnel
  /\ call \in [Call -> {None} \cup Handler]
  /\ calls \in 0 .. MaxCall
  /\ online \in BOOLEAN
  /\ queue \in Seq(Command) /\ Len(queue) <= QueueCap
  /\ busy \in [Worker -> {None} \cup [cmd : Command, written : BOOLEAN]]
  /\ conf \in Tunnel \cup {None} /\ runs \in Tunnel \cup {None} /\ autostart \in BOOLEAN
  /\ mishaps \subseteq {"met", "cut", "api", "link"}
  /\ last \in Command \cup {None} /\ skewed \in BOOLEAN
  /\ faults \in Nat
  \* nodeDeleteMu: one deletion of the node at a time
  /\ \A p, q \in Call :
       call[p] # None /\ call[q] # None /\ call[p].kind = "remove" /\ call[q].kind = "remove"
         => p = q

NoTunnel(links, off) ==
  [on |-> FALSE, id |-> None, token |-> None, domain |-> None, links |-> links, off |-> off]

(* A node whose agent is connected and has reported its links, and that     *)
(* never had a tunnel.                                                      *)
Init ==
  /\ row = NoTunnel([q \in Proto |-> "link"], {})
  /\ remote = {} /\ dns = {} /\ created = 0
  /\ call = [p \in Call |-> None] /\ calls = 0
  /\ online = TRUE
  /\ queue = <<>> /\ busy = [w \in Worker |-> None]
  /\ conf = None /\ runs = None /\ autostart = FALSE
  /\ mishaps = {} /\ last = None /\ skewed = FALSE
  /\ faults = 0
-----------------------------------------------------------------------------
Running == {p \in Call : call[p] # None}
At(p, s) == call[p] # None /\ call[p].step = s
Is(p, kinds) == call[p] # None /\ call[p].kind \in kinds

Goto(p, s) == call' = [call EXCEPT ![p].step = s]
Ends(p) == call' = [call EXCEPT ![p] = None]

Fault == faults < MaxFault /\ faults' = faults + 1

(* A request fails at Cloudflare.                                           *)
ApiFails == Fault /\ mishaps' = mishaps \cup {"api"}

(* The row cannot be read or written, although the rest was done.           *)
DbFails == Fault /\ mishaps' = mishaps \cup {"cut"}

(* The node keeps the tunnel it has.                                        *)
HasTunnel(r) == r.id # None /\ r.token # None

(* The protocols that are routed through the tunnel.                        *)
Routes(r) == {q \in Proto \ r.off : r.links[q] # "none"}

(* The hosts a cleanup knows of: a protocol that is off has one, one whose  *)
(* link is empty does not.                                                  *)
HostsOf(r) == {r.domain} \X {q \in Proto : r.links[q] = "link"}

FirstStep(kind) ==
  CASE kind = "enable" -> IF HasTunnel(row) THEN "update" ELSE "create"
    [] kind \in {"disable", "edit", "report"} -> "update"
    [] kind \in {"delete", "remove"} -> "halt"
    [] kind = "start" -> "dns"
    [] kind = "stop" -> "fire"

(* A command or a report needs the agent, a tunnel something to carry; one   *)
(* deletion of the node runs at a time.                                     *)
May(kind) ==
  /\ kind \in {"start", "stop", "report"} => online
  /\ kind = "start" => row.on
  /\ kind = "enable" => Routes(row) # {}
  /\ kind = "remove" => \A q \in Running : call[q].kind # "remove"

(* The links of a row with those that an agent has made merged in.          *)
Reported(r, made) ==
  [r EXCEPT !.links = [q \in Proto |-> IF q \in made THEN "link" ELSE r.links[q]]]

(* A row with what the page says of the protocols.                          *)
Page == [links : Links, off : SUBSET Proto]
Edited(r, page) == [r EXCEPT !.links = page.links, !.off = page.off]

(* What a handler goes on to use of the row it has read: apiUpdateNode puts  *)
(* the links of the page in it, the report of an agent those it has made,   *)
(* enabling keeps the domain.                                               *)
Reads(kind) ==
  CASE kind = "edit" -> {Edited(row, page) : page \in Page}
    [] kind = "report" -> {Reported(row, made) : made \in SUBSET Proto}
    [] kind = "enable" -> {[NoTunnel(row.links, row.off) EXCEPT !.domain = row.domain]}
    [] kind = "disable" -> {NoTunnel(row.links, row.off)}
    [] kind \in {"delete", "remove", "start", "stop"} -> {row}

(* A handler reads the row.  "start" is also the part of push-config that   *)
(* concerns the tunnel; "report" is handleNodeOnline or handleLinksUpdate.  *)
(* Handlers are alike, and so are workers: the first that is free is taken. *)
Begin(p, kind) ==
  /\ call[p] = None /\ calls < MaxCall /\ row # None
  /\ p = CHOOSE q \in Call : call[q] = None
  /\ May(kind)
  /\ \E seen \in Reads(kind) :
       call' = [q \in Call |->
                  IF q = p THEN [kind |-> kind, step |-> FirstStep(kind), seen |-> seen,
                                 new |-> None, alone |-> Running = {}]
                  ELSE IF call[q] = None THEN None ELSE [call[q] EXCEPT !.alone = FALSE]]
  /\ calls' = calls + 1
  /\ mishaps' = IF Running = {} THEN mishaps ELSE mishaps \cup {"met"}
  /\ UNCHANGED <<row, cloudVars, online, agentVars, last, skewed, faults>>
-----------------------------------------------------------------------------
(* CreateNodeDedicatedTunnel.                                               *)
Create(p) ==
  /\ At(p, "create") /\ created < MaxTunnel
  /\ created' = created + 1
  /\ remote' = remote \cup {created'}
  /\ call' = [call EXCEPT ![p].step = "token", ![p].new = created']
  /\ UNCHANGED <<row, calls, dns, online, agentVars, mishaps, last, skewed, faults>>

CreateFails(p) ==
  /\ At(p, "create") /\ Fault
  /\ Ends(p)
  /\ UNCHANGED <<row, calls, cloudVars, online, agentVars, mishaps, last, skewed>>

FetchToken(p) ==
  /\ At(p, "token")
  /\ \/ Goto(p, "update") /\ UNCHANGED faults
     \/ Goto(p, "discard") /\ Fault
  /\ UNCHANGED <<row, calls, cloudVars, online, agentVars, mishaps, last, skewed>>

(* Mutant: the tunnel stays when its token cannot be had.                   *)
Discard_Keeps(p) ==
  /\ At(p, "discard")
  /\ UNCHANGED <<remote, mishaps, faults>>
  /\ Ends(p)
  /\ UNCHANGED <<row, calls, dns, created, online, agentVars, last, skewed>>

(* A tunnel whose token cannot be had is deleted again, if that works.      *)
Discard(p) ==
  /\ At(p, "discard")
  /\ \/ remote' = remote \ {call[p].new} /\ UNCHANGED <<mishaps, faults>>
     \/ ApiFails /\ UNCHANGED remote
  /\ Ends(p)
  /\ UNCHANGED <<row, calls, dns, created, online, agentVars, last, skewed>>

(* A report writes all the links, those it has only read too.               *)
StoreLinks(p) == [row EXCEPT !.links = call[p].seen.links]

(* Enabling writes a domain, the one that was there or a new one.           *)
DomainFor(p) == IF call[p].seen.domain = None THEN call[p].new ELSE call[p].seen.domain

(* Mutant: the token of a new tunnel is not written.                        *)
Columns_NoToken(p) ==
  CASE Is(p, {"enable"}) ->
         IF call[p].new = None THEN [row EXCEPT !.on = TRUE, !.domain = DomainFor(p)]
         ELSE [row EXCEPT !.on = TRUE, !.domain = DomainFor(p), !.id = call[p].new]
    [] Is(p, {"disable"}) -> [row EXCEPT !.on = FALSE]
    [] Is(p, {"delete"}) -> [row EXCEPT !.on = FALSE, !.id = None, !.domain = None]
    [] Is(p, {"edit"}) -> call[p].seen
    [] Is(p, {"report"}) -> StoreLinks(p)

(* The row after a handler's update: a map of columns, or the whole row     *)
(* that apiUpdateNode has read.  Unbinding leaves the token.                *)
Columns(p) ==
  CASE Is(p, {"enable"}) ->
         IF call[p].new = None THEN [row EXCEPT !.on = TRUE, !.domain = DomainFor(p)]
         ELSE [row EXCEPT !.on = TRUE, !.domain = DomainFor(p), !.id = call[p].new,
                          !.token = call[p].new]
    [] Is(p, {"disable"}) -> [row EXCEPT !.on = FALSE]
    [] Is(p, {"delete"}) -> [row EXCEPT !.on = FALSE, !.id = None, !.domain = None]
    [] Is(p, {"edit"}) -> call[p].seen
    [] Is(p, {"report"}) -> StoreLinks(p)

(* A link of the row is gone that a record may have been made for.          *)
LosesLink(old, new) ==
  old = None \/ \E q \in Proto : old.links[q] = "link" /\ new.links[q] # "link"

(* The row is written.  Only Save brings back a row that is gone.           *)
Update(p) ==
  /\ At(p, "update") /\ ~Is(p, {"remove"})
  /\ row # None \/ Is(p, {"edit"})
  /\ row' = Columns(p)
  /\ mishaps' = IF LosesLink(row, row') THEN mishaps \cup {"link"} ELSE mishaps
  /\ IF Is(p, {"enable", "disable"}) THEN Goto(p, "again") ELSE Ends(p)
  /\ UNCHANGED <<calls, cloudVars, online, agentVars, last, skewed, faults>>

(* RowsAffected = 0: the node was deleted meanwhile.                        *)
UpdateNothing(p) ==
  /\ At(p, "update") /\ row = None /\ ~Is(p, {"edit", "remove"})
  /\ Ends(p)
  /\ UNCHANGED <<row, calls, cloudVars, online, agentVars, mishaps, last, skewed, faults>>

UpdateFails(p) ==
  /\ At(p, "update") /\ DbFails
  /\ Ends(p)
  /\ UNCHANGED <<row, calls, cloudVars, online, agentVars, last, skewed>>

(* The setting is stored: the row is read again for the command.            *)
ReadAgain(p) ==
  /\ At(p, "again")
  /\ IF row = None \/ ~online THEN Ends(p)
     ELSE call' = [call EXCEPT ![p].seen = row,
                               ![p].step = IF Is(p, {"enable"}) THEN "dns" ELSE "fire"]
  /\ UNCHANGED <<row, calls, cloudVars, online, agentVars, mishaps, last, skewed, faults>>

(* What a command to start needs of the row before records are made.        *)
Addressed(r) == r.domain # None /\ r.token # None /\ Routes(r) # {}

(* buildNodeTunnelCommandPayload: the hosts are made to point at the tunnel. *)
(* The records are written one by one until one fails.  Only then does it   *)
(* look for the id: without one they point at the tunnel of the panel, if   *)
(* there is one.                                                            *)
EnsureDNS(p) ==
  LET seen == call[p].seen IN
  /\ At(p, "dns") /\ Addressed(seen)
  /\ \E made \in SUBSET Routes(seen) :
       /\ dns' = dns \cup {seen.domain} \X made
       /\ mishaps' = IF \E q \in made : seen.links[q] = "blank" THEN mishaps \cup {"link"}
                     ELSE mishaps
       /\ \/ seen.id # None /\ made = Routes(seen) /\ Goto(p, "fire") /\ UNCHANGED faults
          \/ seen.id # None /\ made # Routes(seen) /\ Ends(p) /\ Fault
          \/ seen.id = None /\ Ends(p) /\ UNCHANGED faults
  /\ UNCHANGED <<row, calls, remote, created, online, agentVars, last, skewed>>

(* There is no domain, no token, or nothing to carry.                       *)
NoPayload(p) ==
  /\ At(p, "dns") /\ ~Addressed(call[p].seen)
  /\ Ends(p)
  /\ UNCHANGED <<row, calls, cloudVars, online, agentVars, mishaps, last, skewed, faults>>
-----------------------------------------------------------------------------
CommandOf(p) ==
  IF Is(p, {"enable", "start"}) THEN [act |-> "start", tunnel |-> call[p].seen.token]
  ELSE [act |-> "stop", tunnel |-> None]

(* FireCommandToNode, and the read loop of the agent: the queue takes the   *)
(* command, or the connection or a full queue loses it.                     *)
Fired(cmd) ==
  /\ last' = cmd
  /\ \/ Len(queue) < QueueCap /\ queue' = Append(queue, cmd) /\ UNCHANGED <<skewed, faults>>
     \/ Fault /\ skewed' = TRUE /\ UNCHANGED queue
     \/ Len(queue) = QueueCap /\ skewed' = TRUE /\ UNCHANGED <<queue, faults>>

Fire(p) ==
  /\ At(p, "fire")
  /\ IF online THEN Fired(CommandOf(p)) ELSE UNCHANGED <<last, queue, skewed, faults>>
  /\ Ends(p)
  /\ UNCHANGED <<row, calls, cloudVars, online, busy, conf, runs, autostart, mishaps>>

(* cleanupNodeTunnelResources: first the service is stopped, if the node is *)
(* online and has, or had, a tunnel ...                                     *)
Halt(p) ==
  LET seen == call[p].seen IN
  /\ At(p, "halt")
  /\ IF online /\ (seen.on \/ seen.id # None \/ seen.domain # None)
       THEN Fired([act |-> "stop", tunnel |-> None])
       ELSE UNCHANGED <<last, queue, skewed, faults>>
  /\ Goto(p, "unbind")
  /\ UNCHANGED <<row, calls, cloudVars, online, busy, conf, runs, autostart, mishaps>>

(* Mutant: the hosts of protocols that are off are forgotten.               *)
Unbind_IfOn(p) ==
  /\ At(p, "unbind")
  /\ dns' = dns \ ({call[p].seen.domain} \X Routes(call[p].seen))
  /\ Goto(p, "destroy")
  /\ UNCHANGED <<row, calls, remote, created, online, agentVars, mishaps, last, skewed, faults>>

(* ... then the records are deleted, or as many as can be and the request   *)
(* ends with an error ...                                                   *)
Unbind(p) ==
  LET hosts == HostsOf(call[p].seen) IN
  /\ At(p, "unbind")
  /\ \E gone \in SUBSET hosts :
       /\ dns' = dns \ gone
       /\ IF gone = hosts THEN Goto(p, "destroy") /\ UNCHANGED <<mishaps, faults>>
          ELSE call[p].seen.domain # None /\ Ends(p) /\ ApiFails
  /\ UNCHANGED <<row, calls, remote, created, online, agentVars, last, skewed>>

(* ... then the tunnel, which is only logged when it fails.                 *)
Destroy(p) ==
  /\ At(p, "destroy")
  /\ \/ remote' = remote \ {call[p].seen.id} /\ Goto(p, "update") /\ UNCHANGED <<mishaps, faults>>
     \/ /\ call[p].seen.id \in remote /\ ApiFails
        /\ call' = [call EXCEPT ![p].step = "update", ![p].alone = FALSE]
        /\ UNCHANGED remote
  /\ UNCHANGED <<row, calls, dns, created, online, agentVars, last, skewed>>

(* apiDeleteNode deletes the row and CleanupNodeState hangs up.             *)
RemoveRow(p) ==
  /\ At(p, "update") /\ Is(p, {"remove"})
  /\ row' = None /\ online' = FALSE
  /\ Ends(p)
  /\ UNCHANGED <<calls, cloudVars, agentVars, mishaps, last, skewed, faults>>
-----------------------------------------------------------------------------
(* Two workers take commands from one queue, so a later one may overtake.   *)
Take(w) ==
  /\ busy[w] = None /\ queue # <<>>
  /\ w = CHOOSE v \in Worker : busy[v] = None
  /\ busy' = [busy EXCEPT ![w] = [cmd |-> Head(queue), written |-> FALSE]]
  /\ queue' = Tail(queue)
  /\ skewed' = (skewed \/ \E v \in Worker : busy[v] # None)
  /\ UNCHANGED <<panelVars, cloudVars, online, conf, runs, autostart, mishaps, last, faults>>

(* applyTunnelConfig writes the files.                                      *)
WriteConfig(w) ==
  /\ busy[w] # None /\ busy[w].cmd.act = "start" /\ ~busy[w].written
  /\ conf' = busy[w].cmd.tunnel
  /\ busy' = [busy EXCEPT ![w].written = TRUE]
  /\ UNCHANGED <<panelVars, cloudVars, online, queue, runs, autostart, mishaps, last, skewed,
                 faults>>

(* Mutant: the service is enabled, not restarted.                           *)
Serve_EnablesOnly(w) ==
  /\ autostart' = TRUE
  /\ UNCHANGED runs
  /\ busy' = [busy EXCEPT ![w] = None]

(* The service is enabled and restarted with the files that are there.      *)
Serve(w) ==
  /\ autostart' = TRUE
  /\ runs' = conf
  /\ busy' = [busy EXCEPT ![w] = None]

StartService(w) ==
  /\ busy[w] # None /\ busy[w].written
  /\ Serve(w)
  /\ UNCHANGED <<panelVars, cloudVars, online, queue, conf, mishaps, last, skewed, faults>>

(* cloudflared cannot be installed, or a file cannot be written.            *)
StartFails(w) ==
  /\ busy[w] # None /\ busy[w].cmd.act = "start"
  /\ Fault
  /\ skewed' = TRUE
  /\ busy' = [busy EXCEPT ![w] = None]
  /\ UNCHANGED <<panelVars, cloudVars, online, queue, conf, runs, autostart, mishaps, last>>

(* The service is stopped; it stays enabled, and its files stay.            *)
StopService(w) ==
  /\ busy[w] # None /\ busy[w].cmd.act = "stop"
  /\ runs' = None
  /\ busy' = [busy EXCEPT ![w] = None]
  /\ UNCHANGED <<panelVars, cloudVars, online, queue, conf, autostart, mishaps, last, skewed,
                 faults>>
-----------------------------------------------------------------------------
(* The connection ends: what the agent has not read is lost.                *)
Disconnect ==
  /\ online /\ Fault
  /\ online' = FALSE
  /\ \E k \in 0 .. Len(queue) :
       /\ queue' = SubSeq(queue, 1, k)
       /\ skewed' = (skewed \/ k < Len(queue))
  /\ UNCHANGED <<panelVars, cloudVars, busy, conf, runs, autostart, mishaps, last>>

Connect ==
  /\ ~online /\ row # None
  /\ online' = TRUE
  /\ UNCHANGED <<panelVars, cloudVars, agentVars, mishaps, last, skewed, faults>>

(* The node boots: the service comes back if it is enabled.                 *)
Reboot ==
  /\ Fault
  /\ online' = FALSE
  /\ queue' = <<>> /\ busy' = [w \in Worker |-> None]
  /\ runs' = IF autostart THEN conf ELSE None
  /\ skewed' = TRUE
  /\ UNCHANGED <<panelVars, cloudVars, conf, autostart, mishaps, last>>

(* The panel dies, and its handlers with it.                                *)
Crash ==
  /\ Running # {} /\ Fault
  /\ call' = [p \in Call |-> None]
  /\ mishaps' = mishaps \cup {"cut"}
  /\ UNCHANGED <<row, calls, cloudVars, online, agentVars, last, skewed>>

Handle(p) ==
  \/ Create(p) \/ CreateFails(p) \/ FetchToken(p) \/ Discard(p)
  \/ Update(p) \/ UpdateNothing(p) \/ UpdateFails(p) \/ ReadAgain(p)
  \/ EnsureDNS(p) \/ NoPayload(p) \/ Fire(p)
  \/ Halt(p) \/ Unbind(p) \/ Destroy(p) \/ RemoveRow(p)

Work(w) == Take(w) \/ WriteConfig(w) \/ StartService(w) \/ StopService(w)

Next ==
  \/ \E p \in Call : Handle(p) \/ \E kind \in Kind : Begin(p, kind)
  \/ \E w \in Worker : Work(w) \/ StartFails(w)
  \/ Disconnect \/ Connect \/ Reboot \/ Crash

Spec == Init /\ [][Next]_vars

(* A worker that has a command, or finds one, goes on.                      *)
FairSpec == Spec /\ \A w \in Worker : WF_vars(Work(w))
-----------------------------------------------------------------------------
(* The token in the row, which the agent decides the tunnel by, is that of  *)
(* the tunnel in the row, which the records are made by, however handlers   *)
(* meet, fail or bring back an older row.                                   *)
TokenMatches == row # None => row.id \in {None, row.token}

(* Nothing of the node stays behind at Cloudflare unless a request failed,  *)
(* met another one or was cut short, or the page took away a link that the  *)
(* host of a record was computed from: between two requests there are the   *)
(* tunnel of the row and the hosts that a cleanup will find.                *)
NothingLeaks ==
  Running = {} /\ mishaps = {} =>
    IF row = None THEN remote \cup dns = {}
    ELSE remote = {row.id} \ {None} /\ dns \subseteq HostsOf(row)

(* A cleanup repairs what went wrong before: one that runs by itself and    *)
(* meets no failure leaves neither the tunnel of the row nor the records of *)
(* its protocols that have a link, whatever earlier requests left.          *)
CleanupRepairs ==
  [][\A p \in Call :
       At(p, "update") /\ Is(p, {"delete", "remove"}) /\ call[p].alone /\ row' # row
         => /\ call[p].seen.id \notin remote'
            /\ HostsOf(call[p].seen) \cap dns' = {}
            /\ row' # None => row'.id = None /\ ~row'.on]_vars

(* The service ends up doing what the last command says, if the commands    *)
(* were not lost and none overtook another.                                 *)
ServiceFollows ==
  <>[](\/ last = None \/ skewed
       \/ runs = (IF last.act = "start" THEN last.tunnel ELSE None))
=============================================================================
