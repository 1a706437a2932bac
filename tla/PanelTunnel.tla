----------------------------- MODULE PanelTunnel -----------------------------
(***************************************************************************)
(* The Cloudflare tunnel of the panel itself:                              *)
(* internal/service/cf_tunnel.go, the handlers of                          *)
(* internal/server/cf_handlers.go and the start and the end of main.go.    *)
(*                                                                         *)
(* Part one keeps the process cloudflared alive: a handler starts or stops *)
(* it under cfProcessMu, a goroutine for each start waits for the process  *)
(* to end and starts it again.  cfRunning, cfProcess, cfProcessCmd and     *)
(* cfProcessPID always change together and are one variable.  Part two     *)
(* keeps the settings, the tunnel at Cloudflare, its routing rule and the  *)
(* DNS record of the panel in agreement, with no lock at all.              *)
(*                                                                         *)
(* The account and the domain are configured, and there is one name for    *)
(* the tunnel.  sys_force_http and panel_url, which this code only writes, *)
(* are left out, and so is a process that outlives a killed panel: no code *)
(* looks for it.                                                           *)
(***************************************************************************)
EXTENDS Naturals, FiniteSets

CONSTANTS
  Call,       \* handlers of requests, and the automatic start
  Watcher,    \* goroutines of StartCFTunnel, and with them their processes
  Host,       \* host names for the panel
  None,       \* no tunnel, no host, no process
  MaxRetry,   \* maxRetries (5)
  MaxTunnel,  \* bound: tunnels created
  MaxCall,    \* bound: requests
  MaxFault    \* bound: failed calls, crashes of the process or the panel

ASSUME BoundAssumption == {MaxRetry, MaxTunnel, MaxCall, MaxFault} \subseteq Nat

Tunnel == 1 .. MaxTunnel

VARIABLES
  cfg,      \* cf_tunnel_id, _token, _subdomain, _enabled with _bind_main_process
  yml,      \* the tunnel of config.yml, or None
  remote,   \* tunnels that exist at Cloudflare
  created,  \* number of tunnels created so far
  ingress,  \* the host that each tunnel routes to the panel, or None
  dns,      \* the tunnel that the CNAME record of each host names, or None
  call,     \* what each handler is doing, or None; smooth is history: nothing else
            \* happened meanwhile and no call of its own failed and was passed over
  calls,    \* number of requests
  lock,     \* the handler that holds cfProcessMu across a call, or None
  tracked,  \* the watcher whose process is cfProcess, or None
  stopRequest,
  watcher,  \* each goroutine: waiting for its process or about to restart it, or None
  due,      \* the automatic start of this run of the panel is still to come
  raced,    \* history: a process was started while another was being watched
  mishaps,  \* history: "met": handlers overlapped; "cut": the panel died;
            \* "api": a call of Cloudflare failed; "lost": a tunnel was deleted elsewhere
  faults    \* budget

fileVars == <<cfg, yml>>
cloudVars == <<remote, created, ingress, dns>>
procVars == <<lock, tracked, stopRequest, watcher, raced>>
vars == <<fileVars, cloudVars, call, calls, procVars, due, mishaps, faults>>

Setting == [id : Tunnel \cup {None}, token : Tunnel \cup {None}, sub : Host \cup {None},
            on : BOOLEAN]
Kind == {"create", "bind", "run", "delete", "deleteid", "oneclick"}
Step == {"discover", "save", "list", "token", "drop", "post", "newtoken", "bind", "route", "start",
         "spawn", "halt", "undns", "destroy", "forget", "eraseid", "erasetoken", "erasesub", "eraseon"}

Request == [kind : Kind, step : Step, tunnel : Tunnel \cup {None}, host : Host \cup {None},
            smooth : BOOLEAN]
Process == [sleeps : BOOLEAN, alive : BOOLEAN, tunnel : Tunnel, byToken : BOOLEAN,
            retries : 0 .. MaxRetry]

ASSUME NoneAssumption == None \notin Tunnel \cup Watcher \cup Call /\ None \notin Request /\ None \notin Process

Cleared == [id |-> None, token |-> None, sub |-> None, on |-> FALSE]

Alive == {w \in Watcher : watcher[w] # None /\ watcher[w].alive}
Running == {p \in Call : call[p] # None}

TypeOK ==
  /\ cfg \in Setting /\ yml \in Tunnel \cup {None}
  /\ remote \subseteq Tunnel /\ created \in 0 .. MaxTunnel
  /\ ingress \in [Tunnel -> Host \cup {None}] /\ dns \in [Host -> Tunnel \cup {None}]
  /\ call \in [Call -> {None} \cup Request]
  /\ calls \in 0 .. MaxCall /\ due \in BOOLEAN
  /\ lock \in Call \cup {None} /\ tracked \in Watcher \cup {None}
  /\ stopRequest \in BOOLEAN /\ raced \in BOOLEAN
  /\ watcher \in [Watcher -> {None} \cup Process]
  /\ mishaps \subseteq {"met", "cut", "api", "lost"} /\ faults \in Nat
  \* a handler that holds the lock is between the two halves of StartCFTunnel
  /\ \A p \in Call : lock = p <=> call[p] # None /\ call[p].step = "spawn"

Init ==
  /\ cfg = Cleared /\ yml = None
  /\ remote = {} /\ created = 0
  /\ ingress = [t \in Tunnel |-> None] /\ dns = [h \in Host |-> None]
  /\ call = [p \in Call |-> None] /\ calls = 0
  /\ lock = None /\ tracked = None /\ stopRequest = FALSE
  /\ watcher = [w \in Watcher |-> None]
  /\ due = FALSE /\ raced = FALSE /\ mishaps = {} /\ faults = 0
-----------------------------------------------------------------------------
Fault == faults < MaxFault /\ faults' = faults + 1
ApiFails == Fault /\ mishaps' = mishaps \cup {"api"}
NoFault == UNCHANGED <<mishaps, faults>>

FaultOr(cond) == Fault \/ (cond /\ UNCHANGED faults)
ApiFailsOr(cond) == ApiFails \/ (cond /\ NoFault)

At(p, s) == call[p] # None /\ call[p].step = s
Is(p, kind) == call[p] # None /\ call[p].kind = kind
Goto(p, s) == call' = [call EXCEPT ![p].step = s]
GotoAfterFault(p, s) == call' = [call EXCEPT ![p].step = s, ![p].smooth = FALSE]
Ends(p) == call' = [call EXCEPT ![p] = None]

Disturbed == [q \in Call |-> IF call[q] = None THEN None ELSE [call[q] EXCEPT !.smooth = FALSE]]

FirstStep(kind) ==
  CASE kind = "create" -> "list"     [] kind = "bind" -> "bind"
    [] kind = "run" -> "start"       [] kind = "delete" -> "halt"
    [] kind = "deleteid" -> "destroy" [] kind = "oneclick" -> "discover"

(* Handlers are alike, and so are watchers: the next one is any that is free. *)
NextCall(p) == call[p] = None /\ p = CHOOSE q \in Call : call[q] = None
NextWatcher(w) == watcher[w] = None /\ w = CHOOSE v \in Watcher : watcher[v] = None

(* A request arrives.  "delete" is about the tunnel of the settings, and    *)
(* "deleteid" about one of the list of those that exist.                    *)
Begin(p, kind, t, h) ==
  /\ NextCall(p) /\ calls < MaxCall
  /\ kind = "delete" => t # None /\ t = cfg.id
  /\ kind = "deleteid" => t \in remote
  /\ kind = "bind" => t # None /\ t = cfg.id /\ h # None /\ h = cfg.sub
  /\ kind = "oneclick" => t = None /\ h # None
  /\ kind \in {"create", "run"} => t = None
  /\ kind \notin {"oneclick", "bind"} => h = None
  /\ call' = [Disturbed EXCEPT ![p] = [kind |-> kind, step |-> FirstStep(kind), tunnel |-> t,
                                       host |-> h, smooth |-> Running = {}]]
  /\ calls' = calls + 1
  /\ mishaps' = IF Running = {} THEN mishaps ELSE mishaps \cup {"met"}
  /\ UNCHANGED <<fileVars, cloudVars, procVars, due, faults>>

(* SaveCFTunnelSettings: another host, or the tunnel switched on or off.    *)
SaveSettings ==
  /\ calls < MaxCall /\ calls' = calls + 1
  /\ \/ \E h \in Host : cfg' = [cfg EXCEPT !.sub = h]
     \/ \E b \in BOOLEAN : cfg' = [cfg EXCEPT !.on = b]
  /\ call' = Disturbed
  /\ mishaps' = IF Running = {} THEN mishaps ELSE mishaps \cup {"met"}
  /\ UNCHANGED <<yml, cloudVars, procVars, due, faults>>

(* RenderTunnelConfig.                                                      *)
Render ==
  /\ calls < MaxCall /\ calls' = calls + 1
  /\ cfg.id # None /\ yml' = cfg.id
  /\ call' = Disturbed
  /\ UNCHANGED <<cfg, cloudVars, procVars, due, mishaps, faults>>
-----------------------------------------------------------------------------
(* The process.  StartCFTunnel takes the lock and looks for a token, or for *)
(* a configuration file ...                                                 *)
StartRefused(p) ==
  /\ At(p, "start") /\ lock = None
  /\ tracked # None \/ (cfg.token = None /\ yml = None)
  /\ Ends(p)
  /\ UNCHANGED <<fileVars, cloudVars, calls, procVars, due, mishaps, faults>>

StartReads(p) ==
  /\ At(p, "start") /\ lock = None
  /\ tracked = None /\ (cfg.token # None \/ yml # None)
  /\ \E w \in Watcher : watcher[w] = None   \* bound
  /\ lock' = p
  /\ call' = [call EXCEPT ![p].step = "spawn", ![p].tunnel = cfg.token]
  /\ UNCHANGED <<fileVars, cloudVars, calls, tracked, stopRequest, watcher, raced, due,
                 mishaps, faults>>

(* Mutant: a request to stop is still in force after the next start.        *)
Spawn_KeepsStop(w, t, byToken) ==
  /\ NextWatcher(w)
  /\ watcher' = [watcher EXCEPT ![w] = [sleeps |-> FALSE, alive |-> TRUE, tunnel |-> t,
                                        byToken |-> byToken, retries |-> 0]]
  /\ tracked' = w /\ UNCHANGED stopRequest
  /\ raced' = (raced \/ \E v \in Watcher : watcher[v] # None)

(* A process and its watcher.                                               *)
Spawn(w, t, byToken) ==
  /\ NextWatcher(w)
  /\ watcher' = [watcher EXCEPT ![w] = [sleeps |-> FALSE, alive |-> TRUE, tunnel |-> t,
                                        byToken |-> byToken, retries |-> 0]]
  /\ tracked' = w /\ stopRequest' = FALSE
  /\ raced' = (raced \/ \E v \in Watcher : watcher[v] # None)

(* ConfigureTunnelRemoteIngress with the settings of this moment.           *)
Routes == cfg.id # None /\ cfg.id \in remote
Route == ingress' = [ingress EXCEPT ![cfg.id] = cfg.sub]

(* ... with a token it sets the routing rule, which may fail, and starts    *)
(* cloudflared; a watcher is ready for it.                                  *)
StartSpawns(p) ==
  /\ At(p, "spawn")
  /\ IF call[p].tunnel # None
       THEN \/ Routes /\ Route /\ NoFault
            \/ UNCHANGED ingress /\ (IF Routes THEN ApiFails ELSE NoFault)
       ELSE UNCHANGED ingress /\ NoFault
  /\ \E w \in Watcher :
       IF call[p].tunnel # None THEN Spawn(w, call[p].tunnel, TRUE)
       ELSE yml # None /\ Spawn(w, yml, FALSE)
  /\ lock' = None
  /\ Ends(p)
  /\ UNCHANGED <<fileVars, remote, created, dns, calls, due>>

(* cloudflared does not start, or config.yml is gone.                       *)
StartFails(p) ==
  /\ At(p, "spawn")
  /\ FaultOr(call[p].tunnel = None /\ yml = None)
  /\ lock' = None
  /\ Ends(p)
  /\ UNCHANGED <<fileVars, cloudVars, calls, tracked, stopRequest, watcher, raced, due, mishaps>>

(* StopCFTunnel interrupts the process, or kills it after five seconds.     *)
Stops ==
  /\ lock = None
  /\ stopRequest' = TRUE
  /\ tracked' = None
  /\ watcher' = IF tracked = None THEN watcher ELSE [watcher EXCEPT ![tracked].alive = FALSE]
  /\ UNCHANGED <<lock, raced>>

Stop ==
  /\ calls < MaxCall /\ calls' = calls + 1
  /\ Stops
  /\ call' = Disturbed
  /\ UNCHANGED <<fileVars, cloudVars, due, mishaps, faults>>

(* cloudflared ends by itself: it crashes, or its tunnel is gone.           *)
Exit(w) ==
  /\ w \in Alive
  /\ FaultOr(watcher[w].tunnel \notin remote)
  /\ watcher' = [watcher EXCEPT ![w].alive = FALSE]
  /\ UNCHANGED <<fileVars, cloudVars, call, calls, lock, tracked, stopRequest, raced, due, mishaps>>

GivesUp(w) == stopRequest \/ watcher[w].retries >= MaxRetry

(* The watcher takes the lock, whichever process is tracked by then, and    *)
(* returns if the end was asked for or too many came before ...             *)
Notice(w) ==
  /\ watcher[w] # None /\ ~watcher[w].sleeps /\ ~watcher[w].alive
  /\ lock = None
  /\ tracked' = None
  /\ watcher' =
       IF GivesUp(w) THEN [watcher EXCEPT ![w] = None]
       ELSE [watcher EXCEPT ![w].sleeps = TRUE, ![w].retries = @ + 1]
  /\ UNCHANGED <<fileVars, cloudVars, call, calls, lock, stopRequest, raced, due, mishaps, faults>>

(* Mutant: the watcher does not look for a request to stop when it wakes.   *)
Resumes_Deaf == TRUE

Resumes == ~stopRequest

(* ... and starts the process again when it has slept, unless it was asked  *)
(* to stop meanwhile: with the token of its first start, or with the        *)
(* configuration file as it is now.  A process that cannot be started       *)
(* counts as one that has ended; without its log file the watcher returns.  *)
Wake(w) ==
  /\ watcher[w] # None /\ watcher[w].sleeps /\ lock = None
  /\ \/ ~Resumes /\ watcher' = [watcher EXCEPT ![w] = None] /\ UNCHANGED <<tracked, faults>>
     \/ /\ Resumes
        /\ watcher[w].byToken \/ yml # None
        /\ watcher' = [watcher EXCEPT ![w].sleeps = FALSE, ![w].alive = TRUE,
                                      ![w].tunnel = IF watcher[w].byToken THEN @ ELSE yml]
        /\ tracked' = w /\ UNCHANGED faults
     \/ /\ Resumes
        /\ FaultOr(~watcher[w].byToken /\ yml = None)
        /\ watcher' = [watcher EXCEPT ![w].sleeps = FALSE]
        /\ UNCHANGED tracked
     \/ Resumes /\ Fault /\ watcher' = [watcher EXCEPT ![w] = None] /\ UNCHANGED tracked
  /\ UNCHANGED <<fileVars, cloudVars, call, calls, lock, stopRequest, raced, due, mishaps>>
-----------------------------------------------------------------------------
(* CreateCFTunnel looks for a tunnel of the name, and takes it over ...     *)
List(p) ==
  /\ At(p, "list")
  /\ \/ \E t \in remote :
          /\ cfg' = [cfg EXCEPT !.id = t]
          /\ call' = [call EXCEPT ![p].step = "token", ![p].tunnel = t]
          /\ UNCHANGED faults
     \/ remote = {} /\ Goto(p, "post") /\ UNCHANGED <<cfg, faults>>
     \/ Ends(p) /\ Fault /\ UNCHANGED cfg
  /\ UNCHANGED <<yml, cloudVars, calls, procVars, due, mishaps>>

(* What follows the tunnel in a one-click setup: the record of its host.    *)
Created(p) ==
  IF Is(p, "oneclick")
    THEN call' = [call EXCEPT ![p].step = "bind", ![p].tunnel = cfg.id, ![p].host = cfg.sub]
    ELSE Ends(p)

CreatedWithOldToken(p) ==
  IF Is(p, "oneclick")
    THEN call' = [call EXCEPT ![p].step = "bind", ![p].tunnel = cfg.id, ![p].host = cfg.sub,
                              ![p].smooth = FALSE]
    ELSE Ends(p)

(* ... with its token, or deletes it if it cannot have that ...             *)
Token(p) ==
  /\ At(p, "token")
  /\ \/ call[p].tunnel \in remote /\ cfg' = [cfg EXCEPT !.token = call[p].tunnel]
        /\ Created(p) /\ NoFault
     \/ /\ ApiFailsOr(call[p].tunnel \notin remote)
        /\ Goto(p, "drop") /\ UNCHANGED cfg
  /\ UNCHANGED <<yml, cloudVars, calls, procVars, due>>

Drop(p) ==
  /\ At(p, "drop")
  /\ \/ remote' = remote \ {call[p].tunnel} /\ NoFault
     \/ ApiFails /\ UNCHANGED remote
  /\ Goto(p, "post")
  /\ UNCHANGED <<fileVars, created, ingress, dns, calls, procVars, due>>

(* ... or makes a new one.  Cloudflare takes a name once.                   *)
Post(p) ==
  /\ At(p, "post") /\ remote = {} /\ created < MaxTunnel
  /\ created' = created + 1 /\ remote' = remote \cup {created'}
  /\ cfg' = [cfg EXCEPT !.id = created']
  /\ call' = [call EXCEPT ![p].step = "newtoken", ![p].tunnel = created']
  /\ UNCHANGED <<yml, ingress, dns, calls, procVars, due, mishaps, faults>>

PostFails(p) ==
  /\ At(p, "post")
  /\ ApiFailsOr(remote # {} \/ created = MaxTunnel)
  /\ Ends(p)
  /\ UNCHANGED <<fileVars, cloudVars, calls, procVars, due>>

(* Mutant: a token that is there already is kept.                           *)
NewToken_KeepsOld(p) ==
  /\ At(p, "newtoken")
  /\ cfg' = [cfg EXCEPT !.token = IF @ = None THEN call[p].tunnel ELSE @] /\ NoFault
  /\ Created(p)
  /\ UNCHANGED <<yml, cloudVars, calls, procVars, due>>

(* A token that cannot be had is only logged here: the old one stays.       *)
NewToken(p) ==
  /\ At(p, "newtoken")
  /\ \/ cfg' = [cfg EXCEPT !.token = call[p].tunnel] /\ Created(p) /\ NoFault
     \/ ApiFails /\ UNCHANGED cfg /\ CreatedWithOldToken(p)
  /\ UNCHANGED <<yml, cloudVars, calls, procVars, due>>
-----------------------------------------------------------------------------
(* BindTunnelDNS makes the record, or points it at the tunnel.              *)
Bind(p) ==
  /\ At(p, "bind")
  /\ \/ /\ call[p].tunnel # None /\ call[p].host # None
        /\ dns' = [dns EXCEPT ![call[p].host] = call[p].tunnel]
        /\ Goto(p, "route") /\ NoFault
     \/ /\ ApiFailsOr(call[p].tunnel = None \/ call[p].host = None)
        /\ Ends(p) /\ UNCHANGED dns
  /\ UNCHANGED <<fileVars, remote, created, ingress, calls, procVars, due>>

(* The one-click setup goes on with the process.                            *)
Prepares(p) == IF Is(p, "oneclick") THEN Goto(p, "start") ELSE Ends(p)

(* The one-click setup renders the file and needs the routing rule; after a *)
(* bind smooth the rule may fail.                                            *)
BindRoutes(p) ==
  /\ At(p, "route")
  /\ yml' = IF Is(p, "oneclick") /\ cfg.id # None THEN cfg.id ELSE yml
  /\ \/ Routes /\ Route /\ Prepares(p) /\ NoFault
     \/ (IF Routes THEN ApiFails ELSE NoFault) /\ Ends(p) /\ UNCHANGED ingress
  /\ UNCHANGED <<cfg, remote, created, dns, calls, procVars, due>>

(* The one-click setup asks Cloudflare about its token: without an account  *)
(* and a domain it ends, permissions that are missing are only reported ... *)
Discover(p) ==
  /\ At(p, "discover")
  /\ \/ Goto(p, "save") /\ UNCHANGED faults
     \/ Ends(p) /\ Fault
  /\ UNCHANGED <<fileVars, cloudVars, calls, procVars, due, mishaps>>

(* ... stores its settings, and downloads cloudflared if it is not there.   *)
Save(p) ==
  /\ At(p, "save")
  /\ cfg' = [cfg EXCEPT !.sub = call[p].host, !.on = TRUE]
  /\ \/ Goto(p, "list") /\ UNCHANGED faults
     \/ Ends(p) /\ Fault
  /\ UNCHANGED <<yml, cloudVars, calls, procVars, due, mishaps>>
-----------------------------------------------------------------------------
(* Mutant: only a tunnel that is switched on is stopped.                    *)
Halt_IfOn(p) ==
  /\ At(p, "halt")
  /\ IF cfg.on THEN Stops ELSE UNCHANGED procVars
  /\ Goto(p, "undns")
  /\ UNCHANGED <<fileVars, cloudVars, calls, due, mishaps, faults>>

(* DeleteCFTunnel stops the process, deletes the record of the host, if it  *)
(* can, and the tunnel, or gives up and keeps the settings ...              *)
Halt(p) ==
  /\ At(p, "halt")
  /\ Stops
  /\ Goto(p, "undns")
  /\ UNCHANGED <<fileVars, cloudVars, calls, due, mishaps, faults>>

Undns(p) ==
  /\ At(p, "undns")
  /\ \/ /\ dns' = [h \in Host |-> IF h = cfg.sub THEN None ELSE dns[h]]
        /\ call' = [call EXCEPT ![p].step = "destroy", ![p].host = cfg.sub] /\ NoFault
     \/ /\ cfg.sub # None /\ ApiFails
        /\ GotoAfterFault(p, "destroy")
        /\ UNCHANGED dns
  /\ UNCHANGED <<fileVars, remote, created, ingress, calls, procVars, due>>

Destroy(p) ==
  /\ At(p, "destroy")
  /\ \/ remote' = remote \ {call[p].tunnel} /\ Goto(p, "forget") /\ NoFault
     \/ /\ ApiFailsOr(call[p].tunnel \notin remote)
        /\ Ends(p) /\ UNCHANGED remote
  /\ UNCHANGED <<fileVars, created, ingress, dns, calls, procVars, due>>

(* ... and removes the files.  DeleteCFTunnelByID stops the process only    *)
(* here, and only if the tunnel is the one of the settings ...              *)
Forget(p) ==
  /\ At(p, "forget")
  /\ \/ Is(p, "delete") /\ UNCHANGED procVars
     \/ Is(p, "deleteid") /\ cfg.id = call[p].tunnel /\ Stops
  /\ \/ yml' = None /\ Goto(p, "eraseid") /\ UNCHANGED faults
     \/ Fault /\ UNCHANGED yml /\ GotoAfterFault(p, "eraseid")
  /\ UNCHANGED <<cfg, cloudVars, calls, due, mishaps>>

ForgetNothing(p) ==
  /\ At(p, "forget") /\ Is(p, "deleteid") /\ cfg.id # call[p].tunnel
  /\ Ends(p)
  /\ UNCHANGED <<fileVars, cloudVars, calls, procVars, due, mishaps, faults>>

(* ... and then clears the settings one by one.  Nobody looks at whether     *)
(* setCFConfig could write.                                                 *)
Erase(p, setting, then) ==
  \/ cfg' = setting /\ Goto(p, then) /\ UNCHANGED faults
  \/ Fault /\ UNCHANGED cfg /\ GotoAfterFault(p, then)

EraseLast(p) ==
  /\ Ends(p)
  /\ \/ cfg' = [cfg EXCEPT !.on = FALSE] /\ UNCHANGED faults
     \/ Fault /\ UNCHANGED cfg

Erases(p) ==
  /\ \/ At(p, "eraseid") /\ Erase(p, [cfg EXCEPT !.id = None], "erasetoken")
     \/ At(p, "erasetoken") /\ Erase(p, [cfg EXCEPT !.token = None], "erasesub")
     \/ At(p, "erasesub") /\ Erase(p, [cfg EXCEPT !.sub = None], "eraseon")
     \/ At(p, "eraseon") /\ EraseLast(p)
  /\ UNCHANGED <<yml, cloudVars, calls, procVars, due, mishaps>>

(* Somebody deletes the tunnel with Cloudflare's own pages.                 *)
Lose ==
  /\ Fault
  /\ \E t \in remote : remote' = remote \ {t}
  /\ call' = Disturbed
  /\ mishaps' = mishaps \cup {"lost"}
  /\ UNCHANGED <<fileVars, created, ingress, dns, calls, procVars, due>>
-----------------------------------------------------------------------------
(* The panel ends and comes back: killed, or by SIGTERM, which stops the    *)
(* process first.  Either way no watcher is left.                           *)
Restart ==
  /\ Fault
  /\ call' = [p \in Call |-> None]
  /\ lock' = None /\ tracked' = None /\ stopRequest' = FALSE /\ raced' = FALSE
  /\ watcher' = [w \in Watcher |-> None]
  /\ due' = TRUE
  /\ mishaps' = IF Running = {} THEN mishaps ELSE mishaps \cup {"cut"}
  /\ UNCHANGED <<fileVars, cloudVars, calls>>

(* AutoStartCFTunnel.                                                       *)
AutoStart(p) ==
  /\ due /\ due' = FALSE /\ NextCall(p)
  /\ IF cfg.on /\ cfg.id # None /\ (cfg.token # None \/ yml # None)
       THEN /\ call' = [Disturbed EXCEPT ![p] = [kind |-> "run", step |-> "start",
                                                 tunnel |-> None, host |-> None,
                                                 smooth |-> Running = {}]]
            /\ mishaps' = IF Running = {} THEN mishaps ELSE mishaps \cup {"met"}
       ELSE UNCHANGED <<call, mishaps>>
  /\ UNCHANGED <<fileVars, cloudVars, calls, procVars, faults>>

Handle(p) ==
  \/ StartRefused(p) \/ StartReads(p) \/ StartSpawns(p) \/ StartFails(p)
  \/ List(p) \/ Token(p) \/ Drop(p) \/ Post(p) \/ PostFails(p) \/ NewToken(p)
  \/ Discover(p) \/ Save(p) \/ Bind(p) \/ BindRoutes(p)
  \/ Halt(p) \/ Undns(p) \/ Destroy(p) \/ Forget(p) \/ ForgetNothing(p)
  \/ Erases(p)
  \/ AutoStart(p)

Watch(w) == Notice(w) \/ Wake(w)

Next ==
  \/ \E p \in Call :
       \/ Handle(p)
       \/ \E kind \in Kind, t \in Tunnel \cup {None}, h \in Host \cup {None} :
            Begin(p, kind, t, h)
  \/ \E w \in Watcher : Watch(w) \/ Exit(w)
  \/ SaveSettings \/ Render \/ Stop \/ Lose \/ Restart

Spec == Init /\ [][Next]_vars

(* Handlers and watchers go on.                                             *)
FairSpec ==
  /\ Spec
  /\ \A p \in Call : WF_vars(Handle(p))
  /\ \A w \in Watcher : WF_vars(Watch(w))
-----------------------------------------------------------------------------
(* The settings know the process: unless it was started again while an      *)
(* older watcher was still there, the process that runs is the tracked one, *)
(* none runs after a request to stop, and a tracked process is never one    *)
(* that nobody waits for.                                                   *)
Supervised ==
  /\ stopRequest => tracked = None
  /\ tracked # None => watcher[tracked] # None /\ ~watcher[tracked].sleeps
  /\ ~raced => Alive \subseteq {tracked}

(* A one-click setup that nobody disturbs and that gets the token it asks   *)
(* for has the panel served when it says so, whatever earlier requests left *)
(* behind: process, routing rule and record belong to one tunnel, which     *)
(* exists.                                                                  *)
OneClickServes ==
  [][\A p \in Call :
       (Is(p, "oneclick") /\ At(p, "spawn") /\ call'[p] = None /\ tracked' # None
          /\ call[p].smooth)
         => /\ watcher'[tracked'].tunnel = cfg.id /\ cfg.id \in remote
            /\ ingress'[cfg.id] = cfg.sub /\ dns[cfg.sub] = cfg.id]_vars

(* A deletion of the tunnel of the panel that nobody disturbs, and none of  *)
(* whose steps fails, leaves no process, no file, no setting, no tunnel     *)
(* and, unless the tunnel was named by its id, no record of its host.       *)
DeleteLeavesNothing ==
  [][\A p \in Call :
       (At(p, "eraseon") /\ call[p].smooth /\ call'[p] = None /\ ~cfg'.on)
         => /\ call[p].tunnel \notin remote' /\ yml' = None /\ cfg' = Cleared
            /\ Is(p, "delete") /\ call[p].host # None => dns'[call[p].host] = None
            /\ tracked' = None /\ (raced \/ Alive' = {})]_vars

(* Stopped for good means stopped: every watcher comes to see it, those     *)
(* that sleep before a restart too.                                         *)
StopSticks == <>[](stopRequest /\ ~raced) => <>[](\A w \in Watcher : watcher[w] = None)
=============================================================================
