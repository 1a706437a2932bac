------------------------- MODULE PanelTunnel_proofs --------------------------
(***************************************************************************)
(* Proofs about PanelTunnel, for any number of handlers, watchers, hosts   *)
(* and failures: the settings know the process that runs, a deletion that  *)
(* nothing disturbs leaves nothing behind, and a one-click setup that      *)
(* nothing disturbs ends with a service that is complete.                  *)
(***************************************************************************)
EXTENDS PanelTunnel, TLAPS

RecordsOK ==
  /\ cfg \in Setting /\ yml \in Tunnel \cup {None}
  /\ remote \subseteq Tunnel /\ created \in Nat
  /\ call \in [Call -> {None} \cup Request]

(* At most one goroutine watches, as long as no process was started beside  *)
(* an older watcher; the tracked process is one that somebody waits for.    *)
ProcInv ==
  /\ watcher \in [Watcher -> {None} \cup Process]
  /\ tracked \in Watcher \cup {None}
  /\ Supervised
  /\ ~raced => \A v, w \in Watcher : watcher[v] # None /\ watcher[w] # None => v = w

LEMMA RecordsInit == Init => RecordsOK
  BY DEF Init, RecordsOK, Setting, Cleared

LEMMA ProcInit == Init => ProcInv
  BY NoneAssumption DEF Init, ProcInv, Supervised, Alive
-----------------------------------------------------------------------------
(* What a handler may become.                                               *)
LEMMA DisturbedType ==
  ASSUME RecordsOK PROVE Disturbed \in [Call -> {None} \cup Request]
<1>1. \A r \in Request : [r EXCEPT !.smooth = FALSE] \in Request
  BY DEF Request
<1> QED BY <1>1 DEF Disturbed, RecordsOK

(* The ways in which a step of a handler changes what the handler is doing. *)
Moves(p) ==
  \/ \E s \in Step : call' = [call EXCEPT ![p].step = s]
  \/ \E s \in Step : call' = [call EXCEPT ![p].step = s, ![p].smooth = FALSE]
  \/ \E s \in Step, t \in Tunnel \cup {None} : call' = [call EXCEPT ![p].step = s, ![p].tunnel = t]
  \/ \E s \in Step, h \in Host \cup {None} : call' = [call EXCEPT ![p].step = s, ![p].host = h]
  \/ \E s \in Step, t \in Tunnel \cup {None}, h \in Host \cup {None} :
       call' = [call EXCEPT ![p].step = s, ![p].tunnel = t, ![p].host = h]
  \/ \E s \in Step, t \in Tunnel \cup {None}, h \in Host \cup {None} :
       call' = [call EXCEPT ![p].step = s, ![p].tunnel = t, ![p].host = h, ![p].smooth = FALSE]
  \/ call' = [call EXCEPT ![p] = None]

LEMMA MoveType ==
  ASSUME RecordsOK, NEW p \in Call, call[p] # None, Moves(p)
  PROVE  call' \in [Call -> {None} \cup Request]
<1> DEFINE ok == call' \in [Call -> {None} \cup Request]
<1>1. call[p] \in Request
  BY DEF RecordsOK
<1>2. \A r \in {None} \cup Request : call' = [call EXCEPT ![p] = r] => ok
  BY DEF RecordsOK
<1>3. ASSUME NEW s \in Step PROVE call' = [call EXCEPT ![p].step = s] => ok
  <2>1. [call[p] EXCEPT !.step = s] \in Request
    BY <1>1 DEF Request
  <2> QED BY <1>2, <2>1
<1>4. ASSUME NEW s \in Step PROVE call' = [call EXCEPT ![p].step = s, ![p].smooth = FALSE] => ok
  <2>1. [call[p] EXCEPT !.step = s, !.smooth = FALSE] \in Request
    BY <1>1 DEF Request
  <2> QED BY <1>2, <2>1
<1>5. ASSUME NEW s \in Step, NEW t \in Tunnel \cup {None}
      PROVE  call' = [call EXCEPT ![p].step = s, ![p].tunnel = t] => ok
  <2>1. [call[p] EXCEPT !.step = s, !.tunnel = t] \in Request
    BY <1>1 DEF Request
  <2> QED BY <1>2, <2>1
<1>6. ASSUME NEW s \in Step, NEW t \in Tunnel \cup {None}, NEW h \in Host \cup {None}
      PROVE  call' = [call EXCEPT ![p].step = s, ![p].tunnel = t, ![p].host = h] => ok
  <2>1. [call[p] EXCEPT !.step = s, !.tunnel = t, !.host = h] \in Request
    BY <1>1 DEF Request
  <2> QED BY <1>2, <2>1
<1>7. ASSUME NEW s \in Step, NEW t \in Tunnel \cup {None}, NEW h \in Host \cup {None}
      PROVE  call' = [call EXCEPT ![p].step = s, ![p].tunnel = t, ![p].host = h, ![p].smooth = FALSE] => ok
  <2> DEFINE r == [call[p] EXCEPT !.step = s, !.tunnel = t, !.host = h, !.smooth = FALSE]
  <2>1. r \in Request
    BY <1>1 DEF Request
  <2>2. call' = [call EXCEPT ![p] = r] => ok
    BY <1>2, <2>1
  <2> QED BY <2>2
<1>8. call' = [call EXCEPT ![p] = None] => ok
  BY <1>2
<1>9. ASSUME NEW s \in Step, NEW h \in Host \cup {None}
      PROVE  call' = [call EXCEPT ![p].step = s, ![p].host = h] => ok
  <2>1. [call[p] EXCEPT !.step = s, !.host = h] \in Request
    BY <1>1 DEF Request
  <2> QED BY <1>2, <2>1
<1> QED BY <1>3, <1>4, <1>5, <1>6, <1>7, <1>8, <1>9 DEF Moves

(* A step of a handler that is there, but for the automatic start.          *)
Acts(p) ==
  \/ StartRefused(p) \/ StartReads(p) \/ StartSpawns(p) \/ StartFails(p)
  \/ List(p) \/ Token(p) \/ Drop(p) \/ Post(p) \/ PostFails(p) \/ NewToken(p)
  \/ Discover(p) \/ Save(p) \/ Bind(p) \/ BindRoutes(p)
  \/ Halt(p) \/ Undns(p) \/ Destroy(p) \/ Forget(p) \/ ForgetNothing(p)
  \/ Erases(p)

LEMMA ActsMove ==
  ASSUME RecordsOK, NEW p \in Call, Acts(p) PROVE call[p] # None /\ Moves(p)
<1>0. call[p] # None
  BY DEF Acts, At, StartRefused, StartReads, StartSpawns, StartFails, List, Token, Drop, Post, PostFails,
     NewToken, Discover, Save, Bind, BindRoutes, Halt, Undns, Destroy, Forget, ForgetNothing, Erases
<1>t. cfg.id \in Tunnel \cup {None} /\ cfg.token \in Tunnel \cup {None} /\ cfg.sub \in Host \cup {None}
  BY DEF RecordsOK, Setting
<1>1. CASE \/ StartRefused(p) \/ StartSpawns(p) \/ StartFails(p) \/ PostFails(p) \/ ForgetNothing(p)
           \/ Drop(p) \/ Discover(p) \/ Save(p) \/ Bind(p) \/ Halt(p) \/ Destroy(p) \/ BindRoutes(p)
  <2>1. Ends(p) \/ \E s \in Step : Goto(p, s)
    BY <1>1 DEF StartRefused, StartSpawns, StartFails, PostFails, ForgetNothing, Drop, Discover,
       Save, Bind, Halt, Destroy, BindRoutes, Prepares, Step
  <2> QED BY <1>0, <2>1 DEF Ends, Goto, Moves
<1>2. CASE StartReads(p)
  BY <1>0, <1>2, <1>t DEF StartReads, Moves, Step
<1>3. CASE List(p)
  <2>1. CASE Ends(p) \/ Goto(p, "post")
    BY <1>0, <2>1 DEF Ends, Goto, Moves, Step
  <2>2. CASE \E t \in remote : call' = [call EXCEPT ![p].step = "token", ![p].tunnel = t]
    BY <1>0, <2>2 DEF Moves, Step, RecordsOK
  <2> QED BY <1>3, <2>1, <2>2 DEF List
<1>4. CASE Token(p)
  <2>1. CASE Ends(p) \/ Goto(p, "drop")
    BY <1>0, <2>1 DEF Ends, Goto, Moves, Step
  <2>2. CASE call' = [call EXCEPT ![p].step = "bind", ![p].tunnel = cfg.id, ![p].host = cfg.sub]
    BY <1>0, <1>t, <2>2 DEF Moves, Step
  <2> QED BY <1>4, <2>1, <2>2 DEF Token, Created
<1>5. CASE Post(p)
  <2>1. created' \in Tunnel
    BY <1>5, BoundAssumption DEF Post, RecordsOK, Tunnel
  <2> QED BY <1>0, <1>5, <2>1 DEF Post, Moves, Step
<1>6. CASE NewToken(p)
  <2>1. CASE Ends(p)
    BY <1>0, <2>1 DEF Ends, Moves
  <2>2. CASE call' = [call EXCEPT ![p].step = "bind", ![p].tunnel = cfg.id, ![p].host = cfg.sub]
    BY <1>0, <1>t, <2>2 DEF Moves, Step
  <2>3. CASE call' = [call EXCEPT ![p].step = "bind", ![p].tunnel = cfg.id, ![p].host = cfg.sub,
                                  ![p].smooth = FALSE]
    BY <1>0, <1>t, <2>3 DEF Moves, Step
  <2> QED BY <1>6, <2>1, <2>2, <2>3 DEF NewToken, Created, CreatedWithOldToken
<1>7. CASE Undns(p)
  <2>1. CASE GotoAfterFault(p, "destroy")
    BY <1>0, <2>1 DEF GotoAfterFault, Moves, Step
  <2>2. CASE call' = [call EXCEPT ![p].step = "destroy", ![p].host = cfg.sub]
    <3>1. "destroy" \in Step
      BY DEF Step
    <3> QED BY <1>0, <1>t, <2>2, <3>1 DEF Moves
  <2> QED BY <1>7, <2>1, <2>2 DEF Undns
<1>8. CASE Forget(p) \/ Erases(p)
  <2>1. Ends(p) \/ \E s \in Step : Goto(p, s) \/ GotoAfterFault(p, s)
    BY <1>8 DEF Forget, Erases, Erase, EraseLast, Step
  <2> QED BY <1>0, <2>1 DEF Ends, Goto, GotoAfterFault, Moves
<1> QED BY <1>1, <1>2, <1>3, <1>4, <1>5, <1>6, <1>7, <1>8 DEF Acts

LEMMA SettingType ==
  ASSUME RecordsOK, NEW t \in Tunnel \cup {None}, NEW h \in Host \cup {None}, NEW b \in BOOLEAN
  PROVE  /\ [cfg EXCEPT !.id = t] \in Setting /\ [cfg EXCEPT !.token = t] \in Setting
         /\ [cfg EXCEPT !.sub = h] \in Setting /\ [cfg EXCEPT !.on = b] \in Setting
         /\ [cfg EXCEPT !.sub = h, !.on = b] \in Setting
  BY DEF RecordsOK, Setting

(* Every step leaves the records of their types: the settings, the file,    *)
(* the account and the handlers.                                            *)
LEMMA RecordsStep == RecordsOK /\ [Next]_vars => RecordsOK'
<1> SUFFICES ASSUME RecordsOK, [Next]_vars PROVE RecordsOK'
  OBVIOUS
<1> USE DEF fileVars, cloudVars
<1>1. ASSUME NEW p \in Call, Acts(p) PROVE RecordsOK'
  <2>1. call' \in [Call -> {None} \cup Request]
    BY <1>1, ActsMove, MoveType
  <2>2. call[p] \in Request
    BY <1>1, ActsMove DEF RecordsOK
  <2>3. call[p].tunnel \in Tunnel \cup {None} /\ call[p].host \in Host \cup {None}
    BY <2>2 DEF Request
  <2>4. remote' \subseteq Tunnel /\ created' \in Nat
    <3>1. CASE Post(p)
      BY <3>1, BoundAssumption DEF Post, RecordsOK, Tunnel
    <3>2. CASE Drop(p) \/ Destroy(p)
      BY <3>2 DEF Drop, Destroy, RecordsOK
    <3>3. CASE UNCHANGED <<remote, created>>
      BY <3>3 DEF RecordsOK
    <3> QED
      BY <1>1, <3>1, <3>2, <3>3 DEF Acts, StartRefused, StartReads, StartSpawns, StartFails, List, Token,
         PostFails, NewToken, Discover, Save, Bind, BindRoutes, Halt, Undns, Forget, ForgetNothing, Erases
  <2>5. yml' \in Tunnel \cup {None}
    BY <1>1 DEF RecordsOK, Setting, Acts, StartRefused, StartReads, StartSpawns, StartFails, List, Token,
       Drop, Post, PostFails, NewToken, Discover, Save, Bind, BindRoutes, Halt, Undns, Destroy, Forget, ForgetNothing, Erases
  <2>6. cfg' \in Setting
    <3>1. CASE UNCHANGED cfg
      BY <3>1 DEF RecordsOK
    <3>2. CASE List(p)
      <4>1. CASE \E t \in remote : cfg' = [cfg EXCEPT !.id = t]
        <5>1. PICK t \in remote : cfg' = [cfg EXCEPT !.id = t]
          BY <4>1
        <5>2. t \in Tunnel
          BY DEF RecordsOK
        <5> QED BY <5>1, <5>2 DEF RecordsOK, Setting
      <4> QED BY <3>1, <3>2, <4>1 DEF List
    <3>3. CASE Post(p)
      <4>1. created' \in Tunnel
        BY <3>3, BoundAssumption DEF Post, RecordsOK, Tunnel
      <4> QED BY <3>3, <4>1, SettingType DEF Post
    <3>4. CASE Token(p) \/ NewToken(p)
      BY <2>3, <3>1, <3>4, SettingType DEF Token, NewToken
    <3>5. CASE Save(p)
      <4>1. cfg' = [cfg EXCEPT !.sub = call[p].host, !.on = TRUE]
        BY <3>5 DEF Save
      <4> QED BY <2>3, <4>1, SettingType
    <3>6. CASE Erases(p)
      <4>1. /\ [cfg EXCEPT !.id = None] \in Setting /\ [cfg EXCEPT !.token = None] \in Setting
            /\ [cfg EXCEPT !.sub = None] \in Setting /\ [cfg EXCEPT !.on = FALSE] \in Setting
        BY SettingType
      <4> QED BY <3>1, <3>6, <4>1 DEF Erases, Erase, EraseLast
    <3> QED
      BY <1>1, <3>1, <3>2, <3>3, <3>4, <3>5, <3>6 DEF Acts, StartRefused, StartReads, StartSpawns, StartFails,
         Drop, PostFails, Discover, Bind, BindRoutes, Halt, Undns, Destroy, Forget, ForgetNothing
  <2> QED BY <2>1, <2>4, <2>5, <2>6 DEF RecordsOK
<1>2. ASSUME UNCHANGED <<cfg, yml, remote, created>>, call' \in [Call -> {None} \cup Request] PROVE RecordsOK'
  BY <1>2 DEF RecordsOK
<1>3. ASSUME NEW p \in Call, AutoStart(p) PROVE RecordsOK'
  <2>1. [kind |-> "run", step |-> "start", tunnel |-> None, host |-> None, smooth |-> Running = {}] \in Request
    BY DEF Request, Kind, Step
  <2>2. call' \in [Call -> {None} \cup Request]
    BY <1>3, <2>1, DisturbedType DEF AutoStart, RecordsOK
  <2> QED BY <1>2, <1>3, <2>2 DEF AutoStart
<1>4. ASSUME NEW p \in Call, NEW kind \in Kind, NEW t \in Tunnel \cup {None}, NEW h \in Host \cup {None},
             Begin(p, kind, t, h)
      PROVE RecordsOK'
  <2>1. FirstStep(kind) \in Step
    BY DEF FirstStep, Kind, Step
  <2>2. [kind |-> kind, step |-> FirstStep(kind), tunnel |-> t, host |-> h, smooth |-> Running = {}] \in Request
    BY <2>1 DEF Request
  <2>3. call' \in [Call -> {None} \cup Request]
    BY <1>4, <2>2, DisturbedType DEF Begin
  <2> QED BY <1>2, <1>4, <2>3 DEF Begin
<1>5. ASSUME NEW w \in Watcher, Watch(w) \/ Exit(w) PROVE RecordsOK'
  BY <1>5 DEF Watch, Notice, Wake, Exit, RecordsOK
<1>6. CASE SaveSettings
  <2>1. cfg' \in Setting
    BY <1>6, SettingType DEF SaveSettings
  <2>2. call' \in [Call -> {None} \cup Request] /\ UNCHANGED <<yml, remote, created>>
    BY <1>6, DisturbedType DEF SaveSettings
  <2> QED BY <2>1, <2>2 DEF RecordsOK
<1>7. CASE Render
  BY <1>7, DisturbedType DEF Render, RecordsOK, Setting
<1>8. CASE Stop
  BY <1>2, <1>8, DisturbedType DEF Stop
<1>9. CASE Lose
  BY <1>9, DisturbedType DEF Lose, RecordsOK
<1>10. CASE Restart
  BY <1>2, <1>10 DEF Restart
<1>11. CASE UNCHANGED vars
  BY <1>11 DEF vars, RecordsOK
<1> QED
  BY <1>1, <1>3, <1>4, <1>5, <1>6, <1>7, <1>8, <1>9, <1>10, <1>11 DEF Next, Handle, Acts
-----------------------------------------------------------------------------
(* Supervised, part by part: what the steps that touch the process do.      *)
LEMMA SpawnKeeps ==
  ASSUME ProcInv, NEW w \in Watcher, NEW t \in Tunnel, NEW b \in BOOLEAN, Spawn(w, t, b) PROVE ProcInv'
<1> DEFINE new == [sleeps |-> FALSE, alive |-> TRUE, tunnel |-> t, byToken |-> b, retries |-> 0]
<1>1. new \in Process
  BY BoundAssumption DEF Process
<1>2. watcher' = [watcher EXCEPT ![w] = new] /\ tracked' = w /\ ~stopRequest'
  BY DEF Spawn
<1>3. watcher' \in [Watcher -> {None} \cup Process] /\ watcher'[w] = new
  BY <1>1, <1>2 DEF ProcInv
<1>4. ~new.sleeps
  OBVIOUS
<1>5. ~raced' => \A v \in Watcher : v # w => watcher'[v] = None
  BY <1>2 DEF Spawn, ProcInv
<1> HIDE DEF new
<1>6. Supervised'
  BY <1>1, <1>2, <1>3, <1>4, <1>5, NoneAssumption DEF Supervised, Alive
<1> QED BY <1>2, <1>3, <1>5, <1>6 DEF ProcInv

(* A step that starts nothing.                                              *)
LEMMA StopsKeeps == ASSUME ProcInv, Stops PROVE ProcInv' /\ tracked' = None
<1>1. CASE tracked = None
  BY <1>1 DEF Stops, ProcInv, Supervised, Alive
<1>2. CASE tracked # None
  <2> DEFINE new == [watcher[tracked] EXCEPT !.alive = FALSE]
  <2>1. watcher[tracked] \in Process /\ new \in Process /\ ~new.alive
    BY <1>2 DEF ProcInv, Supervised, Process
  <2>2. watcher' = [watcher EXCEPT ![tracked] = new] /\ tracked' = None /\ stopRequest' /\ UNCHANGED raced
    BY <1>2 DEF Stops
  <2>3. /\ watcher' \in [Watcher -> {None} \cup Process] /\ watcher'[tracked] = new
        /\ \A v \in Watcher : v # tracked => watcher'[v] = watcher[v]
    BY <1>2, <2>1, <2>2 DEF ProcInv
  <2> HIDE DEF new
  <2>4. Supervised'
    BY <2>1, <2>2, <2>3 DEF ProcInv, Supervised, Alive
  <2> QED BY <1>2, <2>1, <2>2, <2>3, <2>4, NoneAssumption DEF ProcInv
<1> QED BY <1>1, <1>2

(* What a watcher makes of its own entry.                                   *)
(* What a watcher makes of its own entry: it takes it off the books, wakes, *)
(* loses its process, or has a new one.                                     *)
LEMMA EntryKeeps ==
  ASSUME ProcInv, NEW w \in Watcher, watcher[w] # None, NEW new \in {None} \cup Process,
         watcher' = [watcher EXCEPT ![w] = new], UNCHANGED <<stopRequest, raced>>,
         \/ tracked' = None /\ (new = None \/ ~new.alive)
         \/ UNCHANGED tracked /\ watcher[w].sleeps /\ (new = None \/ new.alive = watcher[w].alive)
         \/ UNCHANGED tracked /\ new # None /\ ~new.alive /\ new.sleeps = watcher[w].sleeps
         \/ tracked' = w /\ new # None /\ ~new.sleeps /\ ~stopRequest
  PROVE  ProcInv'
<1>1. /\ watcher' \in [Watcher -> {None} \cup Process] /\ watcher'[w] = new
      /\ \A v \in Watcher : v # w => watcher'[v] = watcher[v]
  BY DEF ProcInv
<1>2. ~raced => \A v \in Watcher : v # w => watcher[v] = None
  BY DEF ProcInv
<1>3. tracked' \in Watcher \cup {None}
  BY DEF ProcInv
<1>4. stopRequest' => tracked' = None
  BY DEF ProcInv, Supervised
<1>5. tracked' # None => watcher'[tracked'] # None /\ ~watcher'[tracked'].sleeps
  BY <1>1 DEF ProcInv, Supervised
<1>6. ~raced' => Alive' \subseteq {tracked'}
  BY <1>1, <1>2 DEF ProcInv, Supervised, Alive
<1>7. ~raced' => \A u, v \in Watcher : watcher'[u] # None /\ watcher'[v] # None => u = v
  BY <1>1, <1>2
<1> QED BY <1>1, <1>3, <1>4, <1>5, <1>6, <1>7 DEF ProcInv, Supervised

LEMMA WatchKeeps ==
  ASSUME RecordsOK, ProcInv, NEW w \in Watcher, Watch(w) \/ Exit(w) PROVE ProcInv'
<1>0. watcher[w] \in Process /\ watcher[w] # None
  BY DEF Watch, Notice, Wake, Exit, Alive, ProcInv
<1>1. CASE Exit(w)
  <2> DEFINE new == [watcher[w] EXCEPT !.alive = FALSE]
  <2>1. new \in Process /\ ~new.alive /\ new.sleeps = watcher[w].sleeps
    BY <1>0 DEF Process
  <2>2. watcher' = [watcher EXCEPT ![w] = new] /\ UNCHANGED <<tracked, stopRequest, raced>>
    BY <1>1 DEF Exit
  <2> HIDE DEF new
  <2> QED BY <1>0, <2>1, <2>2, EntryKeeps, NoneAssumption
<1>2. CASE Notice(w)
  <2>1. tracked' = None /\ UNCHANGED <<stopRequest, raced>>
    BY <1>2 DEF Notice
  <2>2. CASE GivesUp(w)
    BY <1>0, <1>2, <2>1, <2>2, EntryKeeps DEF Notice
  <2>3. CASE ~GivesUp(w)
    <3> DEFINE new == [watcher[w] EXCEPT !.sleeps = TRUE, !.retries = @ + 1]
    <3>1. watcher[w].retries + 1 \in 0 .. MaxRetry
      BY <1>0, <2>3, BoundAssumption DEF GivesUp, Process
    <3>2. new \in Process /\ ~new.alive
      BY <1>0, <1>2, <3>1 DEF Notice, Process
    <3>3. watcher' = [watcher EXCEPT ![w] = new]
      BY <1>2, <2>3 DEF Notice
    <3> HIDE DEF new
    <3> QED BY <1>0, <2>1, <3>2, <3>3, EntryKeeps
  <2> QED BY <2>2, <2>3
<1>3. CASE Wake(w)
  <2>0. UNCHANGED <<stopRequest, raced>> /\ watcher[w].sleeps
    BY <1>3 DEF Wake
  <2>1. CASE watcher' = [watcher EXCEPT ![w] = None] /\ UNCHANGED tracked
    BY <1>0, <2>0, <2>1, EntryKeeps
  <2>2. CASE /\ tracked' = w /\ Resumes /\ (watcher[w].byToken \/ yml # None)
             /\ watcher' = [watcher EXCEPT ![w].sleeps = FALSE, ![w].alive = TRUE,
                                           ![w].tunnel = IF watcher[w].byToken THEN @ ELSE yml]
    <3> DEFINE new == [watcher[w] EXCEPT !.sleeps = FALSE, !.alive = TRUE,
                                         !.tunnel = IF watcher[w].byToken THEN @ ELSE yml]
    <3>1. new \in Process /\ ~new.sleeps
      BY <1>0, <2>2 DEF Process, RecordsOK
    <3>2. watcher' = [watcher EXCEPT ![w] = new]
      BY <2>2
    <3> HIDE DEF new
    <3> QED BY <1>0, <2>0, <2>2, <3>1, <3>2, EntryKeeps, NoneAssumption DEF Resumes
  <2>3. CASE UNCHANGED tracked /\ watcher' = [watcher EXCEPT ![w].sleeps = FALSE]
    <3> DEFINE new == [watcher[w] EXCEPT !.sleeps = FALSE]
    <3>1. new \in Process /\ new.alive = watcher[w].alive
      BY <1>0 DEF Process
    <3>2. watcher' = [watcher EXCEPT ![w] = new]
      BY <2>3
    <3> HIDE DEF new
    <3> QED BY <1>0, <2>0, <2>3, <3>1, <3>2, EntryKeeps
  <2> QED BY <1>3, <2>1, <2>2, <2>3 DEF Wake
<1> QED BY <1>1, <1>2, <1>3 DEF Watch

(* Every step keeps the process supervised.                                 *)
LEMMA ProcStep == RecordsOK /\ ProcInv /\ [Next]_vars => ProcInv'
<1> SUFFICES ASSUME RecordsOK, ProcInv, [Next]_vars PROVE ProcInv'
  OBVIOUS
<1> DEFINE same == UNCHANGED <<watcher, tracked, stopRequest, raced>>
<1>1. same => ProcInv'
  BY DEF ProcInv, Supervised, Alive
<1>2. ASSUME NEW p \in Call, StartSpawns(p) PROVE ProcInv'
  <2>1. call[p] \in Request
    BY <1>2 DEF StartSpawns, At, RecordsOK
  <2>2. call[p].tunnel \in Tunnel \cup {None}
    BY <2>1 DEF Request
  <2>3. \E w \in Watcher, t \in Tunnel, b \in BOOLEAN : Spawn(w, t, b)
    BY <1>2, <2>2 DEF StartSpawns, RecordsOK
  <2> QED BY <2>3, SpawnKeeps
<1>3. ASSUME Stops PROVE ProcInv'
  BY <1>3, StopsKeeps
<1>4. ASSUME NEW p \in Call, Acts(p), ~StartSpawns(p), ~Stops PROVE same
  BY <1>4 DEF Acts, procVars, StartRefused, StartReads, StartFails, List, Token, Drop, Post, PostFails,
     NewToken, Discover, Save, Bind, BindRoutes, Halt, Undns, Destroy, Forget, ForgetNothing, Erases
<1>5. ASSUME NEW p \in Call,
             \/ AutoStart(p)
             \/ \E kind \in Kind, t \in Tunnel \cup {None}, h \in Host \cup {None} : Begin(p, kind, t, h)
      PROVE same
  BY <1>5 DEF AutoStart, Begin, procVars
<1>6. ASSUME NEW w \in Watcher, Watch(w) \/ Exit(w) PROVE ProcInv'
  BY <1>6, WatchKeeps
<1>7. CASE SaveSettings \/ Render \/ Lose \/ UNCHANGED vars
  BY <1>1, <1>7 DEF SaveSettings, Render, Lose, vars, procVars
<1>8. CASE Stop
  BY <1>3, <1>8 DEF Stop
<1>9. CASE Restart
  <2>1. watcher' = [w \in Watcher |-> None] /\ tracked' = None /\ ~stopRequest'
    BY <1>9 DEF Restart
  <2>2. Alive' = {}
    BY <2>1 DEF Alive
  <2> QED BY <2>1, <2>2 DEF ProcInv, Supervised
<1> HIDE DEF same
<1> QED
  BY <1>1, <1>2, <1>3, <1>4, <1>5, <1>6, <1>7, <1>8, <1>9 DEF Next, Handle, Acts
-----------------------------------------------------------------------------
(* The process that runs is the tracked one, however requests, crashes and  *)
(* restarts of cloudflared and of the panel follow each other.              *)
THEOREM AlwaysSupervised == Spec => []Supervised
<1>1. Init => RecordsOK /\ ProcInv
  BY RecordsInit, ProcInit
<1>2. RecordsOK /\ ProcInv /\ [Next]_vars => (RecordsOK /\ ProcInv)'
  BY RecordsStep, ProcStep
<1>3. RecordsOK /\ ProcInv => Supervised
  BY DEF ProcInv
<1> QED BY <1>1, <1>2, <1>3, PTL DEF Spec
-----------------------------------------------------------------------------
(* What an undisturbed deletion has done by each of its steps.  The handler *)
(* is alone, so that nobody undoes it.                                      *)
Erasing == {"eraseid", "erasetoken", "erasesub", "eraseon"}

Undone(r) ==
  /\ r.kind = "delete" /\ r.step \in {"undns", "destroy", "forget"} => stopRequest
  /\ r.kind = "delete" /\ r.step \in {"destroy", "forget"} \cup Erasing =>
       (r.host # None => dns[r.host] = None)
  /\ r.step \in {"forget"} \cup Erasing => r.tunnel \notin remote
  /\ r.step \in Erasing => stopRequest /\ yml = None
  /\ r.step \in {"erasetoken", "erasesub", "eraseon"} => cfg.id = None
  /\ r.step \in {"erasesub", "eraseon"} => cfg.token = None
  /\ r.step = "eraseon" => cfg.sub = None

DeleteInv ==
  \A p \in Call : call[p] # None /\ call[p].smooth =>
    (\A q \in Call : q # p => call[q] = None) /\ Undone(call[p])

(* What every step of a handler leaves alone.                               *)
LEMMA MoveKeeps ==
  ASSUME RecordsOK, NEW p \in Call, call[p] # None, Moves(p)
  PROVE  /\ \A q \in Call : q # p => call'[q] = call[q]
         /\ call'[p] # None => /\ call'[p].kind = call[p].kind
                               /\ call'[p].smooth => call[p].smooth
<1>1. call[p] \in Request /\ call \in [Call -> {None} \cup Request]
  BY DEF RecordsOK
<1>2. \E r : call' = [call EXCEPT ![p] = r] /\ (r # None => r.kind = call[p].kind /\ (r.smooth => call[p].smooth))
  <2>1. CASE call' = [call EXCEPT ![p] = None]
    BY <2>1
  <2>2. CASE \E s \in Step : call' = [call EXCEPT ![p].step = s]
    <3>1. PICK s \in Step : call' = [call EXCEPT ![p].step = s]
      BY <2>2
    <3>2. WITNESS [call[p] EXCEPT !.step = s]
    <3> QED BY <1>1, <3>1 DEF Request
  <2>3. CASE \E s \in Step : call' = [call EXCEPT ![p].step = s, ![p].smooth = FALSE]
    <3>1. PICK s \in Step : call' = [call EXCEPT ![p].step = s, ![p].smooth = FALSE]
      BY <2>3
    <3>2. WITNESS [call[p] EXCEPT !.step = s, !.smooth = FALSE]
    <3> QED BY <1>1, <3>1 DEF Request
  <2>4. CASE \E s \in Step, t \in Tunnel \cup {None} : call' = [call EXCEPT ![p].step = s, ![p].tunnel = t]
    <3>1. PICK s \in Step, t \in Tunnel \cup {None} : call' = [call EXCEPT ![p].step = s, ![p].tunnel = t]
      BY <2>4
    <3>2. WITNESS [call[p] EXCEPT !.step = s, !.tunnel = t]
    <3> QED BY <1>1, <3>1 DEF Request
  <2>5. CASE \E s \in Step, t \in Tunnel \cup {None}, h \in Host \cup {None} :
               call' = [call EXCEPT ![p].step = s, ![p].tunnel = t, ![p].host = h]
    <3>1. PICK s \in Step, t \in Tunnel \cup {None}, h \in Host \cup {None} :
            call' = [call EXCEPT ![p].step = s, ![p].tunnel = t, ![p].host = h]
      BY <2>5
    <3>2. WITNESS [call[p] EXCEPT !.step = s, !.tunnel = t, !.host = h]
    <3> QED BY <1>1, <3>1 DEF Request
  <2>6. CASE \E s \in Step, t \in Tunnel \cup {None}, h \in Host \cup {None} :
               call' = [call EXCEPT ![p].step = s, ![p].tunnel = t, ![p].host = h, ![p].smooth = FALSE]
    <3>1. PICK s \in Step, t \in Tunnel \cup {None}, h \in Host \cup {None} :
            call' = [call EXCEPT ![p].step = s, ![p].tunnel = t, ![p].host = h, ![p].smooth = FALSE]
      BY <2>6
    <3>2. WITNESS [call[p] EXCEPT !.step = s, !.tunnel = t, !.host = h, !.smooth = FALSE]
    <3> QED BY <1>1, <3>1 DEF Request
  <2>7. CASE \E s \in Step, h \in Host \cup {None} : call' = [call EXCEPT ![p].step = s, ![p].host = h]
    <3>1. PICK s \in Step, h \in Host \cup {None} : call' = [call EXCEPT ![p].step = s, ![p].host = h]
      BY <2>7
    <3>2. WITNESS [call[p] EXCEPT !.step = s, !.host = h]
    <3> QED BY <1>1, <3>1 DEF Request
  <2> QED BY <2>1, <2>2, <2>3, <2>4, <2>5, <2>6, <2>7 DEF Moves
<1> QED BY <1>1, <1>2

(* Which step of a handler leads to which: where it comes from and with what. *)
LEMMA ActsReach ==
  ASSUME RecordsOK, NEW p \in Call, Acts(p), call'[p] # None
  PROVE  LET s == call'[p].step IN
         \/ s = "save" /\ Discover(p)
         \/ s = "list" /\ Save(p) /\ call'[p].host = call[p].host
         \/ /\ s = "token" /\ List(p) /\ call'[p].host = call[p].host
            /\ call'[p].tunnel \in remote /\ cfg' = [cfg EXCEPT !.id = call'[p].tunnel]
         \/ /\ s \in {"post", "drop"} /\ (List(p) \/ Token(p) \/ Drop(p))
            /\ call'[p].host = call[p].host /\ cfg' = cfg
         \/ /\ s = "newtoken" /\ Post(p) /\ call'[p].tunnel = created' /\ call'[p].host = call[p].host
         \/ /\ s = "bind" /\ (Token(p) \/ NewToken(p)) /\ ~call'[p].smooth
         \/ /\ s = "bind" /\ (Token(p) \/ NewToken(p)) /\ call'[p].tunnel = cfg.id /\ call'[p].host = cfg.sub
            /\ cfg' = [cfg EXCEPT !.token = call[p].tunnel]
            /\ Token(p) => call[p].tunnel \in remote
         \/ /\ s = "route" /\ Bind(p) /\ call'[p].tunnel = call[p].tunnel /\ call'[p].host = call[p].host
            /\ dns' = [dns EXCEPT ![call[p].host] = call[p].tunnel] /\ call[p].host # None
         \/ /\ s = "start" /\ BindRoutes(p) /\ call'[p].tunnel = call[p].tunnel
            /\ call'[p].host = call[p].host /\ Route
         \/ s = "spawn" /\ StartReads(p) /\ call'[p].tunnel = cfg.token /\ call'[p].host = call[p].host
         \/ s = "undns" /\ Halt(p)
         \/ s = "destroy" /\ Undns(p)
         \/ s = "forget" /\ Destroy(p)
         \/ s \in Erasing /\ (Forget(p) \/ Erases(p))
<1>1. call[p] # None /\ ~Ends(p)
  BY ActsMove DEF Ends, RecordsOK
<1>0. call[p] \in Request /\ call \in [Call -> {None} \cup Request]
  BY <1>1 DEF RecordsOK
<1>2. ASSUME NEW s, Goto(p, s)
      PROVE  call'[p].step = s /\ call'[p].tunnel = call[p].tunnel /\ call'[p].host = call[p].host
  BY <1>0, <1>2 DEF Goto, Request
<1>3. ~StartRefused(p) /\ ~StartSpawns(p) /\ ~StartFails(p) /\ ~PostFails(p) /\ ~ForgetNothing(p)
  BY <1>1 DEF StartRefused, StartSpawns, StartFails, PostFails, ForgetNothing
<1>4. CASE Discover(p)
  BY <1>1, <1>2, <1>4 DEF Discover
<1>5. CASE Save(p)
  BY <1>1, <1>2, <1>5 DEF Save
<1>6. CASE List(p)
  <2>1. CASE Goto(p, "post") /\ UNCHANGED cfg
    BY <1>2, <1>6, <2>1
  <2>2. ASSUME NEW t \in remote, cfg' = [cfg EXCEPT !.id = t],
               call' = [call EXCEPT ![p].step = "token", ![p].tunnel = t]
        PROVE  call'[p].step = "token" /\ call'[p].tunnel = t /\ call'[p].host = call[p].host
    BY <1>0, <2>2 DEF Request
  <2> QED BY <1>1, <1>6, <2>1, <2>2 DEF List
<1>7. Created(p) => /\ call'[p].step = "bind" /\ call'[p].tunnel = cfg.id /\ call'[p].host = cfg.sub
  <2>1. SUFFICES ASSUME Created(p) PROVE call'[p].step = "bind" /\ call'[p].tunnel = cfg.id /\ call'[p].host = cfg.sub
    OBVIOUS
  <2>2. call' = [call EXCEPT ![p].step = "bind", ![p].tunnel = cfg.id, ![p].host = cfg.sub]
    BY <1>1, <2>1 DEF Created
  <2> QED BY <1>0, <2>2 DEF Request
<1>8. CreatedWithOldToken(p) => call'[p].step = "bind" /\ ~call'[p].smooth
  <2>1. SUFFICES ASSUME CreatedWithOldToken(p) PROVE call'[p].step = "bind" /\ ~call'[p].smooth
    OBVIOUS
  <2>2. call' = [call EXCEPT ![p].step = "bind", ![p].tunnel = cfg.id, ![p].host = cfg.sub,
                             ![p].smooth = FALSE]
    BY <1>1, <2>1 DEF CreatedWithOldToken
  <2> QED BY <1>0, <2>2 DEF Request
<1>9. CASE Token(p)
  <2>1. CASE Goto(p, "drop") /\ UNCHANGED cfg
    BY <1>2, <1>9, <2>1
  <2>2. CASE call[p].tunnel \in remote /\ cfg' = [cfg EXCEPT !.token = call[p].tunnel] /\ Created(p)
    BY <1>7, <1>9, <2>2
  <2> QED BY <1>9, <2>1, <2>2 DEF Token
<1>10. CASE NewToken(p)
  <2>1. CASE cfg' = [cfg EXCEPT !.token = call[p].tunnel] /\ Created(p)
    <3>1. call[p].step = "newtoken"
      BY <1>10 DEF NewToken, At
    <3> QED BY <1>7, <1>10, <2>1, <3>1 DEF Token, At
  <2>2. CASE CreatedWithOldToken(p)
    BY <1>8, <1>10, <2>2
  <2> QED BY <1>10, <2>1, <2>2 DEF NewToken
<1>11. CASE Drop(p)
  BY <1>2, <1>11 DEF Drop, fileVars
<1>12. CASE Post(p)
  BY <1>0, <1>12 DEF Post, Request
<1>13. CASE Bind(p)
  BY <1>1, <1>2, <1>13 DEF Bind
<1>14. CASE BindRoutes(p)
  BY <1>1, <1>2, <1>14 DEF BindRoutes, Prepares
<1>15. CASE StartReads(p)
  BY <1>0, <1>15 DEF StartReads, Request
<1>16. CASE Halt(p)
  BY <1>2, <1>16 DEF Halt
<1>17. CASE Undns(p)
  BY <1>0, <1>17 DEF Undns, GotoAfterFault, Request
<1>18. CASE Destroy(p)
  BY <1>1, <1>2, <1>18 DEF Destroy
<1>19. CASE Forget(p) \/ Erases(p)
  <2>1. \E s \in Erasing : Goto(p, s) \/ GotoAfterFault(p, s)
    BY <1>1, <1>19 DEF Forget, Erases, Erase, EraseLast, Erasing
  <2>2. PICK s \in Erasing : Goto(p, s) \/ GotoAfterFault(p, s)
    BY <2>1
  <2>3. call'[p].step = s
    BY <1>0, <2>2 DEF Goto, GotoAfterFault, Request
  <2> QED BY <1>19, <2>3
<1> QED
  BY <1>3, <1>4, <1>5, <1>6, <1>9, <1>10, <1>11, <1>12, <1>13, <1>14, <1>15, <1>16, <1>17, <1>18, <1>19 DEF Acts

(* Only the steps of a deletion lead to its later steps.                    *)
Calm(p) == call'[p] # None => call'[p].step \notin {"undns", "destroy", "forget"} \cup Erasing

LEMMA ActsCalm ==
  ASSUME RecordsOK, NEW p \in Call, Acts(p), ~Halt(p), ~Undns(p), ~Destroy(p), ~Forget(p), ~Erases(p)
  PROVE  Calm(p)
  BY ActsReach DEF Calm, Erasing

LEMMA DeleteInit == Init => DeleteInv
  BY DEF Init, DeleteInv

(* A step of the handler itself.                                            *)
LEMMA DeleteActs ==
  ASSUME RecordsOK, DeleteInv, NEW p \in Call, Acts(p) PROVE DeleteInv'
<1>1. call[p] # None /\ call[p] \in Request /\ Moves(p)
  BY ActsMove DEF RecordsOK
<1>2. /\ \A q \in Call : q # p => call'[q] = call[q]
      /\ call'[p] # None => call'[p].kind = call[p].kind /\ (call'[p].smooth => call[p].smooth)
  BY <1>1, MoveKeeps
<1>3. ASSUME NEW q \in Call, call'[q] # None, call'[q].smooth
      PROVE  q = p /\ call[p].smooth /\ \A r \in Call : r # p => call'[r] = None
  BY <1>1, <1>2, <1>3 DEF DeleteInv
<1>4. ASSUME call'[p] # None, call'[p].smooth PROVE Undone(call[p])'
  <2>0. call[p].smooth /\ Undone(call[p]) /\ call'[p].kind = call[p].kind
    BY <1>1, <1>2, <1>4 DEF DeleteInv
  <2>t. call \in [Call -> {None} \cup Request] /\ call[p].host \in Host \cup {None}
    BY <1>1 DEF RecordsOK, Request
  <2>g. ASSUME NEW s, Goto(p, s)
        PROVE  /\ call'[p].step = s /\ call'[p].tunnel = call[p].tunnel /\ call'[p].host = call[p].host
    BY <1>1, <2>t, <2>g DEF Goto, Request
  <2>f. ASSUME NEW s PROVE ~GotoAfterFault(p, s)
    BY <1>1, <1>4, <2>t DEF GotoAfterFault, Request
  <2>1. CASE Halt(p)
    <3>1. call'[p].step = "undns" /\ stopRequest'
      BY <2>1, <2>g DEF Halt, Stops
    <3> QED BY <3>1 DEF Undone, Erasing
  <2>2. CASE Undns(p)
    <3>1. /\ dns' = [h \in Host |-> IF h = cfg.sub THEN None ELSE dns[h]]
          /\ call' = [call EXCEPT ![p].step = "destroy", ![p].host = cfg.sub]
      BY <2>2, <2>f DEF Undns
    <3>2. call'[p].step = "destroy" /\ call'[p].host = cfg.sub
      BY <1>1, <2>t, <3>1 DEF Request
    <3>3. UNCHANGED stopRequest /\ call[p].step = "undns"
      BY <2>2 DEF Undns, At, procVars
    <3>4. cfg.sub \in Host \cup {None}
      BY DEF RecordsOK, Setting
    <3> QED BY <2>0, <3>1, <3>2, <3>3, <3>4 DEF Undone, Erasing
  <2>3. CASE Destroy(p)
    <3>1. Goto(p, "forget") /\ remote' = remote \ {call[p].tunnel}
      BY <1>1, <1>4, <2>t, <2>3 DEF Destroy, Ends
    <3>2. UNCHANGED <<dns, stopRequest>> /\ call[p].step = "destroy"
      BY <2>3 DEF Destroy, At, procVars
    <3> QED BY <2>0, <2>g, <3>1, <3>2 DEF Undone, Erasing
  <2>4. CASE Forget(p)
    <3>1. yml' = None /\ Goto(p, "eraseid") /\ UNCHANGED <<dns, remote>> /\ call[p].step = "forget"
      BY <2>4, <2>f DEF Forget, At, cloudVars
    <3>2. stopRequest'
      BY <2>0, <2>4, <3>1 DEF Forget, Is, Undone, Stops, procVars
    <3> QED BY <2>0, <2>g, <3>1, <3>2 DEF Undone, Erasing
  <2>5. CASE Erases(p)
    <3>1. UNCHANGED <<yml, dns, remote, stopRequest>>
      BY <2>5 DEF Erases, cloudVars, procVars
    <3>2. \/ call[p].step = "eraseid" /\ cfg' = [cfg EXCEPT !.id = None] /\ Goto(p, "erasetoken")
          \/ call[p].step = "erasetoken" /\ cfg' = [cfg EXCEPT !.token = None] /\ Goto(p, "erasesub")
          \/ call[p].step = "erasesub" /\ cfg' = [cfg EXCEPT !.sub = None] /\ Goto(p, "eraseon")
      BY <1>1, <1>4, <2>t, <2>5, <2>f DEF Erases, Erase, EraseLast, Ends, At
    <3>3. cfg \in Setting
      BY DEF RecordsOK
    <3>4. CASE call[p].step = "eraseid" /\ cfg' = [cfg EXCEPT !.id = None] /\ Goto(p, "erasetoken")
      BY <2>0, <2>g, <3>1, <3>3, <3>4 DEF Undone, Erasing, Setting
    <3>5. CASE call[p].step = "erasetoken" /\ cfg' = [cfg EXCEPT !.token = None] /\ Goto(p, "erasesub")
      BY <2>0, <2>g, <3>1, <3>3, <3>5 DEF Undone, Erasing, Setting
    <3>6. CASE call[p].step = "erasesub" /\ cfg' = [cfg EXCEPT !.sub = None] /\ Goto(p, "eraseon")
      BY <2>0, <2>g, <3>1, <3>3, <3>6 DEF Undone, Erasing, Setting
    <3> QED BY <3>2, <3>4, <3>5, <3>6
  <2>6. CASE ~Halt(p) /\ ~Undns(p) /\ ~Destroy(p) /\ ~Forget(p) /\ ~Erases(p)
    BY <1>4, <2>6, ActsCalm DEF Calm, Undone, Erasing
  <2> QED BY <2>1, <2>2, <2>3, <2>4, <2>5, <2>6
<1> QED BY <1>2, <1>3, <1>4 DEF DeleteInv

(* Anybody else: the handlers are disturbed, or what they rely on stays.    *)
LEMMA DeleteStep == RecordsOK /\ DeleteInv /\ [Next]_vars => DeleteInv'
<1> SUFFICES ASSUME RecordsOK, DeleteInv, [Next]_vars PROVE DeleteInv'
  OBVIOUS
<1>1. ASSUME UNCHANGED <<call, cfg, yml, dns, remote, stopRequest>> PROVE DeleteInv'
  BY <1>1 DEF DeleteInv, Undone
<1>2. \A q \in Call : Disturbed[q] = None \/ ~Disturbed[q].smooth
  BY DEF Disturbed, RecordsOK, Request
<1>3. CASE call' = Disturbed
  BY <1>2, <1>3 DEF DeleteInv
<1>4. ASSUME NEW p \in Call, NEW r \in Request, call[p] = None,
             call' = [Disturbed EXCEPT ![p] = r], r.smooth => Running = {},
             r.step \in {"undns", "destroy", "forget"} \cup Erasing => r.kind # "delete" /\ r.step = "destroy"
      PROVE  DeleteInv'
  <2>1. call'[p] = r /\ \A q \in Call : q # p => call'[q] = Disturbed[q]
    BY <1>4 DEF Disturbed
  <2>2. Running = {} => \A q \in Call : q # p => call'[q] = None
    BY <2>1 DEF Running, Disturbed
  <2>3. Undone(call[p])'
    BY <1>4, <2>1 DEF Undone, Erasing
  <2> QED BY <1>2, <1>4, <2>1, <2>2, <2>3 DEF DeleteInv
<1>5. ASSUME NEW p \in Call, NEW kind \in Kind, NEW t \in Tunnel \cup {None}, NEW h \in Host \cup {None},
             Begin(p, kind, t, h)
      PROVE  DeleteInv'
  <2> DEFINE r == [kind |-> kind, step |-> FirstStep(kind), tunnel |-> t, host |-> h, smooth |-> Running = {}]
  <2>1. FirstStep(kind) \in Step /\ (FirstStep(kind) \in {"undns", "destroy", "forget"} \cup Erasing =>
                                       kind # "delete" /\ FirstStep(kind) = "destroy")
    BY DEF FirstStep, Kind, Step, Erasing
  <2>2. r \in Request
    BY <2>1 DEF Request
  <2>3. call[p] = None /\ call' = [Disturbed EXCEPT ![p] = r]
    BY <1>5 DEF Begin, NextCall
  <2> QED BY <1>4, <2>1, <2>2, <2>3
<1>6. ASSUME NEW p \in Call, AutoStart(p) PROVE DeleteInv'
  <2> DEFINE r == [kind |-> "run", step |-> "start", tunnel |-> None, host |-> None, smooth |-> Running = {}]
  <2>1. r \in Request
    BY DEF Request, Kind, Step
  <2>2. \/ call[p] = None /\ call' = [Disturbed EXCEPT ![p] = r]
        \/ UNCHANGED <<call, cfg, yml, dns, remote, stopRequest>>
    BY <1>6 DEF AutoStart, NextCall, fileVars, cloudVars, procVars
  <2>3. r.step \notin {"undns", "destroy", "forget"} \cup Erasing
    BY DEF Erasing
  <2> QED BY <1>1, <1>4, <2>1, <2>2, <2>3
<1>7. ASSUME NEW w \in Watcher, Watch(w) \/ Exit(w) PROVE DeleteInv'
  BY <1>1, <1>7 DEF Watch, Notice, Wake, Exit, fileVars, cloudVars
<1>8. CASE SaveSettings \/ Render \/ Stop \/ Lose
  BY <1>3, <1>8 DEF SaveSettings, Render, Stop, Lose
<1>9. CASE UNCHANGED vars
  BY <1>1, <1>9 DEF vars, fileVars, cloudVars, procVars
<1>10. CASE Restart
  BY <1>10 DEF Restart, DeleteInv
<1> QED
  BY <1>5, <1>6, <1>7, <1>8, <1>9, <1>10, DeleteActs DEF Next, Handle, Acts

(* Who ends a deletion at its last step is the handler itself, or the panel. *)
LEMMA OnlyErasesEnds ==
  ASSUME RecordsOK, DeleteInv, [Next]_vars,
         NEW p \in Call, At(p, "eraseon"), call[p].smooth, call'[p] = None
  PROVE  (At(p, "eraseon") /\ Erases(p)) \/ Restart
<1>1. ASSUME NEW q \in Call, Acts(q) PROVE Erases(p)
  <2>1. q = p
    BY <1>1, ActsMove DEF DeleteInv, At
  <2> QED
    BY <1>1, <2>1 DEF Acts, At, StartRefused, StartReads, StartSpawns, StartFails, List, Token, Drop, Post,
       PostFails, NewToken, Discover, Save, Bind, BindRoutes, Halt, Undns, Destroy, Forget, ForgetNothing
<1>2. call[p] # None /\ Disturbed[p] # None
  BY NoneAssumption DEF At, Disturbed, RecordsOK, Request
<1>3. ASSUME NEW q \in Call,
             \/ AutoStart(q)
             \/ \E kind \in Kind, t \in Tunnel \cup {None}, h \in Host \cup {None} : Begin(q, kind, t, h)
      PROVE  FALSE
  BY <1>2, <1>3 DEF AutoStart, Begin, NextCall, Disturbed
<1>4. CASE SaveSettings \/ Render \/ Stop \/ Lose
  BY <1>2, <1>4 DEF SaveSettings, Render, Stop, Lose
<1>5. ASSUME NEW w \in Watcher, Watch(w) \/ Exit(w) PROVE FALSE
  BY <1>2, <1>5 DEF Watch, Notice, Wake, Exit
<1>6. CASE UNCHANGED vars
  BY <1>2, <1>6 DEF vars
<1> QED BY <1>1, <1>3, <1>4, <1>5, <1>6 DEF Next, Handle, Acts

(* A deletion that nobody disturbs leaves nothing behind.                   *)
THEOREM AlwaysLeavesNothing == Spec => DeleteLeavesNothing
<1> DEFINE Inv == RecordsOK /\ ProcInv /\ DeleteInv
           Leaves ==
             \A p \in Call :
               (At(p, "eraseon") /\ call[p].smooth /\ call'[p] = None /\ ~cfg'.on)
                 => /\ call[p].tunnel \notin remote' /\ yml' = None /\ cfg' = Cleared
                    /\ Is(p, "delete") /\ call[p].host # None => dns'[call[p].host] = None
                    /\ tracked' = None /\ (raced \/ Alive' = {})
<1>1. Init => Inv
  BY RecordsInit, ProcInit, DeleteInit
<1>2. Inv /\ [Next]_vars => Inv'
  BY RecordsStep, ProcStep, DeleteStep
<1>3. Inv /\ [Next]_vars => Leaves
  <2> SUFFICES ASSUME Inv, [Next]_vars, NEW p \in Call, At(p, "eraseon"), call[p].smooth,
                      call'[p] = None, ~cfg'.on
               PROVE  /\ call[p].tunnel \notin remote' /\ yml' = None /\ cfg' = Cleared
                      /\ Is(p, "delete") /\ call[p].host # None => dns'[call[p].host] = None
                      /\ tracked' = None /\ (raced \/ Alive' = {})
    OBVIOUS
  <2>1. /\ call[p].tunnel \notin remote /\ yml = None /\ stopRequest
        /\ cfg.id = None /\ cfg.token = None /\ cfg.sub = None
        /\ Is(p, "delete") /\ call[p].host # None => dns[call[p].host] = None
    BY DEF At, Is, DeleteInv, Undone, Erasing
  <2>2. Erases(p) \/ Restart
    BY OnlyErasesEnds
  <2>3. UNCHANGED <<yml, remote, dns>> /\ (cfg' = cfg \/ cfg' = [cfg EXCEPT !.on = FALSE])
    BY <2>2 DEF Erases, EraseLast, At, Restart, fileVars, cloudVars
  <2>4. cfg' = Cleared
    BY <2>1, <2>3 DEF Cleared, RecordsOK, Setting
  <2>5. tracked' = None
    BY <2>1, <2>2 DEF Erases, Restart, procVars, ProcInv, Supervised
  <2>6. ProcInv' /\ (raced' => raced)
    BY <1>2, <2>2 DEF Erases, Restart, procVars
  <2>7. raced \/ Alive' = {}
    BY <2>5, <2>6, NoneAssumption DEF ProcInv, Supervised, Alive
  <2> QED BY <2>1, <2>3, <2>4, <2>5, <2>7
<1>4. Inv /\ [Next]_vars => [Leaves]_vars
  BY <1>3
<1> HIDE DEF Inv, Leaves
<1>5. Spec => [][Leaves]_vars
  BY <1>1, <1>2, <1>4, PTL DEF Spec
<1> QED BY <1>5 DEF DeleteLeavesNothing, Leaves
-----------------------------------------------------------------------------
(* A handler holds the lock between the two halves of StartCFTunnel, and     *)
(* nobody puts a process on the books meanwhile.                             *)
LockInv ==
  \A p \in Call : call[p] # None /\ call[p].step = "spawn" => lock = p /\ tracked = None

LEMMA LockStep == RecordsOK /\ LockInv /\ [Next]_vars => LockInv'
<1> SUFFICES ASSUME RecordsOK, LockInv, [Next]_vars PROVE LockInv'
  OBVIOUS
<1>1. ASSUME UNCHANGED <<lock, tracked>>,
             \A p \in Call : call'[p] # None /\ call'[p].step = "spawn" =>
                               call[p] # None /\ call[p].step = "spawn"
      PROVE  LockInv'
  BY <1>1 DEF LockInv
<1>2. \A p \in Call : Disturbed[p] # None /\ Disturbed[p].step = "spawn" =>
                        call[p] # None /\ call[p].step = "spawn"
  BY DEF Disturbed, RecordsOK, Request
<1>3. lock = None => \A p \in Call : ~(call[p] # None /\ call[p].step = "spawn")
  BY NoneAssumption DEF LockInv
<1>4. ASSUME NEW p \in Call, Acts(p) PROVE LockInv'
  <2>1. call[p] # None /\ call[p] \in Request /\ Moves(p)
    BY <1>4, ActsMove DEF RecordsOK
  <2>2. \A q \in Call : q # p => call'[q] = call[q]
    BY <2>1, MoveKeeps
  <2>3. CASE StartReads(p)
    <3>1. lock = None /\ lock' = p /\ UNCHANGED tracked /\ tracked = None
      BY <2>3 DEF StartReads
    <3> QED BY <1>3, <2>2, <3>1 DEF LockInv
  <2>4. CASE ~StartReads(p)
    <3>1. ~(call'[p] # None /\ call'[p].step = "spawn")
      BY <1>4, <2>4, ActsReach DEF Erasing
    <3>2. CASE StartSpawns(p) \/ StartFails(p)
      <4>1. \A q \in Call : call[q] # None /\ call[q].step = "spawn" => q = p
        BY <3>2 DEF LockInv, StartSpawns, StartFails, At
      <4> QED BY <2>2, <3>1, <4>1 DEF LockInv
    <3>3. CASE Halt(p) \/ Forget(p)
      <4>1. (lock = None /\ Stops) \/ UNCHANGED procVars
        BY <3>3 DEF Halt, Forget, Stops
      <4> QED BY <1>1, <1>3, <2>2, <3>1, <4>1 DEF LockInv, procVars
    <3>4. CASE ~StartSpawns(p) /\ ~StartFails(p) /\ ~Halt(p) /\ ~Forget(p)
      <4>1. UNCHANGED procVars
        BY <1>4, <2>4, <3>4 DEF Acts, StartRefused, List, Token, Drop, Post, PostFails, NewToken, Discover,
           Save, Bind, BindRoutes, Undns, Destroy, ForgetNothing, Erases, procVars
      <4> QED BY <1>1, <2>2, <3>1, <4>1 DEF procVars
    <3> QED BY <3>2, <3>3, <3>4
  <2> QED BY <2>3, <2>4
<1>5. ASSUME NEW p \in Call, NEW r \in Request, call' = [Disturbed EXCEPT ![p] = r],
             r.step # "spawn", UNCHANGED procVars
      PROVE  LockInv'
  <2>1. call'[p] = r /\ \A q \in Call : q # p => call'[q] = Disturbed[q]
    BY <1>5 DEF Disturbed
  <2> QED BY <1>1, <1>2, <1>5, <2>1 DEF procVars
<1>6. ASSUME NEW p \in Call, NEW kind \in Kind, NEW t \in Tunnel \cup {None}, NEW h \in Host \cup {None},
             Begin(p, kind, t, h)
      PROVE  LockInv'
  <2> DEFINE r == [kind |-> kind, step |-> FirstStep(kind), tunnel |-> t, host |-> h, smooth |-> Running = {}]
  <2>1. FirstStep(kind) \in Step \ {"spawn"}
    BY DEF FirstStep, Kind, Step
  <2>2. r \in Request /\ r.step # "spawn"
    BY <2>1 DEF Request
  <2>3. call' = [Disturbed EXCEPT ![p] = r] /\ UNCHANGED procVars
    BY <1>6 DEF Begin
  <2> QED BY <1>5, <2>2, <2>3
<1>7. ASSUME NEW p \in Call, AutoStart(p) PROVE LockInv'
  <2> DEFINE r == [kind |-> "run", step |-> "start", tunnel |-> None, host |-> None, smooth |-> Running = {}]
  <2>1. r \in Request
    BY DEF Request, Kind, Step
  <2>2. (call' = [Disturbed EXCEPT ![p] = r] \/ UNCHANGED call) /\ UNCHANGED procVars
    BY <1>7 DEF AutoStart
  <2> QED BY <1>1, <1>5, <2>1, <2>2 DEF procVars
<1>8. ASSUME NEW w \in Watcher, Watch(w) \/ Exit(w) PROVE LockInv'
  <2>1. CASE Watch(w)
    BY <1>3, <2>1 DEF Watch, Notice, Wake, LockInv
  <2>2. CASE Exit(w)
    BY <1>1, <2>2 DEF Exit
  <2> QED BY <1>8, <2>1, <2>2
<1>9. CASE SaveSettings \/ Render \/ Lose
  BY <1>1, <1>2, <1>9 DEF SaveSettings, Render, Lose, procVars
<1>10. CASE Stop
  BY <1>2, <1>3, <1>10 DEF Stop, Stops, LockInv
<1>11. CASE UNCHANGED vars
  BY <1>1, <1>11 DEF vars, procVars
<1>12. CASE Restart
  BY <1>12 DEF Restart, LockInv
<1> QED
  BY <1>4, <1>6, <1>7, <1>8, <1>9, <1>10, <1>11, <1>12 DEF Next, Handle, Acts

(* What an undisturbed one-click setup has put together by each of its steps. *)
Served(r) ==
  /\ r.step \in {"list", "token", "post", "drop", "newtoken", "bind", "route", "start", "spawn"} =>
       cfg.sub = r.host
  /\ r.step \in {"token", "newtoken"} => cfg.id = r.tunnel /\ r.tunnel \in remote
  /\ r.step \in {"bind", "route", "start", "spawn"} =>
       cfg.id = r.tunnel /\ cfg.token = cfg.id /\ cfg.id \in remote
  /\ r.step \in {"route", "start", "spawn"} => dns[cfg.sub] = cfg.id
  /\ r.step \in {"start", "spawn"} => ingress[cfg.id] = cfg.sub

ServeInv ==
  /\ DOMAIN dns = Host /\ DOMAIN ingress = Tunnel
  /\ \A p \in Call : call[p] # None /\ call[p].smooth /\ call[p].kind = "oneclick" => Served(call[p])

(* A step of the setup itself.                                               *)
LEMMA ServeActs ==
  ASSUME RecordsOK, ServeInv, DeleteInv, NEW p \in Call, Acts(p) PROVE ServeInv'
<1>1. call[p] # None /\ call[p] \in Request /\ Moves(p)
  BY ActsMove DEF RecordsOK
<1>2. /\ \A q \in Call : q # p => call'[q] = call[q]
      /\ call'[p] # None => call'[p].kind = call[p].kind /\ (call'[p].smooth => call[p].smooth)
  BY <1>1, MoveKeeps
<1>3. ASSUME NEW q \in Call, call'[q] # None, call'[q].smooth PROVE q = p /\ call[p].smooth
  BY <1>1, <1>2, <1>3 DEF DeleteInv
<1>4. DOMAIN dns' = Host /\ DOMAIN ingress' = Tunnel
  BY DEF ServeInv, Acts, StartRefused, StartReads, StartSpawns, StartFails, List, Token, Drop, Post, PostFails,
     NewToken, Discover, Save, Bind, BindRoutes, Halt, Undns, Destroy, Forget, ForgetNothing, Erases, cloudVars, Route
<1>5. ASSUME call'[p] # None, call'[p].smooth, call'[p].kind = "oneclick" PROVE Served(call[p])'
  <2>0. Served(call[p]) /\ cfg \in Setting /\ remote \subseteq Tunnel
    BY <1>1, <1>2, <1>5 DEF ServeInv, RecordsOK
  <2>1. CASE call'[p].step \in {"save", "undns", "destroy", "forget"} \cup Erasing
    BY <2>1 DEF Served, Erasing
  <2>2. CASE call'[p].step = "list" /\ Save(p) /\ call'[p].host = call[p].host
    BY <2>0, <2>2 DEF Save, Served, Setting
  <2>3. CASE call'[p].step = "token" /\ List(p) /\ call'[p].host = call[p].host
             /\ call'[p].tunnel \in remote /\ cfg' = [cfg EXCEPT !.id = call'[p].tunnel]
    BY <2>0, <2>3 DEF List, At, Served, Setting, cloudVars
  <2>4. CASE call'[p].step \in {"post", "drop"} /\ (List(p) \/ Token(p) \/ Drop(p))
             /\ call'[p].host = call[p].host /\ cfg' = cfg
    BY <2>0, <2>4 DEF List, Token, Drop, At, Served
  <2>5. CASE call'[p].step = "newtoken" /\ Post(p) /\ call'[p].tunnel = created'
             /\ call'[p].host = call[p].host
    BY <2>0, <2>5 DEF Post, At, Served, Setting
  <2>6. CASE call'[p].step = "bind" /\ (Token(p) \/ NewToken(p)) /\ call'[p].tunnel = cfg.id
             /\ call'[p].host = cfg.sub /\ cfg' = [cfg EXCEPT !.token = call[p].tunnel]
    <3>1. cfg.id = call[p].tunnel /\ cfg.id \in remote /\ UNCHANGED remote
      BY <2>0, <2>6 DEF Token, NewToken, At, Served, cloudVars
    <3>2. cfg'.id = cfg.id /\ cfg'.token = cfg.id /\ cfg'.sub = cfg.sub
      BY <2>0, <2>6, <3>1 DEF Setting
    <3> QED BY <2>6, <3>1, <3>2 DEF Served
  <2>7. CASE call'[p].step = "route" /\ Bind(p) /\ call'[p].tunnel = call[p].tunnel
             /\ call'[p].host = call[p].host /\ call[p].host # None
             /\ dns' = [dns EXCEPT ![call[p].host] = call[p].tunnel]
    <3>1. call[p].host \in Host
      BY <1>1, <2>7 DEF Request
    <3> QED BY <2>0, <2>7, <3>1 DEF Bind, At, Served, ServeInv, fileVars
  <2>8. CASE call'[p].step = "start" /\ BindRoutes(p) /\ call'[p].tunnel = call[p].tunnel
             /\ call'[p].host = call[p].host /\ Route
    BY <2>0, <2>8 DEF BindRoutes, At, Served, ServeInv, Route
  <2>9. CASE call'[p].step = "spawn" /\ StartReads(p) /\ call'[p].tunnel = cfg.token
             /\ call'[p].host = call[p].host
    BY <2>0, <2>9 DEF StartReads, At, Served, fileVars, cloudVars
  <2> QED BY <1>5, <2>1, <2>2, <2>3, <2>4, <2>5, <2>6, <2>7, <2>8, <2>9, ActsReach
<1> QED BY <1>2, <1>3, <1>4, <1>5 DEF ServeInv

LEMMA ServeStep == RecordsOK /\ ServeInv /\ DeleteInv /\ [Next]_vars => ServeInv'
<1> SUFFICES ASSUME RecordsOK, ServeInv, DeleteInv, [Next]_vars PROVE ServeInv'
  OBVIOUS
<1>1. ASSUME UNCHANGED <<call, cfg, remote, dns, ingress>> PROVE ServeInv'
  BY <1>1 DEF ServeInv, Served
<1>2. \A q \in Call : Disturbed[q] = None \/ ~Disturbed[q].smooth
  BY DEF Disturbed, RecordsOK, Request
<1>3. CASE call' = Disturbed /\ UNCHANGED <<dns, ingress>>
  BY <1>2, <1>3 DEF ServeInv
<1>4. ASSUME NEW p \in Call, NEW r \in Request, call' = [Disturbed EXCEPT ![p] = r],
             r.kind = "oneclick" => r.step = "discover", UNCHANGED <<dns, ingress>>
      PROVE  ServeInv'
  <2>1. call'[p] = r /\ \A q \in Call : q # p => call'[q] = Disturbed[q]
    BY <1>4 DEF Disturbed
  <2> QED BY <1>2, <1>4, <2>1 DEF ServeInv, Served
<1>5. ASSUME NEW p \in Call, NEW kind \in Kind, NEW t \in Tunnel \cup {None}, NEW h \in Host \cup {None},
             Begin(p, kind, t, h)
      PROVE  ServeInv'
  <2> DEFINE r == [kind |-> kind, step |-> FirstStep(kind), tunnel |-> t, host |-> h, smooth |-> Running = {}]
  <2>1. FirstStep(kind) \in Step /\ (kind = "oneclick" => FirstStep(kind) = "discover")
    BY DEF FirstStep, Kind, Step
  <2>2. r \in Request
    BY <2>1 DEF Request
  <2>3. call' = [Disturbed EXCEPT ![p] = r] /\ UNCHANGED <<dns, ingress>>
    BY <1>5 DEF Begin, cloudVars
  <2> QED BY <1>4, <2>1, <2>2, <2>3
<1>6. ASSUME NEW p \in Call, AutoStart(p) PROVE ServeInv'
  <2> DEFINE r == [kind |-> "run", step |-> "start", tunnel |-> None, host |-> None, smooth |-> Running = {}]
  <2>1. r \in Request
    BY DEF Request, Kind, Step
  <2>2. \/ call' = [Disturbed EXCEPT ![p] = r] /\ UNCHANGED <<dns, ingress>>
        \/ UNCHANGED <<call, cfg, remote, dns, ingress>>
    BY <1>6 DEF AutoStart, fileVars, cloudVars
  <2> QED BY <1>1, <1>4, <2>1, <2>2
<1>7. ASSUME NEW w \in Watcher, Watch(w) \/ Exit(w) PROVE ServeInv'
  BY <1>1, <1>7 DEF Watch, Notice, Wake, Exit, fileVars, cloudVars
<1>8. CASE SaveSettings \/ Render \/ Stop \/ Lose
  BY <1>3, <1>8 DEF SaveSettings, Render, Stop, Lose, cloudVars
<1>9. CASE UNCHANGED vars
  BY <1>1, <1>9 DEF vars, fileVars, cloudVars
<1>10. CASE Restart
  BY <1>10 DEF Restart, ServeInv, cloudVars
<1> QED
  BY <1>5, <1>6, <1>7, <1>8, <1>9, <1>10, ServeActs DEF Next, Handle, Acts

(* Who ends an undisturbed setup with a process on the books has started it. *)
LEMMA OnlySpawnServes ==
  ASSUME RecordsOK, DeleteInv, LockInv, [Next]_vars,
         NEW p \in Call, At(p, "spawn"), call[p].smooth, call'[p] = None, tracked' # None
  PROVE  StartSpawns(p)
<1>1. ASSUME NEW q \in Call, Acts(q) PROVE StartSpawns(p)
  <2>1. q = p
    BY <1>1, ActsMove DEF DeleteInv, At
  <2>2. StartSpawns(p) \/ StartFails(p)
    BY <1>1, <2>1 DEF Acts, At, StartRefused, StartReads, List, Token, Drop, Post, PostFails, NewToken, Discover,
       Save, Bind, BindRoutes, Halt, Undns, Destroy, Forget, ForgetNothing, Erases
  <2> QED BY <2>2 DEF StartFails, LockInv, At
<1>2. call[p] # None /\ Disturbed[p] # None
  BY NoneAssumption DEF At, Disturbed, RecordsOK, Request
<1>3. ASSUME NEW q \in Call,
             \/ AutoStart(q)
             \/ \E kind \in Kind, t \in Tunnel \cup {None}, h \in Host \cup {None} : Begin(q, kind, t, h)
      PROVE  FALSE
  BY <1>2, <1>3 DEF AutoStart, Begin, NextCall, Disturbed
<1>4. CASE SaveSettings \/ Render \/ Stop \/ Lose
  BY <1>2, <1>4 DEF SaveSettings, Render, Stop, Lose
<1>5. ASSUME NEW w \in Watcher, Watch(w) \/ Exit(w) PROVE FALSE
  BY <1>2, <1>5 DEF Watch, Notice, Wake, Exit
<1>6. CASE UNCHANGED vars \/ Restart
  BY <1>2, <1>6 DEF vars, Restart
<1> QED BY <1>1, <1>3, <1>4, <1>5, <1>6 DEF Next, Handle, Acts

(* A one-click setup that nobody disturbs has the panel served: process,     *)
(* routing rule and record belong to one tunnel, which exists.               *)
THEOREM OneClickAlwaysServes == Spec => OneClickServes
<1> DEFINE Inv == RecordsOK /\ ProcInv /\ DeleteInv /\ LockInv /\ ServeInv
           Serves ==
             \A p \in Call :
               (Is(p, "oneclick") /\ At(p, "spawn") /\ call'[p] = None /\ tracked' # None
                  /\ call[p].smooth)
                 => /\ watcher'[tracked'].tunnel = cfg.id /\ cfg.id \in remote
                    /\ ingress'[cfg.id] = cfg.sub /\ dns[cfg.sub] = cfg.id
<1>1. Init => Inv
  BY RecordsInit, ProcInit, DeleteInit DEF Init, LockInv, ServeInv
<1>2. Inv /\ [Next]_vars => Inv'
  BY RecordsStep, ProcStep, DeleteStep, LockStep, ServeStep
<1>3. Inv /\ [Next]_vars => Serves
  <2> SUFFICES ASSUME Inv, [Next]_vars, NEW p \in Call, Is(p, "oneclick"), At(p, "spawn"),
                      call'[p] = None, tracked' # None, call[p].smooth
               PROVE  /\ watcher'[tracked'].tunnel = cfg.id /\ cfg.id \in remote
                      /\ ingress'[cfg.id] = cfg.sub /\ dns[cfg.sub] = cfg.id
    OBVIOUS
  <2>1. StartSpawns(p)
    BY OnlySpawnServes
  <2>2. /\ cfg.id = call[p].tunnel /\ cfg.id \in remote /\ cfg.id # None
        /\ ingress[cfg.id] = cfg.sub /\ dns[cfg.sub] = cfg.id
    BY NoneAssumption DEF Is, At, ServeInv, Served, RecordsOK
  <2>3. PICK w \in Watcher : Spawn(w, cfg.id, TRUE)
    BY <2>1, <2>2 DEF StartSpawns
  <2>4. watcher'[tracked'].tunnel = cfg.id
    BY <2>3 DEF Spawn, ProcInv
  <2>5. ingress'[cfg.id] = cfg.sub
    BY <2>1, <2>2 DEF StartSpawns, Route, ServeInv, RecordsOK
  <2> QED BY <2>2, <2>4, <2>5
<1>4. Inv /\ [Next]_vars => [Serves]_vars
  BY <1>3
<1> HIDE DEF Inv, Serves
<1>5. Spec => [][Serves]_vars
  BY <1>1, <1>2, <1>4, PTL DEF Spec
<1> QED BY <1>5 DEF OneClickServes, Serves
-----------------------------------------------------------------------------
(* The rest of the types.  The lock is held across a call only by a handler *)
(* between the two halves of StartCFTunnel.                                  *)
HeldInv ==
  lock \in Call \cup {None} /\ \A p \in Call : lock = p => call[p] # None /\ call[p].step = "spawn"

CloudOK ==
  /\ created \in 0 .. MaxTunnel
  /\ ingress \in [Tunnel -> Host \cup {None}] /\ dns \in [Host -> Tunnel \cup {None}]

BooksOK ==
  /\ calls \in 0 .. MaxCall
  /\ due \in BOOLEAN /\ stopRequest \in BOOLEAN /\ raced \in BOOLEAN
  /\ mishaps \subseteq {"met", "cut", "api", "lost"} /\ faults \in Nat

LEMMA HeldStep == RecordsOK /\ HeldInv /\ [Next]_vars => HeldInv'
<1> SUFFICES ASSUME RecordsOK, HeldInv, [Next]_vars PROVE HeldInv'
  OBVIOUS
<1>1. ASSUME UNCHANGED lock,
             \A p \in Call : call[p] # None /\ call[p].step = "spawn" =>
                               call'[p] # None /\ call'[p].step = "spawn"
      PROVE  HeldInv'
  BY <1>1 DEF HeldInv
<1>2. \A p \in Call : call[p] # None /\ call[p].step = "spawn" =>
                        Disturbed[p] # None /\ Disturbed[p].step = "spawn"
  <2> SUFFICES ASSUME NEW p \in Call, call[p] # None, call[p].step = "spawn"
               PROVE  Disturbed[p] # None /\ Disturbed[p].step = "spawn"
    OBVIOUS
  <2>1. call[p] \in Request
    BY DEF RecordsOK
  <2>2. Disturbed[p] = [call[p] EXCEPT !.smooth = FALSE]
    BY DEF Disturbed
  <2>3. Disturbed[p] \in Request /\ Disturbed[p].step = "spawn"
    BY <2>1, <2>2 DEF Request
  <2> QED BY <2>3, NoneAssumption
<1>3. ASSUME lock' = None PROVE HeldInv'
  BY <1>3, NoneAssumption DEF HeldInv
<1>4. ASSUME NEW p \in Call, Acts(p) PROVE HeldInv'
  <2>1. call[p] # None /\ call[p] \in Request /\ Moves(p)
    BY <1>4, ActsMove DEF RecordsOK
  <2>2. \A q \in Call : q # p => call'[q] = call[q]
    BY <2>1, MoveKeeps
  <2>3. CASE StartReads(p)
    <3>1. lock' = p /\ call' = [call EXCEPT ![p] = [call[p] EXCEPT !.step = "spawn", !.tunnel = cfg.token]]
      BY <2>3 DEF StartReads
    <3>2. call'[p] = [call[p] EXCEPT !.step = "spawn", !.tunnel = cfg.token]
      BY <3>1 DEF RecordsOK
    <3>3. cfg.token \in Tunnel \cup {None}
      BY DEF RecordsOK, Setting
    <3>4. call'[p] \in Request /\ call'[p].step = "spawn"
      BY <2>1, <3>2, <3>3 DEF Request, Step
    <3> QED BY <3>1, <3>4, NoneAssumption DEF HeldInv
  <2>4. CASE StartSpawns(p) \/ StartFails(p)
    BY <1>3, <2>4 DEF StartSpawns, StartFails
  <2>5. CASE ~StartReads(p) /\ ~StartSpawns(p) /\ ~StartFails(p)
    <3>1. call[p].step # "spawn" /\ lock' = lock
      BY <1>4, <2>5 DEF Acts, At, StartRefused, List, Token, Drop, Post, PostFails, NewToken, Discover,
         Save, Bind, BindRoutes, Halt, Undns, Destroy, Forget, ForgetNothing, Erases, Stops, procVars
    <3> QED BY <1>1, <2>2, <3>1
  <2> QED BY <2>3, <2>4, <2>5
<1>5. ASSUME NEW p \in Call, NEW r, call' = [Disturbed EXCEPT ![p] = r], call[p] = None, UNCHANGED procVars
      PROVE  HeldInv'
  <2>1. \A q \in Call : q # p => call'[q] = Disturbed[q]
    BY <1>5 DEF Disturbed
  <2> QED BY <1>1, <1>2, <1>5, <2>1 DEF procVars
<1>6. ASSUME NEW p \in Call, NEW kind \in Kind, NEW t \in Tunnel \cup {None}, NEW h \in Host \cup {None},
             Begin(p, kind, t, h)
      PROVE  HeldInv'
  BY <1>5, <1>6 DEF Begin, NextCall
<1>7. ASSUME NEW p \in Call, AutoStart(p) PROVE HeldInv'
  <2>1. CASE UNCHANGED call
    BY <1>1, <1>7, <2>1 DEF AutoStart, procVars
  <2>2. CASE ~UNCHANGED call
    BY <1>5, <1>7, <2>2 DEF AutoStart, NextCall
  <2> QED BY <2>1, <2>2
<1>8. ASSUME NEW w \in Watcher, Watch(w) \/ Exit(w) PROVE HeldInv'
  BY <1>1, <1>8 DEF Watch, Notice, Wake, Exit
<1>9. CASE SaveSettings \/ Render \/ Lose \/ Stop
  BY <1>1, <1>2, <1>9 DEF SaveSettings, Render, Lose, Stop, Stops, procVars
<1>10. CASE UNCHANGED vars
  BY <1>1, <1>10 DEF vars, procVars
<1>11. CASE Restart
  BY <1>3, <1>11 DEF Restart
<1> QED
  BY <1>4, <1>6, <1>7, <1>8, <1>9, <1>10, <1>11 DEF Next, Handle, Acts

LEMMA CloudStep == RecordsOK /\ CloudOK /\ [Next]_vars => CloudOK'
<1> SUFFICES ASSUME RecordsOK, CloudOK, [Next]_vars PROVE CloudOK'
  OBVIOUS
<1> USE DEF cloudVars
<1>1. ASSUME NEW p \in Call, Acts(p) PROVE CloudOK'
  <2>1. call[p].tunnel \in Tunnel \cup {None} /\ call[p].host \in Host \cup {None}
    BY <1>1, ActsMove DEF RecordsOK, Request
  <2>2. created' \in 0 .. MaxTunnel
    <3>1. CASE Post(p)
      BY <3>1, BoundAssumption DEF Post, CloudOK
    <3> QED
      BY <1>1, <3>1 DEF CloudOK, Acts, StartRefused, StartReads, StartSpawns, StartFails, List, Token, Drop,
         PostFails, NewToken, Discover, Save, Bind, BindRoutes, Halt, Undns, Destroy, Forget, ForgetNothing, Erases
  <2>3. ingress' \in [Tunnel -> Host \cup {None}]
    <3>1. CASE Route
      BY <3>1 DEF Route, CloudOK, RecordsOK, Setting
    <3> QED
      BY <1>1, <3>1 DEF CloudOK, Acts, StartRefused, StartReads, StartSpawns, StartFails, List,
         Token, Drop, Post, PostFails, NewToken, Discover, Save, Bind, BindRoutes, Halt, Undns, Destroy,
         Forget, ForgetNothing, Erases
  <2>4. dns' \in [Host -> Tunnel \cup {None}]
    <3>1. CASE Bind(p)
      BY <2>1, <3>1 DEF Bind, CloudOK
    <3>2. CASE Undns(p)
      BY <3>2 DEF Undns, CloudOK
    <3> QED
      BY <1>1, <3>1, <3>2 DEF CloudOK, Acts, StartRefused, StartReads, StartSpawns, StartFails, List,
         Token, Drop, Post, PostFails, NewToken, Discover, Save, BindRoutes, Halt, Destroy, Forget,
         ForgetNothing, Erases
  <2> QED BY <2>2, <2>3, <2>4 DEF CloudOK
<1>2. CASE UNCHANGED <<created, ingress, dns>>
  BY <1>2 DEF CloudOK
<1>3. ASSUME NEW p \in Call, AutoStart(p) PROVE CloudOK'
  BY <1>2, <1>3 DEF AutoStart
<1>4. ASSUME NEW p \in Call, NEW kind \in Kind, NEW t \in Tunnel \cup {None}, NEW h \in Host \cup {None},
             Begin(p, kind, t, h)
      PROVE  CloudOK'
  BY <1>2, <1>4 DEF Begin
<1>5. ASSUME NEW w \in Watcher, Watch(w) \/ Exit(w) PROVE CloudOK'
  BY <1>2, <1>5 DEF Watch, Notice, Wake, Exit
<1>6. CASE SaveSettings \/ Render \/ Stop \/ Lose \/ Restart \/ UNCHANGED vars
  BY <1>2, <1>6 DEF SaveSettings, Render, Stop, Lose, Restart, vars
<1> QED BY <1>1, <1>3, <1>4, <1>5, <1>6 DEF Next, Handle, Acts

LEMMA BooksStep == BooksOK /\ [Next]_vars => BooksOK'
<1> SUFFICES ASSUME BooksOK, [Next]_vars PROVE BooksOK'
  OBVIOUS
<1> USE DEF procVars
<1>0. MaxCall \in Nat /\ calls \in 0 .. MaxCall /\ faults \in Nat /\ mishaps \subseteq {"met", "cut", "api", "lost"}
  BY BoundAssumption DEF BooksOK
<1>1. /\ Fault => faults' \in Nat
      /\ ApiFails => faults' \in Nat /\ mishaps' \subseteq {"met", "cut", "api", "lost"}
      /\ NoFault => faults' = faults /\ mishaps' = mishaps
  <2>1. Fault => faults' \in Nat
    BY <1>0 DEF Fault
  <2>2. ApiFails => mishaps' \subseteq {"met", "cut", "api", "lost"}
    BY <1>0 DEF ApiFails
  <2> QED BY <2>1, <2>2 DEF ApiFails, NoFault
<1>2. ASSUME calls' \in 0 .. MaxCall, UNCHANGED procVars, due' \in BOOLEAN, faults' \in Nat,
             mishaps' \subseteq {"met", "cut", "api", "lost"}
      PROVE  BooksOK'
  BY <1>2 DEF BooksOK
<1>3. ASSUME NEW p \in Call, Acts(p) PROVE BooksOK'
  <2>1. UNCHANGED <<calls, due>>
    BY <1>3 DEF Acts, StartRefused, StartReads, StartSpawns, StartFails, List, Token, Drop, Post,
       PostFails, NewToken, Discover, Save, Bind, BindRoutes, Halt, Undns, Destroy, Forget, ForgetNothing, Erases
  <2>2. (faults' = faults \/ Fault \/ ApiFails) /\ (mishaps' = mishaps \/ ApiFails)
    BY <1>3 DEF Erase, EraseLast, Acts, StartRefused, StartReads, StartSpawns, StartFails, List, Token, Drop, Post,
       PostFails, NewToken, Discover, Save, Bind, BindRoutes, Halt, Undns, Destroy, Forget, ForgetNothing, Erases,
       ApiFailsOr, FaultOr, NoFault
  <2>3. faults' \in Nat /\ mishaps' \subseteq {"met", "cut", "api", "lost"}
    BY <1>0, <1>1, <2>2
  <2>4. stopRequest' \in BOOLEAN
    BY <1>3 DEF BooksOK, Acts, StartRefused, StartReads, StartSpawns, StartFails, List, Token, Drop, Post,
       PostFails, NewToken, Discover, Save, Bind, BindRoutes, Halt, Undns, Destroy, Forget, ForgetNothing, Erases,
       Spawn, Stops
  <2>5. raced' \in BOOLEAN
    <3>1. UNCHANGED raced \/ \E w \in Watcher : \E t, b : Spawn(w, t, b)
      BY <1>3 DEF Acts, StartRefused, StartReads, StartSpawns, StartFails, List, Token, Drop, Post,
         PostFails, NewToken, Discover, Save, Bind, BindRoutes, Halt, Undns, Destroy, Forget, ForgetNothing, Erases,
         Stops
    <3>2. UNCHANGED raced \/ raced' = (raced \/ \E v \in Watcher : watcher[v] # None)
      BY <3>1 DEF Spawn
    <3> QED BY <3>2 DEF BooksOK
  <2> QED BY <2>1, <2>3, <2>4, <2>5 DEF BooksOK
<1>4. ASSUME NEW p \in Call, AutoStart(p) PROVE BooksOK'
  BY <1>0, <1>2, <1>4 DEF AutoStart
<1>5. ASSUME NEW p \in Call, NEW kind \in Kind, NEW t \in Tunnel \cup {None}, NEW h \in Host \cup {None},
             Begin(p, kind, t, h)
      PROVE  BooksOK'
  <2>1. calls' \in 0 .. MaxCall /\ mishaps' \subseteq {"met", "cut", "api", "lost"}
    BY <1>0, <1>5 DEF Begin
  <2> QED BY <1>2, <1>5, <2>1 DEF Begin, BooksOK
<1>6. ASSUME NEW w \in Watcher, Watch(w) \/ Exit(w) PROVE BooksOK'
  <2>1. UNCHANGED <<calls, stopRequest, raced, due, mishaps>> /\ (faults' = faults \/ Fault)
    BY <1>6 DEF Watch, Notice, Wake, Exit, FaultOr
  <2> QED BY <1>0, <1>1, <2>1 DEF BooksOK
<1>7. CASE SaveSettings
  <2>1. calls' \in 0 .. MaxCall /\ mishaps' \subseteq {"met", "cut", "api", "lost"}
    BY <1>0, <1>7 DEF SaveSettings
  <2> QED BY <1>2, <1>7, <2>1 DEF SaveSettings, BooksOK
<1>8. CASE Render \/ Stop
  <2>1. calls' \in 0 .. MaxCall
    BY <1>0, <1>8 DEF Render, Stop
  <2> QED BY <1>8, <2>1 DEF Render, Stop, Stops, BooksOK
<1>9. CASE Lose
  <2>1. faults' \in Nat /\ mishaps' \subseteq {"met", "cut", "api", "lost"}
    BY <1>0, <1>1, <1>9 DEF Lose
  <2> QED BY <1>9, <2>1 DEF Lose, BooksOK
<1>10. CASE Restart
  <2>1. faults' \in Nat /\ mishaps' \subseteq {"met", "cut", "api", "lost"}
    BY <1>0, <1>1, <1>10 DEF Restart
  <2> QED BY <1>10, <2>1 DEF Restart, BooksOK
<1>11. CASE UNCHANGED vars
  BY <1>11 DEF vars, BooksOK
<1> QED
  BY <1>3, <1>4, <1>5, <1>6, <1>7, <1>8, <1>9, <1>10, <1>11 DEF Next, Handle, Acts

(* Every variable keeps its type, and cfProcessMu is held across a call only *)
(* by a handler between the two halves of StartCFTunnel, by that one.        *)
THEOREM TypeCorrect == Spec => []TypeOK
<1> DEFINE Inv == RecordsOK /\ ProcInv /\ LockInv /\ HeldInv /\ CloudOK /\ BooksOK
<1>1. Init => Inv
  <2> SUFFICES ASSUME Init PROVE LockInv /\ HeldInv /\ CloudOK /\ BooksOK
    BY RecordsInit, ProcInit
  <2>1. LockInv
    BY DEF Init, LockInv
  <2>2. HeldInv
    BY NoneAssumption DEF Init, HeldInv
  <2>3. CloudOK
    <3>1. 0 \in 0 .. MaxTunnel
      BY BoundAssumption
    <3> QED BY <3>1 DEF Init, CloudOK
  <2>4. BooksOK
    <3>1. calls = 0 /\ due = FALSE /\ stopRequest = FALSE /\ raced = FALSE /\ mishaps = {} /\ faults = 0
      BY DEF Init
    <3>2. 0 \in 0 .. MaxCall
      BY BoundAssumption
    <3> QED BY <3>1, <3>2 DEF BooksOK
  <2> QED BY <2>1, <2>2, <2>3, <2>4
<1>2. Inv /\ [Next]_vars => Inv'
  BY RecordsStep, ProcStep, LockStep, HeldStep, CloudStep, BooksStep
<1>3. Inv => TypeOK
  BY DEF RecordsOK, ProcInv, LockInv, HeldInv, CloudOK, BooksOK, TypeOK
<1> HIDE DEF Inv
<1> QED BY <1>1, <1>2, <1>3, PTL DEF Spec
=============================================================================
