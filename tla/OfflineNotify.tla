--------------------------- MODULE OfflineNotify ---------------------------
(***************************************************************************)
(* The messages "node offline" and "node online" to the administrator:     *)
(* internal/service/telegram_bot.go, with the registration of agents in    *)
(* traffic_live.go, and the setting and the edit of a node in              *)
(* internal/server/node_handler.go.                                        *)
(*                                                                         *)
(* One node.  A goroutine compares, every second, what it knows of the     *)
(* node with whether traffic was heard of lately; the handlers of agent    *)
(* connections and the administrator tell it at once.  After a grace       *)
(* period of silence it sends a message, and another when the node is      *)
(* back.  What was sent is kept in the row, for a restart of the panel, if *)
(* the row can be written; and an edit of the node, which writes its whole *)
(* row, may bring back what the row said before.                           *)
(*                                                                         *)
(* A step is what the code does between two calls that may block: to       *)
(* Telegram or to the database.  Names that TrafficReset has too begin     *)
(* with Notify, so that one module of proofs may extend both.              *)
(***************************************************************************)
EXTENDS Naturals

CONSTANTS
  Conn,          \* handlers of connections of the agent
  Ticker,        \* the goroutine of runOfflineNotifyLoop
  Admin,         \* the handler of apiUpdateOfflineNotifySetting
  Absent,        \* no connection, no entry, no edit
  MaxTrouble     \* bound: settings, update commands, edits, messages that cannot be
                 \* sent, and restarts of the panel, together

ASSUME ProcAssumption == Ticker # Admin /\ {Ticker, Admin} \cap Conn = {}
ASSUME BoundAssumption == MaxTrouble \in Nat

(* The goroutines that call OnNodeConnectionStatusChanged.                  *)
Proc == Conn \cup {Ticker, Admin}

VARIABLES
  signal,     \* a traffic message was heard within recentTrafficOnlineGrace
  handler,    \* of each connection: "none", "bind", "open", "unbind"
  registered, \* hub.agentConns of the node
  config,     \* grace period and switch: "default" (180 s, off), "off" (0), "on"
  marker,     \* OfflineLastNotifyAt is set, in the cache
  markerRow,  \* offline_last_notify_at is set, in the row
  draft,      \* what the edit that is under way read of it, or Absent
  preBoot,    \* PreBootOffline
  judged,     \* the minute after the start, at whose end PreBootOffline is set, is over
  muted,      \* nodeStatusNotifyMuteUntil lies ahead
  entry,      \* offlineNotifyState of the node, or Absent
  pc, online, \* where each goroutine is, and the argument of its call
  candidate,  \* the node is a candidate of the current tick
  told,       \* history: the last message the administrator got
  lapsed,     \* history: the entry was dropped since, although "offline" was told
  owed,       \* history: "offline" was told and recorded, "online" not yet
  late,       \* history: switched on from grace 0 after the silence was recorded
  torn,       \* history: a call met another one, or was cut short by a restart,
              \* or the node fell silent in the middle of a tick
  misled,     \* history: the panel started from a row that was not what it had last
              \* meant it to be, and has neither marked nor cleared the node since
  troubles    \* budget

connVars == <<signal, handler, registered>>
cacheVars == <<marker, markerRow, preBoot, judged, draft>>
callVars == <<pc, online, candidate>>
history == <<told, lapsed, owed, late, torn, misled>>
notifyVars == <<connVars, config, cacheVars, muted, entry, callVars, history, troubles>>

(* offlineNotifyRuntime.  Of a time only whether it lies ahead is kept.     *)
Entry == [initialized : BOOLEAN, online : BOOLEAN,
          pending : {"none", "ahead", "past"}, last : {"none", "offline"}]

ASSUME AbsentAssumption == Absent \notin Conn \cup Entry \cup BOOLEAN

NotifyTypeOK ==
  /\ signal \in BOOLEAN
  /\ handler \in [Conn -> {"none", "bind", "open", "unbind"}]
  /\ registered \in Conn \cup {Absent}
  /\ config \in {"default", "off", "on"}
  /\ {marker, markerRow, preBoot, judged, muted, candidate} \subseteq BOOLEAN
  /\ entry \in Entry \cup {Absent}
  /\ pc \in [Proc -> {"idle", "change", "send", "clear", "forget",
                      "due", "alarm", "mark", "sent", "failed"}]
  /\ online \in [Proc -> BOOLEAN]
  /\ told \in {"none", "offline", "online"}
  /\ {lapsed, owed, late, torn, misled} \subseteq BOOLEAN
  /\ draft \in BOOLEAN \cup {Absent}
  /\ troubles \in Nat
  \* only the goroutine of the ticks announces an outage
  /\ \A p \in Proc \ {Ticker} : pc[p] \in {"idle", "change", "send", "clear", "forget"}
  \* the registered connection is the open one
  /\ registered # Absent => handler[registered] \in {"bind", "open"}
  /\ \A c \in Conn : handler[c] = "open" => registered = c

Blank == [initialized |-> FALSE, online |-> FALSE, pending |-> "none", last |-> "none"]

(* The panel starts, with a node it has or has not sent a message about.    *)
NotifyInit ==
  /\ signal = FALSE
  /\ handler = [c \in Conn |-> "none"] /\ registered = Absent
  /\ config \in {"default", "off", "on"}
  /\ markerRow \in BOOLEAN /\ marker = markerRow /\ preBoot = FALSE /\ judged = FALSE
  /\ draft = Absent /\ misled = FALSE
  /\ muted = FALSE /\ entry = Absent
  /\ pc = [p \in Proc |-> "idle"] /\ online = [p \in Proc |-> FALSE] /\ candidate = FALSE
  /\ told = IF markerRow THEN "offline" ELSE "none"
  /\ lapsed = markerRow /\ owed = markerRow /\ late = FALSE /\ torn = FALSE
  /\ troubles = 0
-----------------------------------------------------------------------------
(* One more of the rare events.                                             *)
Trouble == troubles < MaxTrouble /\ troubles' = troubles + 1

(* The history a step adds: it drops the entry, or it meets another call.   *)
Dropped == lapsed' = (lapsed \/ told = "offline") /\ late' = FALSE
Meets(p) == torn' = (torn \/ \E q \in Proc \ {p} : pc[q] \notin {"idle", "change"})

(* A goroutine is about to call OnNodeConnectionStatusChanged.              *)
Call(p, up) ==
  /\ pc[p] = "idle"
  /\ pc' = [pc EXCEPT ![p] = "change"]
  /\ online' = [online EXCEPT ![p] = up]

(* The call returns: the tick goes on to its candidate, the handler of a    *)
(* connection reads messages, or ends.                                      *)
Return(p) ==
  /\ pc' = [pc EXCEPT ![p] = IF p = Ticker /\ candidate THEN "due" ELSE "idle"]
  /\ online' = [online EXCEPT ![p] = FALSE]
  /\ handler' = [c \in Conn |->
       IF c # p THEN handler[c]
       ELSE IF handler[c] = "bind" /\ registered = c THEN "open" ELSE "none"]

(* Mutant: only a node that was seen online can fall silent.                *)
IsNewDisconnect_SeenOnline == entry # Absent /\ entry.online

(* The silence is news.                                                     *)
IsNewDisconnect == entry = Absent \/ ~entry.initialized \/ entry.online

(* Mutant: what was sent before a restart is not looked at.                 *)
NeedOnlineNotify_ThisStartOnly ==
  /\ config = "on"
  /\ entry # Absent /\ entry.initialized /\ ~entry.online /\ entry.last = "offline"

NeedOnlineNotify ==
  /\ config = "on"
  /\ \/ entry # Absent /\ entry.initialized /\ ~entry.online /\ entry.last = "offline"
     \/ marker \/ preBoot

(* OnNodeConnectionStatusChanged up to its message.                         *)
Ignore(p) ==
  /\ pc[p] = "change" /\ ~online[p] /\ signal
  /\ Return(p)
  /\ UNCHANGED <<signal, registered, config, cacheVars, muted, entry, candidate,
                 history, troubles>>

GoesOffline(p) ==
  /\ pc[p] = "change" /\ ~online[p] /\ ~signal
  /\ LET st == IF entry = Absent THEN Blank ELSE entry IN
     entry' = [st EXCEPT !.initialized = TRUE, !.online = FALSE,
                 !.pending = IF ~IsNewDisconnect THEN @
                             ELSE IF config = "off" THEN "none" ELSE "ahead"]
  /\ Return(p) /\ Meets(p)
  /\ UNCHANGED <<signal, registered, config, cacheVars, muted, candidate,
                 told, lapsed, owed, late, misled, troubles>>

GoesOnline(p) ==
  /\ pc[p] = "change" /\ online[p]
  /\ LET st == IF entry = Absent THEN Blank ELSE entry IN
     entry' = [st EXCEPT !.initialized = TRUE, !.online = TRUE, !.pending = "none"]
  /\ pc' = [pc EXCEPT ![p] =
              IF ~NeedOnlineNotify THEN "forget" ELSE IF muted THEN "clear" ELSE "send"]
  /\ owed' = (owed /\ config = "on" /\ ~muted)
  /\ Meets(p)
  /\ UNCHANGED <<connVars, config, cacheVars, muted, online, candidate,
                 told, lapsed, late, misled, troubles>>

(* The message "online" is sent, or not.                                    *)
SendOnline(p) ==
  /\ pc[p] = "send"
  /\ \/ /\ told' = "online" /\ pc' = [pc EXCEPT ![p] = "clear"]
        /\ UNCHANGED troubles
     \/ /\ Trouble
        /\ pc' = [pc EXCEPT ![p] = "forget"]
        /\ UNCHANGED told
  /\ owed' = FALSE
  /\ UNCHANGED <<connVars, config, cacheVars, muted, entry, online, candidate,
                 lapsed, late, torn, misled>>

(* Mutant: the row forgets what was sent, and the cache does not.           *)
ClearMarkers_RowOnly(p) ==
  /\ pc[p] = "clear"
  /\ pc' = [pc EXCEPT ![p] = "forget"]
  /\ markerRow' \in {markerRow, FALSE} /\ preBoot' = FALSE
  /\ misled' = FALSE
  /\ UNCHANGED <<connVars, config, marker, judged, draft, muted, entry, online, candidate,
                 told, lapsed, owed, late, torn, troubles>>

(* clearNodeOfflineRecoveryMarkers.  That the row cannot be written is      *)
(* ignored, and the cache is cleared all the same.                          *)
ClearMarkers(p) ==
  /\ pc[p] = "clear"
  /\ pc' = [pc EXCEPT ![p] = "forget"]
  /\ markerRow' \in {markerRow, FALSE} /\ marker' = FALSE /\ preBoot' = FALSE
  /\ misled' = FALSE
  /\ UNCHANGED <<connVars, config, judged, draft, muted, entry, online, candidate,
                 told, lapsed, owed, late, torn, troubles>>

(* The entry of a node that is back is dropped.                             *)
Forget(p) ==
  /\ pc[p] = "forget"
  /\ entry' = Absent /\ Dropped
  /\ Return(p)
  /\ UNCHANGED <<signal, registered, config, cacheVars, muted, candidate,
                 told, owed, torn, misled, troubles>>
-----------------------------------------------------------------------------
(* The agent and its connections.                                           *)

(* bindAgentConnection.  The connection it replaces is closed, and as its   *)
(* handler ends without a call, c may stand for both.                       *)
Bind(c) ==
  /\ handler[c] \in {"none", "open"}
  /\ handler' = [d \in Conn |-> IF d = c THEN "bind"
                   ELSE IF d = registered /\ handler[d] = "open" THEN "none" ELSE handler[d]]
  /\ registered' = c
  /\ Call(c, TRUE)
  /\ UNCHANGED <<signal, config, cacheVars, muted, entry, candidate, history, troubles>>

(* A traffic message arrives.                                               *)
Hear(c) ==
  /\ handler[c] = "open"
  /\ signal' = TRUE
  /\ UNCHANGED <<handler, registered, config, cacheVars, muted, entry, callVars, history,
                 troubles>>

(* None arrives for a while, whether the connection is open or not.         *)
Silence ==
  /\ signal
  /\ signal' = FALSE
  /\ torn' = (torn \/ pc[Ticker] # "idle")
  /\ UNCHANGED <<handler, registered, config, cacheVars, muted, entry, callVars, told,
                 lapsed, owed, late, misled, troubles>>

(* The registered connection ends.                                          *)
Unbind(c) ==
  /\ handler[c] = "open"
  /\ handler' = [handler EXCEPT ![c] = "unbind"] /\ registered' = Absent
  /\ Call(c, FALSE)
  /\ UNCHANGED <<signal, config, cacheVars, muted, entry, candidate, history, troubles>>
-----------------------------------------------------------------------------
(* The tick: handleOfflineNotifyTick.                                       *)

(* Mutant: an outage of which nobody told the tick goes unseen.             *)
Transition_KnownOnly ==
  IF entry = Absent \/ ~entry.initialized THEN {}
  ELSE {signal} \ {entry.online}

(* What the tick finds changed: nothing, or the new status.                 *)
Transition == {signal} \ {IF entry = Absent \/ ~entry.initialized THEN TRUE ELSE entry.online}

IsDue == entry # Absent /\ entry.initialized /\ ~entry.online /\ entry.pending = "past"

NotifyTick ==
  /\ pc[Ticker] = "idle"
  /\ Transition # {} \/ IsDue
  /\ candidate' = (IsDue /\ entry.last # "offline")
  /\ entry' = IF IsDue /\ entry.last = "offline" THEN [entry EXCEPT !.pending = "none"]
              ELSE entry
  /\ IF Transition # {}
       THEN Call(Ticker, CHOOSE up \in Transition : TRUE)
       ELSE /\ pc' = [pc EXCEPT ![Ticker] = IF candidate' THEN "due" ELSE "idle"]
            /\ UNCHANGED online
  /\ UNCHANGED <<connVars, config, cacheVars, muted, history, troubles>>

(* notifyOfflineIfDue: the node is back, or nobody wants to know.           *)
DropCandidate ==
  /\ pc[Ticker] = "due"
  /\ signal \/ (~muted /\ config # "on")
  /\ pc' = [pc EXCEPT ![Ticker] = "idle"] /\ candidate' = FALSE
  /\ entry' = Absent /\ Dropped
  /\ UNCHANGED <<connVars, config, cacheVars, muted, online, told, owed, torn, misled,
                 troubles>>

(* It is muted: later.                                                      *)
Postpone ==
  /\ pc[Ticker] = "due" /\ ~signal /\ muted
  /\ pc' = [pc EXCEPT ![Ticker] = "idle"] /\ candidate' = FALSE
  /\ entry' = IF entry = Absent THEN Absent ELSE [entry EXCEPT !.pending = "ahead"]
  /\ UNCHANGED <<connVars, config, cacheVars, muted, online, history, troubles>>

Alarm ==
  /\ pc[Ticker] = "due" /\ ~signal /\ ~muted /\ config = "on"
  /\ pc' = [pc EXCEPT ![Ticker] = "alarm"] /\ candidate' = FALSE
  /\ Meets(Ticker)
  /\ UNCHANGED <<connVars, config, cacheVars, muted, entry, online, told, lapsed, owed,
                 late, misled, troubles>>

(* The message "offline" is sent ...                                        *)
SendOffline ==
  /\ pc[Ticker] = "alarm"
  /\ pc' = [pc EXCEPT ![Ticker] = "mark"]
  /\ told' = "offline" /\ lapsed' = FALSE
  /\ UNCHANGED <<connVars, config, cacheVars, muted, entry, online, candidate,
                 owed, late, torn, misled, troubles>>

(* ... or not.                                                              *)
SendOfflineFails ==
  /\ pc[Ticker] = "alarm"
  /\ Trouble
  /\ pc' = [pc EXCEPT ![Ticker] = "failed"]
  /\ UNCHANGED <<connVars, config, cacheVars, muted, entry, online, candidate, history>>

(* updateNodeOfflineLastNotifyAt, and the cache, which is set also if the   *)
(* row cannot be written.                                                   *)
MarkNotified ==
  /\ pc[Ticker] = "mark"
  /\ pc' = [pc EXCEPT ![Ticker] = "sent"]
  /\ markerRow' \in {markerRow, TRUE} /\ marker' = TRUE
  /\ owed' = TRUE /\ misled' = FALSE
  /\ UNCHANGED <<connVars, config, preBoot, judged, draft, muted, entry, online, candidate,
                 told, lapsed, late, torn, troubles>>

(* Mutant: that the message was sent is not kept.                           *)
Sent_Forgotten(st) == [st EXCEPT !.pending = "ahead"]

Sent(st) == [st EXCEPT !.last = "offline", !.pending = "none"]

(* The end of notifyOfflineIfDue.  A message that failed is tried again.    *)
RecordNotified ==
  /\ pc[Ticker] \in {"sent", "failed"}
  /\ pc' = [pc EXCEPT ![Ticker] = "idle"]
  /\ LET st == IF entry = Absent THEN Blank ELSE entry IN
     entry' = IF pc[Ticker] = "sent" THEN Sent(st) ELSE [st EXCEPT !.pending = "ahead"]
  /\ UNCHANGED <<connVars, config, cacheVars, muted, online, candidate, history, troubles>>
-----------------------------------------------------------------------------
(* The grace period, the pause before another try, or the mute is over.     *)
TimePasses ==
  /\ entry # Absent /\ entry.pending = "ahead"
  /\ entry' = [entry EXCEPT !.pending = "past"]
  /\ UNCHANGED <<connVars, config, cacheVars, muted, callVars, history, troubles>>

(* The minute that InitNodeNotifyConfigCache waits is over.                 *)
JudgePreBoot ==
  /\ ~judged /\ judged' = TRUE
  /\ preBoot' = (preBoot \/ (config = "on" /\ ~signal))
  /\ UNCHANGED <<connVars, config, marker, markerRow, draft, muted, entry, callVars, history,
                 troubles>>

(* apiUpdateOfflineNotifySetting: the row, the cache, and a call.           *)
Set(to) ==
  /\ Trouble
  /\ config' = to
  /\ late' = (late \/ (config = "off" /\ to = "on" /\ entry # Absent /\ ~entry.online))
  /\ Call(Admin, registered # Absent)
  /\ UNCHANGED <<connVars, cacheVars, muted, entry, candidate, told, lapsed, owed, torn,
                 misled>>

(* SuppressNodeStatusNotifyForDuration, after an update command.            *)
Mute ==
  /\ registered # Absent
  /\ Trouble
  /\ muted' = TRUE
  /\ UNCHANGED <<connVars, config, cacheVars, entry, callVars, history>>

MuteEnds ==
  /\ muted /\ muted' = FALSE
  /\ UNCHANGED <<connVars, config, cacheVars, entry, callVars, history, troubles>>

(* apiUpdateNode reads the row ...                                          *)
EditReads ==
  /\ Trouble
  /\ draft = Absent /\ draft' = markerRow
  /\ UNCHANGED <<connVars, config, marker, markerRow, preBoot, judged, muted, entry, callVars,
                 history>>

(* ... and writes all of it, or fails to.                                   *)
EditSaves ==
  /\ draft # Absent /\ draft' = Absent
  /\ markerRow' \in {markerRow, draft}
  /\ UNCHANGED <<connVars, config, marker, preBoot, judged, muted, entry, callVars, history,
                 troubles>>

(* The panel starts again with its rows.  Until the cache is filled it      *)
(* refuses agents, and the tick knows no node.                              *)
Restart ==
  /\ Trouble
  /\ signal' = FALSE
  /\ handler' = [c \in Conn |-> "none"] /\ registered' = Absent
  /\ marker' = markerRow /\ preBoot' = FALSE /\ judged' = FALSE
  /\ draft' = Absent /\ misled' = (misled \/ marker # markerRow)
  /\ muted' = FALSE
  /\ entry' = Absent /\ Dropped
  /\ pc' = [p \in Proc |-> "idle"] /\ online' = [p \in Proc |-> FALSE]
  /\ candidate' = FALSE
  /\ torn' = (torn \/ \E p \in Proc : pc[p] \notin {"idle", "change"})
  /\ UNCHANGED <<config, markerRow, told, owed>>

Step(p) ==
  \/ Ignore(p) \/ GoesOffline(p) \/ GoesOnline(p)
  \/ SendOnline(p) \/ ClearMarkers(p) \/ Forget(p)

Watch ==
  \/ NotifyTick \/ DropCandidate \/ Postpone \/ Alarm
  \/ SendOffline \/ SendOfflineFails \/ MarkNotified \/ RecordNotified

NotifyNext ==
  \/ \E p \in Proc : Step(p)
  \/ Watch
  \/ \E c \in Conn : Bind(c) \/ Hear(c) \/ Unbind(c)
  \/ Silence \/ TimePasses \/ JudgePreBoot
  \/ \E to \in {"off", "on"} : Set(to)
  \/ Mute \/ MuteEnds \/ EditReads \/ EditSaves \/ Restart

NotifySpec == NotifyInit /\ [][NotifyNext]_notifyVars

(* The ticker fires every second, calls end, and time passes.               *)
NotifyFairSpec ==
  /\ NotifySpec
  /\ WF_notifyVars(Watch) /\ \A p \in Proc : WF_notifyVars(Step(p))
  /\ WF_notifyVars(TimePasses) /\ WF_notifyVars(MuteEnds)
-----------------------------------------------------------------------------
(* Nobody is told twice that the node is offline, whatever calls meet,       *)
(* unless what was known of it was dropped in between: the node connected,   *)
(* or the panel was restarted.                                               *)
NoRepeat == [][SendOffline => told # "offline" \/ lapsed]_notifyVars

(* Nobody is told that the node is back who was not told that it is away,    *)
(* or is told twice, as long as calls do not meet; except that a node which  *)
(* was silent for a minute after the start of the panel is announced when it *)
(* appears, and that a panel believes the row it started from, though a      *)
(* write of it had failed or an edit had brought an old one back             *)
(* (needOnlineNotify, clearNodeOfflineRecoveryMarkers, apiUpdateNode).       *)
NoFalseRecovery ==
  [][\A p \in Proc : SendOnline(p) => told = "offline" \/ preBoot \/ torn \/ misled]_notifyVars

(* However calls meet, the entry agrees with what is heard in the end: the   *)
(* tick repairs what a handler or the administrator got wrong.               *)
StatusFollows ==
  /\ ~signal ~> signal \/ (entry # Absent /\ entry.initialized /\ ~entry.online)
  /\ signal ~> ~signal \/ entry = Absent \/ ~entry.initialized

(* An outage that is over, of no interest, or broken off by a connection,    *)
(* which counts as a sign of life, needs no message.                         *)
NeedsNoMessage ==
  told = "offline" \/ signal \/ config # "on" \/ \E c \in Conn : handler[c] = "bind"

(* The help of the setting (system_settings_modal.html): a grace period      *)
(* greater than 0 means that a message is sent once the node has been        *)
(* offline for longer.                                                       *)
OutageAnnounced == ~signal /\ config = "on" ~> NeedsNoMessage

(* It is, unless it was switched on from 0 during the outage, or a call met  *)
(* another one that waits for Telegram or the database.                      *)
PlainOutageAnnounced == ~signal /\ config = "on" ~> NeedsNoMessage \/ late \/ torn

(* Who was told that the node is offline is told when it is back, also if    *)
(* the panel was restarted in between, unless the node is muted, the message *)
(* fails, calls met, or the panel started from a row that a failed write or  *)
(* an old edit had left without the mark.  A mark that fails to reach the    *)
(* row alone costs nothing.                                                  *)
RecoveryAnnounced == owed /\ signal ~> ~owed \/ ~signal \/ torn \/ misled
=============================================================================
