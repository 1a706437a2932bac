------------------------ MODULE CommandChannel_proofs -------------------------
(***************************************************************************)
(* Proofs about CommandChannel, for any number of commands, pages,         *)
(* connections and workers: the hub never sends on a closed channel, a     *)
(* node that was deleted leaves no connection, and a page that follows a   *)
(* command shows its log.                                                  *)
(***************************************************************************)
EXTENDS CommandChannel, TLAPS

(* A channel that the hub knows belongs to a page whose handler has not     *)
(* left, and only a page that came can have a closed channel.               *)
ViewInv ==
  /\ viewer \in [Viewer -> {"new", "on", "left", "panicked"}]
  /\ subscribed \subseteq Viewer
  /\ subscribed \cap closed = {}
  /\ \A v \in Viewer : viewer[v] = "new" => v \notin closed
  /\ \A v \in subscribed : viewer[v] = "on"

(* Steps of other components leave the live pages alone.                    *)
LEMMA ViewsApart ==
  ASSUME Next PROVE
    \/ \E v \in Viewer : Subscribe(v) \/ Unsubscribe(v)
    \/ CleanupNodeState
    \/ UNCHANGED viewVars
<1> USE DEF viewVars, panelVars
<1>1. ASSUME NextAgent PROVE UNCHANGED viewVars
  BY <1>1 DEF NextAgent, Connect, SendLive, Restart, ReadError, SetDown, Receive, Take, Work, Finish, TriggerCheck
<1>2. ASSUME NEW k \in Conn, Check(k) \/ Register(k) \/ Unregister(k) \/ Answers(k) \/ Drop(k) PROVE UNCHANGED viewVars
  BY <1>2 DEF Check, Register, Unregister, Answers, Drop
<1>3. ASSUME NEW c \in Cmd, CheckAgentUpdate(c) \/ PushConfig(c) \/ ResetProtocol(c) \/ Write(c) \/ Expire(c)
      PROVE UNCHANGED viewVars
  BY <1>3 DEF CheckAgentUpdate, PushConfig, ResetProtocol, FromPage, Write, Expire
<1>4. ASSUME StartupCheck \/ DeleteNode \/ Forget PROVE UNCHANGED viewVars
  BY <1>4 DEF StartupCheck, DeleteNode, Forget
<1>5. ASSUME NEW s \in Stream, Show(s) \/ Leave(s) \/ \E c \in Cmd : Follow(s, c) PROVE UNCHANGED viewVars
  BY <1>5 DEF Show, Leave, Follow, StreamOnly
<1> QED
  BY <1>1, <1>2, <1>3, <1>4, <1>5 DEF Next, NextPanel

LEMMA ViewInvInit == Init => ViewInv
  BY DEF Init, ViewInv

LEMMA ViewInvStep == ViewInv /\ [Next]_vars => ViewInv'
<1> SUFFICES ASSUME ViewInv, [Next]_vars PROVE ViewInv'
  OBVIOUS
<1> USE DEF ViewInv
<1>1. ASSUME NEW v \in Viewer, Subscribe(v) PROVE ViewInv'
  BY <1>1 DEF Subscribe
<1>2. ASSUME NEW v \in Viewer, Unsubscribe(v) PROVE ViewInv'
  BY <1>2 DEF Unsubscribe
<1>3. CASE CleanupNodeState
  BY <1>3 DEF CleanupNodeState
<1>4. CASE UNCHANGED viewVars
  BY <1>4 DEF viewVars
<1>5. CASE UNCHANGED vars
  BY <1>4, <1>5 DEF vars, panelVars
<1> QED
  BY <1>1, <1>2, <1>3, <1>4, <1>5, ViewsApart

(* The hub never sends on a closed channel: an entry is removed from the    *)
(* subscribers in the critical section that closes its channel              *)
(* (unsubscribe, CleanupNodeState).                                         *)
THEOREM NeverSendsOnClosed == Spec => []NoSendOnClosed
<1>1. ViewInv => NoSendOnClosed
  BY DEF ViewInv, NoSendOnClosed, Reached
<1> QED
  BY <1>1, ViewInvInit, ViewInvStep, PTL DEF Spec
-----------------------------------------------------------------------------
(* The handlers, and the one connection of those that were registered that  *)
(* may still be open; once the hub is cleaned nothing is left, except of a  *)
(* handler that was past its check, which late remembers.                   *)
GoneInv ==
  /\ made \in 0 .. MaxConn
  /\ served \subseteq 1 .. made /\ checked \subseteq 1 .. made
  /\ bound \subseteq 1 .. made /\ open \subseteq 1 .. made
  /\ registered \in Conn \cup {None}
  /\ bound \cap open \subseteq {registered}
  /\ node \in {"cleaned", "forgotten"} /\ ~late => registered = None /\ checked = {}

LEMMA GoneInvInit == Init => GoneInv
  BY SizeAssumption DEF Init, GoneInv, Conn

(* What GoneInv speaks of.                                                  *)
goneVars == <<made, served, checked, bound, open, registered, node, late>>

LEMMA GoneInvStep == GoneInv /\ [Next]_vars => GoneInv'
<1> SUFFICES ASSUME GoneInv, [Next]_vars PROVE GoneInv'
  OBVIOUS
<1> USE SizeAssumption, NoneAssumption DEF GoneInv, Conn
<1>0. CASE UNCHANGED goneVars
  BY <1>0 DEF goneVars
<1>s. ASSUME UNCHANGED <<made, served, checked, bound, registered, node, late>>, open' \subseteq open PROVE GoneInv'
  BY <1>s
<1>1. CASE Connect
  <2>1. /\ made < MaxConn /\ made' = made + 1 /\ open' = (open \ {conn}) \cup {made + 1} /\ served' = served \cup {made + 1}
        /\ UNCHANGED <<checked, bound, registered, node, late>>
    BY <1>1 DEF Connect
  <2>2. made' \in 0 .. MaxConn /\ 1 .. made \subseteq 1 .. made' /\ made + 1 \in 1 .. made' /\ made + 1 \notin 1 .. made
    BY <2>1
  <2>3. served' \subseteq 1 .. made' /\ checked' \subseteq 1 .. made' /\ bound' \subseteq 1 .. made' /\ open' \subseteq 1 .. made'
    BY <2>1, <2>2
  <2>4. bound' \cap open' \subseteq {registered'}
    BY <2>1, <2>2
  <2> QED BY <2>1, <2>2, <2>3, <2>4
<1>2. CASE SendLive
  <2>1. UNCHANGED goneVars
    BY <1>2 DEF SendLive, Delivers, goneVars, panelVars, bindVars, netVars, linkVars
  <2> QED BY <2>1, <1>0
<1>3. CASE Restart
  BY <1>3, <1>s DEF Restart, panelVars, bindVars
<1>4. ASSUME NEW k \in Conn, ReadError(k) \/ SetDown(k) \/ Receive(k) PROVE GoneInv'
  <2>1. UNCHANGED goneVars
    BY <1>4 DEF ReadError, SetDown, Receive, goneVars, panelVars, bindVars, netVars, linkVars
  <2> QED BY <2>1, <1>0
<1>5. ASSUME NEW c, NEW a, NEW via, Send(c, a, via), UNCHANGED <<made, served, checked, bound, registered, node, late>>
      PROVE GoneInv'
  BY <1>5, <1>s DEF Send, Delivers, Closes, netVars
<1>6. ASSUME NEW w \in Worker, Take(w) \/ Work(w) \/ Finish(w) PROVE GoneInv'
  <2>1. CASE Take(w)
    BY <2>1, <1>0 DEF Take, goneVars, panelVars, bindVars, netVars, linkVars
  <2>2. CASE Work(w)
    BY <2>2, <1>5 DEF Work, panelVars, bindVars, linkVars
  <2>3. CASE Finish(w)
    BY <2>3, <1>5, <1>0 DEF Finish, panelVars, bindVars, linkVars, netVars, goneVars
  <2> QED BY <1>6, <2>1, <2>2, <2>3
<1>7. ASSUME NEW t \in aside, TriggerCheck(t) PROVE GoneInv'
  BY <1>7, <1>5 DEF TriggerCheck, panelVars, bindVars, linkVars
<1>8. ASSUME NEW k \in Conn, Drop(k) PROVE GoneInv'
  BY <1>8, <1>s DEF Drop, Closes, panelVars, bindVars, agentVars, linkVars
<1>9. ASSUME NEW k \in Conn, Check(k) PROVE GoneInv'
  BY <1>9 DEF Check, agentVars, linkVars
<1>10. ASSUME NEW k \in Conn, Register(k) PROVE GoneInv'
  BY <1>10 DEF Register, Closes, agentVars, linkVars
<1>11. ASSUME NEW k \in Conn, Unregister(k) PROVE GoneInv'
  BY <1>11 DEF Unregister, agentVars, linkVars, netVars
<1>12. ASSUME NEW k \in Conn, Answers(k) PROVE GoneInv'
  BY <1>12, <1>0 DEF Answers, bindVars, agentVars, linkVars, goneVars
<1>13. ASSUME NEW c \in Cmd, CheckAgentUpdate(c) \/ PushConfig(c) \/ ResetProtocol(c) PROVE GoneInv'
  BY <1>13, <1>0 DEF CheckAgentUpdate, PushConfig, ResetProtocol, FromPage, bindVars, netVars, agentVars, linkVars, goneVars
<1>14. ASSUME NEW c \in Cmd, Write(c) \/ Expire(c) PROVE GoneInv'
  BY <1>14, <1>0 DEF Write, Expire, bindVars, netVars, agentVars, linkVars, goneVars
<1>15. CASE StartupCheck
  BY <1>15, <1>0 DEF StartupCheck, bindVars, netVars, agentVars, linkVars, goneVars
<1>16. ASSUME NEW s \in Stream, Show(s) \/ Leave(s) \/ \E c \in Cmd : Follow(s, c) PROVE GoneInv'
  BY <1>16, <1>0 DEF Show, Leave, Follow, StreamOnly, bindVars, netVars, agentVars, linkVars, goneVars
<1>17. ASSUME NEW v \in Viewer, Subscribe(v) \/ Unsubscribe(v) PROVE GoneInv'
  BY <1>17, <1>0 DEF Subscribe, Unsubscribe, ViewOnly, bindVars, netVars, agentVars, linkVars, goneVars
<1>18. CASE DeleteNode
  BY <1>18 DEF DeleteNode, bindVars, netVars, agentVars, linkVars
<1>19. CASE CleanupNodeState
  BY <1>19 DEF CleanupNodeState, Closes, agentVars, linkVars
<1>20. CASE Forget
  BY <1>20 DEF Forget, bindVars, netVars, agentVars, linkVars
<1>21. CASE UNCHANGED vars
  BY <1>21, <1>0 DEF vars, panelVars, bindVars, netVars, agentVars, linkVars, goneVars
<1> QED
  BY <1>1, <1>2, <1>3, <1>4, <1>6, <1>7, <1>8, <1>9, <1>10, <1>11, <1>12, <1>13, <1>14, <1>15, <1>16,
     <1>17, <1>18, <1>19, <1>20, <1>21 DEF Next, NextAgent, NextPanel

(* A deleted node leaves no connection and no closed channel behind:        *)
(* CleanupNodeState closes the registered connection, every other was       *)
(* closed when it was replaced, and a handler that comes later finds the    *)
(* node unknown (bindAgentConnection).                                      *)
THEOREM DeletedIsAlwaysGone == Spec => []DeletedIsGone
<1>1. ASSUME GoneInv, NoSendOnClosed PROVE DeletedIsGone
  <2>1. made \in Nat /\ MaxConn \in Nat /\ made <= MaxConn /\ open \subseteq 1 .. made
    BY <1>1, SizeAssumption DEF GoneInv
  <2>2. open \subseteq 1 .. MaxConn
    BY <2>1
  <2>3. None \notin open
    BY <2>2, NoneAssumption
  <2> QED BY <1>1, <2>3 DEF GoneInv, DeletedIsGone
<1> QED
  BY <1>1, GoneInvInit, GoneInvStep, NeverSendsOnClosed, PTL DEF Spec
-----------------------------------------------------------------------------
(* Facts about sequences.                                                   *)
LEMMA PrefixOfSelf ==
  ASSUME NEW S, NEW t \in Seq(S) PROVE IsPrefix(t, t)
  BY DEF IsPrefix

LEMMA PrefixOfLonger ==
  ASSUME NEW S, NEW s \in Seq(S), NEW t \in Seq(S), NEW e \in S, IsPrefix(s, t)
  PROVE  IsPrefix(s, Append(t, e))
<1>1. Len(s) <= Len(t) /\ Len(Append(t, e)) = Len(t) + 1
  BY DEF IsPrefix
<1>2. SubSeq(Append(t, e), 1, Len(s)) = SubSeq(t, 1, Len(s))
  BY <1>1
<1> QED BY <1>1, <1>2 DEF IsPrefix

LEMMA AppendToSecond ==
  ASSUME NEW S, NEW s \in Seq(S), NEW t \in Seq(S), NEW e \in S
  PROVE  s \o Append(t, e) = Append(s \o t, e)
  OBVIOUS

LEMMA HeadMoves ==
  ASSUME NEW S, NEW s \in Seq(S), NEW t \in Seq(S), t # <<>>
  PROVE  Append(s, Head(t)) \o Tail(t) = s \o t
  OBVIOUS

LEMMA HeadComesNext ==
  ASSUME NEW S, NEW s \in Seq(S), NEW t \in Seq(S)
  PROVE  /\ Len(s \o t) = Len(s) + Len(t)
         /\ t # <<>> => Len(s) + 1 \in 1 .. Len(s \o t) /\ (s \o t)[Len(s) + 1] = Head(t)
<1>1. Len(s \o t) = Len(s) + Len(t) /\ Len(s) \in Nat /\ Len(t) \in Nat
  OBVIOUS
<1>2. ASSUME t # <<>> PROVE Len(t) >= 1 /\ Head(t) = t[1]
  BY <1>2
<1>3. ASSUME t # <<>> PROVE (s \o t)[Len(s) + 1] = t[1]
  BY <1>1, <1>2, <1>3
<1> QED BY <1>1, <1>2, <1>3

(* What is under way between the processes, and what the logs and pages     *)
(* hold: an answer is made of a command that was received, and reaches the  *)
(* log of that command.                                                     *)
AgentTypes ==
  /\ down \in [Conn -> Seq(Cmd)]
  /\ queue \in Seq(Task)
  /\ job \in [Worker -> {None} \cup [cmd : Cmd, via : Conn, next : Answer]]
  /\ aside \subseteq Task

Message == {Sample} \cup (Cmd \X Answer)

WireTypes == up \in [Conn -> Seq(Message)]

PageTypes ==
  /\ entries \in [Cmd -> Seq(Answer)]
  /\ stream \in [Stream -> Following \cup {None}]

LogInv == AgentTypes /\ WireTypes /\ PageTypes /\ StreamIsTrue

LEMMA LogInvInit == Init => LogInv
<1> SUFFICES ASSUME Init PROVE LogInv
  OBVIOUS
<1>1. AgentTypes /\ WireTypes /\ PageTypes
  BY DEF Init, AgentTypes, WireTypes, PageTypes
<1>2. StreamIsTrue
  BY DEF Init, StreamIsTrue
<1> QED BY <1>1, <1>2 DEF LogInv

LEMMA AnswerFacts == Steps \in Nat \ {0} /\ 1 \in Answer /\ Result \in Answer /\ \A n \in Answer : n < Result => n + 1 \in Answer
  BY SizeAssumption DEF Answer, Result

LEMMA EmptiedQueues ==
  ASSUME NEW S, NEW q \in [Conn -> Seq(S)], NEW k, NEW r \in Emptied(q, k) PROVE r \in [Conn -> Seq(S)]
<1>1. <<>> \in Seq(S)
  OBVIOUS
<1>2. [q EXCEPT ![k] = <<>>] \in [Conn -> Seq(S)]
  BY <1>1
<1> QED BY <1>2 DEF Emptied

LEMMA LongerQueue ==
  ASSUME NEW S, NEW q \in [Conn -> Seq(S)], NEW k, NEW e \in S
  PROVE  [q EXCEPT ![k] = Append(@, e)] \in [Conn -> Seq(S)]
<1>1. CASE k \in Conn
  <2>1. Append(q[k], e) \in Seq(S)
    BY <1>1
  <2> QED BY <2>1
<1>2. CASE k \notin Conn
  BY <1>2
<1> QED BY <1>1, <1>2

LEMMA ShorterQueue ==
  ASSUME NEW S, NEW q \in [Conn -> Seq(S)], NEW k \in Conn, q[k] # <<>>
  PROVE  [q EXCEPT ![k] = Tail(@)] \in [Conn -> Seq(S)]
<1>1. Tail(q[k]) \in Seq(S)
  OBVIOUS
<1> QED BY <1>1

LEMMA AgentTypesStep == AgentTypes /\ [Next]_vars => AgentTypes'
<1> SUFFICES ASSUME AgentTypes, [Next]_vars PROVE AgentTypes'
  OBVIOUS
<1> DEFINE apart == <<down, queue, job, aside>>
<1> USE DEF AgentTypes
<1>0. CASE UNCHANGED apart
  BY <1>0
<1>s. ASSUME UNCHANGED <<queue, job, aside>>, NEW k, down' \in Emptied(down, k) PROVE AgentTypes'
  <2>1. down' \in [Conn -> Seq(Cmd)]
    BY <1>s, EmptiedQueues
  <2> QED BY <1>s, <2>1
<1>1. CASE Connect
  BY <1>1 DEF Connect
<1>2. CASE SendLive
  BY <1>2, <1>0 DEF SendLive, Delivers, netVars, workVars
<1>3. CASE Restart
  BY <1>3 DEF Restart
<1>4. ASSUME NEW k \in Conn, ReadError(k) \/ SetDown(k) PROVE AgentTypes'
  BY <1>4, <1>0 DEF ReadError, SetDown, netVars, workVars
<1>5. ASSUME NEW k \in Conn, Receive(k) PROVE AgentTypes'
  <2>1. Head(down[k]) \in Cmd /\ Tail(down[k]) \in Seq(Cmd) /\ UNCHANGED <<job, aside>>
    BY <1>5 DEF Receive
  <2>2. [cmd |-> Head(down[k]), via |-> k] \in Task
    BY <2>1 DEF Task
  <2>3. queue' \in Seq(Task)
    <3>1. Append(queue, [cmd |-> Head(down[k]), via |-> k]) \in Seq(Task)
      BY <2>2
    <3>2. queue' \in {queue, Append(queue, [cmd |-> Head(down[k]), via |-> k])}
      BY <1>5 DEF Receive
    <3> QED BY <3>1, <3>2
  <2>4. down' = [down EXCEPT ![k] = Tail(@)] /\ down[k] # <<>>
    BY <1>5 DEF Receive
  <2>5. down' \in [Conn -> Seq(Cmd)]
    BY <2>4, ShorterQueue
  <2> QED BY <2>1, <2>3, <2>5
<1>6. ASSUME NEW w \in Worker, Take(w) PROVE AgentTypes'
  <2>1. Head(queue) \in Task /\ Tail(queue) \in Seq(Task) /\ UNCHANGED <<down, aside>>
    BY <1>6 DEF Take, netVars
  <2>2. [cmd |-> Head(queue).cmd, via |-> Head(queue).via, next |-> 1] \in [cmd : Cmd, via : Conn, next : Answer]
    BY <2>1, AnswerFacts DEF Task
  <2> QED BY <1>6, <2>1, <2>2 DEF Take
<1>7. ASSUME NEW c, NEW a, NEW via, Send(c, a, via) PROVE down' \in [Conn -> Seq(Cmd)]
  BY <1>7, EmptiedQueues DEF Send, Delivers, Closes, netVars
<1>8. ASSUME NEW w \in Worker, Work(w) PROVE AgentTypes'
  <2>1. job[w] \in [cmd : Cmd, via : Conn, next : Answer] /\ job[w].next < Result
    BY <1>8 DEF Work
  <2>2. [job[w] EXCEPT !.next = @ + 1] \in [cmd : Cmd, via : Conn, next : Answer]
    BY <2>1, AnswerFacts
  <2>3. job' = [job EXCEPT ![w] = [job[w] EXCEPT !.next = @ + 1]] /\ UNCHANGED <<queue, aside>>
    BY <1>8 DEF Work
  <2> QED BY <1>8, <1>7, <2>2, <2>3 DEF Work
<1>9. ASSUME NEW w \in Worker, Finish(w) PROVE AgentTypes'
  <2>1. job[w] \in [cmd : Cmd, via : Conn, next : Answer]
    BY <1>9 DEF Finish
  <2>2. [cmd |-> job[w].cmd, via |-> job[w].via] \in Task
    BY <2>1 DEF Task
  <2>3. UNCHANGED queue /\ job' = [job EXCEPT ![w] = None] /\ aside' \subseteq Task
    BY <1>9, <2>2 DEF Finish
  <2>4. down' \in [Conn -> Seq(Cmd)]
    BY <1>9, <1>7 DEF Finish, netVars
  <2> QED BY <2>3, <2>4
<1>10. ASSUME NEW t \in aside, TriggerCheck(t) PROVE AgentTypes'
  BY <1>10, <1>7 DEF TriggerCheck
<1>11. ASSUME NEW k \in Conn, Drop(k) PROVE AgentTypes'
  BY <1>11, <1>s DEF Drop, Closes, agentVars, workVars
<1>12. ASSUME NEW k \in Conn, Check(k) \/ Unregister(k) \/ Answers(k) PROVE AgentTypes'
  BY <1>12, <1>0 DEF Check, Unregister, Answers, agentVars, workVars, netVars
<1>13. ASSUME NEW k \in Conn, Register(k) PROVE AgentTypes'
  BY <1>13, <1>s DEF Register, Closes, agentVars, workVars
<1>14. ASSUME NEW c \in Cmd, CheckAgentUpdate(c) \/ PushConfig(c) \/ ResetProtocol(c) \/ Expire(c) PROVE AgentTypes'
  BY <1>14, <1>0 DEF CheckAgentUpdate, PushConfig, ResetProtocol, FromPage, Expire, netVars, agentVars, workVars
<1>15. ASSUME NEW c \in Cmd, Write(c) PROVE AgentTypes'
  <2>1. UNCHANGED <<queue, job, aside>>
    BY <1>15 DEF Write, agentVars, workVars
  <2>2. UNCHANGED down \/ down' = [down EXCEPT ![request[c].on] = Append(@, c)]
    BY <1>15 DEF Write
  <2>3. [down EXCEPT ![request[c].on] = Append(@, c)] \in [Conn -> Seq(Cmd)]
    BY LongerQueue
  <2> QED BY <2>1, <2>2, <2>3
<1>16. CASE StartupCheck
  BY <1>16, <1>0 DEF StartupCheck, netVars, agentVars, workVars
<1>17. ASSUME NEW s \in Stream, Show(s) \/ Leave(s) \/ \E c \in Cmd : Follow(s, c) PROVE AgentTypes'
  BY <1>17, <1>0 DEF Show, Leave, Follow, StreamOnly, netVars, agentVars, workVars
<1>18. ASSUME NEW v \in Viewer, Subscribe(v) \/ Unsubscribe(v) PROVE AgentTypes'
  BY <1>18, <1>0 DEF Subscribe, Unsubscribe, ViewOnly, netVars, agentVars, workVars
<1>19. CASE DeleteNode \/ Forget
  BY <1>19, <1>0 DEF DeleteNode, Forget, netVars, agentVars, workVars
<1>20. CASE CleanupNodeState
  BY <1>20, <1>s DEF CleanupNodeState, Closes, agentVars, workVars
<1>21. CASE UNCHANGED vars
  BY <1>21, <1>0 DEF vars, netVars, agentVars, workVars
<1> QED
  BY <1>1, <1>2, <1>3, <1>4, <1>5, <1>6, <1>8, <1>9, <1>10, <1>11, <1>12, <1>13, <1>14, <1>15, <1>16,
     <1>17, <1>18, <1>19, <1>20, <1>21 DEF Next, NextAgent, NextPanel

LEMMA WireTypesStep == AgentTypes /\ WireTypes /\ [Next]_vars => WireTypes'
<1> SUFFICES ASSUME AgentTypes, WireTypes, [Next]_vars PROVE WireTypes'
  OBVIOUS
<1> USE DEF WireTypes
<1>0. CASE UNCHANGED up
  BY <1>0
<1>a. ASSUME NEW k, up' \in Emptied(up, k) PROVE WireTypes'
  BY <1>a, EmptiedQueues
<1>b. ASSUME NEW k, NEW message \in Message, up' = [up EXCEPT ![k] = Append(@, message)] PROVE WireTypes'
  BY <1>b, LongerQueue
<1>c. ASSUME NEW c \in Cmd, NEW answer \in Answer, NEW via, Send(c, answer, via) PROVE WireTypes'
  <2>1. <<c, answer>> \in Message
    BY DEF Message
  <2> QED BY <1>c, <1>0, <1>a, <1>b, <2>1 DEF Send, Delivers, Closes, netVars
<1>d. ASSUME NEW k \in Conn, up[k] # <<>>, up' = [up EXCEPT ![k] = Tail(@)] PROVE WireTypes'
  BY <1>d, ShorterQueue
<1>1. CASE Connect
  BY <1>1, <1>a DEF Connect
<1>2. CASE SendLive
  <2>1. Sample \in Message
    BY DEF Message
  <2> QED BY <1>2, <1>0, <1>b, <2>1 DEF SendLive, Delivers, netVars
<1>3. CASE Restart
  BY <1>3, <1>a DEF Restart
<1>4. ASSUME NEW k \in Conn, ReadError(k) \/ SetDown(k) PROVE WireTypes'
  BY <1>4, <1>0 DEF ReadError, SetDown, netVars
<1>5. ASSUME NEW k \in Conn, Receive(k) PROVE WireTypes'
  <2>1. <<Head(down[k]), Result>> \in Message
    BY <1>5, AnswerFacts DEF Receive, AgentTypes, Message
  <2> QED BY <1>5, <1>0, <1>b, <2>1 DEF Receive
<1>6. ASSUME NEW w \in Worker, Take(w) PROVE WireTypes'
  BY <1>6, <1>0 DEF Take, netVars
<1>8. ASSUME NEW w \in Worker, Work(w) \/ Finish(w) PROVE WireTypes'
  <2>1. job[w] \in [cmd : Cmd, via : Conn, next : Answer]
    BY <1>8 DEF Work, Finish, AgentTypes
  <2> QED BY <1>8, <2>1, <1>0, <1>c, AnswerFacts DEF Work, Finish, netVars
<1>10. ASSUME NEW t \in aside, TriggerCheck(t) PROVE WireTypes'
  BY <1>10, <1>c, AnswerFacts DEF TriggerCheck, AgentTypes, Task
<1>11. ASSUME NEW k \in Conn, Drop(k) PROVE WireTypes'
  BY <1>11, <1>a DEF Drop, Closes
<1>12. ASSUME NEW k \in Conn, Check(k) PROVE WireTypes'
  <2>1. <<>> \in Seq(Message)
    OBVIOUS
  <2>2. up[k] # <<>> /\ (up' = [up EXCEPT ![k] = Tail(@)] \/ up' = [up EXCEPT ![k] = <<>>])
    BY <1>12 DEF Check
  <2> QED BY <2>1, <2>2, <1>d
<1>22. ASSUME NEW k \in Conn, Unregister(k) \/ Answers(k) PROVE WireTypes'
  BY <1>22, <1>0, <1>d DEF Unregister, Answers, netVars
<1>13. ASSUME NEW k \in Conn, Register(k) PROVE WireTypes'
  BY <1>13, <1>a DEF Register, Closes
<1>14. ASSUME NEW c \in Cmd, CheckAgentUpdate(c) \/ PushConfig(c) \/ ResetProtocol(c) \/ Expire(c) \/ Write(c) PROVE WireTypes'
  BY <1>14, <1>0 DEF CheckAgentUpdate, PushConfig, ResetProtocol, FromPage, Expire, Write, netVars
<1>16. CASE StartupCheck
  BY <1>16, <1>0 DEF StartupCheck, netVars
<1>17. ASSUME NEW s \in Stream, Show(s) \/ Leave(s) \/ \E c \in Cmd : Follow(s, c) PROVE WireTypes'
  BY <1>17, <1>0 DEF Show, Leave, Follow, StreamOnly, netVars
<1>18. ASSUME NEW v \in Viewer, Subscribe(v) \/ Unsubscribe(v) PROVE WireTypes'
  BY <1>18, <1>0 DEF Subscribe, Unsubscribe, ViewOnly, netVars
<1>19. CASE DeleteNode \/ Forget
  BY <1>19, <1>0 DEF DeleteNode, Forget, netVars
<1>20. CASE CleanupNodeState
  BY <1>20, <1>a DEF CleanupNodeState, Closes
<1>21. CASE UNCHANGED vars
  BY <1>21, <1>0 DEF vars, netVars
<1> QED
  BY <1>1, <1>2, <1>3, <1>4, <1>5, <1>6, <1>8, <1>10, <1>11, <1>12, <1>22, <1>13, <1>14, <1>16,
     <1>17, <1>18, <1>19, <1>20, <1>21 DEF Next, NextAgent, NextPanel

(* The step of a page, or of its log, as StreamIsTrue sees it.              *)
LEMMA PagesApart ==
  ASSUME [Next]_vars PROVE
    \/ \E k \in Conn : Answers(k)
    \/ \E s \in Stream : Show(s) \/ Leave(s) \/ \E c \in Cmd : Follow(s, c)
    \/ UNCHANGED <<entries, stream>>
<1> USE DEF logVars, panelVars
<1>1. ASSUME NextAgent PROVE UNCHANGED <<entries, stream>>
  BY <1>1 DEF NextAgent, Connect, SendLive, Restart, ReadError, SetDown, Receive, Take, Work, Finish, TriggerCheck
<1>2. ASSUME NEW k \in Conn, Check(k) \/ Register(k) \/ Unregister(k) \/ Drop(k) PROVE UNCHANGED <<entries, stream>>
  BY <1>2 DEF Check, Register, Unregister, Drop
<1>3. ASSUME NEW c \in Cmd, CheckAgentUpdate(c) \/ PushConfig(c) \/ ResetProtocol(c) \/ Write(c) \/ Expire(c)
      PROVE UNCHANGED <<entries, stream>>
  BY <1>3 DEF CheckAgentUpdate, PushConfig, ResetProtocol, Fire, Write, Expire
<1>4. ASSUME StartupCheck \/ DeleteNode \/ CleanupNodeState \/ Forget PROVE UNCHANGED <<entries, stream>>
  BY <1>4 DEF StartupCheck, Fire, DeleteNode, CleanupNodeState, Forget
<1>5. ASSUME NEW v \in Viewer, Subscribe(v) \/ Unsubscribe(v) PROVE UNCHANGED <<entries, stream>>
  BY <1>5 DEF Subscribe, Unsubscribe, ViewOnly
<1>6. CASE UNCHANGED vars
  BY <1>6 DEF vars
<1> QED
  BY <1>1, <1>2, <1>3, <1>4, <1>5, <1>6 DEF Next, NextPanel

(* StreamIsTrue for one page.                                               *)
TrueOf(s) ==
  stream[s] # None /\ ~stream[s].over =>
    /\ IsPrefix(stream[s].got \o stream[s].buf, entries[stream[s].cmd])
    /\ stream[s].on => stream[s].got \o stream[s].buf = entries[stream[s].cmd]

LEMMA ShowKeeps ==
  ASSUME PageTypes, StreamIsTrue, NEW s \in Stream, Show(s) PROVE PageTypes' /\ StreamIsTrue'
<1> DEFINE old == stream[s]
           new == [old EXCEPT !.got = Append(@, Head(old.buf)), !.buf = Tail(@), !.on = Head(old.buf) # Result]
<1>1. old \in Following /\ old.buf # <<>> /\ old.on
  BY DEF Show, On, PageTypes
<1>2. old.got \in Seq(Answer) /\ old.buf \in Seq(Answer) /\ Head(old.buf) \in Answer /\ Tail(old.buf) \in Seq(Answer)
  BY <1>1 DEF Following
<1>3. Append(old.got, Head(old.buf)) \in Seq(Answer)
  BY <1>2
<1>4. /\ new \in Following /\ new.cmd = old.cmd /\ new.over = old.over
      /\ new.got = Append(old.got, Head(old.buf)) /\ new.buf = Tail(old.buf)
  BY <1>1, <1>2, <1>3 DEF Following
<1>5. UNCHANGED entries /\ stream' \in [Stream -> Following \cup {None}] /\ stream'[s] = new
      /\ \A r \in Stream : r # s => stream'[r] = stream[r]
  <2>1. stream' = [stream EXCEPT ![s] = new]
    BY <1>1 DEF Show, StreamOnly, PageTypes
  <2> QED BY <2>1, <1>4 DEF Show, StreamOnly, PageTypes
<1>6. PageTypes'
  BY <1>5 DEF PageTypes
<1>7. new.got \o new.buf = old.got \o old.buf
  <2>1. Append(old.got, Head(old.buf)) \o Tail(old.buf) = old.got \o old.buf
    BY <1>1, <1>2, HeadMoves
  <2> QED BY <2>1, <1>4
<1> HIDE DEF new
<1>8. TrueOf(s)
  BY DEF StreamIsTrue, TrueOf
<1>9. TrueOf(s)'
  <2>1. ASSUME new # None, ~new.over
        PROVE  IsPrefix(new.got \o new.buf, entries[new.cmd]) /\ (new.on => new.got \o new.buf = entries[new.cmd])
    BY <1>1, <1>4, <1>7, <1>8, <2>1 DEF TrueOf, Show, On
  <2> QED BY <1>5, <2>1 DEF TrueOf
<1>10. ASSUME NEW r \in Stream, r # s PROVE TrueOf(r)'
  BY <1>5, <1>10 DEF TrueOf, StreamIsTrue
<1> QED BY <1>6, <1>9, <1>10 DEF StreamIsTrue, TrueOf

LEMMA LeaveKeeps ==
  ASSUME PageTypes, StreamIsTrue, NEW s \in Stream, Leave(s) PROVE PageTypes' /\ StreamIsTrue'
<1> DEFINE old == stream[s]
           new == [old EXCEPT !.on = FALSE]
<1>1. old \in Following /\ UNCHANGED entries /\ stream' = [stream EXCEPT ![s] = new]
  BY DEF Leave, On, StreamOnly, PageTypes
<1>2. new \in Following /\ new.cmd = old.cmd /\ new.over = old.over /\ new.got = old.got /\ new.buf = old.buf /\ ~new.on
  BY <1>1 DEF Following
<1>3. stream'[s] = new /\ \A r \in Stream : r # s => stream'[r] = stream[r]
  BY <1>1 DEF PageTypes
<1>4. PageTypes'
  BY <1>1, <1>2 DEF PageTypes
<1>5. TrueOf(s)
  BY DEF StreamIsTrue, TrueOf
<1>6. old # None
  BY DEF Leave, On
<1> HIDE DEF new, old
<1>7. TrueOf(s)'
  BY <1>1, <1>2, <1>3, <1>5, <1>6 DEF TrueOf, old
<1>8. ASSUME NEW r \in Stream, r # s PROVE TrueOf(r)'
  BY <1>1, <1>3, <1>8 DEF TrueOf, StreamIsTrue
<1> QED BY <1>4, <1>7, <1>8 DEF StreamIsTrue, TrueOf

LEMMA FollowKeeps ==
  ASSUME PageTypes, StreamIsTrue, NEW s \in Stream, NEW c \in Cmd, Follow(s, c) PROVE PageTypes' /\ StreamIsTrue'
<1> DEFINE new == [cmd |-> c, on |-> ~Done(c), over |-> FALSE, got |-> entries[c], buf |-> <<>>]
<1>1. stream' = [stream EXCEPT ![s] = new] /\ UNCHANGED entries
  BY DEF Follow, StreamOnly
<1>2. entries[c] \in Seq(Answer) /\ new \in Following
  BY DEF PageTypes, Following, Done
<1>3. PageTypes'
  BY <1>1, <1>2 DEF PageTypes
<1>4. entries[c] \o <<>> = entries[c] /\ IsPrefix(entries[c], entries[c])
  BY <1>2, PrefixOfSelf
<1>5. ASSUME NEW r \in Stream PROVE TrueOf(r)'
  <2>1. CASE r = s
    BY <1>1, <1>4, <2>1 DEF TrueOf, PageTypes
  <2>2. CASE r # s
    BY <1>1, <2>2 DEF TrueOf, StreamIsTrue, PageTypes
  <2> QED BY <2>1, <2>2
<1> QED BY <1>3, <1>5 DEF StreamIsTrue, TrueOf

(* An answer reaches the log and every page that follows it, or marks the   *)
(* page as one with a gap.                                                  *)
LEMMA AnswersKeep ==
  ASSUME WireTypes, PageTypes, StreamIsTrue, NEW k \in Conn, Answers(k) PROVE PageTypes' /\ StreamIsTrue'
<1> DEFINE c == Head(up[k])[1]
           answer == Head(up[k])[2]
<1>1. c \in Cmd /\ answer \in Answer
  <2>1. Head(up[k]) \in Message /\ Head(up[k]) # Sample
    BY DEF Answers, WireTypes
  <2> QED BY <2>1 DEF Message
<1>2. /\ entries' = IF c \in kept THEN [entries EXCEPT ![c] = Append(@, answer)] ELSE entries
      /\ stream' = [s \in Stream |-> Told(stream[s], c, answer)]
  BY DEF Answers
<1> HIDE DEF c, answer
<1>3. \A s \in Following \cup {None} : Told(s, c, answer) \in Following \cup {None}
  <2> SUFFICES ASSUME NEW s \in Following PROVE Told(s, c, answer) \in Following \cup {None}
    BY DEF Told
  <2>1. Append(s.buf, answer) \in Seq(Answer)
    BY <1>1 DEF Following
  <2>2. [s EXCEPT !.buf = Append(@, answer)] \in Following
    BY <2>1 DEF Following
  <2>3. [s EXCEPT !.over = TRUE] \in Following
    BY DEF Following
  <2> QED BY <2>2, <2>3 DEF Told
<1>4. PageTypes'
  <2>1. entries' \in [Cmd -> Seq(Answer)]
    BY <1>1, <1>2 DEF PageTypes
  <2>2. stream' \in [Stream -> Following \cup {None}]
    BY <1>2, <1>3 DEF PageTypes
  <2> QED BY <2>1, <2>2 DEF PageTypes
<1>5. ASSUME NEW s \in Stream PROVE TrueOf(s)'
  <2> DEFINE old == stream[s]
             log == entries[old.cmd]
  <2>1. TrueOf(s) /\ old \in Following \cup {None} /\ stream'[s] = Told(old, c, answer)
    BY <1>2 DEF StreamIsTrue, TrueOf, PageTypes
  <2>2. CASE old = None
    BY <2>1, <2>2 DEF TrueOf, Told
  <2>3. CASE old # None /\ c \notin kept
    BY <1>2, <2>1, <2>3 DEF TrueOf, Told
  <2>4. CASE old # None /\ c \in kept /\ old.cmd # c
    BY <1>1, <1>2, <2>1, <2>4 DEF TrueOf, Told, PageTypes, Following
  <2>5. ASSUME old # None, c \in kept, old.cmd = c
        PROVE  /\ old \in Following /\ old.got \o old.buf \in Seq(Answer) /\ log \in Seq(Answer)
               /\ entries'[c] = Append(log, answer)
    BY <1>1, <1>2, <2>1, <2>5 DEF PageTypes, Following
  <2>6. CASE old # None /\ c \in kept /\ old.cmd = c /\ ~old.on
    <3>1. stream'[s] = old
      BY <2>1, <2>6 DEF Told
    <3>2. ASSUME ~old.over PROVE IsPrefix(old.got \o old.buf, Append(log, answer))
      BY <1>1, <2>1, <2>5, <2>6, <3>2, PrefixOfLonger DEF TrueOf
    <3> QED BY <2>5, <2>6, <3>1, <3>2 DEF TrueOf
  <2>7. CASE old # None /\ c \in kept /\ old.cmd = c /\ old.on /\ Len(old.buf) < StreamCap
    <3> DEFINE new == [old EXCEPT !.buf = Append(@, answer)]
    <3>1. stream'[s] = new
      BY <2>1, <2>7 DEF Told
    <3>2. new.cmd = c /\ new.over = old.over /\ new.got = old.got /\ new.buf = Append(old.buf, answer)
      BY <2>5, <2>7 DEF Following
    <3>3. old.got \in Seq(Answer) /\ old.buf \in Seq(Answer)
      BY <2>5, <2>7 DEF Following
    <3>4. new.got \o new.buf = Append(old.got \o old.buf, answer)
      <4>1. \A g, b \in Seq(Answer) : g \o Append(b, answer) = Append(g \o b, answer)
        BY <1>1, AppendToSecond
      <4>2. old.got \o Append(old.buf, answer) = Append(old.got \o old.buf, answer)
        BY <3>3, <4>1
      <4> QED BY <3>2, <4>2
    <3>5. Append(log, answer) \in Seq(Answer)
      BY <1>1, <2>5, <2>7
    <3>6. IsPrefix(Append(log, answer), Append(log, answer))
      BY <3>5, PrefixOfSelf
    <3> HIDE DEF new
    <3> QED BY <2>1, <2>5, <2>7, <3>1, <3>2, <3>4, <3>6 DEF TrueOf
  <2>8. CASE old # None /\ c \in kept /\ old.cmd = c /\ old.on /\ ~(Len(old.buf) < StreamCap)
    <3>1. stream'[s] = [old EXCEPT !.over = TRUE] /\ old \in Following
      BY <2>1, <2>5, <2>8 DEF Told
    <3>2. stream'[s].over
      BY <3>1 DEF Following
    <3> QED BY <3>2 DEF TrueOf
  <2> QED BY <2>2, <2>3, <2>4, <2>6, <2>7, <2>8
<1> QED BY <1>4, <1>5 DEF StreamIsTrue, TrueOf

LEMMA LogInvStep == LogInv /\ [Next]_vars => LogInv'
<1> SUFFICES ASSUME LogInv, [Next]_vars PROVE LogInv'
  OBVIOUS
<1>1. AgentTypes' /\ WireTypes'
  BY AgentTypesStep, WireTypesStep DEF LogInv
<1>2. CASE UNCHANGED <<entries, stream>>
  BY <1>1, <1>2 DEF LogInv, PageTypes, StreamIsTrue
<1>3. ASSUME NEW k \in Conn, Answers(k) PROVE LogInv'
  BY <1>1, <1>3, AnswersKeep DEF LogInv
<1>4. ASSUME NEW s \in Stream, Show(s) \/ Leave(s) PROVE LogInv'
  BY <1>1, <1>4, ShowKeeps, LeaveKeeps DEF LogInv
<1>5. ASSUME NEW s \in Stream, NEW c \in Cmd, Follow(s, c) PROVE LogInv'
  BY <1>1, <1>5, FollowKeeps DEF LogInv
<1> QED
  BY <1>2, <1>3, <1>4, <1>5, PagesApart

(* A page that follows a command shows its log without gap or repetition:   *)
(* the log, the history it starts from and the channel are changed under    *)
(* one mutex (SubscribeCommandLog, appendCommandLog).                       *)
THEOREM StreamIsAlwaysTrue == Spec => []StreamIsTrue
<1>1. LogInv => StreamIsTrue
  BY DEF LogInv
<1> QED
  BY <1>1, LogInvInit, LogInvStep, PTL DEF Spec
-----------------------------------------------------------------------------
(* The log and the pages implement CommandLog: what one page does is seen   *)
(* of that page alone.                                                      *)
LEMMA SeenMoves ==
  ASSUME PageTypes, NEW s \in Stream, NEW new, stream' = [stream EXCEPT ![s] = new]
  PROVE  [r \in Stream |-> Seen(stream'[r])] = [[r \in Stream |-> Seen(stream[r])] EXCEPT ![s] = Seen(new)]
  BY DEF PageTypes

LEMMA FollowOpens ==
  ASSUME PageTypes, NEW s \in Stream, NEW c \in Cmd, Follow(s, c) PROVE Log!Open(s, c)
<1> DEFINE new == [cmd |-> c, on |-> ~Done(c), over |-> FALSE, got |-> entries[c], buf |-> <<>>]
<1>1. stream[s] = None /\ stream' = [stream EXCEPT ![s] = new] /\ UNCHANGED entries
  BY DEF Follow, StreamOnly
<1>2. entries[c] \in Seq(Answer) /\ new \in Following
  BY DEF PageTypes, Following, Done
<1>3. new # None
  BY <1>2, PageAssumption
<1>4. new.on <=> \A i \in 1 .. Len(entries[c]) : entries[c][i] # Result
  <2>1. Done(c) <=> \E i \in DOMAIN entries[c] : entries[c][i] = Result
    BY DEF Done, Range
  <2>2. DOMAIN entries[c] = 1 .. Len(entries[c])
    BY <1>2
  <2> QED BY <2>1, <2>2
<1>5. Seen(new) = [cmd |-> c, at |-> IF new.on THEN "on" ELSE "ended", shown |-> entries[c]]
  BY <1>3 DEF Seen
<1>6. Seen(stream[s]) = Log!Closed
  BY <1>1 DEF Seen, Log!Closed
<1>7. [r \in Stream |-> Seen(stream'[r])] = [[r \in Stream |-> Seen(stream[r])] EXCEPT ![s] = Seen(new)]
  BY <1>1, SeenMoves
<1> HIDE DEF new
<1>8. \E at \in {"on", "ended"} :
        /\ at = "on" <=> \A i \in 1 .. Len(entries[c]) : entries[c][i] # Result
        /\ Seen(new) = [cmd |-> c, at |-> at, shown |-> entries[c]]
  BY <1>4, <1>5
<1> QED BY <1>1, <1>6, <1>7, <1>8 DEF Log!Open

LEMMA ShowReads ==
  ASSUME PageTypes, StreamIsTrue, NEW s \in Stream, Show(s)
  PROVE  UNCHANGED entries /\ ((\E c \in Cmd : Log!Read(s, c)) \/ UNCHANGED [r \in Stream |-> Seen(stream[r])])
<1> DEFINE old == stream[s]
           new == [old EXCEPT !.got = Append(@, Head(old.buf)), !.buf = Tail(@), !.on = Head(old.buf) # Result]
           c == old.cmd
           n == Len(old.got) + 1
<1>1. old \in Following /\ old # None /\ old.buf # <<>> /\ old.on /\ UNCHANGED entries
  BY DEF Show, On, PageTypes, StreamOnly
<1>2. /\ old.got \in Seq(Answer) /\ old.buf \in Seq(Answer) /\ c \in Cmd /\ entries[c] \in Seq(Answer)
      /\ Head(old.buf) \in Answer /\ Tail(old.buf) \in Seq(Answer)
  BY <1>1 DEF Following, PageTypes
<1>3. Append(old.got, Head(old.buf)) \in Seq(Answer)
  BY <1>2
<1>4. /\ new \in Following /\ new.cmd = c /\ new.over = old.over
      /\ new.got = Append(old.got, Head(old.buf)) /\ new.on = (Head(old.buf) # Result)
  BY <1>1, <1>2, <1>3 DEF Following
<1>5. new # None
  BY <1>4, PageAssumption
<1>6. stream' = [stream EXCEPT ![s] = new]
  BY <1>1 DEF Show, StreamOnly, PageTypes
<1>7. [r \in Stream |-> Seen(stream'[r])] = [[r \in Stream |-> Seen(stream[r])] EXCEPT ![s] = Seen(new)]
  BY <1>6, SeenMoves
<1> HIDE DEF new
<1>8. CASE old.over
  <2>1. Seen(new) = Seen(old)
    BY <1>1, <1>4, <1>5, <1>8 DEF Seen
  <2> QED BY <1>1, <1>7, <2>1
<1>9. CASE ~old.over
  <2>1. old.got \o old.buf = entries[c]
    BY <1>1, <1>9 DEF StreamIsTrue
  <2>2. n \in 1 .. Len(entries[c]) /\ entries[c][n] = Head(old.buf)
    <3>1. /\ Len(old.got) + 1 \in 1 .. Len(old.got \o old.buf)
          /\ (old.got \o old.buf)[Len(old.got) + 1] = Head(old.buf)
      BY <1>1, <1>2, HeadComesNext
    <3> QED BY <2>1, <3>1
  <2>3. Seen(old) = [cmd |-> c, at |-> "on", shown |-> old.got]
    BY <1>1, <1>9 DEF Seen
  <2>4. Seen(new) = [cmd |-> c, at |-> IF entries[c][n] = Result THEN "ended" ELSE "on",
                     shown |-> Append(old.got, entries[c][n])]
    BY <1>4, <1>5, <1>9, <2>2 DEF Seen
  <2> DEFINE view == [r \in Stream |-> Seen(stream[r])]
             m == Len(view[s].shown) + 1
  <2>5. view[s].cmd = c /\ view[s].at = "on" /\ view[s].shown = old.got
    BY <2>3
  <2> HIDE DEF view, old, c
  <2>6. m = n /\ m <= Len(entries[c])
    BY <1>2, <2>2, <2>5
  <2>7. Seen(new) = [cmd |-> c, at |-> IF entries[c][m] = Result THEN "ended" ELSE "on",
                     shown |-> Append(view[s].shown, entries[c][m])]
    BY <2>4, <2>5, <2>6
  <2>8. view' = [view EXCEPT ![s] = [cmd |-> c, at |-> IF entries[c][m] = Result THEN "ended" ELSE "on",
                                     shown |-> Append(view[s].shown, entries[c][m])]]
    BY <1>7, <2>7 DEF view
  <2>9. Log!Read(s, c)
    BY <1>1, <2>5, <2>6, <2>8 DEF Log!Read, Log!Follows, view
  <2> QED BY <1>1, <1>2, <2>9
<1> QED BY <1>8, <1>9

LEMMA LeaveLeaves ==
  ASSUME PageTypes, NEW s \in Stream, Leave(s)
  PROVE  UNCHANGED entries /\ ((\E c \in Cmd : Log!Leave(s, c)) \/ UNCHANGED [r \in Stream |-> Seen(stream[r])])
<1> DEFINE old == stream[s]
           new == [old EXCEPT !.on = FALSE]
<1>1. old \in Following /\ old # None /\ old.on /\ UNCHANGED entries /\ stream' = [stream EXCEPT ![s] = new]
  BY DEF Leave, On, StreamOnly, PageTypes
<1>2. new \in Following /\ new.cmd = old.cmd /\ new.over = old.over /\ new.got = old.got /\ ~new.on /\ old.cmd \in Cmd
  BY <1>1 DEF Following
<1>3. new # None
  BY <1>2, PageAssumption
<1>4. [r \in Stream |-> Seen(stream'[r])] = [[r \in Stream |-> Seen(stream[r])] EXCEPT ![s] = Seen(new)]
  BY <1>1, SeenMoves
<1> HIDE DEF new
<1>5. CASE old.over
  <2>1. Seen(new) = Seen(old)
    BY <1>1, <1>2, <1>3, <1>5 DEF Seen
  <2> QED BY <1>1, <1>4, <2>1
<1>6. CASE ~old.over
  <2>1. /\ Seen(old) = [cmd |-> old.cmd, at |-> "on", shown |-> old.got]
        /\ Seen(new) = [cmd |-> old.cmd, at |-> "ended", shown |-> old.got]
    BY <1>1, <1>2, <1>3, <1>6 DEF Seen
  <2> DEFINE view == [r \in Stream |-> Seen(stream[r])]
  <2>2. view[s].cmd = old.cmd /\ view[s].at = "on" /\ view[s].shown = old.got
    BY <2>1
  <2> HIDE DEF view, old
  <2>3. view' = [view EXCEPT ![s] = [cmd |-> old.cmd, at |-> "ended", shown |-> view[s].shown]]
    <3>1. Seen(new) = [cmd |-> old.cmd, at |-> "ended", shown |-> view[s].shown]
      BY <2>1, <2>2
    <3> QED BY <1>4, <3>1 DEF view
  <2>4. Log!Leave(s, old.cmd)
    BY <1>1, <2>2, <2>3 DEF Log!Leave, Log!Follows, view
  <2> QED BY <1>1, <1>2, <2>4
<1> QED BY <1>5, <1>6

(* An answer is dropped only for pages whose channel is full: the log is    *)
(* what they have shown and what is in the channel, so they are that far    *)
(* behind.                                                                  *)
LEMMA AnswersAdd ==
  ASSUME WireTypes, PageTypes, StreamIsTrue, NEW k \in Conn, Answers(k)
  PROVE  (\E c \in Cmd, a \in Answer : Log!Add(c, a)) \/ UNCHANGED <<entries, stream>>
<1> DEFINE c == Head(up[k])[1]
           answer == Head(up[k])[2]
           before(s) == Seen(stream[s])
           lost == {s \in Stream : stream[s] # None /\ stream[s].cmd = c /\ stream[s].on /\ ~stream[s].over
                                   /\ Len(stream[s].buf) >= StreamCap}
<1>1. c \in Cmd /\ answer \in Answer
  <2>1. Head(up[k]) \in Message /\ Head(up[k]) # Sample
    BY DEF Answers, WireTypes
  <2> QED BY <2>1 DEF Message
<1>2. /\ entries' = IF c \in kept THEN [entries EXCEPT ![c] = Append(@, answer)] ELSE entries
      /\ stream' = [s \in Stream |-> Told(stream[s], c, answer)]
  BY DEF Answers
<1> HIDE DEF c, answer
<1>3. CASE c \notin kept
  <2>1. stream' = stream
    BY <1>2, <1>3 DEF Told, PageTypes
  <2> QED BY <1>2, <1>3, <2>1
<1>4. CASE c \in kept
  <2>1. ASSUME NEW s \in lost
        PROVE  Log!Follows(s, c) /\ Len(entries[c]) >= Len(Seen(stream[s]).shown) + StreamCap
    <3>1. stream[s] \in Following /\ stream[s].got \o stream[s].buf = entries[c]
      BY <2>1 DEF StreamIsTrue, PageTypes
    <3>2. stream[s].got \in Seq(Answer) /\ stream[s].buf \in Seq(Answer)
      BY <3>1 DEF Following
    <3>3. Seen(stream[s]) = [cmd |-> c, at |-> "on", shown |-> stream[s].got]
      BY <2>1, <3>1 DEF Seen
    <3>4. Len(entries[c]) = Len(stream[s].got) + Len(stream[s].buf)
      <4>1. \A g, b \in Seq(Answer) : Len(g \o b) = Len(g) + Len(b)
        BY HeadComesNext
      <4>2. Len(stream[s].got \o stream[s].buf) = Len(stream[s].got) + Len(stream[s].buf)
        BY <3>2, <4>1
      <4> QED BY <3>1, <4>2
    <3>5. Log!Follows(s, c)
      BY <2>1, <3>3 DEF Log!Follows
    <3>6. Len(stream[s].buf) >= StreamCap /\ Len(stream[s].buf) \in Nat /\ Len(stream[s].got) \in Nat /\ StreamCap \in Nat
      BY <2>1, <3>2, SizeAssumption
    <3>7. Len(entries[c]) >= Len(stream[s].got) + StreamCap
      BY <3>4, <3>6
    <3> QED BY <3>3, <3>5, <3>7
  <2>2. ASSUME NEW s \in Stream
        PROVE  Seen(stream'[s]) = IF s \in lost THEN Log!Lost(c) ELSE Seen(stream[s])
    <3> DEFINE old == stream[s]
               longer == [old EXCEPT !.buf = Append(@, answer)]
               cut == [old EXCEPT !.over = TRUE]
    <3>1. stream'[s] = Told(old, c, answer) /\ old \in Following \cup {None}
      BY <1>2 DEF PageTypes
    <3>2. CASE old = None \/ (old # None /\ (old.cmd # c \/ ~old.on))
      BY <1>4, <3>1, <3>2 DEF Told
    <3>3. CASE old # None /\ old.cmd = c /\ old.on /\ Len(old.buf) < StreamCap
      <4>1. stream'[s] = longer /\ s \notin lost
        BY <1>4, <3>1, <3>3, SizeAssumption DEF Told, Following
      <4>2. old \in Following /\ Append(old.buf, answer) \in Seq(Answer)
        BY <1>1, <3>1, <3>3 DEF Following
      <4>3. longer \in Following /\ longer.cmd = old.cmd /\ longer.on = old.on /\ longer.over = old.over /\ longer.got = old.got
        BY <4>2 DEF Following
      <4>4. longer # None
        BY <4>3, PageAssumption
      <4> HIDE DEF longer
      <4> QED BY <3>3, <4>1, <4>3, <4>4 DEF Seen
    <3>4. CASE old # None /\ old.cmd = c /\ old.on /\ ~(Len(old.buf) < StreamCap)
      <4>1. stream'[s] = cut /\ old \in Following
        BY <1>4, <3>1, <3>4 DEF Told
      <4>2. cut \in Following /\ cut.cmd = c /\ cut.over
        BY <3>4, <4>1 DEF Following
      <4>3. cut # None
        BY <4>2, PageAssumption
      <4> HIDE DEF cut
      <4>4. Seen(stream'[s]) = Log!Lost(c)
        BY <4>1, <4>2, <4>3 DEF Seen, Log!Lost
      <4>5. CASE old.over
        BY <3>4, <4>4, <4>5 DEF Seen, Log!Lost
      <4>6. CASE ~old.over
        <5>1. Len(old.buf) \in Nat /\ StreamCap \in Nat
          BY <4>1, SizeAssumption DEF Following
        <5>2. s \in lost
          BY <3>4, <4>6, <5>1
        <5> QED BY <4>4, <5>2
      <4> QED BY <4>5, <4>6
    <3> QED BY <3>1, <3>2, <3>3, <3>4
  <2> HIDE DEF lost
  <2>3. lost \subseteq Stream
    BY DEF lost
  <2>4. entries' = [entries EXCEPT ![c] = Append(@, answer)]
    BY <1>2, <1>4
  <2>5. [s \in Stream |-> Seen(stream'[s])] =
          [s \in Stream |-> IF s \in lost THEN Log!Lost(c) ELSE [r \in Stream |-> Seen(stream[r])][s]]
    BY <2>2
  <2>6. lost \in SUBSET {s \in Stream : Log!Follows(s, c)
                          /\ Len(entries[c]) >= Len([r \in Stream |-> Seen(stream[r])][s].shown) + StreamCap}
    BY <2>1, <2>3
  <2>7. Log!Add(c, answer)
    BY <2>4, <2>5, <2>6 DEF Log!Add
  <2> QED BY <1>1, <2>7
<1> QED BY <1>3, <1>4

LEMMA LogStep == LogInv /\ [Next]_vars => [Log!Next]_Log!vars
<1> SUFFICES ASSUME LogInv, [Next]_vars PROVE [Log!Next]_Log!vars
  OBVIOUS
<1> USE DEF LogInv
<1>1. CASE UNCHANGED <<entries, stream>>
  BY <1>1 DEF Log!vars
<1>2. ASSUME NEW k \in Conn, Answers(k) PROVE [Log!Next]_Log!vars
  BY <1>1, <1>2, AnswersAdd DEF Log!Next
<1>3. ASSUME NEW s \in Stream, Show(s) PROVE [Log!Next]_Log!vars
  BY <1>3, ShowReads DEF Log!Next, Log!vars
<1>4. ASSUME NEW s \in Stream, Leave(s) PROVE [Log!Next]_Log!vars
  BY <1>4, LeaveLeaves DEF Log!Next, Log!vars
<1>5. ASSUME NEW s \in Stream, NEW c \in Cmd, Follow(s, c) PROVE [Log!Next]_Log!vars
  BY <1>5, FollowOpens DEF Log!Next
<1> QED
  BY <1>1, <1>2, <1>3, <1>4, <1>5, PagesApart

(* The panel keeps the promise of a log that is followed, for any commands, *)
(* answers, pages and size of the channels: Add is Answers, Open is Follow, *)
(* Read is Show, and every other step leaves the log and the pages alone.   *)
THEOREM PagesShowTheLog == Spec => ShowsTheLog
<1>1. Init => Log!Init
  BY DEF Init, Log!Init, Seen, Log!Closed
<1> QED
  BY <1>1, LogInvInit, LogInvStep, LogStep, PTL DEF Spec, ShowsTheLog, Log!Spec
-----------------------------------------------------------------------------
(* The rest of the types: the panel, the agent, and the sample that a        *)
(* connection begins with.                                                   *)
Requests == [Cmd -> [at : {"new", "write", "sent", "failed"}, on : Conn \cup {None}]]

PanelTypes ==
  /\ node \in {"there", "deleted", "cleaned", "forgotten"}
  /\ served \subseteq Conn /\ checked \subseteq served /\ bound \subseteq Conn
  /\ request \in Requests /\ kept \subseteq Cmd /\ closed \subseteq Viewer
  /\ startup \in BOOLEAN /\ late \in BOOLEAN /\ events \in 0 .. MaxEvent

LinkTypes ==
  /\ made \in 0 .. MaxConn /\ conn \in Conn \cup {None}
  /\ connected \in BOOLEAN /\ (connected => conn = made)
  /\ reading \subseteq Conn /\ failing \subseteq Conn
  /\ Len(queue) <= QueueCap /\ alive \subseteq Worker
  /\ \A w \in Worker : job[w] # None => w \in alive

(* A sample is under way only to a handler that waits for one, and no other  *)
(* follows it.                                                               *)
Sampled(q, i) == i \in 1 .. Len(q) /\ q[i] = Sample

SampleInv ==
  /\ checked \cap bound = {}
  /\ \A k \in Conn :
       /\ k \in checked \cup bound => ~\E i \in Nat : Sampled(up[k], i)
       /\ \A i, j \in Nat : Sampled(up[k], i) /\ Sampled(up[k], j) => i = j

LEMMA EventCounts ==
  ASSUME events \in 0 .. MaxEvent PROVE Event => events' \in 0 .. MaxEvent
  BY BoundAssumption DEF Event

LEMMA FireType ==
  ASSUME PanelTypes, GoneInv, NEW c \in Cmd, Fire(c)
  PROVE  request' \in Requests /\ kept' \subseteq Cmd /\ events' \in 0 .. MaxEvent
<1>1. request' \in Requests
  <2>1. [at |-> "write", on |-> registered] \in [at : {"new", "write", "sent", "failed"}, on : Conn \cup {None}]
    BY DEF GoneInv
  <2> QED BY <2>1 DEF Fire, PanelTypes, Requests
<1>2. events' \in 0 .. MaxEvent
  BY EventCounts DEF Fire, PanelTypes
<1> QED BY <1>1, <1>2 DEF Fire, PanelTypes

LEMMA PanelTypesStep == PanelTypes /\ GoneInv /\ ViewInv /\ [Next]_vars => PanelTypes'
<1> SUFFICES ASSUME PanelTypes, GoneInv, ViewInv, [Next]_vars PROVE PanelTypes'
  OBVIOUS
<1> USE DEF PanelTypes, bindVars, logVars, viewVars
<1>0. Event => events' \in 0 .. MaxEvent
  BY EventCounts
<1>1. ASSUME UNCHANGED <<node, served, checked, bound, request, kept, closed, startup, late>>,
             UNCHANGED events \/ Event
      PROVE  PanelTypes'
  BY <1>0, <1>1
<1>2. CASE Connect
  <2>1. made + 1 \in Conn
    BY <1>2, SizeAssumption DEF Connect, GoneInv, Conn
  <2> QED BY <1>2, <2>1 DEF Connect
<1>3. CASE SendLive
  BY <1>1, <1>3 DEF SendLive, panelVars
<1>4. CASE Restart
  BY <1>1, <1>4 DEF Restart, panelVars
<1>5. ASSUME NEW k \in Conn, ReadError(k) \/ SetDown(k) \/ Receive(k) PROVE PanelTypes'
  BY <1>1, <1>5 DEF ReadError, SetDown, Receive, panelVars
<1>6. ASSUME NEW w \in Worker, Take(w) \/ Work(w) \/ Finish(w) PROVE PanelTypes'
  BY <1>1, <1>6 DEF Take, Work, Finish, panelVars
<1>7. ASSUME NEW t \in aside, TriggerCheck(t) PROVE PanelTypes'
  BY <1>1, <1>7 DEF TriggerCheck, panelVars
<1>8. ASSUME NEW k \in Conn, Drop(k) PROVE PanelTypes'
  BY <1>1, <1>8 DEF Drop, panelVars
<1>9. ASSUME NEW k \in Conn, Check(k) PROVE PanelTypes'
  <2>1. late' \in BOOLEAN
    BY <1>9 DEF Check
  <2>2. checked' \subseteq served
    BY <1>9 DEF Check
  <2> QED BY <1>9, <2>1, <2>2 DEF Check
<1>10. ASSUME NEW k \in Conn, Register(k) PROVE PanelTypes'
  BY <1>10 DEF Register
<1>11. ASSUME NEW k \in Conn, Unregister(k) PROVE PanelTypes'
  BY <1>11 DEF Unregister
<1>12. ASSUME NEW k \in Conn, Answers(k) PROVE PanelTypes'
  <2>1. UNCHANGED <<node, served, checked, bound, request, kept, closed, startup, late, events>>
    BY <1>12 DEF Answers
  <2> QED BY <1>1, <2>1
<1>13. ASSUME NEW c \in Cmd, CheckAgentUpdate(c) \/ PushConfig(c) \/ ResetProtocol(c) PROVE PanelTypes'
  <2>1. Fire(c) /\ FromPage
    BY <1>13 DEF CheckAgentUpdate, PushConfig, ResetProtocol
  <2> QED BY <2>1, FireType DEF FromPage
<1>14. ASSUME NEW c \in Cmd, Write(c) PROVE PanelTypes'
  <2>1. request' \in Requests
    BY <1>14 DEF Write, Requests
  <2> QED BY <1>14, <2>1 DEF Write
<1>15. ASSUME NEW c \in Cmd, Expire(c) PROVE PanelTypes'
  BY <1>0, <1>15 DEF Expire
<1>16. CASE StartupCheck
  <2>1. request' \in Requests /\ kept' \subseteq Cmd /\ events' \in 0 .. MaxEvent
    <3>1. CASE \E c \in Update : Fire(c)
      BY <3>1, FireType, UpdateAssumption
    <3>2. CASE UNCHANGED <<request, logVars, events>>
      BY <3>2
    <3> QED BY <1>16, <3>1, <3>2 DEF StartupCheck
  <2> QED BY <1>16, <2>1 DEF StartupCheck
<1>17. ASSUME NEW s \in Stream, Show(s) \/ Leave(s) \/ \E c \in Cmd : Follow(s, c) PROVE PanelTypes'
  BY <1>1, <1>17 DEF Show, Leave, Follow, StreamOnly
<1>18. ASSUME NEW v \in Viewer, Subscribe(v) \/ Unsubscribe(v) PROVE PanelTypes'
  BY <1>18 DEF Subscribe, Unsubscribe, ViewOnly
<1>19. CASE DeleteNode \/ Forget
  BY <1>0, <1>19 DEF DeleteNode, Forget
<1>20. CASE CleanupNodeState
  <2>1. late' \in BOOLEAN
    BY <1>20 DEF CleanupNodeState
  <2> QED BY <1>20, <2>1 DEF CleanupNodeState, ViewInv
<1>21. CASE UNCHANGED vars
  BY <1>1, <1>21 DEF vars, panelVars
<1> QED
  BY <1>2, <1>3, <1>4, <1>5, <1>6, <1>7, <1>8, <1>9, <1>10, <1>11, <1>12, <1>13, <1>14, <1>15, <1>16,
     <1>17, <1>18, <1>19, <1>20, <1>21 DEF Next, NextAgent, NextPanel

LEMMA LinkTypesStep == LinkTypes /\ AgentTypes /\ [Next]_vars => LinkTypes'
<1> SUFFICES ASSUME LinkTypes, AgentTypes, [Next]_vars PROVE LinkTypes'
  OBVIOUS
<1> USE DEF LinkTypes
<1> DEFINE apart == <<made, conn, connected, reading, failing, queue, alive, job>>
<1>1. CASE UNCHANGED apart
  BY <1>1
<1>2. CASE Connect
  <2>1. made' \in 0 .. MaxConn /\ made' \in Conn
    BY <1>2, SizeAssumption DEF Connect, Conn
  <2> QED BY <1>2, <2>1 DEF Connect
<1>3. CASE SendLive
  BY <1>3 DEF SendLive, linkVars, workVars
<1>4. CASE Restart
  <2>1. /\ conn' = None /\ connected' = FALSE /\ reading' = {} /\ failing' = {} /\ queue' = <<>> /\ alive' = {}
        /\ made' = made /\ \A w \in Worker : job'[w] = None
    BY <1>4 DEF Restart
  <2>2. Len(queue') <= QueueCap
    BY <2>1, SizeAssumption
  <2> QED BY <2>1, <2>2
<1>5. ASSUME NEW k \in Conn, ReadError(k) \/ SetDown(k) PROVE LinkTypes'
  <2>1. CASE ReadError(k)
    <3>1. UNCHANGED <<made, conn, connected, queue, alive, job>>
      BY <2>1 DEF ReadError, workVars
    <3> QED BY <2>1, <3>1 DEF ReadError
  <2>2. CASE SetDown(k)
    <3>1. UNCHANGED <<made, conn, reading, queue, alive, job>> /\ connected' = FALSE
      BY <2>2 DEF SetDown, workVars
    <3> QED BY <2>2, <3>1 DEF SetDown
  <2> QED BY <1>5, <2>1, <2>2
<1>6. ASSUME NEW k \in Conn, Receive(k) PROVE LinkTypes'
  <2>1. CASE Len(queue) < QueueCap /\ queue' = Append(queue, [cmd |-> Head(down[k]), via |-> k])
    <3>1. Len(queue') = Len(queue) + 1 /\ Len(queue) \in Nat
      <4>1. [cmd |-> Head(down[k]), via |-> k] \in Task
        BY <1>6 DEF Receive, AgentTypes, Task
      <4> QED BY <2>1, <4>1 DEF AgentTypes
    <3>2. Len(queue') <= QueueCap
      BY <2>1, <3>1, SizeAssumption
    <3> QED BY <1>6, <3>2 DEF Receive, linkVars
  <2>2. CASE UNCHANGED queue
    BY <1>6, <2>2 DEF Receive, linkVars
  <2> QED BY <1>6, <2>1, <2>2 DEF Receive
<1>7. ASSUME NEW w \in Worker, Take(w) PROVE LinkTypes'
  <2>1. Len(queue') <= QueueCap
    BY <1>7, SizeAssumption DEF Take, AgentTypes
  <2>2. \A v \in Worker : v # w => job'[v] = job[v]
    BY <1>7 DEF Take, AgentTypes
  <2> QED BY <1>7, <2>1, <2>2 DEF Take, linkVars
<1>8. ASSUME NEW w \in Worker, Work(w) \/ Finish(w) PROVE LinkTypes'
  <2>1. \A v \in Worker : job'[v] # None => job[v] # None
    BY <1>8 DEF Work, Finish, AgentTypes
  <2> QED BY <1>8, <2>1 DEF Work, Finish, linkVars
<1>9. ASSUME NEW t \in aside, TriggerCheck(t) PROVE LinkTypes'
  BY <1>1, <1>9 DEF TriggerCheck, linkVars
<1>10. ASSUME NEW k \in Conn, Drop(k) \/ Check(k) \/ Register(k) \/ Unregister(k) \/ Answers(k) PROVE LinkTypes'
  <2>1. UNCHANGED agentVars
    BY <1>10 DEF Drop, Check, Register, Unregister, Answers
  <2> QED BY <1>1, <2>1 DEF agentVars, linkVars, workVars
<1>11. ASSUME NEW c \in Cmd, CheckAgentUpdate(c) \/ PushConfig(c) \/ ResetProtocol(c) \/ Write(c) \/ Expire(c)
       PROVE  LinkTypes'
  <2>1. UNCHANGED agentVars
    BY <1>11 DEF CheckAgentUpdate, PushConfig, ResetProtocol, FromPage, Write, Expire
  <2> QED BY <1>1, <2>1 DEF agentVars, linkVars, workVars
<1>12. ASSUME NEW s \in Stream, Show(s) \/ Leave(s) \/ \E c \in Cmd : Follow(s, c) PROVE LinkTypes'
  <2>1. UNCHANGED agentVars
    BY <1>12 DEF Show, Leave, Follow, StreamOnly
  <2> QED BY <1>1, <2>1 DEF agentVars, linkVars, workVars
<1>13. ASSUME NEW v \in Viewer, Subscribe(v) \/ Unsubscribe(v) PROVE LinkTypes'
  <2>1. UNCHANGED agentVars
    BY <1>13 DEF Subscribe, Unsubscribe, ViewOnly
  <2> QED BY <1>1, <2>1 DEF agentVars, linkVars, workVars
<1>14. CASE StartupCheck \/ DeleteNode \/ CleanupNodeState \/ Forget \/ UNCHANGED vars
  <2>1. UNCHANGED agentVars
    BY <1>14 DEF StartupCheck, DeleteNode, CleanupNodeState, Forget, vars
  <2> QED BY <1>1, <2>1 DEF agentVars, linkVars, workVars
<1> QED
  BY <1>2, <1>3, <1>4, <1>5, <1>6, <1>7, <1>8, <1>9, <1>10, <1>11, <1>12, <1>13, <1>14
     DEF Next, NextAgent, NextPanel

(* Where a sample is when messages are added and taken.                      *)
LEMMA SampleAdded ==
  ASSUME NEW q \in Seq(Message), NEW m \in Message
  PROVE  \A i \in Nat : Sampled(Append(q, m), i) <=> Sampled(q, i) \/ (i = Len(q) + 1 /\ m = Sample)
  BY DEF Sampled

LEMMA SampleTaken ==
  ASSUME NEW q \in Seq(Message), q # <<>>
  PROVE  /\ \A i \in Nat : Sampled(Tail(q), i) => Sampled(q, i + 1)
         /\ Sampled(q, 1) <=> Head(q) = Sample
  BY DEF Sampled

LEMMA SampleNone == \A i \in Nat : ~Sampled(<<>>, i)
  BY DEF Sampled

LEMMA AnswerIsNoSample == \A c, answer : <<c, answer>> # Sample
  BY DEF Sample

(* A connection whose messages are none, some of those there were or one     *)
(* more that is no sample, if nothing else changes.                          *)
LEMMA SampleInvKept ==
  ASSUME SampleInv, UNCHANGED <<checked, bound>>,
         \A k \in Conn : \A i \in Nat : Sampled(up'[k], i) => Sampled(up[k], i)
  PROVE  SampleInv'
  BY DEF SampleInv

LEMMA SampleInvTaken ==
  ASSUME SampleInv, WireTypes, UNCHANGED <<checked, bound>>, NEW k \in Conn, up[k] # <<>>,
         up' = [up EXCEPT ![k] = Tail(@)]
  PROVE  SampleInv'
<1>1. \A n \in Conn : n # k => up'[n] = up[n]
  BY DEF WireTypes
<1>2. up'[k] = Tail(up[k]) /\ up[k] \in Seq(Message)
  BY DEF WireTypes
<1>3. \A i \in Nat : Sampled(up'[k], i) => Sampled(up[k], i + 1) /\ i + 1 \in Nat
  BY <1>2, SampleTaken
<1>4. \A i, j \in Nat : Sampled(up'[k], i) /\ Sampled(up'[k], j) => i = j
  <2> SUFFICES ASSUME NEW i \in Nat, NEW j \in Nat, Sampled(up'[k], i), Sampled(up'[k], j) PROVE i = j
    OBVIOUS
  <2>1. i + 1 = j + 1
    BY <1>3 DEF SampleInv
  <2> QED BY <2>1
<1>5. k \in checked \cup bound => ~\E i \in Nat : Sampled(up'[k], i)
  BY <1>3 DEF SampleInv
<1> QED BY <1>1, <1>4, <1>5 DEF SampleInv
LEMMA SampleInvStep == SampleInv /\ WireTypes /\ AgentTypes /\ LinkTypes /\ [Next]_vars => SampleInv'
<1> SUFFICES ASSUME SampleInv, WireTypes, AgentTypes, LinkTypes, [Next]_vars PROVE SampleInv'
  OBVIOUS
<1>0. ASSUME UNCHANGED <<up, checked, bound>> PROVE SampleInv'
  BY <1>0, SampleInvKept
<1>a. ASSUME NEW k, up' \in Emptied(up, k), NEW n \in Conn, NEW i \in Nat, Sampled(up'[n], i)
      PROVE  Sampled(up[n], i)
  BY <1>a, SampleNone DEF Emptied, WireTypes
<1>b. ASSUME NEW k, up' \in Emptied(up, k), UNCHANGED <<checked, bound>> PROVE SampleInv'
  BY <1>a, <1>b, SampleInvKept
<1>c. ASSUME NEW k, NEW c \in Cmd, NEW answer \in Answer, up' = [up EXCEPT ![k] = Append(@, <<c, answer>>)],
             UNCHANGED <<checked, bound>>
      PROVE  SampleInv'
  <2>1. <<c, answer>> \in Message /\ <<c, answer>> # Sample
    BY AnswerIsNoSample DEF Message
  <2>2. ASSUME NEW n \in Conn, NEW i \in Nat, Sampled(up'[n], i) PROVE Sampled(up[n], i)
    <3>1. up[n] \in Seq(Message)
      BY DEF WireTypes
    <3>2. CASE n = k
      <4>1. up'[n] = Append(up[n], <<c, answer>>)
        BY <1>c, <3>2 DEF WireTypes
      <4> QED BY <2>1, <2>2, <3>1, <4>1, SampleAdded
    <3>3. CASE n # k
      <4>1. up'[n] = up[n]
        BY <1>c, <3>3 DEF WireTypes
      <4> QED BY <2>2, <4>1
    <3> QED BY <3>2, <3>3
  <2> QED BY <1>c, <2>2, SampleInvKept
<1>d. ASSUME NEW c \in Cmd, NEW answer \in Answer, NEW via, Send(c, answer, via), UNCHANGED <<checked, bound>>
      PROVE  SampleInv'
  BY <1>0, <1>b, <1>c, <1>d DEF Send, Delivers, Closes, netVars
<1> USE DEF panelVars, bindVars
<1>1. CASE Connect
  BY <1>1, <1>b DEF Connect
<1>2. CASE SendLive
  <2>1. CASE UNCHANGED netVars
    BY <1>0, <1>2, <2>1 DEF SendLive, netVars
  <2>2. CASE ~UNCHANGED netVars
    <3>1. /\ conn \in open /\ conn \notin checked \cup bound /\ Sample \notin Range(up[conn])
          /\ up' = [up EXCEPT ![conn] = Append(@, Sample)] /\ UNCHANGED <<checked, bound>> /\ conn = made
      BY <1>2, <2>2 DEF SendLive, Delivers, LinkTypes
    <3>2. \A n \in Conn : n # conn => up'[n] = up[n]
      BY <3>1 DEF WireTypes
    <3>3. ASSUME conn \in Conn, NEW i \in Nat, Sampled(up'[conn], i) PROVE i = Len(up[conn]) + 1
      <4>1. up[conn] \in Seq(Message) /\ up'[conn] = Append(up[conn], Sample) /\ Sample \in Message
        BY <3>1, <3>3 DEF WireTypes, Message
      <4>2. ~Sampled(up[conn], i)
        BY <3>1, <4>1 DEF Sampled, Range
      <4> QED BY <3>3, <4>1, <4>2, SampleAdded
    <3> QED BY <3>1, <3>2, <3>3 DEF SampleInv
  <2> QED BY <2>1, <2>2
<1>3. CASE Restart
  BY <1>3, <1>b DEF Restart
<1>4. ASSUME NEW k \in Conn, ReadError(k) \/ SetDown(k) PROVE SampleInv'
  BY <1>0, <1>4 DEF ReadError, SetDown, netVars
<1>5. ASSUME NEW k \in Conn, Receive(k) PROVE SampleInv'
  <2>1. Head(down[k]) \in Cmd /\ Result \in Answer
    BY <1>5, AnswerFacts DEF Receive, AgentTypes
  <2>2. UNCHANGED <<checked, bound>>
    BY <1>5 DEF Receive
  <2>3. UNCHANGED up \/ up' = [up EXCEPT ![conn] = Append(@, <<Head(down[k]), Result>>)]
    BY <1>5 DEF Receive
  <2> QED BY <1>0, <1>c, <2>1, <2>2, <2>3
<1>6. ASSUME NEW w \in Worker, Take(w) PROVE SampleInv'
  BY <1>0, <1>6 DEF Take, netVars
<1>7. ASSUME NEW w \in Worker, Work(w) \/ Finish(w) PROVE SampleInv'
  <2>1. job[w] \in [cmd : Cmd, via : Conn, next : Answer] /\ Result \in Answer
    BY <1>7, AnswerFacts DEF Work, Finish, AgentTypes
  <2> QED BY <1>0, <1>7, <1>d, <2>1 DEF Work, Finish, netVars
<1>8. ASSUME NEW t \in aside, TriggerCheck(t) PROVE SampleInv'
  BY <1>8, <1>d, AnswerFacts DEF TriggerCheck, AgentTypes, Task
<1>9. ASSUME NEW k \in Conn, Drop(k) PROVE SampleInv'
  BY <1>9, <1>b DEF Drop, Closes
<1>10. ASSUME NEW k \in Conn, Check(k) PROVE SampleInv'
  <2>1. up[k] \in Seq(Message) /\ up[k] # <<>> /\ Sampled(up[k], 1)
    BY <1>10, SampleTaken DEF Check, WireTypes
  <2>2. CASE UNCHANGED checked
    <3>1. CASE up' = [up EXCEPT ![k] = <<>>]
      <4>1. \A n \in Conn : up'[n] \in {up[n], <<>>}
        BY <3>1 DEF WireTypes
      <4>2. UNCHANGED <<checked, bound>>
        BY <1>10, <2>2 DEF Check
      <4> QED BY <4>1, <4>2, SampleNone, SampleInvKept
    <3>2. CASE up' = [up EXCEPT ![k] = Tail(@)]
      BY <1>10, <2>1, <2>2, <3>2, SampleInvTaken DEF Check
    <3> QED BY <1>10, <3>1, <3>2 DEF Check
  <2>3. CASE ~UNCHANGED checked
    <3>1. checked' = checked \cup {k} /\ up' = [up EXCEPT ![k] = Tail(@)] /\ UNCHANGED bound
      BY <1>10, <2>3 DEF Check
    <3>2. k \notin checked \cup bound
      BY <2>1 DEF SampleInv
    <3>3. up'[k] = Tail(up[k]) /\ \A n \in Conn : n # k => up'[n] = up[n]
      BY <3>1 DEF WireTypes
    <3>4. ASSUME NEW i \in Nat, Sampled(up'[k], i) PROVE FALSE
      <4>1. Sampled(up[k], i + 1)
        BY <2>1, <3>3, <3>4, SampleTaken
      <4>2. i + 1 = 1
        BY <2>1, <4>1 DEF SampleInv
      <4>3. i = 0
        BY <4>2
      <4> QED BY <3>4, <4>3 DEF Sampled
    <3> QED BY <3>1, <3>2, <3>3, <3>4 DEF SampleInv
  <2> QED BY <2>2, <2>3
<1>11. ASSUME NEW k \in Conn, Register(k) PROVE SampleInv'
  <2>1. /\ k \in checked /\ checked' = checked \ {k} /\ bound' = bound \cup {k}
        /\ up' \in Emptied(up, registered)
    BY <1>11 DEF Register, Closes
  <2>2. \A n \in Conn : \A i \in Nat : Sampled(up'[n], i) => Sampled(up[n], i)
    BY <1>a, <2>1
  <2> QED BY <2>1, <2>2 DEF SampleInv
<1>12. ASSUME NEW k \in Conn, Unregister(k) PROVE SampleInv'
  BY <1>0, <1>12 DEF Unregister, netVars
<1>13. ASSUME NEW k \in Conn, Answers(k) PROVE SampleInv'
  <2>1. up[k] # <<>> /\ up' = [up EXCEPT ![k] = Tail(@)] /\ UNCHANGED <<checked, bound>>
    BY <1>13 DEF Answers
  <2> QED BY <2>1, SampleInvTaken
<1>14. ASSUME NEW c \in Cmd, CheckAgentUpdate(c) \/ PushConfig(c) \/ ResetProtocol(c) \/ Write(c) \/ Expire(c)
       PROVE  SampleInv'
  BY <1>0, <1>14 DEF CheckAgentUpdate, PushConfig, ResetProtocol, FromPage, Write, Expire, netVars
<1>15. ASSUME NEW s \in Stream, Show(s) \/ Leave(s) \/ \E c \in Cmd : Follow(s, c) PROVE SampleInv'
  BY <1>0, <1>15 DEF Show, Leave, Follow, StreamOnly, netVars
<1>16. ASSUME NEW v \in Viewer, Subscribe(v) \/ Unsubscribe(v) PROVE SampleInv'
  BY <1>0, <1>16 DEF Subscribe, Unsubscribe, ViewOnly, netVars
<1>17. CASE StartupCheck \/ DeleteNode \/ Forget \/ UNCHANGED vars
  BY <1>0, <1>17 DEF StartupCheck, DeleteNode, Forget, vars, netVars
<1>18. CASE CleanupNodeState
  BY <1>18, <1>b DEF CleanupNodeState, Closes
<1> QED
  BY <1>1, <1>2, <1>3, <1>4, <1>5, <1>6, <1>7, <1>8, <1>9, <1>10, <1>11, <1>12, <1>13, <1>14, <1>15, <1>16,
     <1>17, <1>18 DEF Next, NextAgent, NextPanel

LEMMA TypesInit == Init => PanelTypes /\ LinkTypes /\ SampleInv
<1> SUFFICES ASSUME Init PROVE PanelTypes /\ LinkTypes /\ SampleInv
  OBVIOUS
<1>1. PanelTypes
  <2>1. startup \in BOOLEAN
    BY DEF Init, Behind
  <2>2. request \in Requests
    BY DEF Init, Requests
  <2>3. 0 \in 0 .. MaxEvent
    BY BoundAssumption
  <2>4. /\ node = "there" /\ served = {} /\ checked = {} /\ bound = {} /\ kept = {} /\ closed = {}
        /\ late = FALSE /\ events = 0
    BY DEF Init
  <2> QED BY <2>1, <2>2, <2>3, <2>4 DEF PanelTypes
<1>2. LinkTypes
  <2>1. 0 \in 0 .. MaxConn /\ 0 <= QueueCap
    BY SizeAssumption
  <2>2. /\ made = 0 /\ conn = None /\ connected = FALSE /\ reading = {} /\ failing = {}
        /\ queue = <<>> /\ alive = {} /\ \A w \in Worker : job[w] = None
    BY DEF Init
  <2> QED BY <2>1, <2>2 DEF LinkTypes
<1>3. SampleInv
  BY SampleNone DEF Init, SampleInv
<1> QED BY <1>1, <1>2, <1>3

(* Every variable keeps its type: the handler that waits for the first       *)
(* sample of a connection is not one that has registered it, the connection  *)
(* the agent takes for its own is the last it made, and only a worker that   *)
(* runs has a command.                                                       *)
THEOREM TypeCorrect == Spec => []TypeOK
<1> DEFINE Inv == /\ PanelTypes /\ LinkTypes /\ SampleInv /\ GoneInv /\ ViewInv
                  /\ AgentTypes /\ WireTypes /\ PageTypes
<1>1. Init => Inv
  BY TypesInit, GoneInvInit, ViewInvInit, LogInvInit DEF LogInv
<1>2. LogInv /\ Inv /\ [Next]_vars => Inv'
  BY PanelTypesStep, LinkTypesStep, SampleInvStep, GoneInvStep, ViewInvStep, LogInvStep DEF LogInv
<1>3. Inv => TypeOK
  <2> SUFFICES ASSUME Inv PROVE TypeOK
    OBVIOUS
  <2>1. open \subseteq Conn
    BY SizeAssumption DEF GoneInv, Conn
  <2>2. registered \in Conn \cup {None} /\ subscribed \subseteq Viewer
    BY DEF GoneInv, ViewInv
  <2>3. viewer \in [Viewer -> {"new", "on", "left", "panicked"}]
    BY DEF ViewInv
  <2> QED
    BY <2>1, <2>2, <2>3
       DEF PanelTypes, Requests, LinkTypes, SampleInv, AgentTypes, WireTypes, Message, PageTypes, TypeOK
<1> HIDE DEF Inv
<1>4. LogInv /\ [Next]_vars => LogInv'
  BY LogInvStep
<1> QED BY <1>1, <1>2, <1>3, <1>4, LogInvInit, PTL DEF Spec
=============================================================================
