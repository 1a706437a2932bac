------------------------- MODULE NodeTunnel_proofs --------------------------
(***************************************************************************)
(* Proofs about NodeTunnel, for any number of handlers, protocols, tunnels *)
(* and failures: the token of the row is that of its tunnel, a request     *)
(* that meets no other and no failure leaves nothing at Cloudflare, and a  *)
(* cleanup that runs by itself repairs what was left before.               *)
(*                                                                         *)
(* The agent changes nothing of what these are about, so the proofs look   *)
(* at the row, the account and the handlers only.                          *)
(***************************************************************************)
EXTENDS NodeTunnel, TLAPS

(* The steps that a handler of each kind goes through.                      *)
StepsOf(kind) ==
  CASE kind = "enable" -> {"create", "token", "discard", "update", "again", "dns", "fire"}
    [] kind = "disable" -> {"update", "again", "fire"}
    [] kind \in {"edit", "report"} -> {"update"}
    [] kind \in {"delete", "remove"} -> {"halt", "unbind", "destroy", "update"}
    [] kind = "start" -> {"dns", "fire"}
    [] kind = "stop" -> {"fire"}

RecordsOK ==
  /\ row \in Row \cup {None}
  /\ remote \subseteq Tunnel /\ dns \subseteq Tunnel \X Proto /\ created \in Nat

CallsOK ==
  /\ call \in [Call -> {None} \cup Handler]
  /\ \A p \in Running :
       /\ call[p].step \in StepsOf(call[p].kind)
       /\ call[p].kind # "enable" \/ call[p].step = "create" => call[p].new = None
       /\ call[p].step \in {"token", "discard"} => call[p].new # None

(* An id in a row or in what a handler has read of one comes with its token  *)
(* and with a domain.                                                        *)
Whole(r) == r.id \in {None, r.token} /\ (r.id # None => r.domain # None)

TokenInv == (row # None => Whole(row)) /\ \A p \in Running : Whole(call[p].seen)

(* Enabling writes a domain: the one it found, or one for its own tunnel.    *)
DomainInv ==
  \A p \in Running :
    call[p].kind = "enable" /\ call[p].step = "update" =>
      call[p].new # None \/ call[p].seen.domain # None

PanelInv == RecordsOK /\ CallsOK /\ TokenInv /\ DomainInv

(* What the agent and the network do leaves the panel and the account alone. *)
Elsewhere == UNCHANGED <<row, call, remote, dns, created, mishaps>>

LEMMA AgentStep ==
  ASSUME \/ \E w \in Worker : Work(w) \/ StartFails(w)
         \/ Disconnect \/ Connect \/ Reboot \/ UNCHANGED vars
  PROVE  Elsewhere
  BY Zenon DEF Work, Take, WriteConfig, StartService, StopService, StartFails, Disconnect, Connect,
     Reboot, vars, panelVars, cloudVars, Elsewhere

LEMMA StepCases ==
  ASSUME [Next]_vars
  PROVE  \/ Elsewhere \/ Crash
         \/ \E p \in Call : Handle(p) \/ \E kind \in Kind : Begin(p, kind)
  BY Zenon, AgentStep DEF Next
-----------------------------------------------------------------------------
LEMMA PanelInit == Init => PanelInv
<1> SUFFICES ASSUME Init PROVE PanelInv
  OBVIOUS
<1>1. RecordsOK
  BY DEF Init, RecordsOK, Row, Links, NoTunnel
<1>2. CallsOK
  BY DEF Init, CallsOK, Running
<1>3. TokenInv /\ DomainInv
  BY DEF Init, TokenInv, DomainInv, Running, Whole, NoTunnel
<1> QED BY <1>1, <1>2, <1>3 DEF PanelInv

LEMMA ReadsWhole ==
  ASSUME RecordsOK, row # None, NEW kind \in Kind, NEW seen \in Reads(kind)
  PROVE  seen \in Row /\ (Whole(row) => Whole(seen))
<1> USE DEF RecordsOK, Row, Whole
<1>1. CASE kind = "edit"
  <2>1. Reads(kind) = {Edited(row, page) : page \in Page}
    BY <1>1 DEF Reads
  <2> PICK page \in Page : seen = Edited(row, page)
    BY <2>1
  <2> QED BY DEF Edited, Page
<1>2. CASE kind = "report"
  <2>1. Reads(kind) = {Reported(row, made) : made \in SUBSET Proto}
    BY <1>2 DEF Reads
  <2> PICK made \in SUBSET Proto : seen = Reported(row, made)
    BY <2>1
  <2>2. [q \in Proto |-> IF q \in made THEN "link" ELSE row.links[q]] \in Links
    BY DEF Links
  <2> QED BY <2>2 DEF Reported
<1>3. CASE kind \in {"enable", "disable"}
  <2>1. CASE kind = "enable"
    <3>1. seen = [NoTunnel(row.links, row.off) EXCEPT !.domain = row.domain]
      BY <2>1 DEF Reads
    <3> QED BY <3>1 DEF NoTunnel
  <2>2. CASE kind = "disable"
    <3>1. seen = NoTunnel(row.links, row.off)
      BY <2>2 DEF Reads
    <3> QED BY <3>1 DEF NoTunnel
  <2> QED BY <1>3, <2>1, <2>2
<1>4. CASE kind \in {"delete", "remove", "start", "stop"}
  <2>1. Reads(kind) = {row}
    BY <1>4 DEF Reads
  <2> QED BY <2>1
<1> QED BY <1>1, <1>2, <1>3, <1>4 DEF Kind

(* What a handler writes is a row with the token of its tunnel.             *)
LEMMA ColumnsWhole ==
  ASSUME PanelInv, NEW p \in Call, At(p, "update"), ~Is(p, {"remove"}),
         row # None \/ Is(p, {"edit"})
  PROVE  Columns(p) \in Row /\ Whole(Columns(p))
<1> USE DEF PanelInv, RecordsOK, CallsOK, TokenInv, Running, At, Is, Handler, Whole, Row
<1>1. call[p].kind \in {"enable", "disable", "delete", "edit", "report"}
  BY DEF Kind, StepsOf
<1>2. CASE call[p].kind = "enable"
  <2>1. call[p] # None /\ row \in Row /\ row # None /\ DomainFor(p) \in Tunnel \cup {None}
    BY <1>2 DEF DomainFor
  <2>2. CASE call[p].new = None
    <3>1. Columns(p) = [row EXCEPT !.on = TRUE, !.domain = DomainFor(p)]
      BY <1>2, <2>1, <2>2 DEF Columns
    <3>2. row.id # None => DomainFor(p) # None
      BY <1>2, <2>2 DEF DomainFor, DomainInv
    <3> QED BY <2>1, <3>1, <3>2
  <2>3. CASE call[p].new # None
    <3>1. Columns(p) = [row EXCEPT !.on = TRUE, !.domain = DomainFor(p), !.id = call[p].new,
                                   !.token = call[p].new]
      BY <1>2, <2>1, <2>3 DEF Columns
    <3>2. DomainFor(p) # None
      BY <2>3 DEF DomainFor
    <3> QED BY <2>1, <3>1, <3>2
  <2> QED BY <2>2, <2>3
<1>5. CASE call[p].kind \in {"disable", "delete"}
  BY <1>5 DEF Columns
<1>3. CASE call[p].kind = "edit"
  BY <1>3 DEF Columns
<1>4. CASE call[p].kind = "report"
  BY <1>4 DEF Columns, StoreLinks
<1> QED BY <1>1, <1>2, <1>3, <1>4, <1>5

(* A handler that begins, with what it has read.                            *)
Started(p, kind, seen) ==
  [kind |-> kind, step |-> FirstStep(kind), seen |-> seen, new |-> None, alone |-> Running = {}]

LEMMA BeginStarts ==
  ASSUME RecordsOK, CallsOK, NEW p \in Call, NEW kind \in Kind, Begin(p, kind)
  PROVE  /\ row # None /\ call[p] = None /\ p \in Running'
         /\ \E seen \in Reads(kind) :
              /\ call'[p] = Started(p, kind, seen) /\ call'[p] \in Handler
              /\ call'[p].step \in StepsOf(kind) \ {"token", "discard"}
         /\ \A q \in Call \ {p} :
              /\ q \in Running' <=> q \in Running
              /\ q \in Running => call'[q] = [call[q] EXCEPT !.alone = FALSE]
              /\ q \notin Running => call'[q] = None
         /\ call' \in [Call -> {None} \cup Handler]
<1> USE NoneAssumption DEF Running
<1>0. row # None /\ call[p] = None
  BY DEF Begin
<1>1. PICK seen \in Reads(kind) :
        call' = [q \in Call |->
                   IF q = p THEN Started(p, kind, seen)
                   ELSE IF call[q] = None THEN None ELSE [call[q] EXCEPT !.alone = FALSE]]
  BY Zenon DEF Begin, Started
<1>2. FirstStep(kind) \in Step /\ FirstStep(kind) \in StepsOf(kind) \ {"token", "discard"}
  BY DEF FirstStep, Step, StepsOf, Kind
<1>3. Started(p, kind, seen) \in Handler
  BY <1>0, <1>2, ReadsWhole DEF Started, Handler
<1>4. \A q \in Call : call[q] # None => [call[q] EXCEPT !.alone = FALSE] \in Handler
  BY DEF CallsOK, Handler
<1>5. call' \in [Call -> {None} \cup Handler]
  BY <1>1, <1>3, <1>4
<1>6. call'[p] = Started(p, kind, seen) /\ call'[p].step \in StepsOf(kind) \ {"token", "discard"}
  BY <1>1, <1>2 DEF Started
<1> QED BY <1>0, <1>1, <1>3, <1>4, <1>5, <1>6

LEMMA RecordsStep == PanelInv /\ [Next]_vars => RecordsOK'
<1> SUFFICES ASSUME PanelInv, [Next]_vars PROVE RecordsOK'
  OBVIOUS
<1> USE NoneAssumption, BoundAssumption
    DEF PanelInv, RecordsOK, CallsOK, Running, cloudVars
<1>1. CASE Elsewhere
  BY <1>1 DEF Elsewhere
<1>2. CASE Crash
  BY <1>2 DEF Crash
<1>3. ASSUME NEW p \in Call, Handle(p) PROVE RecordsOK'
  <2>1. CASE Create(p)
    BY <2>1 DEF Create, At, Tunnel
  <2>2. CASE CreateFails(p)
    BY <2>2 DEF CreateFails, At, Fault, Ends
  <2>3. CASE FetchToken(p)
    BY <2>3 DEF FetchToken, At, Goto, Fault
  <2>4. CASE Discard(p)
    BY <2>4 DEF Discard, At, Ends, ApiFails, Fault
  <2>5. CASE Update(p)
    BY <2>5, ColumnsWhole DEF Update
  <2>6. CASE UpdateNothing(p)
    BY <2>6 DEF UpdateNothing, At, Ends
  <2>7. CASE UpdateFails(p)
    BY <2>7 DEF UpdateFails, At, Ends, DbFails, Fault
  <2>8. CASE ReadAgain(p)
    BY <2>8 DEF ReadAgain, At, Ends, Is
  <2>9. CASE EnsureDNS(p)
    BY <2>9 DEF EnsureDNS, At, Goto, Ends, Fault, Addressed, Routes, Row, Handler
  <2>10. CASE NoPayload(p)
    BY <2>10 DEF NoPayload, At, Ends
  <2>11. CASE Fire(p)
    BY <2>11 DEF Fire, At, Ends
  <2>12. CASE Halt(p)
    BY <2>12 DEF Halt, At, Goto
  <2>13. CASE Unbind(p)
    BY <2>13 DEF Unbind, At, Goto, Ends, HostsOf
  <2>14. CASE Destroy(p)
    BY <2>14 DEF Destroy, At, Goto
  <2>15. CASE RemoveRow(p)
    BY <2>15 DEF RemoveRow, At, Ends
  <2> QED
    BY <1>3, <2>1, <2>2, <2>3, <2>4, <2>5, <2>6, <2>7, <2>8, <2>9,
       <2>10, <2>11, <2>12, <2>13, <2>14, <2>15 DEF Handle
<1>4. ASSUME NEW p \in Call, NEW kind \in Kind, Begin(p, kind) PROVE RecordsOK'
  BY <1>4 DEF Begin
<1> QED BY <1>1, <1>2, <1>3, <1>4, StepCases

LEMMA CallsStep == PanelInv /\ [Next]_vars => CallsOK'
<1> SUFFICES ASSUME PanelInv, [Next]_vars PROVE CallsOK'
  OBVIOUS
<1> USE NoneAssumption, BoundAssumption
    DEF PanelInv, RecordsOK, CallsOK, Running, Handler, Kind, Step, StepsOf
<1>1. CASE Elsewhere
  BY <1>1 DEF Elsewhere
<1>2. CASE Crash
  BY <1>2 DEF Crash
<1>3. ASSUME NEW p \in Call, Handle(p) PROVE CallsOK'
  <2>1. CASE Create(p)
    BY <2>1 DEF Create, At, Tunnel
  <2>2. CASE CreateFails(p)
    BY <2>2 DEF CreateFails, At, Fault, Ends
  <2>3. CASE FetchToken(p)
    BY <2>3 DEF FetchToken, At, Goto, Fault
  <2>4. CASE Discard(p)
    BY <2>4 DEF Discard, At, Ends, ApiFails, Fault
  <2>5. CASE Update(p)
    BY <2>5 DEF Update, At, Goto, Ends, Is
  <2>6. CASE UpdateNothing(p)
    BY <2>6 DEF UpdateNothing, At, Ends
  <2>7. CASE UpdateFails(p)
    BY <2>7 DEF UpdateFails, At, Ends, DbFails, Fault
  <2>8. CASE ReadAgain(p)
    BY <2>8 DEF ReadAgain, At, Ends, Is
  <2>9. CASE EnsureDNS(p)
    BY <2>9 DEF EnsureDNS, At, Goto, Ends, Fault, Addressed, Routes
  <2>10. CASE NoPayload(p)
    BY <2>10 DEF NoPayload, At, Ends
  <2>11. CASE Fire(p)
    BY <2>11 DEF Fire, At, Ends
  <2>12. CASE Halt(p)
    BY <2>12 DEF Halt, At, Goto
  <2>13. CASE Unbind(p)
    BY <2>13 DEF Unbind, At, Goto, Ends
  <2>14. CASE Destroy(p)
    BY <2>14 DEF Destroy, At, Goto
  <2>15. CASE RemoveRow(p)
    BY <2>15 DEF RemoveRow, At, Ends
  <2> QED
    BY <1>3, <2>1, <2>2, <2>3, <2>4, <2>5, <2>6, <2>7, <2>8, <2>9,
       <2>10, <2>11, <2>12, <2>13, <2>14, <2>15 DEF Handle
<1>4. ASSUME NEW p \in Call, NEW kind \in Kind, Begin(p, kind) PROVE CallsOK'
  <2>1. \A q \in Running' \ {p} : q \in Running /\ call'[q] = [call[q] EXCEPT !.alone = FALSE]
    BY <1>4, BeginStarts
  <2>2. PICK seen \in Reads(kind) :
          /\ call'[p] = Started(p, kind, seen)
          /\ call'[p].step \in StepsOf(kind) \ {"token", "discard"}
    BY <1>4, BeginStarts
  <2>3. /\ call'[p].step \in StepsOf(call'[p].kind) \ {"token", "discard"}
        /\ call'[p].new = None
    BY <2>2 DEF Started
  <2>4. call' \in [Call -> {None} \cup Handler]
    BY <1>4, BeginStarts
  <2> QED BY <2>1, <2>3, <2>4
<1> QED BY <1>1, <1>2, <1>3, <1>4, StepCases

LEMMA TokenStep == PanelInv /\ [Next]_vars => TokenInv'
<1> SUFFICES ASSUME PanelInv, [Next]_vars PROVE TokenInv'
  OBVIOUS
<1> USE NoneAssumption, BoundAssumption
    DEF PanelInv, RecordsOK, CallsOK, TokenInv, Running, Handler, Whole
<1>1. CASE Elsewhere
  BY <1>1 DEF Elsewhere
<1>2. CASE Crash
  BY <1>2 DEF Crash
<1>3. ASSUME NEW p \in Call, Handle(p) PROVE TokenInv'
  <2>1. CASE Create(p)
    BY <2>1 DEF Create, At
  <2>2. CASE CreateFails(p)
    BY <2>2 DEF CreateFails, At, Fault, Ends
  <2>3. CASE FetchToken(p)
    BY <2>3 DEF FetchToken, At, Goto, Fault
  <2>4. CASE Discard(p)
    BY <2>4 DEF Discard, At, Ends, ApiFails, Fault
  <2>5. CASE Update(p)
    BY <2>5, ColumnsWhole DEF Update, At, Goto, Ends, Is
  <2>6. CASE UpdateNothing(p)
    BY <2>6 DEF UpdateNothing, At, Ends
  <2>7. CASE UpdateFails(p)
    BY <2>7 DEF UpdateFails, At, Ends, DbFails, Fault
  <2>8. CASE ReadAgain(p)
    BY <2>8 DEF ReadAgain, At, Ends, Is
  <2>9. CASE EnsureDNS(p)
    BY <2>9 DEF EnsureDNS, At, Goto, Ends, Fault, Addressed, Routes
  <2>10. CASE NoPayload(p)
    BY <2>10 DEF NoPayload, At, Ends
  <2>11. CASE Fire(p)
    BY <2>11 DEF Fire, At, Ends
  <2>12. CASE Halt(p)
    BY <2>12 DEF Halt, At, Goto
  <2>13. CASE Unbind(p)
    BY <2>13 DEF Unbind, At, Goto, Ends
  <2>14. CASE Destroy(p)
    BY <2>14 DEF Destroy, At, Goto
  <2>15. CASE RemoveRow(p)
    BY <2>15 DEF RemoveRow, At, Ends
  <2> QED
    BY <1>3, <2>1, <2>2, <2>3, <2>4, <2>5, <2>6, <2>7, <2>8, <2>9,
       <2>10, <2>11, <2>12, <2>13, <2>14, <2>15 DEF Handle
<1>4. ASSUME NEW p \in Call, NEW kind \in Kind, Begin(p, kind) PROVE TokenInv'
  BY <1>4, BeginStarts, ReadsWhole DEF Started, Begin
<1> QED BY <1>1, <1>2, <1>3, <1>4, StepCases

LEMMA DomainStep == PanelInv /\ [Next]_vars => DomainInv'
<1> SUFFICES ASSUME PanelInv, [Next]_vars PROVE DomainInv'
  OBVIOUS
<1> USE NoneAssumption, BoundAssumption
    DEF PanelInv, CallsOK, DomainInv, Running, Handler
<1>1. CASE Elsewhere
  BY <1>1 DEF Elsewhere
<1>2. CASE Crash
  BY <1>2 DEF Crash
<1>3. ASSUME NEW p \in Call, Handle(p) PROVE DomainInv'
  <2>1. CASE Create(p)
    BY <2>1 DEF Create, At
  <2>2. CASE CreateFails(p)
    BY <2>2 DEF CreateFails, At, Fault, Ends
  <2>3. CASE FetchToken(p)
    BY <2>3 DEF FetchToken, At, Goto, Fault
  <2>4. CASE Discard(p)
    BY <2>4 DEF Discard, At, Ends, ApiFails, Fault
  <2>5. CASE Update(p)
    BY <2>5 DEF Update, At, Goto, Ends, Is
  <2>6. CASE UpdateNothing(p)
    BY <2>6 DEF UpdateNothing, At, Ends
  <2>7. CASE UpdateFails(p)
    BY <2>7 DEF UpdateFails, At, Ends, DbFails, Fault
  <2>8. CASE ReadAgain(p)
    BY <2>8 DEF ReadAgain, At, Ends, Is
  <2>9. CASE EnsureDNS(p)
    BY <2>9 DEF EnsureDNS, At, Goto, Ends, Fault, Addressed, Routes
  <2>10. CASE NoPayload(p)
    BY <2>10 DEF NoPayload, At, Ends
  <2>11. CASE Fire(p)
    BY <2>11 DEF Fire, At, Ends
  <2>12. CASE Halt(p)
    BY <2>12 DEF Halt, At, Goto
  <2>13. CASE Unbind(p)
    BY <2>13 DEF Unbind, At, Goto, Ends
  <2>14. CASE Destroy(p)
    BY <2>14 DEF Destroy, At, Goto, Kind, StepsOf
  <2>15. CASE RemoveRow(p)
    BY <2>15 DEF RemoveRow, At, Ends
  <2> QED
    BY <1>3, <2>1, <2>2, <2>3, <2>4, <2>5, <2>6, <2>7, <2>8, <2>9,
       <2>10, <2>11, <2>12, <2>13, <2>14, <2>15 DEF Handle
<1>4. ASSUME NEW p \in Call, NEW kind \in Kind, Begin(p, kind) PROVE DomainInv'
  <2>1. /\ row # None /\ p \in Running'
        /\ \A q \in Running' \ {p} : q \in Running /\ call'[q] = [call[q] EXCEPT !.alone = FALSE]
    BY <1>4, BeginStarts
  <2>2. PICK seen \in Reads(kind) : call'[p] = Started(p, kind, seen)
    BY <1>4, BeginStarts
  <2>3. ASSUME kind = "enable", FirstStep(kind) = "update" PROVE seen.domain # None
    <3>1. HasTunnel(row)
      BY <2>3 DEF FirstStep
    <3>2. row.domain # None
      BY <2>1, <3>1 DEF TokenInv, Whole, HasTunnel
    <3>3. seen.domain = row.domain
      BY <2>3 DEF Reads, NoTunnel
    <3> QED BY <3>2, <3>3
  <2>4. call'[p].kind = kind /\ call'[p].step = FirstStep(kind) /\ call'[p].seen = seen
    BY <2>2 DEF Started
  <2>5. ASSUME NEW q \in Running' \ {p}
        PROVE  /\ q \in Running
               /\ call'[q].kind = call[q].kind /\ call'[q].step = call[q].step
               /\ call'[q].new = call[q].new /\ call'[q].seen = call[q].seen
    <3>1. q \in Running /\ call[q] \in Handler /\ call'[q] = [call[q] EXCEPT !.alone = FALSE]
      BY <2>1, <2>5
    <3> HIDE DEF PanelInv, CallsOK, DomainInv, Running
    <3> QED BY <3>1
  <2>6. ASSUME NEW q \in Running', call'[q].kind = "enable", call'[q].step = "update"
        PROVE  call'[q].new # None \/ call'[q].seen.domain # None
    <3>1. CASE q = p
      BY <2>3, <2>4, <2>6, <3>1
    <3>2. CASE q # p
      BY <2>1, <2>5, <2>6, <3>2
    <3> QED BY <3>1, <3>2
  <2> QED BY <2>6
<1> QED BY <1>1, <1>2, <1>3, <1>4, StepCases

-----------------------------------------------------------------------------
LEMMA PanelStep == PanelInv /\ [Next]_vars => PanelInv'
  BY RecordsStep, CallsStep, TokenStep, DomainStep DEF PanelInv

LEMMA PanelAlways == Spec => []PanelInv
<1>1. PanelInv /\ [Next]_vars => PanelInv'
  BY PanelStep
<1> QED BY PanelInit, <1>1, PTL DEF Spec

(* The token in the row is that of the tunnel in the row, however handlers  *)
(* of the panel meet, fail, are cut short or save an older row.             *)
THEOREM TokenAlwaysMatches == Spec => []TokenMatches
<1>1. PanelInv => TokenMatches
  BY DEF PanelInv, TokenInv, Whole, TokenMatches
<1> QED BY PanelAlways, <1>1, PTL
-----------------------------------------------------------------------------
(* What is at Cloudflare is what the row says.                              *)
Tidy ==
  IF row = None THEN remote \cup dns = {}
  ELSE remote = {row.id} \ {None} /\ dns \subseteq HostsOf(row)

(* A row has a domain exactly if it has a tunnel.                           *)
Paired == row # None => (row.domain = None <=> row.id = None)

(* What a handler that has met no other and no failure finds at each step.  *)
Situation(p) ==
  LET c == call[p]
      cleanup == c.kind \in {"delete", "remove"} IN
  /\ row # None
  /\ c.kind = "enable" /\ c.step \in {"create", "token", "discard", "update"} =>
       c.seen.domain = row.domain
  /\ c.step = "create" => Tidy /\ row.id = None
  /\ c.new # None /\ c.step \in {"token", "discard", "update"} =>
       row.id = None /\ remote = {c.new} /\ dns = {}
  /\ c.kind = "enable" /\ c.step = "update" /\ c.new = None => row.id # None
  /\ c.new = None /\ c.step = "update" /\ ~cleanup => Tidy
  /\ c.step \in {"again", "dns", "fire", "halt", "unbind"} => Tidy
  /\ c.step \in {"dns", "halt", "unbind", "destroy"} => c.seen = row
  /\ c.step = "destroy" => remote = {row.id} \ {None} /\ dns = {}
  /\ c.step = "update" /\ cleanup => remote \cup dns = {}
  /\ c.kind = "edit" => c.seen.id = row.id /\ c.seen.domain = row.domain

LeakInv ==
  mishaps = {} =>
    /\ \A p, q \in Running : p = q
    /\ \A p \in Running : Situation(p)
    /\ Running = {} => Tidy
    /\ Paired

LEMMA LeakInit == Init => LeakInv
  BY DEF Init, LeakInv, Running, Tidy, Paired, NoTunnel

(* The kind of a handler, by the step it is at.                             *)
LEMMA StepKinds ==
  ASSUME CallsOK, NEW p \in Running
  PROVE  /\ call[p].step \in {"create", "token", "discard"} => call[p].kind = "enable"
         /\ call[p].step \in {"halt", "unbind", "destroy"} => call[p].kind \in {"delete", "remove"}
         /\ call[p].step = "again" => call[p].kind \in {"enable", "disable"}
         /\ call[p].step = "dns" => call[p].kind \in {"enable", "start"}
         /\ call[p].step \in {"again", "dns", "fire"} => call[p].kind # "edit"
<1>1. call[p].kind \in Kind /\ call[p].step \in StepsOf(call[p].kind)
  BY DEF CallsOK, Running, Handler
<1> QED BY <1>1 DEF Kind, StepsOf

(* What a step does to the handler that takes it.                           *)
LEMMA EndsEffect ==
  ASSUME CallsOK, NEW p \in Call, Ends(p)
  PROVE  p \notin Running'
  BY DEF CallsOK, Ends, Running

LEMMA GotoEffect ==
  ASSUME CallsOK, NEW p \in Running, NEW s \in Step, Goto(p, s)
  PROVE  /\ p \in Running' /\ call'[p].step = s
         /\ call'[p].kind = call[p].kind /\ call'[p].new = call[p].new
         /\ call'[p].seen = call[p].seen /\ call'[p].alone = call[p].alone
<1>1. call[p] \in Handler
  BY DEF CallsOK, Running
<1>2. call'[p] = [call[p] EXCEPT !.step = s]
  BY DEF Goto, Running, CallsOK
<1>3. call'[p] # None
  BY <1>1, <1>2, NoneAssumption DEF Handler
<1> QED BY <1>1, <1>2, <1>3 DEF Handler, Running

LEMMA TidyStays ==
  ASSUME UNCHANGED <<row, remote, dns>>
  PROVE  Tidy' <=> Tidy
  BY DEF Tidy, HostsOf

(* The step of a handler, when it is the only one.                          *)
LEMMA LeakHandle ==
  ASSUME PanelInv, NEW p \in Running, Handle(p), mishaps' = {}, mishaps = {}, Situation(p),
         Paired
  PROVE  (p \in Running' => Situation(p)') /\ (p \notin Running' => Tidy')
<1>0. /\ CallsOK /\ p \in Call /\ call[p] \in Handler /\ call[p].step \in StepsOf(call[p].kind)
      /\ call[p].kind \in Kind
      /\ call[p].kind # "enable" => call[p].new = None
      /\ call[p].step = "create" => call[p].new = None
      /\ row \in Row \cup {None} /\ dns \subseteq Tunnel \X Proto /\ created \in Nat
  BY DEF PanelInv, CallsOK, RecordsOK, Running, Handler
<1>k. /\ call[p].step \in {"create", "token", "discard"} => call[p].kind = "enable"
      /\ call[p].step \in {"halt", "unbind", "destroy"} => call[p].kind \in {"delete", "remove"}
      /\ call[p].step \in {"again", "dns", "fire"} => call[p].kind # "edit"
  BY <1>0, StepKinds
<1>r. row \in Row /\ row # None /\ call[p] # None
  BY <1>0, NoneAssumption DEF Situation
<1>1. CASE UNCHANGED <<row, remote, dns>> /\ Ends(p) /\ Tidy
  BY <1>0, <1>1, EndsEffect, TidyStays
<1>2. ASSUME NEW s \in Step, UNCHANGED <<row, remote, dns>>, Goto(p, s), Tidy,
             s \in {"again", "fire", "unbind"}, s = "unbind" => call[p].seen = row,
             call[p].kind # "edit"
      PROVE  p \in Running' /\ Situation(p)'
  <2>1. /\ p \in Running' /\ call'[p].step = s /\ call'[p].kind = call[p].kind
        /\ call'[p].new = call[p].new /\ call'[p].seen = call[p].seen
    BY <1>0, <1>2, GotoEffect
  <2>2. Tidy' /\ row' = row /\ row # None
    BY <1>2, TidyStays DEF Situation
  <2>3. s = "unbind" => call'[p].seen = row'
    BY <1>2, <2>1, <2>2
  <2> QED BY <1>2, <2>1, <2>2, <2>3 DEF Situation
<1>3. CASE Create(p)
  <2>1. created' \in Tunnel /\ remote' = remote \cup {created'} /\ dns' = dns /\ row' = row
    BY <1>0, <1>3, BoundAssumption DEF Create, Tunnel
  <2>2. Tidy /\ row # None /\ row.id = None /\ call[p].kind = "enable"
    BY <1>k, <1>3 DEF Create, At, Situation
  <2>3. remote = {} /\ dns = {}
    BY <2>2, <1>0, NoneAssumption DEF Tidy, HostsOf, Paired
  <2>4. call'[p] = [call[p] EXCEPT !.step = "token", !.new = created']
    BY <1>0, <1>3 DEF Create, CallsOK
  <2>5. /\ call'[p].new = created' /\ call'[p].step = "token" /\ call'[p].kind = "enable"
        /\ call'[p].seen = call[p].seen
    BY <1>0, <2>2, <2>4 DEF Handler
  <2>7. call[p].seen.domain = row.domain
    BY <1>3, <2>2 DEF Create, At, Situation
  <2>6. call'[p] \in Handler
    BY <1>0, <2>1, <2>4 DEF Handler, Step
  <2> QED BY <2>1, <2>2, <2>3, <2>5, <2>6, <2>7, NoneAssumption, <1>0 DEF Situation, Running
<1>4. CASE CreateFails(p)
  BY <1>0, <1>1, <1>4 DEF CreateFails, At, Situation, cloudVars
<1>5. CASE FetchToken(p)
  <2>1. call[p].new # None /\ call[p].kind = "enable"
    BY <1>k, <1>5 DEF FetchToken, At, PanelInv, CallsOK
  <2>2. /\ row.id = None /\ remote = {call[p].new} /\ dns = {} /\ row # None
        /\ call[p].seen.domain = row.domain
    BY <1>5, <2>1 DEF FetchToken, At, Situation
  <2>3. UNCHANGED <<row, remote, dns>> /\ (Goto(p, "update") \/ Goto(p, "discard"))
    BY <1>5 DEF FetchToken, cloudVars
  <2> QED BY <2>1, <2>2, <2>3, <1>0, GotoEffect DEF Situation, Step
<1>6. CASE Discard(p)
  <2>1. call[p].new # None
    BY <1>0, <1>6 DEF Discard, At, PanelInv, CallsOK
  <2>2. row.id = None /\ remote = {call[p].new} /\ dns = {} /\ row # None
    BY <1>6, <2>1 DEF Discard, At, Situation
  <2>3. remote' = {} /\ dns' = {} /\ row' = row /\ Ends(p)
    BY <1>6, <2>2 DEF Discard, ApiFails
  <2> QED BY <2>2, <2>3, <1>0, EndsEffect DEF Tidy
<1>7. CASE Update(p)
  <2>1. Whole(Columns(p)) /\ Columns(p) \in Row /\ row' = Columns(p)
    BY <1>0, <1>7, ColumnsWhole DEF Update, Situation
  <2>2. /\ row # None /\ row' # None /\ UNCHANGED <<remote, dns>>
        /\ \A q \in Proto : row.links[q] = "link" => row'.links[q] = "link"
    BY <1>7, <2>1, NoneAssumption DEF Update, Situation, LosesLink, cloudVars
  <2>3. Tidy'
    <3>1. CASE call[p].kind = "enable" /\ call[p].new # None
      <4>1. row'.id = call[p].new
        BY <1>r, <2>1, <3>1 DEF Columns, Is, Row
      <4> QED BY <4>1, <1>0, <1>7, <2>2, <3>1, NoneAssumption
              DEF Situation, Tidy, Update, At, Handler
    <3>2. CASE call[p].kind = "delete"
      <4>1. row'.id = None
        BY <1>r, <2>1, <3>2 DEF Columns, Is, Row
      <4> QED BY <4>1, <1>7, <2>2, <3>2 DEF Situation, Tidy, Update, At
    <3>3. CASE call[p].kind \notin {"delete", "remove"} /\ call[p].new = None
      <4> DEFINE Same == row'.id = row.id /\ row'.domain = row.domain
      <4>1. Tidy
        BY <1>7, <3>3 DEF Update, At, Situation
      <4>2. call[p].kind \in {"enable", "disable", "edit", "report"}
        BY <1>0, <1>7, <3>3 DEF Update, At, StepsOf, Kind
      <4>3. ASSUME call[p].kind \in {"enable", "disable"} PROVE Same
        <5>1. CASE call[p].kind = "enable"
          <6>1. call[p].seen.domain = row.domain /\ row.id # None /\ row.domain # None
            BY <1>7, <2>2, <3>3, <5>1 DEF Update, At, Situation, Paired
          <6> QED BY <1>r, <2>1, <3>3, <5>1, <6>1 DEF Columns, DomainFor, Is, Row
        <5>2. CASE call[p].kind = "disable"
          BY <1>r, <2>1, <5>2 DEF Columns, Is, Row
        <5> QED BY <4>3, <5>1, <5>2
      <4>4. ASSUME call[p].kind = "edit" PROVE Same
        BY <1>r, <2>1, <4>4 DEF Columns, Is, Situation
      <4>5. ASSUME call[p].kind = "report" PROVE Same
        BY <1>r, <2>1, <4>5 DEF Columns, StoreLinks, Is, Row
      <4>6. row'.id = row.id /\ row'.domain = row.domain
        BY <4>2, <4>3, <4>4, <4>5
      <4>7. HostsOf(row) \subseteq HostsOf(row')
        BY <4>6, <2>2 DEF HostsOf
      <4> QED BY <4>1, <4>6, <4>7, <2>2 DEF Tidy
    <3>4. call[p].kind # "remove" /\ (call[p].kind # "enable" => call[p].new = None)
      BY <1>0, <1>r, <1>7 DEF Update, Is
    <3> QED BY <3>1, <3>2, <3>3, <3>4
  <2>4. CASE Ends(p)
    BY <2>3, <2>4, <1>0, EndsEffect
  <2>5. CASE Goto(p, "again") /\ call[p].kind \in {"enable", "disable"}
    BY <2>2, <2>3, <2>5, <1>0, GotoEffect DEF Situation, Step
  <2> QED BY <2>4, <2>5, <1>7, <1>0 DEF Update, Is
<1>8. CASE UpdateNothing(p) \/ UpdateFails(p)
  BY <1>8 DEF UpdateNothing, UpdateFails, DbFails, Situation
<1>9. CASE ReadAgain(p)
  <2>1. Tidy /\ row # None /\ UNCHANGED <<row, remote, dns>> /\ call[p].kind # "edit"
    BY <1>k, <1>9 DEF ReadAgain, At, Situation, cloudVars
  <2>2. CASE Ends(p)
    BY <1>1, <2>1, <2>2
  <2>3. CASE ~Ends(p)
    <3>1. /\ call'[p].seen = row /\ call'[p].step \in {"dns", "fire"}
          /\ call'[p].kind = call[p].kind
      BY <1>0, <1>9, <2>3 DEF ReadAgain, CallsOK, Handler
    <3> QED BY <3>1, <2>1, TidyStays DEF Situation
  <2> QED BY <2>2, <2>3
<1>10. CASE EnsureDNS(p)
  <2>1. Tidy /\ row # None /\ call[p].seen = row
    BY <1>10 DEF EnsureDNS, At, Situation
  <2>2. PICK made \in SUBSET Routes(row) :
          /\ dns' = dns \cup {row.domain} \X made
          /\ \A q \in made : row.links[q] # "blank"
          /\ Goto(p, "fire") \/ Ends(p)
    BY <1>10, <2>1 DEF EnsureDNS
  <2>3. {row.domain} \X made \subseteq HostsOf(row)
    BY <2>1, <2>2, <1>0 DEF Routes, HostsOf, Row, Links
  <2>4. row' = row /\ remote' = remote /\ Tidy'
    BY <1>10, <2>1, <2>2, <2>3 DEF EnsureDNS, Tidy, HostsOf
  <2>5. call[p].kind # "edit"
    BY <1>k, <1>10 DEF EnsureDNS, At
  <2>6. CASE Ends(p)
    BY <2>4, <2>6, <1>0, EndsEffect
  <2>7. CASE Goto(p, "fire")
    BY <2>1, <2>4, <2>5, <2>7, <1>0, GotoEffect DEF Situation, Step
  <2> QED BY <2>2, <2>6, <2>7
<1>11. CASE NoPayload(p) \/ Fire(p)
  <2>1. Tidy /\ UNCHANGED <<row, remote, dns>> /\ Ends(p)
    BY <1>11 DEF NoPayload, Fire, At, Situation, cloudVars
  <2> QED BY <1>1, <2>1
<1>12. CASE Halt(p)
  <2>1. Tidy /\ UNCHANGED <<row, remote, dns>> /\ Goto(p, "unbind") /\ call[p].seen = row
    BY <1>12 DEF Halt, At, Situation, cloudVars
  <2>2. call[p].kind # "edit"
    BY <1>k, <1>12 DEF Halt, At
  <2> QED BY <1>2, <2>1, <2>2 DEF Step
<1>13. CASE Unbind(p)
  <2>1. Tidy /\ row # None /\ call[p].seen = row
    BY <1>13 DEF Unbind, At, Situation
  <2>2. /\ dns' = dns \ HostsOf(row) /\ Goto(p, "destroy") /\ row' = row /\ remote' = remote
    BY <1>13, <2>1 DEF Unbind, ApiFails
  <2>3. dns' = {}
    BY <2>1, <2>2 DEF Tidy
  <2>4. call[p].kind # "edit"
    BY <1>k, <1>13 DEF Unbind, At
  <2> QED BY <2>1, <2>2, <2>3, <2>4, <1>0, GotoEffect DEF Situation, Tidy, Step
<1>14. CASE Destroy(p)
  <2>1. row # None /\ call[p].seen = row /\ remote = {row.id} \ {None} /\ dns = {}
    BY <1>14 DEF Destroy, At, Situation
  <2>2. remote' = remote \ {row.id} /\ Goto(p, "update") /\ row' = row /\ dns' = dns
    BY <1>14, <2>1 DEF Destroy, ApiFails
  <2>3. call[p].kind \in {"delete", "remove"}
    BY <1>k, <1>14 DEF Destroy, At
  <2>4. /\ p \in Running' /\ call'[p].step = "update" /\ call'[p].new = None
        /\ call'[p].kind \in {"delete", "remove"}
    BY <2>2, <2>3, <1>0, GotoEffect DEF Step
  <2> QED BY <2>1, <2>2, <2>4 DEF Situation
<1>15. CASE RemoveRow(p)
  <2>1. row' = None /\ remote' = {} /\ dns' = {} /\ Ends(p)
    BY <1>15 DEF RemoveRow, At, Is, Situation, cloudVars
  <2> QED BY <2>1, <1>0, EndsEffect DEF Tidy
<1> QED BY <1>3, <1>4, <1>5, <1>6, <1>7, <1>8, <1>9, <1>10, <1>11, <1>12, <1>13, <1>14, <1>15
        DEF Handle

(* The row gets a domain with its tunnel and loses it with it.              *)
LEMMA PairedHandle ==
  ASSUME PanelInv, NEW p \in Running, Handle(p), Situation(p), Paired
  PROVE  Paired'
<1>0. /\ call[p] \in Handler /\ call[p].step \in StepsOf(call[p].kind) /\ p \in Call
      /\ row \in Row /\ row # None /\ (call[p].kind # "enable" => call[p].new = None)
  BY NoneAssumption DEF PanelInv, CallsOK, RecordsOK, Running, Handler, Situation
<1>1. CASE Update(p)
  <2>1. row' = Columns(p) /\ call[p].step = "update" /\ call[p] # None
    BY <1>1 DEF Update, At
  <2>2. call[p].kind \in {"enable", "disable", "delete", "edit", "report"}
    BY <1>0, <1>1, <2>1 DEF Update, Is, Handler, Kind, StepsOf
  <2>3. CASE call[p].kind = "enable"
    <3>1. /\ call[p].seen.domain = row.domain
          /\ call[p].new = None => row.id # None /\ row.domain # None
      BY <1>0, <2>1, <2>3 DEF Situation, Paired
    <3>2. row'.domain # None /\ row'.id # None
      BY <1>0, <2>1, <2>3, <3>1 DEF Columns, DomainFor, Is, Row
    <3> QED BY <3>2 DEF Paired
  <2>4. CASE call[p].kind = "disable"
    BY <1>0, <2>1, <2>4 DEF Columns, Is, Row, Paired
  <2>5. CASE call[p].kind = "delete"
    BY <1>0, <2>1, <2>5 DEF Columns, Is, Row, Paired
  <2>6. CASE call[p].kind = "edit"
    BY <1>0, <2>1, <2>6 DEF Columns, Is, Situation, Paired
  <2>7. CASE call[p].kind = "report"
    BY <1>0, <2>1, <2>7 DEF Columns, StoreLinks, Is, Row, Paired
  <2> QED BY <2>2, <2>3, <2>4, <2>5, <2>6, <2>7
<1>2. CASE RemoveRow(p)
  BY <1>2 DEF RemoveRow, Paired
<1>3. CASE ~Update(p) /\ ~RemoveRow(p)
  <2>1. row' = row
    BY <1>3 DEF Handle, Create, CreateFails, FetchToken, Discard, UpdateNothing, UpdateFails,
       ReadAgain, EnsureDNS, NoPayload, Fire, Halt, Unbind, Destroy
  <2> QED BY <2>1 DEF Paired
<1> QED BY <1>1, <1>2, <1>3

(* A handler's step concerns a handler that is there, and no other.         *)
LEMMA HandleEffect ==
  ASSUME PanelInv, NEW p \in Call, Handle(p)
  PROVE  p \in Running /\ mishaps \subseteq mishaps' /\ \A q \in Call \ {p} : call'[q] = call[q]
<1>1. p \in Running
  BY Zenon DEF Handle, Running, At, Create, CreateFails, FetchToken, Discard, Update,
     UpdateNothing, UpdateFails, ReadAgain, EnsureDNS, NoPayload, Fire, Halt, Unbind, Destroy,
     RemoveRow
<1>2. mishaps \subseteq mishaps'
  <2>1. CASE \/ Create(p) \/ CreateFails(p) \/ FetchToken(p) \/ Discard(p) \/ Update(p)
             \/ UpdateNothing(p) \/ UpdateFails(p) \/ ReadAgain(p)
    BY <2>1 DEF Create, CreateFails, FetchToken, Discard, Update, UpdateNothing, UpdateFails,
       ReadAgain, ApiFails, DbFails
  <2>2. CASE \/ EnsureDNS(p) \/ NoPayload(p) \/ Fire(p) \/ Halt(p) \/ Unbind(p) \/ Destroy(p)
             \/ RemoveRow(p)
    BY <2>2 DEF EnsureDNS, NoPayload, Fire, Halt, Unbind, Destroy, RemoveRow, ApiFails
  <2> QED BY <2>1, <2>2 DEF Handle
<1>3. \A q \in Call \ {p} : call'[q] = call[q]
  <2> USE DEF PanelInv, CallsOK
  <2>1. CASE \/ Create(p) \/ CreateFails(p) \/ FetchToken(p) \/ Discard(p) \/ Update(p)
             \/ UpdateNothing(p) \/ UpdateFails(p) \/ ReadAgain(p)
    BY <2>1 DEF Create, CreateFails, FetchToken, Discard, Update, UpdateNothing, UpdateFails,
       ReadAgain, Goto, Ends
  <2>2. CASE \/ EnsureDNS(p) \/ NoPayload(p) \/ Fire(p) \/ Halt(p) \/ Unbind(p) \/ Destroy(p)
             \/ RemoveRow(p)
    BY <2>2 DEF EnsureDNS, NoPayload, Fire, Halt, Unbind, Destroy, RemoveRow, Goto, Ends
  <2> QED BY <2>1, <2>2 DEF Handle
<1> QED BY <1>1, <1>2, <1>3

(* A handler begins when none is there.                                     *)
LEMMA LeakBegin ==
  ASSUME PanelInv, LeakInv, NEW p \in Call, NEW kind \in Kind, Begin(p, kind), mishaps' = {}
  PROVE  Running' = {p} /\ Situation(p)' /\ Paired'
<1>1. Running = {} /\ mishaps = {} /\ row # None /\ UNCHANGED <<row, remote, dns>>
  BY DEF Begin, cloudVars
<1>2. Tidy /\ Tidy' /\ Paired /\ Paired'
  BY <1>1, TidyStays DEF LeakInv, Paired
<1>3. PICK seen \in Reads(kind) : call'[p] = Started(p, kind, seen) /\ p \in Running'
  BY BeginStarts DEF PanelInv
<1>4. Running' = {p}
  BY <1>1, BeginStarts DEF PanelInv, Running
<1>5. /\ call'[p].kind = kind /\ call'[p].step = FirstStep(kind) /\ call'[p].seen = seen
      /\ call'[p].new = None
  BY <1>3 DEF Started
<1>6. CASE kind = "enable"
  <2>1. row.id # None => HasTunnel(row)
    BY <1>1 DEF PanelInv, TokenInv, Whole, HasTunnel
  <2>2. /\ FirstStep(kind) \in {"update", "create"}
        /\ FirstStep(kind) = "create" => row.id = None
        /\ FirstStep(kind) = "update" => row.id # None
    BY <1>6, <2>1 DEF FirstStep, HasTunnel
  <2>3. seen.domain = row.domain
    BY <1>6 DEF Reads, NoTunnel
  <2> QED BY <1>1, <1>2, <1>4, <1>5, <1>6, <2>2, <2>3 DEF Situation
<1>7. CASE kind \in {"disable", "edit", "report"}
  <2>1. FirstStep(kind) = "update"
    BY <1>7 DEF FirstStep
  <2>2. kind = "edit" => seen.id = row.id /\ seen.domain = row.domain
    <3>1. SUFFICES ASSUME kind = "edit" PROVE seen.id = row.id /\ seen.domain = row.domain
      OBVIOUS
    <3>2. PICK page \in Page : seen = Edited(row, page)
      BY <3>1 DEF Reads
    <3> QED BY <1>1, <3>2 DEF Edited, PanelInv, RecordsOK, Row
  <2> QED BY <1>1, <1>2, <1>4, <1>5, <1>7, <2>1, <2>2 DEF Situation
<1>8. CASE kind \in {"delete", "remove", "start", "stop"}
  <2>1. seen = row
    BY <1>8 DEF Reads
  <2>2. FirstStep(kind) \in {"halt", "dns", "fire"}
    BY <1>8 DEF FirstStep
  <2> QED BY <1>1, <1>2, <1>4, <1>5, <1>8, <2>1, <2>2 DEF Situation
<1> QED BY <1>2, <1>4, <1>6, <1>7, <1>8 DEF Kind

LEMMA LeakStep == PanelInv /\ LeakInv /\ [Next]_vars => LeakInv'
<1> SUFFICES ASSUME PanelInv, LeakInv, [Next]_vars, mishaps' = {}
             PROVE  /\ (\A p, q \in Running : p = q)' /\ (\A p \in Running : Situation(p))'
                    /\ (Running = {} => Tidy)' /\ Paired'
  BY DEF LeakInv
<1>1. CASE Elsewhere
  <2>1. mishaps = {} /\ Running' = Running /\ (Tidy' <=> Tidy) /\ (Paired' <=> Paired)
    BY <1>1, TidyStays DEF Elsewhere, Running, Paired
  <2>2. \A p \in Running : Situation(p)' <=> Situation(p)
    BY <1>1, <2>1 DEF Elsewhere, Situation
  <2> QED BY <2>1, <2>2 DEF LeakInv
<1>2. CASE Crash
  BY <1>2 DEF Crash
<1>3. ASSUME NEW p \in Call, Handle(p)
      PROVE  /\ (\A r, q \in Running : r = q)' /\ (\A q \in Running : Situation(q))'
             /\ (Running = {} => Tidy)' /\ Paired'
  <2>1. mishaps = {} /\ p \in Running /\ \A q \in Call \ {p} : call'[q] = call[q]
    BY <1>3, HandleEffect
  <2>2. Running = {p} /\ Situation(p) /\ Paired
    BY <2>1 DEF LeakInv
  <2>3. Running' \subseteq {p}
    BY <2>1, <2>2 DEF Running
  <2>4. (p \in Running' => Situation(p)') /\ (p \notin Running' => Tidy') /\ Paired'
    BY <1>3, <2>1, <2>2, LeakHandle, PairedHandle
  <2> QED BY <2>3, <2>4
<1>4. ASSUME NEW p \in Call, NEW kind \in Kind, Begin(p, kind)
      PROVE  /\ (\A r, q \in Running : r = q)' /\ (\A q \in Running : Situation(q))'
             /\ (Running = {} => Tidy)' /\ Paired'
  BY <1>4, LeakBegin
<1> QED BY <1>1, <1>2, <1>3, <1>4, StepCases

(* A node's requests leave nothing at Cloudflare but the tunnel of the row  *)
(* and hosts that a cleanup will find, unless one failed there, met another *)
(* one, was cut short or a link was taken away.                             *)
THEOREM NothingEverLeaks == Spec => []NothingLeaks
<1>1. PanelInv /\ LeakInv /\ [Next]_vars => LeakInv'
  BY LeakStep
<1>2. LeakInv => NothingLeaks
  BY DEF LeakInv, NothingLeaks, Tidy
<1> QED BY PanelAlways, LeakInit, <1>1, <1>2, PTL DEF Spec

-----------------------------------------------------------------------------
Cleans(p) == call[p].kind \in {"delete", "remove"}

(* A cleanup that has met no other handler has done what its steps did.     *)
AloneInv ==
  \A p \in Running :
    call[p].alone =>
      /\ \A q \in Running : q = p
      /\ Cleans(p) /\ call[p].step \in {"destroy", "update"} =>
           HostsOf(call[p].seen) \cap dns = {}
      /\ Cleans(p) /\ call[p].step = "update" => call[p].seen.id \notin remote

LEMMA AloneHandle ==
  ASSUME PanelInv, NEW p \in Running, Handle(p), AloneInv, p \in Running', call'[p].alone
  PROVE  /\ call[p].alone
         /\ Cleans(p)' /\ call'[p].step \in {"destroy", "update"} =>
              HostsOf(call'[p].seen) \cap dns' = {}
         /\ Cleans(p)' /\ call'[p].step = "update" => call'[p].seen.id \notin remote'
<1>0. /\ CallsOK /\ p \in Call /\ call[p] \in Handler
  BY DEF PanelInv, CallsOK, Running
<1>k. /\ call[p].step \in {"create", "token", "discard"} => call[p].kind = "enable"
      /\ call[p].step \in {"halt", "unbind", "destroy"} => call[p].kind \in {"delete", "remove"}
  BY <1>0, StepKinds
<1>1. CASE \/ CreateFails(p) \/ Discard(p) \/ UpdateNothing(p) \/ UpdateFails(p) \/ NoPayload(p)
           \/ Fire(p) \/ RemoveRow(p)
  <2>1. Ends(p)
    BY <1>1 DEF CreateFails, Discard, UpdateNothing, UpdateFails, NoPayload, Fire, RemoveRow
  <2> QED BY <2>1, <1>0, EndsEffect
<1>2. CASE Create(p) \/ FetchToken(p)
  <2>1. call'[p].alone = call[p].alone /\ call'[p].kind = call[p].kind
    <3>1. CASE Create(p)
      BY <1>0, <3>1 DEF Create, CallsOK, Handler
    <3>2. CASE FetchToken(p)
      <4>1. Goto(p, "update") \/ Goto(p, "discard")
        BY <3>2 DEF FetchToken
      <4> QED BY <4>1, <1>0, GotoEffect DEF Step
    <3> QED BY <1>2, <3>1, <3>2
  <2> QED BY <2>1, <1>2, <1>k DEF Create, FetchToken, At, Cleans
<1>3. CASE Update(p) \/ EnsureDNS(p) \/ Halt(p)
  <2>1. CASE Ends(p)
    BY <2>1, <1>0, EndsEffect
  <2>2. ASSUME NEW s \in {"again", "fire", "unbind"}, Goto(p, s)
        PROVE  call'[p].step = s /\ call'[p].alone = call[p].alone
    BY <2>2, <1>0, GotoEffect DEF Step
  <2>3. Ends(p) \/ \E s \in {"again", "fire", "unbind"} : Goto(p, s)
    BY <1>3 DEF Update, EnsureDNS, Halt
  <2> QED BY <2>1, <2>2, <2>3
<1>4. CASE ReadAgain(p)
  <2>1. CASE Ends(p)
    BY <2>1, <1>0, EndsEffect
  <2>2. CASE ~Ends(p)
    BY <1>0, <1>4, <2>2 DEF ReadAgain, CallsOK, Handler
  <2> QED BY <2>1, <2>2
<1>5. CASE Unbind(p)
  <2>1. CASE Ends(p)
    BY <2>1, <1>0, EndsEffect
  <2>2. CASE ~Ends(p)
    <3>1. Goto(p, "destroy") /\ dns' = dns \ HostsOf(call[p].seen)
      BY <1>5, <2>2 DEF Unbind
    <3>2. /\ call'[p].step = "destroy" /\ call'[p].seen = call[p].seen
          /\ call'[p].alone = call[p].alone
      BY <3>1, <1>0, GotoEffect DEF Step
    <3> QED BY <3>1, <3>2 DEF HostsOf
  <2> QED BY <2>1, <2>2
<1>6. CASE Destroy(p)
  <2>1. Cleans(p) /\ call[p].step = "destroy" /\ dns' = dns
    BY <1>6, <1>k DEF Destroy, At, Cleans
  <2>2. CASE remote' = remote \ {call[p].seen.id} /\ Goto(p, "update")
    <3>1. call'[p].seen = call[p].seen /\ call'[p].alone = call[p].alone
      BY <2>2, <1>0, GotoEffect DEF Step
    <3>2. HostsOf(call[p].seen) \cap dns = {}
      BY <2>1, <3>1 DEF AloneInv
    <3> QED BY <2>1, <2>2, <3>1, <3>2 DEF HostsOf
  <2>3. CASE call' = [call EXCEPT ![p].step = "update", ![p].alone = FALSE]
    BY <2>3, <1>0 DEF CallsOK, Handler
  <2> QED BY <2>2, <2>3, <1>6 DEF Destroy
<1> QED BY <1>1, <1>2, <1>3, <1>4, <1>5, <1>6 DEF Handle

LEMMA AloneBegin ==
  ASSUME PanelInv, AloneInv, NEW p \in Call, NEW kind \in Kind, Begin(p, kind),
         NEW q \in Running', call'[q].alone
  PROVE  /\ q = p /\ Running' = {p}
         /\ Cleans(p)' => call'[p].step \notin {"destroy", "update"}
<1>1. \A r \in Call \ {p} : r \in Running => call'[r] = [call[r] EXCEPT !.alone = FALSE]
  BY BeginStarts DEF PanelInv
<1>2. q = p
  <2>1. SUFFICES ASSUME q # p PROVE FALSE
    OBVIOUS
  <2>2. q \in Call \ {p} /\ q \in Running
    BY <2>1, BeginStarts DEF PanelInv, Running
  <2> QED BY <1>1, <2>2 DEF PanelInv, CallsOK, Running, Handler
<1>3. PICK seen \in Reads(kind) : call'[p] = Started(p, kind, seen)
  BY BeginStarts DEF PanelInv
<1>4. Running = {}
  <2>1. call'[p].alone = (Running = {})
    BY <1>3 DEF Started
  <2> QED BY Zenon, <1>2, <2>1
<1>5. Running' = {p}
  BY <1>2, <1>4, BeginStarts DEF PanelInv, Running
<1>6. call'[p].kind = kind /\ call'[p].step = FirstStep(kind)
  BY <1>3 DEF Started
<1>7. kind \in {"delete", "remove"} => FirstStep(kind) = "halt"
  BY DEF FirstStep
<1> QED BY <1>2, <1>5, <1>6, <1>7 DEF Cleans

LEMMA AloneStep == PanelInv /\ AloneInv /\ [Next]_vars => AloneInv'
<1> SUFFICES ASSUME PanelInv, AloneInv, [Next]_vars, NEW q \in Running', call'[q].alone
             PROVE  /\ \A r \in Running' : r = q
                    /\ Cleans(q)' /\ call'[q].step \in {"destroy", "update"} =>
                         HostsOf(call'[q].seen) \cap dns' = {}
                    /\ Cleans(q)' /\ call'[q].step = "update" => call'[q].seen.id \notin remote'
  BY DEF AloneInv, HostsOf
<1>1. CASE Elsewhere
  BY <1>1 DEF Elsewhere, AloneInv, Running, Cleans
<1>2. CASE Crash
  BY <1>2 DEF Crash, Running
<1>3. ASSUME NEW p \in Call, Handle(p) PROVE
        /\ \A r \in Running' : r = q
        /\ Cleans(q)' /\ call'[q].step \in {"destroy", "update"} =>
             HostsOf(call'[q].seen) \cap dns' = {}
        /\ Cleans(q)' /\ call'[q].step = "update" => call'[q].seen.id \notin remote'
  <2>1. p \in Running /\ \A r \in Call \ {p} : call'[r] = call[r]
    BY <1>3, HandleEffect
  <2>2. q = p
    BY <2>1 DEF AloneInv, Running
  <2>3. Running = {p}
    BY <1>3, <2>1, <2>2, AloneHandle DEF AloneInv
  <2>4. Running' \subseteq {p}
    BY <2>1, <2>3 DEF Running
  <2> QED BY <1>3, <2>1, <2>2, <2>4, AloneHandle
<1>4. ASSUME NEW p \in Call, NEW kind \in Kind, Begin(p, kind) PROVE
        /\ \A r \in Running' : r = q
        /\ Cleans(q)' => call'[q].step \notin {"destroy", "update"}
  BY <1>4, AloneBegin
<1> QED BY <1>1, <1>2, <1>3, <1>4, StepCases

LEMMA CleanupStep ==
  ASSUME PanelInv, AloneInv, [Next]_vars, NEW p \in Call, At(p, "update"),
         Is(p, {"delete", "remove"}), call[p].alone, row' # row
  PROVE  /\ call[p].seen.id \notin remote'
         /\ HostsOf(call[p].seen) \cap dns' = {}
         /\ row' # None => row'.id = None /\ ~row'.on
<1>1. p \in Running /\ Cleans(p)
  BY DEF At, Is, Running, Cleans
<1>2. HostsOf(call[p].seen) \cap dns = {} /\ call[p].seen.id \notin remote
  BY <1>1 DEF AloneInv, At
<1>3. Handle(p)
  <2>1. ~Elsewhere /\ ~Crash
    BY DEF Elsewhere, Crash
  <2>2. \A q \in Call, kind \in Kind : ~Begin(q, kind)
    BY DEF Begin
  <2>3. PICK q \in Call : Handle(q)
    BY <2>1, <2>2, StepCases
  <2> QED BY <1>1, <2>3, HandleEffect DEF AloneInv
<1>4. Update(p) \/ RemoveRow(p)
  BY <1>3 DEF At, Handle, Create, CreateFails, FetchToken, Discard, UpdateNothing, UpdateFails,
     ReadAgain, EnsureDNS, NoPayload, Fire, Halt, Unbind, Destroy
<1>5. UNCHANGED <<remote, dns>>
  BY <1>4 DEF Update, RemoveRow, cloudVars
<1>6. row' # None => row'.id = None /\ ~row'.on
  <2>1. CASE RemoveRow(p)
    BY <2>1 DEF RemoveRow
  <2>2. CASE Update(p)
    <3>1. row # None /\ row \in Row /\ row' = Columns(p) /\ call[p].kind = "delete"
      BY <2>2 DEF Update, Is, PanelInv, RecordsOK
    <3> QED BY <3>1 DEF Columns, Is, Row
  <2> QED BY <1>4, <2>1, <2>2
<1> QED BY <1>2, <1>5, <1>6

(* A cleanup that runs by itself and meets no failure leaves neither the    *)
(* tunnel of the row nor its hosts, whatever earlier requests have left.    *)
THEOREM CleanupAlwaysRepairs == Spec => CleanupRepairs
<1>1. Init => AloneInv
  BY DEF Init, AloneInv, Running
<1>2. PanelInv /\ AloneInv /\ [Next]_vars =>
        \A p \in Call :
          At(p, "update") /\ Is(p, {"delete", "remove"}) /\ call[p].alone /\ row' # row
            => /\ call[p].seen.id \notin remote'
               /\ HostsOf(call[p].seen) \cap dns' = {}
               /\ row' # None => row'.id = None /\ ~row'.on
  BY CleanupStep
<1> QED BY PanelAlways, AloneStep, <1>1, <1>2, PTL DEF Spec, CleanupRepairs
-----------------------------------------------------------------------------
(* The rest of the types: what is on its way to the agent and at the agent, *)
(* and the numbers.                                                          *)
Job == [cmd : Command, written : BOOLEAN]

AgentOK ==
  /\ queue \in Seq(Command) /\ Len(queue) <= QueueCap
  /\ busy \in [Worker -> {None} \cup Job]
  /\ conf \in Tunnel \cup {None} /\ runs \in Tunnel \cup {None} /\ last \in Command \cup {None}

BooksOK ==
  /\ created \in 0 .. MaxTunnel /\ calls \in 0 .. MaxCall /\ faults \in Nat
  /\ mishaps \subseteq {"met", "cut", "api", "link"}
  /\ online \in BOOLEAN /\ autostart \in BOOLEAN /\ skewed \in BOOLEAN

(* A command to start names a tunnel: a handler that has not found one in    *)
(* what it read has ended.  And one deletion of the node runs at a time.     *)
FireInv ==
  /\ \A p \in Running :
       call[p].kind \in {"enable", "start"} /\ call[p].step = "fire" => call[p].seen.token \in Tunnel
  /\ \A p, q \in Running : call[p].kind = "remove" /\ call[q].kind = "remove" => p = q

(* A handler keeps its kind, and sends a command to start only after the     *)
(* records have been made.                                                   *)
LEMMA HandleKeepsKind ==
  ASSUME PanelInv, NEW p \in Call, Handle(p)
  PROVE  p \in Running' =>
           /\ call'[p].kind = call[p].kind
           /\ call[p].kind \in {"enable", "start"} /\ call'[p].step = "fire" => call'[p].seen.token \in Tunnel
<1> USE NoneAssumption DEF PanelInv
<1>1. p \in Running /\ call[p] \in Handler
  BY HandleEffect DEF CallsOK, Running
<1>2. Ends(p) => p \notin Running'
  BY EndsEffect
<1>3. ASSUME NEW s \in Step \ {"fire"}, Goto(p, s)
      PROVE  call'[p].kind = call[p].kind /\ call'[p].step # "fire"
  BY <1>1, <1>3, GotoEffect
<1>4. CASE Create(p)
  BY <1>1, <1>4 DEF Create, CallsOK, Running, Handler
<1>5. CASE FetchToken(p) \/ Halt(p) \/ Unbind(p)
  <2>1. Ends(p) \/ \E s \in Step \ {"fire"} : Goto(p, s)
    BY <1>5 DEF FetchToken, Halt, Unbind, Step
  <2> QED BY <1>2, <1>3, <2>1
<1>6. CASE Update(p)
  <2>1. Ends(p) \/ Goto(p, "again")
    BY <1>6 DEF Update
  <2> QED BY <1>2, <1>3, <2>1 DEF Step
<1>7. CASE ReadAgain(p)
  <2>1. CASE Ends(p)
    BY <1>2, <2>1
  <2>2. CASE ~Ends(p)
    <3>1. call' = [call EXCEPT ![p].seen = row, ![p].step = IF Is(p, {"enable"}) THEN "dns" ELSE "fire"]
      BY <1>7, <2>2 DEF ReadAgain
    <3>2. call[p].kind \in {"enable", "disable"}
      BY <1>1, <1>7, StepKinds DEF ReadAgain, At
    <3>3. call'[p].kind = call[p].kind /\ (call[p].kind = "enable" => call'[p].step = "dns")
      BY <1>1, <3>1 DEF CallsOK, Running, Handler, Is
    <3> QED BY <3>2, <3>3
  <2> QED BY <2>1, <2>2
<1>8. CASE EnsureDNS(p)
  <2>1. (Goto(p, "fire") \/ Ends(p)) /\ Addressed(call[p].seen)
    BY <1>8 DEF EnsureDNS
  <2>2. call[p].seen.token \in Tunnel
    BY <1>1, <2>1 DEF Addressed, Handler, Row
  <2>3. Goto(p, "fire") => call'[p].kind = call[p].kind /\ call'[p].seen = call[p].seen
    BY <1>1, GotoEffect DEF Step
  <2> QED BY <1>2, <2>1, <2>2, <2>3
<1>9. CASE Destroy(p)
  <2>1. CASE Goto(p, "update")
    BY <1>3, <2>1 DEF Step
  <2>2. CASE call' = [call EXCEPT ![p].step = "update", ![p].alone = FALSE]
    BY <1>1, <2>2 DEF CallsOK, Running, Handler
  <2> QED BY <1>9, <2>1, <2>2 DEF Destroy
<1>10. CASE \/ CreateFails(p) \/ Discard(p) \/ UpdateNothing(p) \/ UpdateFails(p) \/ NoPayload(p)
            \/ Fire(p) \/ RemoveRow(p)
  <2>1. Ends(p)
    BY <1>10 DEF CreateFails, Discard, UpdateNothing, UpdateFails, NoPayload, Fire, RemoveRow
  <2> QED BY <1>2, <2>1
<1> QED BY <1>4, <1>5, <1>6, <1>7, <1>8, <1>9, <1>10 DEF Handle

LEMMA FireStep == PanelInv /\ FireInv /\ [Next]_vars => FireInv'
<1> SUFFICES ASSUME PanelInv, FireInv, [Next]_vars PROVE FireInv'
  OBVIOUS
<1>1. CASE Elsewhere
  BY <1>1 DEF Elsewhere, FireInv, Running
<1>2. CASE Crash
  BY <1>2 DEF Crash, FireInv, Running
<1>3. ASSUME NEW p \in Call, Handle(p) PROVE FireInv'
  <2>1. p \in Running /\ \A q \in Running' \ {p} : q \in Running /\ call'[q] = call[q]
    BY <1>3, HandleEffect DEF Running
  <2>2. p \in Running' => /\ call'[p].kind = call[p].kind
                          /\ call[p].kind \in {"enable", "start"} /\ call'[p].step = "fire" =>
                               call'[p].seen.token \in Tunnel
    BY <1>3, HandleKeepsKind
  <2>3. \A q \in Running' : q \in Running /\ call'[q].kind = call[q].kind
    BY <2>1, <2>2
  <2> QED BY <2>1, <2>2, <2>3 DEF FireInv
<1>4. ASSUME NEW p \in Call, NEW kind \in Kind, Begin(p, kind) PROVE FireInv'
  <2>1. /\ row # None /\ call[p] = None /\ p \in Running'
        /\ \E seen \in Reads(kind) :
             /\ call'[p] = Started(p, kind, seen) /\ call'[p] \in Handler
             /\ call'[p].step \in StepsOf(kind) \ {"token", "discard"}
        /\ \A q \in Call \ {p} :
             /\ q \in Running' <=> q \in Running
             /\ q \in Running => call'[q] = [call[q] EXCEPT !.alone = FALSE]
    BY <1>4, BeginStarts DEF PanelInv
  <2>2. \A q \in Running' \ {p} : /\ q \in Running /\ call'[q].kind = call[q].kind
                                  /\ call'[q].step = call[q].step /\ call'[q].seen = call[q].seen
    <3>1. \A q \in Running' \ {p} : q \in Running /\ call[q] \in Handler /\ call'[q] = [call[q] EXCEPT !.alone = FALSE]
      BY <2>1 DEF PanelInv, CallsOK, Running
    <3> QED BY <3>1 DEF Handler
  <2>3. call'[p].kind = kind /\ call'[p].step = FirstStep(kind)
    BY <2>1 DEF Started
  <2>4. kind \in {"enable", "start"} => FirstStep(kind) # "fire"
    BY DEF FirstStep
  <2>5. kind = "remove" => \A q \in Running : call[q].kind # "remove"
    BY <1>4 DEF Begin, May
  <2> QED BY <2>2, <2>3, <2>4, <2>5 DEF FireInv
<1> QED BY <1>1, <1>2, <1>3, <1>4, StepCases

(* A command that is sent names a tunnel, or stops the service.              *)
LEMMA FiredType ==
  ASSUME AgentOK, NEW cmd \in Command, Fired(cmd)
  PROVE  queue' \in Seq(Command) /\ Len(queue') <= QueueCap /\ last' \in Command \cup {None}
<1>1. CASE queue' = Append(queue, cmd) /\ Len(queue) < QueueCap
  <2>1. queue' \in Seq(Command) /\ Len(queue') = Len(queue) + 1
    BY <1>1 DEF AgentOK
  <2> QED BY <1>1, <2>1, BoundAssumption DEF Fired, AgentOK
<1>2. CASE UNCHANGED queue
  BY <1>2 DEF Fired, AgentOK
<1> QED BY <1>1, <1>2 DEF Fired

LEMMA AgentOKStep == PanelInv /\ FireInv /\ AgentOK /\ [Next]_vars => AgentOK'
<1> SUFFICES ASSUME PanelInv, FireInv, AgentOK, [Next]_vars PROVE AgentOK'
  OBVIOUS
<1> USE DEF agentVars, panelVars, cloudVars
<1>1. CASE UNCHANGED <<agentVars, last>>
  BY <1>1 DEF AgentOK
<1>2. ASSUME NEW p \in Call, Fire(p) PROVE AgentOK'
  <2>1. call[p] \in Handler /\ p \in Running
    BY <1>2 DEF Fire, At, PanelInv, CallsOK, Running
  <2>2. CommandOf(p) \in Command
    BY <1>2, <2>1 DEF CommandOf, Command, Fire, At, Is, FireInv
  <2> HIDE DEF agentVars
  <2>3. queue' \in Seq(Command) /\ Len(queue') <= QueueCap /\ last' \in Command \cup {None}
    <3>1. CASE Fired(CommandOf(p))
      BY <2>2, <3>1, FiredType
    <3>2. CASE UNCHANGED <<queue, last>>
      BY <3>2 DEF AgentOK
    <3> QED BY <1>2, <3>1, <3>2 DEF Fire
  <2> QED BY <1>2, <2>3 DEF Fire, AgentOK
<1>3. ASSUME NEW p \in Call, Halt(p) PROVE AgentOK'
  <2>1. [act |-> "stop", tunnel |-> None] \in Command
    BY DEF Command
  <2>2. queue' \in Seq(Command) /\ Len(queue') <= QueueCap /\ last' \in Command \cup {None}
    <3>1. CASE Fired([act |-> "stop", tunnel |-> None])
      BY <2>1, <3>1, FiredType
    <3>2. CASE UNCHANGED <<queue, last>>
      BY <3>2 DEF AgentOK
    <3> QED BY <1>3, <3>1, <3>2 DEF Halt
  <2> QED BY <1>3, <2>2 DEF Halt, AgentOK
<1>4. ASSUME NEW p \in Call, Handle(p), ~Fire(p), ~Halt(p) PROVE UNCHANGED <<agentVars, last>>
  BY <1>4, Zenon DEF Handle, Create, CreateFails, FetchToken, Discard, Update, UpdateNothing, UpdateFails,
     ReadAgain, EnsureDNS, NoPayload, Unbind, Destroy, RemoveRow
<1>5. ASSUME NEW w \in Worker, Work(w) \/ StartFails(w) PROVE AgentOK'
  <2>1. CASE Take(w)
    <3>1. Head(queue) \in Command /\ Tail(queue) \in Seq(Command) /\ Len(Tail(queue)) <= QueueCap
      BY <2>1, BoundAssumption DEF Take, AgentOK
    <3>2. [cmd |-> Head(queue), written |-> FALSE] \in Job
      BY <3>1 DEF Job
    <3> QED BY <2>1, <3>1, <3>2 DEF Take, AgentOK
  <2>2. CASE WriteConfig(w)
    <3>1. busy[w] \in Job
      BY <2>2 DEF WriteConfig, AgentOK
    <3>2. busy[w].cmd.tunnel \in Tunnel
      BY <2>2, <3>1 DEF WriteConfig, Job, Command
    <3>3. [busy[w] EXCEPT !.written = TRUE] \in Job
      BY <3>1 DEF Job
    <3>4. busy' \in [Worker -> {None} \cup Job]
      BY <2>2, <3>3 DEF WriteConfig, AgentOK
    <3> QED BY <2>2, <3>2, <3>4 DEF WriteConfig, AgentOK
  <2>3. CASE StartService(w) \/ StopService(w) \/ StartFails(w)
    BY <2>3 DEF StartService, Serve, StopService, StartFails, AgentOK
  <2> QED BY <1>5, <2>1, <2>2, <2>3 DEF Work
<1>6. CASE Disconnect
  <2>1. PICK k \in 0 .. Len(queue) : queue' = SubSeq(queue, 1, k)
    BY <1>6 DEF Disconnect
  <2>2. queue' \in Seq(Command) /\ Len(queue') = k
    BY <2>1 DEF AgentOK
  <2>3. Len(queue') <= QueueCap
    BY <2>2, BoundAssumption DEF AgentOK
  <2> QED BY <1>6, <2>2, <2>3 DEF Disconnect, AgentOK
<1>7. CASE Reboot
  BY <1>7, BoundAssumption DEF Reboot, AgentOK
<1>8. ASSUME NEW p \in Call, NEW kind \in Kind, Begin(p, kind) PROVE AgentOK'
  BY <1>1, <1>8, Zenon DEF Begin
<1>9. CASE Connect \/ Crash \/ UNCHANGED vars
  BY <1>1, <1>9, Zenon DEF Connect, Crash, vars
<1> QED BY <1>1, <1>2, <1>3, <1>4, <1>5, <1>6, <1>7, <1>8, <1>9 DEF Next

LEMMA BooksStep == BooksOK /\ [Next]_vars => BooksOK'
<1> SUFFICES ASSUME BooksOK, [Next]_vars PROVE BooksOK'
  OBVIOUS
<1> USE DEF agentVars, panelVars, cloudVars
<1> DEFINE Mishap == {"met", "cut", "api", "link"}
<1>0. /\ MaxTunnel \in Nat /\ MaxCall \in Nat /\ created \in 0 .. MaxTunnel /\ calls \in 0 .. MaxCall
      /\ faults \in Nat /\ mishaps \subseteq Mishap
  BY BoundAssumption DEF BooksOK
<1>1. /\ Fault => faults' \in Nat
      /\ ApiFails \/ DbFails => faults' \in Nat /\ mishaps' \subseteq Mishap
  <2>1. Fault => faults' \in Nat
    BY <1>0 DEF Fault
  <2>2. ApiFails => mishaps' \subseteq Mishap
    BY <1>0 DEF ApiFails
  <2>3. DbFails => mishaps' \subseteq Mishap
    BY <1>0 DEF DbFails
  <2> QED BY <2>1, <2>2, <2>3 DEF ApiFails, DbFails
<1>2. ASSUME NEW p \in Call, Handle(p) PROVE BooksOK'
  <2>1. created' \in 0 .. MaxTunnel
    <3>1. CASE Create(p)
      BY <1>0, <3>1 DEF Create
    <3>2. CASE ~Create(p)
      <4>1. UNCHANGED created
        BY <1>2, <3>2, Zenon DEF Handle, CreateFails, FetchToken, Discard, Update, UpdateNothing, UpdateFails,
           ReadAgain, EnsureDNS, NoPayload, Fire, Halt, Unbind, Destroy, RemoveRow
      <4> QED BY <1>0, <4>1
    <3> QED BY <3>1, <3>2
  <2>2. UNCHANGED <<calls, autostart>> /\ (UNCHANGED online \/ online' = FALSE)
    BY <1>2, Zenon DEF Handle, Create, CreateFails, FetchToken, Discard, Update, UpdateNothing, UpdateFails,
       ReadAgain, EnsureDNS, NoPayload, Fire, Halt, Unbind, Destroy, RemoveRow
  <2>3. UNCHANGED skewed \/ skewed' = TRUE
    BY <1>2, Zenon DEF Handle, Create, CreateFails, FetchToken, Discard, Update, UpdateNothing, UpdateFails,
       ReadAgain, EnsureDNS, NoPayload, Fire, Fired, Halt, Unbind, Destroy, RemoveRow
  <2>4. UNCHANGED faults \/ Fault \/ ApiFails \/ DbFails
    BY <1>2, Zenon DEF Handle, Create, CreateFails, FetchToken, Discard, Update, UpdateNothing, UpdateFails,
       ReadAgain, EnsureDNS, NoPayload, Fire, Fired, Halt, Unbind, Destroy, RemoveRow
  <2>5. UNCHANGED mishaps \/ mishaps' = mishaps \cup {"link"} \/ ApiFails \/ DbFails
    BY <1>2, Zenon DEF Handle, Create, CreateFails, FetchToken, Discard, Update, UpdateNothing, UpdateFails,
       ReadAgain, EnsureDNS, NoPayload, Fire, Halt, Unbind, Destroy, RemoveRow
  <2>6. faults' \in Nat
    BY <1>0, <1>1, <2>4
  <2>7. mishaps' \subseteq Mishap
    BY <1>0, <1>1, <2>5
  <2> QED BY <2>1, <2>2, <2>3, <2>6, <2>7 DEF BooksOK
<1>3. ASSUME NEW p \in Call, NEW kind \in Kind, Begin(p, kind) PROVE BooksOK'
  <2>1. calls' \in 0 .. MaxCall /\ mishaps' \subseteq Mishap
    BY <1>0, <1>3 DEF Begin
  <2> QED BY <1>3, <2>1 DEF Begin, BooksOK
<1>4. ASSUME NEW w \in Worker, Work(w) \/ StartFails(w) PROVE BooksOK'
  <2>1. UNCHANGED <<created, calls, online, mishaps>> /\ (UNCHANGED autostart \/ autostart' = TRUE)
    BY <1>4, Zenon DEF Work, Take, WriteConfig, StartService, Serve, StopService, StartFails
  <2>2. skewed' \in BOOLEAN
    BY <1>4, Zenon DEF Work, Take, WriteConfig, StartService, StopService, StartFails, BooksOK
  <2>3. UNCHANGED faults \/ Fault
    BY <1>4, Zenon DEF Work, Take, WriteConfig, StartService, StopService, StartFails
  <2> QED BY <1>0, <1>1, <2>1, <2>2, <2>3 DEF BooksOK
<1>5. CASE Disconnect \/ Reboot
  <2>1. online' = FALSE /\ UNCHANGED <<created, calls, mishaps, autostart>> /\ Fault
    BY <1>5, Zenon DEF Disconnect, Reboot
  <2>2. skewed' \in BOOLEAN
    BY <1>5, Zenon DEF Disconnect, Reboot
  <2> QED BY <1>0, <1>1, <2>1, <2>2 DEF BooksOK
<1>6. CASE Connect \/ UNCHANGED vars
  BY <1>6 DEF Connect, vars, BooksOK
<1>7. CASE Crash
  <2>1. faults' \in Nat /\ mishaps' \subseteq Mishap
    BY <1>0, <1>1, <1>7 DEF Crash
  <2> QED BY <1>7, <2>1 DEF Crash, BooksOK
<1> QED BY <1>2, <1>3, <1>4, <1>5, <1>6, <1>7 DEF Next

(* Every variable keeps its type: a command to start names a tunnel although *)
(* the row may have changed since the handler began, and nodeDeleteMu lets   *)
(* one deletion of the node run at a time.                                   *)
THEOREM TypeCorrect == Spec => []TypeOK
<1> DEFINE Inv == PanelInv /\ FireInv /\ AgentOK /\ BooksOK
<1>1. Init => Inv
  <2> SUFFICES ASSUME Init PROVE FireInv /\ AgentOK /\ BooksOK
    BY PanelInit
  <2>1. FireInv
    BY DEF Init, FireInv, Running
  <2>2. AgentOK
    BY BoundAssumption DEF Init, AgentOK
  <2>3. BooksOK
    <3>1. /\ created = 0 /\ calls = 0 /\ faults = 0 /\ mishaps = {}
          /\ online = TRUE /\ autostart = FALSE /\ skewed = FALSE
      BY DEF Init
    <3>2. 0 \in 0 .. MaxTunnel /\ 0 \in 0 .. MaxCall
      BY BoundAssumption
    <3> QED BY <3>1, <3>2 DEF BooksOK
  <2> QED BY <2>1, <2>2, <2>3
<1>2. Inv /\ [Next]_vars => Inv'
  BY PanelStep, FireStep, AgentOKStep, BooksStep
<1>3. Inv => TypeOK
  BY DEF PanelInv, RecordsOK, CallsOK, FireInv, Running, AgentOK, Job, BooksOK, TypeOK
<1> HIDE DEF Inv
<1> QED BY <1>1, <1>2, <1>3, PTL DEF Spec
=============================================================================
