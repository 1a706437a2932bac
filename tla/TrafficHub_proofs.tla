-------------------------- MODULE TrafficHub_proofs --------------------------
(***************************************************************************)
(* Theorems about TrafficHub, for any nodes, connection handlers,          *)
(* directions and bounds.                                                  *)
(***************************************************************************)
EXTENDS TrafficHub, TLAPS

(* A connection that is in use has an owner, only a connection that was      *)
(* registered waits for a live entry, and what a handler holds before it is  *)
(* registered is the first message.  TypeOK needs it, for owner[c] indexes   *)
(* the functions on nodes, and it needs RegisteredIsOpen, for the connection *)
(* that Register closes must be one in use.                                  *)
HandlerInv ==
  \A c \in Conn :
    /\ phase[c] # "free" => owner[c] \in Node
    /\ c \in binding => phase[c] \in {"open", "closed"}
    /\ inHand[c] # None => phase[c] # "free"
    /\ inHand[c] # None /\ phase[c] \in {"fresh", "checked"} => inHand[c].first

ConnInv == TypeOK /\ HandlerInv /\ RegisteredIsOpen
-----------------------------------------------------------------------------
LEMMA ZeroIsVec == Zero \in Vec
  BY DEF Zero, Vec

(* A new live entry is well typed, whatever the read of its base does.      *)
LEMMA EntryForType ==
  ASSUME TypeOK, NEW n \in Node, NEW failed \in BOOLEAN
  PROVE  EntryFor(n, failed) \in LiveState
<1>1. Entry(n, failed) \in LiveState
  BY ZeroIsVec DEF TypeOK, Entry, Base, LiveState
<1>2. CASE nodes[n] # None
  BY <1>2 DEF TypeOK, EntryFor
<1>3. CASE nodes[n] = None
  BY <1>1, <1>3 DEF EntryFor
<1> QED BY <1>2, <1>3

(* Applying a sample keeps the totals natural numbers: an increment counts   *)
(* only when no direction went backwards.                                    *)
LEMMA UpdatedType ==
  ASSUME NEW st \in LiveState, NEW s \in Sample
  PROVE  Updated(st, s) \in LiveState
<1> DEFINE total == IF Counts(st, s) THEN [d \in Dir |-> st.total[d] + Delta(st, s)[d]]
                    ELSE st.total
<1>1. /\ st.total \in Vec /\ st.last \in Vec /\ st.dirty \in BOOLEAN
      /\ s.counter \in Vec /\ s.boot \in Nat
  BY DEF LiveState, Sample
<1>2. total \in Vec
  <2>1. CASE Counts(st, s)
    <3>1. ASSUME NEW d \in Dir PROVE st.total[d] + Delta(st, s)[d] \in Nat
      <4>1. st.total[d] \in Nat /\ st.last[d] \in Nat /\ s.counter[d] \in Nat
        BY <1>1 DEF Vec
      <4>2. Delta(st, s)[d] = s.counter[d] - st.last[d]
        BY DEF Delta
      <4>3. Delta(st, s)[d] >= 0
        BY <2>1 DEF Counts
      <4> QED BY <4>1, <4>2, <4>3
    <3> QED BY <2>1, <3>1 DEF Vec
  <2>2. CASE ~Counts(st, s)
    BY <1>1, <2>2
  <2> QED BY <2>1, <2>2
<1>3. Updated(st, s) = [total |-> total, last |-> s.counter, boot |-> s.boot,
                        seen |-> TRUE, dirty |-> st.dirty \/ total # st.total]
  BY DEF Updated
<1> QED BY <1>1, <1>2, <1>3 DEF LiveState
-----------------------------------------------------------------------------
LEMMA ConnInit == Init => ConnInv
  BY ZeroIsVec, NoneAssumption
     DEF Init, ConnInv, TypeOK, HandlerInv, RegisteredIsOpen, DeletePhase

LEMMA ConnStep == ConnInv /\ [Next]_vars => ConnInv'
<1> SUFFICES ASSUME ConnInv, [Next]_vars PROVE ConnInv'
  OBVIOUS
<1> USE DEF ConnInv
<1> USE DEF agentVars, connVars, dbVars, resetVars, adminVars, editVars, ghostVars, failVars, loadVars
<1>1. ASSUME NEW n \in Node, NEW d \in Dir, Move(n, d) PROVE ConnInv'
  <2>1. moved' \in [Node -> Vec] /\ counter' \in [Node -> Vec]
    BY <1>1 DEF Move, TypeOK, Vec
  <2> QED BY <1>1, <2>1 DEF Move, TypeOK, HandlerInv, RegisteredIsOpen
<1>2. ASSUME NEW n \in Node, Reboot(n) PROVE ConnInv'
  BY <1>2, ZeroIsVec DEF Reboot, TypeOK, HandlerInv, RegisteredIsOpen
<1>3. ASSUME NEW n \in Node, AgentRestart(n) PROVE ConnInv'
  BY <1>3 DEF AgentRestart, TypeOK, HandlerInv, RegisteredIsOpen
<1>4. ASSUME NEW n \in Node, CounterReset(n) PROVE ConnInv'
  BY <1>4, ZeroIsVec DEF CounterReset, TypeOK, HandlerInv, RegisteredIsOpen
<1>5. ASSUME NEW n \in Node, NEW c \in Conn, Dial(c, n) PROVE ConnInv'
  <2>1. RegisteredIsOpen'
    BY <1>5 DEF Dial, TypeOK, RegisteredIsOpen
  <2> QED BY <1>5, <2>1 DEF Dial, TypeOK, HandlerInv
<1>6. ASSUME NEW c \in Conn, NEW failed \in BOOLEAN, EnsureLive(c, failed) PROVE ConnInv'
  <2>1. owner[c] \in Node
    BY <1>6 DEF EnsureLive, HandlerInv
  <2>2. EntryFor(owner[c], failed) \in LiveState
    BY <2>1, EntryForType
  <2>3. nodes' \in [Node -> LiveState \cup {None}]
    BY <1>6, <2>2 DEF EnsureLive, TypeOK
  <2>4. misloaded' \subseteq Node /\ rolledBack' \subseteq Node /\ loadFails' \in Nat
    BY <1>6, <2>1 DEF EnsureLive, LoadBase, TypeOK
  <2> QED BY <1>6, <2>3, <2>4 DEF EnsureLive, TypeOK, HandlerInv, RegisteredIsOpen
<1>7. ASSUME NEW c \in Conn, NEW failed \in BOOLEAN, Apply(c, failed) PROVE ConnInv'
  <2>1. owner[c] \in Node /\ inHand[c] \in Sample
    BY <1>7 DEF Apply, HandlerInv, TypeOK
  <2>2. Updated(EntryFor(owner[c], failed), inHand[c]) \in LiveState
    BY <2>1, EntryForType, UpdatedType
  <2>3. nodes' \in [Node -> LiveState \cup {None}]
    BY <1>7, <2>2 DEF Apply, TypeOK
  <2>4. misloaded' \subseteq Node /\ rolledBack' \subseteq Node /\ loadFails' \in Nat
    BY <1>7, <2>1 DEF Apply, LoadBase, TypeOK
  <2>5. heard' \in [Node -> Vec] /\ late' \subseteq Node
    BY <1>7, <2>1 DEF Apply, TypeOK, Sample
  <2> QED BY <1>7, <2>3, <2>4, <2>5 DEF Apply, TypeOK, HandlerInv, RegisteredIsOpen
<1>8. ASSUME NEW c \in Conn, Accept(c) PROVE ConnInv'
  BY <1>8 DEF Accept, TypeOK, HandlerInv, RegisteredIsOpen
<1>9. ASSUME NEW c \in Conn, Register(c) PROVE ConnInv'
  <2> DEFINE prev == agentConns[owner[c]]
  <2>1. owner[c] \in Node
    BY <1>9 DEF Register, HandlerInv, TypeOK
  <2>2. agentConns' \in [Node -> Conn \cup {None}]
    BY <1>9, <2>1 DEF Register, TypeOK
  <2>3. \A d \in Conn : phase'[d] = IF d = c THEN "open"
                                    ELSE IF d = prev THEN "closed" ELSE phase[d]
    BY <1>9 DEF Register
  <2>4. phase' \in [Conn -> {"free", "fresh", "checked", "open", "closed"}]
    BY <1>9 DEF Register, TypeOK
  <2>5. prev \in Conn => phase[prev] = "open" /\ owner[prev] = owner[c]
    BY <2>1 DEF RegisteredIsOpen
  <2>6. HandlerInv'
    BY <1>9, <2>1, <2>3, <2>5 DEF Register, HandlerInv
  <2>7. RegisteredIsOpen'
    BY <1>9, <2>1, <2>3, <2>5 DEF Register, TypeOK, RegisteredIsOpen
  <2> QED BY <1>9, <2>2, <2>4, <2>6, <2>7 DEF Register, TypeOK
<1>10. ASSUME NEW c \in Conn, Refuse(c) PROVE ConnInv'
  <2>1. owner[c] \in Node
    BY <1>10 DEF Refuse, HandlerInv, TypeOK
  <2>2. RegisteredIsOpen'
    BY <1>10, <2>1, NoneAssumption DEF Refuse, TypeOK, RegisteredIsOpen
  <2> QED BY <1>10, <2>1, <2>2 DEF Refuse, TypeOK, HandlerInv
<1>11. ASSUME NEW c \in Conn, Receive(c) PROVE ConnInv'
  <2>1. owner[c] \in Node
    BY <1>11 DEF Receive, HandlerInv, TypeOK
  <2>2. inHand' \in [Conn -> Sample \cup {None}]
    BY <1>11, <2>1 DEF Receive, TypeOK, Sample
  <2>3. phase[c] \in {"fresh", "checked"} => inHand'[c].first
    BY <1>11 DEF Receive, TypeOK
  <2>4. HandlerInv'
    BY <1>11, <2>3 DEF Receive, TypeOK, HandlerInv
  <2> QED BY <1>11, <2>2, <2>4 DEF Receive, TypeOK, RegisteredIsOpen
<1>12. ASSUME NEW c \in Conn, Disconnect(c) PROVE ConnInv'
  <2>1. owner[c] \in Node
    BY <1>12 DEF Disconnect, HandlerInv, TypeOK
  <2>2. RegisteredIsOpen'
    BY <1>12, <2>1, NoneAssumption DEF Disconnect, IsCurrent, TypeOK, RegisteredIsOpen
  <2> QED BY <1>12, <2>1, <2>2 DEF Disconnect, TypeOK, HandlerInv
<1>13. ASSUME Collect PROVE ConnInv'
  <2>1. \A n \in Node : IsDirty(n) => nodes[n] \in LiveState
    BY DEF IsDirty, TypeOK
  <2>2. nodes' \in [Node -> LiveState \cup {None}] /\ batch' \in [Node -> Vec \cup {None}]
    BY <1>13, <2>1 DEF Collect, TypeOK, LiveState
  <2> QED BY <1>13, <2>2 DEF Collect, TypeOK, HandlerInv, RegisteredIsOpen
<1>14. ASSUME NEW n \in Node, Save(n) PROVE ConnInv'
  BY <1>14 DEF Save, TypeOK, HandlerInv, RegisteredIsOpen
<1>15. ASSUME NEW n \in Node, SaveFails(n) PROVE ConnInv'
  <2>1. nodes[n] # None => [nodes[n] EXCEPT !.dirty = TRUE] \in LiveState
    BY DEF TypeOK, LiveState
  <2>2. nodes[n] # None => nodes' = [nodes EXCEPT ![n] = [nodes[n] EXCEPT !.dirty = TRUE]]
    BY <1>15 DEF SaveFails
  <2>3. nodes' \in [Node -> LiveState \cup {None}]
    BY <1>15, <2>1, <2>2 DEF SaveFails, TypeOK
  <2> QED BY <1>15, <2>3 DEF SaveFails, TypeOK, HandlerInv, RegisteredIsOpen
<1>16. ASSUME NEW S \in SUBSET Node, Tick(S) PROVE ConnInv'
  BY <1>16 DEF Tick, TypeOK, HandlerInv, RegisteredIsOpen
<1>17. ASSUME NEW n \in Node, ResetRow(n) PROVE ConnInv'
  BY <1>17, ZeroIsVec DEF ResetRow, TypeOK, HandlerInv, RegisteredIsOpen
<1>18. ASSUME NEW n \in Node, ResetRowFails(n) PROVE ConnInv'
  BY <1>18 DEF ResetRowFails, TypeOK, HandlerInv, RegisteredIsOpen
<1>19. ASSUME NEW n \in Node, ResetLive(n) PROVE ConnInv'
  <2>1. nodes' \in [Node -> LiveState \cup {None}]
    BY <1>19, ZeroIsVec DEF ResetLive, Cleared, TypeOK, LiveState
  <2> QED BY <1>19, <2>1 DEF ResetLive, TypeOK, HandlerInv, RegisteredIsOpen
<1>20. ASSUME NEW n \in Node, DeleteRow(n) PROVE ConnInv'
  BY <1>20 DEF DeleteRow, TypeOK, HandlerInv, RegisteredIsOpen, DeletePhase
<1>21. ASSUME NEW n \in Node, CleanupNodes(n) PROVE ConnInv'
  BY <1>21 DEF CleanupNodes, TypeOK, HandlerInv, RegisteredIsOpen, DeletePhase
<1>22. ASSUME NEW n \in Node, CleanupConn(n) PROVE ConnInv'
  <2>1. \A c \in Conn : phase'[c] = IF c = agentConns[n] THEN "closed" ELSE phase[c]
    BY <1>22 DEF CleanupConn
  <2>2. phase' \in [Conn -> {"free", "fresh", "checked", "open", "closed"}]
    BY <1>22 DEF CleanupConn, TypeOK
  <2>3. RegisteredIsOpen' /\ HandlerInv'
    BY <1>22, <2>1, NoneAssumption DEF CleanupConn, TypeOK, HandlerInv, RegisteredIsOpen
  <2> QED BY <1>22, <2>2, <2>3 DEF CleanupConn, TypeOK, DeletePhase
<1>23. ASSUME NEW n \in Node, DeleteNotifyConfig(n) PROVE ConnInv'
  BY <1>23 DEF DeleteNotifyConfig, TypeOK, HandlerInv, RegisteredIsOpen, DeletePhase
<1>24. ASSUME Crash PROVE ConnInv'
  BY <1>24, NoneAssumption DEF Crash, TypeOK, HandlerInv, RegisteredIsOpen, DeletePhase
<1>25. ASSUME NEW n \in Node, EditRead(n) \/ EditFails(n) PROVE ConnInv'
  BY <1>25 DEF EditRead, EditFails, TypeOK, HandlerInv, RegisteredIsOpen
<1>26. ASSUME NEW n \in Node, EditSave(n) PROVE ConnInv'
  BY <1>26 DEF EditSave, TypeOK, HandlerInv, RegisteredIsOpen
<1>27. ASSUME UNCHANGED vars PROVE ConnInv'
  BY <1>27 DEF vars, TypeOK, HandlerInv, RegisteredIsOpen
<1> QED
  BY <1>1, <1>2, <1>3, <1>4, <1>5, <1>6, <1>7, <1>8, <1>9, <1>10, <1>11, <1>12, <1>13,
     <1>14, <1>15, <1>16, <1>17, <1>18, <1>19, <1>20, <1>21, <1>22, <1>23, <1>24, <1>25,
     <1>26, <1>27
     DEF Next

LEMMA ConnInvariant == Spec => []ConnInv
<1>1. Init => ConnInv
  BY ConnInit
<1>2. ConnInv /\ [Next]_vars => ConnInv'
  BY ConnStep
<1> QED BY <1>1, <1>2, PTL DEF Spec

(* Every variable keeps its type in every behaviour.                        *)
THEOREM TypeCorrect == Spec => []TypeOK
<1>1. ConnInv => TypeOK
  BY DEF ConnInv
<1> QED BY <1>1, ConnInvariant, PTL

(* A node has a registered connection exactly when one of the connections    *)
(* its agent dialled is open, so that an old handler which notices late that *)
(* it was replaced never takes the new connection away.                      *)
THEOREM RegisteredConnectionIsOpen == Spec => []RegisteredIsOpen
<1>1. ConnInv => RegisteredIsOpen
  BY DEF ConnInv
<1> QED BY <1>1, ConnInvariant, PTL
-----------------------------------------------------------------------------
(* CleanMatchesRow is not inductive: a batch that is on its way must hold the *)
(* total of every entry that is clean, a batch may not outlive the entry it   *)
(* was taken from, and a node that is not being deleted has its row.          *)
InFlightMatches ==
  \A n \in Kept :
    nodes[n] # None /\ ~nodes[n].dirty /\ batch[n] # None => batch[n] = nodes[n].total

NoOrphanBatch == \A n \in Kept : nodes[n] = None => batch[n] = None

RowsAreKept == Kept \subseteq rows

CleanInv == CleanMatchesRow /\ InFlightMatches /\ NoOrphanBatch /\ RowsAreKept

(* What a new or an existing entry says about the row.                      *)
LEMMA EntryForClean ==
  ASSUME TypeOK, CleanInv, NEW n \in Node, NEW failed \in BOOLEAN, LoadBase(n, failed),
         n \in Kept, n \notin misloaded' \cup rolledBack', resetting # n, batch[n] = None,
         ~EntryFor(n, failed).dirty
  PROVE  traffic[n] = EntryFor(n, failed).total
<1>1. CASE nodes[n] # None
  BY <1>1 DEF LoadBase, EntryFor, CleanInv, CleanMatchesRow
<1>2. CASE nodes[n] = None
  <2>1. ~failed
    BY <1>2 DEF LoadBase
  <2> QED BY <1>2, <2>1 DEF EntryFor, Entry, Base, CleanInv, RowsAreKept
<1> QED BY <1>1, <1>2

(* A sample that leaves an entry clean leaves its total alone.              *)
LEMMA UpdatedClean ==
  ASSUME NEW st, NEW s, ~Updated(st, s).dirty, st.dirty \in BOOLEAN
  PROVE  ~st.dirty /\ Updated(st, s).total = st.total
<1> DEFINE total == IF Counts(st, s) THEN [d \in Dir |-> st.total[d] + Delta(st, s)[d]]
                    ELSE st.total
<1>1. /\ Updated(st, s).total = total
      /\ Updated(st, s).dirty = (st.dirty \/ total # st.total)
  BY DEF Updated
<1> QED BY <1>1

LEMMA CleanInit == Init => CleanInv
  BY DEF Init, CleanInv, CleanMatchesRow, InFlightMatches, NoOrphanBatch, RowsAreKept, Kept

LEMMA CleanStep == ConnInv /\ CleanInv /\ [Next]_vars => CleanInv'
<1> SUFFICES ASSUME ConnInv, CleanInv, [Next]_vars PROVE CleanInv'
  OBVIOUS
<1> USE DEF CleanInv, CleanMatchesRow, InFlightMatches, NoOrphanBatch, RowsAreKept, Kept
<1> USE DEF agentVars, connVars, dbVars, resetVars, adminVars, editVars, ghostVars, failVars, loadVars
<1>1. ASSUME UNCHANGED <<nodes, batch, dbVars, resetting, deleting, misloaded, rolledBack>> PROVE CleanInv'
  BY <1>1
<1>2. ASSUME NEW n \in Node, NEW st, NEW failed \in BOOLEAN, LoadBase(n, failed),
             nodes' = [nodes EXCEPT ![n] = st], st # None,
             ~st.dirty => /\ ~EntryFor(n, failed).dirty
                          /\ st.total = EntryFor(n, failed).total,
             UNCHANGED <<batch, dbVars, resetting, deleting>>
      PROVE  CleanInv'
  <2>1. \A m \in Node : m # n => /\ nodes'[m] = nodes[m]
                                /\ (m \in misloaded' <=> m \in misloaded)
                                /\ (m \in rolledBack' <=> m \in rolledBack)
    BY <1>2 DEF LoadBase, ConnInv, TypeOK
  <2>2. nodes'[n] = st
    BY <1>2 DEF ConnInv, TypeOK
  <2>3. CleanMatchesRow'
    <3> SUFFICES ASSUME NEW m \in Kept', m \notin misloaded' \cup rolledBack', nodes'[m] # None,
                        ~nodes'[m].dirty, batch'[m] = None, resetting' # m
                 PROVE  traffic'[m] = nodes'[m].total
      OBVIOUS
    <3>1. CASE m = n
      <4>1. n \in Kept /\ resetting # n /\ batch[n] = None /\ ~st.dirty
        BY <1>2, <2>2, <3>1
      <4>2. traffic[n] = EntryFor(n, failed).total
        BY <1>2, <3>1, <4>1, EntryForClean DEF ConnInv
      <4> QED BY <1>2, <2>2, <3>1, <4>1, <4>2
    <3>2. CASE m # n
      BY <1>2, <2>1, <3>2 DEF ConnInv, TypeOK
    <3> QED BY <3>1, <3>2
  <2>4. InFlightMatches'
    <3> SUFFICES ASSUME NEW m \in Kept', nodes'[m] # None, ~nodes'[m].dirty, batch'[m] # None
                 PROVE  batch'[m] = nodes'[m].total
      OBVIOUS
    <3>1. CASE m = n
      <4>1. n \in Kept /\ batch[n] # None /\ ~st.dirty
        BY <1>2, <2>2, <3>1
      <4>2. nodes[n] # None
        BY <4>1
      <4> QED BY <1>2, <2>2, <3>1, <4>1, <4>2 DEF EntryFor
    <3>2. CASE m # n
      BY <1>2, <2>1, <3>2 DEF ConnInv, TypeOK
    <3> QED BY <3>1, <3>2
  <2>5. NoOrphanBatch' /\ RowsAreKept'
    BY <1>2, <2>1, <2>2 DEF ConnInv, TypeOK
  <2> QED BY <2>3, <2>4, <2>5
<1>3. ASSUME NEW c \in Conn, NEW failed \in BOOLEAN, EnsureLive(c, failed) PROVE CleanInv'
  <2>1. owner[c] \in Node
    BY <1>3 DEF EnsureLive, ConnInv, HandlerInv
  <2>2. EntryFor(owner[c], failed) # None
    BY <2>1, EntryForType, NoneAssumption DEF ConnInv
  <2> QED BY <1>2, <1>3, <2>1, <2>2 DEF EnsureLive
<1>4. ASSUME NEW c \in Conn, NEW failed \in BOOLEAN, Apply(c, failed) PROVE CleanInv'
  <2> DEFINE st == EntryFor(owner[c], failed)
  <2>1. owner[c] \in Node /\ inHand[c] \in Sample
    BY <1>4 DEF Apply, ConnInv, HandlerInv, TypeOK
  <2>2. st \in LiveState
    BY <2>1, EntryForType DEF ConnInv
  <2>3. Updated(st, inHand[c]) # None
    BY <2>1, <2>2, UpdatedType, NoneAssumption
  <2>4. ~Updated(st, inHand[c]).dirty => ~st.dirty /\ Updated(st, inHand[c]).total = st.total
    BY <2>2, UpdatedClean DEF LiveState
  <2> HIDE DEF st
  <2>5. /\ nodes' = [nodes EXCEPT ![owner[c]] = Updated(st, inHand[c])]
        /\ LoadBase(owner[c], failed)
        /\ UNCHANGED <<batch, dbVars, resetting, deleting>>
    BY <1>4 DEF Apply, st
  <2> QED BY <1>2, <2>1, <2>3, <2>4, <2>5 DEF st
<1>5. ASSUME Collect PROVE CleanInv'
  <2>1. \A n \in Node : IsDirty(n) => nodes[n] \in LiveState
    BY DEF IsDirty, ConnInv, TypeOK
  <2>2. \A n \in Node : IsDirty(n) => /\ nodes'[n].total = nodes[n].total
                                      /\ batch'[n] = nodes[n].total
                                      /\ batch'[n] # None
    BY <1>5, <2>1, NoneAssumption DEF Collect, LiveState
  <2>3. \A n \in Node : ~IsDirty(n) => nodes'[n] = nodes[n] /\ batch'[n] = batch[n]
    BY <1>5 DEF Collect
  <2>4. \A n \in Node : nodes[n] = None => ~IsDirty(n)
    BY DEF IsDirty
  <2>5. CleanMatchesRow'
    BY <1>5, <2>2, <2>3, <2>4 DEF Collect, ConnInv, TypeOK
  <2>6. InFlightMatches'
    BY <1>5, <2>2, <2>3 DEF Collect, ConnInv, TypeOK
  <2>7. NoOrphanBatch' /\ RowsAreKept'
    <3>1. \A n \in Node : IsDirty(n) => nodes'[n] # None
      BY <1>5, <2>1, NoneAssumption DEF Collect, LiveState
    <3> QED BY <1>5, <2>3, <3>1 DEF Collect, ConnInv, TypeOK
  <2> QED BY <2>5, <2>6, <2>7
<1>6. ASSUME NEW n \in Node, Save(n) PROVE CleanInv'
  <2>1. (batch'[n] = None /\ traffic'[n] = batch[n] /\ n \in rows) \/ n \notin Kept
    BY <1>6 DEF Save, ConnInv, TypeOK
  <2> QED BY <1>6, <2>1 DEF Save, ConnInv, TypeOK
<1>7. ASSUME NEW n \in Node, SaveFails(n) PROVE CleanInv'
  <2>1. nodes[n] # None => nodes[n] \in LiveState
    BY DEF ConnInv, TypeOK
  <2>2. nodes[n] # None => nodes'[n].dirty
    BY <1>7, <2>1 DEF SaveFails, ConnInv, TypeOK, LiveState
  <2>3. nodes[n] = None => nodes'[n] = None
    BY <1>7 DEF SaveFails, ConnInv, TypeOK
  <2>4. \A m \in Node : m # n => nodes'[m] = nodes[m] /\ batch'[m] = batch[m]
    BY <1>7 DEF SaveFails, ConnInv, TypeOK
  <2>5. batch'[n] = None
    BY <1>7 DEF SaveFails, ConnInv, TypeOK
  <2> QED BY <1>7, <2>2, <2>3, <2>4, <2>5 DEF SaveFails, ConnInv, TypeOK
<1>8. ASSUME NEW n \in Node, ResetRow(n) PROVE CleanInv'
  <2>1. resetting = None /\ resetting' = n
    BY <1>8 DEF ResetRow
  <2>2. \A m \in Node : m # n => traffic'[m] = traffic[m]
    BY <1>8 DEF ResetRow, ConnInv, TypeOK
  <2>3. UNCHANGED <<rows, nodes, batch, deleting, misloaded, rolledBack>>
    BY <1>8 DEF ResetRow
  <2>4. CleanMatchesRow'
    BY <2>1, <2>2, <2>3, NoneAssumption DEF ConnInv, TypeOK
  <2> QED BY <2>1, <2>2, <2>3, <2>4, NoneAssumption
<1>9. ASSUME NEW n \in Node, ResetLive(n) PROVE CleanInv'
  <2>1. nodes[n] # None => nodes'[n].dirty
    BY <1>9 DEF ResetLive, Cleared, ConnInv, TypeOK
  <2>2. nodes[n] = None => nodes'[n] = None
    BY <1>9 DEF ResetLive, ConnInv, TypeOK
  <2>3. \A m \in Node : m # n => nodes'[m] = nodes[m] /\ (m \in misloaded' <=> m \in misloaded)
    BY <1>9 DEF ResetLive, ConnInv, TypeOK
  <2>4. UNCHANGED <<rows, traffic, batch, deleting, rolledBack>>
    BY <1>9 DEF ResetLive
  <2>5. resetting = n /\ resetting' = None
    BY <1>9 DEF ResetLive
  <2>6. CleanMatchesRow'
    BY <2>1, <2>3, <2>4, <2>5, <2>2
  <2>7. InFlightMatches'
    BY <2>1, <2>2, <2>3, <2>4
  <2>8. NoOrphanBatch' /\ RowsAreKept'
    <3>1. Cleared \in LiveState
      BY ZeroIsVec DEF Cleared, LiveState
    <3>2. Cleared # None
      BY <3>1, NoneAssumption
    <3>3. nodes[n] # None => nodes'[n] # None
      BY <1>9, <3>2 DEF ResetLive, ConnInv, TypeOK
    <3> QED BY <2>3, <2>4, <3>3
  <2> QED BY <2>6, <2>7, <2>8
<1>10. ASSUME NEW n \in Node, DeleteRow(n) PROVE CleanInv'
  BY <1>10 DEF DeleteRow, ConnInv, TypeOK
<1>11. ASSUME NEW n \in Node, CleanupNodes(n) PROVE CleanInv'
  BY <1>11 DEF CleanupNodes, ConnInv, TypeOK
<1>12. ASSUME NEW n \in Node, CleanupConn(n) \/ DeleteNotifyConfig(n) PROVE CleanInv'
  BY <1>12 DEF CleanupConn, DeleteNotifyConfig, ConnInv, TypeOK
<1>18. ASSUME NEW n \in Node, EditRead(n) \/ EditFails(n) PROVE CleanInv'
  BY <1>1, <1>18 DEF EditRead, EditFails
<1>19. ASSUME NEW n \in Node, EditSave(n) PROVE CleanInv'
  BY <1>19 DEF EditSave, ConnInv, TypeOK
<1>13. ASSUME Crash PROVE CleanInv'
  BY <1>13 DEF Crash, ConnInv, TypeOK
<1>14. ASSUME NEW n \in Node,
              \/ \E d \in Dir : Move(n, d)
              \/ Reboot(n) \/ AgentRestart(n) \/ CounterReset(n)
              \/ \E c \in Conn : Dial(c, n)
              \/ ResetRowFails(n)
       PROVE  CleanInv'
  BY <1>1, <1>14 DEF Move, Reboot, AgentRestart, CounterReset, Dial, ResetRowFails
<1>15. ASSUME NEW c \in Conn,
              Accept(c) \/ Register(c) \/ Refuse(c) \/ Receive(c) \/ Disconnect(c)
       PROVE  CleanInv'
  BY <1>1, <1>15 DEF Accept, Register, Refuse, Receive, Disconnect
<1>16. ASSUME NEW S \in SUBSET Node, Tick(S) PROVE CleanInv'
  BY <1>1, <1>16 DEF Tick
<1>17. ASSUME UNCHANGED vars PROVE CleanInv'
  BY <1>1, <1>17 DEF vars
<1> QED
  BY <1>3, <1>4, <1>5, <1>6, <1>7, <1>8, <1>9, <1>10, <1>11, <1>12, <1>13, <1>14, <1>15,
     <1>16, <1>17, <1>18, <1>19 DEF Next

(* No total is forgotten: once an entry is clean and no batch of it is under *)
(* way, the row holds its total, however samples, failing writes, resets,    *)
(* reconnections, deletions and crashes interleave.                          *)
THEOREM CleanEntryMatchesRow == Spec => []CleanMatchesRow
<1>1. Init => CleanInv
  BY CleanInit
<1>2. ConnInv /\ CleanInv /\ [Next]_vars => CleanInv'
  BY CleanStep
<1>3. CleanInv => CleanMatchesRow
  BY DEF CleanInv
<1> QED BY <1>1, <1>2, <1>3, ConnInvariant, PTL DEF Spec
-----------------------------------------------------------------------------
(* Order of samples.  A point in the life of a node is what it had moved and *)
(* what its counter said; from one point to a later one neither the bytes    *)
(* moved nor the bytes the counter has lost become fewer.                    *)
Upto(v, w) == \A d \in Dir : v[d] <= w[d]

Precedes(m, v, m2, v2) == \A d \in Dir : m[d] <= m2[d] /\ m[d] - v[d] <= m2[d] - v2[d]

Seen(n) == nodes[n] # None /\ nodes[n].seen

HeardInv ==
  \A n \in Node :
    /\ Upto(heard[n], moved[n])
    /\ n \notin late => Upto(cycleStart[n], heard[n])

(* The baseline of an entry lies in the past of the node, and so does every  *)
(* sample in a hand.                                                         *)
BaselineInv ==
  \A n \in Node : Seen(n) => Precedes(heard[n], nodes[n].last, moved[n], counter[n])

HandInv ==
  \A c \in Conn :
    inHand[c] # None =>
      Precedes(inHand[c].moved, inHand[c].counter, moved[owner[c]], counter[owner[c]])

(* The sample in the hand of the registered handler is the newest one, unless *)
(* it is the first one, read before the handler was registered.               *)
NewestInv ==
  \A c \in Conn :
    inHand[c] # None /\ phase[c] = "open" /\ ~inHand[c].first /\ owner[c] \notin late =>
      /\ Upto(heard[owner[c]], inHand[c].moved)
      /\ Seen(owner[c]) => Precedes(heard[owner[c]], nodes[owner[c]].last,
                                    inHand[c].moved, inHand[c].counter)

OrderInv == HeardInv /\ BaselineInv /\ HandInv /\ NewestInv

LEMMA OrderInit == Init => OrderInv
  BY ZeroIsVec DEF Init, OrderInv, HeardInv, BaselineInv, HandInv, NewestInv, Seen, Upto, Zero

(* A step that moves no byte and applies no sample.                          *)
LEMMA OrderQuiet ==
  ASSUME ConnInv, OrderInv, UNCHANGED <<moved, counter, heard, late>>,
         \A n \in Node : cycleStart'[n] \in {cycleStart[n], heard[n]},
         \A n \in Node : Seen(n)' => Seen(n) /\ nodes'[n].last = nodes[n].last,
         \A c \in Conn : inHand'[c] # None =>
           /\ inHand'[c] = inHand[c] /\ owner'[c] = owner[c]
           /\ phase'[c] = "open" /\ ~inHand[c].first => phase[c] = "open"
  PROVE  OrderInv'
<1>1. \A c \in Conn : inHand[c] # None => owner[c] \in Node
  BY DEF ConnInv, HandlerInv
<1>2. HeardInv'
  <2>1. \A n \in Node : Upto(heard[n], heard[n])
    BY DEF Upto, ConnInv, TypeOK, Vec
  <2> QED BY <2>1 DEF OrderInv, HeardInv
<1>3. BaselineInv'
  BY DEF OrderInv, BaselineInv
<1>4. HandInv'
  BY DEF OrderInv, HandInv
<1>5. NewestInv'
  <2> SUFFICES ASSUME NEW c \in Conn, inHand'[c] # None, phase'[c] = "open", ~inHand'[c].first,
                      owner'[c] \notin late'
               PROVE  /\ Upto(heard[owner[c]], inHand[c].moved)
                      /\ Seen(owner[c])' => Precedes(heard[owner[c]], nodes'[owner[c]].last,
                                                     inHand[c].moved, inHand[c].counter)
    BY DEF NewestInv
  <2> QED BY <1>1 DEF OrderInv, NewestInv
<1> QED BY <1>2, <1>3, <1>4, <1>5 DEF OrderInv

(* Time goes on for the node.                                                *)
LEMMA OrderClock ==
  ASSUME ConnInv, ConnInv', OrderInv,
         \A n \in Node : Precedes(moved[n], counter[n], moved'[n], counter'[n]),
         UNCHANGED <<heard, cycleStart, late, nodes, inHand, phase, owner>>
  PROVE  OrderInv'
<1>1. /\ \A n \in Node : {moved[n], moved'[n], counter[n], counter'[n], heard[n]} \subseteq Vec
      /\ \A n \in Node : nodes[n] # None => nodes[n].last \in Vec
      /\ \A c \in Conn : inHand[c] # None => owner[c] \in Node /\ inHand[c].moved \in Vec /\ inHand[c].counter \in Vec
  <2>1. \A n \in Node : nodes[n] # None => nodes[n] \in LiveState
    BY DEF ConnInv, TypeOK
  <2>2. \A c \in Conn : inHand[c] # None => owner[c] \in Node /\ inHand[c] \in Sample
    BY DEF ConnInv, HandlerInv, TypeOK
  <2> QED BY <2>1, <2>2 DEF ConnInv, TypeOK, LiveState, Sample
<1>2. HeardInv'
  BY <1>1 DEF OrderInv, HeardInv, Upto, Precedes, Vec
<1>3. BaselineInv'
  <2> SUFFICES ASSUME NEW n \in Node, Seen(n), NEW d \in Dir
               PROVE  heard[n][d] <= moved'[n][d] /\ heard[n][d] - nodes[n].last[d] <= moved'[n][d] - counter'[n][d]
    BY DEF BaselineInv, Seen, Precedes
  <2>1. /\ heard[n][d] <= moved[n][d] /\ heard[n][d] - nodes[n].last[d] <= moved[n][d] - counter[n][d]
        /\ moved[n][d] <= moved'[n][d] /\ moved[n][d] - counter[n][d] <= moved'[n][d] - counter'[n][d]
    BY DEF OrderInv, BaselineInv, Precedes
  <2> QED BY <1>1, <2>1 DEF Seen, Vec
<1>4. HandInv'
  BY <1>1 DEF OrderInv, HandInv, Precedes, Vec
<1>5. NewestInv'
  BY DEF OrderInv, NewestInv, Seen
<1> QED BY <1>2, <1>3, <1>4, <1>5 DEF OrderInv

LEMMA OrderReceive ==
  ASSUME ConnInv, OrderInv, NEW c \in Conn, Receive(c) PROVE OrderInv'
<1> DEFINE n == owner[c]
           s == [boot |-> bootId[n], counter |-> counter[n], moved |-> moved[n],
                 first |-> phase[c] = "fresh"]
<1>1. n \in Node
  BY DEF Receive, ConnInv, HandlerInv
<1>2. inHand'[c] = s /\ \A e \in Conn : e # c => inHand'[e] = inHand[e]
  BY DEF Receive, ConnInv, TypeOK
<1>3. UNCHANGED <<moved, counter, heard, cycleStart, late, nodes, phase, owner>>
  BY DEF Receive, agentVars, connVars, ghostVars
<1>4. Precedes(s.moved, s.counter, moved[n], counter[n])
  BY <1>1 DEF Precedes, ConnInv, TypeOK, Vec
<1> HIDE DEF s
<1>5. HeardInv' /\ BaselineInv'
  BY <1>3 DEF OrderInv, HeardInv, BaselineInv, Seen
<1>6. HandInv'
  BY <1>2, <1>3, <1>4 DEF OrderInv, HandInv
<1>7. s.moved = moved[n] /\ s.counter = counter[n]
  BY DEF s
<1>8. NewestInv'
  <2> SUFFICES ASSUME NEW e \in Conn, inHand'[e] # None, phase[e] = "open", ~inHand'[e].first,
                      owner[e] \notin late
               PROVE  /\ Upto(heard[owner[e]], inHand'[e].moved)
                      /\ Seen(owner[e]) => Precedes(heard[owner[e]], nodes[owner[e]].last,
                                                    inHand'[e].moved, inHand'[e].counter)
    BY <1>3 DEF NewestInv, Seen
  <2>1. CASE e = c
    BY <1>1, <1>2, <1>7, <2>1 DEF OrderInv, HeardInv, BaselineInv
  <2>2. CASE e # c
    BY <1>2, <2>2 DEF OrderInv, NewestInv
  <2> QED BY <2>1, <2>2
<1> QED BY <1>5, <1>6, <1>8 DEF OrderInv

(* A sample that is not counted late is the newest one.                      *)
LEMMA NewestSample ==
  ASSUME ConnInv, OrderInv, NEW c \in Conn, inHand[c] # None, phase[c] = "open",
         owner[c] \notin late, ~(inHand[c].first /\ Older(inHand[c], owner[c]))
  PROVE  /\ Upto(heard[owner[c]], inHand[c].moved)
         /\ Seen(owner[c]) => Precedes(heard[owner[c]], nodes[owner[c]].last,
                                       inHand[c].moved, inHand[c].counter)
<1> DEFINE n == owner[c]
           s == inHand[c]
<1>1. n \in Node /\ s \in Sample
  BY DEF ConnInv, HandlerInv, TypeOK
<1>2. CASE ~s.first
  BY <1>2 DEF OrderInv, NewestInv
<1>3. CASE s.first
  <2>1. /\ heard[n] \in Vec /\ s.moved \in Vec /\ s.counter \in Vec
        /\ nodes[n] # None => nodes[n].last \in Vec
    BY <1>1 DEF ConnInv, TypeOK, Sample, LiveState
  <2>2. ~Older(s, n)
    BY <1>3
  <2> HIDE DEF n, s
  <2>3. Upto(heard[n], s.moved)
    BY <2>1, <2>2 DEF Older, Upto, Vec
  <2>4. ASSUME Seen(n) PROVE Precedes(heard[n], nodes[n].last, s.moved, s.counter)
    BY <2>1, <2>2, <2>4 DEF Older, Seen, Precedes, Vec
  <2> QED BY <2>3, <2>4 DEF n, s
<1> QED BY <1>2, <1>3

LEMMA OrderApply ==
  ASSUME ConnInv, OrderInv, NEW c \in Conn, NEW failed \in BOOLEAN, Apply(c, failed) PROVE OrderInv'
<1> DEFINE n == owner[c]
           s == inHand[c]
<1>1. n \in Node /\ s \in Sample /\ s # None
  BY DEF Apply, ConnInv, HandlerInv, TypeOK
<1>2. /\ inHand'[c] = None /\ \A e \in Conn : e # c => inHand'[e] = inHand[e]
      /\ heard'[n] = s.moved /\ \A m \in Node : m # n => heard'[m] = heard[m]
      /\ late' = IF phase[c] = "open" /\ ~(s.first /\ Older(s, n)) THEN late ELSE late \cup {n}
      /\ UNCHANGED <<moved, counter, cycleStart, phase, owner>>
  BY <1>1 DEF Apply, ConnInv, TypeOK, agentVars, connVars
<1>3. /\ nodes'[n] # None => nodes'[n].last = s.counter
      /\ \A m \in Node : m # n => nodes'[m] = nodes[m]
  BY <1>1 DEF Apply, ConnInv, TypeOK, Updated
<1>4. Precedes(s.moved, s.counter, moved[n], counter[n])
  BY <1>1 DEF OrderInv, HandInv
<1>5. HeardInv'
  <2> SUFFICES ASSUME NEW m \in Node
               PROVE  Upto(heard'[m], moved[m]) /\ (m \notin late' => Upto(cycleStart[m], heard'[m]))
    BY <1>2 DEF HeardInv
  <2>1. CASE m # n
    BY <1>2, <2>1 DEF OrderInv, HeardInv
  <2>2. CASE m = n
    <3>1. Upto(s.moved, moved[n])
      BY <1>4 DEF Precedes, Upto
    <3>2. ASSUME n \notin late' PROVE Upto(cycleStart[n], s.moved)
      <4>1. phase[c] = "open" /\ n \notin late /\ ~(s.first /\ Older(s, n))
        BY <1>2, <3>2
      <4>2. Upto(cycleStart[n], heard[n]) /\ Upto(heard[n], s.moved)
        BY <1>1, <4>1, NewestSample DEF OrderInv, HeardInv
      <4>3. cycleStart[n] \in Vec /\ heard[n] \in Vec /\ s.moved \in Vec
        BY <1>1 DEF ConnInv, TypeOK, Sample
      <4> QED BY <4>2, <4>3 DEF Upto, Vec
    <3> QED BY <1>2, <2>2, <3>1, <3>2
  <2> QED BY <2>1, <2>2
<1>6. BaselineInv'
  BY <1>2, <1>3, <1>4 DEF OrderInv, BaselineInv, Seen
<1>7. HandInv'
  BY <1>2 DEF OrderInv, HandInv
<1>8. NewestInv'
  <2> SUFFICES ASSUME NEW e \in Conn, inHand'[e] # None, phase[e] = "open", ~inHand'[e].first,
                      owner[e] \notin late'
               PROVE  /\ Upto(heard'[owner[e]], inHand[e].moved)
                      /\ Seen(owner[e])' => Precedes(heard'[owner[e]], nodes'[owner[e]].last,
                                                     inHand[e].moved, inHand[e].counter)
    BY <1>2 DEF NewestInv
  <2>1. e # c /\ owner[e] \in Node /\ inHand[e] # None
    BY <1>2 DEF ConnInv, HandlerInv
  <2>2. owner[e] # n
    BY <1>1, <1>2, <2>1 DEF ConnInv, RegisteredIsOpen
  <2>3. owner[e] \notin late
    BY <1>2
  <2> QED BY <1>2, <1>3, <2>1, <2>2, <2>3 DEF OrderInv, NewestInv, Seen
<1> QED BY <1>5, <1>6, <1>7, <1>8 DEF OrderInv

LEMMA OrderStep == ConnInv /\ OrderInv /\ [Next]_vars => OrderInv'
<1> SUFFICES ASSUME ConnInv, OrderInv, [Next]_vars PROVE OrderInv'
  OBVIOUS
<1>0. ConnInv'
  BY ConnStep
<1> USE DEF agentVars, connVars, dbVars, resetVars, adminVars, editVars, ghostVars, failVars, loadVars
<1>1. ASSUME NEW n \in Node, (\E d \in Dir : Move(n, d)) \/ CounterReset(n) \/ Reboot(n) PROVE OrderInv'
  <2>1. \A m \in Node : moved[m] \in Vec /\ counter[m] \in Vec
    BY DEF ConnInv, TypeOK
  <2>2. \A m \in Node : Precedes(moved[m], counter[m], moved'[m], counter'[m])
    <3>1. CASE \E d \in Dir : Move(n, d)
      <4>1. PICK d \in Dir : Move(n, d)
        BY <3>1
      <4> SUFFICES ASSUME NEW m \in Node, NEW e \in Dir
                   PROVE  moved[m][e] <= moved'[m][e] /\ moved[m][e] - counter[m][e] <= moved'[m][e] - counter'[m][e]
        BY DEF Precedes
      <4>2. moved[m][e] \in Nat /\ counter[m][e] \in Nat
        BY <2>1 DEF Vec
      <4>3. \/ moved'[m][e] = moved[m][e] + 1 /\ counter'[m][e] = counter[m][e] + 1
            \/ moved'[m][e] = moved[m][e] /\ counter'[m][e] = counter[m][e]
        BY <2>1, <4>1 DEF Move, ConnInv, TypeOK, Vec
      <4> QED BY <4>2, <4>3
    <3>2. CASE CounterReset(n) \/ Reboot(n)
      <4> SUFFICES ASSUME NEW m \in Node, NEW e \in Dir
                   PROVE  moved[m][e] <= moved'[m][e] /\ moved[m][e] - counter[m][e] <= moved'[m][e] - counter'[m][e]
        BY DEF Precedes
      <4>1. moved[m][e] \in Nat /\ counter[m][e] \in Nat
        BY <2>1 DEF Vec
      <4>2. moved' = moved /\ counter' = [counter EXCEPT ![n] = Zero]
        BY <3>2 DEF CounterReset, Reboot
      <4>3. counter'[m] = IF m = n THEN Zero ELSE counter[m]
        BY <4>2 DEF ConnInv, TypeOK
      <4>4. counter'[m][e] = 0 \/ counter'[m][e] = counter[m][e]
        BY <4>3 DEF Zero
      <4> QED BY <4>1, <4>2, <4>4
    <3> QED BY <1>1, <3>1, <3>2
  <2> QED BY <1>0, <1>1, <2>2, OrderClock DEF Move, CounterReset, Reboot
<1>2. ASSUME NEW c \in Conn, Receive(c) \/ \E failed \in BOOLEAN : Apply(c, failed) PROVE OrderInv'
  BY <1>2, OrderReceive, OrderApply
<1>3. ASSUME UNCHANGED <<moved, counter, heard, cycleStart, late, nodes, inHand, owner>>,
             \A c \in Conn : inHand[c] # None /\ phase'[c] = "open" /\ ~inHand[c].first
                             => phase[c] = "open"
      PROVE  OrderInv'
  BY <1>3, OrderQuiet DEF Seen
<1>4. ASSUME UNCHANGED <<moved, counter, heard, late, inHand, owner, phase>>,
             \A n \in Node : cycleStart'[n] \in {cycleStart[n], heard[n]},
             \A n \in Node : Seen(n)' => Seen(n) /\ nodes'[n].last = nodes[n].last
      PROVE  OrderInv'
  BY <1>4, OrderQuiet
<1>5. ASSUME NEW n \in Node, NEW c \in Conn, Dial(c, n) PROVE OrderInv'
  <2>1. inHand[c] = None
    BY <1>5 DEF Dial, ConnInv, HandlerInv
  <2>2. \A e \in Conn : e # c => owner'[e] = owner[e] /\ phase'[e] = phase[e]
    BY <1>5 DEF Dial, ConnInv, TypeOK
  <2> QED BY <1>5, <2>1, <2>2, OrderQuiet DEF Dial, Seen
<1>6. ASSUME NEW c \in Conn, Refuse(c) \/ Disconnect(c) PROVE OrderInv'
  <2>1. inHand'[c] = None /\ \A e \in Conn : e # c => inHand'[e] = inHand[e]
    BY <1>6 DEF Refuse, Disconnect, ConnInv, TypeOK
  <2>2. \A e \in Conn : e # c => owner'[e] = owner[e] /\ phase'[e] = phase[e]
    BY <1>6 DEF Refuse, Disconnect, ConnInv, TypeOK
  <2> QED BY <1>6, <2>1, <2>2, OrderQuiet DEF Refuse, Disconnect, Seen
<1>7. ASSUME NEW c \in Conn, Accept(c) \/ Register(c) PROVE OrderInv'
  <2>1. phase'[c] # "open" \/ inHand[c] = None \/ inHand[c].first
    BY <1>7 DEF Accept, Register, ConnInv, HandlerInv, TypeOK
  <2>2. \A e \in Conn : e # c /\ phase'[e] = "open" => phase[e] = "open"
    BY <1>7 DEF Accept, Register, ConnInv, TypeOK
  <2> QED BY <1>3, <1>7, <2>1, <2>2 DEF Accept, Register
<1>8. ASSUME NEW c \in Conn, NEW failed \in BOOLEAN, EnsureLive(c, failed) PROVE OrderInv'
  <2>1. owner[c] \in Node
    BY <1>8 DEF EnsureLive, ConnInv, HandlerInv
  <2>2. \A n \in Node : Seen(n)' => Seen(n) /\ nodes'[n].last = nodes[n].last
    BY <1>8, <2>1 DEF EnsureLive, EntryFor, Entry, Seen, ConnInv, TypeOK
  <2> QED BY <1>4, <1>8, <2>2 DEF EnsureLive
<1>9. CASE Collect
  <2>1. \A n \in Node : IsDirty(n) => nodes[n] \in LiveState
    BY DEF IsDirty, ConnInv, TypeOK
  <2>2. \A n \in Node : Seen(n)' => Seen(n) /\ nodes'[n].last = nodes[n].last
    BY <1>9, <2>1 DEF Collect, Seen, IsDirty, LiveState
  <2> QED BY <1>4, <1>9, <2>2 DEF Collect
<1>10. ASSUME NEW n \in Node, SaveFails(n) PROVE OrderInv'
  <2>1. nodes[n] # None => nodes[n] \in LiveState
    BY DEF ConnInv, TypeOK
  <2>2. \A m \in Node : Seen(m)' => Seen(m) /\ nodes'[m].last = nodes[m].last
    BY <1>10, <2>1 DEF SaveFails, Seen, LiveState, ConnInv, TypeOK
  <2> QED BY <1>4, <1>10, <2>2 DEF SaveFails
<1>11. ASSUME NEW n \in Node, ResetLive(n) PROVE OrderInv'
  <2>1. \A m \in Node : Seen(m)' => Seen(m) /\ nodes'[m].last = nodes[m].last
    BY <1>11 DEF ResetLive, Cleared, Seen, ConnInv, TypeOK
  <2>2. \A m \in Node : cycleStart'[m] \in {cycleStart[m], heard[m]}
    BY <1>11 DEF ResetLive, ConnInv, TypeOK
  <2> QED BY <1>4, <1>11, <2>1, <2>2 DEF ResetLive
<1>12. ASSUME NEW n \in Node, CleanupNodes(n) PROVE OrderInv'
  BY <1>4, <1>12 DEF CleanupNodes, Seen, ConnInv, TypeOK
<1>13. ASSUME NEW n \in Node, CleanupConn(n) PROVE OrderInv'
  BY <1>3, <1>13 DEF CleanupConn
<1>14. CASE Crash
  BY <1>14, OrderQuiet DEF Crash, Seen
<1>15. ASSUME NEW n \in Node,
              \/ AgentRestart(n) \/ Save(n) \/ ResetRow(n) \/ ResetRowFails(n) \/ DeleteRow(n)
              \/ DeleteNotifyConfig(n) \/ EditRead(n) \/ EditSave(n) \/ EditFails(n)
       PROVE  OrderInv'
  BY <1>3, <1>15 DEF AgentRestart, Save, ResetRow, ResetRowFails, DeleteRow, DeleteNotifyConfig,
     EditRead, EditSave, EditFails
<1>16. ASSUME NEW S \in SUBSET Node, Tick(S) PROVE OrderInv'
  BY <1>3, <1>16 DEF Tick
<1>17. CASE UNCHANGED vars
  BY <1>3, <1>17 DEF vars
<1> QED
  BY <1>1, <1>2, <1>5, <1>6, <1>7, <1>8, <1>9, <1>10, <1>11, <1>12, <1>13, <1>14, <1>15, <1>16, <1>17
     DEF Next
-----------------------------------------------------------------------------
(* In the first cycle every copy of a total is one of bytes that were heard  *)
(* of: the live one, the one in a batch, that of the row, and the one an     *)
(* edit has read.  Later a copy may be of an earlier cycle; the live total   *)
(* is not, for it starts from the row only once unless the panel crashes.    *)
FirstCycle(n) ==
  /\ cycleStart[n] = Zero
  /\ Within(traffic[n], n)
  /\ batch[n] # None => Within(batch[n], n)
  /\ edit[n] # None => Within(edit[n], n)
  /\ nodes[n] # None => Within(nodes[n].total, n)

NeverCrashed(n) ==
  IF nodes[n] = None THEN traffic[n] = Zero /\ edit[n] \in {None, Zero}
                     ELSE Within(nodes[n].total, n)

Fits(n) ==
  /\ resets[n] = 0 => FirstCycle(n)
  /\ crashes = 0 /\ n \in Kept => NeverCrashed(n)

ResettingInv == resetting # None => resets[resetting] # 0

MeterInv == ResettingInv /\ \A n \in Node \ late : Fits(n)

LEMMA MeterInit == Init => MeterInv
  BY ZeroIsVec DEF Init, MeterInv, ResettingInv, Fits, FirstCycle, NeverCrashed, Within, Zero, Vec

(* A node that a step does not touch.                                        *)
LEMMA FitsSame ==
  ASSUME NEW m \in Node, Fits(m), crashes' = 0 => crashes = 0, m \in Kept' => m \in Kept,
         resets'[m] = resets[m], cycleStart'[m] = cycleStart[m], heard'[m] = heard[m],
         traffic'[m] = traffic[m], batch'[m] = batch[m], edit'[m] = edit[m],
         nodes'[m] = nodes[m]
  PROVE  Fits(m)'
  BY DEF Fits, FirstCycle, NeverCrashed, Within

(* Zero fits, and so does what the entry of a node starts from.              *)
LEMMA ZeroFits ==
  ASSUME ConnInv, OrderInv, NEW m \in Node, m \notin late PROVE Within(Zero, m)
<1>1. heard[m] \in Vec /\ cycleStart[m] \in Vec
  BY DEF ConnInv, TypeOK
<1>2. Upto(cycleStart[m], heard[m])
  BY DEF OrderInv, HeardInv
<1> QED BY <1>1, <1>2 DEF Within, Zero, Upto, Vec

LEMMA EntryFits ==
  ASSUME ConnInv, OrderInv, NEW m \in Node, m \notin late, Fits(m), NEW failed \in BOOLEAN,
         resets[m] = 0 \/ (crashes = 0 /\ m \in Kept)
  PROVE  Within(EntryFor(m, failed).total, m)
<1>1. Within(Zero, m)
  BY ZeroFits
<1>2. CASE nodes[m] # None
  BY <1>2 DEF EntryFor, Fits, FirstCycle, NeverCrashed
<1>3. CASE nodes[m] = None
  <2>1. EntryFor(m, failed).total = Base(m, failed)
    BY <1>3 DEF EntryFor, Entry
  <2> QED BY <1>1, <1>3, <2>1 DEF Base, Fits, FirstCycle, NeverCrashed
<1> QED BY <1>2, <1>3

(* A sample counts for no more than was moved since the one before.          *)
LEMMA SampleFits ==
  ASSUME ConnInv, OrderInv, NEW c \in Conn, NEW failed \in BOOLEAN, inHand[c] # None,
         phase[c] = "open", owner[c] \notin late,
         ~(inHand[c].first /\ Older(inHand[c], owner[c])), NEW total,
         Within(EntryFor(owner[c], failed).total, owner[c]),
         total = Updated(EntryFor(owner[c], failed), inHand[c]).total
  PROVE  \A d \in Dir : total[d] <= inHand[c].moved[d] - cycleStart[owner[c]][d]
<1> DEFINE n == owner[c]
           s == inHand[c]
           st == EntryFor(n, failed)
<1>1. n \in Node /\ s \in Sample
  BY DEF ConnInv, HandlerInv, TypeOK
<1>2. st \in LiveState
  BY <1>1, EntryForType DEF ConnInv
<1>3. /\ st.total \in Vec /\ st.last \in Vec /\ s.counter \in Vec /\ s.moved \in Vec
      /\ heard[n] \in Vec /\ cycleStart[n] \in Vec
  BY <1>1, <1>2 DEF LiveState, Sample, ConnInv, TypeOK
<1>4. Upto(heard[n], s.moved)
  BY NewestSample
<1>5. st.seen => Precedes(heard[n], st.last, s.moved, s.counter)
  BY <1>1, NewestSample DEF Seen, EntryFor, Entry
<1>6. total = IF Counts(st, s) THEN [d \in Dir |-> st.total[d] + Delta(st, s)[d]] ELSE st.total
  BY DEF Updated
<1>7. Within(st.total, n)
  OBVIOUS
<1> HIDE DEF st, s, n
<1>8. ASSUME NEW d \in Dir PROVE total[d] <= s.moved[d] - cycleStart[n][d]
  <2>1. /\ st.total[d] \in Nat /\ st.last[d] \in Nat /\ s.counter[d] \in Nat /\ s.moved[d] \in Nat
        /\ heard[n][d] \in Nat /\ cycleStart[n][d] \in Nat
    BY <1>3 DEF Vec
  <2>2. st.total[d] <= heard[n][d] - cycleStart[n][d] /\ heard[n][d] <= s.moved[d]
    BY <1>4, <1>7 DEF Within, Upto
  <2>3. CASE Counts(st, s)
    <3>1. total[d] = st.total[d] + (s.counter[d] - st.last[d])
      BY <1>6, <2>3 DEF Delta
    <3>2. heard[n][d] - st.last[d] <= s.moved[d] - s.counter[d]
      BY <1>5, <2>3 DEF Counts, Precedes
    <3> QED BY <2>1, <2>2, <3>1, <3>2
  <2>4. CASE ~Counts(st, s)
    BY <1>6, <2>1, <2>2, <2>4
  <2> QED BY <2>3, <2>4
<1> QED BY <1>8 DEF s, n

LEMMA MeterApply ==
  ASSUME ConnInv, OrderInv, MeterInv, NEW c \in Conn, NEW failed \in BOOLEAN, Apply(c, failed),
         NEW m \in Node \ late'
  PROVE  Fits(m)'
<1>0. PICK n \in Node : n = owner[c]
  BY DEF Apply, ConnInv, HandlerInv, TypeOK
<1> DEFINE s == inHand[c]
           total == Updated(EntryFor(n, failed), s).total
<1>1. s \in Sample /\ s # None
  BY DEF Apply, ConnInv, TypeOK
<1>2. /\ heard'[n] = s.moved /\ \A k \in Node : k # n => heard'[k] = heard[k]
      /\ nodes'[n] = Updated(EntryFor(n, failed), s)
      /\ \A k \in Node : k # n => nodes'[k] = nodes[k]
      /\ late' = IF phase[c] = "open" /\ ~(s.first /\ Older(s, n)) THEN late ELSE late \cup {n}
      /\ UNCHANGED <<traffic, batch, edit, resets, cycleStart, crashes, deleting>>
  BY <1>0, <1>1 DEF Apply, ConnInv, TypeOK, dbVars, resetVars, adminVars, editVars, failVars
<1>3. m \notin late /\ Fits(m)
  BY <1>2 DEF MeterInv
<1>4. CASE m # n
  BY <1>2, <1>3, <1>4, FitsSame DEF Kept
<1>5. CASE m = n
  <2>1. phase[c] = "open" /\ n \notin late /\ ~(s.first /\ Older(s, n))
    BY <1>2, <1>5
  <2>2. nodes'[n] # None
    BY <1>1, <1>2, EntryForType, UpdatedType, NoneAssumption DEF ConnInv
  <2>3. \A d \in Dir : /\ heard[n][d] \in Nat /\ cycleStart[n][d] \in Nat /\ s.moved[d] \in Nat
                       /\ heard[n][d] <= s.moved[d]
    <3>1. heard[n] \in Vec /\ cycleStart[n] \in Vec /\ s.moved \in Vec
      BY <1>1 DEF ConnInv, TypeOK, Sample
    <3>2. Upto(heard[n], s.moved)
      BY <1>0, <1>1, <2>1, NewestSample
    <3> QED BY <3>1, <3>2 DEF Upto, Vec
  <2>4. ASSUME resets[n] = 0 \/ (crashes = 0 /\ n \in Kept) PROVE Within(nodes[n].total, n)'
    <3>1. Within(EntryFor(n, failed).total, n)
      BY <1>3, <1>5, <2>1, <2>4, EntryFits
    <3>2. \A d \in Dir : total[d] <= s.moved[d] - cycleStart[n][d]
      BY <1>0, <1>1, <2>1, <3>1, SampleFits
    <3>3. nodes'[n].total = total
      BY <1>2
    <3> HIDE DEF total, s
    <3> QED BY <1>2, <3>2, <3>3 DEF Within
  <2>5. ASSUME resets[n] = 0 PROVE FirstCycle(n)'
    <3>1. FirstCycle(n)
      BY <1>3, <1>5, <2>5 DEF Fits
    <3> HIDE DEF total, s
    <3>2. Within(traffic[n], n)'
      <4>1. \A d \in Dir : traffic[n][d] \in Nat
        BY DEF ConnInv, TypeOK, Vec
      <4> QED BY <1>2, <2>3, <3>1, <4>1 DEF FirstCycle, Within
    <3>3. batch[n] # None => Within(batch[n], n)'
      <4>1. batch[n] # None => \A d \in Dir : batch[n][d] \in Nat
        BY DEF ConnInv, TypeOK, Vec
      <4> QED BY <1>2, <2>3, <3>1, <4>1 DEF FirstCycle, Within
    <3>4. edit[n] # None => Within(edit[n], n)'
      <4>1. edit[n] # None => \A d \in Dir : edit[n][d] \in Nat
        BY DEF ConnInv, TypeOK, Vec
      <4> QED BY <1>2, <2>3, <3>1, <4>1 DEF FirstCycle, Within
    <3> QED BY <1>2, <2>4, <2>5, <3>1, <3>2, <3>3, <3>4 DEF FirstCycle
  <2>6. ASSUME crashes = 0, n \in Kept PROVE NeverCrashed(n)'
    BY <2>2, <2>4, <2>6 DEF NeverCrashed
  <2>7. crashes' = crashes /\ resets' = resets /\ Kept' = Kept
    BY <1>2 DEF Kept
  <2> QED BY <1>5, <2>5, <2>6, <2>7 DEF Fits
<1> QED BY <1>4, <1>5

LEMMA MeterStep == ConnInv /\ OrderInv /\ CleanInv /\ MeterInv /\ [Next]_vars => MeterInv'
<1> SUFFICES ASSUME ConnInv, OrderInv, CleanInv, MeterInv, [Next]_vars PROVE MeterInv'
  OBVIOUS
<1> USE DEF agentVars, connVars, dbVars, resetVars, adminVars, editVars, ghostVars, failVars, loadVars
<1>1. ASSUME UNCHANGED <<resetting, resets>>, \A m \in Node \ late' : Fits(m)' PROVE MeterInv'
  BY <1>1 DEF MeterInv, ResettingInv
<1>2. ASSUME UNCHANGED <<heard, cycleStart, late, nodes, batch, traffic, resets, edit, resetting, crashes>>,
             Kept' \subseteq Kept
      PROVE  MeterInv'
  BY <1>1, <1>2, FitsSame DEF MeterInv
<1>3. ASSUME NEW c \in Conn, NEW failed \in BOOLEAN, Apply(c, failed) PROVE MeterInv'
  BY <1>1, <1>3, MeterApply DEF Apply
<1>4. ASSUME NEW n \in Node, UNCHANGED <<heard, cycleStart, late, resetting, resets, crashes, deleting>>,
             \A m \in Node : m # n => /\ nodes'[m] = nodes[m] /\ batch'[m] = batch[m]
                                      /\ traffic'[m] = traffic[m] /\ edit'[m] = edit[m],
             n \notin late => Fits(n)'
      PROVE  MeterInv'
  BY <1>1, <1>4, FitsSame DEF MeterInv, Kept
<1>5. ASSUME NEW c \in Conn, NEW failed \in BOOLEAN, EnsureLive(c, failed) PROVE MeterInv'
  <2>1. PICK n \in Node : n = owner[c]
    BY <1>5 DEF EnsureLive, ConnInv, HandlerInv
  <2>2. nodes'[n] = EntryFor(n, failed) /\ \A m \in Node : m # n => nodes'[m] = nodes[m]
    BY <1>5, <2>1 DEF EnsureLive, ConnInv, TypeOK
  <2>3. nodes'[n] # None
    BY <2>1, <2>2, EntryForType, NoneAssumption DEF ConnInv
  <2>4. /\ UNCHANGED <<heard, cycleStart, late, resetting, resets, crashes, deleting>>
        /\ UNCHANGED <<batch, traffic, edit>>
    BY <1>5 DEF EnsureLive
  <2>5. ASSUME n \notin late PROVE Fits(n)'
    <3>1. Fits(n)
      BY <2>1, <2>5 DEF MeterInv
    <3>2. resets[n] = 0 \/ (crashes = 0 /\ n \in Kept) => Within(EntryFor(n, failed).total, n)
      BY <2>1, <2>5, <3>1, EntryFits
    <3>3. resets[n] = 0 => FirstCycle(n)'
      BY <2>2, <2>4, <3>1, <3>2 DEF Fits, FirstCycle, Within
    <3>4. crashes = 0 /\ n \in Kept => NeverCrashed(n)'
      BY <2>2, <2>3, <2>4, <3>2 DEF NeverCrashed, Within
    <3> QED BY <2>4, <3>3, <3>4 DEF Fits, Kept
  <2> QED BY <1>4, <2>1, <2>2, <2>4, <2>5
<1>6. CASE Collect
  <2>1. \A n \in Node : IsDirty(n) => nodes[n] \in LiveState
    BY DEF IsDirty, ConnInv, TypeOK
  <2>2. \A n \in Node : /\ nodes'[n] = None <=> nodes[n] = None
                        /\ nodes[n] # None => nodes'[n].total = nodes[n].total
                        /\ batch'[n] # None => nodes[n] # None /\ batch'[n] = nodes[n].total
    BY <1>6, <2>1, NoneAssumption DEF Collect, IsDirty, LiveState
  <2>3. UNCHANGED <<heard, cycleStart, late, traffic, edit, resetting, resets, crashes, deleting>>
    BY <1>6 DEF Collect
  <2>4. \A n \in Node \ late : Fits(n)'
    BY <2>2, <2>3 DEF MeterInv, Fits, FirstCycle, NeverCrashed, Within, Kept
  <2> QED BY <1>1, <2>3, <2>4
<1>7. ASSUME NEW n \in Node, Save(n) PROVE MeterInv'
  <2>1. /\ batch'[n] = None /\ traffic'[n] \in {traffic[n], batch[n]} /\ batch[n] # None
        /\ \A m \in Node : m # n => batch'[m] = batch[m] /\ traffic'[m] = traffic[m]
    BY <1>7 DEF Save, ConnInv, TypeOK
  <2>2. UNCHANGED <<heard, cycleStart, late, resetting, resets, crashes, deleting, nodes, edit>>
    BY <1>7 DEF Save
  <2>3. n \in Kept => nodes[n] # None
    BY <2>1 DEF CleanInv, NoOrphanBatch
  <2>4. ASSUME n \notin late PROVE Fits(n)'
    BY <2>1, <2>2, <2>3, <2>4 DEF MeterInv, Fits, FirstCycle, NeverCrashed, Within, Kept
  <2> QED BY <1>4, <2>1, <2>2, <2>4
<1>8. ASSUME NEW n \in Node, SaveFails(n) PROVE MeterInv'
  <2>1. nodes[n] # None => nodes[n] \in LiveState
    BY DEF ConnInv, TypeOK
  <2>2. /\ batch'[n] = None
        /\ nodes'[n] = None <=> nodes[n] = None
        /\ nodes[n] # None => nodes'[n].total = nodes[n].total
        /\ \A m \in Node : m # n => batch'[m] = batch[m] /\ nodes'[m] = nodes[m]
    BY <1>8, <2>1, NoneAssumption DEF SaveFails, LiveState, ConnInv, TypeOK
  <2>3. UNCHANGED <<heard, cycleStart, late, resetting, resets, crashes, deleting, traffic, edit>>
    BY <1>8 DEF SaveFails
  <2>4. ASSUME n \notin late PROVE Fits(n)'
    BY <2>2, <2>3, <2>4 DEF MeterInv, Fits, FirstCycle, NeverCrashed, Within, Kept
  <2> QED BY <1>4, <2>2, <2>3, <2>4
<1>9. ASSUME NEW n \in Node, ResetRow(n) PROVE MeterInv'
  <2>1. /\ resetting' = n /\ resets'[n] # 0
        /\ traffic'[n] \in {traffic[n], Zero}
        /\ \A m \in Node : m # n => resets'[m] = resets[m] /\ traffic'[m] = traffic[m]
    BY <1>9 DEF ResetRow, ConnInv, TypeOK
  <2>2. UNCHANGED <<heard, cycleStart, late, crashes, deleting, nodes, batch, edit>>
    BY <1>9 DEF ResetRow
  <2>3. ASSUME n \notin late PROVE Fits(n)'
    BY <2>1, <2>2, <2>3 DEF MeterInv, Fits, FirstCycle, NeverCrashed, Within, Kept
  <2>4. \A m \in Node \ late : m # n => Fits(m)'
    BY <2>1, <2>2, FitsSame DEF MeterInv, Kept
  <2> QED BY <2>1, <2>2, <2>3, <2>4 DEF MeterInv, ResettingInv
<1>10. ASSUME NEW n \in Node, ResetLive(n) PROVE MeterInv'
  <2>1. resetting = n /\ resetting' = None /\ resets[n] # 0
    BY <1>10, NoneAssumption DEF ResetLive, MeterInv, ResettingInv
  <2>2. /\ nodes[n] # None => nodes'[n].total = Zero
        /\ nodes[n] = None => nodes'[n] = None
        /\ cycleStart'[n] = heard[n]
        /\ \A m \in Node : m # n => nodes'[m] = nodes[m] /\ cycleStart'[m] = cycleStart[m]
    BY <1>10 DEF ResetLive, Cleared, ConnInv, TypeOK
  <2>3. UNCHANGED <<heard, late, crashes, deleting, traffic, batch, edit, resets>>
    BY <1>10 DEF ResetLive
  <2>4. nodes[n] # None => nodes'[n] # None
    <3>1. Cleared \in LiveState
      BY ZeroIsVec DEF Cleared, LiveState
    <3>2. nodes[n] # None => nodes'[n] = Cleared
      BY <1>10 DEF ResetLive, ConnInv, TypeOK
    <3> QED BY <3>1, <3>2, NoneAssumption
  <2>5. ASSUME n \notin late PROVE Fits(n)'
    <3>1. nodes[n] # None => Within(nodes[n].total, n)'
      BY <2>2, <2>3 DEF Within, Zero, ConnInv, TypeOK, Vec
    <3> QED BY <2>1, <2>2, <2>3, <2>4, <2>5, <3>1 DEF MeterInv, Fits, NeverCrashed, Kept
  <2>6. \A m \in Node \ late : m # n => Fits(m)'
    BY <2>2, <2>3, FitsSame DEF MeterInv, Kept
  <2> QED BY <2>1, <2>3, <2>5, <2>6 DEF MeterInv, ResettingInv
<1>11. ASSUME NEW n \in Node, CleanupNodes(n) PROVE MeterInv'
  <2>1. /\ n \notin Kept /\ Kept' \subseteq Kept
        /\ nodes'[n] = None /\ \A m \in Node : m # n => nodes'[m] = nodes[m]
    BY <1>11 DEF CleanupNodes, Kept, ConnInv, TypeOK
  <2>2. UNCHANGED <<heard, cycleStart, late, resetting, resets, crashes, traffic, batch, edit>>
    BY <1>11 DEF CleanupNodes
  <2>3. ASSUME n \notin late PROVE Fits(n)'
    BY <2>1, <2>2, <2>3 DEF MeterInv, Fits, FirstCycle, Within
  <2>4. \A m \in Node \ late : m # n => Fits(m)'
    BY <2>1, <2>2, FitsSame DEF MeterInv
  <2> QED BY <1>1, <2>2, <2>3, <2>4
<1>12. ASSUME NEW n \in Node, EditRead(n) \/ EditSave(n) \/ EditFails(n) PROVE MeterInv'
  <2>1. /\ \/ edit'[n] = traffic[n] /\ UNCHANGED traffic
           \/ edit'[n] = None /\ UNCHANGED traffic
           \/ edit'[n] = None /\ edit[n] # None /\ traffic'[n] = edit[n]
        /\ \A m \in Node : m # n => edit'[m] = edit[m] /\ traffic'[m] = traffic[m]
    BY <1>12 DEF EditRead, EditSave, EditFails, ConnInv, TypeOK
  <2>2. UNCHANGED <<heard, cycleStart, late, resetting, resets, crashes, deleting, nodes, batch>>
    BY <1>12 DEF EditRead, EditSave, EditFails
  <2>3. ASSUME n \notin late PROVE Fits(n)'
    BY <2>1, <2>2, <2>3 DEF MeterInv, Fits, FirstCycle, NeverCrashed, Within, Kept
  <2> QED BY <1>4, <2>1, <2>2, <2>3
<1>13. CASE Crash
  <2>1. /\ crashes' # 0 /\ resetting' = None
        /\ \A m \in Node : nodes'[m] = None /\ batch'[m] = None /\ edit'[m] = None
    BY <1>13 DEF Crash, ConnInv, TypeOK
  <2>2. UNCHANGED <<heard, cycleStart, late, resets, traffic>>
    BY <1>13 DEF Crash
  <2> QED BY <2>1, <2>2 DEF MeterInv, ResettingInv, Fits, FirstCycle, Within
<1>14. ASSUME NEW n \in Node, DeleteRow(n) \/ CleanupConn(n) \/ DeleteNotifyConfig(n) PROVE MeterInv'
  <2>1. Kept' \subseteq Kept
    BY <1>14 DEF DeleteRow, CleanupConn, DeleteNotifyConfig, Kept, ConnInv, TypeOK
  <2> QED BY <1>2, <1>14, <2>1 DEF DeleteRow, CleanupConn, DeleteNotifyConfig
<1>15. ASSUME NEW n \in Node,
              \/ \E d \in Dir : Move(n, d)
              \/ Reboot(n) \/ AgentRestart(n) \/ CounterReset(n)
              \/ \E c \in Conn : Dial(c, n)
              \/ ResetRowFails(n)
       PROVE  MeterInv'
  BY <1>2, <1>15 DEF Move, Reboot, AgentRestart, CounterReset, Dial, ResetRowFails, Kept
<1>16. ASSUME NEW c \in Conn, Accept(c) \/ Register(c) \/ Refuse(c) \/ Receive(c) \/ Disconnect(c)
       PROVE  MeterInv'
  BY <1>2, <1>16 DEF Accept, Register, Refuse, Receive, Disconnect, Kept
<1>17. ASSUME NEW S \in SUBSET Node, Tick(S) PROVE MeterInv'
  BY <1>2, <1>17 DEF Tick, Kept
<1>18. CASE UNCHANGED vars
  BY <1>2, <1>18 DEF vars, Kept
<1> QED
  BY <1>3, <1>5, <1>6, <1>7, <1>8, <1>9, <1>10, <1>11, <1>12, <1>13, <1>14, <1>15, <1>16, <1>17, <1>18
     DEF Next

LEMMA CleanInvariant == Spec => []CleanInv
<1>1. Init => CleanInv
  BY CleanInit
<1>2. ConnInv /\ CleanInv /\ [Next]_vars => CleanInv'
  BY CleanStep
<1> QED BY <1>1, <1>2, ConnInvariant, PTL DEF Spec

(* No byte is counted twice: whatever reboots, lost counters, reconnections, *)
(* failing writes and edits come in between, the live total of a node stays  *)
(* within the bytes it moved in the cycle, but for a sample applied after a  *)
(* newer one: by a superseded handler, or as the first of a new connection.  *)
THEOREM NeverOvercounts == Spec => []NoOvercount
<1>1. Init => OrderInv /\ MeterInv
  BY OrderInit, MeterInit
<1>2. ConnInv /\ CleanInv /\ OrderInv /\ MeterInv /\ [Next]_vars => (OrderInv /\ MeterInv)'
  BY OrderStep, MeterStep
<1>3. MeterInv => NoOvercount
  BY DEF MeterInv, Fits, FirstCycle, NeverCrashed, NoOvercount, Kept
<1> QED BY <1>1, <1>2, <1>3, ConnInvariant, CleanInvariant, PTL DEF Spec
-----------------------------------------------------------------------------
(* Until a cycle is reset, the copies of a total are ordered by their age:   *)
(* what an edit has read, the row, the batch, the live total.  A node whose  *)
(* base could not be read has an entry, so a later read does not excuse it.  *)
Grows(n) ==
  resets[n] = 0 =>
    /\ nodes[n] # None => Upto(traffic[n], nodes[n].total)
    /\ batch[n] # None => Upto(traffic[n], batch[n]) /\ Upto(batch[n], nodes[n].total)
    /\ edit[n] # None => Upto(edit[n], traffic[n])

Aged(n) == IF n \in misloaded THEN nodes[n] # None ELSE Grows(n)

RowInv == ResettingInv /\ \A n \in Kept : Aged(n)

LEMMA UptoTransitive ==
  ASSUME NEW u \in Vec, NEW v \in Vec, NEW w \in Vec, Upto(u, v), Upto(v, w)
  PROVE  Upto(u, w)
  BY DEF Upto, Vec

LEMMA UptoReflexive == ASSUME NEW v \in Vec PROVE Upto(v, v)
  BY DEF Upto, Vec

LEMMA UpdatedGrows ==
  ASSUME NEW st \in LiveState, NEW s \in Sample
  PROVE  Upto(st.total, Updated(st, s).total)
<1> SUFFICES ASSUME NEW d \in Dir PROVE st.total[d] <= Updated(st, s).total[d]
  BY DEF Upto
<1>1. st.total[d] \in Nat /\ s.counter[d] \in Nat /\ st.last[d] \in Nat
  BY DEF LiveState, Sample, Vec
<1>2. CASE Counts(st, s)
  <2>1. Updated(st, s).total[d] = st.total[d] + Delta(st, s)[d]
    BY <1>2 DEF Updated
  <2>2. Delta(st, s)[d] >= 0 /\ Delta(st, s)[d] = s.counter[d] - st.last[d]
    BY <1>2 DEF Counts, Delta
  <2> QED BY <1>1, <2>1, <2>2
<1>3. CASE ~Counts(st, s)
  BY <1>1, <1>3 DEF Updated
<1> QED BY <1>2, <1>3

LEMMA RowInit == Init => RowInv
  BY DEF Init, RowInv, ResettingInv, Aged, Grows, Kept

LEMMA AgedSame ==
  ASSUME NEW m \in Node, Aged(m), m \in misloaded <=> m \in misloaded',
         resets'[m] = resets[m], traffic'[m] = traffic[m], batch'[m] = batch[m],
         edit'[m] = edit[m], nodes'[m] = nodes[m]
  PROVE  Aged(m)'
  BY DEF Aged, Grows

(* A handler creates or updates the entry of its node.                       *)
LEMMA RowHandler ==
  ASSUME ConnInv, CleanInv, RowInv, NEW n \in Node, NEW failed \in BOOLEAN, LoadBase(n, failed),
         nodes'[n] \in LiveState, Upto(EntryFor(n, failed).total, nodes'[n].total),
         \A m \in Node : m # n => nodes'[m] = nodes[m],
         UNCHANGED <<deleting, resetting, resets, traffic, batch, edit>>
  PROVE  RowInv'
<1>1. Kept' = Kept /\ ResettingInv'
  BY DEF Kept, RowInv, ResettingInv
<1>2. \A m \in Kept : m # n => Aged(m)'
  BY AgedSame DEF RowInv, LoadBase, Kept
<1>3. ASSUME n \in Kept PROVE Aged(n)'
  <2>1. nodes'[n] # None
    BY NoneAssumption
  <2>2. ASSUME n \notin misloaded' PROVE Grows(n)'
    <3>1. CASE nodes[n] = None
      <4>1. EntryFor(n, failed).total = traffic[n]
        BY <1>3, <2>2, <3>1 DEF LoadBase, EntryFor, Entry, Base, CleanInv, RowsAreKept
      <4>2. batch[n] = None
        BY <1>3, <3>1 DEF CleanInv, NoOrphanBatch
      <4>3. n \notin misloaded
        BY <1>3, <3>1 DEF RowInv, Aged
      <4> QED BY <1>3, <4>1, <4>2, <4>3 DEF RowInv, Aged, Grows
    <3>2. CASE nodes[n] # None
      <4>1. EntryFor(n, failed) = nodes[n] /\ n \notin misloaded
        BY <2>2, <3>2 DEF EntryFor, LoadBase
      <4>2. traffic[n] \in Vec /\ nodes[n].total \in Vec /\ nodes'[n].total \in Vec
            /\ (batch[n] # None => batch[n] \in Vec)
        BY <3>2 DEF ConnInv, TypeOK, LiveState
      <4> QED BY <1>3, <3>2, <4>1, <4>2, UptoTransitive DEF RowInv, Aged, Grows
    <3> QED BY <3>1, <3>2
  <2> QED BY <2>1, <2>2 DEF Aged
<1> QED BY <1>1, <1>2, <1>3 DEF RowInv

LEMMA RowStep == ConnInv /\ CleanInv /\ RowInv /\ [Next]_vars => RowInv'
<1> SUFFICES ASSUME ConnInv, CleanInv, RowInv, [Next]_vars PROVE RowInv'
  OBVIOUS
<1> USE DEF agentVars, connVars, dbVars, resetVars, adminVars, editVars, ghostVars, failVars, loadVars
<1>1. ASSUME UNCHANGED <<nodes, batch, traffic, resets, edit, resetting, misloaded>>, Kept' \subseteq Kept
      PROVE  RowInv'
  BY <1>1, AgedSame DEF RowInv, ResettingInv, Kept
<1>2. ASSUME NEW n \in Node, UNCHANGED <<resetting, resets, deleting, misloaded>>,
             \A m \in Node : m # n => /\ nodes'[m] = nodes[m] /\ batch'[m] = batch[m]
                                      /\ traffic'[m] = traffic[m] /\ edit'[m] = edit[m],
             n \in Kept => Aged(n)'
      PROVE  RowInv'
  <2>1. Kept' = Kept
    BY <1>2 DEF Kept
  <2>2. \A m \in Kept : m # n => Aged(m)'
    BY <1>2, AgedSame DEF RowInv, Kept
  <2> QED BY <1>2, <2>1, <2>2 DEF RowInv, ResettingInv
<1>3. ASSUME NEW c \in Conn, NEW failed \in BOOLEAN, EnsureLive(c, failed) PROVE RowInv'
  <2>1. PICK n \in Node : n = owner[c]
    BY <1>3 DEF EnsureLive, ConnInv, HandlerInv
  <2>2. EntryFor(n, failed) \in LiveState
    BY EntryForType DEF ConnInv
  <2>3. nodes'[n] = EntryFor(n, failed) /\ \A m \in Node : m # n => nodes'[m] = nodes[m]
    BY <1>3, <2>1 DEF EnsureLive, ConnInv, TypeOK
  <2>4. Upto(EntryFor(n, failed).total, nodes'[n].total)
    BY <2>2, <2>3, UptoReflexive DEF LiveState
  <2>5. LoadBase(n, failed) /\ UNCHANGED <<deleting, resetting, resets, traffic, batch, edit>>
    BY <1>3, <2>1 DEF EnsureLive
  <2> QED BY <2>2, <2>3, <2>4, <2>5, RowHandler
<1>4. ASSUME NEW c \in Conn, NEW failed \in BOOLEAN, Apply(c, failed) PROVE RowInv'
  <2>1. PICK n \in Node : n = owner[c]
    BY <1>4 DEF Apply, ConnInv, HandlerInv
  <2>2. EntryFor(n, failed) \in LiveState /\ inHand[c] \in Sample
    BY <1>4, EntryForType DEF Apply, ConnInv, TypeOK
  <2>3. /\ nodes'[n] = Updated(EntryFor(n, failed), inHand[c])
        /\ \A m \in Node : m # n => nodes'[m] = nodes[m]
    BY <1>4, <2>1 DEF Apply, ConnInv, TypeOK
  <2>4. nodes'[n] \in LiveState /\ Upto(EntryFor(n, failed).total, nodes'[n].total)
    BY <2>2, <2>3, UpdatedType, UpdatedGrows
  <2>5. LoadBase(n, failed) /\ UNCHANGED <<deleting, resetting, resets, traffic, batch, edit>>
    BY <1>4, <2>1 DEF Apply
  <2> QED BY <2>3, <2>4, <2>5, RowHandler
<1>5. CASE Collect
  <2>1. \A n \in Node : nodes[n] # None => nodes[n] \in LiveState /\ nodes[n].total \in Vec
    BY DEF ConnInv, TypeOK, LiveState
  <2>2. \A n \in Node : /\ nodes'[n] = None <=> nodes[n] = None
                        /\ nodes[n] # None => nodes'[n].total = nodes[n].total
                        /\ batch'[n] # None => nodes[n] # None /\ batch'[n] = nodes[n].total
    BY <1>5, <2>1, NoneAssumption DEF Collect, IsDirty, LiveState
  <2>3. UNCHANGED <<traffic, edit, resetting, resets, deleting, misloaded>>
    BY <1>5 DEF Collect
  <2>4. \A n \in Kept : Aged(n)'
    BY <2>1, <2>2, <2>3, UptoReflexive DEF RowInv, Aged, Grows, Kept
  <2> QED BY <2>3, <2>4 DEF RowInv, ResettingInv, Kept
<1>6. ASSUME NEW n \in Node, Save(n) PROVE RowInv'
  <2>1. /\ batch'[n] = None /\ traffic'[n] \in {traffic[n], batch[n]}
        /\ batch[n] # None /\ batch[n] \in Vec /\ traffic[n] \in Vec
        /\ edit[n] # None => edit[n] \in Vec
        /\ \A m \in Node : m # n => batch'[m] = batch[m] /\ traffic'[m] = traffic[m]
    BY <1>6 DEF Save, ConnInv, TypeOK
  <2>2. UNCHANGED <<resetting, resets, deleting, nodes, edit, misloaded>>
    BY <1>6 DEF Save
  <2>3. ASSUME n \in Kept PROVE Aged(n)'
    <3>1. nodes[n] # None
      BY <2>1, <2>3 DEF CleanInv, NoOrphanBatch
    <3> QED BY <2>1, <2>2, <2>3, <3>1, UptoTransitive DEF RowInv, Aged, Grows
  <2> QED BY <1>2, <2>1, <2>2, <2>3
<1>7. ASSUME NEW n \in Node, SaveFails(n) PROVE RowInv'
  <2>1. nodes[n] # None => nodes[n] \in LiveState
    BY DEF ConnInv, TypeOK
  <2>2. /\ batch'[n] = None
        /\ nodes'[n] = None <=> nodes[n] = None
        /\ nodes[n] # None => nodes'[n].total = nodes[n].total
        /\ \A m \in Node : m # n => batch'[m] = batch[m] /\ nodes'[m] = nodes[m]
    BY <1>7, <2>1, NoneAssumption DEF SaveFails, LiveState, ConnInv, TypeOK
  <2>3. UNCHANGED <<resetting, resets, deleting, traffic, edit, misloaded>>
    BY <1>7 DEF SaveFails
  <2>4. n \in Kept => Aged(n)'
    BY <2>2, <2>3 DEF RowInv, Aged, Grows
  <2> QED BY <1>2, <2>2, <2>3, <2>4
<1>8. ASSUME NEW n \in Node, ResetRow(n) PROVE RowInv'
  <2>1. /\ resetting' = n /\ resets'[n] # 0
        /\ \A m \in Node : m # n => resets'[m] = resets[m] /\ traffic'[m] = traffic[m]
    BY <1>8 DEF ResetRow, ConnInv, TypeOK
  <2>2. UNCHANGED <<deleting, nodes, batch, edit, misloaded>>
    BY <1>8 DEF ResetRow
  <2>3. \A m \in Kept : m # n => Aged(m)'
    BY <2>1, <2>2, AgedSame DEF RowInv, Kept
  <2>4. n \in Kept => Aged(n)'
    BY <2>1, <2>2 DEF RowInv, Aged, Grows
  <2> QED BY <2>1, <2>2, <2>3, <2>4 DEF RowInv, ResettingInv, Kept
<1>9. ASSUME NEW n \in Node, ResetLive(n) PROVE RowInv'
  <2>1. resetting' = None /\ resets[n] # 0
    BY <1>9, NoneAssumption DEF ResetLive, RowInv, ResettingInv
  <2>2. /\ \A m \in Node : m # n => nodes'[m] = nodes[m] /\ (m \in misloaded <=> m \in misloaded')
        /\ n \notin misloaded'
    BY <1>9 DEF ResetLive, ConnInv, TypeOK
  <2>3. UNCHANGED <<deleting, traffic, batch, edit, resets>>
    BY <1>9 DEF ResetLive
  <2>4. \A m \in Kept : m # n => Aged(m)'
    BY <2>2, <2>3, AgedSame DEF RowInv, Kept
  <2>5. Aged(n)'
    BY <2>1, <2>2, <2>3 DEF Aged, Grows
  <2> QED BY <2>1, <2>3, <2>4, <2>5 DEF RowInv, ResettingInv, Kept
<1>10. ASSUME NEW n \in Node, CleanupNodes(n) PROVE RowInv'
  <2>1. /\ n \notin Kept' /\ Kept' \subseteq Kept
        /\ \A m \in Node : m # n => nodes'[m] = nodes[m]
    BY <1>10 DEF CleanupNodes, Kept, ConnInv, TypeOK
  <2>2. UNCHANGED <<resetting, resets, traffic, batch, edit, misloaded>>
    BY <1>10 DEF CleanupNodes
  <2>3. \A m \in Kept' : Aged(m)'
    BY <2>1, <2>2, AgedSame DEF RowInv, Kept
  <2> QED BY <2>2, <2>3 DEF RowInv, ResettingInv
<1>11. ASSUME NEW n \in Node, EditRead(n) \/ EditSave(n) \/ EditFails(n) PROVE RowInv'
  <2>1. /\ \/ edit'[n] = traffic[n] /\ UNCHANGED traffic
           \/ edit'[n] = None /\ UNCHANGED traffic
           \/ edit'[n] = None /\ edit[n] # None /\ traffic'[n] = edit[n]
        /\ \A m \in Node : m # n => edit'[m] = edit[m] /\ traffic'[m] = traffic[m]
    BY <1>11 DEF EditRead, EditSave, EditFails, ConnInv, TypeOK
  <2>2. UNCHANGED <<resetting, resets, deleting, nodes, batch, misloaded>>
    BY <1>11 DEF EditRead, EditSave, EditFails
  <2>3. ASSUME n \in Kept PROVE Aged(n)'
    <3>1. /\ traffic[n] \in Vec /\ (edit[n] # None => edit[n] \in Vec)
          /\ nodes[n] # None => nodes[n].total \in Vec
          /\ batch[n] # None => batch[n] \in Vec
      BY DEF ConnInv, TypeOK, LiveState
    <3>2. Aged(n)
      BY <2>3 DEF RowInv
    <3>3. batch[n] # None => nodes[n] # None
      BY <2>3 DEF CleanInv, NoOrphanBatch
    <3> QED BY <2>1, <2>2, <3>1, <3>2, <3>3, UptoTransitive, UptoReflexive DEF Aged, Grows
  <2> QED BY <1>2, <2>1, <2>2, <2>3
<1>12. CASE Crash
  <2>1. /\ resetting' = None /\ misloaded' = {}
        /\ \A m \in Node : nodes'[m] = None /\ batch'[m] = None /\ edit'[m] = None
    BY <1>12 DEF Crash
  <2> QED BY <2>1 DEF RowInv, ResettingInv, Aged, Grows, Kept
<1>13. ASSUME NEW n \in Node, DeleteRow(n) \/ CleanupConn(n) \/ DeleteNotifyConfig(n) PROVE RowInv'
  <2>1. Kept' \subseteq Kept
    BY <1>13 DEF DeleteRow, CleanupConn, DeleteNotifyConfig, Kept, ConnInv, TypeOK
  <2> QED BY <1>1, <1>13, <2>1 DEF DeleteRow, CleanupConn, DeleteNotifyConfig
<1>14. ASSUME NEW n \in Node,
              \/ \E d \in Dir : Move(n, d)
              \/ Reboot(n) \/ AgentRestart(n) \/ CounterReset(n)
              \/ \E c \in Conn : Dial(c, n)
              \/ ResetRowFails(n)
       PROVE  RowInv'
  BY <1>1, <1>14 DEF Move, Reboot, AgentRestart, CounterReset, Dial, ResetRowFails, Kept
<1>15. ASSUME NEW c \in Conn, Accept(c) \/ Register(c) \/ Refuse(c) \/ Receive(c) \/ Disconnect(c)
       PROVE  RowInv'
  BY <1>1, <1>15 DEF Accept, Register, Refuse, Receive, Disconnect, Kept
<1>16. ASSUME NEW S \in SUBSET Node, Tick(S) PROVE RowInv'
  BY <1>1, <1>16 DEF Tick, Kept
<1>17. CASE UNCHANGED vars
  BY <1>1, <1>17 DEF vars, Kept
<1> QED
  BY <1>3, <1>4, <1>5, <1>6, <1>7, <1>8, <1>9, <1>10, <1>11, <1>12, <1>13, <1>14, <1>15, <1>16, <1>17
     DEF Next

(* What RowNeverShrinks says of one step.                                    *)
RowShrinksNot ==
  \A n \in Kept \ misloaded :
    n \notin rolledBack' /\ resets'[n] = 0 => \A d \in Dir : traffic'[n][d] >= traffic[n][d]

LEMMA RowAction == ConnInv /\ CleanInv /\ RowInv /\ [Next]_vars => RowShrinksNot
<1> SUFFICES ASSUME ConnInv, CleanInv, RowInv, [Next]_vars,
                    NEW n \in Kept \ misloaded, n \notin rolledBack', resets'[n] = 0, NEW d \in Dir
             PROVE  traffic'[n][d] >= traffic[n][d]
  BY DEF RowShrinksNot
<1> USE DEF agentVars, connVars, dbVars, resetVars, adminVars, editVars, ghostVars, failVars, loadVars
<1>1. n \in Node /\ traffic[n][d] \in Nat
  BY DEF Kept, ConnInv, TypeOK, Vec
<1>2. CASE traffic'[n] = traffic[n]
  BY <1>1, <1>2
<1>3. CASE Save(n)
  <2>1. resets[n] = 0 /\ traffic'[n] \in {traffic[n], batch[n]} /\ batch[n] # None
    BY <1>1, <1>3 DEF Save, ConnInv, TypeOK
  <2>2. Upto(traffic[n], batch[n]) /\ batch[n][d] \in Nat
    BY <1>1, <2>1 DEF RowInv, Aged, Grows, ConnInv, TypeOK, Vec
  <2> QED BY <1>1, <2>1, <2>2 DEF Upto
<1>4. \/ traffic'[n] = traffic[n] \/ Save(n)
      \/ \E m \in Node : ResetRow(m) \/ EditSave(m) \/ (m # n /\ Save(m))
  BY DEF Next, vars, Move, Reboot, AgentRestart, CounterReset, Dial, EnsureLive, Apply, Accept, Register,
     Refuse, Receive, Disconnect, Collect, SaveFails, Tick, ResetRowFails, ResetLive, DeleteRow,
     CleanupNodes, CleanupConn, DeleteNotifyConfig, EditRead, EditFails, Crash
<1>5. ASSUME NEW m \in Node, ResetRow(m) \/ EditSave(m) \/ (m # n /\ Save(m)) PROVE traffic'[n] = traffic[n]
  BY <1>1, <1>5 DEF ResetRow, EditSave, Save, ConnInv, TypeOK
<1> QED BY <1>2, <1>3, <1>4, <1>5

(* No write takes traffic away from a row in the first cycle: not the one of *)
(* a batch that was collected before later samples, not the one after a      *)
(* crash, a reconnection or a failed write.                                  *)
THEOREM RowOnlyGrows == Spec => RowNeverShrinks
<1>1. Init => RowInv
  BY RowInit
<1>2. ConnInv /\ CleanInv /\ RowInv /\ [Next]_vars => RowInv'
  BY RowStep
<1>3. ConnInv /\ CleanInv /\ RowInv /\ [Next]_vars => [RowShrinksNot]_vars
  BY RowAction
<1> QED BY <1>1, <1>2, <1>3, ConnInvariant, CleanInvariant, PTL DEF Spec, RowNeverShrinks, RowShrinksNot
=============================================================================
