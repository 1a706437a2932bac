----------------------------- MODULE TrafficHub -----------------------------
(***************************************************************************)
(* The panel's traffic accounting: internal/service/traffic_live.go, the   *)
(* totals part of traffic_stats.go, the cyclic reset of traffic_reset.go   *)
(* and the edit and deletion of a node in internal/server/node_handler.go. *)
(*                                                                         *)
(* An agent samples the counters of its network interface and sends them   *)
(* over a websocket.  One handler goroutine per connection turns samples   *)
(* into increments of a running total kept in memory; a flusher goroutine  *)
(* writes the totals marked dirty to the database; a reset goroutine sets  *)
(* them to zero when a billing cycle ends; an administrator may delete the *)
(* node or edit it; the panel may crash and restart with the database only. *)
(*                                                                         *)
(* A step is what the code does between two points where another goroutine *)
(* may run: a critical section of hub.mu or agentMu, or a database call.   *)
(***************************************************************************)
EXTENDS Integers

CONSTANTS
  Node,            \* install_ids; the code's node_uuid is in bijection with them
  Conn,            \* connection handlers that may exist at the same time
  Dir,             \* directions of traffic: "rx" and "tx" in the code
  None,            \* absence: no connection, no node, no sample, no entry
  MaxSingleDelta,  \* maxSingleDelta of HandleAgentWS (100 GB)
  MaxMoved,        \* bound: bytes a node moves in a direction
  MaxBoot,         \* bound: boots of a node
  MaxReset,        \* bound: cyclic resets of a node
  MaxCrash,        \* bound: crashes of the panel
  MaxSaveFail,     \* bound: failing writes of a total or of a reset
  MaxEdit,         \* bound: edits of nodes
  MaxLoadFail      \* bound: failing reads of the total a live entry starts from

(* The value of a total, of a counter or of an increment: one natural       *)
(* number for each direction.                                               *)
Vec == [Dir -> Nat]
Zero == [d \in Dir |-> 0]

(* AgentTrafficMsg, with two ghost fields: all the bytes the node had moved *)
(* when it took the sample, and whether it is the first message of its      *)
(* connection, which is read before the connection is registered.           *)
Sample == [boot : Nat, counter : Vec, moved : Vec, first : BOOLEAN]

(* NodeLiveState without the rates.                                         *)
LiveState == [total : Vec, last : Vec, boot : Nat, seen : BOOLEAN, dirty : BOOLEAN]

ASSUME NoneAssumption ==
  None \notin Node \cup Conn \cup Vec \cup Sample \cup LiveState

ASSUME BoundAssumption ==
  /\ MaxSingleDelta \in Nat
  /\ {MaxMoved, MaxBoot, MaxReset, MaxCrash, MaxSaveFail, MaxEdit, MaxLoadFail} \subseteq Nat

VARIABLES
  \* the agents
  counter,     \* the interface counter of the node
  bootId,      \* boot_id of the node's kernel
  moved,       \* history: bytes the node has moved since it was installed
  link,        \* the connection the agent holds, None if it has none
  \* connection handlers
  phase,       \* "free", "fresh", "checked", "open" (registered), "closed" (by the panel)
  owner,       \* the node whose agent dialled the connection
  binding,     \* registered connections whose handler has no live entry yet
  inHand,      \* the sample a handler has read and not yet applied, or None
  agentConns,  \* hub.agentConns
  \* the hub and its flusher
  nodes,       \* hub.nodes: LiveState, or None where the map has no entry
  batch,       \* dirtyTrafficItem values collected and not yet written, or None
  \* the database and the caches
  rows,        \* nodes with a row in node_pool
  traffic,     \* traffic_down and traffic_up of the row
  valid,       \* nodes IsValidInstallID accepts: the keys of the notify cache
  \* the reset goroutine and the administrator
  due,         \* nodes of the current tick that are still to be reset
  resetting,   \* node whose row is reset and whose live entry is not, or None
  deleting,    \* progress of the deletion of each node
  edit,        \* totals an edit of the node has read and not yet saved, or None
  \* history and budgets
  heard,       \* history: moved of the last sample applied
  cycleStart,  \* history: heard when the live total was last reset
  late,        \* history: nodes to which a superseded handler has applied a sample, or a
               \* new one its first sample although a newer one was applied before
  misloaded,   \* history: nodes whose live entry started from a failed read
  rolledBack,  \* history: nodes whose row holds older totals that an edit saved
  resets, crashes, saveFails, edits, loadFails

agentVars == <<counter, bootId, moved>>
connVars  == <<link, phase, owner, binding, agentConns>>
dbVars    == <<rows, traffic>>
resetVars == <<due, resetting, resets>>
editVars  == <<edit, edits>>
adminVars == <<valid, deleting, editVars>>
ghostVars == <<heard, cycleStart, late>>
failVars  == <<crashes, saveFails>>
loadVars  == <<misloaded, rolledBack, loadFails>>
vars == <<agentVars, connVars, inHand, nodes, batch, dbVars, resetVars,
          adminVars, ghostVars, failVars, loadVars>>

DeletePhase == {"no", "row", "nodes", "conn", "done"}

TypeOK ==
  /\ counter \in [Node -> Vec]
  /\ bootId \in [Node -> Nat]
  /\ moved \in [Node -> Vec]
  /\ link \in [Node -> Conn \cup {None}]
  /\ phase \in [Conn -> {"free", "fresh", "checked", "open", "closed"}]
  /\ owner \in [Conn -> Node \cup {None}]
  /\ binding \subseteq Conn
  /\ inHand \in [Conn -> Sample \cup {None}]
  /\ agentConns \in [Node -> Conn \cup {None}]
  /\ nodes \in [Node -> LiveState \cup {None}]
  /\ batch \in [Node -> Vec \cup {None}]
  /\ rows \subseteq Node
  /\ traffic \in [Node -> Vec]
  /\ valid \subseteq Node
  /\ due \subseteq Node
  /\ resetting \in Node \cup {None}
  /\ deleting \in [Node -> DeletePhase]
  /\ edit \in [Node -> Vec \cup {None}]
  /\ heard \in [Node -> Vec]
  /\ cycleStart \in [Node -> Vec]
  /\ late \subseteq Node /\ misloaded \subseteq Node /\ rolledBack \subseteq Node
  /\ resets \in [Node -> Nat]
  /\ {crashes, saveFails, edits, loadFails} \subseteq Nat
-----------------------------------------------------------------------------
(* Every node is installed, idle and known to a panel that has just started.*)
Init ==
  /\ counter = [n \in Node |-> Zero]
  /\ bootId = [n \in Node |-> 1]
  /\ moved = [n \in Node |-> Zero]
  /\ link = [n \in Node |-> None]
  /\ phase = [c \in Conn |-> "free"]
  /\ owner = [c \in Conn |-> None]
  /\ binding = {}
  /\ inHand = [c \in Conn |-> None]
  /\ agentConns = [n \in Node |-> None]
  /\ nodes = [n \in Node |-> None]
  /\ batch = [n \in Node |-> None]
  /\ rows = Node
  /\ traffic = [n \in Node |-> Zero]
  /\ valid = Node
  /\ due = {}
  /\ resetting = None
  /\ deleting = [n \in Node |-> "no"]
  /\ edit = [n \in Node |-> None]
  /\ heard = [n \in Node |-> Zero]
  /\ cycleStart = [n \in Node |-> Zero]
  /\ late = {} /\ misloaded = {} /\ rolledBack = {}
  /\ resets = [n \in Node |-> 0]
  /\ crashes = 0 /\ saveFails = 0 /\ edits = 0 /\ loadFails = 0
-----------------------------------------------------------------------------
(* The node and its agent.                                                  *)

(* The kernel counts one more unit of traffic.                              *)
Move(n, d) ==
  /\ moved[n][d] < MaxMoved
  /\ moved' = [moved EXCEPT ![n][d] = @ + 1]
  /\ counter' = [counter EXCEPT ![n][d] = @ + 1]
  /\ UNCHANGED <<bootId, connVars, inHand, nodes, batch, dbVars, resetVars,
                 adminVars, ghostVars, failVars, loadVars>>

(* The machine restarts: a new boot_id and counters from zero.  The link is *)
(* lost; the panel's handler notices it later.                              *)
Reboot(n) ==
  /\ bootId[n] < MaxBoot
  /\ bootId' = [bootId EXCEPT ![n] = @ + 1]
  /\ counter' = [counter EXCEPT ![n] = Zero]
  /\ link' = [link EXCEPT ![n] = None]
  /\ UNCHANGED <<moved, phase, owner, binding, agentConns, inHand, nodes, batch, dbVars,
                 resetVars, adminVars, ghostVars, failVars, loadVars>>

(* The agent restarts on a machine whose boot_id cannot be read: readBootID *)
(* makes up a new one, and the counters go on.                              *)
AgentRestart(n) ==
  /\ bootId[n] < MaxBoot
  /\ bootId' = [bootId EXCEPT ![n] = @ + 1]
  /\ link' = [link EXCEPT ![n] = None]
  /\ UNCHANGED <<counter, moved, phase, owner, binding, agentConns, inHand, nodes, batch,
                 dbVars, resetVars, adminVars, ghostVars, failVars, loadVars>>

(* The interface is recreated, or its counters wrap, under the same boot.   *)
CounterReset(n) ==
  /\ counter[n] # Zero
  /\ counter' = [counter EXCEPT ![n] = Zero]
  /\ UNCHANGED <<bootId, moved, connVars, inHand, nodes, batch, dbVars,
                 resetVars, adminVars, ghostVars, failVars, loadVars>>

(* The agent dials: it gives up the connection it held, if any.             *)
Dial(c, n) ==
  /\ phase[c] = "free"
  /\ phase' = [phase EXCEPT ![c] = "fresh"]
  /\ owner' = [owner EXCEPT ![c] = n]
  /\ link' = [link EXCEPT ![n] = c]
  /\ UNCHANGED <<agentVars, binding, agentConns, inHand, nodes, batch, dbVars, resetVars,
                 adminVars, ghostVars, failVars, loadVars>>
-----------------------------------------------------------------------------
(* The connection handlers: HandleAgentWS and bindAgentConnection.          *)

(* Mutant: a new live entry starts from zero.                               *)
Base_Zero(n, failed) == Zero

(* loadNodeTrafficBase: the totals a new entry of hub.nodes starts from.    *)
(* Zero stands for the row that is not found and for a read that failed.    *)
Base(n, failed) == IF failed \/ n \notin rows THEN Zero ELSE traffic[n]

Entry(n, failed) ==
  [total |-> Base(n, failed), last |-> Zero, boot |-> 0, seen |-> FALSE, dirty |-> FALSE]

(* The entry for n a handler works on: the one in the map, or a new one.    *)
EntryFor(n, failed) == IF nodes[n] # None THEN nodes[n] ELSE Entry(n, failed)

(* The read of the base fails or not; only a missing entry needs it.        *)
LoadBase(n, failed) ==
  /\ failed => nodes[n] = None /\ loadFails < MaxLoadFail
  /\ loadFails' = loadFails + (IF failed THEN 1 ELSE 0)
  /\ misloaded' = IF nodes[n] # None THEN misloaded
                  ELSE IF failed THEN misloaded \cup {n} ELSE misloaded \ {n}
  /\ rolledBack' = IF nodes[n] # None THEN rolledBack ELSE rolledBack \ {n}

(* bindAgentConnection, called with the first message of a connection, which *)
(* is a sample or announces the node: the install_id is known to the panel ... *)
Accept(c) ==
  /\ phase[c] = "fresh"
  /\ owner[c] \in valid
  /\ phase' = [phase EXCEPT ![c] = "checked"]
  /\ UNCHANGED <<agentVars, link, owner, binding, agentConns, inHand, nodes, batch,
                 dbVars, resetVars, adminVars, ghostVars, failVars, loadVars>>

(* ... the connection becomes the registered one of its node, and the one   *)
(* it replaces is closed ...                                                *)
Register(c) ==
  LET prev == agentConns[owner[c]] IN
  /\ phase[c] = "checked"
  /\ agentConns' = [agentConns EXCEPT ![owner[c]] = c]
  /\ phase' = [d \in Conn |-> IF d = c THEN "open"
                              ELSE IF d = prev THEN "closed" ELSE phase[d]]
  /\ binding' = binding \cup {c}
  /\ UNCHANGED <<agentVars, link, owner, inHand, nodes, batch, dbVars, resetVars,
                 adminVars, ghostVars, failVars, loadVars>>

(* ... and ensureNodeLiveState makes sure the node has a live entry.        *)
EnsureLive(c, failed) ==
  LET n == owner[c] IN
  /\ c \in binding
  /\ binding' = binding \ {c}
  /\ LoadBase(n, failed)
  /\ nodes' = [nodes EXCEPT ![n] = EntryFor(n, failed)]
  /\ UNCHANGED <<agentVars, link, phase, owner, agentConns, inHand, batch, dbVars,
                 resetVars, adminVars, ghostVars, failVars>>

(* bindAgentConnection refuses an install_id it does not know.              *)
Refuse(c) ==
  LET n == owner[c] IN
  /\ phase[c] = "fresh"
  /\ n \notin valid
  /\ phase' = [phase EXCEPT ![c] = "free"]
  /\ owner' = [owner EXCEPT ![c] = None]
  /\ link' = [link EXCEPT ![n] = IF @ = c THEN None ELSE @]
  /\ inHand' = [inHand EXCEPT ![c] = None]
  /\ UNCHANGED <<agentVars, binding, agentConns, nodes, batch, dbVars, resetVars,
                 adminVars, ghostVars, failVars, loadVars>>

(* conn.Read returns a sample the agent has just sent.  On a connection that *)
(* is not known yet it is in the hand while bindAgentConnection runs.        *)
Receive(c) ==
  LET n == owner[c] IN
  /\ phase[c] \in {"fresh", "open"}
  /\ c \notin binding /\ inHand[c] = None
  /\ link[n] = c
  /\ inHand' = [inHand EXCEPT ![c] =
                  [boot |-> bootId[n], counter |-> counter[n], moved |-> moved[n],
                   first |-> phase[c] = "fresh"]]
  /\ UNCHANGED <<agentVars, connVars, nodes, batch, dbVars, resetVars, adminVars,
                 ghostVars, failVars, loadVars>>

(* The increment of a sample over the baseline of an entry, and whether it  *)
(* counts: the same boot, no direction going backwards, none too large.     *)
Delta(st, s) == [d \in Dir |-> s.counter[d] - st.last[d]]

Counts(st, s) ==
  /\ st.seen
  /\ st.boot = s.boot
  /\ \A d \in Dir : Delta(st, s)[d] >= 0
  /\ \A d \in Dir : Delta(st, s)[d] <= MaxSingleDelta

(* Mutant: the whole counter counts when the boot changes.                  *)
Updated_WholeCounter(st, s) ==
  LET total == [d \in Dir |-> st.total[d] +
                  IF Counts(st, s) THEN Delta(st, s)[d]
                  ELSE IF st.seen /\ st.boot # s.boot THEN s.counter[d] ELSE 0]
  IN [total |-> total, last |-> s.counter, boot |-> s.boot, seen |-> TRUE,
      dirty |-> st.dirty \/ total # st.total]

(* Mutant: a sample without traffic takes the dirty mark away.              *)
Updated_DropsDirty(st, s) ==
  LET total == IF Counts(st, s) THEN [d \in Dir |-> st.total[d] + Delta(st, s)[d]]
               ELSE st.total
  IN [total |-> total, last |-> s.counter, boot |-> s.boot, seen |-> TRUE,
      dirty |-> total # st.total]

Updated(st, s) ==
  LET total == IF Counts(st, s) THEN [d \in Dir |-> st.total[d] + Delta(st, s)[d]]
               ELSE st.total
  IN [total |-> total, last |-> s.counter, boot |-> s.boot, seen |-> TRUE,
      dirty |-> st.dirty \/ total # st.total]

(* The sample was taken before the last one that was applied: the node had  *)
(* moved fewer bytes, or the counter had lost fewer.                        *)
Older(s, n) ==
  \E d \in Dir :
    \/ s.moved[d] < heard[n][d]
    \/ /\ nodes[n] # None /\ nodes[n].seen
       /\ s.moved[d] - s.counter[d] < heard[n][d] - nodes[n].last[d]

(* The critical section in which a handler applies the sample in its hand.  *)
(* The entry may be missing: the node was deleted since.                    *)
Apply(c, failed) ==
  LET n == owner[c]
      s == inHand[c] IN
  /\ s # None
  /\ phase[c] \in {"open", "closed"} /\ c \notin binding
  /\ LoadBase(n, failed)
  /\ nodes' = [nodes EXCEPT ![n] = Updated(EntryFor(n, failed), s)]
  /\ heard' = [heard EXCEPT ![n] = s.moved]
  /\ late' = IF phase[c] = "open" /\ ~(s.first /\ Older(s, n)) THEN late ELSE late \cup {n}
  /\ inHand' = [inHand EXCEPT ![c] = None]
  /\ UNCHANGED <<agentVars, connVars, batch, dbVars, resetVars, adminVars,
                 cycleStart, failVars>>

(* Mutant: any handler that ends takes the registered connection with it.   *)
IsCurrent_Any(c) == TRUE

(* unbindAgentConnectionIfCurrent removes the connection only if it is      *)
(* still the registered one.                                                *)
IsCurrent(c) == agentConns[owner[c]] = c

(* conn.Read fails: the link broke, timed out or was closed by the panel.   *)
Disconnect(c) ==
  LET n == owner[c] IN
  /\ phase[c] \in {"fresh", "open", "closed"}
  /\ c \notin binding /\ inHand[c] = None
  /\ agentConns' = [agentConns EXCEPT ![n] = IF IsCurrent(c) THEN None ELSE @]
  /\ phase' = [phase EXCEPT ![c] = "free"]
  /\ owner' = [owner EXCEPT ![c] = None]
  /\ link' = [link EXCEPT ![n] = IF @ = c THEN None ELSE @]
  /\ UNCHANGED <<agentVars, binding, inHand, nodes, batch, dbVars, resetVars, adminVars,
                 ghostVars, failVars, loadVars>>
-----------------------------------------------------------------------------
(* The flusher: flushDirtyNodeTrafficTotal.                                 *)

IsDirty(n) == nodes[n] # None /\ nodes[n].dirty

(* collectDirtyNodeTrafficAndClear, once the previous batch is written.     *)
Collect ==
  /\ \A n \in Node : batch[n] = None
  /\ \E n \in Node : IsDirty(n)
  /\ batch' = [n \in Node |-> IF IsDirty(n) THEN nodes[n].total ELSE None]
  /\ nodes' = [n \in Node |-> IF IsDirty(n) THEN [nodes[n] EXCEPT !.dirty = FALSE]
                              ELSE nodes[n]]
  /\ UNCHANGED <<agentVars, connVars, inHand, dbVars, resetVars, adminVars,
                 ghostVars, failVars, loadVars>>

(* SaveNodeTrafficTotalOnly commits; a row that is gone is not an error.    *)
Save(n) ==
  /\ batch[n] # None
  /\ traffic' = IF n \in rows THEN [traffic EXCEPT ![n] = batch[n]] ELSE traffic
  /\ batch' = [batch EXCEPT ![n] = None]
  /\ rolledBack' = rolledBack \ {n}
  /\ UNCHANGED <<agentVars, connVars, inHand, nodes, rows, resetVars, adminVars,
                 ghostVars, failVars, misloaded, loadFails>>

(* Mutant: a total that could not be written is forgotten.                  *)
SaveFails_Forgets(n) ==
  /\ batch[n] # None
  /\ saveFails < MaxSaveFail
  /\ saveFails' = saveFails + 1
  /\ batch' = [batch EXCEPT ![n] = None]
  /\ UNCHANGED <<agentVars, connVars, inHand, nodes, dbVars, resetVars, adminVars,
                 ghostVars, crashes, loadVars>>

(* SaveNodeTrafficTotalOnly fails: the entry, if it is there, is dirty again. *)
SaveFails(n) ==
  /\ batch[n] # None
  /\ saveFails < MaxSaveFail
  /\ saveFails' = saveFails + 1
  /\ batch' = [batch EXCEPT ![n] = None]
  /\ nodes' = IF nodes[n] = None THEN nodes ELSE [nodes EXCEPT ![n].dirty = TRUE]
  /\ UNCHANGED <<agentVars, connVars, inHand, dbVars, resetVars, adminVars,
                 ghostVars, crashes, loadVars>>
-----------------------------------------------------------------------------
(* The reset goroutine: handleTrafficAutoResetTick, resetNodeTrafficCycle.  *)

(* A tick reads the rows and finds that the nodes of S are due.  When a     *)
(* cycle ends is the subject of module TrafficReset.                        *)
Tick(S) ==
  /\ due = {} /\ resetting = None
  /\ S # {}
  /\ S \subseteq {n \in rows : resets[n] < MaxReset}
  /\ due' = S
  /\ UNCHANGED <<agentVars, connVars, inHand, nodes, batch, dbVars, resetting, resets,
                 adminVars, ghostVars, failVars, loadVars>>

(* The update of the row; a row that is gone is not an error.               *)
ResetRow(n) ==
  /\ resetting = None
  /\ n \in due
  /\ due' = due \ {n}
  /\ resetting' = n
  /\ resets' = [resets EXCEPT ![n] = @ + 1]
  /\ traffic' = IF n \in rows THEN [traffic EXCEPT ![n] = Zero] ELSE traffic
  /\ UNCHANGED <<agentVars, connVars, inHand, nodes, batch, rows, adminVars,
                 ghostVars, failVars, loadVars>>

(* The update of the row fails: this tick leaves the node alone.            *)
ResetRowFails(n) ==
  /\ resetting = None
  /\ n \in due
  /\ saveFails < MaxSaveFail
  /\ saveFails' = saveFails + 1
  /\ due' = due \ {n}
  /\ UNCHANGED <<agentVars, connVars, inHand, nodes, batch, dbVars, resetting, resets,
                 adminVars, ghostVars, crashes, loadVars>>

(* Mutant: the zero is not written again, the row has it already.           *)
Cleared_Clean ==
  [total |-> Zero, last |-> Zero, boot |-> 0, seen |-> FALSE, dirty |-> FALSE]

(* ResetNodeTrafficLiveState: the total is zero, is to be written, and the  *)
(* next sample only sets a new baseline.                                    *)
Cleared ==
  [total |-> Zero, last |-> Zero, boot |-> 0, seen |-> FALSE, dirty |-> TRUE]

ResetLive(n) ==
  /\ resetting = n
  /\ resetting' = None
  /\ nodes' = IF nodes[n] = None THEN nodes ELSE [nodes EXCEPT ![n] = Cleared]
  /\ cycleStart' = [cycleStart EXCEPT ![n] = heard[n]]
  /\ misloaded' = misloaded \ {n}
  /\ UNCHANGED <<agentVars, connVars, inHand, batch, dbVars, due, resets, adminVars,
                 heard, late, failVars, rolledBack, loadFails>>
-----------------------------------------------------------------------------
(* The deletion of a node: apiDeleteNode and CleanupNodeState.              *)

(* The row is deleted.                                                      *)
DeleteRow(n) ==
  /\ deleting[n] = "no"
  /\ deleting' = [deleting EXCEPT ![n] = "row"]
  /\ rows' = rows \ {n}
  /\ UNCHANGED <<agentVars, connVars, inHand, nodes, batch, traffic, resetVars, valid,
                 editVars, ghostVars, failVars, loadVars>>

(* CleanupNodeState, under hub.mu.                                          *)
CleanupNodes(n) ==
  /\ deleting[n] = "row"
  /\ deleting' = [deleting EXCEPT ![n] = "nodes"]
  /\ nodes' = [nodes EXCEPT ![n] = None]
  /\ UNCHANGED <<agentVars, connVars, inHand, batch, dbVars, resetVars, valid,
                 editVars, ghostVars, failVars, loadVars>>

(* CleanupNodeState, under agentMu: the connection is closed.               *)
CleanupConn(n) ==
  /\ deleting[n] = "nodes"
  /\ deleting' = [deleting EXCEPT ![n] = "conn"]
  /\ agentConns' = [agentConns EXCEPT ![n] = None]
  /\ phase' = [c \in Conn |-> IF c = agentConns[n] THEN "closed" ELSE phase[c]]
  /\ UNCHANGED <<agentVars, link, owner, binding, inHand, nodes, batch, dbVars, resetVars, valid,
                 editVars, ghostVars, failVars, loadVars>>

(* DeleteNodeNotifyConfig: the install_id is not valid any more.            *)
DeleteNotifyConfig(n) ==
  /\ deleting[n] = "conn"
  /\ deleting' = [deleting EXCEPT ![n] = "done"]
  /\ valid' = valid \ {n}
  /\ UNCHANGED <<agentVars, connVars, inHand, nodes, batch, dbVars, resetVars,
                 editVars, ghostVars, failVars, loadVars>>
-----------------------------------------------------------------------------
(* The edit of a node: apiUpdateNode.  The row is read ...                   *)
EditRead(n) ==
  /\ edit[n] = None /\ edits < MaxEdit
  /\ n \in rows
  /\ edit' = [edit EXCEPT ![n] = traffic[n]]
  /\ edits' = edits + 1
  /\ UNCHANGED <<agentVars, connVars, inHand, nodes, batch, dbVars, resetVars, valid,
                 deleting, ghostVars, failVars, loadVars>>

(* ... and saved with every column it had, once the request is worked into  *)
(* it.  gorm's Save inserts the row again when it is gone.                  *)
EditSave(n) ==
  /\ edit[n] # None
  /\ edit' = [edit EXCEPT ![n] = None]
  /\ traffic' = [traffic EXCEPT ![n] = edit[n]]
  /\ rows' = rows \cup {n}
  /\ rolledBack' = IF traffic[n] = edit[n] THEN rolledBack ELSE rolledBack \cup {n}
  /\ UNCHANGED <<agentVars, connVars, inHand, nodes, batch, resetVars, valid, deleting,
                 edits, ghostVars, failVars, misloaded, loadFails>>

(* The request is refused after all, or the row cannot be saved.            *)
EditFails(n) ==
  /\ edit[n] # None
  /\ edit' = [edit EXCEPT ![n] = None]
  /\ UNCHANGED <<agentVars, connVars, inHand, nodes, batch, dbVars, resetVars, valid,
                 deleting, edits, ghostVars, failVars, loadVars>>
-----------------------------------------------------------------------------
(* The panel's process dies and starts again: the database is what is left, *)
(* and the notify cache is filled from its rows.                            *)
Crash ==
  /\ crashes < MaxCrash
  /\ crashes' = crashes + 1
  /\ nodes' = [n \in Node |-> None]
  /\ batch' = [n \in Node |-> None]
  /\ agentConns' = [n \in Node |-> None]
  /\ phase' = [c \in Conn |-> "free"]
  /\ owner' = [c \in Conn |-> None]
  /\ binding' = {}
  /\ inHand' = [c \in Conn |-> None]
  /\ link' = [n \in Node |-> None]
  /\ due' = {}
  /\ resetting' = None
  /\ valid' = rows
  /\ deleting' = [n \in Node |-> IF n \in rows THEN "no" ELSE "done"]
  /\ edit' = [n \in Node |-> None]
  /\ misloaded' = {} /\ rolledBack' = {}
  /\ UNCHANGED <<agentVars, dbVars, resets, ghostVars, saveFails, edits, loadFails>>

Next ==
  \/ \E n \in Node :
       \/ \E d \in Dir : Move(n, d)
       \/ Reboot(n)
       \/ AgentRestart(n)
       \/ CounterReset(n)
       \/ \E c \in Conn : Dial(c, n)
  \/ \E c \in Conn :
       \/ \E failed \in BOOLEAN : EnsureLive(c, failed) \/ Apply(c, failed)
       \/ Accept(c) \/ Register(c)
       \/ Refuse(c)
       \/ Receive(c)
       \/ Disconnect(c)
  \/ Collect
  \/ \E n \in Node : Save(n) \/ SaveFails(n)
  \/ \E S \in SUBSET Node : Tick(S)
  \/ \E n \in Node : ResetRow(n) \/ ResetRowFails(n) \/ ResetLive(n)
  \/ \E n \in Node :
       \/ DeleteRow(n) \/ CleanupNodes(n) \/ CleanupConn(n) \/ DeleteNotifyConfig(n)
       \/ EditRead(n) \/ EditSave(n) \/ EditFails(n)
  \/ Crash

Spec == Init /\ [][Next]_vars

(* The flusher wakes up every 10 or 30 seconds and writes what it collected; *)
(* the reset goroutine finishes a node it has begun.  Neither waits for      *)
(* another goroutine outside a critical section.                             *)
FairSpec ==
  /\ Spec
  /\ WF_vars(Collect)
  /\ \A n \in Node : WF_vars(Save(n)) /\ WF_vars(ResetLive(n))
-----------------------------------------------------------------------------
(* agentMu and the check of unbindAgentConnectionIfCurrent: the registered   *)
(* connection of a node is open and is the only open one its agent dialled,  *)
(* whatever the order in which old handlers notice that they were replaced.  *)
RegisteredIsOpen ==
  \A n \in Node, c \in Conn :
    agentConns[n] = c <=> phase[c] = "open" /\ owner[c] = n

(* The nodes whose deletion has not begun since the panel started.           *)
Kept == {n \in Node : deleting[n] = "no"}

(* An entry that is not marked dirty, is not in a batch and is not being     *)
(* reset agrees with the row: no total that a handler, a failed write or a   *)
(* reset has changed waits for traffic to be written.  The exceptions are an *)
(* entry whose base could not be read and a row an edit has rolled back.     *)
CleanMatchesRow ==
  \A n \in Kept \ (misloaded \cup rolledBack) :
    nodes[n] # None /\ ~nodes[n].dirty /\ batch[n] = None /\ resetting # n
      => traffic[n] = nodes[n].total

Within(total, n) == \A d \in Dir : total[d] <= heard[n][d] - cycleStart[n][d]

(* The live total of a node never exceeds the bytes it moved between the     *)
(* last sample of the previous cycle and the last sample applied, over       *)
(* reboots, counter resets, reconnections, failing writes and crashes.  The  *)
(* exceptions are a sample that a superseded handler applies; the first      *)
(* sample of a connection, read before the connection is registered, when a  *)
(* newer one was applied meanwhile; and a panel that crashes once a cycle    *)
(* was reset: it may start again from the totals that a late write put over  *)
(* the reset row.                                                            *)
NoOvercount ==
  \A n \in Kept \ late :
    nodes[n] # None /\ (crashes = 0 \/ resets[n] = 0) => Within(nodes[n].total, n)

(* The comments of apiUpdateNode: it works "the base fields of the request"  *)
(* into the row and saves it.  The totals the flusher writes are left alone. *)
EditKeepsTotals ==
  [][\A n \in Node :
       edit[n] # None /\ edit'[n] = None /\ n \in rows /\ crashes' = crashes
         => traffic'[n] = traffic[n]]_vars

(* A write from an earlier cycle that lands after the reset does not stay:   *)
(* the next batch replaces it, even if the node is silent.                   *)
StaleWriteHeals ==
  \A n \in Node :
    n \in Kept /\ n \notin rolledBack /\ resetting # n /\ ~Within(traffic[n], n)
      ~> n \notin Kept \/ n \in rolledBack \/ Within(traffic[n], n)

(* The row catches up with the live total again and again, although writes   *)
(* may fail and samples keep coming.                                         *)
RowCatchesUp ==
  \A n \in Node :
    []<>(\/ n \notin Kept \/ n \in rolledBack
        \/ nodes[n] = None
        \/ traffic[n] = nodes[n].total)

(* Until a cycle is reset, a row never loses traffic: not by a crash between *)
(* two writes, not by a write that comes late, not by a reconnection.  Only  *)
(* an edit takes some of it away.                                            *)
RowNeverShrinks ==
  [][\A n \in Kept \ misloaded :
       n \notin rolledBack' /\ resets'[n] = 0
         => \A d \in Dir : traffic'[n][d] >= traffic[n][d]]_vars
=============================================================================
