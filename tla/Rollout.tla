------------------------------- MODULE Rollout -------------------------------
(***************************************************************************)
(* What a self-replacing agent promises, whatever files it keeps: there is *)
(* the program a node would run now and, while that one is on trial, the   *)
(* one it came from.  Only a proven program is replaced, by a newer one;   *)
(* the trial ends with the proof of the new program or the return of the   *)
(* old.  Nothing but two failing operations can leave the node without a   *)
(* program.  AgentUpdater implements this.                                 *)
(***************************************************************************)
EXTENDS Integers

CONSTANT None  \* no program

VARIABLES
  current,   \* the program the node runs, or would run when started
  fallback,  \* the program that would be returned to, or None
  proven,    \* programs that have worked on this node
  faults     \* how many operations have failed

vars == <<current, fallback, proven, faults>>

Init == current # None /\ fallback = None /\ proven = {current} /\ faults = 0

(* A proven program, not itself on trial, is replaced by a newer one.       *)
Begin ==
  /\ current \in proven /\ fallback = None
  /\ current' # None /\ current' > current
  /\ fallback' = current
  /\ UNCHANGED proven

(* The current program works.                                               *)
Prove == proven' = proven \cup {current} /\ UNCHANGED <<current, fallback>>

(* The trial of a program that works is over.                               *)
Confirm == current \in proven /\ fallback' = None /\ UNCHANGED <<current, proven>>

(* The trial has failed.                                                    *)
GiveUp ==
  /\ fallback \in proven
  /\ current' = fallback /\ fallback' = None
  /\ UNCHANGED proven

(* The program is lost.                                                     *)
Lose == faults > 1 /\ current' = None /\ fallback' = None /\ UNCHANGED proven

Next ==
  /\ faults' >= faults
  /\ \/ Begin \/ Prove \/ Confirm \/ GiveUp \/ Lose
     \/ UNCHANGED <<current, fallback, proven>>

Spec == Init /\ [][Next]_vars
=============================================================================
