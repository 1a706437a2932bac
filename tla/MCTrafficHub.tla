---------------------------- MODULE MCTrafficHub ----------------------------
(***************************************************************************)
(* Instances of TrafficHub for TLC.                                        *)
(***************************************************************************)
EXTENDS TrafficHub, TLC

(* Connection handlers are interchangeable; used where no liveness property *)
(* is checked.                                                              *)
ConnSymmetry == Permutations(Conn)

(* Bound: a second boot, a crash of the panel and a reset of the cycle, from *)
(* the tick that orders it on, do not come together.                         *)
OneEvent ==
  \A n \in Node :
    LET booted == bootId[n] > 1
    IN  /\ ~(crashes > 0 /\ booted)
        /\ n \in due \/ resets[n] > 0 => crashes = 0 /\ ~booted
=============================================================================
