------------------------------- MODULE MCStudio -------------------------------
(***************************************************************************)
(* Small studios, in one of two ways for a whole behaviour: SerialRequests  *)
(* requests that follow one another, with a definition that does not       *)
(* validate; or RacingRequests, two in flight together, with a second name  *)
(* and duplication.                                                        *)
(***************************************************************************)
EXTENDS Studio, TLC

CONSTANTS r1, r2, w1, w2, v1, v2, v3, SerialRequests, RacingRequests

StudioSymmetry ==
    Permutations({r1, r2}) \cup Permutations({w1, w2}) \cup Permutations({v1, v2, v3})

(* Bounds of the model, on what is asked for.                              *)
Follows(t) ==
    /\ started' <= SerialRequests
    /\ req'[t].op # "duplicate" /\ req'[t].n \in {Null, "agent"}

Races(t) == started' <= RacingRequests /\ req'[t].d \in {Null, "good"}

Next ==
    /\ \E t \in Req : \/ Arrive(t) /\ (IF inTurn THEN Follows(t) ELSE Races(t))
                      \/ Step(t) \/ Abort(t)
    /\ UNCHANGED inTurn

Spec == StudioInit /\ [][Next]_studioVars
=============================================================================
