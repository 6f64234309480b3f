----------------------------- MODULE Adjustments -----------------------------
(***************************************************************************)
(* What a user of time points may ask of them: the parameters that the     *)
(* digit vectors and the numbers they denote have in common.               *)
(***************************************************************************)
EXTENDS TimeScale

CONSTANTS
    Names,     \* the time points
    Initials,  \* the durations time points are constructed from
    Offsets,   \* the durations added, negative ones too
    Advances   \* the durations time points are advanced by

ASSUME AdjustmentsAssumption ==
    /\ Initials \subseteq [m : Int, p : Scales]
    /\ Offsets \subseteq [m : Int, p : Scales]
    /\ Advances \subseteq [m : Nat, p : Scales]
    /\ \A dt \in Initials \cup Offsets \cup Advances : Magnitude(dt.m) < quantity_limit
=============================================================================
