----------------------------- MODULE MCTimeQueue -----------------------------
(* Instances of TimeQueue for TLC.  Base 4 with two scales to an epoch keeps *)
(* every mechanism of the code's 1000 and 5: an epoch is 16 ticks of its     *)
(* scale, so events wrap around one or two epochs within the time bound.     *)
EXTENDS TimeQueue, TLC

CONSTANTS event_1, event_2

MCPlanDurations ==
    {Duration(0, 1), Duration(1, 0), Duration(15, 0), Duration(15, 1)}
MCStartTimes == {-18}
MCAdvanceTargets == {-3, 5}
MCFarTargets == {19}

\* No operation tells one event id from another.
MCSymmetry == Permutations(Ids)
=============================================================================
