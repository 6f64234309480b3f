------------------------------ MODULE EventPlans ------------------------------
(***************************************************************************)
(* What a user of a time_queue may ask of it: the parameters that the      *)
(* queue and the calendar it implements have in common.                    *)
(***************************************************************************)
EXTENDS TimeScale

CONSTANTS
    Ids,            \* event ids
    PlanDurations,  \* the finite durations events are planned with
    StartTimes,     \* the times a queue may be created at
    MaxTime         \* bound: no call moves the current time beyond it

ASSUME EventPlansAssumption ==
    /\ StartTimes \subseteq Int
    /\ PlanDurations \subseteq [m : Nat, p : Scales]
    /\ \A dt \in PlanDurations : finite(dt)
    /\ MaxTime \in Int
=============================================================================
