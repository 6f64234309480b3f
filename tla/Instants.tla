------------------------------ MODULE Instants ------------------------------
(***************************************************************************)
(* What a time_point promises (time_point.h): it is an integer number of   *)
(* ticks, constructed from a duration, to which durations of any scale are *)
(* added exactly, and advancing it adds a duration and drops what is finer *)
(* than its precision.                                                     *)
(***************************************************************************)
EXTENDS Adjustments

VARIABLE at  \* the time points

Init == at = [n \in Names |-> 0]

Construct(n, dt) == at' = [at EXCEPT ![n] = dt.m * Tick(dt.p)]
Add(n, dt) == at' = [at EXCEPT ![n] = @ + dt.m * Tick(dt.p)]
Advance(n, dt) == at' = [at EXCEPT ![n] = advance(@, dt)]

Next ==
    \E n \in Names :
        \/ \E dt \in Initials : Construct(n, dt)
        \/ \E dt \in Offsets : Add(n, dt)
        \/ \E dt \in Advances : Advance(n, dt)

Spec == Init /\ [][Next]_at
=============================================================================
