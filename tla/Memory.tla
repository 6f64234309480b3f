------------------------------- MODULE Memory -------------------------------
(***************************************************************************)
(* What a time_cache promises (time_cache.h): an event is retained at a    *)
(* scale, and until it is released, retained again or older than the       *)
(* longest duration of that scale, the time since then can be read.        *)
(***************************************************************************)
EXTENDS EventPlans

CONSTANT RetainScales  \* the scales events are retained at

VARIABLES
    now,   \* the current time
    noted  \* id -> when it was retained, and at which scale

Init == now \in StartTimes /\ noted = [id \in {} |-> 0]

Retain(id, p) ==
    /\ UNCHANGED now
    /\ noted' = [i \in DOMAIN noted \cup {id} |->
                    IF i = id THEN [at |-> Floor(now, p), p |-> p] ELSE noted[i]]

Release(id) ==
    /\ UNCHANGED now
    /\ noted' = [i \in DOMAIN noted \ {id} |-> noted[i]]

Expired(entry, t) == t - entry.at > (quantity_limit - 1) * Tick(entry.p)

Advance ==
    /\ now' \in now + 1 .. MaxTime
    /\ noted' = [i \in {j \in DOMAIN noted : ~Expired(noted[j], now')} |-> noted[i]]

Next ==
    \/ Advance
    \/ \E id \in Ids : Release(id) \/ \E p \in RetainScales : Retain(id, p)

Spec == Init /\ [][Next]_<<now, noted>>
=============================================================================
