------------------------------ MODULE Recording ------------------------------
(***************************************************************************)
(* What a time_sequence promises (time_sequence.h): it keeps the time      *)
(* points appended to it, each of which exceeds all those before.          *)
(***************************************************************************)
EXTENDS Integers, Sequences

CONSTANT TimePoints  \* the time points that may be appended

VARIABLE recorded

Init == recorded = <<>>

Append_(t) ==
    /\ \A i \in DOMAIN recorded : recorded[i] < t
    /\ recorded' = Append(recorded, t)

Next == \E t \in TimePoints : Append_(t)

Spec == Init /\ [][Next]_recorded
=============================================================================
