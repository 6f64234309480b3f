------------------------------ MODULE Timetable ------------------------------
(***************************************************************************)
(* A timetable is a function from the ids of the planned events to their   *)
(* times: what a time_queue and a time_cache stand for, and the form in    *)
(* which the node models keep them.                                        *)
(***************************************************************************)
EXTENDS Integers

EmptyTimetable == [i \in {} |-> 0]

WithEvent(due, id, t) ==
    [i \in DOMAIN due \cup {id} |-> IF i = id THEN t ELSE due[i]]

WithoutEvents(due, ids) == [i \in DOMAIN due \ ids |-> due[i]]

Imminent(due) == {i \in DOMAIN due : \A j \in DOMAIN due : due[i] <= due[j]}

\* The times planned for some of the ids: no time for an id without an event.
TimesOf(due, ids) == {due[i] : i \in ids \cap DOMAIN due}

\* The earliest time, as a set that is empty if there is none.
Earliest(due) == TimesOf(due, Imminent(due))

\* No event lies before t, so time may be moved to t.
NoneBefore(due, t) == \A i \in DOMAIN due : t <= due[i]
=============================================================================
