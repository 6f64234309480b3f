------------------------------ MODULE Calendar ------------------------------
(***************************************************************************)
(* What a time_queue promises (time_queue.h): events are planned a         *)
(* duration ahead of a current time that only moves forward and never      *)
(* moves past an event; the time of an event planned dt ahead is           *)
(* advance(now, dt), and it does not change until the event is replanned,  *)
(* cancelled or popped.                                                    *)
(***************************************************************************)
EXTENDS EventPlans, Timetable

VARIABLES
    now,  \* the current time
    due   \* the timetable of planned events

calendarVars == <<now, due>>

Init == now \in StartTimes /\ due = EmptyTimetable

Plan(id, dt) ==
    /\ UNCHANGED now
    /\ due' = WithEvent(due, id, advance(now, dt))

Cancel(id) ==
    /\ UNCHANGED now
    /\ id \in DOMAIN due
    /\ due' = WithoutEvents(due, {id})

Pop(id) == Cancel(id) /\ id \in Imminent(due)

PopAll ==
    /\ UNCHANGED now
    /\ due # EmptyTimetable
    /\ due' = WithoutEvents(due, Imminent(due))

Advance ==
    /\ now' \in now + 1 .. MaxTime
    /\ NoneBefore(due, now')
    /\ UNCHANGED due

Next ==
    \/ Advance
    \/ \E id \in Ids : Cancel(id) \/ Pop(id) \/ \E dt \in PlanDurations : Plan(id, dt)
    \/ PopAll

Spec == Init /\ [][Next]_calendarVars

-----------------------------------------------------------------------------
TypeOK ==
    /\ now \in Int
    /\ DOMAIN due \subseteq Ids
    /\ \A i \in DOMAIN due : due[i] \in Int

\* time_queue.cpp, advance_time: time is never set later than a planned event.
NeverMissed == NoneBefore(due, now)
=============================================================================
