-------------------------------- MODULE Devs --------------------------------
(***************************************************************************)
(* What a simulation promises to its message nodes, with the hierarchy of  *)
(* composite nodes left out: every node is initialized once, its planned   *)
(* events occur at the times it planned them for, every message reaches    *)
(* each destination it is linked to before the next planned event, and     *)
(* every node is finalized once, at the end.                               *)
(***************************************************************************)
EXTENDS TimeScale, Timetable, Sequences

CONSTANTS
    Leaves,       \* the nodes whose event handlers are user code
    Durations,    \* Leaves -> the durations a node may plan, inf among them
    Emissions,    \* Leaves -> the lists of output ports a planned event uses
    Routes,       \* a node and its output port -> the routes of a message,
                  \* each a sequence that ends in a leaf and an input port
    StartT, EndT, \* start and end of the simulation
    CanEndEarly   \* may the simulation end once no event is planned?

VARIABLES
    t,        \* the current time
    due,      \* the timetable of the nodes' planned events
    pending,  \* deliveries owed: a route and the place in the list sent
    life      \* "new", "initialized" or "finalized", for each node

devsVars == <<t, due, pending, life>>

\* The timetable once the handler of a node has returned planned_dt.
Replanned(n, planned_dt) ==
    IF finite(planned_dt) THEN WithEvent(due, n, advance(t, planned_dt))
    ELSE WithoutEvents(due, {n})

AllAre(stage) == \A n \in Leaves : life[n] = stage

\* No planned event is executed at or after the end time.
Over == t >= EndT \/ (due = EmptyTimetable /\ CanEndEarly)

Init ==
    /\ t = StartT
    /\ due = EmptyTimetable
    /\ pending = {}
    /\ life = [n \in Leaves |-> "new"]

Initialize(n) ==
    /\ life[n] = "new"
    /\ life' = [life EXCEPT ![n] = "initialized"]
    /\ \E planned_dt \in Durations[n] : due' = Replanned(n, planned_dt)
    /\ UNCHANGED <<t, pending>>

PlannedEvent(n) ==
    /\ AllAre("initialized") /\ ~Over /\ pending = {}
    /\ n \in DOMAIN due /\ due[n] = t
    /\ \E sent \in Emissions[n] :
          pending' = UNION {{<<r, k>> : r \in Routes[<<n, sent[k]>>]} : k \in DOMAIN sent}
    /\ \E planned_dt \in Durations[n] : due' = Replanned(n, planned_dt)
    /\ UNCHANGED <<t, life>>

\* Messages sent over one route arrive in the order they were sent.
UnplannedEvent(n) ==
    /\ \E d \in pending :
          /\ d[1][Len(d[1])][1] = n
          /\ \A e \in pending : e[1] = d[1] => d[2] <= e[2]
          /\ pending' = pending \ {d}
    /\ \E planned_dt \in Durations[n] : due' = Replanned(n, planned_dt)
    /\ UNCHANGED <<t, life>>

\* Time jumps to the earliest planned event, or to the end.
AdvanceTime ==
    /\ AllAre("initialized") /\ ~Over /\ pending = {}
    /\ \E u \in {due[n] : n \in Imminent(due)} \cup {EndT} :
          /\ t < u /\ u <= EndT
          /\ NoneBefore(due, u)
          /\ t' = u
    /\ UNCHANGED <<due, pending, life>>

Finalize(n) ==
    /\ Over /\ pending = {}
    /\ life[n] = "initialized"
    /\ \A m \in Leaves : life[m] # "new"
    /\ life' = [life EXCEPT ![n] = "finalized"]
    /\ UNCHANGED <<t, due, pending>>

Next ==
    \/ AdvanceTime
    \/ \E n \in Leaves :
          Initialize(n) \/ PlannedEvent(n) \/ UnplannedEvent(n) \/ Finalize(n)

Spec == Init /\ [][Next]_devsVars
=============================================================================
