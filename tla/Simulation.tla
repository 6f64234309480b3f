------------------------------ MODULE Simulation ------------------------------
(***************************************************************************)
(* simulation.h on top of the tree of nodes: process_next_event executes   *)
(* one event of the top node, then advance_time moves the simulated time   *)
(* to the next one or decides that the simulation is finishing.  The end   *)
(* user may stop calling it at any time; process_remaining_events is the   *)
(* loop that calls it until the simulation has finished.                   *)
(***************************************************************************)
EXTENDS CompositeNode

CONSTANTS
    Top,           \* the topmost node
    StartT, EndT,  \* start_t_ and end_t_
    CanEndEarly    \* can_end_early_: no total duration was given

\* validate(): the topmost node has no ports.
ASSUME TopAssumption ==
    /\ Top \in Nodes /\ Children[Root] = <<Top>>
    /\ \A l \in OutwardLinks : Parent(l[1]) # Top
    /\ Top \in Leaves => Emissions[Top] \subseteq {<<>>}
ASSUME TimeAssumption ==
    StartT \in Int /\ EndT \in Int /\ StartT <= EndT /\ CanEndEarly \in BOOLEAN
\* Any two times of the simulation are a duration apart that one multiplier of
\* the finest scale holds: then gap() is exact, so that advance_time(t) of a
\* queue reaches t (module TimeQueue has the exception), and no event retained
\* in a t_cache_ expires.
ASSUME SpanAssumption == EndT - StartT < quantity_limit

VARIABLES started, finishing, finished

vars == <<t, stack, nodeVars, failure, started, finishing, finished>>

Init ==
    /\ t = StartT
    /\ stack = <<>>
    /\ due = [c \in Parents |-> EmptyTimetable]
    /\ last = [n \in Leaves |-> StartT]
    /\ outputs = [n \in Nodes |-> <<>>]
    /\ life = [n \in Nodes |-> "new"]
    /\ failure = "none"
    /\ owed = {}
    /\ told = [n \in Leaves |-> 0]
    /\ started = FALSE /\ finishing = FALSE /\ finished = FALSE

\* process_next_event starts the event that is due.
Begin(event) ==
    /\ ~Busy /\ failure = "none" /\ ~finished
    /\ stack' = <<Frame(Call(Root, event, 0, <<>>), {Call(Top, event, 0, <<>>)}, Root, 0)>>
    /\ UNCHANGED <<t, nodeVars, failure, finishing, finished>>

process_initialization_event ==
    ~finishing /\ ~started /\ Begin("initialization") /\ started' = TRUE

process_planned_event ==
    ~finishing /\ started /\ Begin("planned") /\ UNCHANGED started

process_finalization_event ==
    finishing /\ Begin("finalization") /\ UNCHANGED started

\* Mutant: the simulation is not finishing yet when the end time is reached.
advance_time_PastEnd ==
    LET planned == Earliest(due[Root])
        Clipped(u) == IF u > EndT THEN EndT ELSE u
    IN  IF planned = {} /\ CanEndEarly
        THEN t' = t /\ finishing' = TRUE
        ELSE /\ t' = IF planned = {} THEN EndT ELSE Clipped(CHOOSE u \in planned : TRUE)
             /\ finishing' = (t' > EndT)

\* The simulated time after advance_time, and whether the end was reached.
advance_time ==
    LET planned == Earliest(due[Root])
        Clipped(u) == IF u > EndT THEN EndT ELSE u
    IN  IF planned = {} /\ CanEndEarly
        THEN t' = t /\ finishing' = TRUE
        ELSE /\ t' = IF planned = {} THEN EndT
                     ELSE IF t \in planned THEN t
                     ELSE Clipped(CHOOSE u \in planned : TRUE)
             /\ finishing' = (t' >= EndT)

\* The event of the top node has returned to process_next_event.
End ==
    /\ Handling(Root)
    /\ stack' = <<>>
    /\ IF finishing
       THEN finished' = TRUE /\ UNCHANGED <<t, finishing>>
       ELSE advance_time /\ UNCHANGED finished
    /\ UNCHANGED <<nodeVars, failure, started>>

Step ==
    \/ process_initialization_event
    \/ process_planned_event
    \/ process_finalization_event
    \/ End
    \/ NodeStep /\ UNCHANGED <<started, finishing, finished>>

\* The simulation is over, or an exception has left it unusable.
Stopped == (finished \/ failure # "none") /\ UNCHANGED vars

Next == Step \/ Stopped

Spec == Init /\ [][Next]_vars
FairSpec == Spec /\ WF_vars(Step)

-----------------------------------------------------------------------------
(* Properties                                                              *)

\* Each queue holds components of its own node.
TypeOK ==
    /\ t \in Int
    /\ DOMAIN due = Parents
    /\ \A c \in Parents : \A n \in DOMAIN due[c] :
          n \in Nodes /\ Parent(n) = c /\ due[c][n] \in Int
    /\ last \in [Leaves -> Int] /\ told \in [Leaves -> Int]
    /\ life \in [Nodes -> {"new", "initialized", "finalized"}]
    /\ failure \in {"none", "node", "internal"}
    /\ started \in BOOLEAN /\ finishing \in BOOLEAN /\ finished \in BOOLEAN

\* In no queue of the tree does time move past a planned event, and no node
\* has been told of a time that is still to come.
NothingMissed ==
    /\ \A c \in Parents : NoneBefore(due[c], t)
    /\ \A n \in Leaves : last[n] <= t /\ 0 <= told[n]

\* Model events stay inside the simulated period: a component is given a
\* planned or an unplanned event only before the end time, and finalized, and
\* nothing else, once the simulation is finishing, whatever is planned later.
InPeriod(call) ==
    /\ call.event \in {"planned", "unplanned"} => t < EndT
    /\ call.event = "finalization" <=> finishing
EventsInPeriod ==
    \A i \in DOMAIN stack : \A call \in {stack[i].call} \cup stack[i].calls : InPeriod(call)

\* Events are planned for components, never passed, and kept to the period.
EventsOnTime == TypeOK /\ NothingMissed /\ EventsInPeriod

\* Between two calls of process_next_event the queues of the whole tree agree:
\* the event a parent has planned for a composite node is at the time of the
\* earliest event the composite node has planned for its components.
InSync(c) == TimesOf(due[Parent(c)], {c}) = Earliest(due[c])
HierarchyInSync ==
    ~Busy /\ failure = "none" => \A c \in Composites : InSync(c)

\* composite_node.cpp throws "Unexpected error while advancing time to that of
\* next planned event", and its queue when an event would be passed: never so.
NoInternalError == failure # "internal"

\* No message outlives the event that sent it, anywhere in the tree.
OutputsDrained ==
    ~Busy /\ failure = "none" => \A n \in Nodes : outputs[n] = <<>>

\* A node that adds up the elapsed durations it is given knows, at every one
\* of its events, how far the simulated time is from the start, in ticks of
\* its own time precision.
ElapsedAddsUp ==
    [][\A n \in Leaves :
          LeafPlannedEvent(n) \/ LeafUnplannedEvent(n) \/ LeafFinalization(n)
              => told'[n] = Floor(t, TimePrecision[n]) - Floor(StartT, TimePrecision[n])]_vars

\* A simulation that finishes has finalized every node of the tree.
WhollyFinalized == finished => \A n \in Nodes : life[n] = "finalized"

\* process_remaining_events comes to an end if no node plans zero durations
\* for ever, unless user code throws: time cannot stall in the framework.
EventuallyStops == <>(finished \/ failure = "node")

\* A message that was sent reaches all its destinations.
MessagesArrive == owed # {} ~> (owed = {} \/ failure = "node")

\* The tree of nodes is invisible: the simulation does what it promises to its
\* leaves as if they were the components of one flat node.
LeafTimes ==
    LET planned == {n \in Leaves : n \in DOMAIN due[Parent(n)]}
    IN  [n \in planned |-> due[Parent(n)][n]]
LeafLife == [n \in Leaves |-> life[n]]
Flat == INSTANCE Devs WITH due <- LeafTimes, pending <- owed, life <- LeafLife
ImplementsDevs == Flat!Spec
=============================================================================
