------------------------------ MODULE MCProgress ------------------------------
(***************************************************************************)
(* For TLC, what comes to an end, side by side: the simulation of a tree   *)
(* of nodes, for a given duration and with zero durations among those that *)
(* are planned; the same without either, for an end user who may stop      *)
(* early; the flow through a composite node wired in every way; the        *)
(* customs example; and the systems of queues and processors.  A behaviour *)
(* uses one of them, and the others stay as they begin.                    *)
(***************************************************************************)
EXTENDS MCSimulation, MCFlowNetwork, TLC

CONSTANTS
    \* of Customs
    Source, Sink, Queues, Servers, LaneQueues, Downstream, Component, Agents,
    Booths, Capacity, Orders, MaxItems, None,
    queue, kiosks, kiosk_a, kiosk_b, central, desk_a, desk_b,
    lane_a, lane_b, booth_a, booth_b

VARIABLES
    part,  \* what is in use
    brief_t, brief_stack, brief_due, brief_last, brief_outputs, brief_life, brief_failure,
    brief_owed, brief_told, brief_started, brief_finishing, brief_finished,
    order, agents, queue_, served_, registered_src_ids_, accepting_dst_ids_,
    registration_status_, acceptance_src_id_, planned, ending, next_item_id_,
    acceptance_values_, item_counts_, total_item_count_, registration_src_ids_,
    opening, departed, error,
    system, dts, now, generator, servers, N, entered, left, results

Brief ==
    INSTANCE Simulation WITH
        Durations <- MCPositiveDurations, EndT <- 3, CanEndEarly <- TRUE,
        t <- brief_t, stack <- brief_stack, due <- brief_due, last <- brief_last,
        outputs <- brief_outputs, life <- brief_life, failure <- brief_failure,
        owed <- brief_owed, told <- brief_told, started <- brief_started,
        finishing <- brief_finishing, finished <- brief_finished
Items == INSTANCE Customs WITH due <- ending
Jobs ==
    INSTANCE Queueing WITH
        GenDts <- {1, 2, 3}, ServDts <- {0, 2, 5}, MaxNs <- {0, 1, 2}, EndTs <- {7, 9}, MaxJobs <- 3

briefVars ==
    <<brief_t, brief_stack, brief_due, brief_last, brief_outputs, brief_life, brief_failure,
      brief_owed, brief_told, brief_started, brief_finishing, brief_finished>>
itemVars ==
    <<order, agents, queue_, served_, registered_src_ids_, accepting_dst_ids_,
      registration_status_, acceptance_src_id_, planned, ending, next_item_id_,
      acceptance_values_, item_counts_, total_item_count_, registration_src_ids_,
      opening, departed, error>>
jobVars == <<system, dts, now, generator, servers, N, entered, left, results>>

-----------------------------------------------------------------------------
(* The customs of customs_closed_system.h, with two lanes of booths.       *)

MCDownstream ==
    (Source :> {queue}) @@ (queue :> {kiosk_a, kiosk_b})
        @@ [s \in {kiosk_a, kiosk_b} |-> {desk_a, desk_b}]
        @@ [s \in {desk_a, desk_b} |-> {lane_a, lane_b}]
        @@ (lane_a :> {booth_a}) @@ (lane_b :> {booth_b})
        @@ [s \in {booth_a, booth_b} |-> {Sink}] @@ (Sink :> {})
MCComponent ==
    [s \in {lane_a, lane_b, booth_a, booth_b} |-> Booths]
        @@ [s \in {kiosk_a, kiosk_b} |-> kiosks] @@ [s \in {desk_a, desk_b} |-> central]
        @@ [s \in {Source, Sink, queue} |-> s]
MCAgents ==
    (kiosks :> <<kiosk_a, kiosk_b>>) @@ (central :> <<desk_a, desk_b>>) @@ (Booths :> <<>>)
        @@ [s \in {Source, Sink, queue} |-> <<s>>]
MCCapacity == [s \in {Sink, queue} |-> 9] @@ [s \in {Source} \cup Queues \cup Servers |-> 1]
MCLanes == <<lane_a, lane_b>>

\* As customs_closed_system.h declares the components.
MCDeclared == {<<Source, queue, kiosks, central, Booths, Sink>>}

\* The sink and the booths the other way round.
MCSinkFirst == {<<Source, queue, kiosks, central, Sink, Booths>>}

-----------------------------------------------------------------------------
ProgressInit ==
    /\ part \in {"tree", "brief", "flow", "items", "jobs"}
    /\ Init /\ Brief!Init /\ Items!Init
    /\ IF part = "jobs" THEN Jobs!Init
       ELSE /\ system = "none" /\ dts = <<>> /\ now = 0 /\ generator = <<>> /\ servers = <<>>
            /\ N = <<>> /\ entered = <<>> /\ left = <<>> /\ results = <<>>
    /\ FlowInit
    /\ part # "flow" => flowNodes = {} /\ links = {}

all == <<part, vars, briefVars, flowVars, itemVars, jobVars>>

\* Each part is given the fairness of its own specification: whoever runs the
\* simulation takes the next step, if there is one, sooner or later.
Progress ==
    /\ UNCHANGED part
    /\ \/ part = "tree" /\ Step /\ UNCHANGED <<briefVars, flowVars, itemVars, jobVars>>
       \/ part = "brief" /\ Brief!Step /\ UNCHANGED <<vars, flowVars, itemVars, jobVars>>
       \/ part = "flow" /\ FlowNext /\ UNCHANGED <<vars, briefVars, itemVars, jobVars>>
       \/ part = "items" /\ Items!Next /\ UNCHANGED <<vars, briefVars, flowVars, jobVars>>
       \/ part = "jobs" /\ Jobs!Next /\ UNCHANGED <<vars, briefVars, flowVars, itemVars>>

\* What is in use has come to its end, or to an exception; the customs say so
\* themselves.
AtRest ==
    /\ \/ part = "tree" /\ Stopped
       \/ part = "brief" /\ Brief!Stopped
       \/ part = "flow" /\ (thrown # "none" \/ Completed)
       \/ part = "jobs" /\ results # <<>>
    /\ UNCHANGED all

ProgressNext == Progress \/ AtRest

ProgressSpec == ProgressInit /\ [][ProgressNext]_all
FairProgressSpec == ProgressSpec /\ WF_all(Progress)

-----------------------------------------------------------------------------
\* examples/research/customs: with the components in the order in which the
\* example declares them, and whichever durations end together, an item is in one
\* place, no station throws, and the booths know what is in their lanes.
StationsAgree == Items!ItemsInOnePlace /\ Items!ErrorFree /\ Items!CountsAgree

\* examples/demo/queueing, examples/test_systems/basic: jobs leave when their
\* services in turn are over, and idle times and misses follow from that.
ServedInTurn == part = "jobs" => Jobs!ServedInTurn

\* simulation.h, composite_node.cpp, and the examples: whichever is in
\* use comes to an end; process_remaining_events returns with every node
\* finalized, or a node fails, the flow of a composite node has given every node
\* its turn unless it has failed, every item has departed from the customs as it
\* is declared, and the systems of queues have their results.  The tree whose
\* nodes may plan zero durations for ever need not come to an end.
ComesToAnEnd ==
    <>(\/ part = "tree"
       \/ part = "brief" /\ (brief_finished \/ brief_failure = "node") /\ Brief!WhollyFinalized
       \/ part = "flow" /\ (thrown # "none" \/ Completed)
       \/ part = "items" /\ Len(departed) = MaxItems
       \/ part = "jobs" /\ results # <<>>)

\* main.cpp:1-6 of the customs: the nodes are "robust with respect to
\* tie-breaking", and "the simulation should progress error-free regardless of
\* which component's event is processed first".
NoItemIsLost == Items!ItemsInOnePlace
=============================================================================
