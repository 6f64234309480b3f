---------------------------- MODULE CompositeNode ----------------------------
(***************************************************************************)
(* composite_node.cpp, with the part of atomic_node.cpp and system_node.h  *)
(* it relies on: how the events of a tree of nodes are executed.  An event *)
(* handler of a composite node calls the event handlers of its components; *)
(* the chain of handlers in progress is the stack, whose top frame is the  *)
(* only one that takes a step.  The handlers of leaves are user code: any  *)
(* planned duration of their time precision, any list of messages.         *)
(***************************************************************************)
EXTENDS TimeScale, Timetable, SequencesExt

CONSTANTS
    Leaves,         \* nodes with user-defined handlers (atomic nodes)
    Composites,     \* nodes made of components
    Root,           \* stands for the simulation object above the top node
    Children,       \* Composites and Root -> their nodes in index order
    InwardLinks,    \* <<composite, its input port, component, input port>>
    InnerLinks,     \* <<component, output port, component, input port>>
    OutwardLinks,   \* <<component, output port, output port of its parent>>
    TimePrecision,  \* Leaves -> the scale of their durations
    Durations,      \* Leaves -> the durations they plan
    Ports,          \* the port indices
    Emissions       \* Leaves -> lists of output ports a planned event sends on

Nodes == Leaves \cup Composites
Parents == Composites \cup {Root}
Parent(n) == CHOOSE c \in Parents : \E i \in DOMAIN Children[c] : Children[c][i] = n
Index(n) == CHOOSE i \in DOMAIN Children[Parent(n)] : Children[Parent(n)][i] = n

\* Every node is created in the context of one parent, before its components.
ASSUME TreeAssumption ==
    /\ Leaves \cap Composites = {} /\ Root \notin Nodes
    /\ Children \in [Parents -> Seq(Nodes)]
    /\ \A n \in Nodes : \E c \in Parents : \E i \in DOMAIN Children[c] :
        /\ Children[c][i] = n
        /\ \A d \in Parents : \A j \in DOMAIN Children[d] :
              Children[d][j] = n => d = c /\ j = i
    /\ \A S \in SUBSET Nodes : S # {} => \E n \in S : Parent(n) \notin S
\* Of any set of nodes the one whose creation began last is the parent of none.
ASSUME DepthAssumption ==
    \A S \in SUBSET Nodes : S # {} => \E n \in S : \A m \in S : Parent(m) # n
\* node_interface numbers the ports; a composite node links its components.
ASSUME LinkAssumption ==
    /\ Ports \subseteq Nat
    /\ \A l \in InwardLinks : l[3] \in Nodes /\ Parent(l[3]) = l[1] /\ l[4] \in Ports
    /\ \A l \in InnerLinks :
          l[3] \in Nodes /\ Parent(l[3]) = Parent(l[1]) /\ l[4] \in Ports
\* Outward links end at ports of a composite node; a message leaves by a port.
ASSUME PortAssumption ==
    /\ IsFiniteSet(Ports)
    /\ \A l \in OutwardLinks : l[1] \in Nodes /\ Parent(l[1]) \in Composites /\ l[3] \in Ports
    /\ \A n \in Leaves : Emissions[n] \subseteq Seq(Ports)
ASSUME DurationAssumption ==
    \A n \in Leaves : /\ TimePrecision[n] \in Scales
                      /\ Durations[n] \ {inf} \subseteq [m : Nat, p : {TimePrecision[n]}]

VARIABLES
    t,        \* event_time().t(): the simulated time, shared by all nodes
    stack,    \* the event handlers in progress, outermost first
    due,      \* t_queue_ of each parent: component -> time of planned event
    last,     \* t_cache_: leaf -> time of its last event
    outputs,  \* message_outputs_ of each node: output port and message, which
              \* is its place in its sender's list and the ports it left by
    life,     \* initialized_ and finalized_ of each node
    failure,  \* "none", or what kind of exception ended the simulation
    owed,     \* history: deliveries of sent messages still to be made
    told      \* history: leaf -> the sum of the elapsed durations it was given

nodeVars == <<due, last, outputs, life, owed, told>>

-----------------------------------------------------------------------------
(* A call is a node, the event its handler executes and, for an unplanned  *)
(* event, the input port and message.  A frame is a call, the calls it has *)
(* yet to make, the component whose messages it routes and their number.   *)

Call(n, event, port, msg) == [node |-> n, event |-> event, port |-> port, msg |-> msg]
Frame(call, calls, src, routed) ==
    [call |-> call, calls |-> calls, src |-> src, routed |-> routed]

Busy == stack # <<>>
top == stack[Len(stack)]

\* Components are called in index order; the destinations of a message are
\* kept in a std::set of (node index, port index) pairs, which orders them.
Precedes(x, y) ==
    \/ Index(x.node) < Index(y.node)
    \/ x.node = y.node /\ x.port <= y.port
NextCall == CHOOSE x \in top.calls : \A y \in top.calls : Precedes(x, y)

inward_dsts(c, port) == {<<l[3], l[4]>> : l \in {k \in InwardLinks : k[1] = c /\ k[2] = port}}
inner_dsts(n, port) == {<<l[3], l[4]>> : l \in {k \in InnerLinks : k[1] = n /\ k[2] = port}}
outward_ports(n, port) == {l[3] : l \in {k \in OutwardLinks : k[1] = n /\ k[2] = port}}

\* The order in which a std::set holds port indices.
Ascending(ports) ==
    CHOOSE s \in [1 .. Cardinality(ports) -> ports] :
        \A i, j \in DOMAIN s : i < j => s[i] < s[j]

-----------------------------------------------------------------------------
(* The routes a message can take, by following the links alone.  A route   *)
(* is the ports it leaves composite nodes by, then those it enters by.     *)

IntoRoutes[hop \in Nodes \X Ports] ==
    IF hop[1] \in Leaves THEN {<<hop>>}
    ELSE UNION {{<<hop>> \o r : r \in IntoRoutes[d]} : d \in inward_dsts(hop[1], hop[2])}

Routes[src \in Nodes \X Ports] ==
    LET up == Parent(src[1])
    IN  (UNION {IntoRoutes[d] : d \in inner_dsts(src[1], src[2])})
        \cup (UNION {{<<<<up, p>>>> \o r : r \in Routes[<<up, p>>]}
                       : p \in outward_ports(src[1], src[2])})

\* Where on the stack the handler is that routes the message being delivered:
\* the handlers above it are those of the composite nodes the message entered.
Router ==
    CHOOSE i \in DOMAIN stack : \A j \in DOMAIN stack : j > i <=> stack[j].call.event = "unplanned"
Entered(i) ==
    [j \in 1 .. i - Router |-> <<stack[Router + j].call.node, stack[Router + j].call.port>>]

\* The route of the message that is delivered next, read off the stack.
RouteTaken ==
    NextCall.msg[2] \o Entered(Len(stack)) \o <<<<NextCall.node, NextCall.port>>>>

-----------------------------------------------------------------------------
(* Starting the handler of a composite node                                *)

\* Mutant: only one of the destinations is served.
DstCalls_First(dsts, msg) ==
    IF dsts = {} THEN {}
    ELSE LET d == CHOOSE e \in dsts : TRUE IN {Call(d[1], "unplanned", d[2], msg)}

\* handle_dst_events: an unplanned event at every destination.
DstCalls(dsts, msg) == {Call(d[1], "unplanned", d[2], msg) : d \in dsts}

\* Mutant: the first component is skipped.
EventForAll_Rest(c, event) ==
    {Call(Children[c][i], event, 0, <<>>) : i \in DOMAIN Children[c] \ {1}}

EventForAll(c, event) ==
    {Call(Children[c][i], event, 0, <<>>) : i \in DOMAIN Children[c]}

\* The imminent component with the smallest index.
ImminentNode(c) ==
    CHOOSE n \in Imminent(due[c]) : \A m \in Imminent(due[c]) : Index(n) <= Index(m)

\* The frame a composite node's handler starts with.
EventFrame(call) ==
    LET c == call.node
        calls == CASE call.event = "initialization" -> EventForAll(c, "initialization")
                   [] call.event = "unplanned" -> DstCalls(inward_dsts(c, call.port), call.msg)
                   [] call.event = "planned" -> {Call(ImminentNode(c), "planned", 0, <<>>)}
                   [] call.event = "finalization" -> EventForAll(c, "finalization")
    IN  Frame(call, calls, IF call.event = "planned" THEN ImminentNode(c) ELSE c, 0)

\* Every handler but initialization first advances t_queue_ to the current
\* time, which throws if an event is passed; a planned event must be imminent.
QueueAllows(call) ==
    call.event # "initialization" =>
        /\ NoneBefore(due[call.node], t)
        /\ call.event = "planned" => \E n \in DOMAIN due[call.node] : due[call.node][n] = t

LifeAllows(call) ==
    /\ call.event = "initialization" => life[call.node] = "new"
    /\ call.event = "finalization" => life[call.node] # "finalized"

\* The exception unwinds all handlers and leaves the simulation unusable.
Abort(reason) ==
    /\ failure' = reason
    /\ stack' = <<>>
    /\ UNCHANGED <<t, nodeVars>>

\* Mutant: the node plans its next event in its own queue.
Replanned_Own(n, times) ==
    due' = [due EXCEPT ![top.call.node] =
               IF times = {} THEN WithoutEvents(@, {n})
               ELSE WithEvent(@, n, CHOOSE u \in times : TRUE)]

\* What the caller does when the handler of n has returned: plan its next
\* event at one of times, or cancel it if there is none, and go on.
Replanned(n, times) ==
    due' = [due EXCEPT ![Parent(n)] =
               IF times = {} THEN WithoutEvents(@, {n})
               ELSE WithEvent(@, n, CHOOSE u \in times : TRUE)]

Resumed(frames, call) ==
    stack' = [frames EXCEPT ![Len(frames)] = Frame(@.call, @.calls \ {call}, @.src, @.routed)]

-----------------------------------------------------------------------------
(* Events of leaves                                                        *)

elapsed_dt(n) == Floor(t, TimePrecision[n]) - Floor(last[n], TimePrecision[n])

\* The handler of leaf n executes the event the top frame calls next.
LeafEvent(n, event) ==
    /\ Busy /\ top.calls # {}
    /\ NextCall.node = n /\ NextCall.event = event
    /\ Resumed(stack, NextCall)
    /\ UNCHANGED <<t, failure>>

\* Mutant: the time of the event is not remembered.
PlanNext_Unretained(n) ==
    /\ \E planned_dt \in Durations[n] :
          Replanned(n, IF finite(planned_dt) THEN {advance(t, planned_dt)} ELSE {})
    /\ UNCHANGED last

\* Mutant: the time of the next event is remembered instead of this one's.
PlanNext_Ahead(n) ==
    \E planned_dt \in Durations[n] :
        /\ Replanned(n, IF finite(planned_dt) THEN {advance(t, planned_dt)} ELSE {})
        /\ last' = [last EXCEPT ![n] = IF finite(planned_dt) THEN advance(t, planned_dt) ELSE t]

PlanNext(n) ==
    /\ \E planned_dt \in Durations[n] :
          Replanned(n, IF finite(planned_dt) THEN {advance(t, planned_dt)} ELSE {})
    /\ last' = [last EXCEPT ![n] = t]

LeafInitialization(n) ==
    /\ LeafEvent(n, "initialization")
    /\ life[n] = "new"
    /\ life' = [life EXCEPT ![n] = "initialized"]
    /\ PlanNext(n)
    /\ UNCHANGED <<outputs, owed, told>>

\* The handler sends a list of messages, which the caller routes afterwards.
LeafPlannedEvent(n) ==
    /\ LeafEvent(n, "planned")
    /\ told' = [told EXCEPT ![n] = @ + elapsed_dt(n)]
    /\ \E sent \in Emissions[n] :
          /\ outputs' = [outputs EXCEPT ![n] =
                [i \in DOMAIN sent |-> [port |-> sent[i], msg |-> <<i, <<>>>>]]]
          /\ owed' = UNION {{<<r, i>> : r \in Routes[<<n, sent[i]>>]} : i \in DOMAIN sent}
    /\ PlanNext(n)
    /\ UNCHANGED life

LeafUnplannedEvent(n) ==
    /\ LeafEvent(n, "unplanned")
    /\ told' = [told EXCEPT ![n] = @ + elapsed_dt(n)]
    /\ owed' = owed \ {<<RouteTaken, NextCall.msg[1]>>}
    /\ PlanNext(n)
    /\ UNCHANGED <<outputs, life>>

LeafFinalization(n) ==
    /\ LeafEvent(n, "finalization")
    /\ life[n] # "finalized"
    /\ life' = [life EXCEPT ![n] = "finalized"]
    /\ told' = [told EXCEPT ![n] = @ + elapsed_dt(n)]
    /\ UNCHANGED <<due, last, outputs, owed>>

\* A handler throws, or is called once too often.
LeafThrows(n) ==
    /\ Busy /\ top.calls # {} /\ NextCall.node = n
    /\ Abort(IF LifeAllows(NextCall) THEN "node" ELSE "internal")

-----------------------------------------------------------------------------
(* Events of composite nodes                                               *)

Enter(c) ==
    /\ Busy /\ top.calls # {} /\ NextCall.node = c
    /\ IF QueueAllows(NextCall) /\ LifeAllows(NextCall)
       THEN stack' = Append(stack, EventFrame(NextCall)) /\ UNCHANGED <<t, nodeVars, failure>>
       ELSE Abort("internal")

\* Mutant: a message with destinations inside is not passed outward.
PassedOutward_OnlyIfUnused(c) ==
    LET m == outputs[top.src][top.routed]
        ports == Ascending(outward_ports(top.src, m.port))
    IN  IF top.routed = 0 \/ inner_dsts(top.src, m.port) # {} THEN outputs
        ELSE [outputs EXCEPT ![c] = @ \o
                [i \in DOMAIN ports |->
                    [port |-> ports[i],
                     msg |-> <<m.msg[1], Append(m.msg[2], <<c, ports[i]>>)>>]]]

\* The outputs once the message just routed to the other components has been
\* appended to the lists of the composite node's own output ports.
PassedOutward(c) ==
    LET m == outputs[top.src][top.routed]
        ports == Ascending(outward_ports(top.src, m.port))
    IN  IF top.routed = 0 THEN outputs
        ELSE [outputs EXCEPT ![c] = @ \o
                [i \in DOMAIN ports |->
                    [port |-> ports[i],
                     msg |-> <<m.msg[1], Append(m.msg[2], <<c, ports[i]>>)>>]]]

Handling(c) == Busy /\ top.call.node = c /\ top.calls = {}

\* handle_planned_event goes on to the next message of the component.
NextMessage(c) ==
    LET m == outputs[top.src][top.routed + 1]
    IN  /\ Handling(c)
        /\ top.call.event = "planned" /\ top.routed < Len(outputs[top.src])
        /\ outputs' = PassedOutward(c)
        /\ stack' = [stack EXCEPT ![Len(stack)] =
              Frame(@.call, DstCalls(inner_dsts(top.src, m.port), m.msg), @.src, @.routed + 1)]
        /\ UNCHANGED <<t, due, last, life, owed, told, failure>>

\* Mutants: the messages of the component are not cleared; an unplanned event
\* does not change when the composite node is next due.
Leave_Uncleared(c) ==
    /\ Handling(c)
    /\ Resumed(SubSeq(stack, 1, Len(stack) - 1), top.call)
    /\ top.call.event = "planned" => top.routed = Len(outputs[top.src])
    /\ outputs' = IF top.call.event = "planned" THEN PassedOutward(c) ELSE outputs
    /\ life' = IF top.call.event = "initialization" THEN [life EXCEPT ![c] = "initialized"] ELSE life
    /\ Replanned(c, Earliest(due[c]))
    /\ UNCHANGED <<t, last, owed, told, failure>>

Leave_NotReplanned(c) ==
    /\ Handling(c)
    /\ Resumed(SubSeq(stack, 1, Len(stack) - 1), top.call)
    /\ top.call.event = "planned" => top.routed = Len(outputs[top.src])
    /\ outputs' = IF top.call.event = "planned" THEN [PassedOutward(c) EXCEPT ![top.src] = <<>>]
                  ELSE outputs
    /\ life' = IF top.call.event = "initialization" THEN [life EXCEPT ![c] = "initialized"] ELSE life
    /\ IF top.call.event \in {"unplanned", "finalization"} THEN UNCHANGED due
       ELSE Replanned(c, Earliest(due[c]))
    /\ UNCHANGED <<t, last, owed, told, failure>>

\* The handler returns: the time of the earliest event of its components
\* becomes its own.
Leave(c) ==
    LET event == top.call.event
    IN  /\ Handling(c)
        /\ Resumed(SubSeq(stack, 1, Len(stack) - 1), top.call)
        /\ \/ /\ event = "planned"
              /\ top.routed = Len(outputs[top.src])
              /\ outputs' = [PassedOutward(c) EXCEPT ![top.src] = <<>>]
              /\ UNCHANGED life
           \/ /\ event = "unplanned"
              /\ UNCHANGED <<outputs, life>>
           \/ /\ event = "initialization"
              /\ life' = [life EXCEPT ![c] = "initialized"]
              /\ UNCHANGED outputs
           \/ /\ event = "finalization"
              /\ life' = [life EXCEPT ![c] = "finalized"]
              /\ UNCHANGED outputs
        /\ IF event = "finalization" THEN UNCHANGED due
           ELSE Replanned(c, Earliest(due[c]))
        /\ UNCHANGED <<t, last, owed, told, failure>>

NodeStep ==
    \/ \E n \in Leaves :
          \/ LeafInitialization(n) \/ LeafPlannedEvent(n)
          \/ LeafUnplannedEvent(n) \/ LeafFinalization(n)
          \/ LeafThrows(n)
    \/ \E c \in Composites : Enter(c) \/ NextMessage(c) \/ Leave(c)
=============================================================================
