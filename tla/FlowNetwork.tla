----------------------------- MODULE FlowNetwork -----------------------------
(***************************************************************************)
(* The dataflow of a composite node (composite_node.cpp).  Its flow nodes  *)
(* compute outputs from inputs; its message nodes read their flow inputs   *)
(* when they are initialized and write their flow outputs when they are    *)
(* finalized.  Flow nodes run as soon as they have all their inputs,       *)
(* before the message nodes, and the rest of them after those.  Node       *)
(* indices are handed out in the order of declaration.                     *)
(***************************************************************************)
EXTENDS Integers

CONSTANTS
    NodeIndices,      \* the indices of the component nodes
    Inputs,           \* the flow input ports of the components, <<node, port>>
    Outputs,          \* their flow output ports
    ExternalInputs,   \* the flow input ports of the composite node
    ExternalOutputs,  \* its flow output ports
    Compositions      \* the choices of flow nodes and of links

Composite == -1  \* stands for the composite node in <<node, port>>

Sources == Outputs \cup ({Composite} \X ExternalInputs)
Destinations == Inputs \cup ({Composite} \X ExternalOutputs)

ASSUME FlowAssumption ==
    /\ NodeIndices \subseteq Nat
    /\ Inputs \cup Outputs \subseteq NodeIndices \X Nat
    /\ ExternalInputs \cup ExternalOutputs \subseteq Nat
    /\ Compositions \subseteq [flow : SUBSET NodeIndices, links : SUBSET [src : Sources, dst : Destinations]]
    /\ \A c \in Compositions : \A l \in c.links : l.src \in Outputs \/ l.dst \in Inputs

VARIABLES
    flowNodes,      \* the components with the data mode flow
    links,          \* the flow links
    values,         \* what a destination holds: the source of its value, or NoValue
    unprocessed,    \* unprocessed_flow_node_indices_
    uninitialized,  \* uninitialized_message_node_indices_
    unfinalized,    \* the message nodes that are still to be finalized
    phase,          \* what the composite node is doing
    thrown          \* "none", or the exception thrown

flowVars == <<flowNodes, links, values, unprocessed, uninitialized, unfinalized, phase, thrown>>

NoValue == <<Composite, -1>>
IsFirst(n, S) == n \in S /\ \A m \in S : n <= m

-----------------------------------------------------------------------------
(* Ports and links                                                         *)

Ready(n) == \A i \in Inputs : i[1] = n => values[i] # NoValue

OutputsOf(n) == {o \in Outputs : o[1] = n}
LinksFrom(srcs) == {l \in links : l.src \in srcs}

ReceivesMultiple(srcs) ==
    \E l \in LinksFrom(srcs) :
        values[l.dst] # NoValue \/ \E k \in LinksFrom(srcs) : k # l /\ k.dst = l.dst

\* composite_node.h:83 has an outward link end at "an output port on the interface
\* of the composite node"; that port is looked up as if it were a component.
NoSuchNode(srcs) ==
    \E l \in LinksFrom(srcs) : l.dst[1] = Composite /\ l.dst[2] \notin NodeIndices

\* Mutant: a second value replaces the first.
Transfer_Overwriting(srcs) ==
    \/ /\ NoSuchNode(srcs)
       /\ thrown' = "no such node"
       /\ UNCHANGED values
    \/ /\ ~NoSuchNode(srcs)
       /\ values' = [d \in Destinations |->
                        IF \E l \in LinksFrom(srcs) : l.dst = d
                        THEN (CHOOSE l \in LinksFrom(srcs) : l.dst = d).src ELSE values[d]]
       /\ UNCHANGED thrown

\* The values of srcs go to all destinations they are linked to.  If several
\* links are bad, one of the exceptions is thrown.
Transfer(srcs) ==
    \/ /\ ReceivesMultiple(srcs)
       /\ thrown' = "multiple values"
       /\ UNCHANGED values
    \/ /\ NoSuchNode(srcs)
       /\ thrown' = "no such node"
       /\ UNCHANGED values
    \/ /\ ~ReceivesMultiple(srcs) /\ ~NoSuchNode(srcs)
       /\ values' = [d \in Destinations |->
                        IF \E l \in LinksFrom(srcs) : l.dst = d
                        THEN (CHOOSE l \in LinksFrom(srcs) : l.dst = d).src ELSE values[d]]
       /\ UNCHANGED thrown

\* A node's outputs after its handler: user code may leave some unassigned.
Produces(n) ==
    \/ Transfer(OutputsOf(n))
    \/ /\ OutputsOf(n) # {}
       /\ thrown' = "missing output"
       /\ UNCHANGED values

-----------------------------------------------------------------------------
\* Mutant: flow nodes are listed among the message nodes too.
Init_Uncategorized ==
    /\ \E c \in Compositions : flowNodes = c.flow /\ links = c.links
    /\ values = [d \in Destinations |-> NoValue]
    /\ unprocessed = flowNodes
    /\ uninitialized = NodeIndices
    /\ unfinalized = NodeIndices
    /\ phase = "inward"
    /\ thrown = "none"

FlowInit ==
    /\ \E c \in Compositions : flowNodes = c.flow /\ links = c.links
    /\ values = [d \in Destinations |-> NoValue]
    /\ unprocessed = flowNodes
    /\ uninitialized = NodeIndices \ flowNodes
    /\ unfinalized = NodeIndices \ flowNodes
    /\ phase = "inward"
    /\ thrown = "none"

\* node_dmode of the composite node: it takes part in a flow if all of it does.
IsFlow == flowNodes = NodeIndices

Inward ==
    /\ phase = "inward"
    /\ Transfer({Composite} \X ExternalInputs)
    /\ phase' = IF IsFlow THEN "last flow" ELSE "flow"
    /\ UNCHANGED <<flowNodes, links, unprocessed, uninitialized, unfinalized>>

ReadyNodes == {n \in unprocessed : Ready(n)}

\* Mutant: the search for a node that can run stops at the first that cannot.
NextFlowNodes_InOrder == {n \in ReadyNodes : IsFirst(n, unprocessed)}

\* process_flow_nodes: before the message nodes a node that is not ready is
\* passed over; afterwards it is an error.
NextFlowNodes ==
    {n \in ReadyNodes : IsFirst(n, IF phase = "flow" THEN ReadyNodes ELSE unprocessed)}

FlowEvent(n) ==
    /\ phase \in {"flow", "last flow"}
    /\ n \in NextFlowNodes
    /\ Produces(n)
    /\ unprocessed' = unprocessed \ {n}
    /\ UNCHANGED <<flowNodes, links, uninitialized, unfinalized, phase>>

\* Mutant: flow nodes without all inputs are never an error.
FlowEnds_Silent ==
    /\ phase \in {"flow", "last flow"}
    /\ NextFlowNodes = {}
    /\ phase' = IF phase = "flow" THEN "initialization" ELSE "done"
    /\ UNCHANGED <<flowNodes, links, values, unprocessed, uninitialized, unfinalized, thrown>>

FlowEnds ==
    /\ phase \in {"flow", "last flow"}
    /\ NextFlowNodes = {}
    /\ \/ /\ phase = "flow"
          /\ phase' = "initialization"
          /\ UNCHANGED thrown
       \/ /\ phase = "last flow"
          /\ phase' = "done"
          /\ thrown' = IF unprocessed = {} THEN thrown ELSE "missing input"
    /\ UNCHANGED <<flowNodes, links, values, unprocessed, uninitialized, unfinalized>>

\* handle_initialization_events, one message node at a time.
InitializationEvent(n) ==
    /\ phase = "initialization"
    /\ IsFirst(n, uninitialized)
    /\ uninitialized' = uninitialized \ {n}
    /\ thrown' = IF Ready(n) THEN thrown ELSE "missing input"
    /\ UNCHANGED <<flowNodes, links, values, unprocessed, unfinalized, phase>>

\* Events happen, and at the end of the simulation the node is finalized.
Finalize ==
    /\ phase = "initialization"
    /\ uninitialized = {}
    /\ phase' = "finalization"
    /\ UNCHANGED <<flowNodes, links, values, unprocessed, uninitialized, unfinalized, thrown>>

\* handle_finalization_events, one message node at a time.
FinalizationEvent(n) ==
    /\ phase = "finalization"
    /\ IsFirst(n, unfinalized)
    /\ Produces(n)
    /\ unfinalized' = unfinalized \ {n}
    /\ phase' = IF unfinalized' = {} THEN "last flow" ELSE phase
    /\ UNCHANGED <<flowNodes, links, unprocessed, uninitialized>>

FlowNext ==
    /\ thrown = "none"
    /\ \/ Inward
       \/ FlowEnds
       \/ Finalize
       \/ \E n \in NodeIndices : FlowEvent(n) \/ InitializationEvent(n) \/ FinalizationEvent(n)

FlowSpec == FlowInit /\ [][FlowNext]_flowVars
FairFlowSpec == FlowSpec /\ WF_flowVars(FlowNext)

-----------------------------------------------------------------------------
(* Properties                                                              *)

FlowTypeOK ==
    /\ [flow |-> flowNodes, links |-> links] \in Compositions
    /\ values \in [Destinations -> Sources \cup {NoValue}]
    /\ unprocessed \subseteq flowNodes
    /\ uninitialized \subseteq NodeIndices \ flowNodes
    /\ unfinalized \subseteq NodeIndices \ flowNodes
    /\ phase \in {"inward", "flow", "initialization", "finalization", "last flow", "done"}
    /\ thrown \in {"none", "missing input", "missing output", "multiple values", "no such node"}

\* The sources that have had their turn.
Spent ==
    {src \in Sources :
        \/ src[1] = Composite /\ phase # "inward"
        \/ src[1] \in flowNodes \ unprocessed
        \/ src[1] \in (NodeIndices \ flowNodes) \ unfinalized}

\* The sources among S that are linked to d.
Feeding(d, S) == {l.src : l \in {k \in links : k.dst = d /\ k.src \in S}}

\* At every point up to a failure a destination holds the value of the one
\* source linked to it that has had its turn: no value is lost, overwritten
\* or taken from a node that has not run.
ValuesFollowLinks ==
    thrown = "none" =>
        \A d \in Destinations : Feeding(d, Spent) = {values[d]} \ {NoValue}

\* The flow nodes that need, directly or not, an output of a message node.
Late ==
    LET Needs(S) == {n \in flowNodes : \E l \in links : l.dst[1] = n /\ l.src[1] \in S}
    IN  {n \in flowNodes :
            \A S \in SUBSET flowNodes : Needs(S \cup (NodeIndices \ flowNodes)) \subseteq S => n \in S}
Early == flowNodes \ Late

Declared(S) ==
    \A l \in links : l.src[1] \in S /\ l.dst[1] \in S => l.src[1] < l.dst[1]
\* Whichever nodes are taken from S, one of them depends on none of them.
Acyclic(S) ==
    \A T \in (SUBSET S) \ {{}} :
        \E n \in T : \A l \in links : l.dst[1] = n => l.src[1] \notin T

\* Which compositions the code can execute: no input without a link, none with
\* two, no message node that waits for another one's end, no outward link to a
\* port whose index is not that of a component, flow nodes without cycles, and,
\* where the code does not search for the next one that can run, in the order of
\* declaration.
WellWired ==
    /\ \A d \in Inputs : \E l \in links : l.dst = d
    /\ \A k, l \in links : k.dst = l.dst => k = l
    /\ \A l \in links : l.dst[1] \in NodeIndices \ flowNodes => l.src[1] \in Early \cup {Composite}
    /\ \A l \in links : l.dst[1] = Composite => l.dst[2] \in NodeIndices
    /\ IF IsFlow THEN Declared(Early) ELSE Acyclic(Early)
    /\ Declared(Late)

\* Unless user code leaves an output unassigned, a composite node completes
\* if and only if it is wired well.
CompletesIfWellWired ==
    /\ phase = "done" /\ thrown = "none" => WellWired
    /\ thrown \in {"missing input", "multiple values", "no such node"} => ~WellWired

\* The handlers come to an end, and without a failure every node has had its
\* turn by then.
Completed == phase = "done" /\ unprocessed \cup uninitialized \cup unfinalized = {}
EveryNodeRuns == <>(thrown # "none" \/ Completed)

\* function_node.h:41, of handle_initialization_event: "Invoked when all flow
\* input ports have values".  Where every port is linked and no flow node
\* depends on itself, none that has all its inputs is left out.
RunsWhenReady ==
    /\ thrown = "missing input" /\ phase = "done"
    /\ \A d \in Inputs : \E l \in links : l.dst = d
    /\ Acyclic(flowNodes)
    => \A n \in unprocessed : ~Ready(n)
=============================================================================
