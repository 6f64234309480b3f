------------------------------ MODULE NodeEvents ------------------------------
(***************************************************************************)
(* How one event passes through the tree of nodes: what an atomic, a       *)
(* composite and a collection node do with the interfaces of the nodes     *)
(* below them (node_interface.h, node_interface.cpp), what their ports     *)
(* then allow (port.h), when their event timers run (core/timer.h), how an *)
(* exception travels up (system_node.h, collection_node.h) and under which *)
(* time the printed lines appear (node_interface::print).                  *)
(*                                                                         *)
(* The nested calls are a stack of frames, one per node whose event is in  *)
(* progress; the last frame runs.  What user code does in its handlers is  *)
(* free: it sends, assigns, sets up and drives agents, throws, and, in a   *)
(* collection, may catch what an agent threw.  Which node is imminent and  *)
(* the durations are those of modules CompositeNode, CollectionNode and    *)
(* Simulation; here every node with a planned event may be the next.  A    *)
(* node has one port of each kind, and a message no content.               *)
(***************************************************************************)
EXTENDS Integers, Sequences, FiniteSets, SequencesExt

CONSTANTS
  Nodes,        \* the nodes, agents and prototypes of agents included
  Top,          \* the node that is simulated
  Components,   \* the composite nodes and, in order, the nodes they own
  Agents,       \* the collection nodes and the agents they may create
  Prototype,    \* the prototype of a collection's agents
  Inner,        \* where a node's messages go inside its composite, in order
  Inward,       \* where a message that enters a composite goes, in order
  Outward,      \* the nodes whose messages also leave their composite
  FlowOutputs,  \* the nodes with a flow output port
  Printing,     \* the nodes whose events and ports are to be printed
  MaxSends,     \* bound: messages one node may hold for sending
  MaxPlanned,   \* bound: planned events of the simulation
  MaxTime       \* bound: how often simulated time advances

Collections == DOMAIN Agents
CompositeNodes == DOMAIN Components
Atomics == Nodes \ (CompositeNodes \cup Collections)
Prototypes == {Prototype[c] : c \in Collections}
Owners == CompositeNodes \cup Collections
Owned(c) == IF c \in CompositeNodes THEN ToSet(Components[c]) ELSE Agents[c]

(* What node_context.cpp and the constructors of the nodes make sure of:   *)
(* every node but the topmost and the prototypes has one owner at most, no *)
(* node is below itself, and links stay inside their composite, so that    *)
(* nothing leaves the topmost node, which has no ports.                    *)
WellFormed ==
  /\ Top \in Nodes
  /\ CompositeNodes \subseteq Nodes /\ Collections \subseteq Nodes
  /\ CompositeNodes \cap Collections = {}
  /\ \A c \in CompositeNodes :
       /\ Components[c] \in Seq(Nodes)
       /\ \A i, j \in DOMAIN Components[c] : i # j => Components[c][i] # Components[c][j]
  /\ \A c \in Collections : Agents[c] \subseteq Nodes /\ Prototype[c] \in Nodes \ {Top}
  /\ \A c, d \in Collections : Prototype[c] = Prototype[d] => c = d
  /\ \A c \in Owners : Owned(c) \cap (Prototypes \cup {Top}) = {}
  /\ \A c, d \in Owners : Owned(c) \cap Owned(d) # {} => c = d
  /\ \A S \in (SUBSET Nodes) \ {{}} : \E n \in S : \A c \in Owners \cap S : n \notin Owned(c)
  /\ \A c \in CompositeNodes :
       /\ Inward[c] \in Seq(Owned(c))
       /\ \A n \in Owned(c) : Inner[n] \in Seq(Owned(c))
  /\ Top \in CompositeNodes => Owned(Top) \cap Outward = {}

ASSUME NodesAssumption == WellFormed

VARIABLES
  io,           \* the node_interface of every node
  timing,       \* the nodes whose event timer is running
  sim_timing,   \* whether the simulation's own event timer is running
  printing,     \* the nodes with their print flags set
  stack,        \* the events in progress, outermost first
  thrown,       \* the exception on its way up, or Nothing
  initialized, finalized,  \* the flags of the same names
  plans,        \* the nodes with an event planned; a prototype: the macro event
  registered,   \* the agents listed in agent_indices_
  status,       \* "new", "started", "finishing" or "finished"
  processed,    \* planned events so far
  t_index,      \* the time index of the event time
  trace,        \* [time_printed, header, line]: the flag, and the time index
                \* of the last time line and of the last other line printed
  broken,       \* the nodes one of whose events an exception has ended, in
                \* the node or in what its owner does before and after it
  told          \* the nodes an error line was printed for

eventVars == <<initialized, finalized, plans, registered>>
simVars == <<status, processed, t_index, sim_timing>>
errorVars == <<thrown, broken, told>>
vars == <<io, timing, printing, stack, trace, eventVars, simVars, errorVars>>

Mode(event) == IF event \in {"planned", "unplanned"} THEN "message" ELSE "flow"
Goal(event) == IF event \in {"planned", "finalization"} THEN "output" ELSE "input"

Nothing == [type |-> "none"]
Exception(n) == [type |-> "exception", named |-> n, origin |-> n]
-----------------------------------------------------------------------------
(* Interfaces: what a node's owner does with its node_interface.           *)

node_interface ==
  [active |-> FALSE, dmode |-> "flow", dgoal |-> "input",
   given |-> FALSE, received |-> FALSE, outputs |-> 0, assigned |-> FALSE]

activate(s, n, event) ==
  [s EXCEPT ![n].active = TRUE, ![n].dmode = Mode(event), ![n].dgoal = Goal(event)]

assign_flow_input(s, n) == [s EXCEPT ![n].given = TRUE]

deactivate(s, n) == [s EXCEPT ![n].active = FALSE]

set_message_input(s, n) == [s EXCEPT ![n].received = TRUE]

clear_message_input(s, n) == [s EXCEPT ![n].received = FALSE]

append_message_output(s, n) == [s EXCEPT ![n].outputs = @ + 1]

clear_message_outputs(s, n) == [s EXCEPT ![n].outputs = 0]

assign_flow_output(s, n) == [s EXCEPT ![n].assigned = TRUE]

missing_flow_output(s, n) == n \in FlowOutputs /\ ~s[n].assigned

cleared_prototype(s, c) ==
  [s EXCEPT ![Prototype[c]].given = FALSE, ![Prototype[c]].received = FALSE,
            ![Prototype[c]].outputs = 0]

(* A line goes out under the time line of its time index, which is printed *)
(* first if the flag the simulation shares with all nodes is down.         *)
print ==
  trace' = [time_printed |-> TRUE, line |-> t_index,
            header |-> IF trace.time_printed THEN trace.header ELSE t_index]

PrintsIf(flag) == IF flag THEN print ELSE UNCHANGED trace
-----------------------------------------------------------------------------
(* The frame that runs, the calls and the exceptions.                      *)

(* core/timer.h: a timer that is running cannot be started.                *)
start_throws_Never(running) == FALSE  \* mutant: it is started anew

start_throws(running) == running

Running == Last(stack)
Me == Running.node
Runs(pc) == stack # <<>> /\ thrown = Nothing /\ Running.pc = pc
InUserCode == Runs("user")
WithRunning(f) == Front(stack) \o <<f>>

(* Running code throws a std::exception.                                   *)
Throws ==
  /\ thrown' = Exception(Me)
  /\ UNCHANGED <<io, timing, printing, stack, trace, eventVars, simVars, broken, told>>

(* The owner of n hands it an event: the event and the received message    *)
(* are printed, the interface is opened in the mode of the event, and the  *)
(* handler starts.  The timer of the owner runs meanwhile: a composite and *)
(* a collection that processes a planned event of an agent start it here,  *)
(* the collection's macro handlers are being timed already.                *)
Calls(n, event, interfaces, frame, running) ==
  /\ PrintsIf(n \in printing')
  /\ io' = activate(interfaces, n, event)
  /\ timing' = running
  /\ stack' = WithRunning(frame) \o <<[node |-> n, event |-> event, pc |-> "enter", todo |-> <<>>]>>
  /\ UNCHANGED <<initialized, finalized, plans, simVars, errorVars>>

Step(do, n) == [do |-> do, node |-> n]
Steps(do, nodes) == [i \in 1 .. Len(nodes) |-> Step(do, nodes[i])]

WithPlan(n, finite) == IF finite THEN plans \cup {n} ELSE plans \ {n}

PlansIn(n) ==
  CASE n \in CompositeNodes -> \E m \in ToSet(Components[n]) : m \in plans
    [] n \in Collections -> \E m \in Agents[n] \cup {Prototype[n]} : m \in plans
-----------------------------------------------------------------------------
(* simulation.h: one call of process_next_event.                           *)

Events(s) ==
  CASE s = "new" -> {"initialization"}
    [] s = "started" -> {"planned"}
    [] s = "finishing" -> {"finalization"}
    [] OTHER -> {}

(* After an error the simulation's timer was never stopped, and starting   *)
(* it throws again.                                                        *)
process_next_event ==
  /\ stack = <<>>
  /\ \E event \in Events(status) :
       /\ PrintsIf(Top \in printing)
       /\ io' = activate(io, Top, event)
       /\ sim_timing' = TRUE
       /\ IF start_throws(sim_timing)
          THEN /\ thrown' = Exception(Top)
               /\ UNCHANGED <<stack, status, processed>>
          ELSE /\ stack' = <<[node |-> Top, event |-> event, pc |-> "enter", todo |-> <<>>]>>
               /\ status' = IF status = "new" THEN "started" ELSE status
               /\ processed' = IF event = "planned" THEN processed + 1 ELSE processed
               /\ UNCHANGED thrown
  /\ UNCHANGED <<timing, printing, eventVars, t_index, broken, told>>

(* A simulation that has finished ignores further calls.                   *)
ignore_next_event == status = "finished" /\ stack = <<>> /\ UNCHANGED vars

(* The event time advances to the next planned event, or the simulation    *)
(* finishes.  Only a step of simulated time takes the flag down.           *)
advance_time_Silent(finite) ==  \* mutant: the flag stays up
  \E steps \in 0 .. 1, finishing \in BOOLEAN :
    /\ ~finite \/ processed = MaxPlanned => finishing
    /\ t_index + steps <= MaxTime
    /\ status' = IF finishing THEN "finishing" ELSE "started"
    /\ t_index' = t_index + steps
    /\ UNCHANGED trace

advance_time(finite) ==
  \E steps \in 0 .. 1, finishing \in BOOLEAN :
    /\ ~finite \/ processed = MaxPlanned => finishing
    /\ t_index + steps <= MaxTime
    /\ status' = IF finishing THEN "finishing" ELSE "started"
    /\ t_index' = t_index + steps
    /\ trace' = [trace EXCEPT !.time_printed = @ /\ steps = 0]

(* The event of the top node is over.                                      *)
FinishesTop(finite) ==
  /\ stack' = <<>>
  /\ io' = deactivate(io, Top)
  /\ timing' = timing \ {Top}
  /\ sim_timing' = FALSE
  /\ IF Running.event = "finalization"
     THEN /\ status' = "finished"
          /\ UNCHANGED <<plans, t_index, trace>>
     ELSE /\ plans' = WithPlan(Top, finite)
          /\ advance_time(finite)
  /\ UNCHANGED <<printing, registered, processed, errorVars>>
-----------------------------------------------------------------------------
(* A handler returns to the code that owns its node.                       *)

Repeated(steps, k) ==
  [i \in 1 .. k * Len(steps) |-> steps[((i - 1) % Len(steps)) + 1]]

(* What the owner of n has left to do once n has processed a planned event: *)
(* a composite hands every message to its destinations, a collection calls *)
(* its micro handler for each, and then the list of messages is emptied.   *)
Routing(owner, n) ==
  LET message == IF owner \in Collections THEN <<Step("micro", n)>>
                 ELSE Steps("unplanned", Inner[n])
                        \o IF n \in Outward THEN <<Step("outward", n)>> ELSE <<>>
  IN Repeated(message, io[n].outputs) \o <<Step("drain", n)>>

(* The owner closes the interface, takes over the planned duration and     *)
(* withdraws the message; it stops the timer it started for this event.    *)
Closed_Open(owner, n, event) ==  \* mutant: left open after a message
  IF event = "unplanned"
  THEN clear_message_input(IF owner \in Collections THEN clear_message_input(io, Prototype[owner]) ELSE io, n)
  ELSE deactivate(io, n)

Closed(owner, n, event) ==
  LET s == deactivate(io, n)
  IN CASE event = "unplanned" /\ owner \in Collections ->
            clear_message_input(clear_message_input(s, n), Prototype[owner])
       [] event = "unplanned" /\ owner \notin Collections -> clear_message_input(s, n)
       [] OTHER -> s

Stopped(owner, event) ==
  IF owner \in CompositeNodes \/ event = "planned" THEN {owner} ELSE {}

FinishesComponent(finite) ==
  LET n == Me
      event == Running.event
      frame == stack[Len(stack) - 1]
      owner == frame.node
      missing == event = "finalization" /\ missing_flow_output(io, n)
      removed == event = "finalization" /\ owner \in Collections /\ ~missing
      routed == [frame EXCEPT !.todo = Routing(owner, n) \o @]
  IN /\ stack' = SubSeq(stack, 1, Len(stack) - 2) \o <<IF event = "planned" THEN routed ELSE frame>>
     /\ io' = Closed(owner, n, event)
     /\ timing' = timing \ ({n} \cup Stopped(owner, event))
     /\ plans' = IF event = "finalization" THEN IF removed THEN plans \ {n} ELSE plans
                 ELSE WithPlan(n, finite)
     /\ registered' = IF removed THEN registered \ {n} ELSE registered
     /\ thrown' = IF missing THEN Exception(owner) ELSE Nothing
     /\ PrintsIf(n \in printing /\ \/ event = "planned" /\ io[n].outputs > 0
                                   \/ event = "finalization" /\ n \in FlowOutputs /\ ~missing)
     /\ broken' = IF missing THEN broken \cup {n} ELSE broken
     /\ UNCHANGED <<printing, told, simVars>>

Finishes(finite) ==
  /\ initialized' = IF Running.event = "initialization" THEN initialized \cup {Me} ELSE initialized
  /\ finalized' = IF Running.event = "finalization" THEN finalized \cup {Me} ELSE finalized
  /\ IF Len(stack) = 1 THEN FinishesTop(finite) ELSE FinishesComponent(finite)
-----------------------------------------------------------------------------
(* What the handle_ functions of the three kinds of node do.               *)

AlreadyDone ==
  \/ Running.event = "initialization" /\ Me \in initialized
  \/ Running.event = "finalization" /\ Me \in finalized

(* An atomic node's handlers, and those of a collection that run a macro   *)
(* event, time the user code they call.                                    *)
EntersUserCode ==
  /\ Runs("enter")
  /\ Me \notin CompositeNodes
  /\ Me \in Collections /\ Running.event = "planned" => Prototype[Me] \in plans
  /\ IF AlreadyDone \/ start_throws(Me \in timing) THEN Throws
     ELSE /\ PrintsIf(Me \in printing)
          /\ timing' = timing \cup {Me}
          /\ stack' = WithRunning([Running EXCEPT !.pc = "user"])
          /\ UNCHANGED <<io, printing, eventVars, simVars, errorVars>>

(* A planned event of a collection belongs to an agent.                    *)
EntersAgentEvent ==
  /\ Runs("enter")
  /\ Me \in Collections /\ Running.event = "planned"
  /\ \E a \in Agents[Me] \cap plans :
       stack' = WithRunning([Running EXCEPT !.pc = "call", !.todo = <<Step("planned", a)>>])
  /\ UNCHANGED <<io, timing, printing, trace, eventVars, simVars, errorVars>>

ComponentSteps ==
  CASE Running.event \in {"initialization", "finalization"} ->
         {Steps(Running.event, Components[Me])}
    [] Running.event = "unplanned" -> {Steps("unplanned", Inward[Me])}
    [] OTHER -> {<<Step("planned", m)>> : m \in ToSet(Components[Me]) \cap plans}

EntersComposite ==
  /\ Runs("enter")
  /\ Me \in CompositeNodes
  /\ IF AlreadyDone THEN Throws
     ELSE /\ \E todo \in ComponentSteps :
               stack' = WithRunning([Running EXCEPT !.pc = "call", !.todo = todo])
          /\ UNCHANGED <<io, timing, printing, trace, eventVars, simVars, errorVars>>

Next_is(do) == Runs("call") /\ Running.todo # <<>> /\ Head(Running.todo).do \in do
Rest == [Running EXCEPT !.todo = Tail(@)]

(* A composite or a collection calls the handler of a node it owns.        *)
CallsComponent ==
  /\ Next_is({"initialization", "planned", "unplanned", "finalization"})
  /\ IF start_throws(Me \in timing) THEN Throws
     ELSE LET next == Head(Running.todo)
          IN /\ UNCHANGED <<printing, registered>>
             /\ Calls(next.node, next.do,
                      IF next.do = "unplanned" THEN set_message_input(io, next.node) ELSE io,
                      Rest, timing \cup {Me})

(* A message leaves the composite on a port of its own.                    *)
SendsOutward ==
  /\ Next_is({"outward"})
  /\ stack' = WithRunning(Rest)
  /\ io' = append_message_output(io, Me)
  /\ UNCHANGED <<timing, printing, trace, eventVars, simVars, errorVars>>

(* One message of an agent's planned event is shown to the collection.     *)
micro_planned_event ==
  /\ Next_is({"micro"})
  /\ IF start_throws(Me \in timing) THEN Throws
     ELSE /\ PrintsIf(Me \in printing)
          /\ io' = append_message_output(io, Prototype[Me])
          /\ timing' = timing \cup {Me}
          /\ stack' = WithRunning([Rest EXCEPT !.pc = "user"])
          /\ UNCHANGED <<printing, eventVars, simVars, errorVars>>

ClearsOutputs ==
  /\ Next_is({"drain"})
  /\ stack' = WithRunning(Rest)
  /\ io' = clear_message_outputs(io, Head(Running.todo).node)
  /\ UNCHANGED <<timing, printing, trace, eventVars, simVars, errorVars>>

(* Nothing is left to do: the planned duration is that of the next event   *)
(* inside.                                                                 *)
FinishesCalls ==
  /\ Runs("call") /\ Running.todo = <<>>
  /\ Finishes(PlansIn(Me))
-----------------------------------------------------------------------------
(* What user code may do in its handlers.                                  *)

(* simulation.h, validate(): the node that is simulated has no ports.      *)
HasPorts == Me # Top

(* port.h: the interface must be open in the right mode and direction.     *)
CanSend_InAnyEvent(p) == p.active /\ p.dmode = "message"  \* mutant: the direction is not checked

CanSend(p) == p.active /\ p.dmode = "message" /\ p.dgoal = "output"

CanAssign(p) == p.active /\ p.dmode = "flow"

CanReceive(p) == p.active /\ p.dmode = "message" /\ p.dgoal = "input"

UsesPort(allowed, interfaces) ==
  IF allowed
  THEN /\ io' = interfaces
       /\ UNCHANGED <<timing, printing, stack, trace, eventVars, simVars, errorVars>>
  ELSE Throws

send ==
  /\ InUserCode /\ HasPorts /\ io[Me].outputs < MaxSends
  /\ UsesPort(CanSend(io[Me]), append_message_output(io, Me))

assign ==
  /\ InUserCode /\ HasPorts /\ Me \in FlowOutputs
  /\ UsesPort(CanAssign(io[Me]), assign_flow_output(io, Me))

(* received() and value() of a message input port change nothing.          *)
receive ==
  /\ InUserCode /\ HasPorts
  /\ UsesPort(CanReceive(io[Me]), io)

UserThrows ==
  /\ InUserCode
  /\ Throws

(* A collection's user code may catch what a call it made has thrown.      *)
UserCatches ==
  /\ stack # <<>> /\ thrown # Nothing
  /\ Me \in Collections /\ Running.pc = "user"
  /\ thrown' = Nothing
  /\ UNCHANGED <<io, timing, printing, stack, trace, eventVars, simVars, broken, told>>

(* get(port) of the prototype's flow input port, and an assignment.        *)
get_flow_input ==
  /\ InUserCode /\ Me \in Collections
  /\ UsesPort(io[Me].active, assign_flow_input(io, Prototype[Me]))

(* get(port) of the prototype's message input port, and an assignment.     *)
get_message_input ==
  /\ InUserCode /\ Me \in Collections
  /\ UsesPort(io[Me].active /\ ~io[Prototype[Me]].received, set_message_input(io, Prototype[Me]))

(* The agent is registered before its flow input turns out to be missing.  *)
create_agent ==
  /\ InUserCode /\ Me \in Collections
  /\ \E a \in Agents[Me] :
       IF a \in registered THEN Throws
       ELSE /\ a \notin initialized \cup finalized
            /\ registered' = registered \cup {a}
            /\ printing' = IF Prototype[Me] \in printing THEN printing \cup {a} ELSE printing
            /\ IF io[Prototype[Me]].given
               THEN Calls(a, "initialization", assign_flow_input(io, a), Running, timing)
               ELSE /\ PrintsIf(a \in printing')
                    /\ thrown' = Exception(Me)
                    /\ broken' = broken \cup {a}
                    /\ UNCHANGED <<io, timing, stack, initialized, finalized, plans, simVars, told>>

affect_agent ==
  /\ InUserCode /\ Me \in Collections
  /\ \E a \in Agents[Me] :
       IF a \in registered /\ io[Prototype[Me]].received
       THEN /\ UNCHANGED <<printing, registered>>
            /\ Calls(a, "unplanned", set_message_input(io, a), Running, timing)
       ELSE Throws

remove_agent ==
  /\ InUserCode /\ Me \in Collections
  /\ \E a \in Agents[Me] :
       IF a \in registered
       THEN /\ UNCHANGED <<printing, registered>>
            /\ Calls(a, "finalization", io, Running, timing)
       ELSE Throws

(* User code returns.  A planned duration that is invalid, negative or not *)
(* a multiple of the node's precision makes scale_planned_dt throw; the    *)
(* timer is stopped by then.                                               *)
InvalidDuration ==
  /\ InUserCode /\ Running.event # "finalization"
  /\ timing' = timing \ {Me}
  /\ stack' = WithRunning([Running EXCEPT !.pc = "call"])
  /\ io' = IF Me \in Collections THEN cleared_prototype(io, Me) ELSE io
  /\ thrown' = Exception(Me)
  /\ UNCHANGED <<printing, trace, eventVars, simVars, broken, told>>

AtomicReturns ==
  /\ InUserCode /\ Me \in Atomics
  /\ \E finite \in BOOLEAN : Finishes(finite)

(* A macro or micro handler plans the next macro event.  The collection    *)
(* then goes on with the rest of the agent's messages, or is done.         *)
MacroReturns ==
  /\ InUserCode /\ Me \in Collections /\ Running.event # "finalization"
  /\ \E finite \in BOOLEAN : plans' = WithPlan(Prototype[Me], finite)
  /\ io' = cleared_prototype(io, Me)
  /\ timing' = timing \ {Me}
  /\ stack' = WithRunning([Running EXCEPT !.pc = "call"])
  /\ PrintsIf(Me \in printing)
  /\ UNCHANGED <<printing, initialized, finalized, registered, simVars, errorVars>>

(* After macro_finalization_event the agents that are left are removed.    *)
MacroFinalizationReturns ==
  /\ InUserCode /\ Me \in Collections /\ Running.event = "finalization"
  /\ stack' = WithRunning([Running EXCEPT !.pc = "remove"])
  /\ UNCHANGED <<io, timing, printing, trace, eventVars, simVars, errorVars>>

RemovesLeftAgents ==
  /\ Runs("remove")
  /\ LET left == Agents[Me] \cap registered
     IN IF left = {} THEN Finishes(FALSE)
        ELSE \E a \in left :
               /\ UNCHANGED <<printing, registered>>
               /\ Calls(a, "finalization", io, Running, timing)
-----------------------------------------------------------------------------
(* system_node.h: the exception leaves the process_ function of a node,    *)
(* whose timer stops.  What is not a system_node::error yet is printed and *)
(* becomes one that names the node.                                        *)
StoppedByError_Once == IF thrown.type = "exception" THEN {Me} ELSE {}  \* mutant: not while an error passes

StoppedByError == {Me}

NodeError_Renamed == [thrown EXCEPT !.type = "error", !.named = Me]  \* mutant: every node renames it

NodeError == [thrown EXCEPT !.type = "error"]

(* A collection that called the node catches it, stops the timer it        *)
(* started for a planned event, and throws a copy that is only a           *)
(* std::exception.                                                         *)
Unwinds ==
  /\ stack # <<>> /\ thrown # Nothing
  /\ LET owner == stack[Len(stack) - 1].node
         sliced == Len(stack) > 1 /\ owner \in Collections
     IN /\ timing' = timing \ (StoppedByError \cup
                               IF sliced /\ Running.event = "planned" THEN {owner} ELSE {})
        /\ thrown' = IF sliced THEN [NodeError EXCEPT !.type = "exception", !.named = owner]
                     ELSE NodeError
  /\ IF thrown.type = "exception"
     THEN print /\ told' = told \cup {Me}
     ELSE UNCHANGED <<trace, told>>
  /\ stack' = Front(stack)
  /\ broken' = broken \cup {Me}
  /\ UNCHANGED <<io, printing, eventVars, simVars>>

UserCode ==
  \/ send \/ assign \/ receive \/ UserThrows \/ UserCatches
  \/ get_flow_input \/ get_message_input \/ create_agent \/ affect_agent \/ remove_agent
  \/ InvalidDuration \/ AtomicReturns \/ MacroReturns \/ MacroFinalizationReturns

Next ==
  \/ process_next_event \/ ignore_next_event
  \/ EntersUserCode \/ EntersAgentEvent \/ EntersComposite
  \/ CallsComponent \/ SendsOutward \/ micro_planned_event \/ ClearsOutputs \/ FinishesCalls
  \/ UserCode \/ RemovesLeftAgents \/ Unwinds

Init ==
  /\ io = [n \in Nodes |-> node_interface]
  /\ timing = {} /\ sim_timing = FALSE
  /\ printing = Printing
  /\ stack = <<>> /\ thrown = Nothing
  /\ initialized = {} /\ finalized = {} /\ plans = {} /\ registered = {}
  /\ status = "new" /\ processed = 0 /\ t_index = 0
  /\ trace = [time_printed |-> FALSE, header |-> -1, line |-> -1]
  /\ broken = {} /\ told = {}

Spec == Init /\ [][Next]_vars
-----------------------------------------------------------------------------
(* The nodes above a node: they are in every set that holds the node and,   *)
(* with a node, its owner.                                                  *)
ClosedUpward(S) == \A c \in Owners : \A n \in Owned(c) : n \in S => c \in S
Above(n) == {m \in Nodes \ {n} : \A S \in SUBSET Nodes : n \in S /\ ClosedUpward(S) => m \in S}

OnStack == {stack[i].node : i \in 1 .. Len(stack)}
Processing(n, event) == \E i \in 1 .. Len(stack) : stack[i].node = n /\ stack[i].event = event

(* A port is usable exactly while its own node's event is in progress, and *)
(* in the mode of that event, however deeply events are nested and however *)
(* an earlier one ended: no other node's interface is open, except one     *)
(* that an exception left open; prototypes are never open.  A node is      *)
(* initialized first, once, and finalized last, unless an event of it or   *)
(* of a node above it was broken off.                                      *)
InterfacesFollowTheStack ==
  /\ \A i \in 1 .. Len(stack) :
       LET n == stack[i].node
           event == stack[i].event
       IN /\ io[n].active
          /\ io[n].dmode = Mode(event) /\ io[n].dgoal = Goal(event)
          /\ (\A j \in 1 .. i : stack[j].node \notin broken)
               => /\ n \in initialized <=> event # "initialization"
                  /\ n \notin finalized
  /\ \A n \in Nodes : io[n].active /\ n \notin OnStack => n \in broken \ Prototypes

(* An event timer runs exactly while user code or the events of components *)
(* are being timed: once no event is in progress, none of the nodes' does, *)
(* whether the event was completed or an exception came out of it.         *)
TimersFollowTheStack ==
  /\ timing \subseteq OnStack
  /\ \A i \in 1 .. Len(stack) :
       /\ i < Len(stack) => stack[i].node \in timing
       /\ i = Len(stack) /\ thrown = Nothing =>
            (stack[i].node \in timing <=> stack[i].pc \in {"user", "remove"})
  /\ sim_timing <=> stack # <<>> \/ thrown # Nothing

(* The two together.                                                       *)
OpenWhileInProgress == InterfacesFollowTheStack /\ TimersFollowTheStack

(* Messages wait on an interface only during the planned event that sent   *)
(* them and while the owner hands them on, and a message can be received   *)
(* only in the unplanned event it causes: neither is there for a later     *)
(* event to find, unless an exception came between.                        *)
MessagesEndWithTheirEvent ==
  \A n \in Nodes :
    /\ io[n].outputs > 0 =>
         \/ n \in broken
         \/ \E c \in Owners \cap broken : n \in Owned(c)
         \/ Processing(n, "planned")
         \/ \E i \in 1 .. Len(stack) : Step("drain", n) \in ToSet(stack[i].todo)
         \/ \E c \in Collections : n = Prototype[c] /\ (c \in broken \/ Processing(c, "planned"))
    /\ io[n].received =>
         \/ n \in broken
         \/ Processing(n, "unplanned")
         \/ \E c \in Collections : n = Prototype[c] /\ c \in broken \cup OnStack \cup finalized

(* What a simulation throws out of an event is a system_node::error, and   *)
(* the node it names and the node where the trouble began each have an     *)
(* error line in the trace.  It names the latter, unless that is below a   *)
(* collection: then it names the outermost one.                            *)
ErrorsAreReported ==
  stack = <<>> /\ thrown # Nothing /\ thrown.type = "error" =>
    LET passed == Above(thrown.origin) \cap Collections
    IN /\ {thrown.origin, thrown.named} \subseteq told
       /\ IF passed = {} THEN thrown.named = thrown.origin
          ELSE thrown.named \in passed /\ Above(thrown.named) \cap passed = {}

(* Every line printed for an event stands under the time line of its time  *)
(* index, and there is one time line for a time index, however many nodes  *)
(* print in whichever order.                                               *)
LinesUnderTheirTime ==
  /\ trace.line = trace.header
  /\ trace.time_printed <=> trace.header = t_index

(* After an error has come out of the simulation no node ever processes an *)
(* event again.                                                            *)
NoEventAfterError == [][stack = <<>> /\ thrown # Nothing => stack' = <<>>]_vars
=============================================================================
