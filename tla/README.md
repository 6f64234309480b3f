# A TLA+ model of SyDEVS

SyDEVS is a C++ framework for discrete event simulation: a user composes a system from
nodes, some atomic with user-written event handlers, some composite, and a `simulation`
object executes the events of the topmost node in simulated time. This directory holds a
TLA+ model of the framework and of three of its example systems, the TLC runs that check
it on small instances, and TLAPS proofs of its main safety properties for every
instance. Paths below are relative to `src/src/sydevs/`, those that begin with `examples/`
to `src/src/`.

## 1. The system

| component | state | operations | what is hard about it |
|---|---|---|---|
| `time/time_queue` | current time `ct_`, `queue_`, `event_id_sets_`, `event_accounts_` | plan, cancel, pop one, pop all, advance (to the next event, by a duration, to a time), queries | an event is stored as a phase within an epoch, at the coarsest precision that holds it, and read back relative to a current time that has moved on |
| `time/time_point`, `core/quantity`, `core/scale` | digits of base 1000 and a sign; a multiplier below 10^15 and a precision | add, advance, gap, compare | advancing drops digits finer than the duration; gap rounds |
| `time/time_cache` | a `time_queue` in which "events" are the ends of validity of remembered times | retain, release, advance, duration since | an entry expires after the longest duration of its precision |
| `time/time_sequence` | partitions, each with a start, and offsets from it | append, search, move an iterator | search and iterators across partitions |
| `core/quantity`, `scale`, `units` | a multiplier, a precision that may be fixed, exponents of units | arithmetic, rescaling, printing | every result is brought to a precision at which its multiplier is an integer below a limit |
| `core/arraynd`, `arraynd_base`, `range` | a header (dimensions, strides, offset) over a shared or owned buffer | slice, reshape, assign, map | views of views share elements; constness is a flag |
| `systems/composite_node` | a time queue and a time cache for its components, lists of components still to be initialized and finalized | the four event handlers, which call those of the components | handlers nest to the depth of the tree; a message sent in one place makes events in others, which change the queues of every composite node on the way |
| `systems/atomic_node`, `systems/system_node` | `initialized_`, `finalized_` | the four event handlers around user code | user code may throw |
| `systems/node_interface`, `port` | values of flow ports, lists of message outputs, activity mode | assign, append, clear, activate, deactivate | a port may be used only in the right phase of an event, and an exception leaves the phase without leaving the interface |
| `systems/simulation`, `discrete_event_time` | start and end time, three flags, a time queue for the topmost node, the shared event time | `process_next_event`, and loops around it | zero durations, a clipped end time, ending early |
| `systems/function_node`, `parameter_node`, `statistic_node` | flow values | execute when all inputs have values | order of execution inside a composite node |
| `systems/collection_node` | maps from ids to agents and back, agents just removed, a time queue and a time cache, a prototype for the data exchanged | the four event handlers; create, affect, remove, invoke an agent | user code changes the collection while a handler, a loop over an agent's messages too, is using it |
| `systems/interactive_system` | the index of the last frame, the duration until the next | macro events (frames), micro events (messages of agents) | what is left until the frame is kept up to date by subtraction |
| `systems/real_time_simulation`, `real_time_buffer` | a wall-clock time for the next frame, a reference point | wait for and process a frame, change rates, synchronize | clock drift, and its correction |
| `core/qualified_type`, `pointer` | a pointer to a copy | copy, convert to a string, dereference | several nodes read one copy, which may share data with a variable |
| `examples/demo/queueing`, `examples/test_systems/basic` | jobs in queues and servers | generate, queue, serve, miss | a service interrupted by every job that comes |
| `examples/research/customs` | stations that pass items on: source, queues, servers, lanes, sink | register, accept, send, withdraw; open and remove lanes | its stations act at one time, in the order in which its components are declared |

A simulation starts an event at its topmost node; a composite node passes it on to its
components by direct calls; an atomic node answers with the duration until its next
planned event, and the answer travels back through the composite nodes, each of which
plans the component's event in its own queue and answers with the time left to its own
earliest event. Messages sent during a planned event are appended to a list of the
sending node's interface; the parent routes each to its other components, as unplanned
events, and copies it to the list of its own outputs, which its parent routes in turn.
All nodes share one event time, which only `simulation::advance_time` changes. There is
one thread: what interleaves are the handlers of one event at different depths of the
tree, and the choices of user code.

What makes each part correct:

- *time queue*: however time advances, each planned event keeps its time, the
  queue is ordered by it, and time never passes an event (module `Calendar`);
- *composite nodes*: the plan a parent holds for a node is the earliest plan
  inside it whenever that can be observed; no message is lost, repeated or left
  over; each node is initialized and finalized once; the consistency checks in the
  code cannot fail (modules `Devs`, `CompositeNode`);
- *simulation*: model events only before the end time, finalization of every
  node after it, and an end to the loop (module `Simulation`);
- *time cache*: a node's elapsed durations add up to the time since the start;
- *collection nodes*: the maps and queues agree on which agents there are, in the
  middle of every handler; the parent knows the earliest event; each agent ends once
  (module `CollectionNode`); frames come when the macro level wants them (module
  `InteractiveSystem`).
- *events*: an interface is open and a timer runs just while its node's event is in
  progress, no message outlives its event, an error is reported with its node, and
  nothing happens after it (module `NodeEvents`);
- *frames in real time*: until the simulation ends, the buffer that waits for a frame
  knows the last one by its own time, and the correction of drift settles (module
  `RealTime`);
- *values*: views address the elements they name, arithmetic is as exact as the
  multiplier allows, what is printed reads back (modules `Arraynd`, `Quantity`), a
  sequence finds what was appended (module `TimeSequence`);
- *nodes and links*: a link leads between the ports that were named, and an agent prints
  what its prototype prints (module `Wiring`); what is received reads as it did when it was
  sent (module `Values`);
- *queueing*: jobs leave a queue in the order they came and after their whole service
  (module `Queueing`);
- *customs*: every item is in one place and reaches the sink, with the components in the
  order in which the example declares them; in another order it does not (module
  `Customs`, section 6).

## 2. The modules

| module | models | form |
|---|---|---|
| `TimeScale` | durations and time points (`core/quantity.h`, `core/scale.h`, `time/time_point.cpp`) | operators on integers |
| `Timetable` | the abstract value of a queue: a function from planned ids to times | operators |
| `EventPlans` | the parameters shared by the next two | constants |
| `Calendar` | what a `time_queue` promises | abstract specification |
| `TimeQueue` | `time/time_queue.cpp` | specification, refines `Calendar` |
| `Adjustments` | the parameters shared by the next two | constants |
| `Instants` | what time points promise: integers | abstract specification |
| `TimePoint` | the digit vectors of `time/time_point.cpp` | specification, refines `Instants` |
| `Memory` | what a `time_cache` promises | abstract specification |
| `TimeCache` | `time/time_cache.cpp` on an instance of `TimeQueue` | specification, refines `Memory` |
| `Recording` | what a `time_sequence` promises | abstract specification |
| `TimeSequence` | `time/time_sequence.cpp`, its partitions, bounds and iterators | specification; see section 6 on `Recording` |
| `Quantity` | `core/quantity.h`, `core/scale.cpp`, `core/units.h` | specification: one quantity and what is done to it |
| `Arraynd` | `core/arraynd_base.h`, `core/arraynd.h`, `core/range.h`, the text of arrays | specification: arrays over buffers |
| `Values` | `core/qualified_type.h`, `core/pointer.h`, what ports, `parameter_node.h` and proxies of ports hold | specification |
| `Wiring` | `systems/node_structure.h`, constructors of nodes, contexts and ports, `inward_link`, `inner_link`, `outward_link`, `adopt_print_flags` | specification: a tree under construction |
| `Devs` | what a simulation promises to its atomic nodes | abstract specification |
| `CompositeNode` | `systems/composite_node.cpp`, `atomic_node.cpp`, error handling of `system_node.h`, `t_cache_` | state and steps of a tree of nodes |
| `Simulation` | `systems/simulation.h`, `discrete_event_time.h` | composes `CompositeNode`; refines `Devs` |
| `NodeEvents` | `systems/node_interface.*`, `port.h`, `node_context.*`, `core/timer.h`, exceptions and print of every kind of node | specification: one event's way through the nodes |
| `FlowNetwork` | flow nodes, flow links and flow values in `systems/composite_node.cpp` | specification |
| `CollectionNode` | `systems/collection_node.h` | specification |
| `InteractiveSystem` | `systems/interactive_system.h` | specification, extends `CollectionNode` |
| `RealTime` | `systems/real_time_simulation.h`, `real_time_buffer.cpp` | specification |
| `Queueing` | `examples/demo/queueing`, `examples/test_systems/basic` | specification of their four closed systems |
| `Customs` | `examples/research/customs` | specification |
| `MCTime`, `MCCore`, `MCAgents`, `MCProgress` | components side by side, for the passing runs | instances for TLC |
| `MCTimeQueue`, `MCTimeSequence`, `MCArraynd`, `MCSimulation`, `MCFlowNetwork`, `MCInteractiveSystem`, `MCRealTime` | one component, which the above extend or a run of its own uses | instances for TLC |
| `TimeScale_proofs` (of `Timetable` too), `TimeQueue_proofs` (of `Calendar` too), `TimeCache_proofs` (of `Memory` too), `TimePoints_proofs` (of `TimePoint` and `TimeSequence`), `Simulation_proofs` (of `CompositeNode` and `Devs` too), `FlowNetwork_proofs`, `Agents_proofs` (of `CollectionNode`, `InteractiveSystem` and `RealTime`), `NodeEvents_proofs` | | proofs |

An MC module with several parts has the components side by side: a variable `part` says
which of them a behaviour uses, and the variables of the others stay as they begin, in
one state. A component whose properties are proved is extended, so that the run checks
the very definition that the theorem names; the others are instances. Nothing is composed
in this way that interacts; it puts components that are checked in the same manner into
one run. In `MCProgress` a second copy of `Simulation` (`Brief`, with variables of its
own) has an end user who may stop early.

### Time (`TimeScale`)

The code keeps a time point as a sign and a vector of digits of base 1000, and a
duration as a multiplier below `quantity_limit` = 10^15 = 1000^5 and a precision
(a power of 1000). Here a time point is the integer those digits denote in ticks
of the finest scale of the instance, `Base` stands for 1000 and `EpochScales` for
5. `advance(t, dt)` first cuts the digits of `t` below the precision of `dt`
(rounding towards the past, for negative times too), as `time_point::advance`
does; `gap` takes digits from the coarsest on as long as a duration holds their
difference, and rounds to that what the finer ones add up to (`small_part`). That sum is
made of durations too, from the finest digit on, and rounds on the way, so that a gap is
not always the duration nearest to the difference.
Only what reaches a queue is modelled: durations are not negative, gaps are
positive, and durations are compared exactly, where the code multiplies
floating-point numbers (a product beyond 2^53 may be off by a unit in the last
place; the durations that `time_queue` compares have been brought to one
precision before).

### Time points (`TimePoint`, `Instants`)

`TimePoint` has what `TimeScale` abstracts from: `Extended`, `Carried`,
`WithoutFineZeros`, `Flipped` and `WithoutCoarseZeros` are the blocks of `operator+=` in
their order, `Cut` and `AdvancedPoint` are `advance`, `Differences` is the loop that
`operator-` and `gap` share and `SmallDifferences` the second loop of `gap`. Durations are negative or positive here and are added with
the rounding of `quantity::operator+`. The state is a few named time points that are
constructed from durations, added to and advanced; everything else is a query, and the invariants state what each
query answers in terms of `Value`, the number that the digits denote. `GapIsThatOfNumbers`
ties the digit loops to the operator `gap` that `TimeQueue` and `TimeCache` use. Exact
arithmetic stands for that of doubles below 2^53.

### The time queue (`TimeQueue`, `Calendar`)

The variables have the names of the members. `phase_from_duration`,
`duration_from_phase`, `refined_duration`, `rescaled_duration_from_phase` and the search
of the queue (`phase_lower_bound`) are translated, the loops as recursive functions. Each public
operation that changes state is an action. Calls that throw before they change anything
(a negative or infinite duration, an empty queue, an id that is not imminent) are not
enabled; `advance_time(t)` can throw after some of its steps and the partial advance is
modelled (`LoopEnd`). `EventPlans` bounds the current time by `MaxTime`.

`Calendar` is the promise: a current time and a timetable of absolute event times.
`TimeQueue` implements it under the mapping that reads each stored phase back as a time
(`DueTimes`). It is checked as the property `ImplementsCalendar`.

### The time cache (`TimeCache`, `Memory`)

A `time_cache` owns a `time_queue` (the instance `tq_`) and the set `event_ids_`.
`retain_event` plans the event the longest duration of its scale ahead; `advance_time`
pops all events that time would pass, so one action pops a whole prefix of the queue
(`Popped`). Advancing to a time point repeats that with the gap left (`CacheLoopEnd`),
like the loop of the queue, and can throw beyond its target. The parameters and
operations have names of their own (`CacheDurations`, `advance_cache_by`, ...), since one
run extends the cache and the queue. `Memory` is the promise: times that are remembered
until they are older than the longest duration.

### The time sequence (`TimeSequence`, `Recording`)

`partitions_` and `offsets_` are the members, with the place and start time of each
partition; `append` starts a partition as the code does, where no duration holds the
difference to the start of the last one. The searches (`lower_bound`, `upper_bound`) and
the iterator's moves (`Incremented`, `Decremented`, `Moved`), which take along the
number of the partition, are translated step by step. One iterator is part of the state:
it is taken from `begin`, `end` or a search, moved, and kept over an append, since the
index of its partition is what can become stale. Where a search stops at the end of a
partition that index is wrong from the start (section 6); `live` says that the iterator
does not come from such a search, and `FoundReadWithin` that it is wrong there and only
there. `Recording` is the promise, a growing list in ascending order.

### The tree of nodes (`CompositeNode`)

Handlers call handlers, so the state holds a `stack` of frames: the call a composite
node is executing, the calls it has still to make, whose messages it is routing and how
many it has routed. Only the top frame steps:

- `LeafInitialization`, `LeafPlannedEvent`, `LeafUnplannedEvent`,
  `LeafFinalization`: an atomic node's handler runs from entry to return, and
  the calling composite node does what it does on return (plan or cancel, retain
  the event in `t_cache_`). User code chooses the planned duration from
  `Durations` and the messages from `Emissions`. `LeafThrows` is the handler that
  throws (or that is called a second time for initialization or finalization).
- `Enter`: a composite node's handler advances its queue and cache, finds its
  imminent component, and sets up its calls; the exceptions of
  `handle_planned_event` and of the queue are the failure "internal".
- `NextMessage`: the loop over the list of messages of the component whose
  planned event it was.
- `Leave`: the handler clears the component's messages and returns the time to
  its earliest event, and the caller replans it.

Components are called in index order and destinations in the order of the `std::set` of
node and port index that `traverse_message_*` builds (`NextCall`). `t_queue_` is kept as
a timetable of absolute times: `TimeQueue` shows that this is what a time queue
implements, provided that `advance_time(t)` reaches `t`. `SpanAssumption` in
`Simulation` (the simulated period is shorter than `quantity_limit` ticks) makes every
gap exact, so that it does; it also keeps the entries of `t_cache_` from expiring.
`last` is the cache: the time of a leaf's last event. A leaf is told the elapsed time in
its own precision, so `elapsed_dt` cuts both ends. Composite nodes have no precision and
are not in the cache. `owed` and `told` are history variables that no action reads.

After an exception the C++ objects remain in a state that cannot be used (timers run,
ports are active), so `failure` is terminal.

### The simulation (`Simulation`, `Devs`)

`process_next_event` is `Begin` with one of the three `process_*_event` actions, the
steps of the nodes, and `End`, which contains `advance_time` with its clipping to the
end time. `Devs` is the promise to the leaves: no stack, no composite nodes, just a
current time, each leaf's planned time, the deliveries still pending (a route through
the links, and the place of the message in its sender's list) and each leaf's stage of
life. `ImplementsDevs` says that `Simulation` refines it, so that the tree is
invisible to the nodes in it; it is checked on the instance and proved for every tree.

### One event (`NodeEvents`)

`CompositeNode` follows the times and the messages of a tree. `NodeEvents` follows what
surrounds each call: a handler activates the interface of the node it calls with a mode
and a goal, calls, deactivates; the node starts its event timer and stops it; user code
sends, assigns and reads within what the ports allow then; and an exception leaves all
that as it is, on its way up to the simulation. The calls are a stack of frames. The
tree has each kind of node: atomic nodes, a composite, a collection with agents and the
prototype whose interface every agent's event borrows. Which of the nodes with a planned
event is imminent is left open, since the times are those of the other modules. User
code of a collection may catch what an agent's handler threw (`UserCatches`), which is
the one place where a program goes on after an exception. An error that a node throws is
a `NodeError` with the node's name; `throw e;` in `collection_node.h` makes a
`std::exception` of it, without message, when an agent is concerned, and
`ErrorsAreReported` says what remains then.

### Dataflow (`FlowNetwork`)

A composite node's initialization and finalization as far as flow values go. The phases
are those of the handlers: `Inward` is `activate_flow_inward_links`; in phases "flow"
and "last flow" `FlowEvent` and `FlowEnds` are `process_flow_nodes(false)` and
`process_flow_nodes(true)`, one node at a time; `InitializationEvent` and
`FinalizationEvent` are the loops over the message nodes. A composite node of flow nodes
only (`IsFlow`) goes from "inward" straight to "last flow". `values` has, for each
destination of a link, the source its value came from: that is all the properties tell
apart. `Transfer` is `activate_flow_inward_links`, or `activate_flow_inner_links`
followed by `activate_flow_outward_links`, with both exceptions of the lookups; when
several links are bad, which exception comes first depends on the order of ports, and
the model takes either. User code may leave an output unassigned (`Produces`). The lists
of nodes are sets, since indices are handed out in ascending order and each loop takes
the least (`IsFirst`). The message events between initialization and finalization carry
no flow values and are left to `CompositeNode`. After an exception (`thrown`) nothing
more happens, as there.

### Collections (`CollectionNode`)

One collection node and the calls its parent makes. The parent is reduced to what it
keeps of the node: the time planned (`plan`) and that of the last event (`called`). It
lets time pass up to the plan, calls `handle_planned_event` then, may at any time
deliver a message (`handle_unplanned_event`) and, in the end, finalize the node;
`CompositeNode` shows that parents behave so.

A handler takes two steps around any number of steps of user code: the handler up to the
call of user code (`handle_*`), `create_agent`, `affect_agent`, `remove_agent`,
`invoke_agent` and the accesses to the prototype in any order, and the rest of the
handler (`HandlerReturns`, `FinalizationReturns`). The loop over an agent's messages is
a `HandlerReturns` for each, with `messages` counting down. Agents are nodes without
components, of any behaviour: each call ends with a planned duration from `Durations` or
none. All precisions are the same tick. Indices number the agents created and are not
used again, as `node_structure` deals them out; `agents_` has the keys of `agent_ids_`
and is not kept apart from it. A removed agent leaves `agent_indices` and the queues at
once, and `agent_ids` only with `erase_removed_agents`.

Of the prototype it matters whether its flow inputs have values and how far access to
its message input has come; values, and its outputs, are left out. `failure` is
terminal: "misuse" is an exception that user code provokes (an id that does not exist,
an input that is missing, the wrong kind of agent), "internal" one that speaks of an
error of the framework. User code that catches these is not modelled. `seen` and `ended`
are history variables.

### Interactive systems (`InteractiveSystem`)

The collection node with the macro and micro events of `interactive_system`: user code
plans frames (`InitializationReturns`, `FrameReturns`), while after a message of an
agent the node takes the elapsed duration from `planned_dt_` and plans the frame again
(`MicroReturns`). Unplanned events are impossible since the constructor refuses ports.
Frames are planned for finite durations. `frame_due` and `silent` are history variables;
`frame_due` is `NoFrame` until the initialization has planned the first frame.

### Frames in real time (`RealTime`)

`process_frame_if_time_reached` reads the simulated time and the clock and waits for the
time recommended; each `process_next_events` is a batch of events of one time, with or
without a frame among them, and `CallReturns` is the update of the buffer, which computes
the time of the clock of the next frame from the planned duration, the rate and the drift
since the reference point. The loop between them ends with a frame, or with the batch in
which the simulation is finalized (`FinalBatch`); the buffer is updated then too, and no
call does anything afterwards. Of the simulation below, a batch is all there is: the time
of the next one (`Following`) is any up to the next frame and to the end time. Clock times
are milliseconds, simulated times ticks; `Strength` is the table of `t_syn_strength`, and
the geometric means of the correction are compared by their squares. The clock only goes
forward; the program is late whenever the scheduler likes. Rates change at any time
between calls, and so does the reference point, to the last frame's or to any of
`References`. A simulation that may end before its end time is not covered: it does so
only when no frame is planned.

### Quantities (`Quantity`)

A multiplier is a fraction, so that the products and quotients in the middle of an
operation are exact, and the operation ends with the rounding that the code does: one
quantity is the state, changed by each operator with each operand of a small set. `Base`
stands for 1000 and `LimitScales` for 5 (the limit 10^15). `UnitsText` and the text of
the multiplier are sequences of what is printed, one entry for each group of digits or
symbol, and are read back by the properties. What 53 bits lose is left out.

### Arrays (`Arraynd`)

The state is a few arrays, each with a header as in the code (dimensions, strides,
offset, rotation, the flags for views and constants) over one of a few buffers. Every
constructor, slice, reshape and assignment is an action; elements are written one at a
time by the code's recursion, in order. Only accesses that succeed are steps, since the
code's exceptions change nothing. The properties relate the headers to the elements that
the sliced array had, found by a definition that knows no strides.

### Values and their copies (`Values`)

`variables` are those of user code, in any node; `places` are what holds a `pointer`:
ports, entries of lists of messages, `val_` of parameter nodes. `heap` has what pointers
point to, with how it read when it was stored. `Copied` is `qualified_type<T>::copy`,
which calls `copy` of an array and the copy constructor of everything else;
`Constructed` is the latter, for which a view stays a view. `tostring` reads a value
down to its data, which is also what is printed. An array has one element here, since
`Arraynd` has the rest; types are plain ones, arrays, shared pointers, and compound ones
of a single part or of two.

### Construction (`Wiring`)

A constructor in progress is a frame on `stack`; it constructs its components, each of
which gets the next index of the structure of its context, and then executes the links
of its class. What they are is chosen when the first node of the class is constructed
and repeated for every other: any two ports below the node that the compiler accepts, so
that the checks of the three functions have something to refuse. `structures` have the
maps of `node_structure` by the keys of the code, and `WiredAsDeclared` looks up what
the indices lead to. Agents are constructed later, in the structure of their collection,
and adopt the flags of the prototype by index, down to its components; removed agents
leave their index unused. `print_on_use(false)` and the flags of the three kinds of
events are left out.

### The queueing systems (`Queueing`)

The closed systems of two examples: one queue, two queues in a row, two in parallel, of
which a job goes to the first that has room, and two processors that miss what comes while they are
busy. Each handler of the generators, queues and processors is translated with its
durations, so that services that are interrupted and planned again for what is left of
them, jobs that come when a service ends, and a final job still in service are as in the
code. Random jobs are any job.

### The customs (`Customs`)

A system that claims more than an example needs to. Each kind of station is a node (or
an agent of a collection) that registers an item downstream, waits for acceptances,
picks one, sends the item and tells all. One event of a station and the unplanned events
it causes in others are one step, because messages of an event are delivered before the
next (`CompositeNode` shows it); which of several imminent stations is next is the order
that `order` gives to components and the order of agents within one, as in the
framework. Times matter as far as events coincide: `TimePasses` lets any of the running
durations end together. Sampling (`sample_*`) is any choice. The system is that of
`customs_closed_system.h` with two of each.

## 3. The runs

| run | instance | what it checks |
|---|---|---|
| `time_queue` | *queue*: two events, base 4, two scales to an epoch (an epoch is 16 ticks), durations of 0, 1 and 15 ticks and of 15 ticks of the next scale, from -18 to 5; *points*: two within 33 ticks of zero, or constructed 512 or -320 ticks away, where gaps are rounded; offsets of one and more digits and both signs, advances at three scales; *cache*: two events retained at scales 0 and 1, from -9 to 18; *sequence*: up to four of eight time points from -17 to 48 | `QueueSound` (representation, order across precisions and epochs, exact durations), `StopsOnlyForEvents`, `PointsExact`, `CacheExact`, `SequenceExact`, `KeepsWhatItIsGiven`; refinement of `Calendar`, `Instants` and `Memory` |
| `time_queue_gap` | the queue with a time 19 ticks ahead | violation of `AdvanceReachesTarget`, see section 6 |
| `time_sequence` | base 2, three scales to an epoch, times from -9 to 24 | violation of `ImplementsRecording`, see section 6 |
| `time_sequence_found` | the same | violation of `FoundEntriesExact`, see section 6 |
| `core` | *arrays*: two of 2 x 2 elements over two buffers, ranges of both directions and of stride 2, subdivided and absorbed axes; *quantity*: base 4, multipliers below 16, levels -1 to 2, two of the seven units; *tree*: five classes of every kind of node nested to depth three, at most two links and ports to be printed, one agent; *exchange*: two variables, two places, two copies; *events*: a composite node that owns a composite with a node inside and a collection with an agent, which send each other messages | `ViewsExact`, `WritesThroughOne`, `QuantitiesExact` (which includes `PrintedReadsBack`), `WiredAsDeclared`, `ReadsAsSent`; `OpenWhileInProgress`, `MessagesEndWithTheirEvent`, `ErrorsAreReported`, `LinesUnderTheirTime`, `NoEventAfterError` |
| `arrays` | the same arrays | violation of `ConstantsUnchanged`, see section 6 |
| `collection` | *collection*: two ids, up to three agents, durations of 0 and 2 ticks, up to two messages at once, a period of 3 ticks; *interactive*: two agents, durations of 1 and 3 ticks of agents and of frames, a period of 4; *pace*: frames after 3 and 8 ticks of half a millisecond until an end time of 11 ticks, two rates, a reference point besides the frames, six milliseconds of the clock | `Registered`, `PlanInSync`, `NoInternalError`, `EachEndsOnce`, `AgentsKnowTime`; `FramesKept`; `FramesAtTheirTime`, `DriftSettles` |
| `interactive_frames` | the interactive system | violation of `FrameRateKept`, see section 6 |
| `real_time_end` | *pace* as in `collection` | violation of `FrameTimeKept`, see section 6 |
| `progress` | *tree*: depth three, top node with leaf a, composite node m, leaf d, and m with leaves b and c; two precisions, a zero duration, start at -1, end at 4; *brief*: the same without zero durations, which may end early, end at 3; *flow*: three components with a flow input and a flow output each, every choice of flow nodes among them, every choice of at most one source for each of their inputs, and one input with two; *items*: three items through the customs with a queue, two kiosks, two desks, two lanes, in the order of declaration of the example; *jobs*: each of the four queueing systems with intervals of 1 to 3 ticks, services of 0, 2 and 5, at most two jobs waiting, ends at 7 and 9, three random jobs; weak fairness | `EventsOnTime`, `HierarchyInSync`, `NoInternalError`, `WhollyFinalized`, `OutputsDrained`, `ElapsedAddsUp`, refinement of `Devs`, `MessagesArrive`; `ValuesFollowLinks`, `CompletesIfWellWired`; `StationsAgree`; `ServedInTurn`; `ComesToAnEnd`, of each but *tree* |
| `flow_network_order` | the flow | violation of `RunsWhenReady`, see section 6 |
| `customs_order` | the customs with the sink declared before the booths | violation of `NoItemIsLost`, see section 6 |

*Bounds.* In the queue of `time_queue` an event planned 15 ticks ahead wraps round an
epoch from most times, one of 15 coarse ticks spans almost four epochs, and time -18 has
a finest digit of another scale than its neighbours and lies one epoch and a bit before
0, so that phases wrap with and without the sign changing. Two ids suffice for two
events at one time with different precisions, for two phases in either order, and for
replanning; they are interchangeable, so the run uses symmetry (it checks safety only).
Of the points every pair of times within the bound is reached (67 x 67 states), so
carries and borrows through all digits, both signs and differences too long for a
duration occur; with base 4 half a tick of the next scale is not a single tick, as with
1000 (with base 2 rounding twice can turn a tie). In the cache an event at scale 0
expires within the time bound, after 16 ticks, and is retained at times off the scale of
the other. The times of the sequence lie in several epochs, on both sides of zero, and
give partitions of one and of more points, so that a bound is in another partition than
the iterator next to it. In `progress` the tree has a composite node
inside another, a leaf below it that sends two messages at once, on one port and on two;
one output that leaves m by two ports, comes back into it and reaches one leaf on two
routes; a time precision that cuts both the start time and event times; planned events
at the end time, one tick before it and beyond it. In the flow three components are
enough for a chain, a cycle of two or three, a node that is passed over and found later,
and message nodes before, between and after flow nodes; ports beyond the first of a node
only repeat what links do. Where handlers end, agents run out or arrays run out of buffers, the run has
`CHECK_DEADLOCK FALSE`; in `core` and `progress` the parts that may stop stutter there
instead, so that everything that goes on until the simulation has ended is checked for
deadlock. In `collection` three agents for two ids mean that an id is
taken again while its former agent is kept, that two agents have events at one time,
next to one of the node itself, and that an agent is removed by the user code that is
called for its own message, or when its own planned event is due. More messages or
agents repeat these. Under frames two agents, one after the other or at once, have
events with and without messages between two frames and at the time of one; ids are
interchangeable, as are the two events of the queue and the two arrays, which the runs
use as symmetry (they check safety only). An end time of 11
ticks leaves room for up to four frames and may cut the last one off; two rates and two
reference points are enough for a drift in either direction to be corrected and to settle; half milliseconds let the clock be
read between two whole ones. Arrays of 2 x 2 have every
way in which two views of one buffer can be disjoint, overlap or be the same; an
array of one axis comes from absorbing the other, and one of two again from subdividing
that. Multipliers 0, -3 and 15 of 16 meet at four levels, so
that sums cross the limit, vanish, need a finer level than they have, or lose one
operand entirely. In `NodeEvents` there are one message, one planned event of a node at
a time and one advance of time: a second event of each repeats the first with the flags
that the first left, which is what the bound lets happen. Two links of a tree can share
a source or a destination, lie in one class or in two, and one can be improper while the
other is not; one agent of a composite class has a component and a prototype of its own
to print. Two copies of a value are the one that is sent and the one that a parameter
node makes of it. Intervals from 1 to 3 with services of 0, 2 and 5 let jobs come
before, at and after the end of a service and fill the queue. Three items in the customs
meet at each kind of station, fill a lane, and open, close and open a lane again. The
runs exercise every action and every disjunct.

*Fairness.* `FairProgressSpec` has weak fairness of `Progress`, which is the next step
of the part in use. For the trees it is `Step`: the loop of `process_remaining_events`
calls `process_next_event` as long as it is not finished, on one thread, so some step is
always taken. In `FlowNetwork`, `Queueing` and `Customs` it is the next-state relation: the loops of a
handler, and the simulation that executes the customs, run on, on the same thread. No
fairness is assumed between user choices. `ComesToAnEnd` leaves out the tree with zero
durations, of which it would be wrong: a node that plans them for ever stops time, which
the framework allows. Of the customs it holds however the stations choose among those
that accepted, with the components declared as they are.

Each property of a passing run has a mutant in `PROJECT.json`, an operator beside the
definition it changes (`plan_event_Again`, `Leave_NotReplanned`, ...) that is a
plausible mistake in that code and violates the property. The mutants not used there are
kept where they break another part of a property: `FlowEnds_Silent` and `Registers_Once`
break `ComesToAnEnd` in the other two parts.

## 4. The proofs

All theorems hold for every value of the constants under the named assumptions of the
modules: any base, any tree, any links, any start and end time, any user choices.

`TimeScale_proofs` has the lemmas on time. What a recursive definition computes cannot be
proved by the library's induction theorems, which take an operator as a parameter; two
lemmas stand in for them where the recursion goes over the naturals. `LeastNatural` gives
the smallest counterexample of a statement, and `PrimitiveRecursion` shows that a
function defined by a first value and a step exists, from the least value on: sequences of
its first values exist for every length (`ValuesExist`) and agree with each other
(`ValuesUnique`). So `PowerDef` shows what `power`, and with it `Tick` and
`quantity_limit`, compute. `TailRecursion` shows that the functions exist which stand for
loops that end, a number getting smaller on the way. The other lemmas are about division
and the digits of a number (`CutCoarser`, `ScalePhase`, `EpochPhase`, `MultipleOfFiner`),
about what `precision` and `scale_above` find, about `advance` (`FloorBounds`,
`AdvanceForward`: advancing by a duration never goes backwards, although it drops digits),
and about `gap`. The gap is a duration forward (`GapStep`), and it leads past its target
only where no duration reaches that: a time from the target on is not passed if it is
whole at some precision, and less than a whole duration of that precision ahead
(`GapWithin`). `gap` stops taking digits where a duration no longer holds their
difference (`CutAt`), rounds the finer ones as it adds them up, rounds their sum to the
unit it stopped at, and rounds again to the first scale at which a duration holds the
result (`GapParts`). None of these leads beyond such a time: the sum of the finer digits
stays within one unit and on the side of zero where the difference has them, whatever
was rounded on the way (`SmallBounds`), so what is rounded last is not beyond a whole
number of units that the difference is not beyond (`NearlyAtMost`), and where digits were
cut it is at least half a unit (`NearlyForward`), so that the loop moves.

`TimeQueue_proofs` shows `QueueIsSound` (`QueueSound`), that the queue implements the
calendar (`QueueImplementsCalendar`), and `StopsForEvents` (`StopsOnlyForEvents`), for
every choice of the scales, any ids, plans, starts and targets. They rest on three loops
of the code doing what they are for:

- `refined_duration` brings a duration to a finer precision digit by digit; it is the
  difference of two times, both cut there (`Refining`, `RefinedDuration`);
- `phase_from_duration` coarsens a phase as long as its digits are zero, reading further
  digits of the current time and its sign; it returns the phase at the precision of the
  time it denotes, and that alone (`CoarsenIs`): two durations that lead to the same time
  have one phase, from whatever current time they are counted;
- `advance_time(t)` advances by the gap to `t` as long as that does not pass an event
  (`LoopSafe`). It may end beyond `t`. Where it ends before `t`, the gap would pass the
  first event; that event stands less than an epoch ahead, so by `GapWithin` the gap does
  so only if the event lies before `t` (`StopsBeforeEvent`).

The invariant `Held` says that each phase stands for one time (`Stands`: that of the
duration left until it, not before now and less than an epoch ahead), that the queue is
ordered by these times, and that ids and phases agree. That a phase goes on standing for
its time while the current time comes nearer (`HeldLater`) is what the whole design of
the queue rests on. `CalendarNeverMisses` is about everything that implements the
calendar, and with the refinement `QueueNeverMisses` is about the queue.

`TimeCache_proofs` shows `CacheIsExact` (`CacheExact`) and that the cache implements the
memory (`CacheImplementsMemory`), for any ids, scales, durations, starts and targets, from
`TimeCacheAssumption`. The queue that a cache owns is an instance of `TimeQueue`, so the
lemmas of `TimeQueue_proofs` are taken over by instance too. The invariant `CacheInv` is
that of the queue, that the ids are those the queue holds (`IdsAgree`), and that each
event was retained at a whole number of ticks of its scale (`WholeTicks`), without which
the duration since then would not be the difference of two cut times. Advancing pops
entries in an order of its own, asking of one entry after the other whether the next step
would pass it: the entries popped are those before the time the step leads to, and no
others (`Passes`), in one step (`PoppedPasses`) and in the loop that repeats it with the
gap that is left (`CacheLoopPasses`). What is left of the queue is a queue again
(`DropPhases`), and the events that were popped are those older than the longest duration.

`TimePoints_proofs` shows that digit vectors implement the integers
(`PointsImplementInstants`), for any base, epoch and durations, which every other module of
time relies on: it is what allows a time point to be a number there. The inductive
invariant is the type with its normal form (`PointsStayNormal`: a digit is in range, those
at the ends are not zero, and zero is `time_point()`). The lemmas follow the blocks of
`operator+=`. `CarryIs` says of the loop that the digits behind it, with what is still
carried, are those of the sum, and `CarryEndsSomewhere` that the loop ends; `CarriedIs`
that the vector it leaves denotes the sum, with a coarsest digit that may be negative;
`FlippedIs` that complementing the others then changes nothing but the sign's place; and
`CutIs` and `FineDigits` that cutting digits off is rounding towards the past, for a
negative time point because one unit is taken from it before (`AdvancedPointIs`). On the
same lemmas rest the queries: `PointsReadAndCompare` says that phases and epochs are those
counted from the left (`PhaseAtIs`, `EpochAtIs`), that comparing from the coarsest
digit on is comparing the numbers (`ComparedIs`), and that differences and gaps are as
exact as the code says; `PointsAreExact` (`PointsExact`) adds that a gap is that of the
numbers.

The loop of `operator-` and `gap` asks of each sum whether subtracting again gives back
what was added. `SumStep` shows that this is so just if a duration holds the sum exactly
at some scale (`HeldFrom`); so the loop stops where the difference of the digits above is
the last that a duration holds (`DifferencesIs`, by `SummedStep`). If the whole difference
is held, so is every part of it (`HeldThroughout`), and where a part is not, its sign is
that of the difference, although digits of either sign are still to come (`SignAbove`):
hence `MinusIs`, the exact difference or an infinite one of its sign. In `gap` the finer
digits are added from the other end. That two roundings, one of the addition and one to
five scales, amount to one is `RoundedSum`: the addition moves to a coarser scale only if
the sum is within half a tick of a whole epoch, and the other rounding gives that epoch
too (`RoundedUp`). The sum is then that of the numbers, `small_part`
(`SmallDifferencesIs`), and adds one unit to the digits above, takes one away or does
nothing (`RoundedDigits`, `GapIs`); it adds one only if the digits it stands for are
positive, so that what is returned is less than one unit off before it is rounded to a
scale that holds it (`GapUnits`, `GapNear`). All this is for any base. For the gap to be
that of the numbers, where the sum is rounded away from zero as a whole, the base has to be
even: `time_point::gap` compares the finer digits with `duration(500, precision - 1)` and
takes that for half a unit (`RoundedWhole`, `GapOfDigits`). In the code the base is 1000,
and `PointsAreExact` has `Base % 2 = 0` as its hypothesis.

The module also shows `SequenceIsExact` (`SequenceExact`) and `AppendedIsKept`
(`KeepsWhatItIsGiven`) for any time points, jumps and scales. The invariant says of the
lists (`Kept`) that partitions are not empty, follow each other and begin at offset 0,
from which each entry belongs to just one partition (`LocatedSome`, `LocatedOnce`); and of
an iterator that is warranted (`live`, `Stands`) that it knows the partition of its entry, and the
last one at the end. An append leaves the entries there were in their partitions
(`GrownKeeps`), but not an iterator at the end; `operator++` and `operator--` find the
partition by looking at the neighbouring one only (`IncrementedStands`,
`DecrementedStands`) and `operator+=` by its search (`MovedStands`). `LowerBoundFound` and
`UpperBoundFound` say that what is found splits an increasing sequence (`Splits`), across
partitions too; `FoundReads` that an iterator to what is found reads the time there
exactly if the search stopped within the partition it looked into. At its end the
iterator adds the first offset of the next partition to the start of this one, two
different times, and the theorem says so (`FoundReadWithin`); the history variable `live`
keeps such iterators out of the rest of it, until `operator+=` has found their partition
again.

`Simulation_proofs` first states how the tree is walked (`Parent` and `Index` are
determined by `Children`, the tree has no cycle) and what a frame looks like; then it
builds the inductive invariant and the theorems `SimulationTyped`,
`NothingIsMissed`, `AllEventsInPeriod` (together `AllOnTime`), `TreeInSync`,
`NeverInternalError` and `AllFinalized`. None of these properties is inductive:
`HierarchyInSync` says nothing while a handler is running, and `NoInternalError` needs
to know why the event a composite node is called for is really the earliest one inside
it. The invariant has four groups:

- `Progress`: types, what the flags mean, and the shape of the stack: each frame is
  a handler of a composite node called by the one below it, all at the same stage
  of the simulation;
- `Unwound`: what holds when no handler is in progress or the simulation failed;
- `Schedule`: no queue has an event before the current time (`NothingMissed`), a
  planned event in progress was due now at every level (`PlannedDue`), and every
  composite node that is *not* on the stack is in sync with its parent
  (`OthersInSync`). The nodes on the stack are those whose parents hold a stale
  plan; each is replanned as its handler leaves, which is why the invariant gives
  `HierarchyInSync` when the stack is empty;
- `Lives`: which nodes may still be initialized and finalized (`CallsAllowed`), and
  that the components of a node called for are at the stage its life says
  (`ComponentsFollow`, `TopFollows`, `FinalizedBelow`, `FinalizedSoFar`). This is
  what makes the once-only exceptions unreachable and what gives
  `WhollyFinalized`.

Two more theorems stand on this invariant. `ElapsedIsExact` (`ElapsedAddsUp`) adds
`Counted`: the durations a leaf has been told make up the way from the start to its last
event, both cut to its precision, which is where the time cache could lose something.
`MessagesAreDrained` (`OutputsDrained`) adds `Drained`: outside a failure a node has
messages only while its owner is routing them, and the topmost has none.

The theorems rest on `TreeAssumption`, `LinkAssumption`, `DurationAssumption`,
`DepthAssumption`, `PortAssumption`, `TopAssumption`, `TimeAssumption`, `SpanAssumption` and
the assumptions of `TimeScale`.
TLC evaluates all of them on the instances. `TimeAssumption` includes that the
simulation does not start after its end, which the constructor does not check.
The other modules of time assume of their parameters only that they are numbers, or
durations (`EventPlansAssumption`, `AdvanceTargetsAssumption`, `TimeCacheAssumption`,
`TimeSequenceAssumption`).
Two assumptions say that the tree is well founded:
`TreeAssumption` going up (every node is below the topmost) and `DepthAssumption` going
down (of any set of nodes the one whose creation began last has no component in it), which
the C++ objects are, being created one in another. `PortAssumption` has what
`node_interface` and `outward_link` make sure of: there are finitely many ports, an outward
link ends at a port of a composite node, and a node sends by its ports.

The module ends with `SimulationImplementsDevs`: `Simulation` implements `Devs`,
for every tree, links, durations and user code. The mapping takes the leaves' times from
the queues of their parents (`LeafTimes`), their lives, and the deliveries `owed`. A leaf's
event is the event of the same name in `Devs`, `End` is `AdvanceTime` or no step at all,
and everything that composite nodes do is no step; the lemmas `Flat...` say so action by
action, and `FlatStep` puts them together. What this needs beyond the invariant above:

- `RoutingOK` and `OwedKept`: the deliveries owed are exactly those that the state of the
  tree still stands for. A message is delivered by the calls that wait in the frames
  (`CallOwes`), by the messages of a list that are yet to be routed (`ListOwes`), and by the
  one being routed once the list of the composite node gets it (`PassingOwes`). At most
  one handler routes (`RouterIs`), above it are only the composite nodes that the message
  has entered (`Entered`), and only its component and itself have messages (`Sending`).
  So `NextMessage` turns one message of a list into calls and a message passed outward
  (`RoutedOn`), `Enter` one call into several (`OwedEnter`), the end of a list makes what
  was passed on the list of the next node up (`OwedLeavePlanned`), and nothing is
  gained or lost in any of these. When no message is about (`Quiet`) nothing is owed.
- `DeliveryNext`: a leaf's unplanned event delivers one that is owed, and no delivery of a
  message sent earlier over the same route is still owed. Every list is in the order of
  sending (`Labelled`), also one that was passed on (`PassedInOrder`). That no other call,
  list or passing on stands for the same delivery (`OtherCalls`, `NotPassed`,
  `ListsAreLater`) is what makes the step remove exactly one.
- `Begun`: all nodes are initialized before any other event, which `Devs` asks of planned
  events (`AllBegun`, by induction down the tree from `InitializedBelow`).
- `FinishingOver`: finalization is decided at the end time only, or when no leaf has a plan,
  which the simulation reads from the topmost node's plan (`NothingPlanned`, from the
  parents' plans being in sync at every level).

`IntoRoutes` and `Routes`, the routes that `owed` begins with, are recursive functions over
the tree. `IntoEquation` and `RoutesEquation` show that they are defined, since the finite
paths along the links satisfy their equations. A solution has lists of hops only
(`IntoTyped`, `RoutesTyped`), the one because the tree has an end going down, the other
because it has one going up.

`FlowNetwork_proofs` shows `FlowTyped` and `ValuesTravelAlongLinks` for any components,
ports and links, from `FlowAssumption`. `ValuesFollowLinks` speaks of the sources that
have had their turn; the invariant adds to it and to `FlowTypeOK` only that none has before
the inward links (`NoneBeforeInward`). The lemma `TransferFollows` does the work for
every action that moves values.

`CompletesJustIfWellWired` (`CompletesIfWellWired`) says which wirings the code can
execute: both that none is rejected wrongly and that none is executed which should not
be. Its invariant `CourseInv` adds to the one above that a failure for an input or a
port means a wiring that is not well, and that until a failure

- `Stages`: which lists of nodes are still full, and which are empty, in each phase;
- `Supplied`, `Fitting`: a node that has had its turn had all its inputs, and no link of
  such a node goes to an outward port that is not there;
- `Ordered`, if no port has two links: the flow nodes that have run have no cycle among
  them, those taken in the order of declaration depend on none declared after
  themselves, and only nodes that wait for no message node run before those do;
- `OnlyLateLeft`, if the wiring is well: the flow nodes that the first pass leaves are
  those that wait for a message node.

`Ordered` needs its condition since with two links to a port what the port holds does
not tell what it was fed by. Which flow nodes wait for a message node (`Late`) is a
least fixpoint, and that there is no cycle (`Acyclic`) is a statement of all sets of
nodes, so that both can be reasoned about without recursion: `LateFacts` has what the
proof needs of the one, `LeftIsLate` takes the other to show that only late nodes are
left when no other is ready, and `NoneStuck` that the order of declaration then does.

`Agents_proofs` shows `CollectionTyped`, `AgentsRegistered`, `CollectionInSync`,
`CollectionNeverInternal` and `AgentsEndOnce` for any ids, durations and numbers of
agents and messages, from `PeriodAssumption` and `ChoiceAssumption`. The invariant adds
to the properties: no index is used that has not been dealt out, and an agent has been
finalized just if it is not there any more (`Maps`); the handlers come in their order,
and only a micro event has messages left (`Course`); at every moment, not only between
events, no event is before the current time, and while the macro event is handled it
stays due now, whatever user code does, since nothing but the handler's own return
touches it (`Schedule`). The last is why `pop_imminent_event` cannot throw.
As `CompositeNode` does, it needs that a timetable with events has an earliest one.

`AgentsAreToldTime` (`AgentsKnowTime`) adds to it that what an agent has been told is
what the time cache remembers of it (`Known`). `FramesWhenDue` (`FramesKept`) and
`FramesNeverInternal` are about `InteractiveSystem`, whose steps keep the invariant of
the collection node it extends; `FrameInv` adds where the frame is at rest and what a
message in progress has still to take from the planned duration.

Of `RealTime`, `Agents_proofs` shows `BufferLearnsFrames` (`FramesAtTheirTime`) and
`SynchronizationSettles` (`DriftSettles`) for any rate, any reference points and any
planned durations, from `PaceAssumption`. The time of a frame in the buffer's thread is
compared with that in the simulation's, which a frame reaches by another way, up to the
call in which the simulation ends: the invariant has what a call in progress has yet to pass on (`CallInProgress`), what the
buffer knows of the frame it waits for (`BufferDescribesFrame`) and that the plan is that
of the last frame or a correction of it (`PlanIsCurrent`, `Recomputed`). A correction lies
between the planned duration and the synchronized one (`CorrectedBetween`), so that a
frame processed on time leaves the simulation no further ahead or behind than it was
(`StepSettles`).

`NodeEvents_proofs` shows `OpenAndTimed`, `MessagesEnd`, `PrintedUnderTheirTime`,
`ErrorsAreFinal` and `ErrorsNamed` for any tree of nodes that `NodesAssumption`
describes: what the constructors make sure of, stated of the constants, with the topmost
node without an owner and no node below itself. The tree being well founded is stated
without recursion (every set of nodes has one that no other of them owns), and the first
lemmas derive from it that no node is on the stack twice. `StepKind` sorts the actions
into the few kinds that matter to the invariants: code that runs throws or uses a port
(`Stays`), goes on within its frame (`GoesOnTo`), hands a node an event (`Called`), ends
its own (`Finished`) or is unwound. Each part of the invariant is then proved kind by
kind:

- `Typed`: each frame is one of its kind of node, called by the one below it;
- `TimersKept`: what a collection's user code called has its timer run on, and a frame
  that can be called into has stopped its own only where it starts it again;
- `ListsKept`: what a frame has still to do; a composite node calls every component just
  once in an initialization, and a collection is done with its agent before messages;
- `LifeKept`: who has been initialized and finalized. `PathKept` alone, which is what
  the property says, is not inductive: that a component has not been finalized before it
  is called follows from how far its owner has come (`ComponentsKept`), that an agent
  has not from the collection's index and plans (`AgentsKept`), and both have to allow
  for nodes that an exception has broken;
- `OpenKept`: the interfaces on the stack are open as their frames say, the others only
  where an exception left them.

Together they are `EventsKept`, on which `MessagesEnd` builds too. `MessagesKept` says
more than `MessagesEndWithTheirEvent`: the messages a node has sent wait while its
planned event is in progress or while its owner still has to drain them (`Awaited`), so
that a list which lost its last step would show at once; those a node has received are
there in its unplanned event only; a prototype's messages are there only while user code
of its collection runs, as `cleared_prototype` ends every such run; and the topmost node
has none. An exception breaks the node in which it arises and every owner it passes, so
that whatever waits then waits in or below a broken node.

`ErrorsNamed` (`ErrorsAreReported`) is about the exception while it is still on its way
up. The nodes whose events it has not reached are just those above where it is
(`PathClosed`, `PathAbove`: the stack is the path to the node that runs), so a fresh
exception has passed no collection; each collection that catches one is above all that
it has passed before, and its copy names it. `ErrorFor` says this, and that an error has
a line for the node it names and for its origin, of the stack, the exception and the
nodes told.

`LinesPrinted` and `SimulationTimed` are small and of their own. Two things in the model
and its properties were found wrong when they were to be proved: a node below one that
an exception has broken may be initialized without its flag being set, which the
property now says of the path above it and which no instance showed; and two cases of
`Closed` overlapped.

The proved properties are those that the runs check: `EventsOnTime`, `HierarchyInSync`,
`NoInternalError`, `WhollyFinalized`, `ElapsedAddsUp`, `OutputsDrained` and
`ImplementsDevs` of `Simulation`, `ValuesFollowLinks` and `CompletesIfWellWired` of
`FlowNetwork`, `Registered`, `PlanInSync`, `NoInternalError`, `EachEndsOnce`,
`AgentsKnowTime` and `FramesKept` of `CollectionNode` and `InteractiveSystem`,
`OpenWhileInProgress`, `MessagesEndWithTheirEvent`, `LinesUnderTheirTime`,
`NoEventAfterError` and `ErrorsAreReported` of `NodeEvents`, `QueueSound`,
`StopsOnlyForEvents` and `ImplementsCalendar` of `TimeQueue`, `CacheExact` and
`ImplementsMemory` of `TimeCache`, `ImplementsInstants` and (for an even base) `PointsExact`
of `TimePoint`, `SequenceExact` and `KeepsWhatItIsGiven` of `TimeSequence`,
`FramesAtTheirTime` and `DriftSettles` of `RealTime`.

Only model-checked: `Quantity` (its durations are proved about in `TimeScale`); `Arraynd`,
`Values` and `Wiring`, which recurse over types and trees; `Queueing` and `Customs`, whose
invariants compare counters with folds over histories and sets of stations, of which the
laws would need an induction over data; and the liveness properties, which are out of the
prover's reach too.

## 5. Not modelled, and the plan

Left out on purpose: the values of messages and flows where they change nothing (all but
`Values` and `Queueing`), the wording of what is printed, counters of events (`c`), the
durations that timers measure, the random generator, `identity` (an integer),
`string_builder`, the other examples and the tests, and what the floating-point unit
rounds.

Of the modelled parts these operations are left out: `duration_at` and `event_ids_at` of
the time queue (read-only); iterating over agents; square roots, powers and conversions
of quantities; user code that catches an exception and goes on (but for `UserCatches` in
`NodeEvents`). An agent of a class derived from the prototype's that has more components
than the prototype makes `adopt_component_print_flags` throw `std::out_of_range`;
`Wiring` has agents of the prototype's class only.

Some calls are undefined in C++ and are not steps of the model: reading a prototype's
message outside the event that delivers it (the list is empty), a frame planned at
infinity (its number of milliseconds is converted to an integer), an array index taken
with a plain integer that is out of range.

Planned, in this order:

1. The other examples with a protocol of their own (`demo/workers`, `test_systems/agentbased`).
2. Square roots, powers and conversions of `Quantity`.

## 6. Disagreements between code and documentation

`time_queue.h` says of `advance_time(const time_point t)`: "Advances the current time to
`t`." The loop advances by `t.gap(ct_)` until `ct_` is not before `t`. When `t` and
`ct_` differ in more than five digits of base 1000, `gap` rounds to a duration
that a multiplier holds, and when it rounds up the current time passes `t`. The call
then throws "Unexpected error occurred while advancing time queue to specified time",
with no event planned, and leaves the queue beyond `t`. A compiled test (an empty queue
at time 0, target 100 s + 600 fs) behaves so. The run `time_queue_gap` shows it. A
simulation meets it only if its period exceeds 10^15 ticks of the finest precision in
use, hence `SpanAssumption`.

`function_node.h` says of `handle_initialization_event`: "Invoked when all flow input
ports have values". `process_flow_nodes(true)`, which runs in a composite node of flow
nodes only and at every finalization, takes the nodes strictly in order of declaration
and throws for the first that lacks an input, even though a node declared after it is
ready and would supply that input. A statistic node declared before the one it is linked
from fails so; `process_flow_nodes(false)` passes over such a node. The run is
`flow_network_order`.

`composite_node.h` says that an outward link goes "from an output port on one of the
component nodes to an output port on the interface of the composite node".
`activate_flow_outward_links` looks the index of that port up among the components, so
that a composite node with one component and two linked flow outputs ends in the
exception `map::at`. No run is about this alone: `NoSuchNode` models it, and `WellWired`,
which `CompletesIfWellWired` shows to be what the code accepts, has to exclude such
links. Compiled tests show both of these too.

`interactive_system.h` says that "micro-level events should not directly affect the
frame rate established at the macro level". `micro_planned_event` keeps the frame where
it was by taking `elapsed_dt` from `planned_dt_`. That is the duration since the node's
last event as its parent knows it, and an agent's planned event counts as one even if
the agent sends no message, in which case there is no micro event to take what has
elapsed. The next message then plans the frame too late: a frame planned for 10 s comes
at 13 s when an agent has a silent event at 3 s and sends a message at 5 s (a compiled
program shows it, and the run `interactive_frames`). `FramesKept` is what does hold.

`time_sequence.h` says of `append`: "Appends `tp` if it exceeds all previously added
time points." The order is checked by comparing the duration since the start of the last
partition with that of the last time point. When no duration holds the former a new
partition is started without any comparison, so an earlier time point that is far enough
away is appended too, and later searches run over a sequence that is not sorted (a
compiled program appends it). The run
is `time_sequence`; `KeepsWhatItIsGiven` and `SequenceExact` are what holds for
ascending time points and for those near enough.

`time_sequence.h` says of `upper_bound`: "Returns an iterator to the last position `tp`
could be inserted", and of iterators that they "provide both the time point and the
index". The search looks into the last partition that does not begin after `tp`. If none
of its entries is later, the index found is that of the first entry of the next partition,
but the iterator is constructed with the partition searched and adds the entry's offset,
0, to the start of that. With -9 and 0 in two partitions of the run `time_sequence_found`
`upper_bound(-9)` has the index 1 and reads -9. `lower_bound` does the same for a time
point between two partitions. A compiled program shows it of both; `SequenceExact` has
what holds, the index always and the time within the partition.

`arraynd.h` says "If data is shared with a constant multidimensional array, then neither
array can be modified." The const overloads of `view_absorbed_axis` and
`view_subdivided_axis` call `absorb_axis` and `subdivide_axis`, which take the flag
`is_readonly_` from an array that is constant only by its type. The view they give writes
through to the constant. In the run `arrays` a constant of 2 x 2 elements is filled
through its view of 4; compiled programs show both ways.

`real_time_simulation.h` says of `frame_time`: "Returns the simulated time point of the
most recently processed frame of the simulation", and that after a call that returns a
positive count "the simulation has advanced by one frame". The call in which the simulation
ends processes events, the finalization at least, but no frame, returns a positive count
and updates the buffer: `frame_time()` and `frame_clock_time()` are then the times of no
frame. With frames every 100 ms and an end at 250 ms, `frame_index()` is 2 and
`frame_time()` 250 ms in the end (a compiled program shows it). The run is
`real_time_end`; `FramesAtTheirTime` has what holds, before the end and after.

The customs example calls its components "robust with respect to tie-breaking". A lane
is removed as soon as its server has sent an item and its count is zero
(`micro_planned_event` of `robust_variable_lane_node`), but an acceptance of the lane's
queue may still wait in `acceptance_values_` and goes out after it: the station that
receives it sends an item to a lane that does not exist any more. As the system is
declared, the booths act before the sink and the item arrives before the server is told.
With the sink first an item is lost and the count of it blocks later lanes. The run is
`customs_order`; `StationsAgree` in `progress` holds for the order that the example has.
A compiled program shows this too.

Smaller ones in `collection_node.h`, which no run is about: `micro_planned_event` is
said to be "invoked when an agent's previous planned duration elapses" but is invoked
once for each message the agent sends then, and not at all for none; `agent_begin` is
said to point "to the oldest agent" but points to the one with the least id.

Others that were noticed, with no run about them. `collection_node.h`: `throw e;` copies
the exception as a `std::exception`, which loses the message of the agent's error;
`create_agent` registers an agent before it finds an input missing; `remove_agent` that
fails for a missing flow output leaves a finalized agent registered; the time of agents
that are invoked is not added to the prototype's timer. `simulation.h` does not stop its
timer after an error. `composite_node.cpp:268` names a port of the wrong side in a
message. `real_time_buffer.cpp` keeps the reference point when the rate changes.
`arraynd_base.h`: a range that stops before it starts is clipped rather than empty;
assigning an array to itself when it is not a view reads the new buffer; overlapping
views are assigned in order. `arraynd.h`: the comparison of one-dimensional arrays used
by maps ignores offset and stride. `quantity.h`: a product with an invalid quantity is
valid, zero times infinity is infinite, and a finite quantity divided by an infinite one
is not zero. `qualified_type.h:28` promises that `copy` "returns a deep copy of `X`",
but the copy of a pair, tuple, vector, set or map has the views in it as views of the
same buffers (`ReadsAsSent` leaves them out). `collection_node.h`: after an exception in
`create_agent` or `invoke_agent` the structure keeps a pointer to the destroyed agent.

## 7. Running

    tlc -workers 2 -config Time.cfg MCTime
    tlc -workers 2 -config TimeQueueGap.cfg MCTimeQueue
    tlc -workers 2 -config TimeSequenceOrder.cfg MCTimeSequence
    tlc -workers 2 -config TimeSequenceFound.cfg MCTimeSequence
    tlc -workers 2 -config Core.cfg MCCore
    tlc -workers 2 -config ArrayndConst.cfg MCArraynd
    tlc -workers 2 -config Agents.cfg MCAgents
    tlc -workers 2 -config InteractiveSystemFrames.cfg MCInteractiveSystem
    tlc -workers 2 -config RealTimeEnd.cfg MCRealTime
    tlc -workers 2 -config Progress.cfg MCProgress
    tlc -workers 2 -config FlowNetworkOrder.cfg MCFlowNetwork
    tlc -workers 2 -config CustomsOrder.cfg MCProgress
    tlapm TimeScale_proofs.tla
    tlapm TimeQueue_proofs.tla
    tlapm TimeCache_proofs.tla
    tlapm TimePoints_proofs.tla
    tlapm Simulation_proofs.tla
    tlapm FlowNetwork_proofs.tla
    tlapm Agents_proofs.tla
    tlapm NodeEvents_proofs.tla

The passing runs take up to four minutes each.
