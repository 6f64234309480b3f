--------------------------- MODULE CollectionNode ---------------------------
(***************************************************************************)
(* collection_node.h: a node whose components, the agents, are created and *)
(* removed while the simulation runs, by the user code of the node itself. *)
(* An agent is known to user code by its id and to the queues by an index  *)
(* that is never used again.  While user code runs, a removed agent stays, *)
(* without its id, since its messages may still be in use.                 *)
(*                                                                         *)
(* The parent of the node calls its handlers: at the time planned, or      *)
(* earlier with a message, and in the end to finalize it.                  *)
(***************************************************************************)
EXTENDS Timetable

CONSTANTS
    AgentIDs,     \* what user code calls agents
    MaxAgents,    \* bound on the agents ever created
    Durations,    \* the finite durations that agents and the node itself plan
    MaxMessages,  \* bound on the messages an agent sends in one event
    Start, End    \* the simulated period

ASSUME PeriodAssumption == Start \in Int /\ End \in Int /\ Start <= End
ASSUME ChoiceAssumption ==
    MaxAgents \in Nat /\ MaxMessages \in Nat /\ Durations \subseteq Nat

macro_event_id == MaxAgents  \* after all agents
Indices == 0 .. MaxAgents - 1
NoAgent == -1

VARIABLES
    now,               \* the simulated time
    prototype_dmode,   \* whether agents are message or flow nodes
    queue,             \* t_queue_: index -> time of planned event
    cache,             \* t_cache_: index -> time of last event
    agent_indices,     \* id -> index, of the agents that are not removed
    agent_ids,         \* index -> id, of those and the ones just removed
    removed_indices,   \* the agents just removed
    next_node_index,   \* the number of agents created so far
    inputs_assigned,   \* whether the prototype's flow inputs have values
    message_input,     \* the prototype's message input
    handler,           \* the user code that runs
    sender,            \* the agent whose messages it is called for
    messages,          \* how many of them there still are
    elapsed,           \* the elapsed duration it is told
    stage,             \* initialized_ and finalized_
    plan,              \* the parent's t_queue_: the node's planned time, if any
    called,            \* the parent's t_cache_: the time of the node's last event
    failure,           \* "none", or what kind of exception ended the simulation
    seen,              \* history: index -> the time, by what the agent was told
    ended              \* history: index -> how often the agent was finalized

agentVars == <<queue, cache, agent_indices, agent_ids, removed_indices, next_node_index, seen, ended>>
prototypeVars == <<inputs_assigned, message_input>>
handlerVars == <<handler, sender, messages, elapsed>>
parentVars == <<now, prototype_dmode, stage, plan, called>>

collectionVars == <<agentVars, prototypeVars, handlerVars, parentVars, failure>>

Live == {agent_indices[id] : id \in DOMAIN agent_indices}

CollectionInit ==
    /\ now = Start
    /\ prototype_dmode \in {"message", "flow"}
    /\ queue = EmptyTimetable /\ cache = EmptyTimetable
    /\ agent_indices = EmptyTimetable /\ agent_ids = EmptyTimetable
    /\ removed_indices = {} /\ next_node_index = 0
    /\ inputs_assigned = FALSE /\ message_input = "none"
    /\ handler = "none" /\ sender = NoAgent /\ messages = 0 /\ elapsed = 0
    /\ stage = "new" /\ plan = {} /\ called = Start
    /\ failure = "none"
    /\ seen = EmptyTimetable /\ ended = EmptyTimetable

Fails(kind) ==
    /\ failure' = kind
    /\ UNCHANGED <<agentVars, prototypeVars, handlerVars, parentVars>>

-----------------------------------------------------------------------------
(* What user code does while a handler of the node runs                    *)

\* An event's outcome for the queue: a new plan or none.
Replanned(i) ==
    \/ \E dt \in Durations : queue' = WithEvent(queue, i, now + dt)
    \/ queue' = WithoutEvents(queue, {i})

\* Mutant: only an agent's first event is retained.
Retained_First(i) ==
    cache' = IF i \in DOMAIN cache THEN cache ELSE WithEvent(cache, i, now)

\* The agent's last event is now.
Retained(i) == cache' = WithEvent(cache, i, now)

\* Mutant: the planned event of a removed agent stays.
Released_Planned(i) ==
    /\ cache' = WithoutEvents(cache, {i})
    /\ UNCHANGED queue

Released(i) ==
    /\ queue' = WithoutEvents(queue, {i})
    /\ cache' = WithoutEvents(cache, {i})

\* Mutant: a removed agent is erased at once.
Kept_Not(i) ==
    /\ agent_ids' = WithoutEvents(agent_ids, {i})
    /\ UNCHANGED removed_indices

\* A removed agent is kept until user code has returned.
Kept(i) ==
    /\ removed_indices' = removed_indices \cup {i}
    /\ UNCHANGED agent_ids

\* The agent adds the elapsed duration it is told to the time as it knows it.
Told(i) == [seen EXCEPT ![i] = @ + (now - cache[i])]

\* get(prototype flow inputs) = values
assign_flow_inputs ==
    /\ handler # "none"
    /\ ~inputs_assigned
    /\ inputs_assigned' = TRUE
    /\ UNCHANGED <<agentVars, message_input, handlerVars, parentVars, failure>>

\* get(prototype message input): one at a time.
access_message_input ==
    /\ handler # "none"
    /\ \/ message_input # "none" /\ Fails("misuse")
       \/ /\ message_input = "none"
          /\ message_input' = "accessed"
          /\ UNCHANGED <<agentVars, inputs_assigned, handlerVars, parentVars, failure>>

\* proxy = value
assign_message_input ==
    /\ handler # "none"
    /\ message_input = "accessed"
    /\ message_input' = "assigned"
    /\ UNCHANGED <<agentVars, inputs_assigned, handlerVars, parentVars, failure>>

create_agent(id) ==
    /\ handler # "none"
    /\ \/ /\ prototype_dmode = "flow" \/ id \in DOMAIN agent_indices \/ ~inputs_assigned
          /\ Fails("misuse")
       \/ /\ prototype_dmode = "message" /\ id \notin DOMAIN agent_indices /\ inputs_assigned
          /\ next_node_index < MaxAgents
          /\ LET i == next_node_index
             IN  /\ agent_indices' = WithEvent(agent_indices, id, i)
                 /\ agent_ids' = WithEvent(agent_ids, i, id)
                 /\ Replanned(i)
                 /\ Retained(i)
                 /\ seen' = WithEvent(seen, i, now)
                 /\ ended' = WithEvent(ended, i, 0)
          /\ next_node_index' = next_node_index + 1
          /\ UNCHANGED <<removed_indices, prototypeVars, handlerVars, parentVars, failure>>

affect_agent(id) ==
    /\ handler # "none"
    /\ \/ /\ prototype_dmode = "flow" \/ id \notin DOMAIN agent_indices \/ message_input # "assigned"
          /\ Fails("misuse")
       \/ /\ id \in DOMAIN agent_indices /\ message_input = "assigned"
          /\ Replanned(agent_indices[id])
          /\ Retained(agent_indices[id])
          /\ seen' = Told(agent_indices[id])
          /\ message_input' = "none"
          /\ UNCHANGED <<agent_indices, agent_ids, removed_indices, next_node_index, ended,
                         inputs_assigned, handlerVars, parentVars, failure>>

remove_agent(id) ==
    /\ handler # "none"
    /\ \/ /\ prototype_dmode = "flow" \/ id \notin DOMAIN agent_indices
          /\ Fails("misuse")
       \/ /\ id \in DOMAIN agent_indices
          /\ LET i == agent_indices[id]
             IN  /\ agent_indices' = WithoutEvents(agent_indices, {id})
                 /\ Kept(i) /\ Released(i)
                 /\ seen' = Told(i)
                 /\ ended' = [ended EXCEPT ![i] = @ + 1]
          /\ UNCHANGED <<next_node_index, prototypeVars, handlerVars, parentVars, failure>>

\* A flow agent is created, invoked and gone: only its index is used up.
invoke_agent ==
    /\ handler # "none"
    /\ \/ /\ prototype_dmode = "message" \/ ~inputs_assigned
          /\ Fails("misuse")
       \/ /\ prototype_dmode = "flow" /\ inputs_assigned
          /\ next_node_index < MaxAgents
          /\ next_node_index' = next_node_index + 1
          /\ UNCHANGED <<queue, cache, agent_indices, agent_ids, removed_indices, seen, ended,
                         prototypeVars, handlerVars, parentVars, failure>>

-----------------------------------------------------------------------------
(* The handlers                                                            *)

Starts(event, dt) ==
    /\ handler' = event
    /\ elapsed' = dt
    /\ UNCHANGED <<agentVars, prototypeVars, sender, messages, parentVars, failure>>

\* Mutant: the parent is answered before the outcome is planned.
Answers_Before ==
    /\ plan' = Earliest(queue)
    /\ called' = now
    /\ handler' = "none" /\ sender' = NoAgent /\ messages' = 0 /\ elapsed' = 0

\* The handler returns to the parent, which plans what it answers.
Answers ==
    /\ plan' = Earliest(queue')
    /\ called' = now
    /\ handler' = "none" /\ sender' = NoAgent /\ messages' = 0 /\ elapsed' = 0

\* Mutant: the agents are erased but their ids are not.
erase_removed_agents_IdsKept ==
    /\ removed_indices' = {}
    /\ seen' = WithoutEvents(seen, removed_indices)
    /\ UNCHANGED agent_ids

erase_removed_agents ==
    /\ agent_ids' = WithoutEvents(agent_ids, removed_indices)
    /\ removed_indices' = {}
    /\ seen' = WithoutEvents(seen, removed_indices)

handle_initialization_event ==
    /\ stage = "new" /\ handler = "none"
    /\ handler' = "initialization" /\ elapsed' = 0
    /\ stage' = "running"
    /\ UNCHANGED <<agentVars, prototypeVars, sender, messages, now, prototype_dmode, plan, called, failure>>

handle_unplanned_event ==
    /\ stage = "running" /\ handler = "none"
    /\ IF NoneBefore(queue, now) THEN Starts("unplanned", now - called) ELSE Fails("internal")

\* The imminent event of least index: that of the oldest agent, or the
\* node's own when no agent has one.
imminent_id == CHOOSE i \in Imminent(queue) : \A j \in Imminent(queue) : i <= j

\* handle_agent_planned_event, and the first of the node's events for the
\* messages the agent has sent.  If it has sent none, the node has no event.
PlannedEventOfAgent(i) ==
    /\ Replanned(i)
    /\ Retained(i)
    /\ seen' = Told(i)
    /\ \E n \in 0 .. MaxMessages :
        \/ /\ n > 0
           /\ handler' = "micro" /\ elapsed' = now - called /\ sender' = i /\ messages' = n
           /\ UNCHANGED <<plan, called>>
        \/ n = 0 /\ Answers
    /\ UNCHANGED <<agent_indices, agent_ids, removed_indices, next_node_index, ended,
                   prototypeVars, now, prototype_dmode, stage, failure>>

handle_planned_event ==
    /\ stage = "running" /\ handler = "none" /\ plan = {now}
    /\ IF Earliest(queue) # {now} \/ imminent_id \notin DOMAIN agent_ids \cup {macro_event_id}
       THEN Fails("internal")
       ELSE \/ imminent_id # macro_event_id /\ PlannedEventOfAgent(imminent_id)
            \/ imminent_id = macro_event_id /\ Starts("planned", now - called)

handle_finalization_event ==
    /\ stage = "running" /\ handler = "none"
    /\ IF NoneBefore(queue, now) THEN Starts("finalization", now - called) ELSE Fails("internal")

\* User code returns a duration, dts = {dt}, or infinity, dts = {}: the new
\* plan of the node itself.  Then comes the next message, or the handler ends.
HandlerReturns(dts) ==
    /\ handler \in {"initialization", "unplanned", "planned", "micro"}
    /\ IF handler = "planned" /\ dts = {} /\ macro_event_id \notin Imminent(queue)
       THEN Fails("internal")
       ELSE /\ queue' = IF dts = {} THEN WithoutEvents(queue, {macro_event_id})
                        ELSE WithEvent(queue, macro_event_id, now + CHOOSE dt \in dts : TRUE)
            /\ Retained(macro_event_id)
            /\ inputs_assigned' = FALSE /\ message_input' = "none"
            /\ \/ /\ messages > 1
                  /\ messages' = messages - 1
                  /\ elapsed' = 0
                  /\ UNCHANGED <<agent_ids, removed_indices, seen, handler, sender, plan, called>>
               \/ messages <= 1 /\ Answers /\ erase_removed_agents
            /\ UNCHANGED <<agent_indices, next_node_index, ended, now, prototype_dmode, stage, failure>>

\* Mutant: one agent is left.
Finalized_AllButOne == IF Live = {} THEN {} ELSE Live \ {CHOOSE i \in Live : TRUE}

\* The agents that are removed with the node: all that there are.
Finalized == Live

FinalizationReturns ==
    /\ handler = "finalization"
    /\ agent_indices' =
           WithoutEvents(agent_indices, {id \in DOMAIN agent_indices : agent_indices[id] \in Finalized})
    /\ agent_ids' = WithoutEvents(agent_ids, Finalized \cup removed_indices)
    /\ queue' = WithoutEvents(queue, Finalized)
    /\ cache' = WithoutEvents(cache, Finalized)
    /\ seen' = WithoutEvents(seen, Finalized \cup removed_indices)
    /\ ended' = [i \in DOMAIN ended |-> IF i \in Finalized THEN ended[i] + 1 ELSE ended[i]]
    /\ removed_indices' = {}
    /\ stage' = "finalized"
    /\ plan' = {} /\ called' = now
    /\ handler' = "none" /\ sender' = NoAgent /\ messages' = 0 /\ elapsed' = 0
    /\ UNCHANGED <<next_node_index, prototypeVars, now, prototype_dmode, failure>>

\* The simulation moves to a time that is not beyond the parent's plan.
Pass(t) ==
    /\ stage = "running" /\ handler = "none"
    /\ now < t /\ \A p \in plan : t <= p
    /\ now' = t
    /\ UNCHANGED <<agentVars, prototypeVars, handlerVars, prototype_dmode, stage, plan, called, failure>>

UserCode ==
    \/ assign_flow_inputs \/ access_message_input \/ assign_message_input
    \/ \E id \in AgentIDs : create_agent(id) \/ affect_agent(id) \/ remove_agent(id)
    \/ invoke_agent

CollectionNext ==
    /\ failure = "none"
    /\ \/ handle_initialization_event \/ handle_unplanned_event
       \/ handle_planned_event \/ handle_finalization_event
       \/ UserCode
       \/ \E dts \in {{}} \cup {{dt} : dt \in Durations} : HandlerReturns(dts)
       \/ FinalizationReturns
       \/ \E t \in Start .. End : Pass(t)

CollectionSpec == CollectionInit /\ [][CollectionNext]_collectionVars

-----------------------------------------------------------------------------
(* Properties                                                              *)

CollectionTypeOK ==
    /\ now \in Start .. End
    /\ prototype_dmode \in {"message", "flow"}
    /\ next_node_index \in 0 .. MaxAgents
    /\ DOMAIN agent_indices \subseteq AgentIDs /\ Live \subseteq Indices
    /\ DOMAIN agent_ids \subseteq Indices
    /\ \A i \in DOMAIN agent_ids : agent_ids[i] \in AgentIDs
    /\ removed_indices \subseteq Indices
    /\ DOMAIN queue \subseteq Indices \cup {macro_event_id}
    /\ DOMAIN cache \subseteq Indices \cup {macro_event_id}
    /\ \A i \in DOMAIN queue : queue[i] \in Int
    /\ \A i \in DOMAIN cache : cache[i] \in Start .. End
    /\ inputs_assigned \in BOOLEAN
    /\ message_input \in {"none", "accessed", "assigned"}
    /\ handler \in {"none", "initialization", "unplanned", "planned", "micro", "finalization"}
    /\ sender \in Indices \cup {NoAgent}
    /\ messages \in 0 .. MaxMessages
    /\ elapsed \in Nat
    /\ stage \in {"new", "running", "finalized"}
    /\ plan \subseteq Int /\ called \in Start .. End
    /\ failure \in {"none", "misuse", "internal"}
    /\ DOMAIN seen = DOMAIN agent_ids
    /\ \A i \in DOMAIN seen : seen[i] \in Int
    /\ ended \in [DOMAIN ended -> Nat]

\* The maps of the node agree, in the middle of any handler and whatever ids
\* are used again: an id stands for the agent created last with it, only an
\* agent that exists has a planned event or a last one, the removed ones are
\* kept until user code has returned, and the one whose messages it reads is
\* among those.
Registered ==
    /\ \A id \in DOMAIN agent_indices :
          agent_indices[id] \in DOMAIN agent_ids /\ agent_ids[agent_indices[id]] = id
    /\ DOMAIN agent_ids = Live \cup removed_indices /\ Live \cap removed_indices = {}
    /\ DOMAIN queue \ {macro_event_id} \subseteq Live
    /\ DOMAIN cache \ {macro_event_id} = Live
    /\ handler = "none" => removed_indices = {}
    /\ handler = "micro" => sender \in DOMAIN agent_ids

\* Whenever no handler runs, the parent's plan is the earliest event of the
\* agents there are and the node itself, and time has not passed it.
PlanInSync ==
    stage = "running" /\ handler = "none" =>
        plan = Earliest(queue) /\ NoneBefore(queue, now)

\* The exceptions for errors in the code itself are never thrown.
NoInternalError == failure # "internal"

\* Each agent is finalized once, at the latest with the node.
EachEndsOnce ==
    \A i \in DOMAIN ended :
        /\ ended[i] <= 1
        /\ stage = "finalized" => ended[i] = 1

\* Whenever an agent is told an elapsed duration, these add up to the time
\* since it was created.
AgentsKnowTime ==
    [][\A i \in DOMAIN seen \cap DOMAIN seen' : seen'[i] # seen[i] => seen'[i] = now]_collectionVars
=============================================================================
