---------------------------- MODULE Agents_proofs ----------------------------
(***************************************************************************)
(* For any ids, durations and numbers of agents and messages, the maps and *)
(* queues of a collection node agree, whatever its user code does, its     *)
(* agents are told the time, and the frames of an interactive system are   *)
(* planned for when they are due.  The buffer of a real time simulation    *)
(* learns of every frame at its time, and its synchronization settles, for *)
(* every rate, every reference point and every sequence of plans.          *)
(***************************************************************************)
EXTENDS InteractiveSystem, RealTime, WellFoundedInduction, TLAPS

-----------------------------------------------------------------------------
(* Least elements                                                          *)

\* Every nonempty set of naturals has a least element.
LEMMA LeastNatural ==
    ASSUME NEW S, S \subseteq Nat, S # {}
    PROVE  \E m \in S : \A n \in S : m <= n
<1> DEFINE R == {ss \in Nat \X Nat : ss[1] < ss[2]}
<1>1. IsWellFoundedOn(R, Nat)
  BY NatLessThanWellFounded DEF OpToRel
<1>2. \A m, n \in Nat : m < n => <<m, n>> \in R
  OBVIOUS
<1> HIDE DEF R
<1>3. PICK m \in S : \A n \in S : <<n, m>> \notin R
  BY <1>1, WFMin
<1>4. ASSUME NEW n \in S PROVE m <= n
  <2>1. n \in Nat /\ m \in Nat
    OBVIOUS
  <2>2. ~ (n < m)
    BY <1>2, <1>3, <2>1
  <2>3. QED
    BY <2>1, <2>2
<1>5. QED
  BY <1>4

\* So every natural-valued function on a nonempty set takes a least value.
LEMMA LeastValue ==
    ASSUME NEW S, S # {}, NEW f \in [S -> Nat]
    PROVE  \E x \in S : \A y \in S : f[x] <= f[y]
<1> DEFINE V == {f[x] : x \in S}
<1>1. V \subseteq Nat /\ V # {}
  OBVIOUS
<1>2. PICK v \in V : \A w \in V : v <= w
  BY <1>1, LeastNatural
<1>3. PICK x \in S : v = f[x]
  OBVIOUS
<1>4. QED
  BY <1>2, <1>3

-----------------------------------------------------------------------------
(* Earliest events                                                         *)

\* A timetable with integer times.
Timed(tt) == \A i \in DOMAIN tt : tt[i] \in Int

\* A timetable with events, none of them before some time, has an earliest one.
LEMMA ImminentExists ==
    ASSUME NEW tt, Timed(tt), NEW u \in Int, NoneBefore(tt, u), DOMAIN tt # {}
    PROVE  Imminent(tt) # {}
<1> DEFINE f == [i \in DOMAIN tt |-> tt[i] - u]
<1>1. f \in [DOMAIN tt -> Nat]
  BY DEF Timed, NoneBefore
<1>2. PICK i \in DOMAIN tt : \A j \in DOMAIN tt : f[i] <= f[j]
  <2> HIDE DEF f
  <2> QED  BY <1>1, LeastValue
<1>3. \A j \in DOMAIN tt : tt[i] <= tt[j]
  BY <1>2 DEF Timed
<1>4. QED
  BY <1>3 DEF Imminent

\* There is one earliest time, and it is before no event.
LEMMA EarliestTime ==
    ASSUME NEW tt, Timed(tt), NEW u \in Earliest(tt)
    PROVE  /\ u \in Int /\ Earliest(tt) = {u}
           /\ \A i \in DOMAIN tt : u <= tt[i]
           /\ \E i \in DOMAIN tt : tt[i] = u
<1>1. PICK i \in Imminent(tt) : i \in DOMAIN tt /\ tt[i] = u
  BY DEF Earliest, TimesOf
<1>2. \A j \in DOMAIN tt : u <= tt[j]
  BY <1>1 DEF Imminent
<1>3. \A j \in Imminent(tt) \cap DOMAIN tt : tt[j] = u
  BY <1>1, <1>2 DEF Imminent, Timed
<1>4. Earliest(tt) = {u}
  BY <1>1, <1>3 DEF Earliest, TimesOf
<1>5. QED
  BY <1>1, <1>2, <1>4 DEF Timed

\* The earliest time is in the table if any is.
LEMMA EarliestExists ==
    ASSUME NEW tt, Timed(tt), NEW u \in Int, NoneBefore(tt, u)
    PROVE  Earliest(tt) = {} <=> DOMAIN tt = {}
<1>1. Imminent(tt) \subseteq DOMAIN tt
  BY DEF Imminent
<1>2. QED
  BY <1>1, ImminentExists DEF Earliest, TimesOf

-----------------------------------------------------------------------------
(* The invariant of a collection                                           *)

\* What the maps hold: indices that have been used, of agents that have been
\* finalized once if they are removed and not at all if they exist.
Maps ==
    /\ Registered
    /\ \A i \in DOMAIN agent_ids \cup DOMAIN ended : i < next_node_index
    /\ DOMAIN ended \subseteq Indices
    /\ Live \cup removed_indices \subseteq DOMAIN ended
    /\ \A i \in DOMAIN ended : ended[i] = IF i \in Live THEN 0 ELSE 1

\* The order in which the parent calls the handlers.
Course ==
    /\ handler # "none" => stage = "running"
    /\ handler # "micro" => messages = 0
    /\ stage = "new" => DOMAIN queue = {}
    /\ stage = "finalized" => Live = {}
    /\ called <= now
    /\ NoInternalError

\* What the queue holds: while the node's own planned event is handled, user
\* code may change it, but the event stays imminent.
Schedule ==
    /\ NoneBefore(queue, now)
    /\ handler = "planned" => macro_event_id \in DOMAIN queue /\ queue[macro_event_id] = now
    /\ PlanInSync

IInv == CollectionTypeOK /\ Maps /\ Course /\ Schedule

LEMMA InitInv == CollectionInit => IInv
  <1>. SUFFICES ASSUME CollectionInit PROVE IInv  OBVIOUS
  <1>1. Live = {} /\ DOMAIN EmptyTimetable = {}  BY DEF CollectionInit, Live, EmptyTimetable
  <1>2. inputs_assigned \in BOOLEAN  BY DEF CollectionInit
  <1>3. ended = [i \in DOMAIN ended |-> 0]  BY DEF CollectionInit, EmptyTimetable
  <1>4. CollectionTypeOK
    BY <1>1, <1>2, <1>3, PeriodAssumption, ChoiceAssumption DEF CollectionInit, CollectionTypeOK, NoAgent
  <1>5. Maps  BY <1>1 DEF CollectionInit, Maps, Registered
  <1>6. Course  BY <1>1, PeriodAssumption DEF CollectionInit, Course, NoInternalError
  <1>7. Schedule  BY <1>1 DEF CollectionInit, Schedule, PlanInSync, NoneBefore
  <1>. QED  BY <1>4, <1>5, <1>6, <1>7 DEF IInv

\* Every index is before that of the node's own event.
LEMMA IndexFacts ==
    /\ Indices \subseteq Nat /\ macro_event_id \in Nat /\ macro_event_id \notin Indices
    /\ NoAgent \notin Indices
    /\ \A i \in Indices : i < macro_event_id
  BY ChoiceAssumption DEF Indices, macro_event_id, NoAgent

-----------------------------------------------------------------------------
(* Queues                                                                  *)

\* An event's outcome for the queue, for any duration.
Rescheduled(i) ==
    \/ \E dt \in Nat : queue' = WithEvent(queue, i, now + dt)
    \/ queue' = WithoutEvents(queue, {i})

\* After an event at any index no event is before now.
LEMMA RescheduledQueue ==
    ASSUME IInv, NEW i \in Indices \cup {macro_event_id}, Rescheduled(i)
    PROVE  /\ DOMAIN queue' \subseteq DOMAIN queue \cup {i}
           /\ \A j \in DOMAIN queue' : queue'[j] \in Int
           /\ NoneBefore(queue', now)
           /\ handler = "planned" /\ i \in Indices => macro_event_id \in DOMAIN queue' /\ queue'[macro_event_id] = now
  <1>. USE DEF IInv, CollectionTypeOK, Schedule, NoneBefore
  <1>1. now \in Int  BY PeriodAssumption
  <1>2. CASE \E dt \in Nat : queue' = WithEvent(queue, i, now + dt)
    <2>1. PICK dt \in Nat : queue' = WithEvent(queue, i, now + dt)  BY <1>2
    <2>. QED  BY <1>1, <2>1, IndexFacts DEF WithEvent
  <1>3. CASE queue' = WithoutEvents(queue, {i})
    BY <1>3, IndexFacts DEF WithoutEvents
  <1>. QED  BY <1>2, <1>3 DEF Rescheduled

LEMMA ReplannedQueue ==
    ASSUME IInv, NEW i \in Indices \cup {macro_event_id}, Replanned(i)
    PROVE  /\ DOMAIN queue' \subseteq DOMAIN queue \cup {i}
           /\ \A j \in DOMAIN queue' : queue'[j] \in Int
           /\ NoneBefore(queue', now)
           /\ handler = "planned" /\ i \in Indices => macro_event_id \in DOMAIN queue' /\ queue'[macro_event_id] = now
  <1>1. Rescheduled(i)  BY ChoiceAssumption DEF Replanned, Rescheduled
  <1>. QED  BY <1>1, RescheduledQueue

\* What the parent is answered.
LEMMA AnswersPlan ==
    ASSUME Answers, Timed(queue')
    PROVE  plan' = Earliest(queue') /\ plan' \subseteq Int
  <1>1. plan' = Earliest(queue')  BY DEF Answers
  <1>. QED  BY <1>1 DEF Earliest, TimesOf, Imminent, Timed

\* The imminent id is that of an event.
LEMMA ImminentId ==
    ASSUME IInv, Earliest(queue) # {}
    PROVE  imminent_id \in Imminent(queue) /\ imminent_id \in DOMAIN queue
  <1>1. Imminent(queue) # {} /\ Imminent(queue) \subseteq DOMAIN queue
    BY DEF Earliest, TimesOf, Imminent
  <1>2. DOMAIN queue \subseteq Nat  BY IndexFacts DEF IInv, CollectionTypeOK
  <1>3. \E i \in Imminent(queue) : \A j \in Imminent(queue) : i <= j
    BY <1>1, <1>2, LeastNatural
  <1>. QED  BY <1>1, <1>3 DEF imminent_id

-----------------------------------------------------------------------------
(* Steps of user code                                                      *)

LEMMA FailsInv ==
    ASSUME IInv, Fails("misuse")
    PROVE  IInv'
  <1>. USE DEF Fails, agentVars, prototypeVars, handlerVars, parentVars
  <1>1. CollectionTypeOK'  BY DEF IInv, CollectionTypeOK, Live
  <1>2. Maps'  BY DEF IInv, Maps, Registered, Live
  <1>3. Course' /\ Schedule'
    BY DEF IInv, Course, Schedule, NoInternalError, PlanInSync, Live
  <1>. QED  BY <1>1, <1>2, <1>3 DEF IInv

LEMMA PrototypeInv ==
    ASSUME IInv, assign_flow_inputs \/ access_message_input \/ assign_message_input
    PROVE  IInv'
  <1>1. CASE Fails("misuse")  BY <1>1, FailsInv
  <1>2. CASE UNCHANGED <<agentVars, handlerVars, parentVars, failure>>
    <2>. USE <1>2 DEF agentVars, handlerVars, parentVars
    <2>0. inputs_assigned' \in BOOLEAN /\ message_input' \in {"none", "accessed", "assigned"}
      <3>1. CASE assign_flow_inputs  BY <3>1 DEF IInv, CollectionTypeOK, assign_flow_inputs
      <3>2. CASE access_message_input
        BY <3>2 DEF IInv, CollectionTypeOK, access_message_input, Fails, prototypeVars
      <3>3. CASE assign_message_input  BY <3>3 DEF IInv, CollectionTypeOK, assign_message_input
      <3>. QED  BY <3>1, <3>2, <3>3
    <2>1. CollectionTypeOK'  BY <2>0 DEF IInv, CollectionTypeOK, Live
    <2>2. Maps'  BY DEF IInv, Maps, Registered, Live
    <2>3. Course' /\ Schedule'
      BY DEF IInv, Course, Schedule, NoInternalError, PlanInSync, Live
    <2>. QED  BY <2>1, <2>2, <2>3 DEF IInv
  <1>. QED
    BY <1>1, <1>2 DEF assign_flow_inputs, access_message_input, assign_message_input

LEMMA CreateInv ==
    ASSUME IInv, NEW id \in AgentIDs, create_agent(id)
    PROVE  IInv'
  <1>1. CASE Fails("misuse")  BY <1>1, FailsInv
  <1>2. CASE ~Fails("misuse")
    <2>. DEFINE i == next_node_index
    <2>1. /\ handler # "none" /\ prototype_dmode = "message" /\ id \notin DOMAIN agent_indices
          /\ i < MaxAgents
          /\ agent_indices' = WithEvent(agent_indices, id, i)
          /\ agent_ids' = WithEvent(agent_ids, i, id)
          /\ Replanned(i) /\ cache' = WithEvent(cache, i, now)
          /\ seen' = WithEvent(seen, i, now) /\ ended' = WithEvent(ended, i, 0)
          /\ next_node_index' = i + 1
          /\ UNCHANGED <<removed_indices, prototypeVars, handlerVars, parentVars, failure>>
      BY <1>2 DEF create_agent, Retained
    <2>2. i \in Indices /\ i \notin DOMAIN agent_ids /\ i \notin DOMAIN ended
      BY <2>1, ChoiceAssumption DEF IInv, CollectionTypeOK, Maps, Indices
    <2>. HIDE DEF i
    <2>3. Live' = Live \cup {i}
      BY <2>1 DEF Live, WithEvent
    <2>4. /\ DOMAIN queue' \subseteq DOMAIN queue \cup {i}
          /\ \A j \in DOMAIN queue' : queue'[j] \in Int
          /\ NoneBefore(queue', now)
          /\ handler = "planned" => macro_event_id \in DOMAIN queue' /\ queue'[macro_event_id] = now
      BY <2>1, <2>2, ReplannedQueue
    <2>. USE DEF WithEvent, prototypeVars, handlerVars, parentVars
    <2>5. CollectionTypeOK'
      BY <2>1, <2>2, <2>3, <2>4, ChoiceAssumption DEF IInv, CollectionTypeOK, Indices, i
    <2>6. Maps'
      <3>1. Registered'
        BY <2>1, <2>2, <2>3, <2>4, IndexFacts DEF IInv, Maps, Registered, CollectionTypeOK
      <3>2. /\ \A j \in DOMAIN agent_ids' \cup DOMAIN ended' : j < next_node_index'
            /\ DOMAIN ended' \subseteq Indices
        BY <2>1, <2>2 DEF IInv, Maps, CollectionTypeOK, Indices, i
      <3>3. /\ Live' \cup removed_indices' \subseteq DOMAIN ended'
            /\ \A j \in DOMAIN ended' : ended'[j] = IF j \in Live' THEN 0 ELSE 1
        BY <2>1, <2>2, <2>3 DEF IInv, Maps
      <3>. QED  BY <3>1, <3>2, <3>3 DEF Maps
    <2>7. Course'
      BY <2>1 DEF IInv, Course, NoInternalError
    <2>8. Schedule'
      BY <2>1, <2>4 DEF Schedule, PlanInSync
    <2>. QED  BY <2>5, <2>6, <2>7, <2>8 DEF IInv
  <1>. QED  BY <1>1, <1>2

LEMMA AffectInv ==
    ASSUME IInv, NEW id \in AgentIDs, affect_agent(id)
    PROVE  IInv'
  <1>1. CASE Fails("misuse")  BY <1>1, FailsInv
  <1>2. CASE ~Fails("misuse")
    <2>. DEFINE i == agent_indices[id]
    <2>1. /\ handler # "none" /\ id \in DOMAIN agent_indices
          /\ Replanned(i) /\ cache' = WithEvent(cache, i, now) /\ seen' = Told(i)
          /\ message_input' = "none"
          /\ UNCHANGED <<agent_indices, agent_ids, removed_indices, next_node_index, ended,
                         inputs_assigned, handlerVars, parentVars, failure>>
      BY <1>2 DEF affect_agent, Retained
    <2>2. i \in Live /\ i \in Indices /\ i \in DOMAIN agent_ids /\ i \in DOMAIN cache
      BY <2>1 DEF IInv, CollectionTypeOK, Maps, Registered, Live
    <2>. HIDE DEF i
    <2>3. /\ DOMAIN queue' \subseteq DOMAIN queue \cup {i}
          /\ \A j \in DOMAIN queue' : queue'[j] \in Int
          /\ NoneBefore(queue', now)
          /\ handler = "planned" => macro_event_id \in DOMAIN queue' /\ queue'[macro_event_id] = now
      BY <2>1, <2>2, ReplannedQueue
    <2>. USE DEF WithEvent, handlerVars, parentVars
    <2>4. Live' = Live  BY <2>1 DEF Live
    <2>5. CollectionTypeOK'
      BY <2>1, <2>2, <2>3, <2>4, PeriodAssumption DEF IInv, CollectionTypeOK, Told
    <2>6. Maps'
      BY <2>1, <2>2, <2>3, <2>4, IndexFacts DEF IInv, Maps, Registered
    <2>7. Course'
      BY <2>1, <2>4 DEF IInv, Course, NoInternalError
    <2>8. Schedule'
      BY <2>1, <2>3 DEF Schedule, PlanInSync
    <2>. QED  BY <2>5, <2>6, <2>7, <2>8 DEF IInv
  <1>. QED  BY <1>1, <1>2

LEMMA RemoveInv ==
    ASSUME IInv, NEW id \in AgentIDs, remove_agent(id)
    PROVE  IInv'
  <1>1. CASE Fails("misuse")  BY <1>1, FailsInv
  <1>2. CASE ~Fails("misuse")
    <2>. DEFINE i == agent_indices[id]
    <2>1. /\ handler # "none" /\ id \in DOMAIN agent_indices
          /\ agent_indices' = WithoutEvents(agent_indices, {id})
          /\ removed_indices' = removed_indices \cup {i}
          /\ queue' = WithoutEvents(queue, {i}) /\ cache' = WithoutEvents(cache, {i})
          /\ seen' = Told(i) /\ ended' = [ended EXCEPT ![i] = @ + 1]
          /\ UNCHANGED <<agent_ids, next_node_index, prototypeVars, handlerVars, parentVars, failure>>
      BY <1>2 DEF remove_agent, Kept, Released
    <2>2. /\ i \in Live /\ i \in Indices /\ i \in DOMAIN agent_ids /\ i \in DOMAIN cache
          /\ i \in DOMAIN ended /\ ended[i] = 0 /\ i \notin removed_indices
      BY <2>1 DEF IInv, CollectionTypeOK, Maps, Registered, Live
    <2>3. Live' = Live \ {i}
      BY <2>1 DEF IInv, Maps, Registered, Live, WithoutEvents
    <2>. HIDE DEF i
    <2>. USE DEF WithoutEvents, prototypeVars, handlerVars, parentVars
    <2>4. CollectionTypeOK'
      BY <2>1, <2>2, <2>3, PeriodAssumption DEF IInv, CollectionTypeOK, Told
    <2>5. Maps'
      <3>1. Registered'
        BY <2>1, <2>2, <2>3, IndexFacts DEF IInv, Maps, Registered
      <3>2. /\ \A j \in DOMAIN agent_ids' \cup DOMAIN ended' : j < next_node_index'
            /\ DOMAIN ended' \subseteq Indices
            /\ Live' \cup removed_indices' \subseteq DOMAIN ended'
            /\ \A j \in DOMAIN ended' : ended'[j] = IF j \in Live' THEN 0 ELSE 1
        BY <2>1, <2>2, <2>3 DEF IInv, Maps
      <3>. QED  BY <3>1, <3>2 DEF Maps
    <2>6. Course'
      BY <2>1, <2>3 DEF IInv, Course, NoInternalError
    <2>7. Schedule'
      BY <2>1, <2>2, IndexFacts DEF IInv, Schedule, PlanInSync, NoneBefore
    <2>. QED  BY <2>4, <2>5, <2>6, <2>7 DEF IInv
  <1>. QED  BY <1>1, <1>2

LEMMA InvokeInv ==
    ASSUME IInv, invoke_agent
    PROVE  IInv'
  <1>1. CASE Fails("misuse")  BY <1>1, FailsInv
  <1>2. CASE ~Fails("misuse")
    <2>1. /\ next_node_index < MaxAgents /\ next_node_index' = next_node_index + 1
          /\ UNCHANGED <<queue, cache, agent_indices, agent_ids, removed_indices, seen, ended,
                         prototypeVars, handlerVars, parentVars, failure>>
      BY <1>2 DEF invoke_agent
    <2>. USE <2>1 DEF prototypeVars, handlerVars, parentVars
    <2>2. Live' = Live  BY DEF Live
    <2>3. CollectionTypeOK'  BY <2>2, ChoiceAssumption DEF IInv, CollectionTypeOK
    <2>4. Maps'  BY <2>2 DEF IInv, Maps, Registered, CollectionTypeOK, Indices
    <2>5. Course' /\ Schedule'
      BY <2>2 DEF IInv, Course, Schedule, NoInternalError, PlanInSync
    <2>. QED  BY <2>3, <2>4, <2>5 DEF IInv
  <1>. QED  BY <1>1, <1>2

-----------------------------------------------------------------------------
(* Steps of the handlers                                                   *)

\* The parent calls a handler: the errors in the code itself do not occur.
LEMMA StartsInv ==
    ASSUME IInv,
           \/ handle_initialization_event \/ handle_unplanned_event \/ handle_finalization_event
           \/ /\ stage = "running" /\ handler = "none"
              /\ macro_event_id \in DOMAIN queue /\ queue[macro_event_id] = now
              /\ Starts("planned", now - called)
    PROVE  IInv'
  <1>1. NoneBefore(queue, now)  BY DEF IInv, Schedule
  <1>2. now - called \in Nat
    BY PeriodAssumption DEF IInv, CollectionTypeOK, Course
  <1>3. /\ handler = "none"
        /\ handler' \in {"initialization", "unplanned", "planned", "finalization"}
        /\ handler' = "planned" => macro_event_id \in DOMAIN queue /\ queue[macro_event_id] = now
        /\ elapsed' \in Nat /\ stage' = "running"
        /\ UNCHANGED <<agentVars, prototypeVars, sender, messages, now, prototype_dmode, plan, called, failure>>
    BY <1>1, <1>2
    DEF handle_initialization_event, handle_unplanned_event, handle_finalization_event,
        Starts, parentVars
  <1>. USE <1>3 DEF agentVars, prototypeVars
  <1>4. Live' = Live  BY DEF Live
  <1>5. CollectionTypeOK'  BY <1>4 DEF IInv, CollectionTypeOK
  <1>6. Maps'  BY <1>4 DEF IInv, Maps, Registered
  <1>7. Course' /\ Schedule'
    BY <1>1, <1>4 DEF IInv, Course, Schedule, NoInternalError, PlanInSync, NoneBefore
  <1>. QED  BY <1>5, <1>6, <1>7 DEF IInv

\* The planned event of an agent.
LEMMA AgentEventInv ==
    ASSUME IInv, stage = "running", handler = "none",
           NEW i \in DOMAIN agent_ids, PlannedEventOfAgent(i)
    PROVE  IInv'
  <1>1. /\ Replanned(i) /\ cache' = WithEvent(cache, i, now) /\ seen' = Told(i)
        /\ UNCHANGED <<agent_indices, agent_ids, removed_indices, next_node_index, ended,
                       prototypeVars, now, prototype_dmode, stage, failure>>
    BY DEF PlannedEventOfAgent, Retained
  <1>2. /\ i \in Indices /\ removed_indices = {} /\ i \in Live /\ i \in DOMAIN cache
    BY DEF IInv, CollectionTypeOK, Maps, Registered
  <1>3. /\ DOMAIN queue' \subseteq DOMAIN queue \cup {i}
        /\ \A j \in DOMAIN queue' : queue'[j] \in Int
        /\ NoneBefore(queue', now)
    BY <1>1, <1>2, ReplannedQueue
  <1>4. now - called \in Nat
    BY PeriodAssumption DEF IInv, CollectionTypeOK, Course
  <1>5. /\ handler' \in {"micro", "none"} /\ elapsed' \in Nat
        /\ sender' \in {i, NoAgent} /\ messages' \in 0 .. MaxMessages
        /\ handler' = "micro" => sender' = i
        /\ handler' = "none" => messages' = 0
        /\ plan' \subseteq Int /\ called' \in {called, now}
        /\ handler' = "none" => plan' = Earliest(queue')
    <2>1. PICK n \in 0 .. MaxMessages :
              \/ /\ n > 0
                 /\ handler' = "micro" /\ elapsed' = now - called /\ sender' = i /\ messages' = n
                 /\ UNCHANGED <<plan, called>>
              \/ n = 0 /\ Answers
      BY DEF PlannedEventOfAgent
    <2>2. CASE n > 0 /\ ~Answers
      BY <1>4, <2>1, <2>2 DEF IInv, CollectionTypeOK
    <2>3. CASE Answers
      <3>1. plan' = Earliest(queue') /\ plan' \subseteq Int
        BY <1>3, <2>3, AnswersPlan DEF Timed
      <3>. QED  BY <2>3, <3>1, ChoiceAssumption DEF Answers
    <2>. QED  BY <2>1, <2>2, <2>3
  <1>. USE <1>5 DEF WithEvent, prototypeVars
  <1>6. Live' = Live  BY <1>1 DEF Live
  <1>7. CollectionTypeOK'
    BY <1>1, <1>2, <1>3, <1>6, PeriodAssumption DEF IInv, CollectionTypeOK, Told
  <1>8. Maps'
    BY <1>1, <1>2, <1>3, <1>6, IndexFacts DEF IInv, Maps, Registered
  <1>9. Course' /\ Schedule'
    BY <1>1, <1>3, <1>6, PeriodAssumption DEF IInv, CollectionTypeOK, Course, Schedule, NoInternalError, PlanInSync
  <1>. QED  BY <1>7, <1>8, <1>9 DEF IInv

\* What the parent has planned is the imminent event, whose agent exists.
LEMMA PlannedInv ==
    ASSUME IInv, handle_planned_event
    PROVE  IInv'
  <1>1. stage = "running" /\ handler = "none" /\ plan = {now}
    BY DEF handle_planned_event
  <1>2. Earliest(queue) = {now} /\ now \in Int
    BY <1>1, PeriodAssumption DEF IInv, CollectionTypeOK, Schedule, PlanInSync
  <1>3. imminent_id \in Imminent(queue) /\ imminent_id \in DOMAIN queue
    BY <1>2, ImminentId
  <1>4. queue[imminent_id] = now
    BY <1>2, <1>3 DEF Earliest, TimesOf
  <1>5. imminent_id \in DOMAIN agent_ids \cup {macro_event_id}
    BY <1>3 DEF IInv, Maps, Registered
  <1>6. CASE imminent_id # macro_event_id /\ PlannedEventOfAgent(imminent_id)
    BY <1>1, <1>5, <1>6, AgentEventInv
  <1>7. CASE imminent_id = macro_event_id /\ Starts("planned", now - called)
    BY <1>1, <1>3, <1>4, <1>7, StartsInv
  <1>. QED  BY <1>2, <1>5, <1>6, <1>7 DEF handle_planned_event

\* What user code may return.
Plans == {{}} \cup {{dt} : dt \in Nat}

\* User code returns to the node.
LEMMA ReturnsInv ==
    ASSUME IInv, NEW dts \in Plans, HandlerReturns(dts)
    PROVE  IInv'
  <1>1. handler \in {"initialization", "unplanned", "planned", "micro"} /\ stage = "running"
    BY DEF HandlerReturns, IInv, Course
  <1>2. handler = "planned" => macro_event_id \in Imminent(queue)
    BY DEF IInv, Schedule, NoneBefore, Imminent
  <1>3. queue' = IF dts = {} THEN WithoutEvents(queue, {macro_event_id})
                 ELSE WithEvent(queue, macro_event_id, now + CHOOSE dt \in dts : TRUE)
    BY <1>2 DEF HandlerReturns
  <1>4. /\ cache' = WithEvent(cache, macro_event_id, now)
        /\ inputs_assigned' = FALSE /\ message_input' = "none"
        /\ UNCHANGED <<agent_indices, next_node_index, ended, now, prototype_dmode, stage, failure>>
    BY <1>2 DEF HandlerReturns, Retained
  <1>5. Rescheduled(macro_event_id)
    <2>1. CASE dts = {}  BY <1>3, <2>1 DEF Rescheduled
    <2>2. CASE dts # {}
      <3>1. PICK d \in Nat : dts = {d}  BY <2>2 DEF Plans
      <3>2. (CHOOSE dt \in dts : TRUE) = d  BY <3>1
      <3>. QED  BY <1>3, <2>2, <3>1, <3>2 DEF Rescheduled
    <2>. QED  BY <2>1, <2>2
  <1>6. /\ DOMAIN queue' \subseteq DOMAIN queue \cup {macro_event_id}
        /\ \A j \in DOMAIN queue' : queue'[j] \in Int
        /\ NoneBefore(queue', now)
    BY <1>5, RescheduledQueue
  <1>7. Live' = Live  BY <1>4 DEF Live
  <1>8. CASE messages > 1 /\ UNCHANGED <<agent_ids, removed_indices, seen, handler, sender, plan, called>>
             /\ messages' = messages - 1 /\ elapsed' = 0
    <2>1. handler = "micro" /\ messages' \in 0 .. MaxMessages
      BY <1>8, ChoiceAssumption DEF IInv, CollectionTypeOK, Course
    <2>. USE <1>4, <1>8, <2>1 DEF WithEvent
    <2>2. CollectionTypeOK'  BY <1>6, <1>7, PeriodAssumption DEF IInv, CollectionTypeOK
    <2>3. Maps'  BY <1>6, <1>7, IndexFacts DEF IInv, Maps, Registered, CollectionTypeOK
    <2>4. Course' /\ Schedule'
      BY <1>6, <1>7 DEF IInv, Course, Schedule, NoInternalError, PlanInSync
    <2>. QED  BY <2>2, <2>3, <2>4 DEF IInv
  <1>9. CASE messages <= 1 /\ Answers /\ erase_removed_agents
    <2>1. plan' = Earliest(queue') /\ plan' \subseteq Int
      BY <1>6, <1>9, AnswersPlan DEF Timed
    <2>2. /\ agent_ids' = WithoutEvents(agent_ids, removed_indices)
          /\ removed_indices' = {} /\ seen' = WithoutEvents(seen, removed_indices)
          /\ handler' = "none" /\ sender' = NoAgent /\ messages' = 0 /\ elapsed' = 0
          /\ called' = now
      BY <1>9 DEF Answers, erase_removed_agents
    <2>. USE <1>1, <1>4, <2>1, <2>2 DEF WithEvent, WithoutEvents
    <2>3. CollectionTypeOK'
      <3>1. inputs_assigned' \in BOOLEAN  OBVIOUS
      <3>2. DOMAIN seen' = DOMAIN agent_ids' /\ \A i \in DOMAIN seen' : seen'[i] \in Int
        BY DEF IInv, CollectionTypeOK
      <3>3. DOMAIN agent_ids' \subseteq Indices /\ \A i \in DOMAIN agent_ids' : agent_ids'[i] \in AgentIDs
        BY DEF IInv, CollectionTypeOK
      <3>4. DOMAIN cache' \subseteq Indices \cup {macro_event_id} /\ \A i \in DOMAIN cache' : cache'[i] \in Start .. End
        BY DEF IInv, CollectionTypeOK
      <3>. QED
        BY <1>6, <1>7, <3>1, <3>2, <3>3, <3>4, PeriodAssumption, ChoiceAssumption DEF IInv, CollectionTypeOK
    <2>4. Maps'
      <3>1. DOMAIN agent_ids' = Live' /\ removed_indices' = {}
        BY <1>7 DEF IInv, Maps, Registered
      <3>2. \A id \in DOMAIN agent_indices' :
                agent_indices'[id] \in DOMAIN agent_ids' /\ agent_ids'[agent_indices'[id]] = id
        BY <1>7 DEF IInv, Maps, Registered, Live
      <3>3. DOMAIN queue' \ {macro_event_id} \subseteq Live' /\ DOMAIN cache' \ {macro_event_id} = Live'
        BY <1>6, <1>7, IndexFacts DEF IInv, Maps, Registered, CollectionTypeOK
      <3>4. Registered'  BY <3>1, <3>2, <3>3 DEF Registered
      <3>. QED  BY <1>7, <3>1, <3>4 DEF IInv, Maps
    <2>5. Course' /\ Schedule'
      BY <1>6, <1>7, PeriodAssumption DEF IInv, CollectionTypeOK, Course, Schedule, NoInternalError, PlanInSync
    <2>. QED  BY <2>3, <2>4, <2>5 DEF IInv
  <1>. QED  BY <1>2, <1>8, <1>9 DEF HandlerReturns

\* The node is finalized, and all agents with it.
LEMMA FinalizationInv ==
    ASSUME IInv, FinalizationReturns
    PROVE  IInv'
  <1>1. /\ agent_indices' = WithoutEvents(agent_indices, {id \in DOMAIN agent_indices : agent_indices[id] \in Live})
        /\ agent_ids' = WithoutEvents(agent_ids, Live \cup removed_indices)
        /\ queue' = WithoutEvents(queue, Live) /\ cache' = WithoutEvents(cache, Live)
        /\ seen' = WithoutEvents(seen, Live \cup removed_indices)
        /\ ended' = [i \in DOMAIN ended |-> IF i \in Live THEN ended[i] + 1 ELSE ended[i]]
        /\ removed_indices' = {} /\ stage' = "finalized" /\ plan' = {} /\ called' = now
        /\ handler' = "none" /\ sender' = NoAgent /\ messages' = 0 /\ elapsed' = 0
        /\ UNCHANGED <<next_node_index, prototypeVars, now, prototype_dmode, failure>>
    BY DEF FinalizationReturns, Finalized
  <1>2. DOMAIN agent_indices' = {} /\ Live' = {}
    BY <1>1 DEF Live, WithoutEvents
  <1>. USE <1>1, <1>2 DEF WithoutEvents, prototypeVars
  <1>3. CollectionTypeOK'  BY ChoiceAssumption DEF IInv, CollectionTypeOK
  <1>4. Maps'
    <2>1. Registered'  BY DEF IInv, Maps, Registered
    <2>2. \A i \in DOMAIN agent_ids' \cup DOMAIN ended' : i < next_node_index'
      BY DEF IInv, Maps
    <2>3. \A i \in DOMAIN ended' : ended'[i] = IF i \in Live' THEN 0 ELSE 1
      BY DEF IInv, Maps
    <2>. QED  BY <2>1, <2>2, <2>3 DEF IInv, Maps
  <1>5. Course' /\ Schedule'
    BY PeriodAssumption DEF IInv, CollectionTypeOK, Course, Schedule, NoInternalError, PlanInSync, NoneBefore
  <1>. QED  BY <1>3, <1>4, <1>5 DEF IInv

\* Time does not pass an event: the parent has planned the earliest one.
LEMMA PassInv ==
    ASSUME IInv, NEW t \in Start .. End, Pass(t)
    PROVE  IInv'
  <1>1. /\ stage = "running" /\ handler = "none" /\ now < t /\ now' = t
        /\ UNCHANGED <<agentVars, prototypeVars, handlerVars, prototype_dmode, stage, plan, called, failure>>
    BY DEF Pass
  <1>2. plan = Earliest(queue) /\ NoneBefore(queue, now) /\ Timed(queue) /\ now \in Int
    BY <1>1, PeriodAssumption DEF IInv, CollectionTypeOK, Schedule, PlanInSync, Timed
  <1>3. NoneBefore(queue, t)
    <2>1. CASE plan = {}
      <3>1. DOMAIN queue = {}  BY <1>2, <2>1, EarliestExists
      <3>. QED  BY <3>1 DEF NoneBefore
    <2>2. CASE plan # {}
      <3>1. PICK p \in plan : TRUE  BY <2>2
      <3>2. p \in Int /\ \A i \in DOMAIN queue : p <= queue[i]
        BY <1>2, <3>1, EarliestTime
      <3>3. t <= p /\ t \in Int  BY <3>1, PeriodAssumption DEF Pass
      <3>. QED  BY <1>2, <3>2, <3>3 DEF NoneBefore, Timed
    <2>. QED  BY <2>1, <2>2
  <1>. USE <1>1 DEF agentVars, prototypeVars, handlerVars
  <1>4. Live' = Live  BY DEF Live
  <1>5. CollectionTypeOK'  BY <1>4 DEF IInv, CollectionTypeOK
  <1>6. Maps'  BY <1>4 DEF IInv, Maps, Registered
  <1>7. Course' /\ Schedule'
    BY <1>2, <1>3, <1>4, PeriodAssumption
    DEF IInv, CollectionTypeOK, Course, Schedule, NoInternalError, PlanInSync, NoneBefore
  <1>. QED  BY <1>5, <1>6, <1>7 DEF IInv

LEMMA InvStep == IInv /\ [CollectionNext]_collectionVars => IInv'
  <1>. SUFFICES ASSUME IInv, [CollectionNext]_collectionVars PROVE IInv'  OBVIOUS
  <1>1. ASSUME CollectionNext PROVE IInv'
    <2>1. CASE handle_initialization_event \/ handle_unplanned_event \/ handle_finalization_event
      BY <2>1, StartsInv
    <2>2. CASE handle_planned_event  BY <2>2, PlannedInv
    <2>3. CASE UserCode
      BY <2>3, PrototypeInv, CreateInv, AffectInv, RemoveInv, InvokeInv DEF UserCode
    <2>4. CASE \E dts \in Plans : HandlerReturns(dts)  BY <2>4, ReturnsInv
    <2>5. CASE FinalizationReturns  BY <2>5, FinalizationInv
    <2>6. CASE \E t \in Start .. End : Pass(t)  BY <2>6, PassInv
    <2>7. {{}} \cup {{dt} : dt \in Durations} \subseteq Plans  BY ChoiceAssumption DEF Plans
    <2>. QED  BY <1>1, <2>1, <2>2, <2>3, <2>4, <2>5, <2>6, <2>7 DEF CollectionNext
  <1>2. ASSUME UNCHANGED collectionVars PROVE IInv'
    <2>. USE <1>2 DEF collectionVars, agentVars, prototypeVars, handlerVars, parentVars
    <2>1. Live' = Live  BY DEF Live
    <2>2. CollectionTypeOK'  BY <2>1 DEF IInv, CollectionTypeOK
    <2>3. Maps'  BY <2>1 DEF IInv, Maps, Registered
    <2>4. Course' /\ Schedule'
      BY <2>1 DEF IInv, Course, Schedule, NoInternalError, PlanInSync, NoneBefore
    <2>. QED  BY <2>2, <2>3, <2>4 DEF IInv
  <1>. QED  BY <1>1, <1>2

-----------------------------------------------------------------------------
(* What agents know of the time                                            *)

\* What an agent that exists has been told adds up to the time of its last
\* event: the elapsed duration it is told next is counted from there.
Known == \A i \in Live : i \in DOMAIN cache /\ seen[i] = cache[i]

\* An agent that is told something learns the time.
ToldNow == \A i \in DOMAIN seen \cap DOMAIN seen' : seen'[i] # seen[i] => seen'[i] = now

LEMMA InitKnown == CollectionInit => Known
  BY DEF CollectionInit, Known, Live, EmptyTimetable

\* An event of an agent that exists: it is told the time, and the time of
\* its last event is set to it.
LEMMA ToldKnown ==
    ASSUME IInv, Known, NEW i \in Live, seen' = Told(i), cache' = WithEvent(cache, i, now)
    PROVE  ToldNow /\ \A j \in Live : j \in DOMAIN cache' /\ seen'[j] = cache'[j]
  <1>1. /\ i \in DOMAIN cache /\ i \in DOMAIN seen /\ cache[i] \in Int /\ seen[i] = cache[i]
        /\ Live \subseteq DOMAIN seen /\ now \in Int
    BY PeriodAssumption DEF IInv, CollectionTypeOK, Maps, Registered, Known
  <1>2. seen' = [seen EXCEPT ![i] = now]
    <2>1. seen[i] + (now - cache[i]) = now  BY <1>1
    <2>. QED  BY <2>1 DEF Told
  <1>. QED  BY <1>1, <1>2 DEF Known, ToldNow, WithEvent

\* The steps of user code.
LEMMA UserKnown ==
    ASSUME IInv, Known, UserCode
    PROVE  Known' /\ ToldNow
  <1>0. ASSUME UNCHANGED agentVars PROVE Known' /\ ToldNow
    BY <1>0 DEF agentVars, Known, Live, ToldNow
  <1>1. CASE Fails("misuse")  BY <1>0, <1>1 DEF Fails
  <1>2. CASE assign_flow_inputs \/ assign_message_input \/ access_message_input
    BY <1>0, <1>2 DEF assign_flow_inputs, assign_message_input, access_message_input, Fails
  <1>3. ASSUME NEW id \in AgentIDs, create_agent(id), ~Fails("misuse") PROVE Known' /\ ToldNow
    <2>. DEFINE i == next_node_index
    <2>1. /\ agent_indices' = WithEvent(agent_indices, id, i) /\ id \notin DOMAIN agent_indices
          /\ cache' = WithEvent(cache, i, now) /\ seen' = WithEvent(seen, i, now)
      BY <1>3 DEF create_agent, Retained
    <2>2. i \notin DOMAIN seen /\ Live \subseteq DOMAIN seen
      BY DEF IInv, CollectionTypeOK, Maps, Registered
    <2>. HIDE DEF i
    <2>3. Live' = Live \cup {i}  BY <2>1 DEF Live, WithEvent
    <2>. QED  BY <2>1, <2>2, <2>3 DEF Known, ToldNow, WithEvent
  <1>4. ASSUME NEW id \in AgentIDs, affect_agent(id), ~Fails("misuse") PROVE Known' /\ ToldNow
    <2>1. /\ id \in DOMAIN agent_indices /\ agent_indices' = agent_indices
          /\ cache' = WithEvent(cache, agent_indices[id], now) /\ seen' = Told(agent_indices[id])
      BY <1>4 DEF affect_agent, Retained
    <2>2. agent_indices[id] \in Live /\ Live' = Live  BY <2>1 DEF Live
    <2>. QED  BY <2>1, <2>2, ToldKnown DEF Known
  <1>5. ASSUME NEW id \in AgentIDs, remove_agent(id), ~Fails("misuse") PROVE Known' /\ ToldNow
    <2>. DEFINE i == agent_indices[id]
    <2>1. /\ id \in DOMAIN agent_indices /\ agent_indices' = WithoutEvents(agent_indices, {id})
          /\ cache' = WithoutEvents(cache, {i}) /\ seen' = Told(i)
      BY <1>5 DEF remove_agent, Released
    <2>2. i \in Live /\ Live' = Live \ {i}
      BY <2>1 DEF IInv, Maps, Registered, Live, WithoutEvents
    <2>3. /\ i \in DOMAIN seen /\ cache[i] \in Int /\ seen[i] = cache[i] /\ now \in Int
          /\ Live \subseteq DOMAIN seen
      BY <2>2, PeriodAssumption DEF IInv, CollectionTypeOK, Maps, Registered, Known
    <2>. HIDE DEF i
    <2>4. seen' = [seen EXCEPT ![i] = now]
      <3>1. seen[i] + (now - cache[i]) = now  BY <2>3
      <3>. QED  BY <2>1, <3>1 DEF Told
    <2>. QED  BY <2>1, <2>2, <2>3, <2>4 DEF Known, ToldNow, WithoutEvents
  <1>6. ASSUME invoke_agent, ~Fails("misuse") PROVE Known' /\ ToldNow
    BY <1>6 DEF invoke_agent, Known, Live, ToldNow
  <1>. QED  BY <1>1, <1>2, <1>3, <1>4, <1>5, <1>6 DEF UserCode

\* The steps of the handlers.
LEMMA HandlersKnown ==
    ASSUME IInv, Known,
           \/ handle_initialization_event \/ handle_unplanned_event
           \/ handle_planned_event \/ handle_finalization_event
           \/ FinalizationReturns
           \/ \E t \in Start .. End : Pass(t)
    PROVE  Known' /\ ToldNow
  <1>0. ASSUME UNCHANGED agentVars PROVE Known' /\ ToldNow
    BY <1>0 DEF agentVars, Known, Live, ToldNow
  <1>1. CASE handle_initialization_event \/ handle_unplanned_event \/ handle_finalization_event
    BY <1>0, <1>1
    DEF handle_initialization_event, handle_unplanned_event, handle_finalization_event, Starts, Fails
  <1>2. CASE handle_planned_event
    <2>1. CASE imminent_id # macro_event_id /\ PlannedEventOfAgent(imminent_id)
               /\ imminent_id \in DOMAIN agent_ids
      <3>1. imminent_id \in Live /\ Live' = Live
        BY <1>2, <2>1 DEF handle_planned_event, PlannedEventOfAgent, IInv, Maps, Registered, Live
      <3>2. seen' = Told(imminent_id) /\ cache' = WithEvent(cache, imminent_id, now)
        BY <2>1 DEF PlannedEventOfAgent, Retained
      <3>. QED  BY <3>1, <3>2, ToldKnown DEF Known
    <2>2. CASE Starts("planned", now - called) \/ Fails("internal")
      BY <1>0, <2>2 DEF Starts, Fails
    <2>. QED  BY <1>2, <2>1, <2>2 DEF handle_planned_event
  <1>3. CASE FinalizationReturns
    <2>1. Live' = {} /\ ToldNow
      BY <1>3 DEF FinalizationReturns, Live, Finalized, WithoutEvents, ToldNow
    <2>. QED  BY <2>1 DEF Known
  <1>4. CASE \E t \in Start .. End : Pass(t)
    BY <1>0, <1>4 DEF Pass
  <1>. QED  BY <1>1, <1>2, <1>3, <1>4

\* User code returns to the node: no agent is told anything.
LEMMA ReturnsKnown ==
    ASSUME IInv, Known, NEW dts, HandlerReturns(dts)
    PROVE  Known' /\ ToldNow
  <1>1. CASE Fails("internal")
    BY <1>1 DEF Fails, agentVars, Known, Live, ToldNow
  <1>2. CASE ~Fails("internal")
    <2>1. /\ cache' = WithEvent(cache, macro_event_id, now) /\ agent_indices' = agent_indices
          /\ seen' = seen \/ seen' = WithoutEvents(seen, removed_indices)
      BY <1>2 DEF HandlerReturns, Retained, erase_removed_agents
    <2>2. /\ Live' = Live /\ macro_event_id \notin Live
          /\ Live \subseteq DOMAIN seen \ removed_indices
      BY <2>1, IndexFacts DEF IInv, CollectionTypeOK, Maps, Registered, Live
    <2>. QED  BY <2>1, <2>2 DEF Known, ToldNow, WithEvent, WithoutEvents
  <1>. QED  BY <1>1, <1>2

LEMMA KnownStep == IInv /\ Known /\ [CollectionNext]_collectionVars => Known' /\ [ToldNow]_collectionVars
  <1>. SUFFICES ASSUME IInv, Known, [CollectionNext]_collectionVars PROVE Known' /\ [ToldNow]_collectionVars  OBVIOUS
  <1>1. CASE CollectionNext
    BY <1>1, UserKnown, HandlersKnown, ReturnsKnown DEF CollectionNext
  <1>2. CASE UNCHANGED collectionVars
    BY <1>2 DEF collectionVars, agentVars, Known, Live
  <1>. QED  BY <1>1, <1>2

-----------------------------------------------------------------------------
(* The frames of an interactive system                                     *)

\* Between two calls: the next frame is planned for when it is due or later,
\* and what is left until the frame, counted from the last event of the node,
\* reaches that far.
AtRest ==
    stage = "running" /\ handler = "none" =>
        /\ macro_event_id \in DOMAIN queue
        /\ frame_due # NoFrame /\ frame_due <= queue[macro_event_id]
        /\ queue[macro_event_id] <= called + planned_dt_
        /\ ~silent => called + planned_dt_ = frame_due

\* While messages are handled: what will be left is not negative, and reaches
\* to when the frame is due.
InMicro ==
    handler = "micro" =>
        /\ elapsed <= planned_dt_
        /\ frame_due # NoFrame /\ frame_due <= now + (planned_dt_ - elapsed)
        /\ ~silent => now + (planned_dt_ - elapsed) = frame_due

FrameInv ==
    /\ planned_dt_ \in Int /\ frame_due \in Int /\ silent \in BOOLEAN
    /\ AtRest /\ InMicro

LEMMA InitFrame == InteractiveInit => IInv /\ FrameInv
  <1>1. InteractiveInit => IInv  BY InitInv DEF InteractiveInit
  <1>2. InteractiveInit => silent \in BOOLEAN  BY DEF InteractiveInit, FramesInit
  <1>. QED  BY <1>1, <1>2, PeriodAssumption DEF InteractiveInit, FramesInit, NoFrame, CollectionInit, FrameInv, AtRest, InMicro

\* The calls of the handlers: a message finds the frame as far away as it is.
LEMMA NodeEventFrame ==
    ASSUME IInv, FrameInv, NodeEvent
    PROVE  IInv' /\ FrameInv'
  <1>1. IInv'  BY StartsInv, PlannedInv DEF NodeEvent
  <1>2. /\ planned_dt_' = planned_dt_ /\ frame_due' = frame_due
        /\ silent' = (silent \/ (Earliest(queue) = {now} /\ imminent_id # macro_event_id /\ handler' = "none"))
    BY DEF NodeEvent
  <1>3. planned_dt_' \in Int /\ frame_due' \in Int /\ silent' \in BOOLEAN
    BY <1>2 DEF FrameInv
  <1>4. failure' # "internal"  BY <1>1 DEF IInv, Course, NoInternalError
  <1>5. CASE handle_initialization_event \/ handle_finalization_event
    <2>1. handler' \in {"initialization", "finalization"}
      BY <1>4, <1>5 DEF handle_initialization_event, handle_finalization_event, Starts, Fails
    <2>. QED  BY <1>1, <1>3, <2>1 DEF FrameInv, AtRest, InMicro
  <1>6. CASE handle_planned_event
    <2>1. /\ stage = "running" /\ handler = "none" /\ Earliest(queue) = {now}
          /\ \/ imminent_id # macro_event_id /\ PlannedEventOfAgent(imminent_id)
             \/ imminent_id = macro_event_id /\ Starts("planned", now - called)
      BY <1>4, <1>6 DEF handle_planned_event, Fails
    <2>2. /\ macro_event_id \in DOMAIN queue /\ queue[macro_event_id] \in Int
          /\ now <= queue[macro_event_id] /\ frame_due <= queue[macro_event_id]
          /\ frame_due # NoFrame
          /\ queue[macro_event_id] <= called + planned_dt_
          /\ ~silent => called + planned_dt_ = frame_due
          /\ now \in Int /\ called \in Int /\ called <= now
          /\ planned_dt_ \in Int /\ frame_due \in Int
      BY <2>1, PeriodAssumption DEF IInv, CollectionTypeOK, Course, Schedule, NoneBefore, FrameInv, AtRest
    <2>3. CASE imminent_id = macro_event_id /\ Starts("planned", now - called)
      BY <1>1, <1>3, <2>3 DEF Starts, FrameInv, AtRest, InMicro
    <2>4. CASE imminent_id # macro_event_id /\ PlannedEventOfAgent(imminent_id)
      <3>1. macro_event_id \in DOMAIN queue' /\ queue'[macro_event_id] = queue[macro_event_id]
        BY <2>2, <2>4 DEF PlannedEventOfAgent, Replanned, WithEvent, WithoutEvents
      <3>2. \/ handler' = "micro" /\ elapsed' = now - called
            \/ handler' = "none" /\ called' = now
        BY <2>4 DEF PlannedEventOfAgent, Answers
      <3>3. now' = now  BY <2>4 DEF PlannedEventOfAgent
      <3>4. CASE handler' = "micro" /\ elapsed' = now - called
        <4>1. elapsed' <= planned_dt_' /\ frame_due' <= now' + (planned_dt_' - elapsed')
          BY <1>2, <2>2, <3>3, <3>4
        <4>2. ~silent' => now' + (planned_dt_' - elapsed') = frame_due'
          <5>1. ~silent' => ~silent  BY <1>2
          <5>2. now' + (planned_dt_' - elapsed') = called + planned_dt_
            BY <1>2, <2>2, <3>3, <3>4
          <5>. QED  BY <1>2, <2>2, <5>1, <5>2
        <4>3. frame_due' # NoFrame  BY <1>2, <2>2 DEF NoFrame
        <4>. QED  BY <1>1, <1>3, <3>4, <4>1, <4>2, <4>3 DEF FrameInv, AtRest, InMicro, NoFrame
      <3>5. CASE handler' = "none" /\ called' = now
        <4>1. silent'  BY <1>2, <2>1, <2>4, <3>5
        <4>2. frame_due' # NoFrame  BY <1>2, <2>2 DEF NoFrame
        <4>. QED  BY <1>1, <1>2, <1>3, <2>2, <3>1, <3>5, <4>1, <4>2 DEF FrameInv, AtRest, InMicro
      <3>. QED  BY <3>2, <3>4, <3>5
    <2>. QED  BY <2>1, <2>3, <2>4
  <1>. QED  BY <1>5, <1>6 DEF NodeEvent

\* User code of the node returns the duration until the frame.
LEMMA ReturnsFrame ==
    ASSUME IInv, NEW dt \in Nat, HandlerReturns({dt}),
           planned_dt_' = dt, frame_due' \in Int, frame_due' # NoFrame, silent' \in BOOLEAN,
           frame_due' <= now + dt, ~silent' => now + dt = frame_due'
    PROVE  IInv' /\ FrameInv'
  <1>1. IInv'  BY ReturnsInv DEF Plans
  <1>2. failure' # "internal"  BY <1>1 DEF IInv, Course, NoInternalError
  <1>3. (CHOOSE d \in {dt} : TRUE) = dt  OBVIOUS
  <1>4. /\ queue' = WithEvent(queue, macro_event_id, now + dt)
        /\ now' = now /\ now \in Int
        /\ \/ handler' = handler /\ elapsed' = 0 /\ messages > 1
           \/ handler' = "none" /\ called' = now
    BY <1>2, <1>3, PeriodAssumption DEF HandlerReturns, Fails, Answers, IInv, CollectionTypeOK
  <1>5. CASE handler' = handler /\ elapsed' = 0 /\ messages > 1
    <2>1. handler' = "micro"  BY <1>5 DEF IInv, Course
    <2>. QED  BY <1>1, <1>4, <1>5, <2>1 DEF FrameInv, AtRest, InMicro
  <1>6. CASE handler' = "none" /\ called' = now
    BY <1>1, <1>4, <1>6 DEF FrameInv, AtRest, InMicro, WithEvent
  <1>. QED  BY <1>4, <1>5, <1>6

LEMMA FrameStep == IInv /\ FrameInv /\ [InteractiveNext]_<<collectionVars, frameVars>> => IInv' /\ FrameInv'
  <1>. SUFFICES ASSUME IInv, FrameInv, [InteractiveNext]_<<collectionVars, frameVars>>
                PROVE  IInv' /\ FrameInv'
    OBVIOUS
  <1>1. CASE NodeEvent  BY <1>1, NodeEventFrame
  <1>2. CASE UserCode /\ UNCHANGED frameVars
    <2>1. IInv'
      BY <1>2, PrototypeInv, CreateInv, AffectInv, RemoveInv, InvokeInv DEF UserCode
    <2>2. handler # "none" /\ UNCHANGED <<handlerVars, parentVars>>
      BY <1>2
      DEF UserCode, Fails, assign_flow_inputs, access_message_input, assign_message_input,
          create_agent, affect_agent, remove_agent, invoke_agent
    <2>. QED
      BY <1>2, <2>1, <2>2 DEF frameVars, handlerVars, parentVars, FrameInv, AtRest, InMicro
  <1>3. ASSUME NEW dt \in Durations, InitializationReturns(dt) \/ FrameReturns(dt)
        PROVE  IInv' /\ FrameInv'
    <2>1. dt \in Nat /\ now \in Int
      BY ChoiceAssumption, PeriodAssumption DEF IInv, CollectionTypeOK
    <2>2. CASE Frame(dt)
      <3>1. /\ planned_dt_' = dt /\ frame_due' = now + dt /\ HandlerReturns({dt})
            /\ silent' \in BOOLEAN
        BY <2>2 DEF Frame
      <3>2. frame_due' # NoFrame
        BY <2>1, <3>1, PeriodAssumption DEF IInv, CollectionTypeOK, NoFrame
      <3>. QED  BY <2>1, <3>1, <3>2, ReturnsFrame
    <2>3. CASE handler = "planned" /\ Fails("misuse") /\ planned_dt_' = dt /\ UNCHANGED <<frame_due, silent>>
      <3>1. IInv'  BY <2>3, FailsInv
      <3>2. handler' = "planned"  BY <2>3 DEF Fails, handlerVars
      <3>. QED  BY <2>1, <2>3, <3>1, <3>2 DEF FrameInv, AtRest, InMicro
    <2>. QED  BY <1>3, <2>2, <2>3 DEF InitializationReturns, FrameReturns
  <1>4. CASE MicroReturns
    <2>1. /\ handler = "micro" /\ planned_dt_' = planned_dt_ - elapsed
          /\ UNCHANGED <<frame_due, silent>>
      BY <1>4 DEF MicroReturns
    <2>2. /\ planned_dt_' \in Nat /\ now \in Int /\ frame_due' \in Int /\ silent' \in BOOLEAN
          /\ frame_due' <= now + planned_dt_' /\ (~silent' => now + planned_dt_' = frame_due')
          /\ frame_due' # NoFrame
      BY <2>1, PeriodAssumption DEF IInv, CollectionTypeOK, FrameInv, InMicro
    <2>3. HandlerReturns({planned_dt_'})
      BY <1>4, <2>2 DEF MicroReturns
    <2>4. PICK dt \in Nat : dt = planned_dt_'  BY <2>2
    <2>5. HandlerReturns({dt})  BY <2>3, <2>4 DEF HandlerReturns
    <2>6. planned_dt_' = dt /\ frame_due' \in Int /\ silent' \in BOOLEAN
          /\ frame_due' <= now + dt /\ (~silent' => now + dt = frame_due')
          /\ frame_due' # NoFrame
      BY <2>2, <2>4
    <2>. QED  BY <2>4, <2>5, <2>6, ReturnsFrame
  <1>5. CASE FinalizationReturns /\ UNCHANGED frameVars
    <2>1. IInv'  BY <1>5, FinalizationInv
    <2>2. stage' = "finalized" /\ handler' = "none"  BY <1>5 DEF FinalizationReturns
    <2>. QED  BY <1>5, <2>1, <2>2 DEF frameVars, FrameInv, AtRest, InMicro
  <1>6. ASSUME NEW t \in Start .. End, Pass(t), UNCHANGED frameVars
        PROVE  IInv' /\ FrameInv'
    <2>1. IInv'  BY <1>6, PassInv
    <2>2. handler = "none" /\ UNCHANGED <<agentVars, handlerVars, stage, called>>
      BY <1>6 DEF Pass
    <2>. QED
      BY <1>6, <2>1, <2>2 DEF frameVars, agentVars, handlerVars, FrameInv, AtRest, InMicro
  <1>7. CASE UNCHANGED <<collectionVars, frameVars>>
    <2>1. IInv'  BY <1>7, InvStep
    <2>. QED
      BY <1>7, <2>1
      DEF collectionVars, frameVars, agentVars, handlerVars, parentVars, FrameInv, AtRest, InMicro
  <1>. QED
    BY <1>1, <1>2, <1>3, <1>4, <1>5, <1>6, <1>7 DEF InteractiveNext

LEMMA InteractiveInv == InteractiveSpec => [](IInv /\ FrameInv)
  BY InitFrame, FrameStep, PTL DEF InteractiveSpec

-----------------------------------------------------------------------------
(* Theorems about agents and frames                                        *)

LEMMA CollectionInv == CollectionSpec => []IInv
  BY InitInv, InvStep, PTL DEF CollectionSpec

\* The maps and the queues hold values of their types.
THEOREM CollectionTyped == CollectionSpec => []CollectionTypeOK
  <1>1. IInv => CollectionTypeOK  BY DEF IInv
  <1>. QED  BY <1>1, CollectionInv, PTL

\* collection_node.h keeps three maps and two queues about its agents: they
\* always agree on which agents there are.
THEOREM AgentsRegistered == CollectionSpec => []Registered
  <1>1. IInv => Registered  BY DEF IInv, Maps
  <1>. QED  BY <1>1, CollectionInv, PTL

\* What the handlers answer is the earliest event of any agent or the node,
\* so the parent never lets time pass one.
THEOREM CollectionInSync == CollectionSpec => []PlanInSync
  <1>1. IInv => PlanInSync  BY DEF IInv, Schedule
  <1>. QED  BY <1>1, CollectionInv, PTL

\* The node never throws the exceptions for errors of its own.
THEOREM CollectionNeverInternal == CollectionSpec => []NoInternalError
  <1>1. IInv => NoInternalError  BY DEF IInv, Course
  <1>. QED  BY <1>1, CollectionInv, PTL

\* An agent is finalized once, when it is removed or with the node.
THEOREM AgentsEndOnce == CollectionSpec => []EachEndsOnce
  <1>1. IInv => EachEndsOnce  BY DEF IInv, Maps, Course, EachEndsOnce
  <1>. QED  BY <1>1, CollectionInv, PTL

\* collection_node.h computes the elapsed durations from t_cache_: whatever
\* happens to an agent, those it is told add up to the time since it was
\* created.
THEOREM AgentsAreToldTime == CollectionSpec => AgentsKnowTime
  <1>1. IInv /\ Known /\ [CollectionNext]_collectionVars => [ToldNow]_collectionVars  BY KnownStep
  <1>2. CollectionSpec => [][ToldNow]_collectionVars
    <2>1. IInv /\ Known /\ [CollectionNext]_collectionVars => Known'  BY KnownStep
    <2>. QED  BY <1>1, <2>1, CollectionInv, InitKnown, PTL DEF CollectionSpec
  <1>. QED  BY <1>2 DEF AgentsKnowTime, ToldNow

\* interactive_system.h: between two calls there is a next frame, and it is
\* planned for when it is due, or later if an agent has not sent a message in
\* its planned event; its messages never bring the frame forward.
THEOREM FramesWhenDue == InteractiveSpec => [](FramesKept /\ (Idle => frame_due # NoFrame))
  <1>1. ASSUME IInv, FrameInv, Idle
        PROVE  /\ NextFrame >= frame_due /\ (~silent => NextFrame = frame_due)
               /\ frame_due # NoFrame
    BY <1>1, PeriodAssumption DEF Idle, NextFrame, IInv, CollectionTypeOK, FrameInv, AtRest
  <1>2. IInv /\ FrameInv => FramesKept /\ (Idle => frame_due # NoFrame)
    BY <1>1 DEF FramesKept
  <1>. QED  BY <1>2, InteractiveInv, PTL

\* interactive_system.h: what is left until the frame never becomes negative,
\* whatever agents send, so the exceptions for errors of its own stay out.
THEOREM FramesNeverInternal == InteractiveSpec => []NoInternalError
  <1>1. IInv => NoInternalError  BY DEF IInv, Course
  <1>. QED  BY <1>1, InteractiveInv, PTL

-----------------------------------------------------------------------------
(* Pacing: numbers                                                         *)

\* A set of naturals with a bound has a greatest element, which is its Max.
LEMMA Greatest ==
    ASSUME NEW b \in Nat, NEW S, S \subseteq 0 .. b, S # {}
    PROVE  Max(S) \in S /\ \A v \in S : v <= Max(S)
<1> DEFINE C == {b - v : v \in S}
<1>1. C \subseteq Nat /\ C # {}
  <2>1. \A v \in S : v \in Int /\ b - v \in Nat
    OBVIOUS
  <2>2. QED
    BY <2>1
<1>2. PICK c \in C : \A d \in C : c <= d
  <2> HIDE DEF C
  <2> QED  BY <1>1, LeastNatural
<1>3. PICK v \in S : c = b - v
  OBVIOUS
<1>4. ASSUME NEW w \in S PROVE v >= w
  <2>1. b - w \in C /\ c \in Int
    BY <1>1
  <2>2. c <= b - w
    BY <1>2, <2>1
  <2>3. v \in Int /\ w \in Int
    OBVIOUS
  <2>4. QED
    BY <1>3, <2>2, <2>3
<1>5. \E x \in S : \A y \in S : x >= y
  BY <1>4
<1>6. Max(S) \in S /\ \A y \in S : Max(S) >= y
  BY <1>5 DEF Max
<1>7. QED
  BY <1>6

\* Max and Min of two numbers.
LEMMA TheGreater ==
    ASSUME NEW x \in Int, NEW y \in Int
    PROVE  /\ Max({x, y}) = IF x >= y THEN x ELSE y
           /\ Min({x, y}) = IF x >= y THEN y ELSE x
<1>1. (\E v \in {x, y} : \A w \in {x, y} : v >= w) /\ (\E v \in {x, y} : \A w \in {x, y} : v <= w)
  OBVIOUS
<1>2. Max({x, y}) \in {x, y} /\ \A w \in {x, y} : Max({x, y}) >= w
  BY <1>1 DEF Max
<1>3. Min({x, y}) \in {x, y} /\ \A w \in {x, y} : Min({x, y}) <= w
  BY <1>1 DEF Min
<1>4. QED
  BY <1>2, <1>3

\* Products of naturals are in the order of their factors.
LEMMA ProductOrder ==
    ASSUME NEW a \in Nat, NEW b \in Nat, NEW c \in Nat, NEW d \in Nat, a <= b, c <= d
    PROVE  a * c \in Nat /\ b * d \in Nat /\ a * c <= b * d
<1>1. a * c <= b * c
  OBVIOUS
<1>2. b * c <= b * d
  OBVIOUS
<1>3. a * c \in Nat /\ b * c \in Nat /\ b * d \in Nat
  OBVIOUS
<1>4. QED
  BY <1>1, <1>2, <1>3

\* Cutting the sum of two numbers to multiples of k cuts at most one unit more
\* off than cutting each, and none if the second is a multiple.
LEMMA CutSum ==
    ASSUME NEW a \in Int, NEW b \in Int, NEW k \in Nat \ {0}
    PROVE  /\ a \div k + b \div k <= (a + b) \div k
           /\ (a + b) \div k <= a \div k + b \div k + 1
           /\ b % k = 0 => (a + b) \div k <= a \div k + b \div k
<1> DEFINE x == a \div k
           y == b \div k
           z == (a + b) \div k
<1>1. x \in Int /\ y \in Int /\ z \in Int
  OBVIOUS
<1>2. /\ k * x <= a /\ a < k * x + k
      /\ k * y <= b /\ b < k * y + k
      /\ k * z <= a + b /\ a + b < k * z + k
  OBVIOUS
<1>3. b % k = 0 => b = k * y
  OBVIOUS
<1> HIDE DEF x, y, z
<1>4. k * x \in Int /\ k * y \in Int /\ k * z \in Int
  BY <1>1
<1>5. ASSUME z < x + y PROVE FALSE
  <2>1. k * (z + 1) <= k * (x + y)
    BY <1>1, <1>5
  <2>2. k * (z + 1) = k * z + k /\ k * (x + y) = k * x + k * y
    BY <1>1
  <2>3. QED
    BY <1>2, <1>4, <2>1, <2>2
<1>6. ASSUME z > x + y + 1 PROVE FALSE
  <2>1. k * (x + y + 2) <= k * z
    BY <1>1, <1>6
  <2>2. k * (x + y + 2) = k * x + k * y + k + k
    BY <1>1
  <2>3. QED
    BY <1>2, <1>4, <2>1, <2>2
<1>7. ASSUME b = k * y, z > x + y PROVE FALSE
  <2>1. k * (x + y + 1) <= k * z
    BY <1>1, <1>7
  <2>2. k * (x + y + 1) = k * x + k * y + k
    BY <1>1
  <2>3. QED
    BY <1>2, <1>4, <1>7, <2>1, <2>2
<1>8. x + y <= z /\ z <= x + y + 1 /\ (b = k * y => z <= x + y)
  BY <1>1, <1>5, <1>6, <1>7
<1>9. QED
  BY <1>1, <1>3, <1>8 DEF x, y, z

\* A multiple of k is one on either side of zero.
LEMMA NegatedMultiple ==
    ASSUME NEW a \in Int, NEW k \in Nat \ {0}, a % k = 0
    PROVE  (-a) % k = 0
<1> DEFINE c == -a
           x == a \div k
           y == c \div k
<1>1. x \in Int /\ y \in Int /\ c \in Int
  OBVIOUS
<1>2. a = k * x
  OBVIOUS
<1>3. c = k * y => c % k = 0
  <2> HIDE DEF c
  <2> QED  BY <1>1
<1>4. x + y = 0
  <2>1. y + x <= (c + a) \div k /\ (c + a) \div k <= y + x
    BY <1>1, CutSum
  <2>2. (c + a) \div k = 0
    OBVIOUS
  <2> HIDE DEF c, x, y
  <2>3. QED
    BY <1>1, <2>1, <2>2
<1>5. c = -(k * x) /\ k * x \in Int
  BY <1>2
<1> HIDE DEF c, x, y
<1>6. k * y = -(k * x)
  <2>1. y = -x
    BY <1>1, <1>4
  <2>2. QED
    BY <1>1, <2>1
<1>7. c % k = 0
  BY <1>3, <1>5, <1>6
<1>8. QED
  BY <1>7 DEF c

\* Cut towards zero, the sum of a number and one that is not negative differs
\* by at most one unit from the sum of what is cut, and not if both are multiples.
LEMMA TruncatedSum ==
    ASSUME NEW a \in Int, NEW b \in Nat, NEW k \in Nat \ {0}
    PROVE  LET Cut(n) == IF n >= 0 THEN n \div k ELSE -((-n) \div k)
               r == IF b % k = 0 /\ a % k = 0 THEN 0 ELSE 1
           IN  /\ Cut(a) + Cut(b) - r <= Cut(a + b) /\ Cut(a + b) <= Cut(a) + Cut(b) + r
               /\ Cut(a) \in Int /\ Cut(b) \in Nat /\ Cut(a + b) \in Int /\ r \in Int
<1> DEFINE r == IF b % k = 0 /\ a % k = 0 THEN 0 ELSE 1
           c == a + b
           y == b \div k
           x == a \div k
           z == c \div k
           u == (-a) \div k
           w == (-c) \div k
<1>1. /\ c \in Int /\ x \in Int /\ z \in Int /\ u \in Int /\ w \in Int
      /\ y \in Nat /\ r \in {0, 1}
  OBVIOUS
<1>2. CASE a >= 0
  <2>1. x + y <= z /\ z <= x + y + 1 /\ (b % k = 0 => z <= x + y)
    BY CutSum
  <2>2. c >= 0
    BY <1>2
  <2>3. x + y - r <= z /\ z <= x + y + r
    BY <1>1, <2>1
  <2> HIDE DEF c, x, y, z, r
  <2>4. QED
    BY <1>1, <1>2, <2>2, <2>3 DEF c, x, y, z, r
<1>3. CASE a < 0 /\ c < 0
  <2>1. w + y <= ((-c) + b) \div k /\ ((-c) + b) \div k <= w + y + 1
        /\ (b % k = 0 => ((-c) + b) \div k <= w + y)
    BY <1>1, CutSum
  <2>2. (-c) + b = -a
    OBVIOUS
  <2>3. (-u) + y - r <= -w /\ -w <= (-u) + y + r
    BY <1>1, <2>1, <2>2
  <2> HIDE DEF c, u, w, y, r
  <2>4. QED
    BY <1>1, <1>3, <2>3 DEF c, u, w, y, r
<1>4. CASE a < 0 /\ c >= 0
  <2>1. z + u <= (c + (-a)) \div k /\ (c + (-a)) \div k <= z + u + 1
        /\ ((-a) % k = 0 => (c + (-a)) \div k <= z + u)
    BY <1>1, CutSum
  <2>2. c + (-a) = b
    OBVIOUS
  <2>3. a % k = 0 => (-a) % k = 0
    BY NegatedMultiple
  <2>4. (-u) + y - r <= z /\ z <= (-u) + y + r
    BY <1>1, <2>1, <2>2, <2>3
  <2> HIDE DEF c, u, z, y, r
  <2>5. QED
    BY <1>1, <1>4, <2>4 DEF c, u, z, y, r
<1>5. QED
  BY <1>1, <1>2, <1>3, <1>4

-----------------------------------------------------------------------------
(* Pacing: the correction                                                  *)

\* The percents of a sum in which a whole number d is the weight left over.
LEMMA Excess ==
    ASSUME NEW v \in Int, NEW p \in Nat, NEW st \in 0 .. 100
    PROVE  /\ 100 * v - (100 - st) * p \in Int
           /\ 100 * v - (100 - st) * p = 100 * (v - p) + st * p
           /\ st * p \in Nat /\ (100 - st) * p \in Nat
<1>1. st * p \in Nat /\ (100 - st) * p \in Nat
  <2>1. st \in Nat /\ 100 - st \in Nat
    OBVIOUS
  <2>2. QED
    BY <2>1
<1>2. (100 - st) * p = 100 * p - st * p
  OBVIOUS
<1>3. QED
  BY <1>1, <1>2

\* A plan that falls behind the synchronized one is moved towards it and not
\* beyond it, and so is one that is ahead of it.
LEMMA CorrectedBetween ==
    ASSUME NEW p \in Nat, NEW s \in Int, NEW st \in 0 .. 100
    PROVE  /\ Corrected(p, s, st) \in Nat
           /\ s > p => p <= Corrected(p, s, st) /\ Corrected(p, s, st) <= s
           /\ s <= p => s <= Corrected(p, s, st) /\ Corrected(p, s, st) <= p
<1> DEFINE e(v) == 100 * v - (100 - st) * p
           Slower(v) == e(v) * e(v) <= st * st * p * s
           Faster(v) == e(v) * e(v) * (2 * p - s) <= st * st * p * p * p
           Close(v) == e(v) <= 0 \/ IF s > p THEN Slower(v) ELSE Faster(v)
           b == 2 * Max({p, s})
           S == {v \in 0 .. b : Close(v)}
           a == st * p
<1>1. Corrected(p, s, st) = Max(S)
  BY DEF Corrected
<1>2. /\ b \in Nat /\ p <= b /\ s <= b
      /\ S \subseteq 0 .. b
  BY TheGreater
<1>3. /\ a \in Nat /\ (100 - st) * p \in Nat
      /\ \A v \in Int : e(v) \in Int /\ e(v) = 100 * (v - p) + a
  BY Excess
<1>4. Close(0)
  BY <1>3
<1>5. 0 \in S
  BY <1>2, <1>4
<1> HIDE DEF S
<1>6. /\ Max(S) \in S
      /\ \A v \in S : v <= Max(S)
  BY <1>2, <1>5, Greatest
<1>7. Max(S) \in Nat /\ Close(Max(S))
  <2>1. Max(S) \in 0 .. b /\ Close(Max(S))
    BY <1>6 DEF S
  <2>2. QED
    BY <1>2, <2>1
<1> DEFINE v == Max(S)
           x == e(v)
<1>8. v \in Nat /\ x \in Int /\ x = 100 * (v - p) + a
  BY <1>3, <1>7
<1>9. CASE s > p
  <2>1. Slower(p)
    <3>1. e(p) = a
      BY <1>3
    <3>2. a * p \in Nat /\ a * p <= a * s /\ a * s \in Nat
      BY <1>3, <1>9
    <3>3. st * (a * p) <= st * (a * s)
      BY <3>2
    <3>4. a * a = st * (a * p) /\ st * st * p * s = st * (a * s)
      BY <1>3, <1>9
    <3>5. QED
      BY <3>1, <3>3, <3>4
  <2>2. p <= v
    <3>1. p \in S
      BY <1>2, <1>9, <2>1 DEF S
    <3>2. QED
      BY <1>6, <3>1
  <2>3. ASSUME v > s PROVE FALSE
    <3>1. x > 0
      BY <1>3, <1>8, <1>9, <2>3
    <3>2. x * x <= st * st * p * s
      BY <1>7, <1>9, <3>1
    <3>3. x > st * s
      <4>1. st * (s - p) <= 100 * (s - p) /\ st * (s - p) = st * s - a
        BY <1>9
      <4>2. st * s \in Int /\ st * (s - p) \in Int
        OBVIOUS
      <4>3. 100 * (s - p) < 100 * (v - p)
        BY <1>8, <1>9, <2>3
      <4>4. QED
        BY <1>3, <1>8, <4>1, <4>2, <4>3
    <3>4. a <= st * s /\ st * s \in Nat
      BY <1>9
    <3>5. x * x > (st * s) * a
      <4>1. (st * s) * a <= x * a
        BY <1>3, <1>8, <3>3, <3>4
      <4>2. x * a < x * x
        BY <1>3, <1>8, <3>1, <3>3, <3>4
      <4>3. (st * s) * a \in Int /\ x * a \in Int /\ x * x \in Int
        BY <1>3, <1>8, <3>4
      <4>4. QED
        BY <4>1, <4>2, <4>3
    <3>6. st * st * p * s = (st * s) * a
      BY <1>9
    <3>7. QED
      BY <1>8, <3>2, <3>4, <3>5, <3>6
  <2>4. QED
    BY <1>1, <1>7, <1>8, <1>9, <2>2, <2>3
<1>10. CASE s <= p
  <2> DEFINE d == 2 * p - s
             a3 == st * st * p * p * p
  <2>1. d \in Nat /\ d >= p /\ a3 = (a * a) * p
    BY <1>3, <1>10
  <2>2. ASSUME v > p PROVE FALSE
    <3>1. x >= a + 100
      BY <1>8, <2>2
    <3>2. x * x * d <= a3
      BY <1>3, <1>7, <1>8, <1>10, <3>1
    <3>3. x * x > a * a /\ a * a \in Nat /\ x * x \in Nat
      <4>1. a * a <= a * x
        BY <1>3, <1>8, <3>1
      <4>2. a * x < x * x
        BY <1>3, <1>8, <3>1
      <4>3. a * a \in Nat /\ x * x \in Nat /\ a * x \in Int
        BY <1>3, <1>8, <3>1
      <4>4. QED
        BY <4>1, <4>2, <4>3
    <3>4. CASE d = 0
      <4>1. p = 0 /\ s = 0 /\ b = 0
        <5>1. p = 0 /\ s = 0
          BY <1>10, <2>1, <3>4
        <5>2. QED
          BY <5>1, TheGreater
      <4>2. v <= b
        BY <1>6 DEF S
      <4>3. QED
        BY <1>8, <2>2, <4>1, <4>2
    <3>5. CASE d > 0
      <4> DEFINE y == x * x
                 z == a * a
      <4>1. y \in Nat /\ z \in Nat /\ z < y
        BY <3>3
      <4> HIDE DEF y, z
      <4>2. z * p <= z * d /\ z * d < y * d /\ y * d \in Int /\ z * d \in Int /\ z * p \in Int
        BY <2>1, <3>5, <4>1
      <4>3. y * d <= z * p
        BY <2>1, <3>2 DEF y, z
      <4>4. QED
        BY <4>2, <4>3
    <3>6. QED
      BY <2>1, <3>4, <3>5
  <2>3. ASSUME s >= 0 PROVE s \in S
    <3>1. s \in 0 .. b
      BY <1>2, <2>3
    <3>2. ASSUME e(s) > 0 PROVE Faster(s)
      <4> DEFINE f == e(s)
                 g == st * s
      <4>1. f \in Nat /\ g \in Nat /\ f <= g
        <5>1. (100 - st) * (p - s) >= 0
          BY <1>10
        <5>2. (100 - st) * (p - s) = 100 * (p - s) - a + g
          BY <1>3
        <5>3. g \in Nat
          BY <2>3
        <5>4. QED
          BY <1>3, <3>2, <5>1, <5>2, <5>3
      <4>2. f * f <= g * g /\ f * f \in Nat /\ g * g \in Nat
        <5> HIDE DEF f, g
        <5> QED  BY <4>1, ProductOrder
      <4>3. (f * f) * d <= (g * g) * d
        <5> DEFINE y == f * f
                   z == g * g
        <5>1. y \in Nat /\ z \in Nat /\ y <= z
          BY <4>2
        <5> HIDE DEF y, z, d
        <5>2. y * d <= z * d
          BY <2>1, <5>1
        <5>3. QED
          BY <5>2 DEF y, z
      <4>4. s * s * d <= p * p * p
        <5> DEFINE q == p - s
        <5>1. q \in Nat /\ q <= p /\ s = p - q /\ d = p + q
          BY <1>10, <2>3
        <5>2. (p - q) * (p - q) * (p + q) = p * p * p - q * p * p - q * q * p + q * q * q
          BY <5>1
        <5>3. q * q \in Nat /\ q * p * p \in Nat /\ p * p * p \in Nat
          BY <5>1
        <5>4. (q * q) * q <= (q * q) * p /\ (q * q) * q \in Nat /\ (q * q) * p \in Nat
          BY <5>1, <5>3, ProductOrder
        <5>5. QED
          BY <5>1, <5>2, <5>3, <5>4
      <4>5. (g * g) * d <= a3
        <5> DEFINE y == s * s * d
                   z == p * p * p
        <5>1. y \in Nat /\ z \in Nat /\ st * st \in Nat
          BY <2>1, <2>3
        <5>2. (g * g) * d = (st * st) * y /\ a3 = (st * st) * z
          BY <2>1, <2>3
        <5>3. (st * st) * y <= (st * st) * z
          BY <4>4, <5>1, ProductOrder
        <5>4. QED
          BY <5>2, <5>3
      <4>6. f * f * d <= a3
        <5>1. (f * f) * d \in Int /\ (g * g) * d \in Int /\ a3 \in Int
          BY <2>1, <4>2
        <5> DEFINE x1 == (f * f) * d
                   x2 == (g * g) * d
                   x3 == a3
        <5>2. x1 <= x2 /\ x2 <= x3 /\ x1 \in Int /\ x2 \in Int /\ x3 \in Int
          BY <4>3, <4>5, <5>1
        <5>3. x1 <= x3
          <6> HIDE DEF x1, x2, x3
          <6> QED  BY <5>2
        <5>4. QED
          BY <5>3
      <4>7. QED
        BY <4>6
    <3>3. Close(s)
      BY <1>3, <1>10, <3>2
    <3>4. QED
      BY <3>1, <3>3 DEF S
  <2>4. s <= v
    BY <1>6, <1>8, <2>3
  <2>5. QED
    BY <1>1, <1>7, <1>8, <1>10, <2>2, <2>4
<1>11. QED
  BY <1>9, <1>10

-----------------------------------------------------------------------------
(* Pacing: the invariant                                                   *)

\* The planned duration in milliseconds, and how long the next frame may take
\* for simulated and wallclock time to be together again at its end.
Planned == Milliseconds(planned_sim_dt_, t_adv_rate_)
Synchronized ==
    syn_clk_t_ + Milliseconds(current_sim_t_ - syn_sim_t_ + planned_sim_dt_, t_adv_rate_)
        - current_clk_t_

Numbers ==
    /\ clock \in Nat
    /\ next_t \in Int /\ last_frame \in Int /\ next_frame_t \in Int /\ frame_was \in Int
    /\ t_adv_rate_ \in Nat /\ t_syn_rate_ \in BOOLEAN
    /\ syn_sim_t_ \in Int /\ syn_clk_t_ \in Int /\ syn_count_ \in 0 .. Len(Strength)
    /\ current_sim_t_ \in Int /\ current_clk_t_ \in Int
    /\ planned_sim_dt_ \in Nat /\ planned_clk_dt_ \in Int
    /\ finished \in BOOLEAN

\* A call in progress has read the times before the batch it processes, which
\* is that of the frame once one has been processed.
CallInProgress ==
    call # NotCalled =>
        /\ call \in [t : Int, clock_t : Int, frame : Int]
        /\ call.frame >= -1 /\ call.clock_t <= clock
        /\ ~FrameProcessed => call.frame = last_frame /\ call.t = next_t
        /\ FrameProcessed => last_frame = call.frame + 1 /\ call.t = frame_was

\* The next event is no later than the next frame and the end of the
\* simulation, which it has reached if that has finished.
EndInSight ==
    /\ next_t <= next_frame_t /\ next_t <= FinalT
    /\ finished => next_t = FinalT /\ (call # NotCalled => ~FrameProcessed)
    /\ frame_was < FinalT

\* Until a frame has been processed, or the simulation has ended, the buffer
\* describes the last one, and then the one before, whose planned duration
\* ended at the frame.
LastFrameKnown ==
    \/ call = NotCalled /\ ~finished
    \/ call # NotCalled /\ ~FrameProcessed
BufferDescribesFrame ==
    /\ last_frame >= -1
    /\ frame_was <= next_frame_t
    /\ current_clk_t_ <= clock
    /\ LastFrameKnown /\ last_frame >= 0 =>
          /\ current_sim_t_ = frame_was
          /\ current_sim_t_ + planned_sim_dt_ = next_frame_t
    /\ call = NotCalled /\ finished => current_sim_t_ = FinalT
    /\ call # NotCalled /\ FrameProcessed /\ call.frame >= 0 =>
          current_sim_t_ + planned_sim_dt_ = frame_was

\* The wallclock duration is the planned one, or that corrected, whichever
\* setting was changed last.
PlanIsCurrent ==
    \/ planned_clk_dt_ = Planned
    \/ \E st \in 0 .. 100 : planned_clk_dt_ = Corrected(Planned, Synchronized, st)

PaceInv == Numbers /\ CallInProgress /\ EndInSight /\ BufferDescribesFrame /\ PlanIsCurrent

\* A duration in milliseconds is a whole number, and not negative if it was not.
LEMMA MillisecondsType ==
    ASSUME NEW dt \in Int, NEW rate \in Nat
    PROVE  /\ Milliseconds(dt, rate) \in Int
           /\ dt >= 0 => Milliseconds(dt, rate) \in Nat
<1>1. CASE rate = 0
  BY <1>1 DEF Milliseconds
<1>2. CASE rate # 0
  <2> DEFINE k == MillisecondTicks * rate
  <2>1. k \in Nat \ {0}
    BY <1>2, PaceAssumption
  <2> HIDE DEF k
  <2>2. dt \div k \in Int /\ (-dt) \div k \in Int /\ (dt >= 0 => dt \div k \in Nat)
    BY <2>1
  <2>3. QED
    BY <1>2, <2>2 DEF Milliseconds, k
<1>3. QED
  BY <1>1, <1>2

\* Recomputing the planned duration leaves it current.
LEMMA Recomputed ==
    ASSUME NEW count \in 0 .. Len(Strength),
           recompute_planned_clock_duration(count),
           t_adv_rate_' \in Nat, t_syn_rate_' \in BOOLEAN, planned_sim_dt_' \in Nat,
           current_sim_t_' \in Int, syn_sim_t_' \in Int,
           current_clk_t_' \in Int, syn_clk_t_' \in Int
    PROVE  /\ syn_count_' \in 0 .. Len(Strength)
           /\ planned_clk_dt_' \in Int
           /\ PlanIsCurrent'
<1> DEFINE p == Planned'
           s == Synchronized'
<1>1. p = Milliseconds(planned_sim_dt_', t_adv_rate_')
  BY DEF Planned, Milliseconds
<1>2. s = syn_clk_t_' + Milliseconds(current_sim_t_' - syn_sim_t_' + planned_sim_dt_', t_adv_rate_')
             - current_clk_t_'
  BY DEF Synchronized, Milliseconds
<1>3. p \in Nat
  BY <1>1, MillisecondsType
<1>4. s \in Int
  <2>1. current_sim_t_' - syn_sim_t_' + planned_sim_dt_' \in Int
    OBVIOUS
  <2>2. Milliseconds(current_sim_t_' - syn_sim_t_' + planned_sim_dt_', t_adv_rate_') \in Int
    BY <2>1, MillisecondsType
  <2>3. QED
    BY <1>2, <2>2
<1> HIDE DEF p, s
<1>5. \/ planned_clk_dt_' = p /\ (syn_count_' = 0 \/ syn_count_' = count)
      \/ /\ syn_count_' = Min({count + 1, Len(Strength)})
         /\ planned_clk_dt_' = Corrected(p, s, Strength[syn_count_'])
  BY <1>1, <1>2 DEF recompute_planned_clock_duration
<1>6. CASE planned_clk_dt_' = p /\ (syn_count_' = 0 \/ syn_count_' = count)
  <2>1. Len(Strength) \in Nat
    BY PaceAssumption
  <2>2. PlanIsCurrent'
    BY <1>6 DEF PlanIsCurrent, p
  <2>3. QED
    BY <1>3, <1>6, <2>1, <2>2
<1>7. CASE /\ syn_count_' = Min({count + 1, Len(Strength)})
           /\ planned_clk_dt_' = Corrected(p, s, Strength[syn_count_'])
  <2>1. Len(Strength) \in Nat /\ Len(Strength) > 0
    BY PaceAssumption
  <2> DEFINE n == count + 1
             l == Len(Strength)
  <2>2. syn_count_' \in 1 .. Len(Strength)
    <3>1. n \in Int /\ l \in Int /\ n >= 1 /\ l >= 1
      BY <2>1
    <3>2. Min({n, l}) = IF n >= l THEN l ELSE n
      BY <3>1, TheGreater
    <3>3. syn_count_' = IF n >= l THEN l ELSE n
      BY <1>7, <3>2
    <3>4. QED
      <4> HIDE DEF n, l
      <4> QED  BY <3>1, <3>3 DEF l
  <2>3. Strength[syn_count_'] \in 0 .. 100
    <3> DEFINE T == 0 .. 100
    <3>1. Strength \in Seq(T)
      BY PaceAssumption
    <3> HIDE DEF T
    <3>2. Strength[syn_count_'] \in T
      BY <2>2, <3>1
    <3>3. QED
      BY <3>2 DEF T
  <2>4. planned_clk_dt_' \in Int
    <3>1. \A st \in 0 .. 100 : Corrected(p, s, st) \in Nat
      BY <1>3, <1>4, CorrectedBetween
    <3>2. Corrected(p, s, Strength[syn_count_']) \in Nat
      BY <2>3, <3>1, Zenon
    <3>3. QED
      BY <1>7, <3>2
  <2>5. PlanIsCurrent'
    <3>1. \E st \in 0 .. 100 : planned_clk_dt_' = Corrected(Planned', Synchronized', st)
      BY <1>7, <2>3 DEF p, s
    <3>2. QED
      BY <3>1 DEF PlanIsCurrent, Corrected
  <2>6. QED
    BY <2>1, <2>2, <2>4, <2>5
<1>8. QED
  BY <1>5, <1>6, <1>7

\* Initially nothing is planned, at any rate.
LEMMA PaceInitially ==
    ASSUME PaceInit
    PROVE  PaceInv
<1> USE DEF PaceInit
<1>1. Numbers
  <2>1. Len(Strength) \in Nat /\ next_frame_t \in Int
    BY PaceAssumption
  <2>2. syn_count_ \in 0 .. Len(Strength)
    BY <2>1
  <2>3. t_syn_rate_ \in BOOLEAN
    OBVIOUS
  <2>4. finished \in BOOLEAN
    OBVIOUS
  <2>5. QED
    BY <2>1, <2>2, <2>3, <2>4 DEF Numbers
<1>2. CallInProgress /\ EndInSight /\ BufferDescribesFrame
  BY PaceAssumption DEF CallInProgress, EndInSight, BufferDescribesFrame, LastFrameKnown
<1>3. PlanIsCurrent
  BY DEF PlanIsCurrent, Planned, Milliseconds
<1>4. QED
  BY <1>1, <1>2, <1>3 DEF PaceInv

\* The plan stays current while the buffer is left alone.
LEMMA BufferUnchanged ==
    ASSUME PlanIsCurrent, UNCHANGED bufferVars
    PROVE  PlanIsCurrent'
BY DEF PlanIsCurrent, Planned, Synchronized, Milliseconds, bufferVars, rateVars, currentVars

LEMMA CallInductive ==
    ASSUME PaceInv, process_frame_if_time_reached
    PROVE  PaceInv'
<1> USE DEF process_frame_if_time_reached, simVars, bufferVars, rateVars, currentVars, FrameProcessed
<1>1. Numbers'
  BY DEF PaceInv, Numbers
<1>2. CallInProgress'
  BY DEF PaceInv, Numbers, CallInProgress, BufferDescribesFrame, LastFrameKnown
<1>3. EndInSight' /\ BufferDescribesFrame'
  BY DEF PaceInv, Numbers, EndInSight, BufferDescribesFrame, LastFrameKnown
<1>4. PlanIsCurrent'
  BY BufferUnchanged DEF PaceInv
<1>5. QED
  BY <1>1, <1>2, <1>3, <1>4 DEF PaceInv

\* The next event comes after the batch, at the frame or the end at the latest.
LEMMA FollowingIs ==
    ASSUME NEW u \in Int, next_t \in Int, NEW v \in Following(u)
    PROVE  v \in Int /\ next_t < v /\ v <= u /\ v <= FinalT
<1>1. FinalT \in Int
  BY PaceAssumption
<1>2. Min({u, FinalT}) = IF u >= FinalT THEN FinalT ELSE u
  BY <1>1, TheGreater
<1>3. QED
  BY <1>1, <1>2 DEF Following

\* A batch of events: if the frame is among them, the call keeps the time read
\* before, and the buffer still plans the end of the frame before.
LEMMA BatchInductive ==
    ASSUME PaceInv, process_next_events
    PROVE  PaceInv'
<1>1. /\ call # NotCalled /\ ~FrameProcessed /\ ~finished
      /\ UNCHANGED <<clock, bufferVars>>
  BY DEF process_next_events
<1>2. /\ call \in [t : Int, clock_t : Int, frame : Int]
      /\ call.frame >= -1 /\ call.clock_t <= clock
      /\ call.frame = last_frame /\ call.t = next_t
  BY <1>1 DEF PaceInv, CallInProgress
<1>3. PlanIsCurrent'
  BY <1>1, BufferUnchanged DEF PaceInv
<1>4. ASSUME next_t < FinalT, FrameBatch, finished' = finished
      PROVE  Numbers' /\ CallInProgress' /\ EndInSight' /\ BufferDescribesFrame'
  <2>1. PICK dt \in FrameDurations :
            /\ next_t = next_frame_t /\ last_frame' = last_frame + 1 /\ frame_was' = next_t
            /\ next_frame_t' = next_t + dt /\ next_t' \in Following(next_frame_t')
            /\ call' = call
    BY <1>4 DEF FrameBatch
  <2>2. dt \in Nat /\ dt > 0 /\ next_t \in Int /\ next_frame_t' \in Int
    BY <2>1, PaceAssumption DEF PaceInv, Numbers
  <2>3. next_t' \in Int /\ next_t' <= next_frame_t' /\ next_t' <= FinalT
    BY <2>1, <2>2, FollowingIs
  <2>4. Numbers'
    BY <1>1, <1>4, <2>1, <2>2, <2>3 DEF PaceInv, Numbers, bufferVars, rateVars, currentVars
  <2>5. FrameProcessed' /\ last_frame' = call.frame + 1
    BY <1>2, <2>1 DEF FrameProcessed, PaceInv, Numbers
  <2>6. CallInProgress'
    BY <1>1, <1>2, <2>1, <2>5 DEF CallInProgress
  <2>7. EndInSight'
    BY <1>1, <1>4, <2>1, <2>3 DEF EndInSight
  <2>8. BufferDescribesFrame'
    <3>1. last_frame' >= -1 /\ frame_was' <= next_frame_t'
      BY <2>1, <2>2 DEF PaceInv, Numbers, BufferDescribesFrame
    <3>2. call.frame >= 0 => current_sim_t_ + planned_sim_dt_ = next_frame_t
      BY <1>1, <1>2 DEF PaceInv, BufferDescribesFrame, LastFrameKnown
    <3>3. current_clk_t_' <= clock'
      BY <1>1 DEF PaceInv, BufferDescribesFrame, bufferVars, currentVars
    <3>4. QED
      BY <1>1, <1>4, <2>1, <2>5, <3>1, <3>2, <3>3 DEF BufferDescribesFrame, LastFrameKnown, bufferVars, currentVars
  <2>9. QED
    BY <2>4, <2>6, <2>7, <2>8
<1>5. ASSUME next_t < FinalT, MicroBatch, finished' = finished
      PROVE  Numbers' /\ CallInProgress' /\ EndInSight' /\ BufferDescribesFrame'
  <2>1. /\ next_t < next_frame_t /\ UNCHANGED <<last_frame, next_frame_t, frame_was>>
        /\ next_t' \in Following(next_frame_t)
        /\ call' = [call EXCEPT !.t = next_t', !.clock_t = clock]
    BY <1>5 DEF MicroBatch
  <2>2. next_t' \in Int /\ next_t' <= next_frame_t /\ next_t' <= FinalT
    BY <2>1, FollowingIs DEF PaceInv, Numbers
  <2>3. Numbers'
    BY <1>1, <1>5, <2>1, <2>2 DEF PaceInv, Numbers, bufferVars, rateVars, currentVars
  <2>4. clock \in Int
    BY DEF PaceInv, Numbers
  <2>5. /\ call' \in [t : Int, clock_t : Int, frame : Int]
        /\ call'.frame = last_frame /\ call'.t = next_t' /\ call'.clock_t = clock
    BY <1>2, <2>1, <2>2, <2>4
  <2>6. ~FrameProcessed'
    BY <2>1, <2>5 DEF FrameProcessed, PaceInv, Numbers
  <2>7. CallInProgress'
    BY <1>1, <1>2, <2>1, <2>4, <2>5, <2>6 DEF CallInProgress
  <2>8. EndInSight'
    BY <1>1, <1>5, <2>1, <2>2 DEF EndInSight, PaceInv
  <2>9. BufferDescribesFrame'
    <3>1. call' # NotCalled
      BY <1>2, <2>5 DEF NotCalled
    <3>2. QED
      BY <1>1, <1>5, <2>1, <2>6, <3>1 DEF PaceInv, BufferDescribesFrame, LastFrameKnown, bufferVars, currentVars
  <2>10. QED
    BY <2>3, <2>7, <2>8, <2>9
<1>6. CASE FinalBatch
  <2>1. /\ next_t = FinalT /\ finished' = TRUE
        /\ UNCHANGED <<next_t, last_frame, next_frame_t, frame_was, call>>
    BY <1>6 DEF FinalBatch
  <2>2. ~FrameProcessed'
    BY <1>1, <2>1 DEF FrameProcessed
  <2>3. Numbers' /\ CallInProgress'
    BY <1>1, <1>2, <2>1, <2>2 DEF PaceInv, Numbers, CallInProgress, bufferVars, rateVars, currentVars
  <2>4. EndInSight' /\ BufferDescribesFrame'
    BY <1>1, <2>1, <2>2 DEF PaceInv, EndInSight, BufferDescribesFrame, LastFrameKnown, bufferVars, currentVars
  <2>5. QED
    BY <1>3, <2>3, <2>4 DEF PaceInv
<1>7. QED
  BY <1>3, <1>4, <1>5, <1>6 DEF process_next_events, ModelBatch, PaceInv

\* What is planned when a call returns: all of the frame's, or what is left.
LEMMA ReturnPlans ==
    ASSUME PaceInv, CallReturns
    PROVE  \E dt \in Nat :
              /\ update_current_time(call.t, call.clock_t, dt)
              /\ FrameProcessed => dt = next_frame_t - frame_was
<1> USE DEF PaceInv
<1>1. PICK dt \in PlannedDurations : update_current_time(call.t, call.clock_t, dt)
  BY DEF CallReturns, FrameTime
<1>2. CASE finished
  <2>1. ~FrameProcessed /\ next_frame_t >= FinalT
    BY <1>2 DEF EndInSight, CallReturns, Numbers
  <2>2. dt \in next_frame_t - FinalT + 1 .. next_frame_t - frame_was
    BY <1>2 DEF PlannedDurations
  <2>3. next_frame_t \in Int /\ frame_was \in Int /\ FinalT \in Int
    BY PaceAssumption DEF Numbers
  <2>4. dt \in Nat
    BY <2>1, <2>2, <2>3
  <2>5. QED
    BY <1>1, <2>1, <2>4
<1>3. CASE ~finished
  <2>1. dt = next_frame_t - frame_was
    BY <1>3 DEF PlannedDurations
  <2>2. dt \in Nat
    BY <2>1 DEF Numbers, BufferDescribesFrame
  <2>3. QED
    BY <1>1, <2>1, <2>2
<1>4. QED
  BY <1>2, <1>3

LEMMA ReturnInductive ==
    ASSUME PaceInv, CallReturns
    PROVE  PaceInv'
<1> USE DEF PaceInv
<1> PICK dt \in Nat :
        /\ update_current_time(call.t, call.clock_t, dt)
        /\ FrameProcessed => dt = next_frame_t - frame_was
  BY ReturnPlans
<1>1. /\ call # NotCalled /\ (finished \/ FrameProcessed) /\ call' = NotCalled
      /\ UNCHANGED <<clock, simVars>> /\ UNCHANGED rateVars
      /\ current_sim_t_' = call.t /\ current_clk_t_' = call.clock_t
      /\ planned_sim_dt_' = dt
      /\ recompute_planned_clock_duration(syn_count_)
  BY DEF CallReturns, update_current_time
<1>2. /\ call \in [t : Int, clock_t : Int, frame : Int] /\ call.clock_t <= clock
      /\ FrameProcessed => last_frame >= 0 /\ call.t = frame_was
      /\ finished => call.t = FinalT
  BY <1>1 DEF CallInProgress, EndInSight, Numbers
<1>3. planned_sim_dt_' \in Nat
  BY <1>1
<1>4. /\ t_adv_rate_' \in Nat /\ t_syn_rate_' \in BOOLEAN
      /\ syn_sim_t_' \in Int /\ syn_clk_t_' \in Int
      /\ current_sim_t_' \in Int /\ current_clk_t_' \in Int
      /\ syn_count_ \in 0 .. Len(Strength)
  BY <1>1, <1>2 DEF Numbers, rateVars
<1>5. syn_count_' \in 0 .. Len(Strength) /\ planned_clk_dt_' \in Int /\ PlanIsCurrent'
  BY <1>1, <1>3, <1>4, Recomputed
<1>6. Numbers'
  BY <1>1, <1>3, <1>4, <1>5 DEF Numbers, simVars
<1>7. CallInProgress' /\ EndInSight'
  BY <1>1 DEF CallInProgress, EndInSight, simVars
<1>8. BufferDescribesFrame'
  <2>1. ~finished => FrameProcessed /\ dt = next_frame_t - frame_was
    BY <1>1
  <2>2. QED
    BY <1>1, <1>2, <2>1 DEF BufferDescribesFrame, LastFrameKnown, Numbers, simVars
<1>9. QED
  BY <1>5, <1>6, <1>7, <1>8

\* A change of the settings: the plan is made again, for the same frame.
LEMMA UserInductive ==
    ASSUME PaceInv, UserCalls
    PROVE  PaceInv'
<1> USE DEF PaceInv
<1>1. /\ call = NotCalled /\ UNCHANGED <<clock, simVars, call, currentVars>>
      /\ recompute_planned_clock_duration(0)
  BY DEF UserCalls, update_time_advancement_rate, update_time_synchronization_rate,
         update_synchronization_time
<1>2. /\ t_adv_rate_' \in Nat /\ t_syn_rate_' \in BOOLEAN
      /\ syn_sim_t_' \in Int /\ syn_clk_t_' \in Int
  <2> USE DEF Numbers
  <2>1. CASE update_time_advancement_rate
    BY <2>1, PaceAssumption DEF update_time_advancement_rate
  <2>2. CASE update_time_synchronization_rate
    BY <2>2 DEF update_time_synchronization_rate
  <2>3. ASSUME NEW r \in References \cup {<<current_sim_t_, current_clk_t_>>},
               update_synchronization_time(r[1], r[2])
        PROVE  <1>2!:
    <3>1. r[1] \in Int /\ r[2] \in Int
      BY PaceAssumption
    <3>2. QED
      BY <2>3, <3>1 DEF update_synchronization_time
  <2>4. QED
    BY <2>1, <2>2, <2>3 DEF UserCalls
<1>3. /\ current_sim_t_' \in Int /\ current_clk_t_' \in Int /\ planned_sim_dt_' \in Nat
      /\ 0 \in 0 .. Len(Strength)
  BY <1>1, PaceAssumption DEF currentVars, Numbers
<1>4. syn_count_' \in 0 .. Len(Strength) /\ planned_clk_dt_' \in Int /\ PlanIsCurrent'
  BY <1>1, <1>2, <1>3, Recomputed
<1>5. Numbers'
  BY <1>1, <1>2, <1>3, <1>4 DEF Numbers, simVars
<1>6. CallInProgress' /\ EndInSight' /\ BufferDescribesFrame'
  BY <1>1 DEF CallInProgress, EndInSight, BufferDescribesFrame, LastFrameKnown, simVars, currentVars
<1>7. QED
  BY <1>4, <1>5, <1>6

LEMMA PaceInductive ==
    ASSUME PaceInv, [PaceNext]_paceVars
    PROVE  PaceInv'
<1>1. CASE ClockAdvances
  <2>1. PlanIsCurrent'
    BY <1>1, BufferUnchanged DEF ClockAdvances, PaceInv
  <2>2. Numbers' /\ CallInProgress' /\ EndInSight' /\ BufferDescribesFrame'
    BY <1>1 DEF ClockAdvances, simVars, bufferVars, rateVars, currentVars,
                PaceInv, Numbers, CallInProgress, EndInSight, BufferDescribesFrame, LastFrameKnown,
                FrameProcessed
  <2>3. QED
    BY <2>1, <2>2 DEF PaceInv
<1>2. CASE UNCHANGED paceVars
  <2>1. PlanIsCurrent'
    BY <1>2, BufferUnchanged DEF paceVars, PaceInv
  <2>2. Numbers' /\ CallInProgress' /\ EndInSight' /\ BufferDescribesFrame'
    BY <1>2 DEF paceVars, simVars, bufferVars, rateVars, currentVars,
                PaceInv, Numbers, CallInProgress, EndInSight, BufferDescribesFrame, LastFrameKnown,
                FrameProcessed
  <2>3. QED
    BY <2>1, <2>2 DEF PaceInv
<1>3. CASE Ended
  BY <1>2, <1>3 DEF Ended
<1>4. QED
  BY <1>1, <1>2, <1>3, CallInductive, BatchInductive, ReturnInductive, UserInductive DEF PaceNext

\* Whatever the rates and reference points, the buffer describes the last frame
\* by its own time, its planned end and a time of the wallclock no later than
\* now, until the call in which the simulation ends tells it the end time.
THEOREM BufferLearnsFrames == PaceSpec => []FramesAtTheirTime
<1>1. PaceInit => PaceInv
  BY PaceInitially
<1>2. PaceInv /\ [PaceNext]_paceVars => PaceInv'
  BY PaceInductive
<1>3. PaceInv => FramesAtTheirTime
  BY DEF PaceInv, BufferDescribesFrame, LastFrameKnown, FramesAtTheirTime
<1>4. QED
  BY <1>1, <1>2, <1>3, PTL DEF PaceSpec

\* A frame that returns at the time recommended for it: the simulation is
\* ahead of the clock by what the plan was corrected less than fully.
LEMMA PunctualFrame ==
    ASSUME PaceInv, CallReturns, last_frame >= 1, ~finished,
           current_clk_t_' = planned_clock_time, t_adv_rate_ # 0
    PROVE  Ahead' = Synchronized - planned_clk_dt_
<1>1. /\ call # NotCalled /\ FrameProcessed
      /\ UNCHANGED <<syn_sim_t_, syn_clk_t_, t_adv_rate_>>
      /\ current_sim_t_' = call.t
  BY DEF CallReturns, update_current_time, FrameTime, rateVars
<1>2. call.frame >= 0 /\ call.t = frame_was
  BY <1>1 DEF PaceInv, CallInProgress, Numbers
<1>3. current_sim_t_' = current_sim_t_ + planned_sim_dt_
  BY <1>1, <1>2 DEF PaceInv, BufferDescribesFrame, LastFrameKnown
<1>4. current_sim_t_' - syn_sim_t_' = current_sim_t_ - syn_sim_t_ + planned_sim_dt_
  BY <1>1, <1>3 DEF PaceInv, Numbers
<1> DEFINE ms == Milliseconds(current_sim_t_ - syn_sim_t_ + planned_sim_dt_, t_adv_rate_)
<1>5. ms \in Int
  <2>1. current_sim_t_ - syn_sim_t_ + planned_sim_dt_ \in Int /\ t_adv_rate_ \in Nat
    BY DEF PaceInv, Numbers
  <2>2. QED
    BY <2>1, MillisecondsType
<1>6. Ahead' = ms - (current_clk_t_ + planned_clk_dt_ - syn_clk_t_)
  <2>1. t_adv_rate_' # 0
    BY <1>1
  <2>2. Ahead' = Milliseconds(current_sim_t_' - syn_sim_t_', t_adv_rate_') - (current_clk_t_' - syn_clk_t_')
    BY <2>1 DEF Ahead, Milliseconds
  <2>3. current_clk_t_' - syn_clk_t_' = current_clk_t_ + planned_clk_dt_ - syn_clk_t_
    <3>1. current_clk_t_' = current_clk_t_ + planned_clk_dt_
      BY DEF planned_clock_time
    <3>2. syn_clk_t_' = syn_clk_t_
      BY <1>1
    <3>3. current_clk_t_ \in Int /\ planned_clk_dt_ \in Int /\ syn_clk_t_ \in Int
      BY DEF PaceInv, Numbers
    <3>4. QED
      BY <3>1, <3>2, <3>3
  <2>4. QED
    BY <1>1, <1>4, <2>2, <2>3
<1>7. Synchronized = syn_clk_t_ + ms - current_clk_t_
  BY DEF Synchronized
<1> HIDE DEF ms
<1>8. QED
  BY <1>5, <1>6, <1>7 DEF PaceInv, Numbers

\* What the synchronized plan has over the planned one is how far the
\* simulation is ahead now, but for what the division by the rate cuts off.
LEMMA AheadIsDrift ==
    ASSUME PaceInv, t_adv_rate_ # 0
    PROVE  LET k == MillisecondTicks * t_adv_rate_
               r == IF planned_sim_dt_ % k = 0 /\ (current_sim_t_ - syn_sim_t_) % k = 0
                    THEN 0 ELSE 1
           IN  /\ Ahead \in Int /\ Planned \in Nat /\ Synchronized \in Int
               /\ Ahead - r <= Synchronized - Planned
               /\ Synchronized - Planned <= Ahead + r
<1> DEFINE k == MillisecondTicks * t_adv_rate_
           gap == current_sim_t_ - syn_sim_t_
           Cut(n) == IF n >= 0 THEN n \div k ELSE -((-n) \div k)
<1>1. k \in Nat \ {0} /\ gap \in Int /\ planned_sim_dt_ \in Nat
  BY PaceAssumption DEF PaceInv, Numbers
<1> DEFINE x == Cut(gap)
           y == Cut(planned_sim_dt_)
           z == Cut(gap + planned_sim_dt_)
           r == IF planned_sim_dt_ % k = 0 /\ gap % k = 0 THEN 0 ELSE 1
<1>2. Planned = y /\ Synchronized = syn_clk_t_ + z - current_clk_t_
      /\ Ahead = x - (current_clk_t_ - syn_clk_t_)
  BY DEF Planned, Synchronized, Ahead, Milliseconds
<1>3. x + y - r <= z /\ z <= x + y + r /\ x \in Int /\ y \in Nat /\ z \in Int /\ r \in Int
  <2> HIDE DEF k, gap
  <2> QED  BY <1>1, TruncatedSum
<1>4. syn_clk_t_ \in Int /\ current_clk_t_ \in Int
  BY DEF PaceInv, Numbers
<1>5. /\ Ahead \in Int /\ Planned \in Nat /\ Synchronized \in Int
      /\ Ahead - r <= Synchronized - Planned
      /\ Synchronized - Planned <= Ahead + r
  <2> HIDE DEF x, y, z, r
  <2> QED  BY <1>2, <1>3, <1>4
<1>6. QED
  BY <1>5

LEMMA StepSettles ==
    ASSUME PaceInv, [PaceNext]_paceVars
    PROVE  Settles
<1> DEFINE k == MillisecondTicks * t_adv_rate_
           r == IF planned_sim_dt_ % k = 0 /\ (current_sim_t_ - syn_sim_t_) % k = 0
                THEN 0 ELSE 1
<1> SUFFICES ASSUME last_frame >= 1, ~finished, current_sim_t_' # current_sim_t_,
                    current_clk_t_' = planned_clock_time, t_adv_rate_ # 0
             PROVE  /\ Min({Ahead, 0}) <= Ahead' + r
                    /\ Ahead' <= Max({Ahead, 0}) + r
  BY DEF Settles
<1>1. CallReturns
  <2>1. process_frame_if_time_reached \/ process_next_events \/ ClockAdvances \/ Ended
           \/ UNCHANGED paceVars => current_sim_t_' = current_sim_t_
    BY DEF process_frame_if_time_reached, process_next_events, ClockAdvances, Ended,
           paceVars, bufferVars, currentVars
  <2>2. UserCalls => current_sim_t_' = current_sim_t_
    BY DEF UserCalls, update_time_advancement_rate, update_time_synchronization_rate,
           update_synchronization_time, currentVars
  <2>3. QED
    BY <2>1, <2>2 DEF PaceNext
<1> DEFINE a == Ahead
           p == Planned
           s == Synchronized
           v == planned_clk_dt_
<1>2. Ahead' = s - v
  BY <1>1, PunctualFrame
<1>3. a \in Int /\ p \in Nat /\ s \in Int /\ a - r <= s - p /\ s - p <= a + r /\ r \in {0, 1}
  BY AheadIsDrift
<1>4. /\ v \in Int
      /\ s >= p => p <= v /\ v <= s
      /\ s <= p => s <= v /\ v <= p
  <2>1. CASE v = p
    <3>1. v \in Int /\ s \in Int /\ p \in Int
      BY <1>3, <2>1
    <3> HIDE DEF p, s, v
    <3>2. QED
      BY <2>1, <3>1
  <2>2. ASSUME NEW st \in 0 .. 100, v = Corrected(p, s, st) PROVE <1>4!:
    <3> HIDE DEF p, s, v, a, r
    <3>1. /\ v \in Nat
          /\ s > p => p <= v /\ v <= s
          /\ s <= p => s <= v /\ v <= p
      BY <1>3, <2>2, CorrectedBetween
    <3>2. QED
      BY <1>3, <3>1
  <2>3. QED
    BY <2>1, <2>2 DEF PaceInv, PlanIsCurrent
<1>5. /\ Min({a, 0}) = IF a >= 0 THEN 0 ELSE a
      /\ Max({a, 0}) = IF a >= 0 THEN a ELSE 0
  BY <1>3, TheGreater
<1>6. Min({a, 0}) <= (s - v) + r /\ s - v <= Max({a, 0}) + r
  <2> HIDE DEF a, p, s, v, r
  <2> QED  BY <1>3, <1>4, <1>5
<1>7. QED
  BY <1>2, <1>6

\* A frame that is processed when it was recommended never leaves the
\* simulation further from the clock than it was, nor on the other side of it,
\* whatever the rate, the drift and the strength of the correction.
THEOREM SynchronizationSettles == PaceSpec => DriftSettles
<1>1. PaceInit => PaceInv
  BY PaceInitially
<1>2. PaceInv /\ [PaceNext]_paceVars => PaceInv'
  BY PaceInductive
<1>3. PaceInv /\ [PaceNext]_paceVars => Settles
  BY StepSettles
<1>4. QED
  BY <1>1, <1>2, <1>3, PTL DEF PaceSpec, DriftSettles
=============================================================================
