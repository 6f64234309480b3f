-------------------------------- MODULE Customs --------------------------------
(***************************************************************************)
(* examples/research/customs: items travel from a source through queues    *)
(* and servers to a sink.  A station registers an item with the stations   *)
(* downstream, each of which may accept one item at a time; the station    *)
(* gives the item to one of those that accepted it, and tells all.         *)
(* Queues, servers, or lanes made of a queue and a server, can stand side  *)
(* by side as the agents of a collection, which passes their acceptances   *)
(* on one by one.  The lanes are opened and removed as needed.             *)
(*                                                                         *)
(* A message reaches its destinations before any other event, so an event  *)
(* of a station is one step.  Times matter as far as events coincide: when *)
(* time passes, some of the durations that are running end together.       *)
(***************************************************************************)
EXTENDS Integers, Sequences, FiniteSets, SequencesExt

CONSTANTS
    Source, Sink, Queues, Servers,  \* the stations
    LaneQueues,  \* the queues of lanes, in the order of the lanes' ids
    Downstream,  \* station -> the stations its output ports lead to
    Component,   \* station -> the component of the system it is or belongs to
    Agents,      \* component -> the stations it starts with, in order
    Booths,      \* the component that opens and removes lanes, if there is one
    Capacity,    \* station -> how many items it holds
    Orders,      \* orders in which the system may declare its components
    MaxItems,    \* bound on the items
    None

VARIABLES
    order,                 \* of the components; it does not change
    agents,                \* component -> its stations, in the order of events
    queue_,                \* station -> its items; at most one of a server
    served_,               \* the servers that have served their item
    registered_src_ids_, accepting_dst_ids_, registration_status_,
    acceptance_src_id_,    \* station -> the one from which it accepts an item
    planned,               \* the stations that have planned an event at once
    due,                   \* what has an event since a duration ends now
    next_item_id_,         \* of the source
    acceptance_values_,    \* component -> acceptances to be passed on
    item_counts_, total_item_count_, registration_src_ids_,
    opening,               \* whether remaining_lane_creation_dt_ is finite
    departed,              \* history: the items that the sink has put out
    error                  \* whether user code threw a logic_error

stationVars ==
    <<queue_, served_, registered_src_ids_, accepting_dst_ids_, registration_status_, acceptance_src_id_>>
laneVars == <<item_counts_, total_item_count_, registration_src_ids_, opening>>
vars ==
    <<order, agents, stationVars, planned, due, next_item_id_, acceptance_values_, laneVars, departed, error>>

Stations == {Source, Sink} \cup Queues \cup Servers
Components == {Component[s] : s \in Stations}
Existing == UNION {ToSet(agents[c]) : c \in Components}
DownstreamOf(s) == Downstream[s] \cap Existing
UpstreamOf(s) == {u \in Existing : s \in Downstream[u]}

\* A lane's stations share the lane's id; here it is the queue that stands for it.
ServerOf(lane) == CHOOSE s \in Downstream[lane] : TRUE
InLane(s) == s \in ToSet(LaneQueues)
LaneOf(server) == {u \in ToSet(LaneQueues) : server \in Downstream[u]}

Init ==
    /\ order \in Orders
    /\ agents = Agents
    /\ queue_ = [s \in Stations |-> <<>>] /\ served_ = {}
    /\ registered_src_ids_ = [s \in Stations |-> {}]
    /\ accepting_dst_ids_ = [s \in Stations |-> {}]
    /\ registration_status_ = {}
    /\ acceptance_src_id_ = [s \in Stations |-> None]
    /\ planned = {} /\ due = {}
    /\ next_item_id_ = 1
    /\ acceptance_values_ = [c \in Components |-> {}]
    /\ item_counts_ = <<>> /\ total_item_count_ = 0
    /\ registration_src_ids_ = {} /\ opening = FALSE
    /\ departed = <<>> /\ error = FALSE

-----------------------------------------------------------------------------
(* Whose turn it is                                                        *)

Awake(s) == s \in planned \cup due

\* The agents of a collection go before the collection itself.
AgentsAwake(c) == \E s \in ToSet(agents[c]) : Awake(s)
Imminent(c) == AgentsAwake(c) \/ acceptance_values_[c] # {} \/ c \in due

\* Of the components that have an event now the first goes first.
Turn(i) == Imminent(order[i]) /\ \A j \in 1 .. i - 1 : ~Imminent(order[j])

FirstAwake(c) ==
    LET i == CHOOSE i \in DOMAIN agents[c] :
                 Awake(agents[c][i]) /\ \A j \in 1 .. i - 1 : ~Awake(agents[c][j])
    IN agents[c][i]

\* The durations that are running: of services, until the next item, and until
\* the next lane.
Running ==
    {s \in Existing \cap Servers : queue_[s] # <<>> /\ s \notin served_}
        \cup (IF next_item_id_ <= MaxItems THEN {Source} ELSE {})
        \cup (IF opening THEN {Booths} ELSE {})

Quiet == \A c \in Components : ~Imminent(c)

TimePasses ==
    /\ Quiet
    /\ due' \in SUBSET Running \ {{}}
    /\ UNCHANGED <<order, agents, stationVars, planned, next_item_id_, acceptance_values_, laneVars, departed, error>>

-----------------------------------------------------------------------------
(* What stations tell each other                                           *)

\* An acceptance reaches all stations upstream of dst: the one that is meant
\* notes it, and the others that dst accepts nothing from them.
Accepting(s, src, dst) ==
    IF s = src THEN accepting_dst_ids_[s] \cup {dst} ELSE accepting_dst_ids_[s] \ {dst}

\* The stations that then have an event at once: the source if it can give
\* an item away, and the others in any case.
PlannedBy(src, dst, upstream) ==
    IF Source \in upstream
    THEN (planned \ {Source}) \cup
             {u \in {Source} : queue_[u] # <<>> /\ Accepting(u, src, dst) # {}}
    ELSE planned \cup upstream

\* A station cannot be accepted from that has nothing registered.
Ready(s) == IF s \in Servers THEN s \in served_ ELSE queue_[s] # <<>>
Refused(src, upstream) == src \in upstream \ {Source} /\ ~Ready(src)

\* A collection keeps the acceptances of its agents, except those inside a lane.
Buffered(s) == Component[s] # s /\ LaneOf(s) = {}

\* Mutant: acceptances of an item that is gone are still passed on.
Withdrawn_Not(c, src) == acceptance_values_[c]

\* A collection drops the acceptances of an item when it sees it go.
Withdrawn(c, src) == {v \in acceptance_values_[c] : v[1] # src}

-----------------------------------------------------------------------------
(* An event of a station: it gives an item away, then accepts one, then    *)
(* registers one.                                                          *)

Items(s) == IF s = Source /\ s \in due THEN Append(queue_[s], next_item_id_) ELSE queue_[s]

\* What is left when its first item has been given to dst.
Left(s, dst) ==
    CASE s = Sink -> <<>>
      [] s # Sink /\ dst = None -> Items(s)
      [] OTHER -> Tail(Items(s))

Receivers(s) == IF accepting_dst_ids_[s] = {} THEN {None} ELSE accepting_dst_ids_[s]

Providers(s, left) ==
    IF registered_src_ids_[s] = {} \/ acceptance_src_id_[s] # None \/ Len(left) >= Capacity[s]
    THEN {None} ELSE registered_src_ids_[s]

\* Mutant: a station that has given an item away does not register the next.
Registers_Once(s, left, dst) ==
    IF s \in Servers THEN s \in due ELSE s # Sink /\ left # <<>> /\ s \notin registration_status_

\* A server registers what it has just served, the others the next item once.
Registers(s, left, dst) ==
    IF s \in Servers THEN s \in due
    ELSE s # Sink /\ left # <<>> /\ (dst # None \/ s \notin registration_status_)

\* What a lane's server gives away leaves the booths, and the last item takes
\* the lane with it.
Closed(s, dst) ==
    UNION {{lane, s} : lane \in {l \in LaneOf(s) : dst # None /\ item_counts_[l] = 1}}

\* The event in full: the item that goes to dst, if one does, the one accepted
\* from src and the one registered; who hears of it, upstream and downstream; the
\* stations downstream whose acceptance it settles; and what is removed.
Exchange(s, dst, src) ==
    [dst |-> dst, src |-> src,
     sent |-> {s} \ (IF dst = None THEN {s} ELSE {}),
     registered |-> {s} \ (IF Registers(s, Left(s, dst), dst) THEN {} ELSE {s}),
     upstream |-> IF src = None \/ Buffered(s) THEN {} ELSE UpstreamOf(s),
     downstream |-> DownstreamOf(s),
     settled |-> {d \in DownstreamOf(s) : dst # None /\ acceptance_src_id_[d] = s},
     closed |-> Closed(s, dst)]

Exchanges(s) ==
    UNION {{Exchange(s, dst, src) : src \in Providers(s, Left(s, dst))} : dst \in Receivers(s)}

\* The booths count the items of their lanes and, when all lanes are full and
\* an item is registered, plan to open another one.
Feeds(s) == Downstream[s] \cap ToSet(LaneQueues) # {}

Counted(e, lane, change) ==
    [l \in (DOMAIN item_counts_ \cup {lane}) \ e.closed |->
        (IF l \in DOMAIN item_counts_ THEN item_counts_[l] ELSE 0) + (IF l = lane THEN change ELSE 0)]

Full(counts, total) ==
    \A lane \in ToSet(LaneQueues) : total = Cardinality(DOMAIN counts) * (Capacity[lane] + 1)

BoothsSee(s, e) ==
    /\ item_counts_' =
           CASE e.sent # {} /\ Feeds(s) -> Counted(e, e.dst, 1)
             [] e.sent # {} /\ LaneOf(s) # {} -> Counted(e, CHOOSE l \in LaneOf(s) : TRUE, -1)
             [] OTHER -> item_counts_
    /\ total_item_count_' =
           total_item_count_ + (IF e.sent = {} THEN 0 ELSE IF Feeds(s) THEN 1 ELSE IF LaneOf(s) # {} THEN -1 ELSE 0)
    /\ IF Feeds(s)
       THEN /\ registration_src_ids_' = (registration_src_ids_ \ e.sent) \cup e.registered
            /\ opening' = (opening \/ (e.registered # {} /\ Full(item_counts_', total_item_count_')))
       ELSE UNCHANGED <<registration_src_ids_, opening>>

Exchanged(s, e) ==
    LET given == e.downstream \cap {e.dst}
        told == IF e.sent \cup e.registered = {} THEN {} ELSE e.downstream
    IN  /\ queue_' =
               [x \in Stations |->
                   CASE x \in e.closed -> <<>>
                     [] x = s -> Left(s, e.dst)
                     [] x \in given \cap e.settled -> Append(queue_[x], Head(Items(s)))
                     [] OTHER -> queue_[x]]
        /\ served_' =
               (served_ \ (e.closed \cup e.sent \cup (given \cap e.settled))) \cup ({s} \cap Servers \cap due)
        /\ registered_src_ids_' =
               [x \in Stations |->
                   CASE x \in e.closed -> {}
                     [] x \in e.downstream -> (registered_src_ids_[x] \ e.sent) \cup e.registered
                     [] OTHER -> registered_src_ids_[x]]
        /\ accepting_dst_ids_' =
               [x \in Stations |->
                   CASE x = s \/ x \in e.closed -> {}
                     [] x \in e.upstream -> Accepting(x, e.src, s)
                     [] OTHER -> accepting_dst_ids_[x]]
        /\ registration_status_' = ((registration_status_ \ e.sent) \cup e.registered) \ e.closed
        /\ acceptance_src_id_' =
               [x \in Stations |->
                   CASE x \in e.closed \cup e.settled -> None
                     [] x = s /\ e.src # None -> e.src
                     [] OTHER -> acceptance_src_id_[x]]
        /\ planned' =
               ((IF e.upstream = {} THEN planned ELSE PlannedBy(e.src, s, e.upstream)) \ ({s} \cup e.closed)) \cup told
        /\ error' = (given \ e.settled # {} \/ Refused(e.src, e.upstream))

StationEvent(s) ==
    \E e \in Exchanges(s) :
        /\ Exchanged(s, e)
        /\ BoothsSee(s, e)
        /\ acceptance_values_' =
               [c \in Components |->
                   (IF e.sent # {} /\ \E d \in Downstream[s] : c = Component[d]
                    THEN Withdrawn(c, s) ELSE acceptance_values_[c])
                       \cup (IF c = Component[s] /\ Buffered(s) /\ e.src # None THEN {<<e.src, s>>} ELSE {})]
        /\ agents' = [c \in Components |-> SelectSeq(agents[c], LAMBDA a : a \notin e.closed)]
        /\ due' = due \ ({s} \cup e.closed)
        /\ next_item_id_' = next_item_id_ + Cardinality({s} \cap {Source} \cap due)
        /\ departed' = IF s = Sink THEN departed \o queue_[s] ELSE departed
        /\ UNCHANGED order

-----------------------------------------------------------------------------
(* Events of the collections                                               *)

PassesOn(c) ==
    \E v \in acceptance_values_[c] : \E upstream \in {UpstreamOf(v[2])} :
        /\ acceptance_values_' = [acceptance_values_ EXCEPT ![c] = @ \ {v}]
        /\ accepting_dst_ids_' =
               [x \in Stations |->
                   IF x \in upstream THEN Accepting(x, v[1], v[2]) ELSE accepting_dst_ids_[x]]
        /\ planned' = PlannedBy(v[1], v[2], upstream)
        /\ error' = Refused(v[1], upstream)
        /\ UNCHANGED <<order, agents, queue_, served_, registered_src_ids_, registration_status_, acceptance_src_id_,
                       due, next_item_id_, laneVars, departed>>

\* The lane of the least id that is free, with what is registered at the time.
OpensLane(c) ==
    /\ acceptance_values_[c] = {}
    /\ \E i \in DOMAIN LaneQueues :
           LET lane == LaneQueues[i]
           IN  /\ lane \notin Existing /\ \A j \in 1 .. i - 1 : LaneQueues[j] \in Existing
               /\ agents' = [agents EXCEPT ![c] = @ \o <<lane, ServerOf(lane)>>]
               /\ item_counts_' = [l \in DOMAIN item_counts_ \cup {lane} |-> IF l = lane THEN 0 ELSE item_counts_[l]]
               /\ registered_src_ids_' = [registered_src_ids_ EXCEPT ![lane] = registration_src_ids_]
               /\ planned' = planned \cup (IF registration_src_ids_ = {} THEN {} ELSE {lane})
    /\ opening' = FALSE /\ due' = due \ {c}
    /\ UNCHANGED <<order, queue_, served_, accepting_dst_ids_, registration_status_, acceptance_src_id_, next_item_id_,
                   acceptance_values_, total_item_count_, registration_src_ids_, departed, error>>

Event(c) ==
    \/ AgentsAwake(c) /\ StationEvent(FirstAwake(c))
    \/ ~AgentsAwake(c) /\ (PassesOn(c) \/ OpensLane(c))

Ended == Quiet /\ Running = {} /\ UNCHANGED vars

Next ==
    \/ ~error /\ (TimePasses \/ \E i \in DOMAIN order : Turn(i) /\ Event(order[i]))
    \/ Ended

Spec == Init /\ [][Next]_vars
FairSpec == Spec /\ WF_vars(Next)

-----------------------------------------------------------------------------
(* Properties                                                              *)

Held(s) == {queue_[s][i] : i \in DOMAIN queue_[s]}

\* Every item is in one place, and no station holds more than it has room for: in
\* the order in which customs_closed_system.h declares its components, whichever
\* durations end together; not in every order (MCProgress!NoItemIsLost).
ItemsInOnePlace ==
    /\ Cardinality(UNION {Held(s) : s \in Stations} \cup ToSet(departed))
          = next_item_id_ - 1
    /\ FoldSet(LAMBDA s, n : n + Len(queue_[s]), Len(departed), Stations) = next_item_id_ - 1
    /\ \A s \in Stations \ {Source} : Len(queue_[s]) <= Capacity[s]

\* main.cpp:5, for user code: no logic_error is thrown.
ErrorFree == ~error

\* The booths know how many items are in each of their lanes.
CountsAgree ==
    /\ DOMAIN item_counts_ = Existing \cap ToSet(LaneQueues)
    /\ \A lane \in DOMAIN item_counts_ :
          item_counts_[lane] = Len(queue_[lane]) + Len(queue_[ServerOf(lane)])
    /\ total_item_count_ = FoldSet(LAMBDA l, n : n + item_counts_[l], 0, DOMAIN item_counts_)

\* When nothing more will happen, every item has departed.
NothingIsStuck == Quiet /\ Running = {} => Len(departed) = MaxItems

\* Every item departs.
ItemsArrive == <>(Len(departed) = MaxItems)
================================================================================
