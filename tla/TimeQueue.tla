------------------------------ MODULE TimeQueue ------------------------------
(***************************************************************************)
(* time_queue.cpp: a schedule in which the time of an event is stored as   *)
(* its phase within an epoch, so that advancing the current time touches   *)
(* no event.  A phase is kept at the coarsest precision that represents    *)
(* it, which makes it unique; the queue orders phases by the time left     *)
(* until them.                                                             *)
(***************************************************************************)
EXTENDS EventPlans, Sequences, FiniteSets

CONSTANT AdvanceTargets  \* the time points advance_time(t) is called with

ASSUME AdvanceTargetsAssumption == AdvanceTargets \subseteq Int

VARIABLES
    default_precision_,  \* precision given to the phase of time zero
    ct_,                 \* the current time
    queue_,              \* the phases of the planned events, in order
    event_id_sets_,      \* phase -> the ids of the events at that phase
    event_accounts_      \* id -> the phase and the precision it was planned at

schedule == <<queue_, event_id_sets_, event_accounts_>>
vars == <<default_precision_, ct_, schedule>>

NoEntries == [x \in {} |-> x]
Without(f, x) == [y \in DOMAIN f \ {x} |-> f[y]]
With(f, x, v) == [y \in DOMAIN f \cup {x} |-> IF y = x THEN v ELSE f[y]]

-----------------------------------------------------------------------------
(* Durations and phases, for a current time ct                             *)

duration_from_phase(ct, pdt) ==
    LET m == pdt.m - epoch_phase(ct, pdt.p)
    IN  Duration(IF m < 0 THEN m + quantity_limit ELSE m, pdt.p)

refined_duration(ct, dt, p) ==
    LET refine[s \in Nat] ==
            [m \in Int |-> IF m >= quantity_limit \/ s <= p THEN m
                           ELSE refine[s - 1][Base * m - scale_phase(ct, s - 1)]]
    IN  IF dt.m = 0 THEN Duration(0, p)
        ELSE quantity(refine[dt.p][dt.m], p)

\* Mutant: refining ignores the finer digits of the current time.
rescaled_duration_from_phase_Scaled(ct, pdt, p) ==
    LET dt == duration_from_phase(ct, pdt)
    IN  IF p <= dt.p THEN quantity(dt.m * Tick(dt.p - p), p) ELSE Duration(dt.m, p)

rescaled_duration_from_phase(ct, pdt, p) ==
    LET dt == duration_from_phase(ct, pdt)
    IN  IF p <= dt.p THEN refined_duration(ct, dt, p) ELSE Duration(dt.m, p)

\* Mutants: the phase stays at the precision it was planned with; the wrap
\* into the next epoch is one early.
phase_from_duration_Planned(ct, dt) ==
    LET p == IF dt.m = 0 THEN precision(ct) ELSE dt.p
    IN  Duration((epoch_phase(ct, p) + dt.m) % quantity_limit, p)
phase_from_duration_Early(ct, dt) ==
    LET p == IF dt.m = 0 THEN precision(ct) ELSE dt.p
        phase == epoch_phase(ct, p) + dt.m
    IN  Duration(IF phase >= quantity_limit - 1 THEN phase - quantity_limit ELSE phase, p)

\* The phase of the event dt ahead, at the coarsest precision that holds it.
phase_from_duration(ct, dt) ==
    LET first == IF dt.m = 0 THEN precision(ct) ELSE dt.p
        coarsen[p \in Nat] ==
            [phase \in 0 .. 2 * quantity_limit - 1 |->
                LET carry == IF phase >= quantity_limit THEN 1 ELSE 0
                    rest == phase - carry * quantity_limit
                    beyond == p + EpochScales
                    coarseness_unbounded ==
                        /\ rest = 0
                        /\ beyond >= scale_above(ct)
                        /\ carry = IF ct >= 0 THEN 0 ELSE 1
                IN  IF rest % Base # 0 THEN Duration(rest, p)
                    ELSE IF coarseness_unbounded THEN Duration(rest, default_precision_)
                    ELSE coarsen[p + 1][rest \div Base + (quantity_limit \div Base)
                                            * (scale_phase(ct, beyond) + carry)]]
    IN  coarsen[first][epoch_phase(ct, first) + dt.m]

\* The comparison phase_lower_bound searches the queue with.
Sooner(entry, value) ==
    LET p == IF entry.p < value.p THEN entry.p ELSE value.p
        Until(pdt) == refined_duration(ct_, duration_from_phase(ct_, pdt), p)
    IN  ~LessEq(Until(value), Until(entry))

phase_lower_bound(q, pdt) ==
    CHOOSE k \in 1 .. Len(q) + 1 :
        /\ \A j \in 1 .. k - 1 : Sooner(q[j], pdt)
        /\ k <= Len(q) => ~Sooner(q[k], pdt)

-----------------------------------------------------------------------------
(* Queries                                                                 *)

queue_empty == event_accounts_ = NoEntries

imminent_duration(ct) == IF queue_empty THEN inf ELSE duration_from_phase(ct, queue_[1])

duration_until(id) ==
    IF id \in DOMAIN event_accounts_
    THEN rescaled_duration_from_phase(ct_, event_accounts_[id].phase, event_accounts_[id].precision)
    ELSE inf

imminent_event_ids == event_id_sets_[queue_[1]]

\* Mutant: durations are compared without refining them to one precision.
can_advance_by_Unrefined(ct, dt) == LessEq(dt, imminent_duration(ct))

\* An advance by dt does not pass an event that is imminent_dt ahead.
NotBeyond(ct, dt, imminent_dt) ==
    LET p == IF dt.p < imminent_dt.p THEN dt.p ELSE imminent_dt.p
    IN  \/ dt.m = 0
        \/ ~finite(imminent_dt)
        \/ LessEq(refined_duration(ct, dt, p), refined_duration(ct, imminent_dt, p))

can_advance_by(ct, dt) == NotBeyond(ct, dt, imminent_duration(ct))

-----------------------------------------------------------------------------
Init ==
    /\ ct_ \in StartTimes
    /\ default_precision_ = scale_above(ct_)
    /\ queue_ = <<>>
    /\ event_id_sets_ = NoEntries
    /\ event_accounts_ = NoEntries

\* The schedule after cancel_event(id), for the other operations to build on.
Cancelled(id) ==
    LET pdt == event_accounts_[id].phase
        k == phase_lower_bound(queue_, pdt)
        last == Cardinality(event_id_sets_[pdt]) = 1
    IN  IF id \notin DOMAIN event_accounts_
        THEN [queue |-> queue_, sets |-> event_id_sets_, accounts |-> event_accounts_]
        ELSE [queue |-> IF last THEN SubSeq(queue_, 1, k - 1) \o SubSeq(queue_, k + 1, Len(queue_))
                        ELSE queue_,
              sets |-> IF last THEN Without(event_id_sets_, pdt)
                       ELSE [event_id_sets_ EXCEPT ![pdt] = @ \ {id}],
              accounts |-> Without(event_accounts_, id)]

\* Mutant: an event that is planned again is not cancelled first.
plan_event_Again(id, dt) ==
    LET pdt == phase_from_duration(ct_, dt)
        k == phase_lower_bound(queue_, pdt)
        known == k <= Len(queue_) /\ queue_[k] = pdt
    IN  /\ queue_' = IF known THEN queue_
                     ELSE SubSeq(queue_, 1, k - 1) \o <<pdt>> \o SubSeq(queue_, k, Len(queue_))
        /\ event_id_sets_' =
              With(event_id_sets_, pdt, IF known THEN event_id_sets_[pdt] \cup {id} ELSE {id})
        /\ event_accounts_' = With(event_accounts_, id, [phase |-> pdt, precision |-> dt.p])
        /\ UNCHANGED <<default_precision_, ct_>>

plan_event(id, dt) ==
    LET s == Cancelled(id)
        pdt == phase_from_duration(ct_, dt)
        k == phase_lower_bound(s.queue, pdt)
        known == k <= Len(s.queue) /\ s.queue[k] = pdt
    IN  /\ queue_' = IF known THEN s.queue
                     ELSE SubSeq(s.queue, 1, k - 1) \o <<pdt>> \o SubSeq(s.queue, k, Len(s.queue))
        /\ event_id_sets_' =
              With(s.sets, pdt, IF known THEN s.sets[pdt] \cup {id} ELSE {id})
        /\ event_accounts_' = With(s.accounts, id, [phase |-> pdt, precision |-> dt.p])
        /\ UNCHANGED <<default_precision_, ct_>>

cancel_event(id) ==
    LET s == Cancelled(id)
    IN  /\ queue_' = s.queue
        /\ event_id_sets_' = s.sets
        /\ event_accounts_' = s.accounts
        /\ UNCHANGED <<default_precision_, ct_>>

pop_imminent_event(id) ==
    LET pdt == queue_[1]
        ids == event_id_sets_[pdt]
    IN  /\ ~queue_empty
        /\ id \in ids
        /\ \/ /\ Cardinality(ids) > 1
              /\ event_id_sets_' = [event_id_sets_ EXCEPT ![pdt] = @ \ {id}]
              /\ UNCHANGED queue_
           \/ /\ Cardinality(ids) = 1
              /\ event_id_sets_' = Without(event_id_sets_, pdt)
              /\ queue_' = Tail(queue_)
        /\ event_accounts_' = Without(event_accounts_, id)
        /\ UNCHANGED <<default_precision_, ct_>>

pop_imminent_events ==
    /\ ~queue_empty
    /\ event_accounts_' = [i \in DOMAIN event_accounts_ \ imminent_event_ids |-> event_accounts_[i]]
    /\ event_id_sets_' = Without(event_id_sets_, queue_[1])
    /\ queue_' = Tail(queue_)
    /\ UNCHANGED <<default_precision_, ct_>>

\* advance_time(): to the imminent events.
advance_time ==
    LET t == advance(ct_, imminent_duration(ct_))
    IN  /\ ~queue_empty
        /\ t <= MaxTime
        /\ ct_' = t
        /\ UNCHANGED <<default_precision_, schedule>>

advance_time_by(dt) ==
    /\ can_advance_by(ct_, dt)
    /\ advance(ct_, dt) <= MaxTime
    /\ ct_' = advance(ct_, dt)
    /\ UNCHANGED <<default_precision_, schedule>>

\* Mutant: time is advanced by the gap to t once.
LoopEnd_Once(t) ==
    LET dt == gap(t, ct_)
    IN  IF ct_ < t /\ can_advance_by(ct_, dt) THEN advance(ct_, dt) ELSE ct_

\* Where the loop of advance_time(t) ends: at t or beyond it, or short of it
\* when a step would pass an event.  It throws unless it ends at t.
LoopEnd(t) ==
    LET step[ct \in Int] ==
            LET dt == gap(t, ct)
            IN  IF ct < t /\ can_advance_by(ct, dt) THEN step[advance(ct, dt)] ELSE ct
    IN  step[ct_]

advance_time_to(t) ==
    /\ ct_ <= t
    /\ ct_' = LoopEnd(t)
    /\ ct_' <= MaxTime
    /\ UNCHANGED <<default_precision_, schedule>>

Next ==
    \/ \E id \in Ids :
          \/ cancel_event(id)
          \/ pop_imminent_event(id)
          \/ \E dt \in PlanDurations : plan_event(id, dt)
    \/ pop_imminent_events
    \/ advance_time
    \/ \E dt \in PlanDurations : advance_time_by(dt)
    \/ \E t \in AdvanceTargets : advance_time_to(t)

Spec == Init /\ [][Next]_vars

-----------------------------------------------------------------------------
(* Properties                                                              *)

\* The representation: phases and accounts are well formed.
TypeOK ==
    LET Phase == [m : Nat, p : Nat]
    IN  /\ ct_ \in Int
        /\ default_precision_ \in Nat
        /\ queue_ \in Seq(Phase)
        /\ DOMAIN event_id_sets_ \subseteq Phase
        /\ \A pdt \in DOMAIN event_id_sets_ : event_id_sets_[pdt] \subseteq Ids
        /\ DOMAIN event_accounts_ \subseteq Ids
        /\ \A id \in DOMAIN event_accounts_ :
              event_accounts_[id] \in [phase : Phase, precision : Nat]

\* The three containers of time_queue agree after every sequence of calls: the
\* queue holds each phase of event_id_sets_ once, and the set kept for a phase
\* is never empty and holds exactly the ids accounted to that phase.
ContainersAgree ==
    /\ DOMAIN event_id_sets_ = {queue_[k] : k \in DOMAIN queue_}
    /\ \A j, k \in DOMAIN queue_ : queue_[j] = queue_[k] => j = k
    /\ \A pdt \in DOMAIN event_id_sets_ :
          /\ event_id_sets_[pdt] # {}
          /\ event_id_sets_[pdt] =
                {id \in DOMAIN event_accounts_ : event_accounts_[id].phase = pdt}
    /\ \A id \in DOMAIN event_accounts_ :
          event_accounts_[id].phase \in DOMAIN event_id_sets_

\* The time a stored phase denotes, seen from the current time.
TimeOf(pdt) ==
    LET dt == duration_from_phase(ct_, pdt)
    IN  Floor(ct_, dt.p) + dt.m * Tick(dt.p)

\* The queue is in order of event time and no time has two entries, across
\* precisions, epochs and the sign of the current time: popping the front
\* pops all events of the earliest time and nothing else.
QueueInOrder ==
    \A j, k \in DOMAIN queue_ : j < k => TimeOf(queue_[j]) < TimeOf(queue_[k])

\* The doc of class time_queue: the time of an event is current_time() advanced
\* by the duration reported until it, however the current time has moved since
\* the event was planned.
DurationUntilExact ==
    \A id \in DOMAIN event_accounts_ :
        /\ finite(duration_until(id))
        /\ advance(ct_, duration_until(id)) = TimeOf(event_accounts_[id].phase)

\* time_queue.cpp: the list of phases and the two maps agree, the list is in
\* the order of time, and the duration until an event is the exact one.
QueueSound == TypeOK /\ ContainersAgree /\ QueueInOrder /\ DurationUntilExact

\* advance_time(t) falls short of t only when an event lies before t.
StopsOnlyForEvents ==
    [][\A t \in AdvanceTargets :
          ct_ # ct_' /\ ct_' < t /\ advance_time_to(t)
              => \E k \in DOMAIN queue_ : TimeOf(queue_[k]) < t]_vars

\* The phases stored by time_queue implement the calendar of event times: no
\* sequence of calls loses, moves, reorders or passes an event.
DueTimes == [id \in DOMAIN event_accounts_ |-> TimeOf(event_accounts_[id].phase)]
Promise == INSTANCE Calendar WITH now <- ct_, due <- DueTimes
ImplementsCalendar == Promise!Spec

\* time_queue.h:57, "Advances the current time to `t`": with no event in the
\* way the call ends at t.
AdvanceReachesTarget ==
    [][\A t \in AdvanceTargets : advance_time_to(t) => ct_' <= t]_vars
=============================================================================
