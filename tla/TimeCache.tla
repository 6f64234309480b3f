----------------------------- MODULE TimeCache -----------------------------
(***************************************************************************)
(* time_cache.cpp: past events kept in a time_queue, each planned the      *)
(* longest duration of its scale ahead, so that what is left until it      *)
(* tells how long ago it was.  An event that time passes is forgotten.     *)
(***************************************************************************)
EXTENDS EventPlans, Sequences

CONSTANTS
    RetainScales,    \* the scales events are retained at
    CacheDurations,  \* the durations advance_time(dt) is called with
    CacheTargets,    \* the time points advance_time(t) is called with
    CacheStarts,     \* the times a cache may be created at
    CacheMaxTime     \* bound: no call moves the current time beyond it

ASSUME TimeCacheAssumption ==
    /\ RetainScales \subseteq Scales
    /\ CacheDurations \subseteq [m : Nat, p : Scales]
    /\ \A dt \in CacheDurations : finite(dt)
    /\ CacheTargets \subseteq Int
    /\ CacheStarts \subseteq Int
    /\ CacheMaxTime \in Int

VARIABLES
    cache_precision, cache_ct, cache_queue, cache_sets, cache_accounts,  \* of tq_
    event_ids_                                                           \* the retained ids

longest(p) == Duration(quantity_limit - 1, p)

\* The queue plans each retained event the longest duration of its scale ahead.
tq_ ==
    INSTANCE TimeQueue WITH
        PlanDurations <- {longest(p) : p \in RetainScales}, AdvanceTargets <- CacheTargets,
        StartTimes <- CacheStarts, MaxTime <- CacheMaxTime,
        default_precision_ <- cache_precision, ct_ <- cache_ct, queue_ <- cache_queue,
        event_id_sets_ <- cache_sets, event_accounts_ <- cache_accounts

cacheVars == <<cache_precision, cache_ct, cache_queue, cache_sets, cache_accounts, event_ids_>>

\* Mutant: the elapsed duration is taken from the limit itself.
duration_since_Late(id) ==
    LET until_dt == tq_!duration_until(id)
    IN  IF finite(until_dt) THEN quantity(quantity_limit - until_dt.m, until_dt.p) ELSE inf

duration_since(id) ==
    LET until_dt == tq_!duration_until(id)
    IN  IF finite(until_dt) THEN Duration(quantity_limit - 1 - until_dt.m, until_dt.p) ELSE inf

-----------------------------------------------------------------------------
CacheInit == tq_!Init /\ event_ids_ = {}

retain_event(id, p) ==
    /\ tq_!plan_event(id, longest(p))
    /\ event_ids_' = event_ids_ \cup {id}

release_event(id) ==
    /\ tq_!cancel_event(id)
    /\ event_ids_' = IF id \in DOMAIN cache_accounts THEN event_ids_ \ {id} ELSE event_ids_

\* The entry k of the queue is passed when time is advanced by dt.
Blocks(ct, dt, k) == ~tq_!NotBeyond(ct, dt, tq_!duration_from_phase(ct, cache_queue[k]))

\* Mutant: at most one entry is popped.
Popped_One(ct, dt, n) ==
    IF n < Len(cache_queue) /\ Blocks(ct, dt, n + 1) THEN n + 1 ELSE n

\* How many entries of the queue, of which n are popped already, are popped
\* before time can be advanced by dt.
Popped(ct, dt, n) ==
    CHOOSE k \in n .. Len(cache_queue) :
        /\ \A j \in n + 1 .. k : Blocks(ct, dt, j)
        /\ k < Len(cache_queue) => ~Blocks(ct, dt, k + 1)

IdsAt(pdts) == UNION {cache_sets[pdt] : pdt \in pdts}

\* The first n entries are popped and the current time becomes t.
Advanced(t, n) ==
    LET ids == IdsAt({cache_queue[k] : k \in 1 .. n})
    IN  /\ t <= CacheMaxTime
        /\ cache_ct' = t
        /\ cache_queue' = SubSeq(cache_queue, n + 1, Len(cache_queue))
        /\ cache_sets' = [pdt \in {cache_queue[k] : k \in n + 1 .. Len(cache_queue)} |-> cache_sets[pdt]]
        /\ cache_accounts' = [id \in DOMAIN cache_accounts \ ids |-> cache_accounts[id]]
        /\ event_ids_' = event_ids_ \ ids
        /\ UNCHANGED cache_precision

advance_cache_by(dt) == Advanced(advance(cache_ct, dt), Popped(cache_ct, dt, 0))

\* Where the loop of advance_time(t) ends, which repeats advance_time(dt): the
\* time and the number of entries popped.
CacheLoopEnd(t) ==
    LET step[ct \in Int] ==
            [n \in 0 .. Len(cache_queue) |->
                LET dt == gap(t, ct)
                IN  IF ct < t THEN step[advance(ct, dt)][Popped(ct, dt, n)] ELSE <<ct, n>>]
    IN  step[cache_ct][0]

\* It throws, time being advanced already, if that passes t.
advance_cache_to(t) ==
    /\ cache_ct <= t
    /\ Advanced(CacheLoopEnd(t)[1], CacheLoopEnd(t)[2])

CacheNext ==
    \/ \E id \in Ids : release_event(id) \/ \E p \in RetainScales : retain_event(id, p)
    \/ \E dt \in CacheDurations : advance_cache_by(dt)
    \/ \E t \in CacheTargets : advance_cache_to(t)

CacheSpec == CacheInit /\ [][CacheNext]_cacheVars

-----------------------------------------------------------------------------
(* Properties                                                              *)

\* The ids given out are those the queue accounts for, after any sequence of
\* retentions, releases and expiries.
IdsAgree == event_ids_ = DOMAIN cache_accounts

\* The time of retention that a stored phase stands for.
RetainedAt(account) ==
    tq_!TimeOf(account.phase) - longest(account.precision).m * Tick(account.precision)

\* The elapsed time is that between the retention and now, both cut to the
\* scale of the event, and infinite for an event that is not retained.
SinceExact ==
    \A id \in Ids :
        LET account == cache_accounts[id]
            p == account.precision
        IN  duration_since(id) =
                IF id \in event_ids_
                THEN Duration((Floor(cache_ct, p) - RetainedAt(account)) \div Tick(p), p) ELSE inf

\* time_cache.cpp: the time since a retained event is the exact one, cut to the
\* event's scale, and the ids given out are those accounted for.
CacheExact == IdsAgree /\ SinceExact

\* The cache implements a memory of past times: nothing is forgotten before it
\* is older than the longest duration, or remembered with another time.
RetainedTimes ==
    [id \in event_ids_ |->
        [at |-> RetainedAt(cache_accounts[id]), p |-> cache_accounts[id].precision]]
Remembered ==
    INSTANCE Memory WITH
        PlanDurations <- CacheDurations, StartTimes <- CacheStarts, MaxTime <- CacheMaxTime,
        now <- cache_ct, noted <- RetainedTimes
ImplementsMemory == Remembered!Spec
=============================================================================
