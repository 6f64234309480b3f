--------------------------- MODULE TimeCache_proofs ---------------------------
(***************************************************************************)
(* Proofs about TimeCache: what is told of a retained event is exact, and  *)
(* the cache implements a memory of past times.  They rest on what is      *)
(* proved of the time queue it owns, for the variables of that queue.      *)
(***************************************************************************)
EXTENDS TimeCache, TimeScale_proofs

\* The lemmas about time_queue, for the queue of the cache.
Q ==
    INSTANCE TimeQueue_proofs WITH
        PlanDurations <- {longest(p) : p \in RetainScales}, AdvanceTargets <- CacheTargets,
        StartTimes <- CacheStarts, MaxTime <- CacheMaxTime,
        default_precision_ <- cache_precision, ct_ <- cache_ct, queue_ <- cache_queue,
        event_id_sets_ <- cache_sets, event_accounts_ <- cache_accounts

-----------------------------------------------------------------------------
(* The operators of the three modules                                      *)

LEMMA SameTime ==
    /\ Q!quantity_limit = quantity_limit /\ Remembered!quantity_limit = quantity_limit
    /\ \A s : Q!Tick(s) = Tick(s) /\ Remembered!Tick(s) = Tick(s)
    /\ \A t, s : Q!Floor(t, s) = Floor(t, s) /\ Remembered!Floor(t, s) = Floor(t, s)
    /\ \A t, s : Q!Cut(t, s) = t \div Tick(s)
    /\ \A t, dt : Q!advance(t, dt) = advance(t, dt)
    /\ \A dt : Q!finite(dt) <=> finite(dt)
    /\ Q!Scales = Scales
<1>1. Q!power = power /\ Remembered!power = power
  BY Zenon DEF Q!power, Remembered!power, power
<1>2. QED
  BY <1>1, Zenon DEF Q!quantity_limit, Remembered!quantity_limit, quantity_limit, Q!Tick,
     Remembered!Tick, Tick, Q!Floor, Remembered!Floor, Floor, Q!Cut, Q!advance, advance,
     Q!finite, finite, Q!Scales, Scales

\* The longest duration of a scale that events are retained at.
LEMMA LongestIs ==
    ASSUME NEW p \in RetainScales
    PROVE  /\ p \in Nat
           /\ longest(p) \in [m : Nat, p : Scales] /\ finite(longest(p))
           /\ longest(p).m = quantity_limit - 1 /\ longest(p).m # 0 /\ longest(p).p = p
<1>1. quantity_limit \in Nat /\ quantity_limit > 1
  BY LimitPhases, BaseAssumption
<1>2. p \in Scales
  BY TimeCacheAssumption
<1>3. QED
  BY <1>1, <1>2, MaxScaleAssumption DEF longest, Duration, finite, Scales

\* What the lemmas about the queue assume holds of the queue of the cache.
LEMMA Assumptions ==
    /\ Q!BaseAssumption /\ Q!EpochScalesAssumption
    /\ Q!MaxScaleAssumption /\ Q!UnitAssumption
    /\ Q!EventPlansAssumption
    /\ Q!AdvanceTargetsAssumption
<1>1. \A dt \in {longest(p) : p \in RetainScales} :
          dt \in [m : Nat, p : Q!Scales] /\ Q!finite(dt)
  BY LongestIs, SameTime
<1>2. CacheStarts \subseteq Int /\ CacheMaxTime \in Int /\ CacheTargets \subseteq Int
  BY TimeCacheAssumption
<1>3. QED
  BY <1>1, <1>2, BaseAssumption, EpochScalesAssumption, MaxScaleAssumption, UnitAssumption

\* The operations of the queue that the cache calls.
LEMMA SameInit == tq_!Init <=> Q!Init
BY Zenon DEF tq_!Init, Q!Init, tq_!NoEntries, Q!NoEntries, tq_!scale_above, Q!scale_above,
   tq_!Tick, Q!Tick, tq_!power, Q!power, tq_!Magnitude, Q!Magnitude

LEMMA SameDurations ==
    /\ \A ct, pdt : tq_!duration_from_phase(ct, pdt) = Q!duration_from_phase(ct, pdt)
    /\ \A ct, dt, p : tq_!refined_duration(ct, dt, p) = Q!refined_duration(ct, dt, p)
    /\ \A a, b : tq_!LessEq(a, b) <=> Q!LessEq(a, b)
    /\ \A dt : tq_!finite(dt) <=> Q!finite(dt)
    /\ \A q, pdt : tq_!phase_lower_bound(q, pdt) = Q!phase_lower_bound(q, pdt)
<1>1. tq_!power = Q!power
  BY Zenon DEF tq_!power, Q!power
<1>2. tq_!quantity_limit = Q!quantity_limit
  BY <1>1, Zenon DEF tq_!quantity_limit, Q!quantity_limit
<1>3. \A s : tq_!Tick(s) = Q!Tick(s)
  BY <1>1, Zenon DEF tq_!Tick, Q!Tick
<1>4. ASSUME NEW ct, NEW pdt
      PROVE  tq_!duration_from_phase(ct, pdt) = Q!duration_from_phase(ct, pdt)
  BY <1>2, <1>3, Zenon DEF tq_!duration_from_phase, Q!duration_from_phase, tq_!epoch_phase, Q!epoch_phase,
     tq_!Duration, Q!Duration
<1>5. ASSUME NEW ct, NEW dt, NEW p
      PROVE  tq_!refined_duration(ct, dt, p) = Q!refined_duration(ct, dt, p)
  BY Zenon DEF tq_!refined_duration, Q!refined_duration, tq_!scale_phase, Q!scale_phase,
     tq_!Tick, Q!Tick, tq_!power, Q!power, tq_!quantity_limit, Q!quantity_limit,
     tq_!Duration, Q!Duration, tq_!quantity, Q!quantity, tq_!inf, Q!inf
<1>6. \A dt : tq_!finite(dt) <=> Q!finite(dt)
  BY <1>2, Zenon DEF tq_!finite, Q!finite
<1>7. ASSUME NEW a, NEW b
      PROVE  tq_!LessEq(a, b) <=> Q!LessEq(a, b)
  BY <1>3, <1>6, Zenon DEF tq_!LessEq, Q!LessEq
<1>8. ASSUME NEW q, NEW pdt
      PROVE  tq_!phase_lower_bound(q, pdt) = Q!phase_lower_bound(q, pdt)
  BY Zenon DEF tq_!phase_lower_bound, Q!phase_lower_bound, tq_!Sooner, Q!Sooner,
     tq_!LessEq, Q!LessEq, tq_!finite, Q!finite, tq_!duration_from_phase, Q!duration_from_phase,
     tq_!epoch_phase, Q!epoch_phase, tq_!refined_duration, Q!refined_duration,
     tq_!scale_phase, Q!scale_phase, tq_!Tick, Q!Tick, tq_!power, Q!power,
     tq_!quantity_limit, Q!quantity_limit, tq_!Duration, Q!Duration, tq_!quantity, Q!quantity,
     tq_!inf, Q!inf
<1>9. QED
  BY <1>4, <1>5, <1>6, <1>7, <1>8, Zenon

LEMMA SameMaps ==
    /\ \A f, x : tq_!Without(f, x) = Q!Without(f, x)
    /\ \A f, x, v : tq_!With(f, x, v) = Q!With(f, x, v)
    /\ \A S : tq_!Cardinality(S) = Q!Cardinality(S)
BY Zenon DEF tq_!Without, Q!Without, tq_!With, Q!With, tq_!Cardinality, Q!Cardinality,
   tq_!IsFiniteSet, Q!IsFiniteSet

LEMMA SameCancelled ==
    ASSUME NEW id
    PROVE  tq_!Cancelled(id) = Q!Cancelled(id)
<1> DEFINE pdt == cache_accounts[id].phase
<1>1. tq_!phase_lower_bound(cache_queue, pdt) = Q!phase_lower_bound(cache_queue, pdt)
  BY SameDurations, Zenon
<1>2. QED
  BY <1>1, SameMaps DEF tq_!Cancelled, Q!Cancelled

LEMMA SamePhase ==
    ASSUME NEW ct, NEW dt
    PROVE  tq_!phase_from_duration(ct, dt) = Q!phase_from_duration(ct, dt)
BY Zenon DEF tq_!phase_from_duration, Q!phase_from_duration,
   tq_!power, Q!power, tq_!quantity_limit, Q!quantity_limit, tq_!Tick, Q!Tick,
   tq_!scale_phase, Q!scale_phase, tq_!epoch_phase, Q!epoch_phase, tq_!Magnitude,
   Q!Magnitude, tq_!precision, Q!precision, tq_!scale_above, Q!scale_above, tq_!Duration,
   Q!Duration

LEMMA SamePlan ==
    ASSUME NEW id, NEW dt
    PROVE  tq_!plan_event(id, dt) <=> Q!plan_event(id, dt)
<1> DEFINE s == Q!Cancelled(id)
           pdt == Q!phase_from_duration(cache_ct, dt)
<1>1. tq_!Cancelled(id) = s /\ tq_!phase_from_duration(cache_ct, dt) = pdt
  BY SameCancelled, SamePhase, Zenon
<1>2. tq_!phase_lower_bound(s.queue, pdt) = Q!phase_lower_bound(s.queue, pdt)
  BY SameDurations, Zenon
<1>3. QED
  BY <1>1, <1>2, SameMaps DEF tq_!plan_event, Q!plan_event

LEMMA SameCancel ==
    ASSUME NEW id
    PROVE  tq_!cancel_event(id) <=> Q!cancel_event(id)
BY SameCancelled, Zenon DEF tq_!cancel_event, Q!cancel_event

LEMMA SameUntil ==
    ASSUME NEW id
    PROVE  tq_!duration_until(id) = Q!duration_until(id)
BY SameDurations, Zenon DEF tq_!duration_until, Q!duration_until, tq_!rescaled_duration_from_phase,
   Q!rescaled_duration_from_phase, tq_!Duration, Q!Duration, tq_!inf, Q!inf, tq_!quantity_limit,
   Q!quantity_limit, tq_!power, Q!power

LEMMA SameBeyond ==
    ASSUME NEW ct, NEW dt, NEW idt
    PROVE  tq_!NotBeyond(ct, dt, idt) <=> Q!NotBeyond(ct, dt, idt)
BY SameDurations, Zenon DEF tq_!NotBeyond, Q!NotBeyond

\* The time of an entry of the queue.
LEMMA SameTimeOf ==
    ASSUME NEW pdt
    PROVE  tq_!TimeOf(pdt) = Q!TimeAt(cache_ct, pdt)
BY SameDurations, Zenon DEF tq_!TimeOf, Q!TimeAt, Q!Ahead, tq_!Floor, Q!Floor,
   tq_!Tick, Q!Tick, tq_!power, Q!power

-----------------------------------------------------------------------------
(* The inductive invariant                                                 *)

\* When the event ends that stands for a retained one.
EndsAt(c, account) == Q!TimeAt(c, account.phase)

\* An event is retained at a whole number of ticks of its scale.
WholeTicks(c, account) ==
    account.precision \in RetainScales /\ EndsAt(c, account) % Tick(account.precision) = 0

CacheInv ==
    /\ Q!IInv
    /\ IdsAgree
    /\ \A id \in DOMAIN cache_accounts : WholeTicks(cache_ct, cache_accounts[id])

\* What the invariant of the queue says of its entries and of an account.
EntryTime(k) == Q!TimeAt(cache_ct, cache_queue[k])

LEMMA EntriesStand ==
    ASSUME Q!IInv
    PROVE  /\ cache_precision \in Nat /\ cache_ct \in Int /\ -Tick(cache_precision) <= cache_ct
           /\ cache_queue \in Seq(Q!PhaseSet) /\ Len(cache_queue) \in Nat
           /\ \A k \in 1 .. Len(cache_queue) :
                 /\ EntryTime(k) \in Int /\ cache_ct <= EntryTime(k)
                 /\ Q!Stands(cache_precision, cache_ct, cache_queue[k], EntryTime(k))
           /\ \A j, k \in 1 .. Len(cache_queue) : j < k => EntryTime(j) < EntryTime(k)
<1>1. Q!Held(cache_precision, cache_ct, cache_queue, cache_sets, cache_accounts)
  BY DEF Q!IInv
<1>2. /\ cache_precision \in Nat /\ cache_ct \in Int /\ cache_queue \in Seq(Q!PhaseSet)
      /\ Q!AllPhases(cache_precision, cache_ct, cache_queue) /\ Q!Sorted(cache_ct, cache_queue)
  BY <1>1, Assumptions, Q!HeldPhases
<1>3. -Tick(cache_precision) <= cache_ct
  BY <1>1, SameTime DEF Q!Held, Q!ClockHeld
<1>4. \A k \in 1 .. Len(cache_queue) :
          /\ Q!IsPhase(cache_precision, cache_ct, cache_queue[k])
          /\ Q!Stands(cache_precision, cache_ct, cache_queue[k], EntryTime(k))
  BY <1>2 DEF Q!AllPhases, Q!IsPhase, EntryTime
<1>5. ASSUME NEW k \in 1 .. Len(cache_queue)
      PROVE  EntryTime(k) \in Int /\ cache_ct <= EntryTime(k)
  BY <1>2, <1>4, Assumptions, Q!IsPhaseTime DEF EntryTime
<1>6. \A j, k \in 1 .. Len(cache_queue) : j < k => EntryTime(j) < EntryTime(k)
  BY <1>2 DEF Q!Sorted, EntryTime
<1>7. QED
  BY <1>2, <1>3, <1>4, <1>5, <1>6

LEMMA AccountStands ==
    ASSUME Q!IInv, NEW id \in DOMAIN cache_accounts
    PROVE  LET account == cache_accounts[id]
           IN  /\ id \in Ids
               /\ account \in [phase : Q!PhaseSet, precision : Nat]
               /\ EndsAt(cache_ct, account) \in Int /\ cache_ct <= EndsAt(cache_ct, account)
               /\ Q!Stands(cache_precision, cache_ct, account.phase, EndsAt(cache_ct, account))
               /\ Q!Exact(cache_ct, account.precision, EndsAt(cache_ct, account))
               /\ \E k \in 1 .. Len(cache_queue) :
                     account.phase = cache_queue[k] /\ EndsAt(cache_ct, account) = EntryTime(k)
<1> DEFINE account == cache_accounts[id]
<1>1. Q!Held(cache_precision, cache_ct, cache_queue, cache_sets, cache_accounts)
  BY DEF Q!IInv
<1>2. /\ id \in Ids
      /\ account \in [phase : Q!PhaseSet, precision : Nat]
      /\ Q!IsPhase(cache_precision, cache_ct, account.phase)
      /\ Q!Exact(cache_ct, account.precision, EndsAt(cache_ct, account))
  BY <1>1 DEF Q!Held, Q!AccountsHeld, Q!AccountHeld, EndsAt
<1>3. Q!Stands(cache_precision, cache_ct, account.phase, EndsAt(cache_ct, account))
  BY <1>2 DEF Q!IsPhase, EndsAt
<1>4. EndsAt(cache_ct, account) \in Int /\ cache_ct <= EndsAt(cache_ct, account)
  BY <1>3 DEF Q!Stands
<1>5. Q!Entries(cache_queue) = Q!PhasesOf(cache_accounts)
  BY <1>1, Assumptions, Q!HeldPhases
<1>6. PICK k \in 1 .. Len(cache_queue) : account.phase = cache_queue[k]
  BY <1>5 DEF Q!Entries, Q!PhasesOf
<1>7. EndsAt(cache_ct, account) = EntryTime(k)
  BY <1>6 DEF EndsAt, EntryTime
<1>8. QED
  BY <1>2, <1>3, <1>4, <1>6, <1>7

-----------------------------------------------------------------------------
(* The time since a retained event                                         *)

\* The duration until an event of the queue ends, at its scale.
LEMMA UntilIs ==
    ASSUME CacheInv, NEW id \in DOMAIN cache_accounts
    PROVE  LET account == cache_accounts[id]
               p == account.precision
           IN  tq_!duration_until(id) =
                   Duration(EndsAt(cache_ct, account) \div Tick(p) - cache_ct \div Tick(p), p)
<1> DEFINE account == cache_accounts[id]
           p == account.precision
           k == Tick(p)
           t == EndsAt(cache_ct, account)
           x == cache_ct \div k
           dt == Q!rescaled_duration_from_phase(cache_ct, account.phase, p)
<1>1. Q!IInv /\ WholeTicks(cache_ct, account)
  BY DEF CacheInv
<1>2. /\ p \in Nat /\ t \in Int
      /\ Q!Stands(cache_precision, cache_ct, account.phase, t)
      /\ Q!Exact(cache_ct, p, t)
  BY <1>1, AccountStands
<1>3. cache_precision \in Nat /\ cache_ct \in Int /\ -Tick(cache_precision) <= cache_ct
  BY <1>1, EntriesStand
<1>4. dt \in [m : Nat, p : {p}] /\ Q!advance(cache_ct, dt) = t
  <2>1. -Q!Tick(cache_precision) <= cache_ct
    BY <1>3, SameTime
  <2> HIDE DEF p, t, account
  <2>2. QED
    BY <1>2, <1>3, <2>1, Assumptions, Q!RescaledExact
<1>5. k \in Nat \ {0} /\ x \in Int /\ t % k = 0
  BY <1>1, <1>2, <1>3, TickPositive, Quotient DEF WholeTicks
<1>6. dt.p = p /\ dt.m \in Nat /\ advance(cache_ct, dt) = t
  BY <1>4, SameTime
<1>7. tq_!duration_until(id) = dt
  BY SameUntil DEF Q!duration_until
<1> HIDE DEF dt, p, t, account
<1>8. t \div k = x + dt.m
  <2>1. CASE dt.m = 0
    <3>1. t = cache_ct
      BY <1>6, <2>1 DEF advance
    <3>2. QED
      BY <1>5, <2>1, <3>1
  <2>2. CASE dt.m # 0
    <3>1. t = x * k + dt.m * k
      BY <1>6, <2>2 DEF advance, Floor
    <3> HIDE DEF x, k
    <3>2. x * k + dt.m * k = (x + dt.m) * k /\ x + dt.m \in Int
      BY <1>5, <1>6
    <3>3. QED
      BY <1>5, <3>1, <3>2, QuotientOfMultiple
  <2>3. QED
    BY <2>1, <2>2
<1>9. dt = Duration(t \div k - x, p)
  <2> HIDE DEF x, k
  <2>1. t \div k - x = dt.m
    BY <1>5, <1>6, <1>8
  <2>2. dt = [m |-> dt.m, p |-> p]
    BY <1>4 DEF dt
  <2>3. QED
    BY <2>1, <2>2 DEF Duration
<1>10. QED
  BY <1>7, <1>9 DEF account, p, t, k, x, dt

LEMMA NotRetained ==
    ASSUME NEW id, id \notin DOMAIN cache_accounts
    PROVE  duration_since(id) = inf
<1>1. tq_!duration_until(id) = Q!inf
  BY SameUntil DEF Q!duration_until
<1>2. Q!inf.m = quantity_limit
  BY SameTime DEF Q!inf, Q!Duration
<1>3. ~finite(Q!inf)
  BY <1>2, LimitPhases DEF finite
<1>4. QED
  BY <1>1, <1>3 DEF duration_since

LEMMA SinceIs ==
    ASSUME CacheInv, NEW id \in DOMAIN cache_accounts
    PROVE  LET account == cache_accounts[id]
               p == account.precision
           IN  duration_since(id) =
                   Duration((Floor(cache_ct, p) - RetainedAt(account)) \div Tick(p), p)
<1> DEFINE account == cache_accounts[id]
           p == account.precision
           k == Tick(p)
           l == quantity_limit
           t == EndsAt(cache_ct, account)
           x == cache_ct \div k
           y == t \div k
           until_dt == tq_!duration_until(id)
<1>1. Q!IInv /\ WholeTicks(cache_ct, account)
  BY DEF CacheInv
<1>2. p \in Nat /\ t \in Int /\ cache_ct \in Int
  BY <1>1, AccountStands, EntriesStand
<1>3. /\ Q!Stands(cache_precision, cache_ct, account.phase, t)
      /\ Q!Exact(cache_ct, p, t)
      /\ cache_ct <= t
  BY <1>1, AccountStands
<1>4. k \in Nat \ {0} /\ x \in Int /\ y \in Int /\ t = y * k /\ l \in Nat
  <2>1. k \in Nat \ {0} /\ l \in Nat /\ t % k = 0
    BY <1>1, <1>2, TickPositive, LimitPhases DEF WholeTicks
  <2>2. x \in Int /\ y \in Int /\ t = y * k + (t % k) /\ y * k \in Int
    <3> HIDE DEF k, t
    <3> QED  BY <1>2, <2>1, Quotient
  <2> HIDE DEF x, y, t, k
  <2>3. QED
    BY <2>1, <2>2
<1>5. until_dt = Duration(y - x, p)
  BY UntilIs
<1>6. y - x < l
  <2>1. Q!Exact(cache_ct, p, t) =>
            cache_ct = t \/ t \div Tick(p) - cache_ct \div Tick(p) < quantity_limit
    BY SameTime DEF Q!Exact
  <2>2. cache_ct = t => y - x = 0
    BY <1>4
  <2>3. l # 0
    BY LimitPhases
  <2>4. QED
    BY <1>3, <1>4, <2>1, <2>2, <2>3
<1>7. duration_since(id) = Duration(l - 1 - (y - x), p)
  <2> HIDE DEF x, y, p
  <2>1. until_dt.m = y - x /\ until_dt.p = p
    BY <1>5 DEF Duration
  <2>2. finite(until_dt)
    BY <1>6, <2>1 DEF finite
  <2> HIDE DEF until_dt
  <2>3. QED
    BY <2>1, <2>2 DEF duration_since, until_dt
<1>8. RetainedAt(account) = t - (l - 1) * k
  <2>1. tq_!TimeOf(account.phase) = t
    BY SameTimeOf DEF EndsAt
  <2>2. longest(p).m = l - 1
    BY DEF longest, Duration
  <2> HIDE DEF t, l, k
  <2>3. QED
    BY <2>1, <2>2 DEF RetainedAt, k
<1>9. Floor(cache_ct, p) = x * k
  BY DEF Floor
<1>10. (x * k - (t - (l - 1) * k)) \div k = l - 1 - (y - x)
  <2> HIDE DEF x, y, k, t, l
  <2>1. x * k - (y * k - (l - 1) * k) = (l - 1 - (y - x)) * k
    BY <1>4
  <2>2. l - 1 - (y - x) \in Int
    BY <1>4
  <2>3. QED
    BY <1>4, <2>1, <2>2, QuotientOfMultiple
<1>11. QED
  BY <1>7, <1>8, <1>9, <1>10

LEMMA InvariantExact == CacheInv => CacheExact
<1> SUFFICES ASSUME CacheInv PROVE CacheExact
  OBVIOUS
<1>1. event_ids_ = DOMAIN cache_accounts
  BY DEF CacheInv, IdsAgree
<1>2. SinceExact
  BY <1>1, NotRetained, SinceIs DEF SinceExact
<1>3. QED
  BY <1>1, <1>2 DEF CacheExact, IdsAgree

-----------------------------------------------------------------------------
(* Advancing the cache: the events that are passed are popped              *)

\* An entry that is still ahead blocks the advances beyond it.
LEMMA BlocksIs ==
    ASSUME Q!IInv, NEW k \in 1 .. Len(cache_queue), NEW c \in Int, cache_ct <= c,
           c <= EntryTime(k), NEW dt \in [m : Nat, p : Nat], finite(dt)
    PROVE  Blocks(c, dt, k) <=> EntryTime(k) < advance(c, dt)
<1> DEFINE pdt == cache_queue[k]
           t == EntryTime(k)
<1>1. /\ cache_precision \in Nat /\ cache_ct \in Int /\ t \in Int
      /\ Q!Stands(cache_precision, cache_ct, pdt, t)
  BY EntriesStand
<1>2. Q!Stands(cache_precision, c, pdt, t)
  <2> HIDE DEF pdt, t
  <2> QED  BY <1>1, Assumptions, Q!StandsLater DEF t
<1>3. Q!finite(dt)
  BY SameTime
<1>4. Q!NotBeyond(c, dt, Q!duration_from_phase(c, pdt)) <=> Q!advance(c, dt) <= t
  <2> HIDE DEF pdt, t
  <2> QED  BY <1>1, <1>2, <1>3, Assumptions, Q!NotBeyondIs
<1>5. Blocks(c, dt, k) <=> ~Q!NotBeyond(c, dt, Q!duration_from_phase(c, pdt))
  <2>1. tq_!duration_from_phase(c, pdt) = Q!duration_from_phase(c, pdt)
    BY SameDurations, Zenon
  <2>2. QED
    BY <2>1, SameBeyond DEF Blocks
<1>6. Q!advance(c, dt) = advance(c, dt) /\ advance(c, dt) \in Int
  BY SameTime, AdvanceForward
<1>7. QED
  BY <1>1, <1>4, <1>5, <1>6

\* The number of entries popped exists: up to the first that does not block.
LEMMA PoppedStops ==
    ASSUME Len(cache_queue) \in Nat, NEW c, NEW dt, NEW n \in 0 .. Len(cache_queue)
    PROVE  LET k == Popped(c, dt, n)
           IN  /\ k \in n .. Len(cache_queue)
               /\ \A j \in n + 1 .. k : Blocks(c, dt, j)
               /\ k < Len(cache_queue) => ~Blocks(c, dt, k + 1)
<1> DEFINE l == Len(cache_queue)
           P(k) == /\ \A j \in n + 1 .. k : Blocks(c, dt, j)
                   /\ k < l => ~Blocks(c, dt, k + 1)
           S == {k \in n .. l : k < l => ~Blocks(c, dt, k + 1)}
<1>1. l \in S /\ S \subseteq Nat /\ n \in Nat /\ n <= l
  OBVIOUS
<1>2. PICK m \in S : \A k \in S : m <= k
  <2> HIDE DEF S
  <2> QED  BY <1>1, LeastNatural
<1>3. m \in n .. l /\ P(m)
  <2>1. ASSUME NEW j \in n + 1 .. m PROVE Blocks(c, dt, j)
    <3>1. j - 1 \in n .. l /\ (j - 1) + 1 = j /\ ~(m <= j - 1) /\ j - 1 < l
      BY <1>1
    <3>2. ~(j - 1 \in S)
      BY <1>2, <3>1
    <3>3. QED
      BY <3>1, <3>2
  <2>2. QED
    BY <2>1
<1> HIDE DEF P
<1>4. Popped(c, dt, n) = CHOOSE k \in n .. l : P(k)
  BY DEF Popped, P
<1>5. Popped(c, dt, n) \in n .. l /\ P(Popped(c, dt, n))
  BY <1>3, <1>4
<1>6. QED
  BY <1>5 DEF P

\* Of the entries after the first n, those up to k end before d and no others.
Passes(n, d, k) ==
    /\ k \in n .. Len(cache_queue)
    /\ \A j \in n + 1 .. k : EntryTime(j) < d
    /\ \A j \in k + 1 .. Len(cache_queue) : d <= EntryTime(j)

\* The first n entries have been popped on the way to c.
Ahead(c, n) ==
    /\ c \in Int /\ cache_ct <= c /\ n \in 0 .. Len(cache_queue)
    /\ \A j \in n + 1 .. Len(cache_queue) : c <= EntryTime(j)

LEMMA PoppedPasses ==
    ASSUME Q!IInv, NEW c, NEW n, Ahead(c, n), NEW dt \in [m : Nat, p : Nat], finite(dt)
    PROVE  Passes(n, advance(c, dt), Popped(c, dt, n))
<1> DEFINE l == Len(cache_queue)
           k == Popped(c, dt, n)
           d == advance(c, dt)
<1>1. l \in Nat /\ n \in 0 .. l /\ c \in Int /\ cache_ct <= c
  BY EntriesStand DEF Ahead
<1>2. /\ k \in n .. l
      /\ \A j \in n + 1 .. k : Blocks(c, dt, j)
      /\ k < l => ~Blocks(c, dt, k + 1)
  BY <1>1, PoppedStops
<1>3. \A j \in n + 1 .. l : Blocks(c, dt, j) <=> EntryTime(j) < d
  <2>1. ASSUME NEW j \in n + 1 .. l PROVE Blocks(c, dt, j) <=> EntryTime(j) < d
    <3>1. j \in 1 .. l /\ c <= EntryTime(j)
      BY <1>1 DEF Ahead
    <3>2. QED
      BY <1>1, <3>1, BlocksIs
  <2>2. QED
    BY <2>1
<1>4. d \in Int
  BY <1>1, AdvanceForward
<1> HIDE DEF k, d
<1>5. \A j \in n + 1 .. k : EntryTime(j) < d
  BY <1>1, <1>2, <1>3
<1>6. ASSUME NEW j \in k + 1 .. l PROVE d <= EntryTime(j)
  <2>1. k + 1 \in n + 1 .. l /\ k + 1 \in 1 .. l /\ k < l /\ j \in 1 .. l
    BY <1>1, <1>2
  <2>2. EntryTime(k + 1) \in Int /\ EntryTime(j) \in Int
    BY <2>1, EntriesStand
  <2>3. d <= EntryTime(k + 1)
    BY <1>2, <1>3, <1>4, <2>1, <2>2
  <2>4. k + 1 < j => EntryTime(k + 1) < EntryTime(j)
    BY <2>1, EntriesStand
  <2>5. k + 1 = j \/ k + 1 < j
    BY <1>1, <1>2
  <2>6. QED
    BY <1>4, <2>2, <2>3, <2>4, <2>5
<1>7. QED
  BY <1>2, <1>5, <1>6 DEF Passes, k, d

\* What the recursive function of CacheLoopEnd satisfies; there is one.
IsCacheLoop(f, t) ==
    f = [c \in Int |->
            [n \in 0 .. Len(cache_queue) |->
                IF c < t THEN f[advance(c, gap(t, c))][Popped(c, gap(t, c), n)] ELSE <<c, n>>]]

LEMMA CacheLoopExists ==
    ASSUME NEW t \in Int, Len(cache_queue) \in Nat
    PROVE  \E f : IsCacheLoop(f, t)
<1> DEFINE L == 0 .. Len(cache_queue)
           S == Int \X L
           to(c, n) == <<advance(c, gap(t, c)), Popped(c, gap(t, c), n)>>
           goes == [s \in S |-> s[1] < t]
           tos == [s \in S |-> to(s[1], s[2])]
           base == [s \in S |-> s]
           left == [s \in S |-> IF s[1] < t THEN t - s[1] ELSE 0]
<1>1. base \in [S -> S] /\ left \in [S -> Nat]
  OBVIOUS
<1>2. ASSUME NEW c \in Int, NEW n \in L, c < t
      PROVE  to(c, n) \in S /\ c < to(c, n)[1]
  <2>1. advance(c, gap(t, c)) \in Int /\ c < advance(c, gap(t, c))
    BY <1>2, GapStep
  <2>2. Popped(c, gap(t, c), n) \in L
    BY PoppedStops
  <2>3. QED
    BY <2>1, <2>2
<1>3. ASSUME NEW s \in S, goes[s] PROVE tos[s] \in S /\ left[tos[s]] < left[s]
  <2>1. s[1] \in Int /\ s[2] \in L /\ s[1] < t
    BY <1>3
  <2> HIDE DEF to, L
  <2>2. tos[s] = to(s[1], s[2]) /\ tos[s] \in S /\ s[1] < tos[s][1] /\ tos[s][1] \in Int
    BY <1>2, <2>1
  <2> HIDE DEF tos
  <2>3. QED
    BY <2>1, <2>2
<1>4. PICK g : LooksAhead(g, S, goes, tos, base)
  <2> HIDE DEF S, goes, tos, base, left
  <2> QED  BY <1>1, <1>3, TailRecursion
<1>5. ASSUME NEW c \in Int, NEW n \in L
      PROVE  g[<<c, n>>] = IF c < t THEN g[to(c, n)] ELSE <<c, n>>
  <2>1. g = [s \in S |-> IF goes[s] THEN g[tos[s]] ELSE base[s]]
    BY <1>4 DEF LooksAhead
  <2>2. <<c, n>> \in S /\ goes[<<c, n>>] = (c < t) /\ tos[<<c, n>>] = to(c, n) /\ base[<<c, n>>] = <<c, n>>
    <3> HIDE DEF to, L
    <3> QED  OBVIOUS
  <2> HIDE DEF S, goes, tos, base, to
  <2>3. g[<<c, n>>] = IF goes[<<c, n>>] THEN g[tos[<<c, n>>]] ELSE base[<<c, n>>]
    BY <2>1, <2>2, Zenon
  <2>4. QED
    BY <2>2, <2>3
<1> DEFINE f == [c \in Int |-> [n \in L |-> g[<<c, n>>]]]
           after(c, n) == f[advance(c, gap(t, c))][Popped(c, gap(t, c), n)]
<1>6. ASSUME NEW c \in Int, NEW n \in L
      PROVE  g[<<c, n>>] = IF c < t THEN after(c, n) ELSE <<c, n>>
  <2>1. ASSUME c < t PROVE g[to(c, n)] = after(c, n)
    <3>1. advance(c, gap(t, c)) \in Int /\ Popped(c, gap(t, c), n) \in L
      BY <1>2, <2>1
    <3> HIDE DEF L
    <3>2. QED
      BY <3>1
  <2> HIDE DEF to, after
  <2>2. QED
    BY <1>5, <2>1
<1>7. f = [c \in Int |-> [n \in L |-> IF c < t THEN after(c, n) ELSE <<c, n>>]]
  <2> HIDE DEF after, L
  <2>1. \A c \in Int : [n \in L |-> g[<<c, n>>]] = [n \in L |-> IF c < t THEN after(c, n) ELSE <<c, n>>]
    BY <1>6
  <2>2. QED
    BY <2>1, Zenon
<1>8. IsCacheLoop(f, t)
  <2> HIDE DEF f
  <2> QED  BY <1>7 DEF IsCacheLoop
<1>9. QED
  BY <1>8

\* The loop only moves time forward and pops just the events it passes.
LEMMA CacheLoopPasses ==
    ASSUME Q!IInv, NEW t \in Int
    PROVE  LET end == CacheLoopEnd(t)
           IN  end[1] \in Int /\ cache_ct <= end[1] /\ Passes(0, end[1], end[2])
<1> DEFINE l == Len(cache_queue)
           f == CHOOSE r : IsCacheLoop(r, t)
           to(c) == advance(c, gap(t, c))
           popped(c, n) == Popped(c, gap(t, c), n)
           Good(c, n) == /\ f[c][n][1] \in Int /\ c <= f[c][n][1]
                         /\ Passes(n, f[c][n][1], f[c][n][2])
           Left(c) == IF c < t THEN t - c ELSE 0
           Bad(m) == \E c \in Int, n \in 0 .. l : Ahead(c, n) /\ Left(c) = m /\ ~Good(c, n)
           S == {m \in Nat : Bad(m)}
<1>1. l \in Nat /\ cache_ct \in Int
  BY EntriesStand
<1>2. CacheLoopEnd(t) = f[cache_ct][0]
  BY Zenon DEF CacheLoopEnd, IsCacheLoop
<1>3. IsCacheLoop(f, t)
  BY <1>1, CacheLoopExists
<1> HIDE DEF f
<1>4. ASSUME NEW c \in Int, NEW n \in 0 .. l
      PROVE  f[c][n] = IF c < t THEN f[to(c)][popped(c, n)] ELSE <<c, n>>
  <2> DEFINE g(x, y) == IF x < t THEN f[to(x)][popped(x, y)] ELSE <<x, y>>
  <2>1. f = [x \in Int |-> [y \in 0 .. l |-> g(x, y)]]
    BY <1>3, Zenon DEF IsCacheLoop
  <2> HIDE DEF g, l
  <2>2. f[c][n] = g(c, n)
    BY <2>1
  <2>3. QED
    BY <2>2 DEF g
<1>5. ASSUME NEW c, NEW n, Ahead(c, n), c < t
      PROVE  /\ Ahead(to(c), popped(c, n)) /\ c < to(c)
             /\ Passes(n, to(c), popped(c, n))
  <2>1. c \in Int /\ n \in 0 .. l /\ cache_ct <= c
    BY <1>5 DEF Ahead
  <2>2. /\ gap(t, c) \in [m : Nat, p : Nat] /\ finite(gap(t, c))
        /\ to(c) \in Int /\ c < to(c)
    BY <1>5, <2>1, GapStep
  <2>3. Passes(n, to(c), popped(c, n))
    BY <1>5, <2>2, PoppedPasses
  <2>4. Ahead(to(c), popped(c, n))
    <3>1. popped(c, n) \in 0 .. l
      BY <1>1, <2>1, <2>3 DEF Passes
    <3> HIDE DEF to, popped
    <3>2. QED
      BY <1>1, <2>1, <2>2, <2>3, <3>1 DEF Passes, Ahead
  <2>5. QED
    BY <2>2, <2>3, <2>4
<1>6. ASSUME NEW c \in Int PROVE Left(c) \in Nat
  OBVIOUS
<1> HIDE DEF to, popped
<1>7. S = {}
  <2> SUFFICES ASSUME S # {} PROVE FALSE
    OBVIOUS
  <2>1. PICK m \in S : \A i \in S : m <= i
    <3>1. S \subseteq Nat
      OBVIOUS
    <3> HIDE DEF S
    <3>2. QED
      BY <3>1, LeastNatural
  <2>2. m \in Nat /\ Bad(m)
    <3> HIDE DEF Bad
    <3> QED  OBVIOUS
  <2>3. PICK c \in Int, n \in 0 .. l : Ahead(c, n) /\ Left(c) = m /\ ~Good(c, n)
    BY <2>2
  <2>4. c < t
    <3>1. ASSUME ~(c < t) PROVE FALSE
      <4>1. f[c][n] = <<c, n>>
        BY <1>4, <3>1
      <4>2. Passes(n, c, n)
        BY <1>1, <2>3 DEF Ahead, Passes
      <4>3. QED
        BY <2>3, <4>1, <4>2
    <3>2. QED
      BY <3>1
  <2> DEFINE d == to(c)
             k == popped(c, n)
             end == f[c][n]
  <2>5. end = f[d][k]
    BY <1>4, <2>4
  <2>6. Ahead(d, k) /\ c < d /\ Passes(n, d, k) /\ d \in Int /\ k \in 0 .. l
    <3>1. Ahead(d, k) /\ c < d /\ Passes(n, d, k)
      BY <1>5, <2>3, <2>4
    <3> HIDE DEF d, k
    <3>2. QED
      BY <3>1 DEF Ahead
  <2>7. ~Good(d, k)
    <3>1. ASSUME Good(d, k) PROVE FALSE
      <4> HIDE DEF d, k
      <4>1. end[1] \in Int /\ d <= end[1] /\ Passes(k, end[1], end[2])
        BY <2>5, <3>1
      <4> DEFINE u == end[1]
                 q == end[2]
      <4>2. u \in Int /\ d <= u /\ Passes(k, u, q)
        BY <4>1
      <4>3. \A j \in 1 .. l : EntryTime(j) \in Int
        BY EntriesStand
      <4> HIDE DEF u, q
      <4>4. c <= u /\ Passes(n, u, q)
        <5>1. q \in n .. l
          BY <1>1, <2>6, <4>2 DEF Passes
        <5>2. ASSUME NEW j \in n + 1 .. q PROVE EntryTime(j) < u
          <6>1. j \in 1 .. l /\ (j \in n + 1 .. k \/ j \in k + 1 .. q)
            BY <1>1, <2>6, <5>1
          <6>2. QED
            BY <2>6, <4>2, <4>3, <6>1 DEF Passes
        <5>3. QED
          BY <2>6, <4>2, <5>1, <5>2 DEF Passes
      <4>5. QED
        BY <2>3, <4>2, <4>4 DEF u, q
    <3>2. QED
      BY <3>1
  <2> HIDE DEF d, k
  <2>8. Left(d) \in Nat /\ Left(d) < m
    BY <2>3, <2>4, <2>6
  <2> HIDE DEF Left, Good
  <2>9. Bad(Left(d))
    BY <2>6, <2>7
  <2> HIDE DEF Bad
  <2>10. Left(d) \in S
    BY <2>8, <2>9
  <2> HIDE DEF S
  <2>11. QED
    BY <2>1, <2>2, <2>8, <2>10
<1>8. Ahead(cache_ct, 0)
  BY <1>1, EntriesStand DEF Ahead
<1>9. Good(cache_ct, 0)
  <2>1. Left(cache_ct) \in Nat /\ 0 \in 0 .. l
    BY <1>1, <1>6
  <2> HIDE DEF Good, Left
  <2>2. QED
    BY <1>1, <1>7, <1>8, <2>1
<1>10. QED
  BY <1>2, <1>9


-----------------------------------------------------------------------------
(* Every operation keeps the invariant and is a step of the memory         *)

\* What is remembered of an account, and of all those with the given ids.
NotedAs(c, account) ==
    [at |-> EndsAt(c, account) - longest(account.precision).m * Tick(account.precision),
     p |-> account.precision]
NotedAt(c, accounts, ids) == [id \in ids |-> NotedAs(c, accounts[id])]

LEMMA RetainedTimesIs ==
    /\ RetainedTimes = NotedAt(cache_ct, cache_accounts, event_ids_)
    /\ RetainedTimes' = NotedAt(cache_ct', cache_accounts', event_ids_')
<1>1. \A pdt : tq_!TimeOf(pdt) = Q!TimeAt(cache_ct, pdt)
  BY SameTimeOf
<1>2. \A pdt : tq_!TimeOf(pdt)' = Q!TimeAt(cache_ct', pdt)
  BY SameDurations, Zenon DEF tq_!TimeOf, Q!TimeAt, Q!Ahead, tq_!Floor, Q!Floor,
     tq_!Tick, Q!Tick, tq_!power, Q!power
<1>3. QED
  BY <1>1, <1>2 DEF RetainedTimes, RetainedAt, NotedAt, NotedAs, EndsAt

LEMMA CacheInitially == CacheInit => CacheInv /\ Remembered!Init
<1> SUFFICES ASSUME CacheInit PROVE CacheInv /\ Remembered!Init
  OBVIOUS
<1>1. Q!Init /\ event_ids_ = {}
  BY SameInit DEF CacheInit
<1>2. Q!IInv
  BY <1>1, Assumptions, Q!Initially
<1>3. cache_ct \in CacheStarts /\ cache_accounts = [x \in {} |-> x]
  BY <1>1 DEF Q!Init, Q!NoEntries
<1>4. RetainedTimes = [id \in {} |-> 0]
  BY <1>1 DEF RetainedTimes
<1>5. QED
  BY <1>1, <1>2, <1>3, <1>4 DEF CacheInv, IdsAgree, Remembered!Init

\* An event is retained at the current time, cut to its scale.
LEMMA RetainedNow ==
    ASSUME Q!IInv, NEW p \in RetainScales
    PROVE  LET account == [phase |-> Q!phase_from_duration(cache_ct, longest(p)), precision |-> p]
           IN  /\ WholeTicks(cache_ct, account)
               /\ NotedAs(cache_ct, account) = [at |-> Floor(cache_ct, p), p |-> p]
<1> DEFINE dt == longest(p)
           pdt == Q!phase_from_duration(cache_ct, dt)
           account == [phase |-> pdt, precision |-> p]
           k == Tick(p)
           x == cache_ct \div k
           e == quantity_limit - 1
           t == advance(cache_ct, dt)
<1>1. cache_precision \in Nat /\ cache_ct \in Int /\ -Tick(cache_precision) <= cache_ct
  BY EntriesStand
<1>2. /\ dt \in [m : Nat, p : Nat] /\ finite(dt) /\ dt.m = e /\ dt.m # 0 /\ dt.p = p
      /\ p \in Nat /\ e \in Nat
  BY LongestIs, LimitPhases, MaxScaleAssumption DEF Scales
<1>3. k \in Nat \ {0} /\ x \in Int
  BY <1>1, <1>2, TickPositive, Quotient
<1>4. t = x * k + e * k
  BY <1>2 DEF advance, Floor
<1>5. Q!TimeAt(cache_ct, pdt) = t
  <2>1. Q!finite(dt) /\ -Q!Tick(cache_precision) <= cache_ct /\ Q!advance(cache_ct, dt) = t
    BY <1>1, <1>2, SameTime
  <2> HIDE DEF t, dt
  <2>2. pdt = Q!PhaseOf(cache_precision, t)
    BY <1>1, <1>2, <2>1, Assumptions, Q!PhaseFromDuration
  <2>3. Q!Stands(cache_precision, cache_ct, Q!PhaseOf(cache_precision, t), t)
    BY <1>1, <1>2, <2>1, Assumptions, Q!PlannedStands
  <2> HIDE DEF pdt
  <2>4. QED
    BY <1>1, <2>2, <2>3, Assumptions, Q!TimeAtIs
<1> HIDE DEF pdt, t
<1>6. account.phase = pdt /\ account.precision = p /\ EndsAt(cache_ct, account) = t
  BY <1>5 DEF EndsAt
<1> HIDE DEF account
<1>7. t % k = 0
  <2> HIDE DEF k, x, e
  <2>1. x * k + e * k = (x + e) * k /\ x + e \in Int
    BY <1>2, <1>3
  <2>2. QED
    BY <1>3, <1>4, <2>1, QuotientOfMultiple
<1>8. t - e * k = x * k
  <2> HIDE DEF k, x, e
  <2> QED  BY <1>2, <1>3, <1>4
<1>9. NotedAs(cache_ct, account) = [at |-> t - e * k, p |-> p]
  BY <1>2, <1>6 DEF NotedAs
<1>10. QED
  BY <1>6, <1>7, <1>8, <1>9 DEF WholeTicks, Floor, account, pdt

LEMMA RetainStep ==
    ASSUME CacheInv, NEW id \in Ids, NEW p \in RetainScales, retain_event(id, p)
    PROVE  CacheInv' /\ Remembered!Retain(id, p)
<1> DEFINE s == Q!Cancelled(id)
           account == [phase |-> Q!phase_from_duration(cache_ct, longest(p)), precision |-> p]
           new == Q!With(s.accounts, id, account)
           noted == [at |-> Floor(cache_ct, p), p |-> p]
<1>1. /\ Q!IInv /\ event_ids_ = DOMAIN cache_accounts
      /\ \A i \in DOMAIN cache_accounts : WholeTicks(cache_ct, cache_accounts[i])
  BY DEF CacheInv, IdsAgree
<1>2. Q!plan_event(id, longest(p)) /\ event_ids_' = event_ids_ \cup {id}
  BY SamePlan DEF retain_event
<1>3. Q!IInv'
  <2>1. longest(p) \in {longest(q) : q \in RetainScales}
    OBVIOUS
  <2>2. QED
    BY <1>1, <1>2, <2>1, Assumptions, Q!PlanStep
<1>4. cache_accounts' = new /\ cache_ct' = cache_ct
  <2>1. longest(p).p = p
    BY LongestIs
  <2>2. QED
    BY <1>2, <2>1 DEF Q!plan_event
<1>5. /\ id \notin DOMAIN cache_accounts => s.accounts = cache_accounts
      /\ id \in DOMAIN cache_accounts => s.accounts = Q!Without(cache_accounts, id)
  BY <1>1, Assumptions, Q!CancelledHeld
<1> HIDE DEF s
<1>6. /\ DOMAIN new = DOMAIN cache_accounts \cup {id} /\ new[id] = account
      /\ \A i \in DOMAIN cache_accounts : i # id => new[i] = cache_accounts[i]
  <2> HIDE DEF account
  <2> QED  BY <1>5 DEF Q!With, Q!Without
<1>7. WholeTicks(cache_ct, account) /\ NotedAs(cache_ct, account) = noted
  BY <1>1, RetainedNow
<1> HIDE DEF new, account, noted
<1>8. CacheInv'
  <2>1. IdsAgree'
    BY <1>1, <1>2, <1>4, <1>6 DEF IdsAgree
  <2>2. \A i \in DOMAIN new : WholeTicks(cache_ct, new[i])
    BY <1>1, <1>6, <1>7
  <2>3. QED
    BY <1>3, <1>4, <2>1, <2>2 DEF CacheInv, WholeTicks, EndsAt
<1>9. RetainedTimes' = [i \in event_ids_ \cup {id} |->
                           IF i = id THEN noted ELSE NotedAs(cache_ct, cache_accounts[i])]
  <2>1. RetainedTimes' = [i \in event_ids_ \cup {id} |-> NotedAs(cache_ct, new[i])]
    BY <1>2, <1>4, RetainedTimesIs DEF NotedAt
  <2>2. \A i \in event_ids_ \cup {id} :
            NotedAs(cache_ct, new[i]) = IF i = id THEN noted ELSE NotedAs(cache_ct, cache_accounts[i])
    BY <1>1, <1>6, <1>7
  <2>3. QED
    BY <2>1, <2>2
<1>10. /\ DOMAIN RetainedTimes = event_ids_
       /\ \A i \in event_ids_ : RetainedTimes[i] = NotedAs(cache_ct, cache_accounts[i])
  BY RetainedTimesIs DEF NotedAt
<1>11. RetainedTimes' = [i \in DOMAIN RetainedTimes \cup {id} |->
                            IF i = id THEN noted ELSE RetainedTimes[i]]
  BY <1>9, <1>10
<1>12. Remembered!Floor(cache_ct, p) = Floor(cache_ct, p)
  BY SameTime
<1>13. QED
  BY <1>4, <1>8, <1>11, <1>12 DEF Remembered!Retain, noted

LEMMA ReleaseStep ==
    ASSUME CacheInv, NEW id \in Ids, release_event(id)
    PROVE  CacheInv' /\ Remembered!Release(id)
<1> DEFINE s == Q!Cancelled(id)
           left == DOMAIN cache_accounts \ {id}
<1>1. /\ Q!IInv /\ event_ids_ = DOMAIN cache_accounts
      /\ \A i \in DOMAIN cache_accounts : WholeTicks(cache_ct, cache_accounts[i])
  BY DEF CacheInv, IdsAgree
<1>2. /\ Q!cancel_event(id)
      /\ event_ids_' = IF id \in DOMAIN cache_accounts THEN event_ids_ \ {id} ELSE event_ids_
  BY SameCancel DEF release_event
<1>3. Q!IInv'
  BY <1>1, <1>2, Assumptions, Q!CancelStep
<1>4. cache_accounts' = s.accounts /\ cache_ct' = cache_ct
  BY <1>2 DEF Q!cancel_event
<1>5. /\ id \notin DOMAIN cache_accounts => s.accounts = cache_accounts
      /\ id \in DOMAIN cache_accounts => s.accounts = Q!Without(cache_accounts, id)
  BY <1>1, Assumptions, Q!CancelledHeld
<1> HIDE DEF s
<1>6. /\ DOMAIN s.accounts = left /\ event_ids_' = left
      /\ \A i \in left : s.accounts[i] = cache_accounts[i]
  BY <1>1, <1>2, <1>5 DEF Q!Without
<1>7. CacheInv'
  <2>1. IdsAgree'
    BY <1>4, <1>6 DEF IdsAgree
  <2>2. \A i \in DOMAIN s.accounts : WholeTicks(cache_ct, s.accounts[i])
    BY <1>1, <1>6
  <2>3. QED
    BY <1>3, <1>4, <2>1, <2>2 DEF CacheInv, WholeTicks, EndsAt
<1>8. RetainedTimes' = [i \in left |-> NotedAs(cache_ct, cache_accounts[i])]
  <2>1. RetainedTimes' = [i \in left |-> NotedAs(cache_ct, s.accounts[i])]
    BY <1>4, <1>6, RetainedTimesIs DEF NotedAt
  <2>2. QED
    BY <1>6, <2>1
<1>9. /\ DOMAIN RetainedTimes = event_ids_
      /\ \A i \in event_ids_ : RetainedTimes[i] = NotedAs(cache_ct, cache_accounts[i])
  BY RetainedTimesIs DEF NotedAt
<1>10. RetainedTimes' = [i \in DOMAIN RetainedTimes \ {id} |-> RetainedTimes[i]]
  BY <1>1, <1>8, <1>9
<1>11. QED
  BY <1>4, <1>7, <1>10 DEF Remembered!Release

\* Time is advanced and the events it passes are popped: they are those that
\* the memory lets expire, and the others are remembered as they were.
LEMMA AdvancedStep ==
    ASSUME CacheInv, NEW d \in Int, cache_ct <= d, NEW n, Passes(0, d, n), Advanced(d, n)
    PROVE  CacheInv' /\ (Remembered!Advance \/ UNCHANGED <<cache_ct, RetainedTimes>>)
<1> DEFINE ids == IdsAt({cache_queue[k] : k \in 1 .. n})
           rest == Q!Dropped(cache_accounts, ids)
           queue == SubSeq(cache_queue, n + 1, Len(cache_queue))
           sets == [pdt \in {cache_queue[k] : k \in n + 1 .. Len(cache_queue)} |-> cache_sets[pdt]]
           End(i) == EndsAt(cache_ct, cache_accounts[i])
<1>1. /\ Q!IInv /\ event_ids_ = DOMAIN cache_accounts
      /\ \A i \in DOMAIN cache_accounts : WholeTicks(cache_ct, cache_accounts[i])
  BY DEF CacheInv, IdsAgree
<1>2. /\ d <= CacheMaxTime /\ cache_ct' = d /\ cache_precision' = cache_precision
      /\ cache_queue' = queue /\ cache_sets' = sets /\ cache_accounts' = rest
      /\ event_ids_' = event_ids_ \ ids
  BY DEF Advanced, Q!Dropped
<1>3. n \in 0 .. Len(cache_queue) /\ Len(cache_queue) \in Nat /\ cache_ct \in Int
  BY <1>1, EntriesStand DEF Passes
<1>4. /\ Q!Held(cache_precision, cache_ct, queue, sets, rest)
      /\ \A i : i \in ids <=> /\ i \in DOMAIN cache_accounts
                              /\ \E k \in 1 .. n : cache_accounts[i].phase = cache_queue[k]
  <2>1. Q!Held(cache_precision, cache_ct, cache_queue, cache_sets, cache_accounts)
    BY <1>1 DEF Q!IInv
  <2>2. /\ ids = Q!FrontIds(cache_queue, cache_sets, n)
        /\ sets = Q!RestSets(cache_queue, cache_sets, n)
    BY Zenon DEF IdsAt, Q!FrontIds, Q!RestSets
  <2> HIDE DEF ids, sets
  <2>3. QED
    BY <1>3, <2>1, <2>2, Assumptions, Q!DropPhases
<1>5. \A i \in DOMAIN cache_accounts : End(i) \in Int /\ cache_ct <= End(i) /\ (i \in ids <=> End(i) < d)
  <2> SUFFICES ASSUME NEW i \in DOMAIN cache_accounts
               PROVE  End(i) \in Int /\ cache_ct <= End(i) /\ (i \in ids <=> End(i) < d)
    OBVIOUS
  <2>1. End(i) \in Int /\ cache_ct <= End(i)
    BY <1>1, AccountStands
  <2>2. ASSUME i \in ids PROVE End(i) < d
    <3>1. PICK k \in 1 .. n : cache_accounts[i].phase = cache_queue[k]
      BY <1>4, <2>2
    <3>2. End(i) = EntryTime(k)
      BY <3>1 DEF EndsAt, EntryTime
    <3>3. QED
      BY <1>3, <3>1, <3>2 DEF Passes
  <2>3. ASSUME i \notin ids PROVE d <= End(i)
    <3>1. PICK k \in 1 .. Len(cache_queue) :
              cache_accounts[i].phase = cache_queue[k] /\ End(i) = EntryTime(k)
      BY <1>1, AccountStands
    <3>2. ~(k \in 1 .. n)
      BY <1>4, <2>3, <3>1
    <3>3. k \in n + 1 .. Len(cache_queue)
      BY <1>3, <3>1, <3>2
    <3>4. QED
      BY <3>1, <3>3 DEF Passes
  <2> HIDE DEF End, ids
  <2>4. QED
    BY <2>1, <2>2, <2>3
<1>6. /\ DOMAIN rest = DOMAIN cache_accounts \ ids
      /\ \A i \in DOMAIN rest : rest[i] = cache_accounts[i]
  <2> HIDE DEF ids
  <2> QED  BY DEF Q!Dropped
<1> HIDE DEF rest, queue, sets, ids
<1>7. /\ Q!Held(cache_precision, d, queue, sets, rest)
      /\ \A i \in DOMAIN rest : EndsAt(d, rest[i]) = EndsAt(cache_ct, rest[i])
  <2>1. \A i \in DOMAIN rest : d <= Q!TimeAt(cache_ct, rest[i].phase)
    BY <1>5, <1>6 DEF EndsAt
  <2>2. /\ Q!Held(cache_precision, d, queue, sets, rest)
        /\ \A i \in DOMAIN rest :
              Q!TimeAt(d, rest[i].phase) = Q!TimeAt(cache_ct, rest[i].phase)
    BY <1>4, <2>1, Assumptions, Q!HeldLater
  <2>3. QED
    BY <2>2 DEF EndsAt
<1> HIDE DEF End
<1>8. CacheInv'
  <2>1. Q!IInv'
    BY <1>2, <1>7 DEF Q!IInv
  <2>2. IdsAgree'
    BY <1>1, <1>2, <1>6 DEF IdsAgree
  <2>3. \A i \in DOMAIN rest : WholeTicks(d, rest[i])
    BY <1>1, <1>6, <1>7 DEF WholeTicks
  <2>4. QED
    BY <1>2, <2>1, <2>2, <2>3 DEF CacheInv, WholeTicks, EndsAt
<1>9. /\ DOMAIN RetainedTimes = DOMAIN cache_accounts
      /\ \A i \in DOMAIN cache_accounts : RetainedTimes[i] = NotedAs(cache_ct, cache_accounts[i])
      /\ RetainedTimes = [i \in DOMAIN RetainedTimes |-> RetainedTimes[i]]
  BY <1>1, RetainedTimesIs DEF NotedAt
<1>10. RetainedTimes' = [i \in DOMAIN cache_accounts \ ids |-> RetainedTimes[i]]
  <2>1. RetainedTimes' = [i \in DOMAIN rest |-> NotedAs(d, rest[i])]
    BY <1>1, <1>2, <1>6, RetainedTimesIs DEF NotedAt
  <2>2. \A i \in DOMAIN rest : NotedAs(d, rest[i]) = RetainedTimes[i]
    BY <1>6, <1>7, <1>9 DEF NotedAs
  <2>3. QED
    BY <1>6, <2>1, <2>2
<1>11. \A i \in DOMAIN cache_accounts : Remembered!Expired(RetainedTimes[i], d) <=> i \in ids
  <2> SUFFICES ASSUME NEW i \in DOMAIN cache_accounts
               PROVE  Remembered!Expired(RetainedTimes[i], d) <=> i \in ids
    OBVIOUS
  <2> DEFINE p == cache_accounts[i].precision
             e == quantity_limit - 1
             k == Tick(p)
             w == e * k
  <2>1. p \in RetainScales /\ k \in Nat /\ e \in Nat
    <3>1. p \in RetainScales
      BY <1>1 DEF WholeTicks
    <3>2. QED
      BY <3>1, LongestIs, TickPositive, LimitPhases
  <2>2. RetainedTimes[i] = [at |-> End(i) - w, p |-> p] /\ w \in Int
    <3>1. longest(p).m = e
      BY <2>1, LongestIs
    <3>2. QED
      BY <1>9, <2>1, <3>1 DEF NotedAs, End
  <2>3. Remembered!Expired(RetainedTimes[i], d) <=> d - (End(i) - w) > w
    <3> HIDE DEF p
    <3> QED  BY <2>2, SameTime DEF Remembered!Expired
  <2> HIDE DEF w
  <2>4. QED
    BY <1>5, <2>2, <2>3
<1>12. RetainedTimes' = [i \in {j \in DOMAIN RetainedTimes :
                                   ~Remembered!Expired(RetainedTimes[j], cache_ct')} |->
                            RetainedTimes[i]]
  <2>1. {j \in DOMAIN RetainedTimes : ~Remembered!Expired(RetainedTimes[j], d)}
            = DOMAIN cache_accounts \ ids
    BY <1>9, <1>11
  <2>2. QED
    BY <1>2, <1>10, <2>1
<1>13. CASE d = cache_ct
  <2>1. DOMAIN cache_accounts \ ids = DOMAIN cache_accounts
    BY <1>3, <1>5, <1>13
  <2>2. QED
    BY <1>2, <1>8, <1>9, <1>10, <1>13, <2>1
<1>14. CASE d # cache_ct
  <2>1. cache_ct' \in cache_ct + 1 .. CacheMaxTime
    BY <1>2, <1>3, <1>14, TimeCacheAssumption
  <2>2. QED
    BY <1>8, <1>12, <2>1 DEF Remembered!Advance
<1>15. QED
  BY <1>13, <1>14

\* Both ways of advancing time pop just the events they pass.
LEMMA AdvancesStep ==
    ASSUME CacheInv,
           \/ \E dt \in CacheDurations : advance_cache_by(dt)
           \/ \E t \in CacheTargets : advance_cache_to(t)
    PROVE  CacheInv' /\ (Remembered!Advance \/ UNCHANGED <<cache_ct, RetainedTimes>>)
<1>1. Q!IInv /\ cache_ct \in Int
  BY EntriesStand DEF CacheInv
<1>2. ASSUME NEW dt \in CacheDurations, advance_cache_by(dt)
      PROVE  \E d \in Int : \E n : cache_ct <= d /\ Passes(0, d, n) /\ Advanced(d, n)
  <2>1. dt \in [m : Nat, p : Nat] /\ finite(dt)
    BY TimeCacheAssumption, MaxScaleAssumption DEF Scales
  <2>2. Ahead(cache_ct, 0)
    BY <1>1, EntriesStand DEF Ahead
  <2>3. Passes(0, advance(cache_ct, dt), Popped(cache_ct, dt, 0))
    BY <1>1, <2>1, <2>2, PoppedPasses
  <2>4. advance(cache_ct, dt) \in Int /\ cache_ct <= advance(cache_ct, dt)
    BY <1>1, <2>1, AdvanceForward
  <2>5. QED
    BY <1>2, <2>3, <2>4 DEF advance_cache_by
<1>3. ASSUME NEW t \in CacheTargets, advance_cache_to(t)
      PROVE  \E d \in Int : \E n : cache_ct <= d /\ Passes(0, d, n) /\ Advanced(d, n)
  <2>1. t \in Int
    BY TimeCacheAssumption
  <2>2. /\ CacheLoopEnd(t)[1] \in Int /\ cache_ct <= CacheLoopEnd(t)[1]
        /\ Passes(0, CacheLoopEnd(t)[1], CacheLoopEnd(t)[2])
    BY <1>1, <2>1, CacheLoopPasses
  <2>3. QED
    BY <1>3, <2>2 DEF advance_cache_to
<1>4. PICK d \in Int : \E n : cache_ct <= d /\ Passes(0, d, n) /\ Advanced(d, n)
  BY <1>2, <1>3
<1>5. PICK n : cache_ct <= d /\ Passes(0, d, n) /\ Advanced(d, n)
  BY <1>4
<1>6. QED
  BY <1>5, AdvancedStep

LEMMA CacheInductive ==
    ASSUME CacheInv, [CacheNext]_cacheVars
    PROVE  CacheInv' /\ [Remembered!Next]_(<<cache_ct, RetainedTimes>>)
<1>1. CASE \E id \in Ids : release_event(id)
  BY <1>1, ReleaseStep DEF Remembered!Next
<1>2. CASE \E id \in Ids : \E p \in RetainScales : retain_event(id, p)
  BY <1>2, RetainStep DEF Remembered!Next
<1>3. CASE \/ \E dt \in CacheDurations : advance_cache_by(dt)
           \/ \E t \in CacheTargets : advance_cache_to(t)
  BY <1>3, AdvancesStep DEF Remembered!Next
<1>4. CASE UNCHANGED cacheVars
  <2>1. /\ cache_precision' = cache_precision /\ cache_ct' = cache_ct
        /\ cache_queue' = cache_queue /\ cache_sets' = cache_sets
        /\ cache_accounts' = cache_accounts /\ event_ids_' = event_ids_
    BY <1>4 DEF cacheVars
  <2>2. CacheInv'
    BY <2>1 DEF CacheInv, Q!IInv, IdsAgree, WholeTicks, EndsAt
  <2>3. RetainedTimes' = RetainedTimes
    BY <2>1, RetainedTimesIs
  <2>4. QED
    BY <2>1, <2>2, <2>3
<1>5. QED
  BY <1>1, <1>2, <1>3, <1>4 DEF CacheNext

\* The time since a retained event is the exact one, cut to its scale, and the
\* ids given out are those accounted for, after every sequence of retentions,
\* releases and advances, whatever the scales, the start and the targets.
THEOREM CacheIsExact == CacheSpec => []CacheExact
<1>1. CacheInit => CacheInv
  BY CacheInitially
<1>2. CacheInv /\ [CacheNext]_cacheVars => CacheInv'
  BY CacheInductive
<1>3. CacheInv => CacheExact
  BY InvariantExact
<1>4. QED
  BY <1>1, <1>2, <1>3, PTL DEF CacheSpec

\* The cache implements a memory of past times: an event is forgotten when it is
\* older than the longest duration of its scale and never before, by advances
\* that pass any number of events, and its time does not change meanwhile.
THEOREM CacheImplementsMemory == CacheSpec => ImplementsMemory
<1>1. CacheInit => CacheInv /\ Remembered!Init
  BY CacheInitially
<1>2. CacheInv /\ [CacheNext]_cacheVars
          => CacheInv' /\ [Remembered!Next]_(<<cache_ct, RetainedTimes>>)
  BY CacheInductive
<1>3. QED
  BY <1>1, <1>2, PTL DEF CacheSpec, ImplementsMemory, Remembered!Spec
=============================================================================
