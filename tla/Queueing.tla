------------------------------ MODULE Queueing -------------------------------
(***************************************************************************)
(* The queueing demonstration and the basic test system: jobs generated at *)
(* intervals go to one queue, to two queues in a row, to queues in         *)
(* parallel of which more are created when all are full, or to two         *)
(* processors in a row that miss the jobs coming while they are busy.      *)
(* Every component is told, of time, only how long ago its last event was. *)
(* Events at one time happen in the order of the components, as            *)
(* CompositeNode and CollectionNode have it, the generator first.          *)
(***************************************************************************)
EXTENDS SequencesExt, Integers

CONSTANTS
    GenDts,    \* the intervals between jobs
    ServDts,   \* the durations of a service
    MaxNs,     \* the lengths at which a queue in parallel is full
    EndTs,     \* the ends of the simulation
    MaxJobs    \* bound: the number of jobs of the random generator

Systems == {"queue", "two_stage", "parallel", "basic"}

VARIABLES
    system,     \* the closed system
    dts,        \* its parameters: gen_dt, serv_dt of each stage, max_n, end
    now,
    generator,  \* its job_id, planned_dt and time of its last event
    servers,    \* of each queue or processor Q, planned_dt, idle_dt, miss_count, last
    N,          \* the number of jobs in each queue in parallel
    entered,    \* history: the jobs generated, with their times
    left,       \* history: the jobs that came out, with their times
    results     \* at the end, idle_dt and miss_count of all

vars == <<system, dts, now, generator, servers, N, entered, left, results>>

\* Longer than any simulation.
inf == 1 + Max(EndTs \cup ServDts \cup GenDts)

NewServer == [Q |-> <<>>, planned_dt |-> inf, idle_dt |-> 0, miss_count |-> 0, last |-> now]

Stages == IF system \in {"two_stage", "basic"} THEN 2 ELSE 1

\* Parameter nodes of the systems.  Two stages of queues share one service
\* duration; processors have their own, and their generator has no interval.
Shared == {<<dt, dt>> : dt \in ServDts}
queueing_closed_system == [gen_dt : GenDts, serv_dt : Shared, end : EndTs]
two_stage_queueing_closed_system == [gen_dt : GenDts, serv_dt : Shared, end : EndTs]
parallel_queueing_closed_system == [gen_dt : GenDts, serv_dt : Shared, max_n : MaxNs, end : EndTs]
basic_generator_double_processor_node == [serv_dt : ServDts \X ServDts, end : EndTs]

Parameters ==
    CASE system = "queue" -> queueing_closed_system
      [] system = "two_stage" -> two_stage_queueing_closed_system
      [] system = "parallel" -> parallel_queueing_closed_system
      [] system = "basic" -> basic_generator_double_processor_node

\* The random generator may send its next job at once, or not for long.
Gaps(jobs) ==
    CASE system # "basic" -> {dts.gen_dt}
      [] jobs < MaxJobs -> {0, inf} \cup GenDts
      [] OTHER -> {inf}

Init ==
    /\ system \in Systems
    /\ dts \in Parameters
    /\ now = 0
    /\ entered = <<>> /\ left = <<>>
    /\ generator \in [job_id : {IF system = "basic" THEN 1 ELSE 0}, planned_dt : Gaps(0), last : {0}]
    /\ servers = [s \in 1..Stages |-> NewServer]
    /\ N = IF system = "parallel" THEN <<0>> ELSE <<>>
    /\ results = <<>>

-----------------------------------------------------------------------------
(* A server.                                                               *)

\* Mutant: a service that is interrupted takes as long as it still had to take.
Queued_Prolonged(server, job, serv_dt) ==
    LET idle == server.Q = <<>>
    IN  [server EXCEPT
            !.idle_dt = IF idle THEN @ + (now - server.last) ELSE @,
            !.Q = Append(@, job),
            !.planned_dt = IF idle THEN serv_dt ELSE @,
            !.last = now]

\* A message with a job; what is left of a service is its duration less the
\* elapsed one.
Queued(server, job, serv_dt) ==
    LET elapsed_dt == now - server.last
        idle == server.Q = <<>>
    IN  [server EXCEPT
            !.idle_dt = IF idle THEN @ + elapsed_dt ELSE @,
            !.Q = Append(@, job),
            !.planned_dt = IF idle THEN serv_dt ELSE @ - elapsed_dt,
            !.last = now]

\* The same for a processor, which takes one job at a time.
Processed(server, job, response_dt) ==
    IF server.planned_dt < inf
    THEN [server EXCEPT
             !.planned_dt = @ - (now - server.last), !.miss_count = @ + 1, !.last = now]
    ELSE [server EXCEPT !.Q = <<job>>, !.planned_dt = response_dt, !.last = now]

Received(s, job) ==
    IF system = "basic" THEN Processed(servers[s], job, dts.serv_dt[s])
    ELSE Queued(servers[s], job, dts.serv_dt[1])

\* The job at the front has been served.
Served(server, serv_dt) ==
    [server EXCEPT
        !.Q = Tail(@),
        !.planned_dt = IF Len(server.Q) = 1 THEN inf ELSE serv_dt,
        !.last = now]

\* The first queue with room, or one that is created for the job.
QueueFor ==
    IF \E a \in DOMAIN N : N[a] < dts.max_n
    THEN CHOOSE a \in DOMAIN N : N[a] < dts.max_n /\ \A b \in 1..(a - 1) : N[b] >= dts.max_n
    ELSE Len(N) + 1

-----------------------------------------------------------------------------
Due(component) == component.last + component.planned_dt
Earliest == Min({Due(generator)} \cup {Due(servers[s]) : s \in DOMAIN servers})

\* The first component with an event at this time: the generator, or a server.
Imminent(s) ==
    /\ results = <<>> /\ Due(servers[s]) = now /\ Due(generator) # now
    /\ \A r \in 1..(s - 1) : Due(servers[r]) # now

\* A job is generated, and goes to the first server or to a queue with room.
JobGeneration ==
    /\ results = <<>> /\ Due(generator) = now
    /\ entered' = Append(entered, [job |-> generator.job_id, time |-> now])
    /\ \E dt \in Gaps(Len(entered')) :
          generator' = [generator EXCEPT !.job_id = @ + 1, !.planned_dt = dt, !.last = now]
    /\ IF system # "parallel"
       THEN servers' = [servers EXCEPT ![1] = Received(1, generator.job_id)] /\ UNCHANGED N
       ELSE LET a == QueueFor
                all == IF a > Len(servers) THEN Append(servers, NewServer) ELSE servers
            IN  /\ N' = IF a > Len(N) THEN Append(N, 1) ELSE [N EXCEPT ![a] = @ + 1]
                /\ servers' = [all EXCEPT ![a] = Queued(@, generator.job_id, dts.serv_dt[1])]
    /\ UNCHANGED <<system, dts, now, left, results>>

\* A job is served, and goes on to the next stage or out of the system.
ServiceEnd(s) ==
    /\ Imminent(s)
    /\ LET job == Head(servers[s].Q)
           served == Served(servers[s], dts.serv_dt[1])
       IN  IF s < Stages
           THEN /\ servers' = [servers EXCEPT ![s] = served, ![s + 1] = Received(s + 1, job)]
                /\ UNCHANGED left
           ELSE /\ servers' = [servers EXCEPT ![s] = served]
                /\ left' = Append(left, [job |-> job, time |-> now])
    /\ N' = IF system = "parallel" THEN [N EXCEPT ![s] = @ - 1] ELSE N
    /\ UNCHANGED <<system, dts, now, generator, entered, results>>

TimePasses ==
    /\ results = <<>> /\ now < Earliest /\ Earliest < dts.end
    /\ now' = Earliest
    /\ UNCHANGED <<system, dts, generator, servers, N, entered, left, results>>

\* The idle time of a queue is accounted for when it is finalized.
Idle(server) == server.idle_dt + IF server.Q = <<>> THEN dts.end - server.last ELSE 0

\* What the queues and processors put out at the end is added up.
Total(F(_)) == FoldLeft(LAMBDA sum, server : sum + F(server), 0, servers)

\* The simulation is over: the servers are finalized, and their results added.
Finalization ==
    /\ results = <<>> /\ now < Earliest /\ Earliest >= dts.end
    /\ now' = dts.end
    /\ results' = [idle_dt |-> Total(Idle), miss_count |-> Total(LAMBDA server : server.miss_count)]
    /\ UNCHANGED <<system, dts, generator, servers, N, entered, left>>

Next == JobGeneration \/ TimePasses \/ Finalization \/ \E s \in DOMAIN servers : ServiceEnd(s)

Spec == Init /\ [][Next]_vars

-----------------------------------------------------------------------------
(* When each job is served by whom, worked out from the times they come.   *)

Service(s, job, begin, dt) == [server |-> s, job |-> job, begin |-> begin, end |-> begin + dt]

\* One queue, for a sequence of jobs with their times.
InTurn(s, jobs, dt) ==
    LET begin[i \in 1..Len(jobs)] ==
            IF i = 1 THEN jobs[1].time ELSE Max({jobs[i].time, begin[i - 1] + dt})
    IN  [i \in 1..Len(jobs) |-> Service(s, jobs[i].job, begin[i], dt)]

\* Queues in parallel: the first with fewer than max_n jobs that are not done.
InParallel(jobs, dt, max_n) ==
    LET Next_(done, job) ==
            LET queues == Max({1} \cup {d.server : d \in Range(done)})
                Load(a) == Len(SelectSeq(done, LAMBDA d : d.server = a /\ d.end >= job.time))
                a == Min({queues + 1} \cup {b \in 1..queues : Load(b) < max_n})
                ends == {d.end : d \in {e \in Range(done) : e.server = a}}
            IN  Append(done, Service(a, job.job, Max({job.time} \cup ends), dt))
    IN  FoldLeft(Next_, <<>>, jobs)

\* A processor: a job that comes before the last one is done, or just then, is missed.
IfFree(s, jobs, dt) ==
    FoldLeft(LAMBDA done, job :
                 IF done # <<>> /\ Last(done).end >= job.time THEN done
                 ELSE Append(done, Service(s, job.job, job.time, dt)),
             <<>>, jobs)

\* The jobs of a stage as they come to the next.
Passed(services) == [i \in DOMAIN services |-> [job |-> services[i].job, time |-> services[i].end]]

Services ==
    LET dt == dts.serv_dt
        first == InTurn(1, entered, dt[1])
        processed == IfFree(1, entered, dt[1])
    IN  CASE system = "queue" -> <<first>>
          [] system = "two_stage" -> <<first, InTurn(2, Passed(first), dt[1])>>
          [] system = "parallel" -> <<InParallel(entered, dt[1], dts.max_n)>>
          [] system = "basic" -> <<processed, IfFree(2, Passed(processed), dt[2])>>

\* The time the queues are without a job, from when they were created.
IdleTime ==
    LET all == UNION {Range(stage) : stage \in Range(Services)}
        Until(t) == Min({t, dts.end})
        IdleOf(s) ==
            LET own == {d \in all : d.server = s}
                created == IF s > Stages THEN Min({d.begin : d \in own}) ELSE 0
            IN  dts.end - created - MapThenSumSet(LAMBDA d : Until(d.end) - Until(d.begin), own)
    IN  MapThenSumSet(IdleOf, DOMAIN servers)

\* The jobs that came to a processor before the end and were not taken.
Misses ==
    LET InTime(jobs) == SelectSeq(jobs, LAMBDA j : j.time < dts.end)
        came == InTime(Passed(Services[1]))
    IN  Len(entered) - Len(Services[1]) + Len(came) - Len(IfFree(2, came, dts.serv_dt[2]))

\* queueing_node.h, parallel_queueing_node.h, basic_processor_node.h: whatever
\* interrupts a service, every job comes out of the last stage when its services
\* in the order of arrival are over, and in no other way; the queues' idle time
\* and the processors' misses are what follows from that; and the count of a
\* queue in parallel is its length, up to what it may be.
ServedInTurn ==
    LET out == Range(Passed(Last(Services)))
    IN  /\ {d \in out : d.time < now} \subseteq Range(left)
        /\ Range(left) \subseteq {d \in out : d.time <= now}
        /\ IsInjective(left)
        /\ \A a \in DOMAIN N : N[a] = Len(servers[a].Q) /\ N[a] <= Max({dts.max_n, 1})
        /\ results # <<>> =>
              IF system = "basic" THEN results.miss_count = Misses ELSE results.idle_dt = IdleTime
=============================================================================
