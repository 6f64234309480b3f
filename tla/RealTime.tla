------------------------------- MODULE RealTime -------------------------------
(***************************************************************************)
(* A simulation that keeps pace with the wallclock: real_time_simulation.h *)
(* processes the events up to the next frame once the clock has reached    *)
(* the time real_time_buffer.cpp recommends for it, and the buffer works   *)
(* the recommended time out from the planned duration, the time            *)
(* advancement rate and, when synchronization is on, from how far          *)
(* simulated and wallclock time have drifted apart since a reference point *)
(* the user sets.                                                          *)
(*                                                                         *)
(* Wallclock time is counted in milliseconds, as the buffer does;          *)
(* simulated time in ticks, a fixed number to each.  The square roots      *)
(* are compared exactly; the strength of the correction, which grows with  *)
(* every corrected plan towards 1, is a table of percentages.  The frames  *)
(* are those of an interactive_system, with events of agents in between;   *)
(* each comes when it was planned (InteractiveSystem has the exception),   *)
(* as long as the end time of the simulation has not been reached.         *)
(***************************************************************************)
EXTENDS Integers, Sequences, FiniteSetsExt

CONSTANTS
  MillisecondTicks,  \* ticks of simulated time in a millisecond
  Rates,             \* time advancement rates; 0 stands for infinity
  FrameDurations,    \* planned durations of frames, in ticks
  FinalT,            \* end_t_ of the simulation, in ticks from its start
  References,        \* the reference points a user sets, besides the last frame
  Strength,          \* t_syn_strength in percent after 1, 2, ... corrections
  MaxClock           \* bound: wallclock time

\* A corrected plan is never later than the synchronized one only because no
\* strength exceeds 1.
ASSUME PaceAssumption ==
  /\ MillisecondTicks \in Nat \ {0} /\ Rates \subseteq Nat /\ FrameDurations \subseteq Nat \ {0}
  /\ FinalT \in Nat \ {0} /\ References \subseteq Int \X Int
  /\ Strength \in Seq(0 .. 100) /\ Strength # <<>>

VARIABLES
  clock,         \* the wallclock
  next_t,        \* the time of the simulation's next event
  last_frame,    \* the number of the last frame
  next_frame_t,  \* the time of the next frame
  finished,      \* the simulation has been finalized
  frame_was,     \* history: the time of the last frame
  call,          \* locals of process_frame_if_time_reached, or NotCalled
  t_adv_rate_, t_syn_rate_, syn_sim_t_, syn_clk_t_, syn_count_,
  current_sim_t_, current_clk_t_, planned_sim_dt_, planned_clk_dt_

simVars == <<next_t, last_frame, next_frame_t, finished, frame_was>>
rateVars == <<t_adv_rate_, t_syn_rate_, syn_sim_t_, syn_clk_t_>>
currentVars == <<current_sim_t_, current_clk_t_, planned_sim_dt_>>
bufferVars == <<rateVars, currentVars, syn_count_, planned_clk_dt_>>
paceVars == <<clock, simVars, call, bufferVars>>

NotCalled == [t |-> -1, clock_t |-> -1, frame |-> -2]
-----------------------------------------------------------------------------
(* real_time_buffer.cpp                                                    *)

(* A duration of simulated time in milliseconds of wallclock time, of      *)
(* which the conversion to an integer keeps the whole ones.                *)
Milliseconds(dt, rate) ==
  IF rate = 0 THEN 0
  ELSE IF dt >= 0 THEN dt \div (MillisecondTicks * rate)
  ELSE -((-dt) \div (MillisecondTicks * rate))

(* The correction, truncated when it is used: the planned duration is      *)
(* moved, with the given strength, towards the geometric mean with the     *)
(* synchronized one if that is longer, and if it is shorter towards        *)
(* p * sqrt(p / (2 p - s)).                                                *)
Corrected_Swapped(p, s, strength) ==  \* mutant: the cases are exchanged
  LET Within(v) ==
        LET excess == 100 * v - (100 - strength) * p
        IN excess <= 0 \/ IF s > p THEN excess * excess * (2 * p - s) <= strength * strength * p * p * p
                         ELSE excess * excess <= strength * strength * p * s
  IN Max({v \in 0 .. 2 * Max({p, s}) : Within(v)})

Corrected(p, s, strength) ==
  LET Within(v) ==
        LET excess == 100 * v - (100 - strength) * p
        IN excess <= 0 \/ IF s > p THEN excess * excess <= strength * strength * p * s
                         ELSE excess * excess * (2 * p - s) <= strength * strength * p * p * p
  IN Max({v \in 0 .. 2 * Max({p, s}) : Within(v)})

(* Every recomputation that corrects the plan counts, whether it follows a *)
(* frame or a change of a setting; the settings start over with 0.         *)
recompute_planned_clock_duration(count) ==
  LET p == Milliseconds(planned_sim_dt_', t_adv_rate_')
      gap == current_sim_t_' - syn_sim_t_'
      s == syn_clk_t_' + Milliseconds(gap + planned_sim_dt_', t_adv_rate_') - current_clk_t_'
  IN IF t_syn_rate_' /\ (s - p >= 2 \/ p - s >= 2)
     THEN /\ syn_count_' = Min({count + 1, Len(Strength)})
          /\ planned_clk_dt_' = Corrected(p, s, Strength[syn_count_'])
     ELSE /\ planned_clk_dt_' = p
          /\ syn_count_' = IF t_syn_rate_' THEN 0 ELSE count

planned_clock_time == current_clk_t_ + planned_clk_dt_

update_current_time(sim_t, clk_t, planned_sim_dt) ==
  /\ current_sim_t_' = sim_t /\ current_clk_t_' = clk_t
  /\ planned_sim_dt_' = planned_sim_dt
  /\ UNCHANGED rateVars
  /\ recompute_planned_clock_duration(syn_count_)

update_time_advancement_rate ==
  /\ t_adv_rate_' \in Rates
  /\ UNCHANGED <<t_syn_rate_, syn_sim_t_, syn_clk_t_, currentVars>>
  /\ recompute_planned_clock_duration(0)

update_time_synchronization_rate ==
  /\ t_syn_rate_' \in BOOLEAN
  /\ UNCHANGED <<t_adv_rate_, syn_sim_t_, syn_clk_t_, currentVars>>
  /\ recompute_planned_clock_duration(0)

update_synchronization_time(sim_t, clk_t) ==
  /\ syn_sim_t_' = sim_t /\ syn_clk_t_' = clk_t
  /\ UNCHANGED <<t_adv_rate_, t_syn_rate_, currentVars>>
  /\ recompute_planned_clock_duration(0)
-----------------------------------------------------------------------------
(* real_time_simulation.h: the simulated and the wallclock time are read   *)
(* before a batch of events, those of one time point, is processed, and    *)
(* again before the next batch if no frame was among them.  At the end     *)
(* time there is only the finalization, and the call returns after it.     *)

process_frame_if_time_reached ==
  /\ call = NotCalled /\ ~finished
  /\ clock >= planned_clock_time
  /\ call' = [t |-> next_t, clock_t |-> clock, frame |-> last_frame]
  /\ UNCHANGED <<clock, simVars, bufferVars>>

FrameProcessed == last_frame > call.frame

(* The event after this batch: no later than the frame and the end time.   *)
Following(frame_t) == next_t + 1 .. Min({frame_t, FinalT})

FrameBatch ==
  /\ next_t = next_frame_t
  /\ last_frame' = last_frame + 1
  /\ frame_was' = next_t
  /\ \E dt \in FrameDurations : next_frame_t' = next_t + dt
  /\ next_t' \in Following(next_frame_t')
  /\ UNCHANGED call

MicroBatch ==
  /\ next_t < next_frame_t
  /\ next_t' \in Following(next_frame_t)
  /\ call' = [call EXCEPT !.t = next_t', !.clock_t = clock]
  /\ UNCHANGED <<last_frame, next_frame_t, frame_was>>

ModelBatch == next_t < FinalT /\ (FrameBatch \/ MicroBatch) /\ UNCHANGED finished

FinalBatch ==
  /\ next_t = FinalT /\ finished' = TRUE
  /\ UNCHANGED <<next_t, last_frame, next_frame_t, frame_was, call>>

process_next_events ==
  /\ call # NotCalled /\ ~FrameProcessed /\ ~finished
  /\ ModelBatch \/ FinalBatch
  /\ UNCHANGED <<clock, bufferVars>>

FrameTime_Late == next_t  \* mutant: the time is read after the events

FrameTime == call.t

(* planned_duration(): from a frame all that was planned, and at the end   *)
(* what the messages of agents have left of it since.                      *)
PlannedDurations ==
  IF finished THEN next_frame_t - FinalT + 1 .. next_frame_t - frame_was
  ELSE {next_frame_t - frame_was}

(* The loop ends with a frame or the simulation, and either is passed on   *)
(* to the buffer.                                                          *)
CallReturns ==
  /\ call # NotCalled /\ (finished \/ FrameProcessed)
  /\ \E dt \in PlannedDurations : update_current_time(FrameTime, call.clock_t, dt)
  /\ call' = NotCalled
  /\ UNCHANGED <<clock, simVars>>

ClockAdvances ==
  /\ clock < MaxClock
  /\ clock' = clock + 1
  /\ UNCHANGED <<simVars, call, bufferVars>>

UserCalls ==
  /\ call = NotCalled
  /\ \/ update_time_advancement_rate \/ update_time_synchronization_rate
     \/ \E r \in References \cup {<<current_sim_t_, current_clk_t_>>} :
           update_synchronization_time(r[1], r[2])
  /\ UNCHANGED <<clock, simVars, call>>

(* The model ends where its clock does.                                    *)
Ended == clock = MaxClock /\ call = NotCalled /\ UNCHANGED paceVars

PaceNext ==
  \/ process_frame_if_time_reached \/ process_next_events \/ CallReturns
  \/ ClockAdvances \/ UserCalls \/ Ended

PaceInit ==
  /\ clock = 0 /\ next_t = 0 /\ last_frame = -1 /\ frame_was = 0 /\ finished = FALSE
  /\ next_frame_t \in {0} \cup FrameDurations
  /\ call = NotCalled
  /\ t_adv_rate_ = 0 /\ t_syn_rate_ = FALSE /\ syn_sim_t_ = 0 /\ syn_clk_t_ = 0 /\ syn_count_ = 0
  /\ current_sim_t_ = 0 /\ current_clk_t_ = 0 /\ planned_sim_dt_ = 0 /\ planned_clk_dt_ = 0

PaceSpec == PaceInit /\ [][PaceNext]_paceVars
-----------------------------------------------------------------------------
(* The buffer learns of a frame the time at which it took place, although  *)
(* by then the simulation has moved on to the time of its next event, with *)
(* what is planned from there and a wallclock time no later than now.  The *)
(* call in which the simulation ends puts the end time in the place of the *)
(* last frame's.                                                           *)
FramesAtTheirTime ==
  call = NotCalled =>
    /\ current_clk_t_ <= clock
    /\ ~finished /\ last_frame >= 0 =>
          /\ current_sim_t_ = frame_was
          /\ current_sim_t_ + planned_sim_dt_ = next_frame_t
    /\ finished => current_sim_t_ = FinalT

(* real_time_simulation.h:84, frame_time() "Returns the simulated time     *)
(* point of the most recently processed frame of the simulation."          *)
FrameTimeKept == call = NotCalled /\ last_frame >= 0 => current_sim_t_ = frame_was

(* How far the simulation is ahead of the clock since the reference point, *)
(* in milliseconds.                                                        *)
Ahead ==
  IF t_adv_rate_ = 0 THEN 0
  ELSE Milliseconds(current_sim_t_ - syn_sim_t_, t_adv_rate_) - (current_clk_t_ - syn_clk_t_)

(* The correction never overshoots: a frame that is processed just when it *)
(* was recommended leaves the simulation ahead if it was, or behind, and   *)
(* by no more than before; durations that are not a whole number of        *)
(* milliseconds may add one in either direction.                           *)
Settles ==
  LET punctual == /\ last_frame >= 1 /\ ~finished /\ current_sim_t_' # current_sim_t_
                  /\ current_clk_t_' = planned_clock_time
                  /\ t_adv_rate_ # 0
      Whole(dt) == dt % (MillisecondTicks * t_adv_rate_) = 0
      rounding == IF Whole(planned_sim_dt_) /\ Whole(current_sim_t_ - syn_sim_t_) THEN 0 ELSE 1
  IN punctual => /\ Min({Ahead, 0}) <= Ahead' + rounding
                 /\ Ahead' <= Max({Ahead, 0}) + rounding

DriftSettles == [][Settles]_paceVars
=============================================================================
