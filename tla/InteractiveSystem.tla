-------------------------- MODULE InteractiveSystem --------------------------
(***************************************************************************)
(* interactive_system.h: a collection node at the top of a simulation that *)
(* shows frames.  The macro-level user code plans the next frame; the      *)
(* micro-level user code, which runs when agents send messages, plans      *)
(* nothing: the node takes the time that has elapsed from what was left    *)
(* until the frame and plans the frame again.                              *)
(***************************************************************************)
EXTENDS CollectionNode

VARIABLES
    planned_dt_,   \* the duration until the next frame
    frame_index_,  \* the number of the last frame
    frame_due,     \* history: when the macro level wants its next frame, or NoFrame
    silent         \* history: has an agent sent nothing in its planned event
                   \* since the last frame?

frameVars == <<planned_dt_, frame_index_, frame_due, silent>>

NoFrame == Start - 1

FramesInit ==
    /\ planned_dt_ = 0 /\ frame_index_ = -1
    /\ frame_due = NoFrame /\ silent = FALSE

InteractiveInit == CollectionInit /\ prototype_dmode = "message" /\ FramesInit

\* The node has no ports, so there are no unplanned events.
NodeEvent ==
    /\ handle_initialization_event \/ handle_planned_event \/ handle_finalization_event
    /\ silent' = (silent \/ (Earliest(queue) = {now} /\ imminent_id # macro_event_id /\ handler' = "none"))
    /\ UNCHANGED <<planned_dt_, frame_index_, frame_due>>

Frame(dt) ==
    /\ planned_dt_' = dt
    /\ frame_due' = now + dt
    /\ silent' = FALSE
    /\ HandlerReturns({dt})

\* macro_initialization_event
InitializationReturns(dt) ==
    /\ handler = "initialization"
    /\ Frame(dt)
    /\ UNCHANGED frame_index_

\* macro_planned_event
FrameReturns(dt) ==
    /\ handler = "planned"
    /\ \/ dt > 0 /\ Frame(dt)
       \/ /\ dt = 0
          /\ planned_dt_' = dt
          /\ Fails("misuse")
          /\ UNCHANGED <<frame_due, silent>>
    /\ frame_index_' = frame_index_ + 1

\* Mutant: the plan is kept as it was made.
MicroReturns_Unchanged ==
    /\ handler = "micro"
    /\ planned_dt_' = planned_dt_
    /\ HandlerReturns({planned_dt_'})
    /\ UNCHANGED <<frame_index_, frame_due, silent>>

\* Mutant: the elapsed duration is taken from the plan for every message.
MicroReturns_Twice ==
    /\ handler = "micro"
    /\ planned_dt_' = planned_dt_ - (now - called)
    /\ IF planned_dt_' < 0 THEN Fails("internal") ELSE HandlerReturns({planned_dt_'})
    /\ UNCHANGED <<frame_index_, frame_due, silent>>

\* micro_planned_event; a negative duration is refused by scale_planned_dt.
MicroReturns ==
    /\ handler = "micro"
    /\ planned_dt_' = planned_dt_ - elapsed
    /\ IF planned_dt_' < 0 THEN Fails("internal") ELSE HandlerReturns({planned_dt_'})
    /\ UNCHANGED <<frame_index_, frame_due, silent>>

InteractiveNext ==
    /\ failure = "none"
    /\ \/ NodeEvent
       \/ UserCode /\ UNCHANGED frameVars
       \/ \E dt \in Durations : InitializationReturns(dt) \/ FrameReturns(dt)
       \/ MicroReturns
       \/ FinalizationReturns /\ UNCHANGED frameVars
       \/ \E t \in Start .. End : Pass(t) /\ UNCHANGED frameVars

InteractiveSpec == InteractiveInit /\ [][InteractiveNext]_<<collectionVars, frameVars>>

-----------------------------------------------------------------------------
(* Properties                                                              *)

NextFrame == queue[macro_event_id]
Idle == stage = "running" /\ handler = "none" /\ failure = "none"

\* Whatever the agents do, the next frame is never planned before it is due,
\* and if each of them sends a message whenever it has a planned event, the
\* frame is planned for just when it is due.
FramesKept ==
    Idle /\ frame_due # NoFrame =>
        NextFrame >= frame_due /\ (~silent => NextFrame = frame_due)

\* interactive_system.h:44: "micro-level events should not directly affect
\* the frame rate established at the macro level".
FrameRateKept == Idle => NextFrame = frame_due
=============================================================================
