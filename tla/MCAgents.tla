------------------------------- MODULE MCAgents -------------------------------
(***************************************************************************)
(* For TLC, a collection node, an interactive system, and the frames of    *)
(* such a system against the wallclock, side by side: a behaviour uses one *)
(* of them, and the others stay as they begin.  The parent of the          *)
(* collection may call it early; the interactive system is the top of a    *)
(* simulation.  There are two ids and one more agent than ids, so that an  *)
(* id is used again while its former agent is still kept, and the periods  *)
(* hold plans that overlap: of agents, and of agents and frames.           *)
(***************************************************************************)
EXTENDS InteractiveSystem, MCRealTime, TLC

VARIABLE part  \* what is in use

Crowd == INSTANCE CollectionNode WITH Durations <- {0, 2}, End <- 3

AgentsInit ==
    /\ part \in {"collection", "interactive", "pace"}
    /\ IF part = "collection" THEN CollectionInit /\ FramesInit ELSE InteractiveInit
    /\ PaceInit
    /\ part # "pace" => next_frame_t = 0

AgentsNext ==
    /\ UNCHANGED part
    /\ \/ part = "collection" /\ Crowd!CollectionNext /\ UNCHANGED <<frameVars, paceVars>>
       \/ /\ part = "interactive" /\ InteractiveNext /\ UNCHANGED paceVars
          /\ next_node_index' <= 2  \* bound: agents under frames
       \/ part = "pace" /\ PaceNext /\ UNCHANGED <<collectionVars, frameVars>>

AgentsSpec == AgentsInit /\ [][AgentsNext]_<<part, collectionVars, frameVars, paceVars>>

IdSymmetry == Permutations(AgentIDs)
===============================================================================
