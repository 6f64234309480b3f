------------------------- MODULE MCInteractiveSystem -------------------------
(* One or two agents, one of which may take the id of the other, and frames  *)
(* that come less often than the events of agents, or at the same times.     *)
EXTENDS InteractiveSystem, TLC

IdSymmetry == Permutations(AgentIDs)
=============================================================================
