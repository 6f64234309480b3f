---------------------------- MODULE MCTimeSequence ----------------------------
(* A sequence of up to four time points near and far from each other, on     *)
(* both sides of zero, some of them more digits apart than a duration holds. *)
EXTENDS TimeSequence

MCTimePoints == {-9, 0, 1, 6, 7, 8, 9, 17, 24}
MCJumps == {-3, 2}
=============================================================================
