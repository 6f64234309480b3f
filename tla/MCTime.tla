------------------------------- MODULE MCTime -------------------------------
(***************************************************************************)
(* The components of time for TLC, side by side: a time queue, two time    *)
(* points adjusted by durations of three scales, a time cache and a time   *)
(* sequence.  A behaviour uses one of them, and the others stay as they    *)
(* begin.  With base 4 and two scales to an epoch, an event of the cache   *)
(* expires when it is sixteen ticks of its scale old, and a partition of   *)
(* the sequence ends soon.                                                 *)
(***************************************************************************)
EXTENDS MCTimeQueue, TimeCache, TimeSequence, TimePoint

CONSTANTS tp_a, tp_b

VARIABLE part  \* the component in use

queueVars == <<default_precision_, ct_, queue_, event_id_sets_, event_accounts_>>

MCInitials == {Duration(0, 0), Duration(8, 3), Duration(-5, 3)}
MCOffsets == {Duration(1, 0), Duration(-1, 0), Duration(-5, 0), Duration(7, 1), Duration(-3, 2)}
MCAdvances == {Duration(0, 1), Duration(3, 0), Duration(4, 1), Duration(1, 2)}

MCRetainScales == {0, 1}
MCCacheDurations == {Duration(1, 0), Duration(3, 1), Duration(5, 2)}
MCCacheTargets == {-2, 11}
MCCacheStarts == {-9}

MCTimePoints == {-17, 0, 1, 14, 15, 17, 33, 48}
MCJumps == {-3, 2}

TimeInit ==
    /\ part \in {"queue", "points", "cache", "sequence"}
    /\ Init /\ PointInit /\ CacheInit /\ SequenceInit

TimeNext ==
    /\ UNCHANGED part
    /\ \/ part = "queue" /\ Next /\ UNCHANGED <<tp, cacheVars, sequenceVars>>
       \/ part = "points" /\ PointNext /\ UNCHANGED <<queueVars, cacheVars, sequenceVars>>
       \/ part = "cache" /\ CacheNext /\ UNCHANGED <<queueVars, tp, sequenceVars>>
       \/ part = "sequence" /\ SequenceNext /\ UNCHANGED <<queueVars, tp, cacheVars>>

TimeSpec == TimeInit /\ [][TimeNext]_<<part, queueVars, tp, cacheVars, sequenceVars>>
=============================================================================
