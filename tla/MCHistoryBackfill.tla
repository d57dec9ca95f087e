-------------------------- MODULE MCHistoryBackfill --------------------------
(* Small instances of HistoryBackfill for TLC.                              *)
EXTENDS HistoryBackfill, TLC

CONSTANTS old, new, twin, w1, w2

SessionSymmetry == Permutations(Session)

MCObservedAt == (old :> 1 @@ new :> 2 @@ twin :> 2)
MCOneEach    == [r \in Run |-> 1]
MCOldIsLong  == [r \in Run |-> IF r = old THEN 2 ELSE 1]
MCObserved   == [r \in Run |-> MCObservedAt[r]]
=============================================================================
