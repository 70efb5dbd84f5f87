----------------------------- MODULE MCApplyPlan -----------------------------
(***************************************************************************)
(* ApplyPlan for TLC: each run adds one setting; the seconds are all equal *)
(* (names clash and need suffixes) or all different.                       *)
(***************************************************************************)
EXTENDS ApplyPlan

MCProcs == 1 .. 2
MCKeys == {"icc", "live-restore"}
MCWants == <<{"live-restore"}, {"icc"}>>
SameSecond == [p \in MCProcs |-> 0]
OwnSecond == [p \in MCProcs |-> p]
=============================================================================
