----------------------------- MODULE MCTodayPage -----------------------------
(***************************************************************************)
(* Instances of TodayPage for TLC.                                         *)
(***************************************************************************)
EXTENDS TodayPage, TLC

MCSymmetry == Permutations(Meals) \cup Permutations(Dishes)
=============================================================================
