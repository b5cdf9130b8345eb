----------------------------- MODULE MCMealSlot -----------------------------
(***************************************************************************)
(* Instances of MealSlot for TLC.                                          *)
(***************************************************************************)
EXTENDS MealSlot, TLC

MCSymmetry == Permutations(Tasks) \cup Permutations(Members) \cup Permutations(Dishes)

(***************************************************************************)
(* The API takes any expected_version that is not negative, and Spec sends *)
(* any of Expected.  The pages of the application send one that the server *)
(* has shown them, which the counterexamples do not need to depart from.   *)
(***************************************************************************)
ShownNext ==
  Next /\ \A t \in Tasks : pc[t] = "idle" => job'[t].expected <= version

ShownSpec == Init /\ [][ShownNext]_vars
=============================================================================
