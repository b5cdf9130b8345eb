--------------------------- MODULE MCDishCatalogue ---------------------------
(***************************************************************************)
(* Instances of DishCatalogue for TLC.                                     *)
(***************************************************************************)
EXTENDS DishCatalogue, TLC

MCSymmetry == Permutations(Tasks) \cup Permutations(Dishes) \cup Permutations(Names)
                \cup Permutations(Values)
=============================================================================
