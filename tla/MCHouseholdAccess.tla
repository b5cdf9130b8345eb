-------------------------- MODULE MCHouseholdAccess --------------------------
(***************************************************************************)
(* Instances of HouseholdAccess for TLC.                                   *)
(***************************************************************************)
EXTENDS HouseholdAccess, TLC

\* NoPin is a CHOOSE over Pins, so PINs are not interchangeable.
MCSymmetry == Permutations(Tasks) \cup Permutations(Nicks)
=============================================================================
