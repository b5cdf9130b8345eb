----------------------------- MODULE MCBackend ------------------------------
(* An instance of Backend for TLC.                                         *)
EXTENDS Backend, TLC
=============================================================================
