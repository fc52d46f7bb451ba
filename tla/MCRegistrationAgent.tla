------------------------ MODULE MCRegistrationAgent ------------------------
(***************************************************************************)
(* The registration agent under TLC.                                       *)
(***************************************************************************)
EXTENDS RegistrationAgent, TLC

Symmetry == Permutations(Runs)
=============================================================================
