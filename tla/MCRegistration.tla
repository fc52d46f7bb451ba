--------------------------- MODULE MCRegistration ---------------------------
(***************************************************************************)
(* The registration server under TLC.                                      *)
(***************************************************************************)
EXTENDS Registration, TLC

Symmetry ==
    Permutations(Customers) \cup Permutations(Devices)
      \cup Permutations(Installations) \cup Permutations(Keys)
      \cup Permutations(Licenses) \cup Permutations(Tokens)
      \cup Permutations(Challenges)
=============================================================================
