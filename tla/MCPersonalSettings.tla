------------------------- MODULE MCPersonalSettings -------------------------
(***************************************************************************)
(* A small instance of PersonalSettings.                                     *)
(***************************************************************************)
EXTENDS PersonalSettings, TLC

Symmetry == Permutations(Lanes) \cup Permutations(Accounts) \cup Permutations(Requests)
=============================================================================
