-------------------------- MODULE MCPersonalVaults --------------------------
(***************************************************************************)
(* Small instances of PersonalVaults: an administrator and a standard user    *)
(* create vaults of the same name, two creations at a time.                  *)
(***************************************************************************)
EXTENDS PersonalVaults, TLC

CONSTANTS admin, user, t1, t2

\* The creations are told apart by nothing but their state.
Symmetry == Permutations(Tasks)
=============================================================================
