---------------------------- MODULE MCVaultMount ----------------------------
(***************************************************************************)
(* Small instances of VaultMount.  `private` is a per-user vault, `shared`   *)
(* and `team` are machine-wide; each configuration says which of them belong *)
(* to the managed policy.  alice has two logons, bob one.                    *)
(***************************************************************************)
EXTENDS VaultMount

CONSTANTS shared, private, team, alice, bob, a1, a2, b1

OwnedByAlice == [e \in Entries |-> alice]
UserOfLogon == [l \in Logons |-> IF l = b1 THEN bob ELSE alice]
=============================================================================
