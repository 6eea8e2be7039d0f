---------------------------- MODULE MCVaultPolicy ----------------------------
(***************************************************************************)
(* A small instance of VaultPolicy: a private and a machine-wide entry, two   *)
(* users and the directory's group.                                           *)
(***************************************************************************)
EXTENDS VaultPolicy

CONSTANTS e1, e2, u1, u2

MCMemberships == {{u1}, {u2}}
MCGrants == {{u1}, {u2, Fleet}}
=============================================================================
