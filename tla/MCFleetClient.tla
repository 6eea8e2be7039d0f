---------------------------- MODULE MCFleetClient ----------------------------
(***************************************************************************)
(* Small instances of FleetClient.  `alarm` and `posing` are operator        *)
(* commands, the second under the server's key; `task` is an ordinary one    *)
(* under the operator's key, good only where the server's pin is that key.   *)
(***************************************************************************)
EXTENDS FleetClient, TLC

CONSTANTS operator, server, alarm, posing, task

SignedBy == [c \in Commands |-> IF c = posing THEN server ELSE operator]

\* Envelopes differ only in what the server puts into them.
Alike == Permutations(Envelopes)
=============================================================================
