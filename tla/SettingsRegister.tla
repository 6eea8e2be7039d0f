-------------------------- MODULE SettingsRegister --------------------------
(***************************************************************************)
(* What the personal-settings store promises its callers: one register per  *)
(* account, read and conditionally written in one step.                      *)
(***************************************************************************)
EXTENDS Integers

CONSTANTS
    Accounts,     \* account SIDs
    Values,       \* settings documents
    MaxRevision,  \* the largest revision, u64::MAX in the code
    NoValue

VARIABLES
    file,     \* account -> its record; revision 0 when it was never written
    answer    \* the last answer computed for a caller of the account

Record == [revision : 0 .. MaxRevision, value : Values \cup {NoValue},
           legacy : BOOLEAN]

Unwritten == [revision |-> 0, value |-> NoValue, legacy |-> FALSE]

\* The record a write makes of the current one.
Successor(current, v, legacy) ==
    [revision |-> current.revision + 1, value |-> v,
     legacy |-> current.legacy \/ legacy]

\* What a caller is told, with the revision it expected (-1 by a read).
Answers == [expected : -1 .. MaxRevision, record : Record]
Answer(expected, record) == [expected |-> expected, record |-> record]

Init ==
    /\ file = [a \in Accounts |-> Unwritten]
    /\ answer = [a \in Accounts |-> Answer(-1, Unwritten)]

Read(a) ==
    /\ answer' = [answer EXCEPT ![a] = Answer(-1, file[a])]
    /\ UNCHANGED file

\* A write succeeds on the revision its caller saw.
Write(a, expected, v, legacy) ==
    /\ expected = file[a].revision
    /\ expected < MaxRevision
    /\ file' = [file EXCEPT ![a] = Successor(file[a], v, legacy)]
    /\ answer' = [answer EXCEPT ![a] = Answer(expected, file'[a])]

Next ==
    \E a \in Accounts :
        \/ Read(a)
        \/ \E expected \in 0 .. MaxRevision, v \in Values, legacy \in BOOLEAN :
            Write(a, expected, v, legacy)

Spec == Init /\ [][Next]_<<file, answer>>
=============================================================================
