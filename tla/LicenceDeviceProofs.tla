------------------------- MODULE LicenceDeviceProofs -------------------------
(***************************************************************************)
(* Proofs about LicenceDevice for any number of requests, identities, texts,  *)
(* challenges and clock settings: device and server agree on the identities   *)
(* enrolled, and on one release with its acknowledgement.                     *)
(*                                                                           *)
(* None of the properties is inductive: a step relies on what its task read   *)
(* or wrote under an earlier lock.  The invariant therefore says, for every    *)
(* task, what its program counter promises about the records.                *)
(***************************************************************************)
EXTENDS LicenceDevice, FiniteSetTheorems, TLAPS

Kept(id) == Holds(legacy, id) \/ Holds(scoped, id)

\* The legacy anchor has an identity that was never confirmed.  While it has,
\* no other identity is made.
PendingLegacy == legacy \in Identity /\ legacy.phase = "pending"

\* What an enrolment at each of its steps may rely on.
EnrolTask(u) ==
    /\ (At(u, "state") /\ task[u].anchor = "legacy") => legacy \in Identity
    /\ (At(u, "state") /\ PendingLegacy) => task[u].anchor = "legacy"
    /\ task[u].pc \in {"enrol", "confirm"} => Kept(task[u].id)
    /\ At(u, "confirm") => task[u].id \in registered

EnrolInv ==
    /\ \A u \in Tasks : EnrolTask(u)
    /\ PendingLegacy => scoped = None
    /\ \A id \in registered : Kept(id)
    /\ ConfirmedIsEnrolled

\* What a release at each of its steps may rely on.
ReleaseTask(u) ==
    /\ task[u].pc \in {"release", "released", "send", "record"} =>
        release # None /\ release.request = task[u].request
    /\ At(u, "stage") => task[u].request \in Request
    /\ At(u, "released") => task[u].request \in released
    /\ task[u].pc \in {"send", "record"} => release.phase # "staged"
    /\ At(u, "record") => task[u].request \in acked

ReleaseInv ==
    /\ \A u \in Tasks : ReleaseTask(u)
    /\ (release # None /\ release.phase # "staged") => release.request \in released
    /\ OneRelease
    /\ AcknowledgedIsRecorded

IInv == TypeOK /\ EnrolInv /\ ReleaseInv

-----------------------------------------------------------------------------
(* Types.                                                                  *)

\* What a step of one task does to the tasks.
LEMMA StayFacts ==
    ASSUME NEW t \in Tasks, NEW self \in Task, TypeOK, Stay(t, self)
    PROVE  /\ task' \in [Tasks -> Task]
           /\ task'[t] = self
           /\ \A u \in Tasks : u # t => task'[u] = task[u]
  BY DEF Stay, TypeOK

\* The record that an anchor holds.
LEMMA AnchorType ==
    ASSUME TypeOK, NEW name \in {"legacy", "scoped"}
    PROVE  Anchor(name) \in Identity \cup {None, Foreign}
  BY DEF TypeOK, Anchor

LEMMA SelectedType == \A now : Selected(now) \in {"legacy", "scoped"}
  BY DEF Selected

LEMMA IdentityType ==
    ASSUME NEW record \in Identity
    PROVE  /\ record.id \in Ids
           /\ record.phase \in {"pending", "confirmed"}
           /\ record.at \in Times
  BY BoundsAssumption DEF Identity, Times

LEMMA MadeIdentity ==
    /\ \A id \in Ids : Pending(id) \in Identity
    /\ \A id \in Ids, at \in Times : Confirmed(id, at) \in Identity
  BY DEF Identity, Pending, Confirmed

LEMMA CredentialType == Credential \in Ids \cup {None}
  BY IdentityType DEF Credential, Decodes

LEMMA IdleType == Idle \in Task /\ Idle.pc = "idle"
  BY BoundsAssumption DEF Idle, Task, Times

\* A step to another program counter, keeping the rest.
LEMMA GotoFacts ==
    ASSUME NEW t \in Tasks, TypeOK, NEW pc, Goto(t, pc),
           [task[t] EXCEPT !.pc = pc] \in Task
    PROVE  /\ task' \in [Tasks -> Task]
           /\ task'[t].pc = pc /\ task'[t].request = task[t].request
           /\ \A u \in Tasks : u # t => task'[u] = task[u]
  <1> DEFINE self == [task[t] EXCEPT !.pc = pc]
  <1>1. self.pc = pc /\ self.request = task[t].request
    BY DEF TypeOK, Task
  <1>2. self \in Task /\ Stay(t, self)
    BY DEF Goto
  <1> HIDE DEF self
  <1> QED BY <1>1, <1>2, StayFacts

\* Writing an identity over an anchor.
LEMMA WriteAnchorType ==
    ASSUME TypeOK, NEW name \in {"legacy", "scoped"}, NEW record \in Identity,
           WriteAnchor(name, record)
    PROVE  /\ legacy' \in Identity \cup {None, Foreign}
           /\ scoped' \in Identity \cup {None}
           /\ release' \in Release \cup {None}
  BY DEF TypeOK, WriteAnchor

\* The types hold initially.
LEMMA InitType == Init => TypeOK
  <1> SUFFICES ASSUME Init PROVE TypeOK
    OBVIOUS
  <1> USE BoundsAssumption
  <1>1. 0 \in Times /\ body \in Bodies /\ clock \in Times
        /\ setBacks \in 0 .. MaxSetBacks /\ nonces \in 0 .. MaxNonce
    BY DEF Init, Times, Bodies
  <1>2. legacy \in Identity \cup {None, Foreign}
    BY <1>1, MadeIdentity, IdsAssumption DEF Init
  <1>3. registered \subseteq Ids
    BY IdentityType DEF Init
  <1>4. task \in [Tasks -> Task]
    BY IdleType DEF Init
  <1> QED BY <1>1, <1>2, <1>3, <1>4 DEF Init, TypeOK

\* Every step keeps them.
LEMMA StepType == IInv /\ [Next]_vars => TypeOK'
  <1> SUFFICES ASSUME IInv, [Next]_vars PROVE TypeOK'
    OBVIOUS
  <1> USE BoundsAssumption DEF IInv
  <1>0. ASSUME NEW t \in Tasks PROVE task[t] \in Task
    BY DEF TypeOK
  <1>1. ASSUME NEW t \in Tasks, Enrol(t) PROVE TypeOK'
    <2>1. [Idle EXCEPT !.pc = "select", !.snap = body, !.time = clock] \in Task
      BY IdleType DEF Task, TypeOK
    <2> QED BY <1>1, <2>1, StayFacts DEF Enrol, TypeOK, World, device, server
  <1>2. ASSUME NEW t \in Tasks, Select(t) PROVE TypeOK'
    <2>1. [task[t] EXCEPT !.pc = "state", !.anchor = Selected(task[t].time)] \in Task
      BY <1>0, SelectedType DEF Task
    <2> QED BY <1>2, <2>1, StayFacts DEF Select, TypeOK, World, device, server
  <1>3. ASSUME NEW t \in Tasks, Create(t) PROVE TypeOK'
    <2>1. PICK id \in Ids :
            /\ \/ Stay(t, [task[t] EXCEPT !.pc = "enrol", !.id = id])
               \/ Stay(t, Idle)
            /\ WriteAnchor(task[t].anchor, Pending(id))
      BY <1>3 DEF Create
    <2>2. [task[t] EXCEPT !.pc = "enrol", !.id = id] \in Task
      BY <1>0 DEF Task
    <2>3. task' \in [Tasks -> Task]
      BY <2>1, <2>2, IdleType, StayFacts
    <2>4. task[t].anchor \in {"legacy", "scoped"} /\ Pending(id) \in Identity
      BY <1>0, MadeIdentity DEF Task
    <2>5. /\ legacy' \in Identity \cup {None, Foreign}
          /\ scoped' \in Identity \cup {None}
          /\ release' \in Release \cup {None}
      BY <2>1, <2>4, WriteAnchorType
    <2> QED BY <1>3, <2>3, <2>5 DEF Create, TypeOK, World, server
  <1>4. ASSUME NEW t \in Tasks, Reuse(t) PROVE TypeOK'
    <2> DEFINE record == Anchor(task[t].anchor)
    <2>1. record \in Identity /\ record.id \in Ids
      BY <1>4, IdentityType DEF Reuse, Decodes
    <2>2. [task[t] EXCEPT !.pc = "enrol", !.id = record.id] \in Task
      BY <1>0, <2>1 DEF Task
    <2>3. \/ Stay(t, [task[t] EXCEPT !.pc = "enrol", !.id = record.id])
          \/ Stay(t, Idle)
      BY <1>4 DEF Reuse
    <2>4. task' \in [Tasks -> Task]
      BY <2>2, <2>3, IdleType, StayFacts
    <2> QED BY <1>4, <2>4 DEF Reuse, TypeOK, World, device, server
  <1>5. ASSUME NEW t \in Tasks, NEW issued \in Times, Register(t, issued)
        PROVE  TypeOK'
    <2>1. [task[t] EXCEPT !.pc = "confirm", !.time = issued] \in Task
      BY <1>0 DEF Task
    <2>2. task' \in [Tasks -> Task]
      BY <1>5, <2>1, IdleType, StayFacts DEF Register
    <2>3. task[t].id \in Ids
      BY <1>5, IdentityType DEF Register, At, EnrolInv, EnrolTask, Kept, Holds
    <2> QED BY <1>5, <2>2, <2>3 DEF Register, TypeOK, World, device
  <1>6. ASSUME NEW t \in Tasks, Confirm(t) PROVE TypeOK'
    <2> DEFINE name == Selected(clock)
    <2>1. name \in {"legacy", "scoped"} /\ task[t].id \in Ids
      BY <1>6, SelectedType, IdentityType DEF Confirm, Decodes
    <2>2. Confirmed(task[t].id, clock) \in Identity
      BY <2>1, MadeIdentity DEF TypeOK
    <2>3. WriteAnchor(name, Confirmed(task[t].id, clock)) \/ UNCHANGED device
      BY <1>6 DEF Confirm
    <2>4. /\ legacy' \in Identity \cup {None, Foreign}
          /\ scoped' \in Identity \cup {None}
          /\ release' \in Release \cup {None}
      BY <2>1, <2>2, <2>3, WriteAnchorType DEF TypeOK, device
    <2>5. task' \in [Tasks -> Task]
      BY <1>6, IdleType, StayFacts DEF Confirm
    <2> QED BY <1>6, <2>4, <2>5 DEF Confirm, TypeOK, World, server
  <1>7. ASSUME NEW t \in Tasks, LoadRelease(t) PROVE TypeOK'
    <2> DEFINE self == [Idle EXCEPT !.snap = body]
    <2>1. self \in Task /\ [self EXCEPT !.pc = "challenge"] \in Task
      BY IdleType DEF Task, TypeOK
    <2>2. CASE Stay(t, [self EXCEPT !.pc = "challenge"])
      BY <1>7, <2>1, <2>2, StayFacts DEF LoadRelease, TypeOK, World, device, server
    <2>3. CASE ~Stay(t, [self EXCEPT !.pc = "challenge"])
      <3> DEFINE next == [self EXCEPT !.request = release.request,
                    !.pc = IF release.phase = "staged" THEN "release"
                           ELSE "acknowledge"]
      <3>1. Opens(body) /\ Stay(t, next)
        BY <1>7, <2>3 DEF LoadRelease
      <3>2. release \in Release /\ release.request \in Request
        BY <3>1 DEF Opens, TypeOK, Release
      <3>3. next \in Task
        BY <2>1, <3>2 DEF Task
      <3>4. task' \in [Tasks -> Task]
        BY <3>1, <3>3, StayFacts
      <3> QED BY <1>7, <3>4 DEF LoadRelease, TypeOK, World, device, server
    <2> QED BY <2>2, <2>3
  <1>8. ASSUME NEW t \in Tasks, Challenge(t) PROVE TypeOK'
    <2> DEFINE request == [id |-> Credential, body |-> task[t].snap, nonce |-> nonces']
               next == [task[t] EXCEPT !.pc = "stage", !.request = request]
    <2>1. nonces' \in 1 .. MaxNonce /\ nonces' \in 0 .. MaxNonce
      BY <1>8 DEF Challenge, TypeOK
    <2>2. Credential \in Ids /\ task[t].snap \in Bodies
      BY <1>8, CredentialType DEF Challenge, WithCurrent, CacheCurrent, TypeOK
    <2>3. request \in Request
      BY <2>1, <2>2 DEF Request
    <2>4. next \in Task /\ Stay(t, next)
      BY <1>0, <1>8, <2>3 DEF Task, Challenge
    <2>5. task' \in [Tasks -> Task]
      BY <2>4, StayFacts
    <2> QED BY <1>8, <2>1, <2>5 DEF Challenge, TypeOK, World, device
  <1>9. ASSUME NEW t \in Tasks, Stage(t) PROVE TypeOK'
    <2>1. task[t].request \in Request
      BY <1>9 DEF Stage, ReleaseInv, ReleaseTask
    <2>2. release' \in Release
      BY <1>9, <2>1 DEF Stage, WriteRelease, Release
    <2>3. [task[t] EXCEPT !.pc = "release"] \in Task
      BY <1>0 DEF Task
    <2>4. task' \in [Tasks -> Task]
      BY <1>9, <2>3, IdleType, StayFacts DEF Stage, Goto
    <2> QED BY <1>9, <2>2, <2>4 DEF Stage, WriteRelease, TypeOK, World, server
  <1>10. ASSUME NEW t \in Tasks, SendRelease(t) PROVE TypeOK'
    <2>1. task[t].request \in Request
      BY <1>10 DEF SendRelease, At, ReleaseInv, ReleaseTask, TypeOK, Release
    <2>2. [task[t] EXCEPT !.pc = "released"] \in Task
      BY <1>0 DEF Task
    <2>3. task' \in [Tasks -> Task]
      BY <1>10, <2>2, IdleType, StayFacts DEF SendRelease, Goto
    <2> QED BY <1>10, <2>1, <2>3 DEF SendRelease, TypeOK, World, device
  <1>11. ASSUME NEW t \in Tasks, ConfirmRelease(t) PROVE TypeOK'
    <2>1. release \in Release /\ release.request \in Request
      BY <1>11 DEF ConfirmRelease, Opens, TypeOK, Release
    <2>2. release' \in Release /\ legacy' = legacy /\ scoped' = scoped
      BY <1>11, <2>1 DEF ConfirmRelease, WriteRelease, Release, device
    <2>3. [task[t] EXCEPT !.pc = "acknowledge"] \in Task
      BY <1>0 DEF Task
    <2>4. task' \in [Tasks -> Task]
      BY <1>11, <2>3, IdleType, StayFacts DEF ConfirmRelease, Goto
    <2> QED BY <1>11, <2>2, <2>4 DEF ConfirmRelease, TypeOK, World, server
  <1>12. ASSUME NEW t \in Tasks, Acknowledge(t) PROVE TypeOK'
    <2>1. release \in Release /\ release.request \in Request
      BY <1>12 DEF Acknowledge, Opens, TypeOK, Release
    <2>2. [task[t] EXCEPT !.pc = "send", !.request = release.request] \in Task
      BY <1>0, <2>1 DEF Task
    <2>3. task' \in [Tasks -> Task]
      BY <1>12, <2>2, IdleType, StayFacts DEF Acknowledge
    <2> QED BY <1>12, <2>3 DEF Acknowledge, TypeOK, World, device, server
  <1>13. ASSUME NEW t \in Tasks, SendAcknowledgement(t) PROVE TypeOK'
    <2>1. task[t].request \in Request
      BY <1>13 DEF SendAcknowledgement, At, ReleaseInv, ReleaseTask, TypeOK, Release
    <2>2. [task[t] EXCEPT !.pc = "record"] \in Task
      BY <1>0 DEF Task
    <2>3. task' \in [Tasks -> Task]
      BY <1>13, <2>2, IdleType, StayFacts DEF SendAcknowledgement, Goto
    <2> QED BY <1>13, <2>1, <2>3 DEF SendAcknowledgement, TypeOK, World, device
  <1>14. ASSUME NEW t \in Tasks, Record(t) PROVE TypeOK'
    <2>1. release \in Release /\ release.request \in Request
      BY <1>14 DEF Record, Opens, TypeOK, Release
    <2>2. release' \in Release /\ legacy' = legacy /\ scoped' = scoped
      BY <1>14, <2>1 DEF Record, WriteRelease, Release, device
    <2>3. task' \in [Tasks -> Task]
      BY <1>14, IdleType, StayFacts DEF Record
    <2> QED BY <1>14, <2>2, <2>3 DEF Record, TypeOK, World, server
  <1>15. ASSUME NEW t \in Tasks, GiveUp(t) PROVE TypeOK'
    BY <1>15, IdleType, StayFacts DEF GiveUp, TypeOK, World, device, server
  <1>16. CASE Restart
    BY <1>16, IdleType DEF Restart, TypeOK, World, device, server
  <1>17. CASE Renew
    BY <1>17 DEF Renew, TypeOK, Bodies, device, server
  <1>18. CASE Tick \/ SetBack
    BY <1>18 DEF Tick, SetBack, TypeOK, Times, device, server
  <1>19. CASE UNCHANGED vars
    BY <1>19 DEF vars, TypeOK, device, server
  <1> QED
    BY <1>1, <1>2, <1>3, <1>4, <1>5, <1>6, <1>7, <1>8, <1>9, <1>10, <1>11,
       <1>12, <1>13, <1>14, <1>15, <1>16, <1>17, <1>18, <1>19 DEF Next

-----------------------------------------------------------------------------
(* Enrolment.                                                              *)

EnrolSteps == {"state", "enrol", "confirm"}

\* Nothing that an enrolment relies on changes.
LEMMA EnrolFrame ==
    ASSUME EnrolInv, UNCHANGED <<legacy, scoped, registered>>,
           \A u \in Tasks : task'[u] = task[u] \/ task'[u].pc \notin EnrolSteps
    PROVE  EnrolInv'
  <1>1. ASSUME NEW u \in Tasks PROVE EnrolTask(u)'
    BY DEF EnrolInv, EnrolTask, EnrolSteps, At, Kept, Holds, PendingLegacy
  <1> QED BY <1>1 DEF EnrolInv, ConfirmedIsEnrolled, Kept, Holds, PendingLegacy

LEMMA InitEnrol == Init => EnrolInv
  <1> SUFFICES ASSUME Init PROVE EnrolInv
    OBVIOUS
  <1>1. \A u \in Tasks : EnrolTask(u)
    BY DEF Init, EnrolTask, At, Idle
  <1>2. (PendingLegacy => scoped = None) /\ (\A id \in registered : Kept(id))
    BY DEF Init, Kept, Holds
  <1>3. ConfirmedIsEnrolled
    BY NoneAssumption DEF Init, ConfirmedIsEnrolled
  <1> QED BY <1>1, <1>2, <1>3 DEF EnrolInv

\* An identity written over an empty anchor, or over the same identity, keeps
\* what was kept.
LEMMA WriteKeeps ==
    ASSUME NEW name \in {"legacy", "scoped"}, NEW record \in Identity,
           Anchor(name) = None \/ Holds(Anchor(name), record.id),
           WriteAnchor(name, record)
    PROVE  /\ \A id : Kept(id) => Kept(id)'
           /\ Kept(record.id)'
           /\ legacy \in Identity => legacy' \in Identity
  BY NoneAssumption DEF Anchor, WriteAnchor, Kept, Holds

LEMMA SelectEnrol ==
    ASSUME IInv, NEW t \in Tasks, Select(t) PROVE EnrolInv'
  <1> DEFINE self == [task[t] EXCEPT !.pc = "state", !.anchor = Selected(task[t].time)]
  <1>1. self \in Task /\ self.pc = "state" /\ self.anchor = Selected(task[t].time)
    BY SelectedType DEF IInv, TypeOK, Task
  <1>2. UNCHANGED <<legacy, scoped, registered>> /\ Stay(t, self)
    BY DEF Select, device, server
  <1> HIDE DEF self
  <1>3. task'[t] = self /\ \A u \in Tasks : u # t => task'[u] = task[u]
    BY <1>1, <1>2, StayFacts DEF IInv
  <1>4. ASSUME NEW u \in Tasks, u # t PROVE EnrolTask(u)'
    BY <1>2, <1>3, <1>4 DEF IInv, EnrolInv, EnrolTask, At, Kept, Holds, PendingLegacy
  <1>5. EnrolTask(t)'
    <2>1. self.anchor = "legacy" => legacy \in Identity
      BY <1>1 DEF Selected, Decodes
    <2>2. PendingLegacy => self.anchor = "legacy"
      BY <1>1 DEF Selected, Decodes, PendingLegacy, IInv, EnrolInv
    <2> QED BY <1>1, <1>2, <1>3, <2>1, <2>2 DEF EnrolTask, At, PendingLegacy
  <1> QED
    BY <1>2, <1>4, <1>5 DEF IInv, EnrolInv, ConfirmedIsEnrolled, Kept, Holds,
                            PendingLegacy

LEMMA CreateEnrol ==
    ASSUME IInv, NEW t \in Tasks, Create(t) PROVE EnrolInv'
  <1>1. PICK id \in Ids :
          /\ \/ Stay(t, [task[t] EXCEPT !.pc = "enrol", !.id = id])
             \/ Stay(t, Idle)
          /\ WriteAnchor(task[t].anchor, Pending(id))
    BY DEF Create
  <1>2. task[t] \in Task /\ task[t].anchor \in {"legacy", "scoped"}
    BY DEF IInv, TypeOK, Task
  <1>3. Pending(id) \in Identity /\ Pending(id).id = id /\ Pending(id).phase = "pending"
    BY MadeIdentity DEF Pending
  <1>4. task[t].anchor = "scoped" /\ scoped = None /\ ~PendingLegacy
    BY <1>2, NoneAssumption DEF Create, Anchor, IInv, EnrolInv, EnrolTask
  <1>5. /\ \A i : Kept(i) => Kept(i)'
        /\ Kept(id)'
        /\ legacy' = legacy /\ scoped' = Pending(id) /\ registered' = registered
    BY <1>1, <1>3, <1>4, WriteKeeps DEF Create, Anchor, WriteAnchor, server
  <1>6. /\ [task[t] EXCEPT !.pc = "enrol", !.id = id] \in Task
        /\ Idle \in Task
    BY <1>2, IdleType DEF Task
  <1>7. \A u \in Tasks : u # t => task'[u] = task[u]
    BY <1>1, <1>6, StayFacts DEF IInv
  <1>8. \/ task'[t].pc = "enrol" /\ task'[t].id = id
        \/ task'[t].pc = "idle"
    <2> DEFINE self == [task[t] EXCEPT !.pc = "enrol", !.id = id]
    <2>1. self.pc = "enrol" /\ self.id = id
      BY <1>2 DEF Task
    <2>2. self \in Task /\ (Stay(t, self) \/ Stay(t, Idle))
      BY <1>1, <1>6
    <2> HIDE DEF self
    <2> QED BY <2>1, <2>2, IdleType, StayFacts DEF IInv
  <1>9. ASSUME NEW u \in Tasks, u # t PROVE EnrolTask(u)'
    BY <1>4, <1>5, <1>7, <1>9 DEF IInv, EnrolInv, EnrolTask, At, PendingLegacy
  <1>10. EnrolTask(t)'
    BY <1>5, <1>8 DEF EnrolTask, At
  <1>11. ConfirmedIsEnrolled'
    BY <1>3, <1>5 DEF IInv, EnrolInv, ConfirmedIsEnrolled
  <1> QED BY <1>4, <1>5, <1>9, <1>10, <1>11 DEF IInv, EnrolInv, PendingLegacy

LEMMA ReuseEnrol ==
    ASSUME IInv, NEW t \in Tasks, Reuse(t) PROVE EnrolInv'
  <1> DEFINE record == Anchor(task[t].anchor)
  <1>1. record \in Identity /\ record.id \in Ids /\ Kept(record.id)
    BY IdentityType DEF Reuse, Decodes, Kept, Holds, Anchor
  <1>2. task[t] \in Task /\ [task[t] EXCEPT !.pc = "enrol", !.id = record.id] \in Task
    BY <1>1 DEF IInv, TypeOK, Task
  <1>3. \/ Stay(t, [task[t] EXCEPT !.pc = "enrol", !.id = record.id])
        \/ Stay(t, Idle)
    BY DEF Reuse
  <1>4. UNCHANGED <<legacy, scoped, registered>>
    BY DEF Reuse, device, server
  <1>5. \A u \in Tasks : u # t => task'[u] = task[u]
    BY <1>2, <1>3, IdleType, StayFacts DEF IInv
  <1>6. \/ task'[t].pc = "enrol" /\ task'[t].id = record.id
        \/ task'[t].pc = "idle"
    <2> DEFINE self == [task[t] EXCEPT !.pc = "enrol", !.id = record.id]
    <2>1. self.pc = "enrol" /\ self.id = record.id
      BY <1>2 DEF Task
    <2>2. self \in Task /\ (Stay(t, self) \/ Stay(t, Idle))
      BY <1>2, <1>3
    <2> HIDE DEF self, record
    <2> QED BY <2>1, <2>2, IdleType, StayFacts DEF IInv
  <1> HIDE DEF record
  <1>7. ASSUME NEW u \in Tasks, u # t PROVE EnrolTask(u)'
    BY <1>4, <1>5, <1>7 DEF IInv, EnrolInv, EnrolTask, At, Kept, Holds, PendingLegacy
  <1>8. EnrolTask(t)'
    BY <1>1, <1>4, <1>6 DEF EnrolTask, At, Kept, Holds
  <1> QED
    BY <1>4, <1>7, <1>8 DEF IInv, EnrolInv, ConfirmedIsEnrolled, Kept, Holds,
                            PendingLegacy

LEMMA RegisterEnrol ==
    ASSUME IInv, NEW t \in Tasks, NEW issued \in Times, Register(t, issued)
    PROVE  EnrolInv'
  <1>1. task[t] \in Task /\ [task[t] EXCEPT !.pc = "confirm", !.time = issued] \in Task
    BY DEF IInv, TypeOK, Task
  <1>2. UNCHANGED <<legacy, scoped>> /\ registered' = registered \cup {task[t].id}
    BY DEF Register, device
  <1>3. Kept(task[t].id)
    BY DEF Register, At, IInv, EnrolInv, EnrolTask
  <1>4. \A u \in Tasks : u # t => task'[u] = task[u]
    BY <1>1, IdleType, StayFacts DEF IInv, Register
  <1>5. \/ task'[t].pc = "confirm" /\ task'[t].id = task[t].id
        \/ task'[t].pc = "idle"
    <2> DEFINE self == [task[t] EXCEPT !.pc = "confirm", !.time = issued]
    <2>1. self.pc = "confirm" /\ self.id = task[t].id
      BY <1>1 DEF Task
    <2>2. self \in Task /\ (Stay(t, self) \/ Stay(t, Idle))
      BY <1>1 DEF Register
    <2> HIDE DEF self
    <2> QED BY <2>1, <2>2, IdleType, StayFacts DEF IInv
  <1>6. ASSUME NEW u \in Tasks, u # t PROVE EnrolTask(u)'
    BY <1>2, <1>4, <1>6 DEF IInv, EnrolInv, EnrolTask, At, Kept, Holds, PendingLegacy
  <1>7. EnrolTask(t)'
    BY <1>2, <1>3, <1>5 DEF EnrolTask, At, Kept, Holds
  <1> QED
    BY <1>2, <1>3, <1>6, <1>7 DEF IInv, EnrolInv, ConfirmedIsEnrolled, Kept,
                                  Holds, PendingLegacy

LEMMA ConfirmEnrol ==
    ASSUME IInv, NEW t \in Tasks, Confirm(t) PROVE EnrolInv'
  <1>1. task'[t] = Idle /\ (\A u \in Tasks : u # t => task'[u] = task[u])
    BY IdleType, StayFacts DEF IInv, Confirm
  <1>2. registered' = registered /\ task[t].id \in registered
    BY DEF Confirm, server, IInv, EnrolInv, EnrolTask
  <1>3. CASE UNCHANGED device
    BY <1>1, <1>2, <1>3, EnrolFrame DEF IInv, device, EnrolSteps, Idle
  <1>4. CASE ~UNCHANGED device
    <2> DEFINE name == Selected(clock)
               record == Confirmed(task[t].id, clock)
    <2>1. /\ name \in {"legacy", "scoped"}
          /\ Anchor(name) \in Identity /\ Anchor(name).id = task[t].id
          /\ Anchor(name).phase = "pending"
          /\ WriteAnchor(name, record)
      BY <1>4, SelectedType DEF Confirm, Decodes
    <2>2. record \in Identity /\ record.id = task[t].id /\ record.phase = "confirmed"
      BY <2>1, IdentityType, MadeIdentity DEF IInv, TypeOK, Confirmed
    <2> HIDE DEF name, record
    <2>3. /\ \A id : Kept(id) => Kept(id)'
          /\ legacy \in Identity => legacy' \in Identity
      BY <2>1, <2>2, WriteKeeps DEF Holds
    <2>4. PendingLegacy' => PendingLegacy /\ scoped' = scoped
      <3>1. CASE name = "legacy"
        BY <2>1, <2>2, <3>1 DEF WriteAnchor, PendingLegacy
      <3>2. CASE name = "scoped"
        BY <2>1, <3>2, NoneAssumption DEF WriteAnchor, PendingLegacy, Anchor, IInv, EnrolInv
      <3> QED BY <2>1, <3>1, <3>2
    <2>5. ConfirmedIsEnrolled'
      BY <1>2, <2>1, <2>2 DEF IInv, EnrolInv, ConfirmedIsEnrolled, WriteAnchor
    <2>6. ASSUME NEW u \in Tasks PROVE EnrolTask(u)'
      BY <1>1, <1>2, <2>3, <2>4 DEF IInv, EnrolInv, EnrolTask, At, Idle
    <2> QED BY <1>2, <2>3, <2>4, <2>5, <2>6 DEF IInv, EnrolInv
  <1> QED BY <1>3, <1>4

\* The other steps leave the enrolments alone.
LEMMA StepEnrol == IInv /\ [Next]_vars => EnrolInv'
  <1> SUFFICES ASSUME IInv, [Next]_vars PROVE EnrolInv'
    OBVIOUS
  <1> USE DEF IInv
  <1>1. ASSUME NEW t \in Tasks,
               Enrol(t) \/ LoadRelease(t) \/ Challenge(t) \/ Stage(t)
               \/ SendRelease(t) \/ ConfirmRelease(t) \/ Acknowledge(t)
               \/ SendAcknowledgement(t) \/ Record(t) \/ GiveUp(t)
        PROVE  EnrolInv'
    <2>1. task[t] \in Task
      BY DEF TypeOK
    <2>2. UNCHANGED <<legacy, scoped, registered>>
      BY <1>1 DEF Enrol, LoadRelease, Challenge, Stage, SendRelease, ConfirmRelease,
                  Acknowledge, SendAcknowledgement, Record, GiveUp, WriteRelease,
                  device, server
    <2>3. \A u \in Tasks : u # t => task'[u] = task[u]
      BY <1>1 DEF Enrol, LoadRelease, Challenge, Stage, SendRelease, ConfirmRelease,
                  Acknowledge, SendAcknowledgement, Record, GiveUp, Stay, Goto, TypeOK
    <2>4. task'[t].pc \notin EnrolSteps
      <3>1. CASE Stay(t, Idle)
        BY <3>1, IdleType, StayFacts DEF EnrolSteps
      <3>2. CASE \E pc \in {"release", "released", "acknowledge", "send", "record"} :
                    Goto(t, pc)
        <4>1. PICK pc \in {"release", "released", "acknowledge", "send", "record"} :
                Goto(t, pc)
          BY <3>2
        <4>2. [task[t] EXCEPT !.pc = pc] \in Task
          BY <2>1 DEF Task
        <4> QED BY <4>1, <4>2, GotoFacts DEF EnrolSteps
      <3>3. CASE Enrol(t)
        BY <3>3 DEF Enrol, Stay, Idle, TypeOK, EnrolSteps
      <3>4. CASE LoadRelease(t)
        BY <3>4 DEF LoadRelease, Stay, Idle, TypeOK, EnrolSteps
      <3>5. CASE Challenge(t)
        BY <2>1, <3>5 DEF Challenge, Stay, TypeOK, Task, EnrolSteps
      <3>6. CASE Acknowledge(t) /\ ~Stay(t, Idle)
        <4> DEFINE next == [task[t] EXCEPT !.pc = "send", !.request = release.request]
        <4>1. next \in Task /\ next.pc = "send" /\ Stay(t, next)
          <5>1. release.request \in Request
            BY <3>6 DEF Acknowledge, Opens, TypeOK, Release
          <5> QED BY <2>1, <3>6, <5>1 DEF Acknowledge, Task
        <4> HIDE DEF next
        <4> QED BY <4>1, StayFacts DEF EnrolSteps
      <3>7. CASE Stage(t) \/ SendRelease(t) \/ ConfirmRelease(t)
                 \/ SendAcknowledgement(t) \/ Record(t) \/ GiveUp(t)
        BY <3>1, <3>2, <3>7 DEF Stage, SendRelease, ConfirmRelease,
                                SendAcknowledgement, Record, GiveUp
      <3> QED BY <1>1, <3>1, <3>3, <3>4, <3>5, <3>6, <3>7
    <2> QED BY <2>2, <2>3, <2>4, EnrolFrame
  <1>2. CASE Restart
    BY <1>2, EnrolFrame DEF Restart, Idle, EnrolSteps, device, server
  <1>3. CASE Renew \/ Tick \/ SetBack \/ UNCHANGED vars
    BY <1>3, EnrolFrame DEF Renew, Tick, SetBack, vars, device, server
  <1> QED
    BY <1>1, <1>2, <1>3, SelectEnrol, CreateEnrol, ReuseEnrol, RegisterEnrol,
       ConfirmEnrol DEF Next

-----------------------------------------------------------------------------
(* Release.                                                                *)

ReleaseSteps == {"stage", "release", "released", "send", "record"}

\* Nothing that a release relies on changes, and no task comes to rely on it.
LEMMA ReleaseFrame ==
    ASSUME ReleaseInv, UNCHANGED <<release, released, acked>>,
           \A u \in Tasks : task'[u] = task[u] \/ task'[u].pc \notin ReleaseSteps
    PROVE  ReleaseInv'
  <1>1. ASSUME NEW u \in Tasks PROVE ReleaseTask(u)'
    BY DEF ReleaseInv, ReleaseTask, ReleaseSteps, At
  <1> QED BY <1>1 DEF ReleaseInv, OneRelease, AcknowledgedIsRecorded

\* The same, but for one task.
LEMMA ReleaseFrameBut ==
    ASSUME ReleaseInv, UNCHANGED <<release, released, acked>>, NEW t \in Tasks,
           \A u \in Tasks : u # t => task'[u] = task[u],
           ReleaseTask(t)'
    PROVE  ReleaseInv'
  <1>1. ASSUME NEW u \in Tasks, u # t PROVE ReleaseTask(u)'
    BY <1>1 DEF ReleaseInv, ReleaseTask, At
  <1> QED BY <1>1 DEF ReleaseInv, OneRelease, AcknowledgedIsRecorded

LEMMA InitRelease == Init => ReleaseInv
  BY DEF Init, Idle, ReleaseInv, ReleaseTask, At, OneRelease, AcknowledgedIsRecorded

LEMMA LoadReleaseRelease ==
    ASSUME IInv, NEW t \in Tasks, LoadRelease(t) PROVE ReleaseInv'
  <1> DEFINE self == [Idle EXCEPT !.snap = body]
             wait == [self EXCEPT !.pc = "challenge"]
             next == [self EXCEPT !.request = release.request,
                        !.pc = IF release.phase = "staged" THEN "release"
                               ELSE "acknowledge"]
  <1>1. UNCHANGED <<release, released, acked>>
    BY DEF LoadRelease, device, server
  <1>2. wait \in Task /\ wait.pc = "challenge"
    BY IdleType DEF Task, IInv, TypeOK
  <1>3. CASE Stay(t, wait)
    <2> HIDE DEF wait
    <2> QED BY <1>1, <1>2, <1>3, StayFacts, ReleaseFrame DEF IInv, ReleaseSteps
  <1>4. CASE Opens(body) /\ Stay(t, next)
    <2>1. release # None /\ release.request \in Request
      BY <1>4 DEF Opens, IInv, TypeOK, Release
    <2>2. /\ next \in Task /\ next.request = release.request
          /\ next.pc \in {"release", "acknowledge"}
      BY <2>1, IdleType DEF Task, IInv, TypeOK
    <2>3. Stay(t, next)
      BY <1>4
    <2> HIDE DEF next
    <2>4. task'[t] = next /\ (\A u \in Tasks : u # t => task'[u] = task[u])
      BY <2>2, <2>3, StayFacts DEF IInv
    <2>5. ReleaseTask(t)'
      BY <1>1, <2>1, <2>2, <2>4 DEF ReleaseTask, At
    <2> QED BY <1>1, <2>4, <2>5, ReleaseFrameBut DEF IInv
  <1> QED BY <1>3, <1>4 DEF LoadRelease

LEMMA ChallengeRelease ==
    ASSUME IInv, NEW t \in Tasks, Challenge(t) PROVE ReleaseInv'
  <1> DEFINE request == [id |-> Credential, body |-> task[t].snap, nonce |-> nonces']
             next == [task[t] EXCEPT !.pc = "stage", !.request = request]
  <1>1. request \in Request
    <2>1. nonces' \in 1 .. MaxNonce
      BY BoundsAssumption DEF Challenge, IInv, TypeOK
    <2>2. Credential \in Ids /\ task[t].snap \in Bodies
      BY CredentialType DEF Challenge, WithCurrent, CacheCurrent, IInv, TypeOK
    <2> QED BY <2>1, <2>2 DEF Request
  <1>2. Stay(t, next)
    BY DEF Challenge
  <1> HIDE DEF request
  <1>3. next \in Task /\ next.pc = "stage" /\ next.request = request
    BY <1>1 DEF Task, IInv, TypeOK
  <1> HIDE DEF next
  <1>4. task'[t] = next /\ (\A u \in Tasks : u # t => task'[u] = task[u])
    BY <1>2, <1>3, StayFacts DEF IInv
  <1>5. ReleaseTask(t)'
    BY <1>1, <1>3, <1>4 DEF ReleaseTask, At
  <1> QED BY <1>4, <1>5, ReleaseFrameBut DEF IInv, Challenge, device

\* A record appears only where there was none, so nothing was sent before.
LEMMA StageRelease ==
    ASSUME IInv, NEW t \in Tasks, Stage(t) PROVE ReleaseInv'
  <1> DEFINE request == task[t].request
  <1>1. /\ release = None /\ UNCHANGED <<released, acked>>
        /\ release' = [phase |-> "staged", request |-> request]
        /\ request \in Request
    BY DEF Stage, WriteRelease, server, IInv, ReleaseInv, ReleaseTask
  <1>2. release' # None /\ release'.request = request /\ release'.phase = "staged"
    BY <1>1, NoneAssumption DEF Release
  <1>3. released = {} /\ acked = {}
    BY <1>1 DEF IInv, ReleaseInv, OneRelease, AcknowledgedIsRecorded
  <1>4. ASSUME NEW u \in Tasks, task'[u] = task[u] PROVE ReleaseTask(u)'
    BY <1>1, <1>2, <1>3, <1>4 DEF IInv, ReleaseInv, ReleaseTask, At
  <1>5. CASE Goto(t, "release")
    <2>1. [task[t] EXCEPT !.pc = "release"] \in Task
      BY DEF Task, IInv, TypeOK
    <2>2. /\ task'[t].pc = "release" /\ task'[t].request = request
          /\ \A u \in Tasks : u # t => task'[u] = task[u]
      BY <1>5, <2>1, GotoFacts DEF IInv
    <2>3. ReleaseTask(t)'
      BY <1>2, <2>2 DEF ReleaseTask, At
    <2> QED
      BY <1>1, <1>2, <1>3, <1>4, <2>2, <2>3
         DEF ReleaseInv, OneRelease, AcknowledgedIsRecorded
  <1>6. CASE Stay(t, Idle)
    <2>1. task'[t].pc = "idle" /\ (\A u \in Tasks : u # t => task'[u] = task[u])
      BY <1>6, IdleType, StayFacts DEF IInv
    <2>2. ReleaseTask(t)'
      BY <2>1 DEF ReleaseTask, At
    <2> QED
      BY <1>1, <1>2, <1>3, <1>4, <2>1, <2>2
         DEF ReleaseInv, OneRelease, AcknowledgedIsRecorded
  <1> QED BY <1>5, <1>6 DEF Stage

LEMMA SendReleaseRelease ==
    ASSUME IInv, NEW t \in Tasks, SendRelease(t) PROVE ReleaseInv'
  <1> DEFINE request == task[t].request
  <1>1. /\ UNCHANGED <<release, acked>>
        /\ released' = released \cup {request}
        /\ release # None /\ release.request = request
    BY DEF SendRelease, device, At, IInv, ReleaseInv, ReleaseTask
  <1>2. \/ task'[t].pc = "released" /\ task'[t].request = request
        \/ task'[t].pc = "idle"
    <2>1. [task[t] EXCEPT !.pc = "released"] \in Task
      BY DEF Task, IInv, TypeOK
    <2> QED BY <2>1, IdleType, StayFacts, GotoFacts DEF SendRelease, IInv
  <1>3. \A u \in Tasks : u # t => task'[u] = task[u]
    BY DEF SendRelease, Goto, Stay, IInv, TypeOK
  <1>4. ASSUME NEW u \in Tasks, u # t PROVE ReleaseTask(u)'
    BY <1>1, <1>3, <1>4 DEF IInv, ReleaseInv, ReleaseTask, At
  <1>5. ReleaseTask(t)'
    BY <1>1, <1>2 DEF ReleaseTask, At
  <1> QED
    BY <1>1, <1>4, <1>5 DEF IInv, ReleaseInv, OneRelease, AcknowledgedIsRecorded

\* Only a request that the server has carried out is confirmed.
LEMMA ConfirmReleaseRelease ==
    ASSUME IInv, NEW t \in Tasks, ConfirmRelease(t) PROVE ReleaseInv'
  <1> DEFINE request == task[t].request
  <1>1. /\ UNCHANGED <<released, acked>>
        /\ release # None /\ release \in Release
        /\ release.request = request /\ request \in released
    BY DEF ConfirmRelease, server, Opens, At, IInv, TypeOK, ReleaseInv, ReleaseTask
  <1>2. \/ task'[t].pc = "acknowledge" /\ task'[t].request = request
        \/ task'[t].pc = "idle"
    <2>1. [task[t] EXCEPT !.pc = "acknowledge"] \in Task
      BY DEF Task, IInv, TypeOK
    <2> QED BY <2>1, IdleType, StayFacts, GotoFacts DEF ConfirmRelease, IInv
  <1>3. \A u \in Tasks : u # t => task'[u] = task[u]
    BY DEF ConfirmRelease, Goto, Stay, IInv, TypeOK
  <1>4. CASE release' = release
    BY <1>1, <1>2, <1>3, <1>4, ReleaseFrame DEF IInv, ReleaseSteps
  <1>5. CASE release' # release
    <2>1. /\ release.phase = "staged"
          /\ release' = [phase |-> "confirmed", request |-> request]
      BY <1>1, <1>5 DEF ConfirmRelease, WriteRelease, device
    <2>2. /\ release' # None /\ release'.request = request
          /\ release'.phase = "confirmed"
      BY <1>1, <2>1, NoneAssumption DEF Release
    <2>3. ASSUME NEW u \in Tasks PROVE ReleaseTask(u)'
      BY <1>1, <1>2, <1>3, <2>1, <2>2 DEF IInv, ReleaseInv, ReleaseTask, At
    <2> QED
      BY <1>1, <2>1, <2>2, <2>3
         DEF IInv, ReleaseInv, OneRelease, AcknowledgedIsRecorded
  <1> QED BY <1>4, <1>5

LEMMA AcknowledgeRelease ==
    ASSUME IInv, NEW t \in Tasks, Acknowledge(t) PROVE ReleaseInv'
  <1> DEFINE next == [task[t] EXCEPT !.pc = "send", !.request = release.request]
  <1>1. /\ UNCHANGED <<release, released, acked>>
        /\ release # None /\ release.request \in Request
    BY DEF Acknowledge, device, server, Opens, IInv, TypeOK, Release
  <1>2. CASE Stay(t, Idle)
    BY <1>1, <1>2, IdleType, StayFacts, ReleaseFrame DEF IInv, ReleaseSteps
  <1>3. CASE release.phase = "confirmed" /\ Stay(t, next)
    <2>1. next \in Task /\ next.pc = "send" /\ next.request = release.request
      BY <1>1 DEF Task, IInv, TypeOK
    <2>2. Stay(t, next)
      BY <1>3
    <2> HIDE DEF next
    <2>3. task'[t] = next /\ (\A u \in Tasks : u # t => task'[u] = task[u])
      BY <2>1, <2>2, StayFacts DEF IInv
    <2>4. ReleaseTask(t)'
      BY <1>1, <1>3, <2>1, <2>3 DEF ReleaseTask, At
    <2> QED BY <1>1, <2>3, <2>4, ReleaseFrameBut DEF IInv
  <1> QED BY <1>2, <1>3 DEF Acknowledge

LEMMA SendAcknowledgementRelease ==
    ASSUME IInv, NEW t \in Tasks, SendAcknowledgement(t) PROVE ReleaseInv'
  <1> DEFINE request == task[t].request
  <1>1. /\ UNCHANGED <<release, released>>
        /\ acked' = acked \cup {request}
        /\ release # None /\ release.request = request
        /\ release.phase # "staged" /\ request \in released
    BY DEF SendAcknowledgement, device, At, IInv, ReleaseInv, ReleaseTask
  <1>2. \/ task'[t].pc = "record" /\ task'[t].request = request
        \/ task'[t].pc = "idle"
    <2>1. [task[t] EXCEPT !.pc = "record"] \in Task
      BY DEF Task, IInv, TypeOK
    <2> QED BY <2>1, IdleType, StayFacts, GotoFacts DEF SendAcknowledgement, IInv
  <1>3. \A u \in Tasks : u # t => task'[u] = task[u]
    BY DEF SendAcknowledgement, Goto, Stay, IInv, TypeOK
  <1>4. ASSUME NEW u \in Tasks, u # t PROVE ReleaseTask(u)'
    BY <1>1, <1>3, <1>4 DEF IInv, ReleaseInv, ReleaseTask, At
  <1>5. ReleaseTask(t)'
    BY <1>1, <1>2 DEF ReleaseTask, At
  <1> QED
    BY <1>1, <1>4, <1>5 DEF IInv, ReleaseInv, OneRelease, AcknowledgedIsRecorded

LEMMA RecordRelease ==
    ASSUME IInv, NEW t \in Tasks, Record(t) PROVE ReleaseInv'
  <1> DEFINE request == task[t].request
  <1>1. /\ UNCHANGED <<released, acked>>
        /\ release # None /\ release \in Release /\ release.phase # "staged"
        /\ release.request = request /\ request \in released /\ request \in acked
    BY DEF Record, server, Opens, At, IInv, TypeOK, ReleaseInv, ReleaseTask
  <1>2. task'[t].pc = "idle" /\ (\A u \in Tasks : u # t => task'[u] = task[u])
    BY IdleType, StayFacts DEF Record, IInv
  <1>3. CASE release' = release
    BY <1>1, <1>2, <1>3, ReleaseFrame DEF IInv, ReleaseSteps
  <1>4. CASE release' # release
    <2>1. release' = [phase |-> "acknowledged", request |-> request]
      BY <1>1, <1>4 DEF Record, WriteRelease, device
    <2>2. /\ release' # None /\ release'.request = request
          /\ release'.phase = "acknowledged"
      BY <1>1, <2>1, NoneAssumption DEF Release
    <2>3. ASSUME NEW u \in Tasks PROVE ReleaseTask(u)'
      BY <1>1, <1>2, <2>2 DEF IInv, ReleaseInv, ReleaseTask, At
    <2> QED
      BY <1>1, <2>2, <2>3 DEF IInv, ReleaseInv, OneRelease, AcknowledgedIsRecorded
  <1> QED BY <1>3, <1>4

\* The other steps leave the releases alone.
LEMMA StepRelease == IInv /\ [Next]_vars => ReleaseInv'
  <1> SUFFICES ASSUME IInv, [Next]_vars PROVE ReleaseInv'
    OBVIOUS
  <1> USE DEF IInv
  <1>1. ASSUME NEW t \in Tasks,
               Enrol(t) \/ Select(t) \/ Create(t) \/ Reuse(t)
               \/ (\E issued \in Times : Register(t, issued)) \/ Confirm(t)
               \/ GiveUp(t)
        PROVE  ReleaseInv'
    <2>1. task[t] \in Task
      BY DEF TypeOK
    <2>2. UNCHANGED <<release, released, acked>>
      BY <1>1 DEF Enrol, Select, Create, Reuse, Register, Confirm, GiveUp,
                  WriteAnchor, device, server
    <2>3. \A u \in Tasks : u # t => task'[u] = task[u]
      BY <1>1 DEF Enrol, Select, Create, Reuse, Register, Confirm, GiveUp, Stay, TypeOK
    <2>4. task'[t].pc \notin ReleaseSteps
      <3>1. CASE Stay(t, Idle)
        BY <3>1, IdleType, StayFacts DEF ReleaseSteps
      <3>2. CASE Enrol(t)
        BY <3>2 DEF Enrol, Stay, Idle, TypeOK, ReleaseSteps
      <3>3. CASE Select(t)
        BY <2>1, <3>3 DEF Select, Stay, TypeOK, Task, ReleaseSteps
      <3>4. CASE \E id : Stay(t, [task[t] EXCEPT !.pc = "enrol", !.id = id])
        BY <2>1, <3>4 DEF Stay, TypeOK, Task, ReleaseSteps
      <3>5. CASE \E issued : Stay(t, [task[t] EXCEPT !.pc = "confirm", !.time = issued])
        BY <2>1, <3>5 DEF Stay, TypeOK, Task, ReleaseSteps
      <3>6. CASE Create(t) \/ Reuse(t)
        BY <3>1, <3>4, <3>6 DEF Create, Reuse
      <3>7. CASE (\E issued \in Times : Register(t, issued)) \/ Confirm(t) \/ GiveUp(t)
        BY <3>1, <3>5, <3>7 DEF Register, Confirm, GiveUp
      <3> QED BY <1>1, <3>2, <3>3, <3>6, <3>7
    <2> QED BY <2>2, <2>3, <2>4, ReleaseFrame
  <1>2. CASE Restart
    BY <1>2, ReleaseFrame DEF Restart, Idle, ReleaseSteps, device, server
  <1>3. CASE Renew \/ Tick \/ SetBack \/ UNCHANGED vars
    BY <1>3, ReleaseFrame DEF Renew, Tick, SetBack, vars, device, server
  <1> QED
    BY <1>1, <1>2, <1>3, LoadReleaseRelease, ChallengeRelease, StageRelease,
       SendReleaseRelease, ConfirmReleaseRelease, AcknowledgeRelease,
       SendAcknowledgementRelease, RecordRelease DEF Next

-----------------------------------------------------------------------------
(* The theorems.                                                           *)

LEMMA Inductive == Spec => []IInv
  <1>1. Init => IInv
    BY InitType, InitEnrol, InitRelease DEF IInv
  <1>2. IInv /\ [Next]_vars => IInv'
    BY StepType, StepEnrol, StepRelease DEF IInv
  <1> QED BY <1>1, <1>2, PTL DEF Spec

LEMMA AtMostOne ==
    ASSUME NEW S, NEW x, S \subseteq {x} PROVE ~(Cardinality(S) > 1)
  <1>1. S = {} \/ S = {x}
    OBVIOUS
  <1>2. Cardinality({}) = 0 /\ Cardinality({x}) = 1
    BY FS_EmptySet, FS_Singleton
  <1> QED BY <1>1, <1>2

\* A second identity is enrolled only beside a confirmed legacy one.
LEMMA KeptSuffices == IInv => EnrolledIsKept
  <1> SUFFICES ASSUME IInv PROVE EnrolledIsKept
    OBVIOUS
  <1> USE DEF IInv
  <1>1. \A id \in registered : Holds(legacy, id) \/ Holds(scoped, id)
    BY DEF EnrolInv, Kept
  <1>2. CASE legacy \notin Identity
    <2>1. registered \subseteq {scoped.id}
      BY <1>1, <1>2 DEF Holds
    <2>2. ~(Cardinality(registered) > 1)
      BY <2>1, AtMostOne
    <2> QED BY <1>1, <2>2 DEF EnrolledIsKept
  <1>3. CASE scoped = None
    <2>1. registered \subseteq {legacy.id}
      BY <1>1, <1>3, NoneAssumption DEF Holds
    <2>2. ~(Cardinality(registered) > 1)
      BY <2>1, AtMostOne
    <2> QED BY <1>1, <2>2 DEF EnrolledIsKept
  <1>4. CASE legacy \in Identity /\ scoped # None
    BY <1>1, <1>4, IdentityType DEF EnrolledIsKept, EnrolInv, PendingLegacy
  <1> QED BY <1>2, <1>3, <1>4

\* Every step keeps the types of the registry, the server and the requests.
THEOREM TypeCorrect == Spec => []TypeOK
  BY Inductive, PTL DEF IInv

\* What the server has enrolled the device keeps, in a record that no later
\* enrolment replaces, and a second identity is enrolled only beside a
\* confirmed one of an older build (enrolment_state, confirm_locked).
THEOREM EnrolledKept == Spec => []EnrolledIsKept
  BY Inductive, KeptSuffices, PTL

\* An identity that a record calls confirmed is enrolled (confirm_locked).
THEOREM ConfirmedEnrolled == Spec => []ConfirmedIsEnrolled
  <1>1. IInv => ConfirmedIsEnrolled
    BY DEF IInv, EnrolInv
  <1> QED BY <1>1, Inductive, PTL

\* The server is asked for one release only, the saved one (stage,
\* release_exchange_with).
THEOREM ReleasedOnce == Spec => []OneRelease
  <1>1. IInv => OneRelease
    BY DEF IInv, ReleaseInv
  <1> QED BY <1>1, Inductive, PTL

\* A release is acknowledged when it is recorded, and recorded as acknowledged
\* when the server has it (prepare_acknowledgement, record_acknowledgement).
THEOREM AcknowledgedRecorded == Spec => []AcknowledgedIsRecorded
  <1>1. IInv => AcknowledgedIsRecorded
    BY DEF IInv, ReleaseInv
  <1> QED BY <1>1, Inductive, PTL

=============================================================================
