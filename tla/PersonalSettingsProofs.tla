----------------------- MODULE PersonalSettingsProofs -----------------------
(***************************************************************************)
(* Proofs about PersonalSettings for any accounts, requests and limits: one *)
(* transaction at a time for each account, and the store implements the     *)
(* atomic register.                                                         *)
(*                                                                          *)
(* OneTransaction is not inductive: two lanes of one account would break it. *)
(* The invariant adds that a held lane is the one the map names, that a lane *)
(* has one transaction, and that staged work stands on the current record.   *)
(* AdmissionBounded needs besides that no two accounts share a lane, so that *)
(* the lanes the scheduler counts are the accounts it serves.                *)
(***************************************************************************)
EXTENDS PersonalSettings, FiniteSetTheorems, TLAPS

\* Every request in progress holds the lane that the map names.
LaneShared == \A r \in Requests : jobs[r] # NoJob => lanes[jobs[r].a] = jobs[r].lane

\* A lane has one transaction permit.
OnePermit ==
    \A r, q \in Requests :
        Working(r) /\ Working(q) /\ jobs[r].lane = jobs[q].lane => r = q

\* Staged work and letter cleanup stand on the record in force.
BaseCurrent ==
    \A r \in Requests : At(r, "staged") \/ At(r, "letters")
                            => jobs[r].base = file[jobs[r].a]

\* A submitted write carries a document; a staged one was admitted.
StagedAdmitted ==
    \A r \in Requests :
        /\ jobs[r] # NoJob /\ jobs[r].kind = "write" => jobs[r].value \in Values
        /\ At(r, "staged") => /\ jobs[r].kind = "write"
                              /\ Admits(jobs[r], jobs[r].base)

IInv == TypeOK /\ LaneShared /\ OnePermit /\ BaseCurrent /\ StagedAdmitted

\* The record of a write is one the store can hold.
LEMMA SuccessorType ==
    ASSUME NEW current \in Register!Record, current.revision < MaxRevision,
           NEW v \in Values, NEW legacy \in BOOLEAN
    PROVE  Register!Successor(current, v, legacy) \in Register!Record
  BY RevisionAssumption DEF Register!Successor, Register!Record

\* An empty store satisfies it.
LEMMA InitInvariant == Init => IInv
  BY RevisionAssumption
     DEF Init, IInv, TypeOK, LaneShared, OnePermit, BaseCurrent, StagedAdmitted,
         Working, At, Register!Unwritten, Register!Record, Register!Answer,
         Register!Answers

\* What a step that takes a lane does to the map: the account gets the lane,
\* and every request in progress keeps its own.
LEMMA LaneTaken ==
    ASSUME TypeOK, LaneShared, NEW a \in Accounts, NEW i \in Lanes,
           AccountLane(a, i)
    PROVE  /\ lanes' \in [Accounts -> Lanes \cup {NoLane}]
           /\ lanes'[a] = i
           /\ \A r \in Requests : jobs[r] # NoJob => lanes'[jobs[r].a] = jobs[r].lane
  <1>1. \A r \in Requests : jobs[r] # NoJob => Retained[jobs[r].a] = jobs[r].lane
    <2>1. SUFFICES ASSUME NEW r \in Requests, jobs[r] # NoJob
                   PROVE  Retained[jobs[r].a] = jobs[r].lane
      OBVIOUS
    <2>2. jobs[r].a \in Accounts /\ jobs[r].lane \in Lanes
      BY <2>1 DEF TypeOK, Job
    <2>3. lanes[jobs[r].a] = jobs[r].lane
      BY <2>1 DEF LaneShared
    <2>4. r \in Holders(lanes[jobs[r].a])
      BY <2>1, <2>3 DEF Holders
    <2> QED BY <2>2, <2>3, <2>4, LanesAssumption DEF Retained
  <1>2. Retained \in [Accounts -> Lanes \cup {NoLane}]
    BY DEF Retained, TypeOK
  <1>3. lanes' = [Retained EXCEPT ![a] = i]
    BY DEF AccountLane
  <1>4. ASSUME NEW r \in Requests, jobs[r] # NoJob, jobs[r].a = a
        PROVE  jobs[r].lane = i
    <2>1. Retained[a] = jobs[r].lane /\ jobs[r].lane \in Lanes
      BY <1>1, <1>4 DEF TypeOK, Job
    <2> QED BY <2>1, LanesAssumption DEF AccountLane
  <1>5. ASSUME NEW r \in Requests, jobs[r] # NoJob
        PROVE  lanes'[jobs[r].a] = jobs[r].lane
    <2>1. jobs[r].a \in Accounts
      BY <1>5 DEF TypeOK, Job
    <2> QED BY <1>1, <1>2, <1>3, <1>4, <1>5, <2>1
  <1> QED BY <1>2, <1>3, <1>5

\* A request that starts on a free lane, or only waits, keeps the invariant.
LEMMA StartStep ==
    ASSUME IInv, NEW r \in Requests, NEW a \in Accounts, NEW i \in Lanes,
           NEW j \in Job, AccountLane(a, i), jobs[r] = NoJob,
           j.a = a, j.lane = i, j.pc \in {"waiting", "letters"},
           j.pc = "letters" => Free(i) /\ j.base = file[a],
           j.kind = "write" => j.value \in Values,
           jobs' = [jobs EXCEPT ![r] = j], UNCHANGED <<file, answer>>
    PROVE  IInv'
  <1> USE DEF IInv
  <1>1. TypeOK'
    BY LaneTaken DEF TypeOK
  <1>2. LaneShared'
    BY LaneTaken DEF LaneShared, TypeOK
  <1>3. ASSUME NEW q \in Requests, q # r, Working(r)', Working(q)',
               jobs'[q].lane = jobs'[r].lane
        PROVE  FALSE
    <2>1. jobs'[r] = j /\ jobs'[q] = jobs[q]
      BY <1>3 DEF TypeOK
    <2>2. j.pc = "letters"
      BY <1>3, <2>1 DEF Working
    <2>3. Working(q) /\ jobs[q].lane = i
      BY <1>3, <2>1 DEF Working
    <2>4. q \in Holders(i)
      BY <2>3 DEF Holders, Working
    <2> QED BY <2>2, <2>3, <2>4 DEF Free
  <1>4. OnePermit'
    BY <1>3 DEF OnePermit, Working, TypeOK
  <1>5. BaseCurrent'
    BY DEF BaseCurrent, At, TypeOK
  <1>6. StagedAdmitted'
    BY DEF StagedAdmitted, At, TypeOK
  <1> QED BY <1>1, <1>2, <1>4, <1>5, <1>6

\* A request that ends without touching the record keeps the invariant.
LEMMA EndStep ==
    ASSUME IInv, NEW r \in Requests, Ended(r), UNCHANGED <<file, lanes>>,
           answer' \in [Accounts -> Register!Answers]
    PROVE  IInv'
  BY DEF IInv, TypeOK, LaneShared, OnePermit, BaseCurrent, StagedAdmitted,
         Ended, Working, At

\* The invariant is inductive: one case per action.
LEMMA StepInvariant == IInv /\ [Next]_vars => IInv'
  <1> SUFFICES ASSUME IInv, [Next]_vars PROVE IInv'
    OBVIOUS
  <1> USE DEF IInv
  <1>1. ASSUME NEW r \in Requests, NEW a \in Accounts, SubmitRead(r, a)
        PROVE  IInv'
    <2>1. PICK i \in Lanes :
            /\ AccountLane(a, i)
            /\ jobs' = [jobs EXCEPT ![r] = NewJob("waiting", "read", a, i, 0, NoValue, FALSE, Register!Unwritten)]
      BY <1>1 DEF SubmitRead, Submit
    <2>2. NewJob("waiting", "read", a, i, 0, NoValue, FALSE, Register!Unwritten) \in Job
      BY RevisionAssumption DEF NewJob, Job, Register!Unwritten, Register!Record
    <2> QED BY <1>1, <2>1, <2>2, StartStep DEF NewJob, SubmitRead, Submit
  <1>2. ASSUME NEW r \in Requests, NEW a \in Accounts, SubmitWrite(r, a)
        PROVE  IInv'
    <2>1. PICK expected \in 0 .. file[a].revision, v \in Values, legacy \in BOOLEAN :
            Submit(r, "write", a, expected, v, legacy)
      BY <1>2 DEF SubmitWrite
    <2>2. PICK i \in Lanes :
            /\ AccountLane(a, i)
            /\ jobs' = [jobs EXCEPT ![r] = NewJob("waiting", "write", a, i, expected, v, legacy, Register!Unwritten)]
      BY <2>1 DEF Submit
    <2>3. expected \in 0 .. MaxRevision
      BY RevisionAssumption DEF TypeOK, Register!Record
    <2>4. NewJob("waiting", "write", a, i, expected, v, legacy, Register!Unwritten) \in Job
      BY <2>3, RevisionAssumption DEF NewJob, Job, Register!Unwritten, Register!Record
    <2> QED BY <2>1, <2>2, <2>4, StartStep DEF NewJob, Submit
  <1>3. ASSUME NEW r \in Requests, NEW a \in Accounts, Letters(r, a)
        PROVE  IInv'
    <2>1. PICK i \in Lanes :
            /\ AccountLane(a, i)
            /\ Free(i)
            /\ jobs' = [jobs EXCEPT ![r] =
                          NewJob("letters", "letters", a, i, 0, NoValue, FALSE, file[a])]
      BY <1>3 DEF Letters
    <2> DEFINE j == NewJob("letters", "letters", a, i, 0, NoValue, FALSE, file[a])
    <2>2. file[a] \in Register!Record
      BY DEF TypeOK
    <2>3. j \in Job
      BY <2>2, RevisionAssumption DEF NewJob, Job
    <2>4. /\ j.a = a /\ j.lane = i /\ j.pc = "letters"
          /\ j.base = file[a] /\ j.kind = "letters"
      BY DEF NewJob
    <2> HIDE DEF j
    <2> QED BY <1>3, <2>1, <2>3, <2>4, StartStep DEF Letters, j
  <1>4. ASSUME NEW r \in Requests, Acquire(r)
        PROVE  IInv'
    <2>1. /\ jobs[r] # NoJob /\ jobs[r] \in Job /\ jobs[r].pc = "waiting"
          /\ jobs' = [jobs EXCEPT ![r].pc = "ready"]
          /\ UNCHANGED <<file, answer, lanes>>
      BY <1>4 DEF Acquire, At, TypeOK
    <2>2. jobs'[r] = [jobs[r] EXCEPT !.pc = "ready"] /\ jobs'[r] \in Job
      BY <2>1 DEF TypeOK, Job
    <2>3. ASSUME NEW q \in Requests, q # r, Working(q), jobs[q].lane = jobs[r].lane
          PROVE  FALSE
      BY <1>4, <2>3 DEF Acquire, Free, Holders, Working
    <2>4. TypeOK' /\ LaneShared'
      BY <2>1, <2>2 DEF TypeOK, LaneShared, Job
    <2>5. OnePermit'
      BY <2>1, <2>2, <2>3 DEF OnePermit, Working, TypeOK, Job
    <2>6. BaseCurrent' /\ StagedAdmitted'
      BY <2>1, <2>2 DEF BaseCurrent, StagedAdmitted, At, TypeOK, Job
    <2> QED BY <2>4, <2>5, <2>6
  <1>5. ASSUME NEW r \in Requests, Abandon(r) \/ Fail(r)
        PROVE  IInv'
    BY <1>5, EndStep DEF Abandon, Fail, TypeOK
  <1>6. ASSUME NEW r \in Requests, Cancel(r)
        PROVE  IInv'
    <2>1. /\ jobs[r] # NoJob /\ jobs[r] \in Job /\ Working(r)
          /\ jobs' = [jobs EXCEPT ![r].called = FALSE]
          /\ UNCHANGED <<file, answer, lanes>>
      BY <1>6 DEF Cancel, At, TypeOK, Working
    <2>2. /\ jobs'[r] = [jobs[r] EXCEPT !.called = FALSE]
          /\ jobs'[r] \in Job
          /\ \A q \in Requests : q # r => jobs'[q] = jobs[q]
      BY <2>1 DEF TypeOK, Job
    <2>3. TypeOK' /\ LaneShared'
      BY <2>1, <2>2 DEF TypeOK, LaneShared, Job
    <2>4. OnePermit'
      BY <2>1, <2>2 DEF OnePermit, Working, TypeOK, Job
    <2>5. BaseCurrent' /\ StagedAdmitted'
      BY <2>1, <2>2 DEF BaseCurrent, StagedAdmitted, At, TypeOK, Job, Admits
    <2> QED BY <2>3, <2>4, <2>5
  <1>7. ASSUME NEW r \in Requests, ReadRecord(r)
        PROVE  IInv'
    <2>1. jobs[r].a \in Accounts
      BY <1>7 DEF ReadRecord, At, TypeOK, Job
    <2>2. Register!Answer(-1, file[jobs[r].a]) \in Register!Answers
      BY <2>1, RevisionAssumption DEF TypeOK, Register!Answer, Register!Answers
    <2>3. answer' \in [Accounts -> Register!Answers]
      BY <1>7, <2>2 DEF ReadRecord, TypeOK
    <2> QED BY <1>7, <2>3, EndStep DEF ReadRecord
  <1>8. ASSUME NEW r \in Requests, Stage(r)
        PROVE  IInv'
    <2>0. CASE ~Admits(jobs[r], file[jobs[r].a])
      BY <1>8, <2>0, EndStep DEF Stage, TypeOK
    <2>1. CASE Admits(jobs[r], file[jobs[r].a])
      <3>1. /\ jobs[r] # NoJob /\ jobs[r] \in Job /\ jobs[r].kind = "write"
            /\ jobs[r].pc = "ready" /\ Working(r)
            /\ jobs' = [jobs EXCEPT ![r].pc = "staged", ![r].base = file[jobs[r].a]]
            /\ UNCHANGED <<file, answer, lanes>>
        BY <1>8, <2>1 DEF Stage, At, TypeOK, Working
      <3>2. jobs[r].a \in Accounts /\ file[jobs[r].a] \in Register!Record
        BY <3>1 DEF TypeOK, Job
      <3>3. /\ jobs'[r] = [jobs[r] EXCEPT !.pc = "staged", !.base = file[jobs[r].a]]
            /\ jobs'[r] \in Job
            /\ \A q \in Requests : q # r => jobs'[q] = jobs[q]
        BY <3>1, <3>2 DEF TypeOK, Job
      <3>4. TypeOK' /\ LaneShared'
        BY <3>1, <3>3 DEF TypeOK, LaneShared, Job
      <3>5. OnePermit'
        BY <3>1, <3>3 DEF OnePermit, Working, TypeOK, Job
      <3>6. BaseCurrent'
        BY <3>1, <3>3 DEF BaseCurrent, At, TypeOK, Job
      <3>7. StagedAdmitted'
        BY <2>1, <3>1, <3>3 DEF StagedAdmitted, At, TypeOK, Job, Admits
      <3> QED BY <3>4, <3>5, <3>6, <3>7
    <2> QED BY <2>0, <2>1
  <1>9. ASSUME NEW r \in Requests, Replace(r)
        PROVE  IInv'
    <2> DEFINE j == jobs[r]
    <2> DEFINE new == Register!Successor(j.base, j.value, j.legacy)
    <2>1. /\ j # NoJob /\ j \in Job /\ At(r, "staged") /\ Working(r)
          /\ file' = [file EXCEPT ![j.a] = new]
          /\ answer' = [answer EXCEPT ![j.a] = Register!Answer(j.expected, file'[j.a])]
          /\ jobs' = [jobs EXCEPT ![r] = NoJob]
          /\ lanes' = lanes
      BY <1>9 DEF Replace, At, TypeOK, Working, Ended
    <2>2. /\ j.a \in Accounts /\ j.base \in Register!Record /\ j.legacy \in BOOLEAN
          /\ j.value \in Values /\ j.base.revision < MaxRevision
          /\ j.expected \in 0 .. MaxRevision
      BY <2>1 DEF Job, StagedAdmitted, Admits
    <2>3. new \in Register!Record
      BY <2>2, SuccessorType
    <2> HIDE DEF new
    <2>4. file' \in [Accounts -> Register!Record] /\ file'[j.a] = new
      BY <2>1, <2>2, <2>3 DEF TypeOK
    <2>5. Register!Answer(j.expected, new) \in Register!Answers
      BY <2>2, <2>3, RevisionAssumption DEF Register!Answer, Register!Answers
    <2>6. answer' \in [Accounts -> Register!Answers]
      BY <2>1, <2>2, <2>4, <2>5 DEF TypeOK
    <2>7. TypeOK' /\ LaneShared'
      BY <2>1, <2>4, <2>6 DEF TypeOK, LaneShared
    <2>8. OnePermit'
      BY <2>1 DEF OnePermit, Working, TypeOK
    <2>9. ASSUME NEW q \in Requests, q # r, At(q, "staged") \/ At(q, "letters")
          PROVE  jobs[q].a # j.a
      <3>1. Working(q)
        BY <2>9 DEF At, Working
      <3>2. jobs[q].lane # j.lane
        BY <2>1, <2>9, <3>1 DEF OnePermit
      <3> QED BY <2>1, <3>1, <3>2 DEF LaneShared, Working
    <2>10. BaseCurrent'
      <3>1. SUFFICES ASSUME NEW q \in Requests, (At(q, "staged") \/ At(q, "letters"))'
                     PROVE  jobs'[q].base = file'[jobs'[q].a]
        BY DEF BaseCurrent
      <3>2. q # r /\ jobs'[q] = jobs[q]
        BY <2>1, <3>1 DEF At, TypeOK
      <3>3. At(q, "staged") \/ At(q, "letters")
        BY <3>1, <3>2 DEF At
      <3>4. jobs[q].base = file[jobs[q].a] /\ jobs[q].a # j.a /\ jobs[q].a \in Accounts
        BY <2>9, <3>2, <3>3 DEF BaseCurrent, At, TypeOK, Job
      <3> QED BY <2>1, <3>2, <3>4 DEF TypeOK
    <2>11. StagedAdmitted'
      BY <2>1 DEF StagedAdmitted, At, TypeOK
    <2> QED BY <2>7, <2>8, <2>10, <2>11
  <1>10. CASE Crash
    BY <1>10 DEF Crash, TypeOK, LaneShared, OnePermit, BaseCurrent,
                 StagedAdmitted, Working, At
  <1>11. CASE UNCHANGED vars
    BY <1>11 DEF vars, TypeOK, LaneShared, OnePermit, BaseCurrent,
                 StagedAdmitted, Working, At
  <1> QED
    BY <1>1, <1>2, <1>3, <1>4, <1>5, <1>6, <1>7, <1>8, <1>9, <1>10, <1>11 DEF Next

\* The store never leaves its types: no revision passes the last one.
THEOREM TypeCorrect == Spec => []TypeOK
  BY InitInvariant, StepInvariant, PTL DEF Spec, IInv

\* For any accounts, requests and limits, no two pieces of blocking work run
\* for one account at a time.
THEOREM OneTransactionTheorem == Spec => []OneTransaction
  <1>1. IInv => OneTransaction
    <2>1. SUFFICES ASSUME IInv, NEW r \in Requests, NEW q \in Requests,
                          Working(r), Working(q), jobs[r].a = jobs[q].a
                   PROVE  r = q
      BY DEF OneTransaction
    <2>2. jobs[r].lane = jobs[q].lane
      BY <2>1 DEF IInv, LaneShared, Working
    <2> QED BY <2>1, <2>2 DEF IInv, OnePermit
  <1> QED BY <1>1, InitInvariant, StepInvariant, PTL DEF Spec

\* The record whose letters a cleanup read stays in force until it ends.
THEOREM LettersTheorem == Spec => []LettersStayCurrent
  <1>1. IInv => LettersStayCurrent
    BY DEF IInv, BaseCurrent, LettersStayCurrent
  <1> QED BY <1>1, InitInvariant, StepInvariant, PTL DEF Spec

\* The store implements the atomic register: the read and the replacement are
\* the register's steps, and every other step leaves file and answers alone.
THEOREM Refinement == Spec => IsRegister
  <1>1. Init => Register!Init
    BY DEF Init, Register!Init
  <1>2. IInv /\ [Next]_vars => [Register!Next]_<<file, answer>>
    <2> SUFFICES ASSUME IInv, [Next]_vars
                 PROVE  Register!Next \/ UNCHANGED <<file, answer>>
      OBVIOUS
    <2>1. ASSUME NEW r \in Requests, ReadRecord(r)
          PROVE  Register!Next
      <3>1. jobs[r].a \in Accounts
        BY <2>1 DEF IInv, ReadRecord, At, TypeOK, Job
      <3>2. Register!Read(jobs[r].a)
        BY <2>1 DEF ReadRecord, Register!Read
      <3> QED BY <3>1, <3>2 DEF Register!Next
    <2>2. ASSUME NEW r \in Requests, Replace(r)
          PROVE  Register!Next
      <3> DEFINE j == jobs[r]
      <3>1. /\ j \in Job /\ At(r, "staged")
        BY <2>2 DEF IInv, Replace, At, TypeOK
      <3>2. /\ j.a \in Accounts /\ j.expected \in 0 .. MaxRevision
            /\ j.value \in Values /\ j.legacy \in BOOLEAN
            /\ j.base = file[j.a] /\ Admits(j, j.base)
        BY <3>1 DEF IInv, Job, StagedAdmitted, BaseCurrent, At
      <3>3. Register!Write(j.a, j.expected, j.value, j.legacy)
        BY <2>2, <3>2 DEF Replace, Register!Write, Admits
      <3> QED BY <3>2, <3>3 DEF Register!Next
    <2>3. ASSUME NEW r \in Requests, NEW a \in Accounts,
                 SubmitRead(r, a) \/ SubmitWrite(r, a) \/ Letters(r, a)
          PROVE  UNCHANGED <<file, answer>>
      BY <2>3 DEF SubmitRead, SubmitWrite, Submit, Letters
    <2>4. ASSUME NEW r \in Requests,
                 Acquire(r) \/ Abandon(r) \/ Cancel(r) \/ Fail(r) \/ Stage(r)
          PROVE  UNCHANGED <<file, answer>>
      BY <2>4 DEF Acquire, Abandon, Cancel, Fail, Stage
    <2>5. CASE Crash
      BY <2>5 DEF Crash
    <2>6. CASE UNCHANGED vars
      BY <2>6 DEF vars
    <2> QED BY <2>1, <2>2, <2>3, <2>4, <2>5, <2>6 DEF Next
  <1> QED
    BY <1>1, <1>2, InitInvariant, StepInvariant, PTL DEF Spec, IsRegister, Register!Spec
-----------------------------------------------------------------------------
(* The limits on admission.                                                *)

\* No two accounts share a lane.
LanesDistinct ==
    \A a, b \in Accounts : lanes[a] = lanes[b] /\ lanes[a] # NoLane => a = b

BoundInv == IInv /\ LanesDistinct /\ AdmissionBounded

\* A subset of a finite set stays below the set's bound.
LEMMA SubsetBounded ==
    ASSUME NEW S, IsFiniteSet(S), NEW T \in SUBSET S, NEW n \in Nat,
           Cardinality(S) <= n
    PROVE  Cardinality(T) <= n
  <1>1. Cardinality(T) <= Cardinality(S) /\ IsFiniteSet(T)
    BY FS_Subset
  <1>2. Cardinality(S) \in Nat /\ Cardinality(T) \in Nat
    BY <1>1, FS_CardinalityType
  <1> QED BY <1>1, <1>2

\* A set below its bound has room for one more.
LEMMA OneMore ==
    ASSUME NEW S, IsFiniteSet(S), NEW x, NEW T \in SUBSET (S \cup {x}),
           NEW n \in Nat, Cardinality(S) < n
    PROVE  Cardinality(T) <= n
  <1>1. /\ IsFiniteSet(S \cup {x})
        /\ Cardinality(S \cup {x}) = IF x \in S THEN Cardinality(S) ELSE Cardinality(S) + 1
    BY FS_AddElement
  <1>2. Cardinality(S) \in Nat
    BY FS_CardinalityType
  <1>3. Cardinality(S \cup {x}) <= n
    BY <1>1, <1>2
  <1> QED BY <1>1, <1>3, SubsetBounded

\* The sets that are counted are finite.
LEMMA CountedFinite ==
    /\ IsFiniteSet(Served)
    /\ IsFiniteSet(Admitted)
    /\ \A a \in Accounts : IsFiniteSet(AdmittedFor(a))
    /\ \A i : IsFiniteSet(Holders(i) \cap Admitted)
  <1>1. Served \in SUBSET Accounts /\ Admitted \in SUBSET Requests
    BY DEF Served, Admitted
  <1>2. IsFiniteSet(Served) /\ IsFiniteSet(Admitted)
    BY <1>1, FS_Subset, LimitsAssumption
  <1>3. /\ \A a \in Accounts : AdmittedFor(a) \in SUBSET Admitted
        /\ \A i : Holders(i) \cap Admitted \in SUBSET Admitted
    BY DEF AdmittedFor
  <1> QED BY <1>2, <1>3, FS_Subset

\* The limits are naturals.
LEMMA LimitsType ==
    MaxAccounts \in Nat /\ MaxRequests \in Nat /\ MaxAccountRequests \in Nat
  BY LimitsAssumption

\* The lanes that Scheduler::account retains are those of the accounts served.
LEMMA RetainedServed ==
    ASSUME TypeOK, LaneShared, LanesDistinct
    PROVE  {b \in Accounts : Retained[b] # NoLane} = Served
  <1>1. ASSUME NEW b \in Accounts, Retained[b] # NoLane
        PROVE  b \in Served
    <2>1. lanes[b] # NoLane /\ Holders(lanes[b]) # {}
      BY <1>1 DEF Retained
    <2>2. PICK r \in Requests : jobs[r] # NoJob /\ jobs[r].lane = lanes[b]
      BY <2>1 DEF Holders
    <2>3. jobs[r].a \in Accounts /\ lanes[jobs[r].a] = lanes[b]
      BY <2>2 DEF TypeOK, Job, LaneShared
    <2>4. jobs[r].a = b
      BY <2>1, <2>3 DEF LanesDistinct
    <2> QED BY <2>2, <2>4 DEF Served
  <1>2. ASSUME NEW b \in Served
        PROVE  b \in Accounts /\ Retained[b] # NoLane
    <2>1. b \in Accounts
      BY DEF Served
    <2>2. PICK r \in Requests : jobs[r] # NoJob /\ jobs[r].a = b
      BY DEF Served
    <2>3. lanes[b] = jobs[r].lane /\ jobs[r].lane \in Lanes
      BY <2>2 DEF TypeOK, Job, LaneShared
    <2>4. r \in Holders(lanes[b])
      BY <2>2, <2>3 DEF Holders
    <2> QED BY <2>1, <2>3, <2>4, LanesAssumption DEF Retained
  <1> QED BY <1>1, <1>2

\* Taking a lane keeps lanes apart and the accounts served within their limit;
\* the requests of the account all hold that lane.
LEMMA LaneCounted ==
    ASSUME BoundInv, NEW r \in Requests, NEW a \in Accounts, NEW i \in Lanes,
           NEW j, AccountLane(a, i), j.a = a, jobs' = [jobs EXCEPT ![r] = j]
    PROVE  /\ LanesDistinct'
           /\ Cardinality(Served') <= MaxAccounts
           /\ AdmittedFor(a) \in SUBSET (Holders(i) \cap Admitted)
  <1> DEFINE known == {b \in Accounts : Retained[b] # NoLane}
  <1>1. /\ IF a \in known THEN i = Retained[a]
           ELSE Cardinality(known) < MaxAccounts /\ Holders(i) = {}
        /\ lanes' = [Retained EXCEPT ![a] = i]
    BY DEF AccountLane
  <1>2. known = Served
    BY RetainedServed DEF BoundInv, IInv
  <1>3. \A b \in Accounts : Retained[b] # NoLane =>
            Retained[b] = lanes[b] /\ Holders(lanes[b]) # {}
    BY DEF Retained
  <1>4. Retained \in [Accounts -> Lanes \cup {NoLane}]
    BY DEF Retained, BoundInv, IInv, TypeOK
  <1>5. \A b \in Accounts : b # a /\ Retained[b] # NoLane => Retained[b] # i
    BY <1>1, <1>3 DEF BoundInv, LanesDistinct
  <1>6. LanesDistinct'
    BY <1>1, <1>3, <1>4, <1>5 DEF BoundInv, LanesDistinct
  <1>7. Served' \in SUBSET (Served \cup {a})
    BY DEF Served, BoundInv, IInv, TypeOK
  <1>8. Cardinality(Served') <= MaxAccounts
    <2>1. CASE a \in known
      <3>1. Served' \in SUBSET Served
        BY <1>2, <1>7, <2>1
      <3>2. Cardinality(Served) <= MaxAccounts
        BY DEF BoundInv, AdmissionBounded
      <3> QED BY <3>1, <3>2, CountedFinite, LimitsType, SubsetBounded
    <2>2. CASE a \notin known
      <3>1. Cardinality(Served) < MaxAccounts
        BY <1>1, <1>2, <2>2
      <3> QED BY <1>7, <3>1, CountedFinite, LimitsType, OneMore
    <2> QED BY <2>1, <2>2
  <1>9. ASSUME NEW q \in AdmittedFor(a)
        PROVE  q \in Holders(i) \cap Admitted
    <2>1. q \in Admitted /\ q \in Requests /\ jobs[q] # NoJob /\ jobs[q].a = a
      BY DEF AdmittedFor, Admitted
    <2>2. a \in known
      BY <1>2, <2>1 DEF Served
    <2>3. i = lanes[a]
      BY <1>1, <1>3, <2>2
    <2>4. jobs[q].lane = i
      BY <2>1, <2>3 DEF BoundInv, IInv, LaneShared
    <2> QED BY <2>1, <2>4 DEF Holders
  <1> QED BY <1>6, <1>8, <1>9

\* Submitting a request keeps the limits.
LEMMA SubmitBounded ==
    ASSUME BoundInv, NEW r \in Requests, NEW kind, NEW a \in Accounts,
           NEW expected, NEW v, NEW legacy, Submit(r, kind, a, expected, v, legacy)
    PROVE  LanesDistinct' /\ AdmissionBounded'
  <1>1. PICK i \in Lanes :
            /\ AccountLane(a, i)
            /\ HasPermits(i)
            /\ jobs' = [jobs EXCEPT ![r] =
                   NewJob("waiting", kind, a, i, expected, v, legacy, Register!Unwritten)]
    BY DEF Submit
  <1> DEFINE j == NewJob("waiting", kind, a, i, expected, v, legacy, Register!Unwritten)
  <1>2. j.a = a
    BY DEF NewJob
  <1> HIDE DEF j
  <1>3. jobs' = [jobs EXCEPT ![r] = j] /\ jobs \in [Requests -> Job \cup {NoJob}]
    BY <1>1 DEF j, BoundInv, IInv, TypeOK
  <1>4. /\ LanesDistinct'
        /\ Cardinality(Served') <= MaxAccounts
        /\ AdmittedFor(a) \in SUBSET (Holders(i) \cap Admitted)
    BY <1>1, <1>2, <1>3, LaneCounted
  <1>5. Admitted' \in SUBSET (Admitted \cup {r})
    BY <1>3 DEF Admitted
  <1>6. Cardinality(Admitted') <= MaxRequests
    BY <1>1, <1>5, CountedFinite, LimitsType, OneMore DEF HasPermits
  <1>7. ASSUME NEW b \in Accounts
        PROVE  Cardinality(AdmittedFor(b)') <= MaxAccountRequests
    <2>1. CASE b = a
      <3>1. AdmittedFor(b)' \in SUBSET ((Holders(i) \cap Admitted) \cup {r})
        BY <1>3, <1>4, <2>1 DEF AdmittedFor, Admitted
      <3> QED BY <1>1, <3>1, CountedFinite, LimitsType, OneMore DEF HasPermits
    <2>2. CASE b # a
      <3>1. AdmittedFor(b)' \in SUBSET AdmittedFor(b)
        BY <1>2, <1>3, <2>2 DEF AdmittedFor, Admitted
      <3>2. Cardinality(AdmittedFor(b)) <= MaxAccountRequests
        BY DEF BoundInv, AdmissionBounded
      <3> QED BY <3>1, <3>2, CountedFinite, LimitsType, SubsetBounded
    <2> QED BY <2>1, <2>2
  <1> QED BY <1>4, <1>6, <1>7 DEF AdmissionBounded

\* A step that admits no request and moves none to another account keeps the
\* two limits on requests.
LEMMA NoneAdmitted ==
    ASSUME BoundInv,
           \A q \in Requests : jobs'[q] # NoJob /\ jobs'[q].kind # "letters" =>
               /\ jobs[q] # NoJob
               /\ jobs[q].kind = jobs'[q].kind
               /\ jobs[q].a = jobs'[q].a
    PROVE  /\ Cardinality(Admitted') <= MaxRequests
           /\ \A a \in Accounts : Cardinality(AdmittedFor(a)') <= MaxAccountRequests
  <1>1. Admitted' \in SUBSET Admitted
    BY DEF Admitted
  <1>2. \A a \in Accounts : AdmittedFor(a)' \in SUBSET AdmittedFor(a)
    BY <1>1 DEF AdmittedFor, Admitted
  <1>3. /\ Cardinality(Admitted) <= MaxRequests
        /\ \A a \in Accounts : Cardinality(AdmittedFor(a)) <= MaxAccountRequests
    BY DEF BoundInv, AdmissionBounded
  <1> QED BY <1>1, <1>2, <1>3, CountedFinite, LimitsType, SubsetBounded

\* A step that starts no request keeps all limits.
LEMMA NoneStarted ==
    ASSUME BoundInv, lanes' = lanes \/ lanes' = [a \in Accounts |-> NoLane],
           \A q \in Requests : jobs'[q] # NoJob =>
               /\ jobs[q] # NoJob
               /\ jobs[q].kind = jobs'[q].kind
               /\ jobs[q].a = jobs'[q].a
    PROVE  LanesDistinct' /\ AdmissionBounded'
  <1>1. LanesDistinct'
    BY DEF BoundInv, LanesDistinct
  <1>2. Served' \in SUBSET Served
    BY DEF Served
  <1>3. Cardinality(Served) <= MaxAccounts
    BY DEF BoundInv, AdmissionBounded
  <1>4. Cardinality(Served') <= MaxAccounts
    BY <1>2, <1>3, CountedFinite, LimitsType, SubsetBounded
  <1> QED BY <1>1, <1>4, NoneAdmitted DEF AdmissionBounded

\* The limits hold for any number of accounts and requests.
THEOREM AdmissionTheorem == Spec => []AdmissionBounded
  <1>1. Init => BoundInv
    <2> SUFFICES ASSUME Init PROVE BoundInv
      OBVIOUS
    <2>1. Served = {} /\ Admitted = {} /\ \A a \in Accounts : AdmittedFor(a) = {}
      BY DEF Init, Served, Admitted, AdmittedFor
    <2>2. AdmissionBounded
      BY <2>1, FS_EmptySet, LimitsType DEF AdmissionBounded
    <2> QED BY <2>2, InitInvariant DEF BoundInv, LanesDistinct, Init
  <1>2. BoundInv /\ [Next]_vars => BoundInv'
    <2>1. SUFFICES ASSUME BoundInv, [Next]_vars
                   PROVE  LanesDistinct' /\ AdmissionBounded'
      BY StepInvariant DEF BoundInv
    <2>2. TypeOK /\ IInv
      BY <2>1 DEF BoundInv, IInv
    <2>3. ASSUME NEW r \in Requests, NEW a \in Accounts,
                 SubmitRead(r, a) \/ SubmitWrite(r, a)
          PROVE  LanesDistinct' /\ AdmissionBounded'
      BY <2>1, <2>3, SubmitBounded DEF SubmitRead, SubmitWrite
    <2>4. ASSUME NEW r \in Requests, NEW a \in Accounts, Letters(r, a)
          PROVE  LanesDistinct' /\ AdmissionBounded'
      <3>1. PICK i \in Lanes :
              /\ AccountLane(a, i)
              /\ jobs' = [jobs EXCEPT ![r] =
                            NewJob("letters", "letters", a, i, 0, NoValue, FALSE, file[a])]
        BY <2>4 DEF Letters
      <3> DEFINE j == NewJob("letters", "letters", a, i, 0, NoValue, FALSE, file[a])
      <3>2. j.a = a /\ j.kind = "letters"
        BY DEF NewJob
      <3> HIDE DEF j
      <3>3. jobs' = [jobs EXCEPT ![r] = j] /\ jobs \in [Requests -> Job \cup {NoJob}]
        BY <2>2, <3>1 DEF j, TypeOK
      <3>4. LanesDistinct' /\ Cardinality(Served') <= MaxAccounts
        BY <2>1, <3>1, <3>2, <3>3, LaneCounted
      <3>5. \A q \in Requests : jobs'[q] # NoJob /\ jobs'[q].kind # "letters" =>
                jobs'[q] = jobs[q]
        BY <3>2, <3>3
      <3> QED BY <2>1, <3>4, <3>5, NoneAdmitted DEF AdmissionBounded
    <2>5. ASSUME NEW r \in Requests,
                 Abandon(r) \/ Fail(r) \/ ReadRecord(r) \/ Replace(r)
          PROVE  LanesDistinct' /\ AdmissionBounded'
      <3>1. jobs' = [jobs EXCEPT ![r] = NoJob] /\ lanes' = lanes
        BY <2>5 DEF Abandon, Fail, ReadRecord, Replace, Ended
      <3> QED BY <2>1, <2>2, <3>1, NoneStarted DEF TypeOK
    <2>6. ASSUME NEW r \in Requests, Acquire(r) \/ Cancel(r) \/ Stage(r)
          PROVE  LanesDistinct' /\ AdmissionBounded'
      <3>1. lanes' = lanes /\ jobs[r] # NoJob /\ jobs[r] \in Job
        BY <2>2, <2>6 DEF Acquire, Cancel, Stage, At, TypeOK
      <3>2. \/ jobs' = [jobs EXCEPT ![r].pc = "ready"]
            \/ jobs' = [jobs EXCEPT ![r].called = FALSE]
            \/ jobs' = [jobs EXCEPT ![r].pc = "staged", ![r].base = file[jobs[r].a]]
            \/ jobs' = [jobs EXCEPT ![r] = NoJob]
        BY <2>6 DEF Acquire, Cancel, Stage, Ended
      <3>3. \/ jobs'[r] = NoJob
            \/ jobs'[r].kind = jobs[r].kind /\ jobs'[r].a = jobs[r].a
        BY <2>2, <3>1, <3>2 DEF TypeOK, Job
      <3>4. \A q \in Requests : q # r => jobs'[q] = jobs[q]
        BY <2>2, <3>2 DEF TypeOK
      <3> QED BY <2>1, <3>1, <3>3, <3>4, NoneStarted
    <2>7. CASE Crash
      BY <2>1, <2>7, NoneStarted DEF Crash
    <2>8. CASE UNCHANGED vars
      BY <2>1, <2>8, NoneStarted DEF vars
    <2> QED BY <2>1, <2>3, <2>4, <2>5, <2>6, <2>7, <2>8 DEF Next
  <1>3. BoundInv => AdmissionBounded
    BY DEF BoundInv
  <1> QED BY <1>1, <1>2, <1>3, PTL DEF Spec
=============================================================================
