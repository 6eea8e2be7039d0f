------------------------- MODULE VaultPolicyProofs --------------------------
(***************************************************************************)
(* Proofs about VaultPolicy for any entries, users, grants and bounds: a      *)
(* current policy is the durable one, revisions advance by one, an edit that  *)
(* the service ends without leaving the policy degraded is all or nothing,    *)
(* and one that is cut short leaves each entry as before or as planned.       *)
(*                                                                           *)
(* The argument is about what one write in doubt may leave behind.  A file     *)
(* replacement that reports failure leaves the policy in memory or the next    *)
(* revision on disk, never anything else.  A write of a container or a group   *)
(* that reports failure leaves what the snapshot can restore, or, where there   *)
(* is no snapshot yet, a container that is open: its ACL is then not what the   *)
(* active policy grants, and the verification of the rollback refuses it.      *)
(***************************************************************************)
EXTENDS VaultPolicy, TLAPS

\* A refresh has a policy to refresh, and a revision left for it.
RefreshInv ==
    phase = "refresh" => active # NoPolicy /\ active.version < MaxVersion

\* Until the file is replaced, a current policy is the durable one.
DurableInv ==
    phase # "rollback" /\ status = "current" => policyFile = active

\* The file is that of the policy in memory, or the next revision.
NearInv ==
    active # NoPolicy =>
        \/ policyFile \in {NoPolicy, active}
        \/ policyFile.version = active.version + 1

\* An edit replaces the policy in memory by the next revision or by none.  Its
\* writes, snapshots and groups are those of the entries that it changes.
PlanInv ==
    edit # NoEdit =>
        /\ edit.new # active
        /\ edit.new # NoPolicy => edit.new.version = Version(active) + 1
        /\ edit.grouped = Grouped(edit.new) \cup Removed(edit.new)
        /\ Changed(edit.new) \subseteq edit.captured
        /\ edit.captured \subseteq Changed(edit.new) \cup Removed(edit.new)
        /\ \A e \in Entries :
            /\ <<1, e>> \in edit.left => e \in Grouped(edit.new)
            /\ <<2, e>> \in edit.left => e \in Changed(edit.new)
            /\ <<3, e>> \in edit.left => e \in Removed(edit.new)
            /\ <<4, e>> \in edit.left => e \in Removed(edit.new)

\* What is not left to be written is as planned.
DoneInv ==
    phase = "edit" =>
        /\ \A e \in Changed(edit.new) :
            /\ <<2, e>> \notin edit.left => acl[e] = edit.new.grants[e]
            /\ <<1, e>> \notin edit.left /\ Target(e) # {} => groups[e] = Target(e)
        /\ \A e \in Removed(edit.new) :
            /\ <<3, e>> \notin edit.left /\ fileId[e] # 0 => acl[e] = Open
            /\ <<4, e>> \notin edit.left => groups[e] = NoGroup

\* What the edit does not change is as it was, unless the container was
\* replaced; a container without a snapshot is at worst open.
KeptInv ==
    edit # NoEdit =>
        /\ \A e \in Entries \ edit.grouped : groups[e] = edit.groups[e]
        /\ \A e \in Entries \ edit.captured : acl[e] \in {edit.acl[e], Open}
        /\ \A e \in Entries \ (Changed(edit.new) \cup Removed(edit.new)) :
            \/ fileId[e] = 0
            \/ fileId[e] > edit.ids[e]
            \/ fileId[e] = edit.ids[e] /\ acl[e] = edit.acl[e]

EditInv == PlanInv /\ DoneInv /\ KeptInv

\* What the edit concerns is as before or as planned at every moment.
HalfInv ==
    edit # NoEdit =>
        /\ policyFile \in {edit.policy, edit.new}
        /\ \A e \in Changed(edit.new) :
            /\ acl[e] \in {edit.acl[e], edit.new.grants[e]}
            /\ Members(groups[e]) \subseteq Members(edit.groups[e]) \cup Target(e)
        /\ \A e \in Removed(edit.new) :
            /\ acl[e] \in {edit.acl[e], Open}
            /\ groups[e] \in {edit.groups[e], NoGroup}

IInv == TypeOK /\ RefreshInv /\ DurableInv /\ NearInv /\ EditInv

-----------------------------------------------------------------------------
(* Policies and plans.                                                     *)

LEMMA GrantsType ==
    ASSUME NEW names \in Grants \cup {{}} PROVE names \in SUBSET (Users \cup {Fleet})
  BY GrantsAssumption

\* File access is for users: the directory's group is expanded or left out.
LEMMA PlanType ==
    ASSUME NEW e, NEW names \in Grants \cup {{}}, NEW members \in SUBSET Users
    PROVE  Direct(e, names, members) \in SUBSET Users /\ Plan(e, names, members) \in SUBSET Users
  BY GrantsType DEF Direct, Plan

LEMMA PolicyFields ==
    ASSUME NEW policy \in Policy
    PROVE  /\ policy.version \in 1 .. MaxVersion /\ policy # NoPolicy
           /\ policy.names \in [Entries -> Grants \cup {{}}]
           /\ policy.ids \in [Entries -> Ids]
           /\ policy.grants \in [Entries -> SUBSET Users]
  BY NoPolicyAssumption DEF Policy

LEMMA InPolicy ==
    /\ In(NoPolicy) = {}
    /\ \A policy \in Policy : In(policy) = {e \in Entries : policy.names[e] # {}}
    /\ \A policy : In(policy) \subseteq Entries
  BY NoPolicyAssumption DEF In

LEMMA ResolveType ==
    ASSUME TypeOK, NEW version \in 1 .. MaxVersion, NEW names \in [Entries -> Grants \cup {{}}]
    PROVE  /\ Resolve(version, names) \in Policy
           /\ Resolve(version, names).version = version
           /\ Resolve(version, names).names = names
           /\ \A e \in In(Resolve(version, names)) : Resolve(version, names).ids[e] = fileId[e]
  <1> DEFINE ids == [e \in Entries |-> IF names[e] = {} THEN 0 ELSE fileId[e]]
             grants == [e \in Entries |-> Plan(e, names[e], directory)]
  <1>1. ids \in [Entries -> Ids]
    <2>1. \A e \in Entries : fileId[e] \in Ids
      BY DEF TypeOK
    <2>2. 0 \in Ids
      BY BoundsAssumption DEF Ids
    <2> QED BY <2>1, <2>2
  <1>2. grants \in [Entries -> SUBSET Users]
    <2>1. \A e \in Entries : Plan(e, names[e], directory) \in SUBSET Users
      BY PlanType DEF TypeOK
    <2> QED BY <2>1
  <1>3. \A e \in Entries : names[e] # {} => ids[e] = fileId[e]
    OBVIOUS
  <1>4. Resolve(version, names) = [version |-> version, names |-> names, ids |-> ids,
                                   grants |-> grants]
    BY DEF Resolve
  <1> HIDE DEF ids, grants
  <1>5. Resolve(version, names) \in Policy
    BY <1>1, <1>2, <1>4 DEF Policy
  <1> QED BY <1>3, <1>4, <1>5, InPolicy

\* A forgotten entry leaves the next revision, or no policy at all.
LEMMA ForgetType ==
    ASSUME NEW policy \in Policy, policy.version < MaxVersion, NEW e \in Entries
    PROVE  /\ Nonempty(Without(policy, e)) \in Policy \cup {NoPolicy}
           /\ Nonempty(Without(policy, e)) # NoPolicy =>
                Nonempty(Without(policy, e)).version = policy.version + 1
  <1>1. {} \in Grants \cup {{}} /\ {} \in SUBSET Users /\ 0 \in Ids
    BY BoundsAssumption DEF Ids
  <1>2. policy.version + 1 \in 1 .. MaxVersion
    BY PolicyFields, BoundsAssumption
  <1>3. [policy.names EXCEPT ![e] = {}] \in [Entries -> Grants \cup {{}}]
    BY <1>1, PolicyFields
  <1>4. [policy.ids EXCEPT ![e] = 0] \in [Entries -> Ids]
    BY <1>1, PolicyFields
  <1>5. [policy.grants EXCEPT ![e] = {}] \in [Entries -> SUBSET Users]
    BY <1>1, PolicyFields
  <1>6. Without(policy, e) \in Policy /\ Without(policy, e).version = policy.version + 1
    BY <1>2, <1>3, <1>4, <1>5 DEF Without, Policy
  <1> QED BY <1>6 DEF Nonempty

-----------------------------------------------------------------------------
(* The edit in progress.                                                   *)

LEMMA EditFields ==
    ASSUME TypeOK, edit # NoEdit
    PROVE  /\ edit \in Edit
           /\ edit.new \in Policy \cup {NoPolicy}
           /\ edit.acl \in [Entries -> (SUBSET Users) \cup {Open}]
           /\ edit.groups \in [Entries -> (SUBSET Users) \cup {NoGroup}]
           /\ edit.ids \in [Entries -> Ids]
           /\ edit.captured \subseteq Entries /\ edit.grouped \subseteq Entries
           /\ phase \in {"edit", "rollback"}
  BY DEF TypeOK, Edit

\* What an edit changes is fixed by its policy and by the service's memory.
LEMMA SameEdit ==
    ASSUME edit'.new = edit.new, UNCHANGED <<active, directory>>
    PROVE  /\ In(edit.new)' = In(edit.new)
           /\ Changed(edit.new)' = Changed(edit.new)
           /\ Removed(edit.new)' = Removed(edit.new)
           /\ Grouped(edit.new)' = Grouped(edit.new)
           /\ \A e : Target(e)' = Target(e)
  BY DEF In, Changed, Unchanged, Removed, Grouped, Target, Direct

LEMMA ChangedEntries ==
    \A new : /\ Changed(new) \subseteq Entries /\ Removed(new) \subseteq Entries
             /\ Grouped(new) \subseteq Changed(new) /\ Changed(new) \subseteq In(new)
             /\ In(new) \cap Removed(new) = {}
  BY InPolicy DEF Changed, Removed, Grouped

LEMMA TargetType ==
    ASSUME TypeOK, edit # NoEdit, NEW e \in In(edit.new)
    PROVE  /\ Target(e) \in SUBSET Users
           /\ edit.new.grants[e] \in SUBSET Users
  <1>1. edit.new \in Policy /\ e \in Entries
    BY EditFields, InPolicy
  <1>2. /\ edit.new.names[e] \in Grants \cup {{}} /\ directory \in SUBSET Users
        /\ edit.new.grants[e] \in SUBSET Users
    BY <1>1, PolicyFields DEF TypeOK
  <1> QED BY <1>2, PlanType DEF Target

LEMMA WritesFacts ==
    ASSUME NEW new, NEW e
    PROVE  /\ <<1, e>> \in Writes(new) <=> e \in Grouped(new)
           /\ <<2, e>> \in Writes(new) <=> e \in Changed(new)
           /\ <<3, e>> \in Writes(new) <=> e \in Removed(new)
           /\ <<4, e>> \in Writes(new) <=> e \in Removed(new) /\ groups[e] # NoGroup
  BY DEF Writes

LEMMA BeginKeeps ==
    ASSUME IInv, NEW new \in Policy \cup {NoPolicy}, Begin(new), new # active,
           new # NoPolicy => new.version = Version(active) + 1,
           \A e \in In(new) : new.ids[e] = fileId[e],
           phase \in {"idle", "refresh"}
    PROVE  IInv'
  <1> DEFINE ids == [e \in Entries |->
                        IF e \in Changed(new) THEN fileId[e]
                        ELSE IF e \in In(active) THEN active.ids[e] ELSE 0]
             started == [new |-> new, left |-> Writes(new), policy |-> policyFile,
                         directory |-> directoryFile, acl |-> acl, groups |-> groups,
                         ids |-> ids, captured |-> Changed(new),
                         grouped |-> Grouped(new) \cup Removed(new),
                         checkpoint |-> Checkpoint]
  <1>1. /\ edit' = started /\ phase' = "edit"
        /\ UNCHANGED <<policyFile, directoryFile, mirror, acl, groups, fileId, active,
                       status, directory, healthy, recovery, faults>>
    BY DEF Begin, disk, memory
  <1>2. TypeOK /\ RefreshInv /\ DurableInv /\ NearInv
    BY DEF IInv
  <1>3. ids \in [Entries -> Ids]
    <2>1. \A e \in Entries : fileId[e] \in Ids /\ 0 \in Ids
      BY <1>2, BoundsAssumption DEF TypeOK, Ids
    <2>2. \A e \in In(active) : active.ids[e] \in Ids
      BY <1>2, PolicyFields, InPolicy DEF TypeOK
    <2> HIDE DEF ids
    <2>3. ids = [e \in Entries |->
                    IF e \in Changed(new) THEN fileId[e]
                    ELSE IF e \in In(active) THEN active.ids[e] ELSE 0]
      BY DEF ids
    <2>4. \A e \in Entries : ids[e] \in Ids
      BY <2>1, <2>2, <2>3
    <2> QED BY <2>3, <2>4
  <1>4. Writes(new) \subseteq (1 .. 4) \X Entries
    BY ChangedEntries DEF Writes
  <1>5. /\ started.new = new /\ started.left = Writes(new) /\ started.acl = acl
        /\ started.groups = groups /\ started.ids = ids /\ started.captured = Changed(new)
        /\ started.grouped = Grouped(new) \cup Removed(new)
    OBVIOUS
  <1>6. started \in Edit
    <2>1. Checkpoint \in BOOLEAN
      BY <1>2 DEF Checkpoint, TypeOK
    <2>2. Changed(new) \in SUBSET Entries /\ Grouped(new) \cup Removed(new) \in SUBSET Entries
      BY ChangedEntries
    <2> DEFINE check == Checkpoint
               changed == Changed(new)
               grouped == Grouped(new) \cup Removed(new)
    <2> HIDE DEF ids, check, changed, grouped
    <2>3. [new |-> new, left |-> Writes(new), policy |-> policyFile,
           directory |-> directoryFile, acl |-> acl, groups |-> groups,
           ids |-> ids, captured |-> changed, grouped |-> grouped,
           checkpoint |-> check] \in Edit
      BY <1>2, <1>3, <1>4, <2>1, <2>2 DEF Edit, TypeOK, changed, grouped, check
    <2> QED BY <2>3 DEF changed, grouped, check
  <1>7. ids = [e \in Entries |->
                    IF e \in Changed(new) THEN fileId[e]
                    ELSE IF e \in In(active) THEN active.ids[e] ELSE 0]
    OBVIOUS
  <1> HIDE DEF started, ids
  <1>8. edit' \in Edit /\ edit' # NoEdit
    BY <1>1, <1>6, NoEditAssumption
  <1>9. TypeOK'
    BY <1>1, <1>2, <1>8 DEF TypeOK
  <1>10. /\ In(edit.new)' = In(new) /\ Changed(edit.new)' = Changed(new)
         /\ Removed(edit.new)' = Removed(new) /\ Grouped(edit.new)' = Grouped(new)
         /\ Version(active)' = Version(active)
         /\ \A e : Target(e)' = Direct(e, new.names[e], directory)
    BY <1>1, <1>5 DEF In, Changed, Unchanged, Removed, Grouped, Direct, Version, Target
  <1>11. PlanInv'
    BY <1>1, <1>5, <1>10, WritesFacts DEF PlanInv
  <1>12. DoneInv'
    <2>1. \A e \in Changed(new) :
            <<2, e>> \in Writes(new) /\
            (<<1, e>> \notin Writes(new) => Direct(e, new.names[e], directory) = {})
      BY WritesFacts DEF Grouped
    <2>2. \A e \in Removed(new) :
            <<3, e>> \in Writes(new) /\ (<<4, e>> \notin Writes(new) => groups[e] = NoGroup)
      BY WritesFacts
    <2> QED BY <1>1, <1>5, <1>10, <2>1, <2>2 DEF DoneInv
  <1>13. KeptInv'
    <2>1. ASSUME NEW e \in Entries, e \notin Changed(new), e \notin Removed(new)
          PROVE  fileId[e] = 0 \/ fileId[e] > ids[e] \/ fileId[e] = ids[e]
      <3>1. CASE e \in In(new)
        <4>1. Unchanged(new, e)
          BY <2>1, <3>1 DEF Changed
        <4> QED BY <1>7, <2>1, <3>1, <4>1 DEF Unchanged
      <3>2. CASE e \notin In(new)
        <4>1. e \notin In(active)
          BY <2>1, <3>2 DEF Removed
        <4>2. ids[e] = 0 /\ fileId[e] \in 0 .. MaxFile
          BY <1>2, <1>7, <2>1, <4>1 DEF TypeOK, Ids
        <4> QED BY <4>2, BoundsAssumption
      <3> QED BY <3>1, <3>2
    <2>2. \A e \in Entries \ (Changed(edit.new)' \cup Removed(edit.new)') :
            \/ fileId'[e] = 0
            \/ fileId'[e] > edit'.ids[e]
            \/ fileId'[e] = edit'.ids[e] /\ acl'[e] = edit'.acl[e]
      BY <1>1, <1>5, <1>10, <2>1
    <2> QED BY <1>1, <1>5, <2>2 DEF KeptInv
  <1> QED BY <1>1, <1>2, <1>9, <1>11, <1>12, <1>13
          DEF IInv, EditInv, RefreshInv, DurableInv, NearInv

-----------------------------------------------------------------------------
(* The writes of an edit.                                                  *)

\* A write that is done leaves the plan as it is, but for itself.
LEMMA DoneKeeps ==
    ASSUME IInv, NEW rank \in 1 .. 4, NEW e \in Entries, Ready(rank, e), Done(rank, e)
    PROVE  /\ edit' \in Edit /\ edit' # NoEdit /\ edit.new \in Policy \cup {NoPolicy}
           /\ edit'.new = edit.new /\ edit'.left = edit.left \ {<<rank, e>>}
           /\ edit'.acl = edit.acl /\ edit'.groups = edit.groups /\ edit'.ids = edit.ids
           /\ edit'.captured = edit.captured /\ edit'.grouped = edit.grouped
           /\ phase = "edit" /\ phase' = "edit" /\ <<rank, e>> \in edit.left
           /\ UNCHANGED <<active, directory, fileId>>
           /\ PlanInv' /\ RefreshInv' /\ DurableInv' /\ NearInv'
           /\ acl' \in [Entries -> (SUBSET Users) \cup {Open}]
                /\ groups' \in [Entries -> (SUBSET Users) \cup {NoGroup}] => TypeOK'
  <1>1. /\ edit' = [edit EXCEPT !.left = @ \ {<<rank, e>>}]
        /\ UNCHANGED <<policyFile, directoryFile, mirror, fileId, active, status,
                       directory, healthy, recovery, phase, faults>>
        /\ phase = "edit" /\ <<rank, e>> \in edit.left
    BY DEF Done, Ready, disk, memory
  <1>2. TypeOK /\ RefreshInv /\ DurableInv /\ NearInv /\ PlanInv /\ edit # NoEdit
    BY <1>1 DEF IInv, EditInv, TypeOK
  <1>3. edit \in Edit /\ edit.new \in Policy \cup {NoPolicy}
    BY <1>2, EditFields
  <1>4. /\ edit' \in Edit /\ edit'.new = edit.new
        /\ edit'.left = edit.left \ {<<rank, e>>}
        /\ edit'.acl = edit.acl /\ edit'.groups = edit.groups /\ edit'.ids = edit.ids
        /\ edit'.captured = edit.captured /\ edit'.grouped = edit.grouped
    BY <1>1, <1>3 DEF Edit
  <1>5. edit' # NoEdit
    BY <1>4, NoEditAssumption
  <1>6. PlanInv'
    <2>1. Version(active)' = Version(active)
      BY <1>1 DEF Version
    <2> QED BY <1>1, <1>2, <1>4, <2>1, SameEdit DEF PlanInv
  <1>7. RefreshInv' /\ DurableInv' /\ NearInv'
    BY <1>1, <1>2 DEF RefreshInv, DurableInv, NearInv
  <1>8. acl' \in [Entries -> (SUBSET Users) \cup {Open}]
            /\ groups' \in [Entries -> (SUBSET Users) \cup {NoGroup}] => TypeOK'
    BY <1>1, <1>2, <1>4, <1>5 DEF TypeOK
  <1> QED BY <1>1, <1>3, <1>4, <1>5, <1>6, <1>7, <1>8

LEMMA ReconcileGroupKeeps ==
    ASSUME IInv, NEW e \in Entries, ReconcileGroup(e) PROVE IInv'
  <1>1. Ready(1, e) /\ Done(1, e) /\ UNCHANGED acl
        /\ groups' = [groups EXCEPT ![e] = Target(e)]
    BY DEF ReconcileGroup
  <1>2. /\ edit' \in Edit /\ edit' # NoEdit /\ edit'.new = edit.new
        /\ edit'.left = edit.left \ {<<1, e>>}
        /\ edit'.acl = edit.acl /\ edit'.groups = edit.groups /\ edit'.ids = edit.ids
        /\ edit'.captured = edit.captured /\ edit'.grouped = edit.grouped
        /\ phase = "edit" /\ phase' = "edit" /\ <<1, e>> \in edit.left
        /\ UNCHANGED <<active, directory, fileId>>
        /\ PlanInv' /\ RefreshInv' /\ DurableInv' /\ NearInv'
        /\ acl' \in [Entries -> (SUBSET Users) \cup {Open}]
              /\ groups' \in [Entries -> (SUBSET Users) \cup {NoGroup}] => TypeOK'
    BY <1>1, DoneKeeps
  <1>3. TypeOK /\ PlanInv /\ DoneInv /\ KeptInv /\ edit # NoEdit
    BY <1>2 DEF IInv, EditInv, TypeOK
  <1>4. /\ e \in Grouped(edit.new) /\ e \in Changed(edit.new) /\ e \in edit.grouped
        /\ e \notin Removed(edit.new) /\ e \in In(edit.new)
    BY <1>2, <1>3, ChangedEntries DEF PlanInv
  <1>5. Target(e) \in SUBSET Users
    BY <1>3, <1>4, TargetType
  <1>6. /\ groups \in [Entries -> (SUBSET Users) \cup {NoGroup}]
        /\ groups' \in [Entries -> (SUBSET Users) \cup {NoGroup}]
        /\ groups'[e] = Target(e)
        /\ \A x \in Entries \ {e} : groups'[x] = groups[x]
    BY <1>1, <1>3, <1>5 DEF TypeOK
  <1>7. TypeOK'
    BY <1>1, <1>2, <1>3, <1>6 DEF TypeOK
  <1>8. /\ In(edit.new)' = In(edit.new) /\ Changed(edit.new)' = Changed(edit.new)
        /\ Removed(edit.new)' = Removed(edit.new) /\ \A x : Target(x)' = Target(x)
    BY <1>2, SameEdit
  <1>9. DoneInv'
    <2>1. ASSUME NEW x \in Changed(edit.new)
          PROVE  /\ <<2, x>> \notin edit'.left => acl'[x] = edit'.new.grants[x]
                 /\ <<1, x>> \notin edit'.left /\ Target(x) # {} => groups'[x] = Target(x)
      BY <1>1, <1>2, <1>3, <1>6, <2>1, ChangedEntries DEF DoneInv
    <2>2. ASSUME NEW x \in Removed(edit.new)
          PROVE  /\ <<3, x>> \notin edit'.left /\ fileId'[x] # 0 => acl'[x] = Open
                 /\ <<4, x>> \notin edit'.left => groups'[x] = NoGroup
      BY <1>1, <1>2, <1>3, <1>4, <1>6, <2>2, ChangedEntries DEF DoneInv
    <2> QED BY <1>8, <2>1, <2>2 DEF DoneInv
  <1>10. KeptInv'
    BY <1>1, <1>2, <1>3, <1>4, <1>6, <1>8 DEF KeptInv
  <1> QED BY <1>2, <1>7, <1>9, <1>10 DEF IInv, EditInv

LEMMA ApplyAclKeeps ==
    ASSUME IInv, NEW e \in Entries, ApplyAcl(e) PROVE IInv'
  <1>1. Ready(2, e) /\ Done(2, e) /\ UNCHANGED groups
        /\ acl' = [acl EXCEPT ![e] = edit.new.grants[e]]
    BY DEF ApplyAcl
  <1>2. /\ edit' \in Edit /\ edit' # NoEdit /\ edit'.new = edit.new
        /\ edit'.left = edit.left \ {<<2, e>>}
        /\ edit'.acl = edit.acl /\ edit'.groups = edit.groups /\ edit'.ids = edit.ids
        /\ edit'.captured = edit.captured /\ edit'.grouped = edit.grouped
        /\ phase = "edit" /\ phase' = "edit" /\ <<2, e>> \in edit.left
        /\ UNCHANGED <<active, directory, fileId>>
        /\ PlanInv' /\ RefreshInv' /\ DurableInv' /\ NearInv'
        /\ acl' \in [Entries -> (SUBSET Users) \cup {Open}]
              /\ groups' \in [Entries -> (SUBSET Users) \cup {NoGroup}] => TypeOK'
    BY <1>1, DoneKeeps
  <1>3. TypeOK /\ PlanInv /\ DoneInv /\ KeptInv /\ edit # NoEdit
    BY <1>2 DEF IInv, EditInv, TypeOK
  <1>4. /\ e \in Changed(edit.new) /\ e \in edit.captured
        /\ e \notin Removed(edit.new) /\ e \in In(edit.new)
    BY <1>2, <1>3, ChangedEntries DEF PlanInv
  <1>5. edit.new.grants[e] \in SUBSET Users
    BY <1>3, <1>4, TargetType
  <1>6. /\ acl' \in [Entries -> (SUBSET Users) \cup {Open}]
        /\ acl'[e] = edit.new.grants[e]
        /\ \A x \in Entries \ {e} : acl'[x] = acl[x]
    BY <1>1, <1>3, <1>5 DEF TypeOK
  <1>7. TypeOK'
    BY <1>1, <1>2, <1>3, <1>6 DEF TypeOK
  <1>8. /\ In(edit.new)' = In(edit.new) /\ Changed(edit.new)' = Changed(edit.new)
        /\ Removed(edit.new)' = Removed(edit.new) /\ \A x : Target(x)' = Target(x)
    BY <1>2, SameEdit
  <1>9. DoneInv'
    <2>1. ASSUME NEW x \in Changed(edit.new)
          PROVE  /\ <<2, x>> \notin edit'.left => acl'[x] = edit'.new.grants[x]
                 /\ <<1, x>> \notin edit'.left /\ Target(x) # {} => groups'[x] = Target(x)
      BY <1>1, <1>2, <1>3, <1>6, <2>1, ChangedEntries DEF DoneInv
    <2>2. ASSUME NEW x \in Removed(edit.new)
          PROVE  /\ <<3, x>> \notin edit'.left /\ fileId'[x] # 0 => acl'[x] = Open
                 /\ <<4, x>> \notin edit'.left => groups'[x] = NoGroup
      BY <1>1, <1>2, <1>3, <1>4, <1>6, <2>2, ChangedEntries DEF DoneInv
    <2> QED BY <1>8, <2>1, <2>2 DEF DoneInv
  <1>10. KeptInv'
    BY <1>1, <1>2, <1>3, <1>4, <1>6, <1>8, InPolicy DEF KeptInv
  <1> QED BY <1>2, <1>7, <1>9, <1>10 DEF IInv, EditInv

LEMMA RemovalKeeps ==
    ASSUME IInv, NEW e \in Entries, SkipMissing(e) \/ DeleteGroup(e) PROVE IInv'
  <1>1. PICK rank \in {3, 4} :
            /\ Ready(rank, e) /\ Done(rank, e) /\ UNCHANGED acl
            /\ \/ rank = 3 /\ fileId[e] = 0 /\ UNCHANGED groups
               \/ rank = 4 /\ groups' = [groups EXCEPT ![e] = NoGroup]
    BY DEF SkipMissing, DeleteGroup
  <1>2. /\ edit' \in Edit /\ edit' # NoEdit /\ edit'.new = edit.new
        /\ edit'.left = edit.left \ {<<rank, e>>}
        /\ edit'.acl = edit.acl /\ edit'.groups = edit.groups /\ edit'.ids = edit.ids
        /\ edit'.captured = edit.captured /\ edit'.grouped = edit.grouped
        /\ phase = "edit" /\ phase' = "edit" /\ <<rank, e>> \in edit.left
        /\ UNCHANGED <<active, directory, fileId>>
        /\ PlanInv' /\ RefreshInv' /\ DurableInv' /\ NearInv'
        /\ acl' \in [Entries -> (SUBSET Users) \cup {Open}]
              /\ groups' \in [Entries -> (SUBSET Users) \cup {NoGroup}] => TypeOK'
    BY <1>1, DoneKeeps
  <1>3. TypeOK /\ PlanInv /\ DoneInv /\ KeptInv /\ edit # NoEdit
    BY <1>2 DEF IInv, EditInv, TypeOK
  <1>4. /\ e \in Removed(edit.new) /\ e \in edit.grouped /\ e \notin Changed(edit.new)
    BY <1>1, <1>2, <1>3, ChangedEntries DEF PlanInv
  <1>5. /\ groups' \in [Entries -> (SUBSET Users) \cup {NoGroup}]
        /\ groups'[e] = groups[e] \/ (rank = 4 /\ groups'[e] = NoGroup)
        /\ rank = 4 => groups'[e] = NoGroup
        /\ \A x \in Entries \ {e} : groups'[x] = groups[x]
    <2>1. groups \in [Entries -> (SUBSET Users) \cup {NoGroup}]
      BY <1>3 DEF TypeOK
    <2>2. CASE groups' = groups /\ rank = 3
      BY <2>1, <2>2
    <2>3. CASE groups' = [groups EXCEPT ![e] = NoGroup] /\ rank = 4
      BY <2>1, <2>3
    <2> QED BY <1>1, <2>2, <2>3
  <1>6. TypeOK'
    BY <1>1, <1>2, <1>3, <1>5 DEF TypeOK
  <1>7. /\ In(edit.new)' = In(edit.new) /\ Changed(edit.new)' = Changed(edit.new)
        /\ Removed(edit.new)' = Removed(edit.new) /\ \A x : Target(x)' = Target(x)
    BY <1>2, SameEdit
  <1>8. DoneInv'
    <2>1. ASSUME NEW x \in Changed(edit.new)
          PROVE  /\ <<2, x>> \notin edit'.left => acl'[x] = edit'.new.grants[x]
                 /\ <<1, x>> \notin edit'.left /\ Target(x) # {} => groups'[x] = Target(x)
      BY <1>1, <1>2, <1>3, <1>4, <1>5, <2>1, ChangedEntries DEF DoneInv
    <2>2. ASSUME NEW x \in Removed(edit.new)
          PROVE  /\ <<3, x>> \notin edit'.left /\ fileId'[x] # 0 => acl'[x] = Open
                 /\ <<4, x>> \notin edit'.left => groups'[x] = NoGroup
      BY <1>1, <1>2, <1>3, <1>4, <1>5, <2>2, ChangedEntries DEF DoneInv
    <2> QED BY <1>7, <2>1, <2>2 DEF DoneInv
  <1>9. KeptInv'
    BY <1>1, <1>2, <1>3, <1>4, <1>5, <1>7 DEF KeptInv
  <1> QED BY <1>2, <1>6, <1>8, <1>9 DEF IInv, EditInv

\* A container that is opened has a snapshot from then on.
LEMMA DecommissionKeeps ==
    ASSUME IInv, NEW e \in Entries, Decommission(e) PROVE IInv'
  <1>1. /\ phase = "edit" /\ <<3, e>> \in edit.left
        /\ acl' = [acl EXCEPT ![e] = Open]
        /\ edit' = [edit EXCEPT !.left = @ \ {<<3, e>>}, !.captured = @ \cup {e}]
        /\ UNCHANGED <<policyFile, directoryFile, mirror, groups, fileId, active, status,
                       directory, healthy, recovery, phase, faults>>
    BY DEF Decommission, Ready, disk, memory
  <1>2. /\ TypeOK /\ RefreshInv /\ DurableInv /\ NearInv /\ PlanInv /\ DoneInv /\ KeptInv
        /\ edit # NoEdit
    BY <1>1 DEF IInv, EditInv, TypeOK
  <1>3. edit \in Edit
    BY <1>2, EditFields
  <1>4. /\ edit' \in Edit /\ edit'.new = edit.new
        /\ edit'.left = edit.left \ {<<3, e>>}
        /\ edit'.acl = edit.acl /\ edit'.groups = edit.groups /\ edit'.ids = edit.ids
        /\ edit'.captured = edit.captured \cup {e} /\ edit'.grouped = edit.grouped
    BY <1>1, <1>3 DEF Edit
  <1>5. edit' # NoEdit
    BY <1>4, NoEditAssumption
  <1>6. e \in Removed(edit.new) /\ e \notin Changed(edit.new) /\ e \notin In(edit.new)
    BY <1>1, <1>2, ChangedEntries DEF PlanInv
  <1>7. /\ acl' \in [Entries -> (SUBSET Users) \cup {Open}] /\ acl'[e] = Open
        /\ \A x \in Entries \ {e} : acl'[x] = acl[x]
    BY <1>1, <1>2 DEF TypeOK
  <1>8. TypeOK'
    BY <1>1, <1>2, <1>4, <1>5, <1>7 DEF TypeOK
  <1>9. /\ In(edit.new)' = In(edit.new) /\ Changed(edit.new)' = Changed(edit.new)
        /\ Removed(edit.new)' = Removed(edit.new) /\ Grouped(edit.new)' = Grouped(edit.new)
        /\ Version(active)' = Version(active) /\ \A x : Target(x)' = Target(x)
    BY <1>1, <1>4, SameEdit DEF Version
  <1>10. PlanInv'
    BY <1>1, <1>2, <1>4, <1>6, <1>9 DEF PlanInv
  <1>11. DoneInv'
    <2>1. ASSUME NEW x \in Changed(edit.new)
          PROVE  /\ <<2, x>> \notin edit'.left => acl'[x] = edit'.new.grants[x]
                 /\ <<1, x>> \notin edit'.left /\ Target(x) # {} => groups'[x] = Target(x)
      BY <1>1, <1>2, <1>4, <1>6, <1>7, <2>1, ChangedEntries DEF DoneInv
    <2>2. ASSUME NEW x \in Removed(edit.new)
          PROVE  /\ <<3, x>> \notin edit'.left /\ fileId'[x] # 0 => acl'[x] = Open
                 /\ <<4, x>> \notin edit'.left => groups'[x] = NoGroup
      BY <1>1, <1>2, <1>4, <1>7, <2>2, ChangedEntries DEF DoneInv
    <2> QED BY <1>9, <2>1, <2>2 DEF DoneInv
  <1>12. KeptInv'
    BY <1>1, <1>2, <1>4, <1>6, <1>7, <1>9, InPolicy DEF KeptInv
  <1> QED BY <1>1, <1>2, <1>8, <1>10, <1>11, <1>12
          DEF IInv, EditInv, RefreshInv, DurableInv, NearInv

-----------------------------------------------------------------------------
(* Failures and the end of an edit.                                        *)

\* A write that reports failure disturbs what the edit changes, and nothing
\* else; without a snapshot it can only open a container.
LEMMA FailingKeeps ==
    ASSUME IInv, NEW rank \in 1 .. 4, NEW e \in Entries, Failing(rank, e),
           phase' = "rollback", faults' \in 0 .. MaxFaults,
           UNCHANGED <<disk, fileId, memory, edit>>
    PROVE  IInv'
  <1>1. /\ phase = "edit" /\ <<rank, e>> \in edit.left
        /\ UNCHANGED <<policyFile, directoryFile, mirror, fileId, active, status,
                       directory, healthy, recovery, edit>>
    BY DEF Failing, Ready, disk, memory
  <1>2. /\ TypeOK /\ NearInv /\ PlanInv /\ KeptInv /\ edit # NoEdit
        /\ acl \in [Entries -> (SUBSET Users) \cup {Open}]
        /\ groups \in [Entries -> (SUBSET Users) \cup {NoGroup}]
    BY <1>1 DEF IInv, EditInv, TypeOK
  <1>3. /\ rank = 1 => e \in Grouped(edit.new)
        /\ rank = 2 => e \in Changed(edit.new)
        /\ rank \in {3, 4} => e \in Removed(edit.new)
    BY <1>1, <1>2 DEF PlanInv
  <1>4. rank \in {1, 2} => e \in In(edit.new)
    BY <1>3, ChangedEntries
  <1>5. CASE rank = 1
    <2>1. Target(e) \in SUBSET Users
      BY <1>2, <1>4, <1>5, TargetType
    <2>2. groups[e] \in (SUBSET Users) \cup {NoGroup}
      BY <1>2
    <2>3. PICK left \in (SUBSET Users) \cup {NoGroup} : groups' = [groups EXCEPT ![e] = left]
      BY <1>5, <2>1, <2>2 DEF Failing, Members
    <2>4. /\ acl' = acl /\ e \in edit.grouped
          /\ groups' \in [Entries -> (SUBSET Users) \cup {NoGroup}]
          /\ \A x \in Entries \ {e} : groups'[x] = groups[x]
      BY <1>2, <1>3, <1>5, <2>3 DEF Failing, PlanInv
    <2>5. TypeOK'
      BY <1>1, <1>2, <2>4 DEF TypeOK
    <2>6. KeptInv'
      BY <1>1, <1>2, <2>4, SameEdit DEF KeptInv
    <2> QED BY <1>1, <1>2, <2>5, <2>6, SameEdit
            DEF IInv, EditInv, RefreshInv, DurableInv, NearInv, PlanInv, DoneInv, Version
  <1>6. CASE rank = 2
    <2>1. edit.new.grants[e] \in SUBSET Users
      BY <1>2, <1>4, <1>6, TargetType
    <2>2. acl' \in {acl, [acl EXCEPT ![e] = edit.new.grants[e]]} /\ groups' = groups
      BY <1>6 DEF Failing
    <2>3. /\ e \in edit.captured /\ e \in Changed(edit.new)
          /\ acl' \in [Entries -> (SUBSET Users) \cup {Open}]
          /\ \A x \in Entries \ {e} : acl'[x] = acl[x]
      BY <1>2, <1>3, <1>6, <2>1, <2>2 DEF PlanInv
    <2>4. TypeOK'
      BY <1>1, <1>2, <2>2, <2>3 DEF TypeOK
    <2>5. KeptInv'
      BY <1>1, <1>2, <2>2, <2>3, SameEdit, InPolicy DEF KeptInv
    <2> QED BY <1>1, <1>2, <2>4, <2>5, SameEdit
            DEF IInv, EditInv, RefreshInv, DurableInv, NearInv, PlanInv, DoneInv, Version
  <1>7. CASE rank = 3
    <2>1. acl' \in {acl, [acl EXCEPT ![e] = Open]} /\ groups' = groups
      BY <1>7 DEF Failing
    <2>2. e \in Removed(edit.new)
      BY <1>3, <1>7
    <2>3. /\ acl' \in [Entries -> (SUBSET Users) \cup {Open}]
          /\ acl'[e] \in {acl[e], Open}
          /\ \A x \in Entries \ {e} : acl'[x] = acl[x]
      BY <1>2, <2>1
    <2>4. TypeOK'
      BY <1>1, <1>2, <2>1, <2>3 DEF TypeOK
    <2>5. KeptInv'
      BY <1>1, <1>2, <2>1, <2>2, <2>3, SameEdit, InPolicy DEF KeptInv
    <2> QED BY <1>1, <1>2, <2>4, <2>5, SameEdit
            DEF IInv, EditInv, RefreshInv, DurableInv, NearInv, PlanInv, DoneInv, Version
  <1>8. CASE rank = 4
    <2>1. groups' \in {groups, [groups EXCEPT ![e] = NoGroup]} /\ acl' = acl
      BY <1>8 DEF Failing
    <2>2. /\ groups' \in [Entries -> (SUBSET Users) \cup {NoGroup}]
          /\ \A x \in Entries \ {e} : groups'[x] = groups[x]
          /\ e \in edit.grouped
      BY <1>2, <1>3, <1>8, <2>1 DEF PlanInv
    <2>3. TypeOK'
      BY <1>1, <1>2, <2>1, <2>2 DEF TypeOK
    <2>4. KeptInv'
      BY <1>1, <1>2, <2>1, <2>2, SameEdit DEF KeptInv
    <2> QED BY <1>1, <1>2, <2>3, <2>4, SameEdit
            DEF IInv, EditInv, RefreshInv, DurableInv, NearInv, PlanInv, DoneInv, Version
  <1> QED BY <1>5, <1>6, <1>7, <1>8

LEMMA FaultType == ASSUME TypeOK, Fault PROVE faults' \in 0 .. MaxFaults /\ faults' # faults
  BY BoundsAssumption DEF TypeOK, Fault

\* The file replacement in doubt leaves the old revision or the next one.
LEMMA CommitFailsKeeps ==
    ASSUME IInv, CommitFails PROVE IInv'
  <1>1. /\ phase = "edit" /\ phase' = "rollback" /\ policyFile' \in {policyFile, edit.new}
        /\ UNCHANGED <<directoryFile, mirror, acl, groups, fileId, active, status,
                       directory, healthy, recovery, edit>>
    BY DEF CommitFails, memory
  <1>2. TypeOK /\ NearInv /\ PlanInv /\ KeptInv /\ edit # NoEdit
    BY <1>1 DEF IInv, EditInv, TypeOK
  <1>3. edit.new \in Policy \cup {NoPolicy}
    BY <1>2, EditFields
  <1>4. faults' \in 0 .. MaxFaults
    BY <1>2, FaultType DEF CommitFails
  <1>5. TypeOK'
    BY <1>1, <1>2, <1>3, <1>4 DEF TypeOK
  <1>6. NearInv'
    BY <1>1, <1>2 DEF NearInv, PlanInv, Version
  <1>7. PlanInv' /\ KeptInv'
    BY <1>1, <1>2, SameEdit DEF PlanInv, KeptInv, Version
  <1> QED BY <1>1, <1>5, <1>6, <1>7 DEF IInv, EditInv, RefreshInv, DurableInv, DoneInv

LEMMA RefusedKeeps ==
    ASSUME IInv, NEW e \in Entries, DecommissionRefused(e) PROVE IInv'
  <1>1. /\ phase = "edit" /\ phase' = "rollback"
        /\ UNCHANGED <<policyFile, directoryFile, mirror, acl, groups, fileId, active,
                       status, directory, healthy, recovery, edit, faults>>
    BY DEF DecommissionRefused, Ready, disk, memory
  <1>2. TypeOK /\ NearInv /\ PlanInv /\ KeptInv /\ edit # NoEdit
    BY <1>1 DEF IInv, EditInv, TypeOK
  <1>3. TypeOK' /\ NearInv'
    BY <1>1, <1>2 DEF TypeOK, NearInv
  <1>4. PlanInv' /\ KeptInv'
    BY <1>1, <1>2, SameEdit DEF PlanInv, KeptInv, Version
  <1> QED BY <1>1, <1>3, <1>4 DEF IInv, EditInv, RefreshInv, DurableInv, DoneInv

\* Without an edit there is nothing to say about one.
LEMMA NoEditInv ==
    ASSUME edit' = NoEdit, phase' \in {"idle", "refresh"} PROVE EditInv'
  BY DEF EditInv, PlanInv, DoneInv, KeptInv

LEMMA CommitKeeps ==
    ASSUME IInv, Commit PROVE IInv'
  <1>1. /\ phase = "edit" /\ policyFile' = edit.new /\ active' = edit.new
        /\ status' \in {"never", "current"} /\ recovery' = NoEdit
        /\ phase' = "idle" /\ edit' = NoEdit
        /\ UNCHANGED <<directoryFile, mirror, acl, groups, fileId, directory, healthy,
                       faults>>
    BY DEF Commit, Finish
  <1>2. TypeOK /\ edit # NoEdit
    BY <1>1 DEF IInv, TypeOK
  <1>3. edit.new \in Policy \cup {NoPolicy}
    BY <1>2, EditFields
  <1>4. TypeOK'
    BY <1>1, <1>2, <1>3 DEF TypeOK
  <1> QED BY <1>1, <1>4, NoEditInv DEF IInv, RefreshInv, DurableInv, NearInv

LEMMA RestoredFacts ==
    ASSUME NEW S, NEW old \in [Entries -> S], NEW now \in [Entries -> S], NEW which
    PROVE  /\ Restored(old, now, which) \in [Entries -> S]
           /\ \A e \in Entries : e \in which => Restored(old, now, which)[e] = old[e]
           /\ \A e \in Entries : e \notin which => Restored(old, now, which)[e] = now[e]
  BY DEF Restored

\* What a rollback restores, and what it takes to be no longer degraded.
LEMMA RollbackFacts ==
    ASSUME TypeOK, Rollback
    PROVE  \E files \in {edit.captured, {}} :
            /\ acl' = Restored(edit.acl, acl, files)
            /\ groups' = Restored(edit.groups, groups, edit.grouped)
            /\ status' \in {Healthy, "degraded"}
            /\ status' # "degraded" =>
                files = edit.captured /\ Verified(edit, acl', groups')
            /\ recovery' \in {edit, NoEdit}
  <1> DEFINE matches == \A e \in edit.captured : fileId[e] = edit.ids[e]
             files == IF matches THEN edit.captured ELSE {}
             acls == Restored(edit.acl, acl, files)
             grps == Restored(edit.groups, groups, edit.grouped)
             pending == matches /\ edit.checkpoint
             verified == pending /\ Verified(edit, acls, grps)
  <1>1. /\ acl' = acls /\ groups' = grps
        /\ status' = IF verified THEN Healthy ELSE "degraded"
        /\ recovery' = IF pending /\ ~verified THEN edit ELSE NoEdit
    BY DEF Rollback
  <1>2. files \in {edit.captured, {}} /\ (matches => files = edit.captured)
    OBVIOUS
  <1>3. pending => matches
    OBVIOUS
  <1>4. verified => pending /\ Verified(edit, acls, grps)
    OBVIOUS
  <1> HIDE DEF matches, files, acls, grps, pending, verified
  <1>5. status' # "degraded" => files = edit.captured /\ Verified(edit, acl', groups')
    BY <1>1, <1>2, <1>3, <1>4
  <1> QED BY <1>1, <1>2, <1>5 DEF acls, grps

LEMMA EndType ==
    ASSUME TypeOK, edit # NoEdit, phase' = "idle", edit' = NoEdit,
           UNCHANGED <<disk, fileId, active, directory, healthy>>,
           NEW files, NEW others, acl' = Restored(edit.acl, acl, files),
           groups' = Restored(edit.groups, groups, others),
           status' \in {"never", "current", "degraded"}, recovery' \in {edit, NoEdit},
           faults' \in 0 .. MaxFaults
    PROVE  TypeOK'
  <1>1. /\ acl' \in [Entries -> (SUBSET Users) \cup {Open}]
        /\ groups' \in [Entries -> (SUBSET Users) \cup {NoGroup}]
    BY EditFields, RestoredFacts DEF TypeOK
  <1>2. recovery' \in Edit \cup {NoEdit}
    BY EditFields
  <1> QED BY <1>1, <1>2 DEF TypeOK, disk

LEMMA RollbackKeeps ==
    ASSUME IInv, Rollback PROVE IInv'
  <1>1. /\ phase = "rollback" /\ phase' = "idle" /\ edit' = NoEdit
        /\ UNCHANGED <<disk, fileId, active, directory, healthy, faults>>
    BY DEF Rollback, Finish
  <1>2. TypeOK /\ NearInv /\ edit # NoEdit
    BY <1>1 DEF IInv, TypeOK
  <1>3. PICK files \in {edit.captured, {}} :
            /\ acl' = Restored(edit.acl, acl, files)
            /\ groups' = Restored(edit.groups, groups, edit.grouped)
            /\ status' \in {Healthy, "degraded"}
            /\ status' # "degraded" =>
                files = edit.captured /\ Verified(edit, acl', groups')
            /\ recovery' \in {edit, NoEdit}
    BY <1>2, RollbackFacts
  <1>4. status' \in {"never", "current", "degraded"}
    BY <1>3 DEF Healthy
  <1>5. faults' \in 0 .. MaxFaults
    BY <1>1, <1>2 DEF TypeOK
  <1>6. TypeOK'
    BY <1>1, <1>2, <1>3, <1>4, <1>5, EndType
  <1>7. status' = "current" => policyFile = active
    BY <1>3 DEF Verified, Checkpoint
  <1> QED BY <1>1, <1>2, <1>6, <1>7, NoEditInv DEF IInv, RefreshInv, DurableInv, NearInv, disk

LEMMA RollbackFailsKeeps ==
    ASSUME IInv, RollbackFails PROVE IInv'
  <1>1. /\ phase = "rollback" /\ phase' = "idle" /\ edit' = NoEdit /\ status' = "degraded"
        /\ UNCHANGED <<disk, fileId, active, directory, healthy>>
    BY DEF RollbackFails, Finish
  <1>2. TypeOK /\ NearInv /\ edit # NoEdit
    BY <1>1 DEF IInv, TypeOK
  <1>3. \E some, others :
            /\ acl' = Restored(edit.acl, acl, some)
            /\ groups' = Restored(edit.groups, groups, others)
            /\ recovery' \in {edit, NoEdit}
    BY DEF RollbackFails
  <1>4. faults' \in 0 .. MaxFaults
    BY <1>2, FaultType DEF RollbackFails
  <1>5. TypeOK'
    BY <1>1, <1>2, <1>3, <1>4, EndType
  <1> QED BY <1>1, <1>2, <1>5, NoEditInv DEF IInv, RefreshInv, DurableInv, NearInv, disk

-----------------------------------------------------------------------------
(* The other operations.                                                   *)

LEMMA ReadKeeps ==
    ASSUME IInv, Read PROVE IInv'
  <1>1. /\ phase = "idle" /\ status' = Healthy /\ recovery' = NoEdit /\ policyFile = active
        /\ UNCHANGED <<policyFile, directoryFile, mirror, acl, groups, fileId, active,
                       directory, healthy, phase, edit, faults>>
    BY DEF Read, disk, Verified, Checkpoint
  <1>2. TypeOK /\ NearInv /\ edit = NoEdit
    BY <1>1 DEF IInv, TypeOK
  <1>3. status' \in {"never", "current"}
    BY <1>1 DEF Healthy
  <1>4. TypeOK'
    BY <1>1, <1>2, <1>3 DEF TypeOK
  <1> QED BY <1>1, <1>2, <1>4, NoEditInv DEF IInv, RefreshInv, DurableInv, NearInv

LEMMA ForgetKeeps ==
    ASSUME IInv, NEW e \in Entries, Forget(e) \/ ForgetFails(e)
    PROVE  /\ IInv'
           /\ active # NoPolicy /\ active' # NoPolicy /\ active' # active =>
                active'.version = active.version + 1
  <1> DEFINE new == Nonempty(Without(active, e))
  <1>1. /\ phase = "idle" /\ status = "degraded" /\ e \in In(active)
        /\ active.version < MaxVersion /\ policyFile' = new
        /\ UNCHANGED <<directoryFile, mirror, acl, groups, fileId, directory, healthy,
                       phase, edit>>
        /\ \/ active' = new /\ status' \in {"never", "degraded"} /\ recovery' = NoEdit
                /\ faults' = faults
           \/ UNCHANGED <<active, status, recovery>> /\ Fault
    BY DEF Forget, ForgetFails, MayForget, memory
  <1>2. TypeOK /\ edit = NoEdit
    BY <1>1 DEF IInv, TypeOK
  <1>3. active \in Policy
    BY <1>1, <1>2, InPolicy DEF TypeOK
  <1>4. /\ new \in Policy \cup {NoPolicy}
        /\ new # NoPolicy => new.version = active.version + 1
    BY <1>1, <1>3, ForgetType
  <1> HIDE DEF new
  <1>5. faults' \in 0 .. MaxFaults
    BY <1>1, <1>2, FaultType DEF TypeOK
  <1>6. TypeOK'
    BY <1>1, <1>2, <1>4, <1>5 DEF TypeOK
  <1> QED BY <1>1, <1>2, <1>4, <1>6, NoEditInv DEF IInv, RefreshInv, DurableInv, NearInv

LEMMA SaveDirectoryKeeps ==
    ASSUME IInv, NEW members \in Memberships,
           SaveDirectory(members) \/ SaveDirectoryFails(members)
    PROVE  IInv'
  <1>1. members \in SUBSET Users
    BY GrantsAssumption
  <1>2. /\ phase = "idle"
        /\ mirror' \in {mirror, members} /\ directoryFile' \in {directoryFile, members}
        /\ directory' \in {directory, members}
        /\ UNCHANGED <<policyFile, acl, groups, fileId, active, status, healthy, recovery,
                       edit>>
        /\ UNCHANGED faults \/ Fault
    BY DEF SaveDirectory, SaveDirectoryFails, memory
  <1>3. /\ phase' \in {"idle", "refresh"}
        /\ phase' = "refresh" => active # NoPolicy /\ Version(active) < MaxVersion
    BY <1>2 DEF SaveDirectory, SaveDirectoryFails
  <1>4. TypeOK /\ NearInv /\ DurableInv /\ edit = NoEdit
    BY <1>2 DEF IInv, TypeOK
  <1>5. faults' \in 0 .. MaxFaults
    BY <1>2, <1>4, FaultType DEF TypeOK
  <1>6. TypeOK'
    BY <1>1, <1>2, <1>3, <1>4, <1>5 DEF TypeOK
  <1>7. RefreshInv'
    BY <1>2, <1>3 DEF RefreshInv, Version
  <1> QED BY <1>2, <1>3, <1>4, <1>6, <1>7, NoEditInv DEF IInv, DurableInv, NearInv

LEMMA RefreshRefusedKeeps ==
    ASSUME IInv, RefreshRefused PROVE IInv'
  <1>1. /\ phase = "refresh" /\ phase' = "idle" /\ (UNCHANGED faults \/ Fault)
        /\ UNCHANGED <<policyFile, directoryFile, mirror, acl, groups, fileId, active,
                       status, directory, healthy, recovery, edit>>
    BY DEF RefreshRefused, disk, memory
  <1>2. TypeOK /\ NearInv /\ DurableInv /\ edit = NoEdit
    BY <1>1 DEF IInv, TypeOK
  <1>3. faults' \in 0 .. MaxFaults
    BY <1>1, <1>2, FaultType DEF TypeOK
  <1>4. TypeOK'
    BY <1>1, <1>2, <1>3 DEF TypeOK
  <1> QED BY <1>1, <1>2, <1>4, NoEditInv DEF IInv, RefreshInv, DurableInv, NearInv

\* After a restart the policy in memory is the durable one, or none was read.
LEMMA RestartKeeps ==
    ASSUME IInv, NEW policyRead \in BOOLEAN, NEW directoryRead \in BOOLEAN,
           Restart(policyRead, directoryRead)
    PROVE  IInv' /\ active' \in {policyFile, NoPolicy}
  <1>1. /\ healthy' = directoryRead /\ directory' \in {directoryFile, {}}
        /\ active' \in {policyFile, NoPolicy}
        /\ status' \in {"never", "current", "degraded"}
        /\ status' = "current" => active' # NoPolicy
        /\ recovery' = NoEdit /\ phase' = "idle" /\ edit' = NoEdit
        /\ UNCHANGED <<policyFile, directoryFile, mirror, acl, groups, fileId>>
    BY DEF Restart, Finish, disk
  <1>2. TypeOK
    BY DEF IInv
  <1>3. faults' \in 0 .. MaxFaults
    BY <1>2, FaultType DEF Restart
  <1>4. TypeOK'
    BY <1>1, <1>2, <1>3 DEF TypeOK
  <1> QED BY <1>1, <1>4, NoEditInv DEF IInv, RefreshInv, DurableInv, NearInv

LEMMA ReplaceFileKeeps ==
    ASSUME IInv, NEW e \in Entries, ReplaceFile(e) PROVE IInv'
  <1>1. /\ fileId[e] # 0 /\ acl' = [acl EXCEPT ![e] = Open]
        /\ fileId' = [fileId EXCEPT ![e] = IF @ = MaxFile THEN 0 ELSE @ + 1]
        /\ edit # NoEdit => e \notin Changed(edit.new)
        /\ UNCHANGED <<policyFile, directoryFile, mirror, groups, active, status,
                       directory, healthy, recovery, phase, edit>>
    BY DEF ReplaceFile, disk, memory
  <1>2. /\ TypeOK /\ RefreshInv /\ NearInv /\ DurableInv /\ PlanInv /\ DoneInv /\ KeptInv
        /\ fileId \in [Entries -> 0 .. MaxFile] /\ MaxFile \in Nat
    BY BoundsAssumption DEF IInv, EditInv, TypeOK, Ids
  <1>3. /\ acl' \in [Entries -> (SUBSET Users) \cup {Open}] /\ acl'[e] = Open
        /\ \A x \in Entries \ {e} : acl'[x] = acl[x]
    BY <1>1, <1>2 DEF TypeOK
  <1>4. /\ fileId' \in [Entries -> 0 .. MaxFile]
        /\ fileId'[e] = 0 \/ fileId'[e] = fileId[e] + 1
        /\ \A x \in Entries \ {e} : fileId'[x] = fileId[x]
    <2> DEFINE next == IF fileId[e] = MaxFile THEN 0 ELSE fileId[e] + 1
    <2>1. next \in 0 .. MaxFile /\ (next = 0 \/ next = fileId[e] + 1)
      BY <1>2
    <2>2. fileId' = [fileId EXCEPT ![e] = next]
      BY <1>1
    <2> HIDE DEF next
    <2> QED BY <1>2, <2>1, <2>2
  <1>5. faults' \in 0 .. MaxFaults
    BY <1>2, FaultType DEF ReplaceFile
  <1>6. TypeOK'
    BY <1>1, <1>2, <1>3, <1>4, <1>5 DEF TypeOK, Ids
  <1>7. /\ In(edit.new)' = In(edit.new) /\ Changed(edit.new)' = Changed(edit.new)
        /\ Removed(edit.new)' = Removed(edit.new) /\ Grouped(edit.new)' = Grouped(edit.new)
        /\ Version(active)' = Version(active) /\ \A x : Target(x)' = Target(x)
    BY <1>1, SameEdit DEF Version
  <1>8. PlanInv'
    BY <1>1, <1>2, <1>7 DEF PlanInv
  <1>9. DoneInv'
    <2> SUFFICES ASSUME phase = "edit" PROVE DoneInv'
      BY <1>1 DEF DoneInv
    <2>1. edit # NoEdit
      BY <1>2 DEF TypeOK
    <2>2. ASSUME NEW x \in Changed(edit.new)
          PROVE  /\ <<2, x>> \notin edit.left => acl'[x] = edit.new.grants[x]
                 /\ <<1, x>> \notin edit.left /\ Target(x) # {} => groups'[x] = Target(x)
      BY <1>1, <1>2, <1>3, <2>1, <2>2, ChangedEntries DEF DoneInv
    <2>3. ASSUME NEW x \in Removed(edit.new)
          PROVE  /\ <<3, x>> \notin edit.left /\ fileId'[x] # 0 => acl'[x] = Open
                 /\ <<4, x>> \notin edit.left => groups'[x] = NoGroup
      BY <1>1, <1>2, <1>3, <1>4, <2>1, <2>3, ChangedEntries DEF DoneInv
    <2> QED BY <1>1, <1>7, <2>2, <2>3 DEF DoneInv
  <1>10. KeptInv'
    <2> SUFFICES ASSUME edit # NoEdit PROVE KeptInv'
      BY <1>1 DEF KeptInv
    <2>1. \A x \in Entries \ edit.captured : acl'[x] \in {edit.acl[x], Open}
      BY <1>2, <1>3 DEF KeptInv
    <2>2. ASSUME NEW x \in Entries \ (Changed(edit.new) \cup Removed(edit.new))
          PROVE  \/ fileId'[x] = 0
                 \/ fileId'[x] > edit.ids[x]
                 \/ fileId'[x] = edit.ids[x] /\ acl'[x] = edit.acl[x]
      <3>2. edit.ids[x] \in Nat /\ fileId[x] \in Nat
        BY <1>2, EditFields DEF Ids
      <3>3. CASE x # e
        BY <1>2, <1>3, <1>4, <3>3 DEF KeptInv
      <3>4. CASE x = e
        <4>1. fileId[e] > edit.ids[e] \/ fileId[e] = edit.ids[e]
          BY <1>1, <1>2, <2>2, <3>4 DEF KeptInv
        <4>2. fileId'[e] = 0 \/ fileId'[e] > edit.ids[e]
          BY <1>4, <3>2, <3>4, <4>1
        <4> QED BY <3>4, <4>2
      <3> QED BY <3>3, <3>4
    <2> QED BY <1>1, <1>2, <1>7, <2>1, <2>2 DEF KeptInv
  <1> QED BY <1>1, <1>2, <1>6, <1>8, <1>9, <1>10
          DEF IInv, EditInv, RefreshInv, DurableInv, NearInv

-----------------------------------------------------------------------------
(* Every step.                                                             *)

LEMMA InitInvariant == Init => IInv
  <1> SUFFICES ASSUME Init PROVE IInv
    OBVIOUS
  <1>1. directoryFile \in SUBSET Users
    BY GrantsAssumption DEF Init
  <1>2. 1 \in Ids /\ 0 \in 0 .. MaxFaults /\ TRUE \in BOOLEAN
    BY BoundsAssumption DEF Ids
  <1>3. TypeOK
    BY <1>1, <1>2 DEF Init, TypeOK
  <1>4. EditInv
    BY DEF Init, EditInv, PlanInv, DoneInv, KeptInv
  <1> QED BY <1>3, <1>4 DEF Init, IInv, RefreshInv, DurableInv, NearInv

\* An edit begins: by a draft for the active revision, by clearing the policy,
\* or by a refresh.
LEMMA BeginsKeeps ==
    ASSUME IInv,
           \/ \E names \in [Entries -> Grants \cup {{}}] : Apply(names)
           \/ Clear
           \/ Refresh
    PROVE  IInv' /\ edit = NoEdit /\ UNCHANGED active
  <1>1. TypeOK /\ RefreshInv /\ active \in Policy \cup {NoPolicy}
    BY DEF IInv, TypeOK
  <1>2. phase \in {"idle", "refresh"} /\ edit = NoEdit /\ UNCHANGED active
    BY <1>1 DEF Apply, Clear, Refresh, TypeOK, Begin, memory
  <1>3. CASE Clear
    <2>1. Begin(NoPolicy) /\ active # NoPolicy
      BY <1>3 DEF Clear
    <2> QED BY <1>2, <2>1, BeginKeeps, InPolicy
  <1>4. ASSUME NEW names \in [Entries -> Grants \cup {{}}], Version(active) < MaxVersion,
               NEW new, new = Resolve(Version(active) + 1, names), Begin(new)
        PROVE  IInv'
    <2>1. /\ Version(active) \in Nat
          /\ active # NoPolicy => active.version = Version(active)
          /\ Version(active) + 1 \in 1 .. MaxVersion
      BY <1>1, <1>4, PolicyFields, BoundsAssumption DEF Version
    <2>2. new \in Policy /\ new.version = Version(active) + 1
          /\ \A e \in In(new) : new.ids[e] = fileId[e]
      BY <1>1, <1>4, <2>1, ResolveType
    <2>3. new # active
      BY <2>1, <2>2, PolicyFields
    <2> QED BY <1>2, <1>4, <2>2, <2>3, BeginKeeps
  <1>5. CASE Refresh
    <2>1. /\ active \in Policy /\ active.version < MaxVersion
          /\ active.names \in [Entries -> Grants \cup {{}}]
          /\ Version(active) = active.version
      BY <1>1, <1>5, PolicyFields DEF Refresh, RefreshInv, Version
    <2>2. Begin(Resolve(Version(active) + 1, active.names))
      BY <1>5, <2>1 DEF Refresh
    <2>3. Version(active) < MaxVersion
      BY <2>1
    <2> QED BY <1>2, <1>4, <2>1, <2>2, <2>3
  <1>6. ASSUME NEW names \in [Entries -> Grants \cup {{}}], Apply(names) PROVE IInv'
    BY <1>4, <1>6 DEF Apply
  <1> QED BY <1>2, <1>3, <1>5, <1>6

LEMMA WritesKeep ==
    ASSUME IInv, NEW e \in Entries,
           \/ ReconcileGroup(e) \/ ApplyAcl(e) \/ SkipMissing(e) \/ DeleteGroup(e)
           \/ Decommission(e)
    PROVE  IInv' /\ edit' # NoEdit /\ UNCHANGED active
  <1>1. IInv'
    BY ReconcileGroupKeeps, ApplyAclKeeps, RemovalKeeps, DecommissionKeeps
  <1>2. phase = "edit" /\ UNCHANGED <<phase, active>>
    BY DEF ReconcileGroup, ApplyAcl, SkipMissing, DeleteGroup, Decommission, Ready, Done,
           memory
  <1> QED BY <1>1, <1>2 DEF IInv, TypeOK

LEMMA FailuresKeep ==
    ASSUME IInv,
           \/ WriteFails \/ CommitFails \/ (\E e \in Entries : DecommissionRefused(e))
    PROVE  IInv' /\ edit' # NoEdit /\ UNCHANGED active
  <1>1. CASE WriteFails
    <2>1. PICK rank \in 1 .. 4, e \in Entries : Failing(rank, e)
      BY <1>1 DEF WriteFails
    <2>2. /\ phase' = "rollback" /\ faults' \in 0 .. MaxFaults
          /\ UNCHANGED <<disk, fileId, memory, edit>>
      BY <1>1, FaultType DEF WriteFails, IInv
    <2> QED BY <2>1, <2>2, FailingKeeps DEF IInv, TypeOK, memory
  <1>2. CASE CommitFails
    BY <1>2, CommitFailsKeeps DEF CommitFails, IInv, TypeOK, memory
  <1>3. ASSUME NEW e \in Entries, DecommissionRefused(e)
        PROVE  IInv' /\ edit' # NoEdit /\ UNCHANGED active
    BY <1>3, RefusedKeeps DEF DecommissionRefused, IInv, TypeOK, memory
  <1> QED BY <1>1, <1>2, <1>3

\* What a step does to the revision in memory.
Advance ==
    (active # NoPolicy /\ active' # NoPolicy /\ active' # active) =>
        active'.version = active.version + 1

\* What a step by which the service ends an edit leaves behind.
Atomic ==
    (edit # NoEdit /\ edit' = NoEdit /\ status' # "degraded" /\ ~Died) => AllOrNothing

\* The edit is committed: nothing is left to be written, and what it does not
\* change was never touched.
LEMMA CommitIsAtomic ==
    ASSUME IInv, Commit PROVE Advance /\ Atomic
  <1>1. /\ phase = "edit" /\ edit.left = {} /\ active' = edit.new /\ policyFile' = edit.new
        /\ UNCHANGED <<acl, groups, fileId>>
    BY DEF Commit
  <1>2. TypeOK /\ PlanInv /\ DoneInv /\ KeptInv /\ edit # NoEdit
    BY <1>1 DEF IInv, EditInv, TypeOK
  <1>3. Advance
    BY <1>1, <1>2 DEF Advance, PlanInv, Version
  <1>4. ASSUME NEW e \in Changed(edit.new)
        PROVE  acl'[e] = edit.new.grants[e] /\ (Target(e) # {} => groups'[e] = Target(e))
    BY <1>1, <1>2 DEF DoneInv
  <1>5. ASSUME NEW e \in Removed(edit.new)
        PROVE  groups'[e] = NoGroup /\ (fileId'[e] # 0 => acl'[e] = Open)
    BY <1>1, <1>2 DEF DoneInv
  <1>6. ASSUME NEW e \in Entries, e \notin Changed(edit.new), e \notin Removed(edit.new)
        PROVE  /\ groups'[e] = edit.groups[e]
               /\ acl'[e] \in {edit.acl[e], Open}
               /\ Same(e) => acl'[e] = edit.acl[e]
    <2>1. e \notin edit.grouped /\ e \notin edit.captured
      BY <1>2, <1>6, ChangedEntries DEF PlanInv
    <2>2. groups[e] = edit.groups[e] /\ acl[e] \in {edit.acl[e], Open}
      BY <1>2, <2>1 DEF KeptInv
    <2>3. Same(e) => acl[e] = edit.acl[e]
      <3>1. edit.ids[e] \in Nat
        BY <1>2, EditFields DEF Ids
      <3> QED BY <1>1, <1>2, <1>6, <3>1 DEF KeptInv, Same
    <2> QED BY <1>1, <2>2, <2>3
  <1> QED BY <1>1, <1>3, <1>4, <1>5, <1>6 DEF Atomic, AllOrNothing, Untouched

\* A rollback that is verified: what has a snapshot was restored, and what has
\* none is not open, so that it was never touched.
LEMMA RollbackIsAtomic ==
    ASSUME IInv, Rollback PROVE Advance /\ Atomic
  <1>1. phase = "rollback" /\ UNCHANGED <<policyFile, active, fileId>>
    BY DEF Rollback, disk
  <1>2. /\ TypeOK /\ PlanInv /\ KeptInv /\ edit # NoEdit
        /\ acl \in [Entries -> (SUBSET Users) \cup {Open}]
        /\ groups \in [Entries -> (SUBSET Users) \cup {NoGroup}]
    BY <1>1 DEF IInv, EditInv, TypeOK
  <1> SUFFICES ASSUME status' # "degraded"
               PROVE  /\ policyFile' = edit.policy /\ groups' = edit.groups
                      /\ \A e \in In(active) \cup Changed(edit.new) : acl'[e] = edit.acl[e]
    BY <1>1, <1>2 DEF Advance, Atomic, AllOrNothing, PlanInv
  <1>3. /\ acl' = Restored(edit.acl, acl, edit.captured)
        /\ groups' = Restored(edit.groups, groups, edit.grouped)
        /\ Verified(edit, acl', groups')
    BY <1>2, RollbackFacts
  <1>4. /\ edit.acl \in [Entries -> (SUBSET Users) \cup {Open}]
        /\ edit.groups \in [Entries -> (SUBSET Users) \cup {NoGroup}]
    BY <1>2, EditFields
  <1>5. policyFile' = edit.policy
    BY <1>1, <1>3 DEF Verified
  <1>6. groups' = edit.groups
    <2>1. groups' \in [Entries -> (SUBSET Users) \cup {NoGroup}]
      BY <1>2, <1>3, <1>4, RestoredFacts
    <2>2. ASSUME NEW e \in Entries PROVE groups'[e] = edit.groups[e]
      <3>1. CASE e \in edit.grouped
        BY <1>3, <3>1 DEF Restored
      <3>2. CASE e \notin edit.grouped
        <4>1. groups'[e] = groups[e]
          BY <1>3, <3>2 DEF Restored
        <4> QED BY <1>2, <3>2, <4>1 DEF KeptInv
      <3> QED BY <3>1, <3>2
    <2> QED BY <1>4, <2>1, <2>2
  <1>7. ASSUME NEW e \in In(active) \cup Changed(edit.new)
        PROVE  acl'[e] = edit.acl[e]
    <2>1. e \in Entries
      BY InPolicy, ChangedEntries
    <2>2. CASE e \in edit.captured
      BY <1>3, <2>1, <2>2 DEF Restored
    <2>3. CASE e \notin edit.captured
      <3>1. e \in In(active)
        BY <1>2, <2>3 DEF PlanInv
      <3>2. active \in Policy
        BY <1>2, <3>1, InPolicy DEF TypeOK
      <3>3. active.grants[e] \in SUBSET Users
        BY <2>1, <3>2, PolicyFields
      <3>4. acl'[e] = active.grants[e]
        BY <1>3, <3>1 DEF Verified, Revalidated
      <3>5. acl'[e] # Open
        BY <3>3, <3>4, OpenAssumption
      <3>6. acl'[e] = acl[e]
        BY <1>3, <2>1, <2>3 DEF Restored
      <3> QED BY <1>2, <2>1, <2>3, <3>5, <3>6 DEF KeptInv
    <2> QED BY <2>2, <2>3
  <1> QED BY <1>5, <1>6, <1>7

LEMMA StepInvariant ==
    ASSUME IInv, [Next]_vars
    PROVE  IInv' /\ Advance /\ Atomic
  <1>1. TypeOK /\ NearInv /\ policyFile \in Policy \cup {NoPolicy}
    BY DEF IInv, TypeOK
  <1>2. (edit = NoEdit \/ edit' # NoEdit) => Atomic
    BY DEF Atomic
  <1>3. UNCHANGED active => Advance
    BY DEF Advance
  <1>4. CASE \/ \E names \in [Entries -> Grants \cup {{}}] : Apply(names)
             \/ Clear
             \/ Refresh
    BY <1>2, <1>3, <1>4, BeginsKeeps
  <1>5. ASSUME NEW e \in Entries,
               \/ ReconcileGroup(e) \/ ApplyAcl(e) \/ SkipMissing(e) \/ DeleteGroup(e)
               \/ Decommission(e)
        PROVE  IInv' /\ Advance /\ Atomic
    BY <1>2, <1>3, <1>5, WritesKeep
  <1>6. CASE WriteFails \/ CommitFails \/ \E e \in Entries : DecommissionRefused(e)
    BY <1>2, <1>3, <1>6, FailuresKeep
  <1>7. CASE Commit
    BY <1>7, CommitKeeps, CommitIsAtomic
  <1>8. CASE Rollback
    BY <1>8, RollbackKeeps, RollbackIsAtomic
  <1>9. CASE RollbackFails
    <2>1. status' = "degraded" /\ UNCHANGED active
      BY <1>9 DEF RollbackFails
    <2> QED BY <1>3, <1>9, <2>1, RollbackFailsKeeps DEF Atomic
  <1>10. CASE Read
    <2>1. phase = "idle" /\ UNCHANGED active
      BY <1>10 DEF Read
    <2> QED BY <1>1, <1>2, <1>3, <1>10, <2>1, ReadKeeps DEF TypeOK
  <1>11. ASSUME NEW e \in Entries, Forget(e) \/ ForgetFails(e)
         PROVE  IInv' /\ Advance /\ Atomic
    <2>1. phase = "idle"
      BY <1>11 DEF Forget, ForgetFails, MayForget
    <2> QED BY <1>1, <1>2, <1>11, <2>1, ForgetKeeps DEF TypeOK, Advance
  <1>12. ASSUME NEW members \in Memberships,
                SaveDirectory(members) \/ SaveDirectoryFails(members)
         PROVE  IInv' /\ Advance /\ Atomic
    <2>1. phase = "idle" /\ UNCHANGED active
      BY <1>12 DEF SaveDirectory, SaveDirectoryFails, memory
    <2> QED BY <1>1, <1>2, <1>3, <1>12, <2>1, SaveDirectoryKeeps DEF TypeOK
  <1>13. CASE RefreshRefused
    <2>1. phase = "refresh" /\ UNCHANGED active
      BY <1>13 DEF RefreshRefused, memory
    <2> QED BY <1>1, <1>2, <1>3, <1>13, <2>1, RefreshRefusedKeeps DEF TypeOK
  <1>14. ASSUME NEW policyRead \in BOOLEAN, NEW directoryRead \in BOOLEAN,
                Restart(policyRead, directoryRead)
         PROVE  IInv' /\ Advance /\ Atomic
    <2>1. Died
      BY <1>14 DEF Died
    <2>2. IInv' /\ active' \in {policyFile, NoPolicy}
      BY <1>14, RestartKeeps
    <2>3. Advance
      BY <1>1, <2>2 DEF Advance, NearInv
    <2> QED BY <2>1, <2>2, <2>3 DEF Atomic
  <1>15. ASSUME NEW e \in Entries, ReplaceFile(e)
         PROVE  IInv' /\ Advance /\ Atomic
    <2>1. UNCHANGED <<active, edit>>
      BY <1>15 DEF ReplaceFile, memory
    <2> QED BY <1>2, <1>3, <1>15, <2>1, ReplaceFileKeeps
  <1>16. CASE UNCHANGED vars
    <2>1. UNCHANGED <<policyFile, directoryFile, mirror, acl, groups, fileId, active,
                      status, directory, healthy, recovery, phase, edit, faults>>
      BY <1>16 DEF vars, disk, memory
    <2>2. IInv'
      BY <2>1, SameEdit DEF IInv, TypeOK, RefreshInv, DurableInv, NearInv, EditInv, PlanInv,
         DoneInv, KeptInv, Version
    <2> QED BY <1>2, <1>3, <2>1, <2>2
  <1> QED BY <1>4, <1>5, <1>6, <1>7, <1>8, <1>9, <1>10, <1>11, <1>12, <1>13, <1>14, <1>15,
             <1>16 DEF Next

-----------------------------------------------------------------------------
(* What an edit has done so far.                                           *)

LEMMA HalfBegin ==
    ASSUME NEW new, Begin(new) PROVE HalfInv'
  <1>1. /\ edit'.policy = policyFile /\ edit'.acl = acl /\ edit'.groups = groups
        /\ UNCHANGED <<policyFile, acl, groups>>
    BY DEF Begin, disk
  <1> QED BY <1>1 DEF HalfInv

\* A step of the edit leaves each entry as it was or does what is planned.
LEMMA HalfStep ==
    ASSUME HalfInv, edit # NoEdit, UNCHANGED <<active, directory>>,
           edit'.new = edit.new, edit'.policy = edit.policy, edit'.acl = edit.acl,
           edit'.groups = edit.groups, policyFile' \in {policyFile, edit.new},
           \A x \in Changed(edit.new) :
                /\ acl'[x] \in {acl[x], edit.new.grants[x]}
                /\ Members(groups'[x]) \subseteq Members(groups[x]) \cup Target(x),
           \A x \in Removed(edit.new) :
                acl'[x] \in {acl[x], Open} /\ groups'[x] \in {groups[x], NoGroup}
    PROVE  HalfInv'
  <1>1. /\ Changed(edit.new)' = Changed(edit.new) /\ Removed(edit.new)' = Removed(edit.new)
        /\ \A x : Target(x)' = Target(x)
    BY SameEdit
  <1>2. policyFile' \in {edit.policy, edit.new}
    BY DEF HalfInv
  <1>3. ASSUME NEW x \in Changed(edit.new)
        PROVE  /\ acl'[x] \in {edit.acl[x], edit.new.grants[x]}
               /\ Members(groups'[x]) \subseteq Members(edit.groups[x]) \cup Target(x)
    BY <1>3 DEF HalfInv
  <1>4. ASSUME NEW x \in Removed(edit.new)
        PROVE  acl'[x] \in {edit.acl[x], Open} /\ groups'[x] \in {edit.groups[x], NoGroup}
    BY <1>4 DEF HalfInv
  <1>5. \A x : Members(groups[x])' = Members(groups'[x])
               /\ Members(edit.groups[x])' = Members(edit.groups[x])
    BY DEF Members
  <1> QED BY <1>1, <1>2, <1>3, <1>4, <1>5 DEF HalfInv

LEMMA WritesHalf ==
    ASSUME IInv, HalfInv, NEW e \in Entries,
           \/ ReconcileGroup(e) \/ ApplyAcl(e) \/ SkipMissing(e) \/ DeleteGroup(e)
           \/ Decommission(e)
    PROVE  HalfInv'
  <1>1. PICK rank \in 1 .. 4 :
            /\ phase = "edit" /\ <<rank, e>> \in edit.left
            /\ edit' \in {[edit EXCEPT !.left = @ \ {<<rank, e>>}],
                         [edit EXCEPT !.left = @ \ {<<3, e>>}, !.captured = @ \cup {e}]}
            /\ \/ rank = 1 /\ groups' = [groups EXCEPT ![e] = Target(e)] /\ acl' = acl
               \/ rank = 2 /\ acl' = [acl EXCEPT ![e] = edit.new.grants[e]] /\ groups' = groups
               \/ rank = 3 /\ acl' \in {acl, [acl EXCEPT ![e] = Open]} /\ groups' = groups
               \/ rank = 4 /\ groups' = [groups EXCEPT ![e] = NoGroup] /\ acl' = acl
    BY DEF ReconcileGroup, ApplyAcl, SkipMissing, DeleteGroup, Decommission, Ready, Done
  <1>2. UNCHANGED <<policyFile, active, directory>>
    BY DEF ReconcileGroup, ApplyAcl, SkipMissing, DeleteGroup, Decommission, Done, disk, memory
  <1>3. /\ TypeOK /\ PlanInv /\ edit # NoEdit
        /\ acl \in [Entries -> (SUBSET Users) \cup {Open}]
        /\ groups \in [Entries -> (SUBSET Users) \cup {NoGroup}]
    BY <1>1 DEF IInv, EditInv, TypeOK
  <1>4. /\ edit'.new = edit.new /\ edit'.policy = edit.policy
        /\ edit'.acl = edit.acl /\ edit'.groups = edit.groups
    <2>1. edit \in Edit
      BY <1>3, EditFields
    <2>2. CASE edit' = [edit EXCEPT !.left = @ \ {<<rank, e>>}]
      BY <2>1, <2>2 DEF Edit
    <2>3. CASE edit' = [edit EXCEPT !.left = @ \ {<<3, e>>}, !.captured = @ \cup {e}]
      BY <2>1, <2>3 DEF Edit
    <2> QED BY <1>1, <2>2, <2>3
  <1>5. /\ rank \in {1, 2} => e \notin Removed(edit.new)
        /\ rank \in {3, 4} => e \notin Changed(edit.new)
    BY <1>1, <1>3, ChangedEntries DEF PlanInv
  <1>6. Changed(edit.new) \subseteq Entries /\ Removed(edit.new) \subseteq Entries
    BY ChangedEntries
  <1>7. \A x \in Changed(edit.new) :
            /\ acl'[x] \in {acl[x], edit.new.grants[x]}
            /\ groups'[x] \in {groups[x], Target(x)}
    BY <1>1, <1>3, <1>5, <1>6
  <1>8. \A x \in Removed(edit.new) :
            acl'[x] \in {acl[x], Open} /\ groups'[x] \in {groups[x], NoGroup}
    BY <1>1, <1>3, <1>5, <1>6
  <1>9. \A x \in Changed(edit.new) :
            Members(groups'[x]) \subseteq Members(groups[x]) \cup Target(x)
    BY <1>7 DEF Members
  <1> QED BY <1>2, <1>3, <1>4, <1>7, <1>8, <1>9, HalfStep

LEMMA FailingHalf ==
    ASSUME IInv, HalfInv, NEW rank \in 1 .. 4, NEW e \in Entries, Failing(rank, e),
           UNCHANGED <<disk, fileId, memory, edit>>
    PROVE  HalfInv'
  <1>1. /\ phase = "edit" /\ <<rank, e>> \in edit.left
        /\ UNCHANGED <<policyFile, active, directory, edit>>
    BY DEF Failing, Ready, disk, memory
  <1>2. /\ TypeOK /\ PlanInv /\ edit # NoEdit
        /\ acl \in [Entries -> (SUBSET Users) \cup {Open}]
        /\ groups \in [Entries -> (SUBSET Users) \cup {NoGroup}]
    BY <1>1 DEF IInv, EditInv, TypeOK
  <1>3. /\ rank \in {1, 2} => e \notin Removed(edit.new)
        /\ rank \in {3, 4} => e \notin Changed(edit.new)
        /\ Changed(edit.new) \subseteq Entries /\ Removed(edit.new) \subseteq Entries
    BY <1>1, <1>2, ChangedEntries DEF PlanInv
  <1>4. \/ rank = 1 /\ acl' = acl
            /\ \E left : /\ Members(left) \subseteq Members(groups[e]) \cup Target(e)
                         /\ groups' = [groups EXCEPT ![e] = left]
        \/ rank = 2 /\ groups' = groups
            /\ acl' \in {acl, [acl EXCEPT ![e] = edit.new.grants[e]]}
        \/ rank = 3 /\ groups' = groups /\ acl' \in {acl, [acl EXCEPT ![e] = Open]}
        \/ rank = 4 /\ acl' = acl /\ groups' \in {groups, [groups EXCEPT ![e] = NoGroup]}
    BY DEF Failing, Members
  <1>5. \A x \in Changed(edit.new) :
            /\ acl'[x] \in {acl[x], edit.new.grants[x]}
            /\ Members(groups'[x]) \subseteq Members(groups[x]) \cup Target(x)
    BY <1>2, <1>3, <1>4
  <1>6. \A x \in Removed(edit.new) :
            acl'[x] \in {acl[x], Open} /\ groups'[x] \in {groups[x], NoGroup}
    BY <1>2, <1>3, <1>4
  <1> QED BY <1>1, <1>2, <1>5, <1>6, HalfStep

LEMMA OthersHalf ==
    ASSUME IInv, HalfInv,
           \/ CommitFails
           \/ \E e \in Entries : DecommissionRefused(e) \/ ReplaceFile(e)
    PROVE  HalfInv'
  <1> SUFFICES ASSUME edit # NoEdit PROVE HalfInv'
    BY DEF HalfInv, CommitFails, DecommissionRefused, ReplaceFile
  <1>1. /\ UNCHANGED <<active, directory, groups, edit>>
        /\ policyFile' \in {policyFile, edit.new}
    BY DEF CommitFails, DecommissionRefused, ReplaceFile, disk, memory
  <1>2. acl \in [Entries -> (SUBSET Users) \cup {Open}]
    BY DEF IInv, TypeOK
  <1>3. acl' = acl \/ \E e \in Entries \ Changed(edit.new) : acl' = [acl EXCEPT ![e] = Open]
    BY DEF CommitFails, DecommissionRefused, ReplaceFile
  <1>4. Changed(edit.new) \subseteq Entries /\ Removed(edit.new) \subseteq Entries
    BY ChangedEntries
  <1>5. /\ \A x \in Changed(edit.new) : acl'[x] = acl[x]
        /\ \A x \in Removed(edit.new) : acl'[x] \in {acl[x], Open}
    BY <1>2, <1>3, <1>4
  <1>6. \A x \in Changed(edit.new) : Members(groups'[x]) \subseteq Members(groups[x]) \cup Target(x)
    BY <1>1
  <1> QED BY <1>1, <1>5, <1>6, HalfStep

\* The steps that end an edit.
LEMMA Ends ==
    ASSUME IInv, edit # NoEdit, edit' = NoEdit, [Next]_vars
    PROVE  Commit \/ Rollback \/ RollbackFails \/ Died
  <1>1. phase \in {"edit", "rollback"}
    BY DEF IInv, TypeOK
  <1>2. edit' # edit
    OBVIOUS
  <1>3. ASSUME NEW e \in Entries,
               \/ ReconcileGroup(e) \/ ApplyAcl(e) \/ SkipMissing(e) \/ DeleteGroup(e)
               \/ Decommission(e)
        PROVE  FALSE
    BY <1>3, WritesKeep
  <1> QED BY <1>1, <1>2, <1>3
          DEF Next, vars, Apply, Clear, DecommissionRefused, Forget, ForgetFails, MayForget,
              ReplaceFile, WriteFails, CommitFails, Read, SaveDirectory, SaveDirectoryFails,
              Refresh, RefreshRefused, Died

LEMMA HalfKeeps ==
    ASSUME IInv, HalfInv, [Next]_vars PROVE HalfInv'
  <1>1. CASE edit' = NoEdit
    BY <1>1 DEF HalfInv
  <1>2. CASE \/ \E names \in [Entries -> Grants \cup {{}}] : Apply(names)
             \/ Clear
             \/ Refresh
    BY <1>2, HalfBegin DEF Apply, Clear, Refresh
  <1>3. ASSUME NEW e \in Entries,
               \/ ReconcileGroup(e) \/ ApplyAcl(e) \/ SkipMissing(e) \/ DeleteGroup(e)
               \/ Decommission(e)
        PROVE  HalfInv'
    BY <1>3, WritesHalf
  <1>4. CASE WriteFails
    BY <1>4, FailingHalf DEF WriteFails
  <1>5. CASE CommitFails \/ \E e \in Entries : DecommissionRefused(e) \/ ReplaceFile(e)
    BY <1>5, OthersHalf
  <1>6. CASE UNCHANGED vars
    <2>1. UNCHANGED <<policyFile, acl, groups, active, directory, edit>>
      BY <1>6 DEF vars, disk, memory
    <2>2. edit # NoEdit => HalfInv'
      BY <2>1, HalfStep
    <2> QED BY <1>1, <2>1, <2>2
  <1>7. CASE \/ Commit \/ Rollback \/ RollbackFails
             \/ \E policyRead, directoryRead \in BOOLEAN : Restart(policyRead, directoryRead)
    BY <1>1, <1>7 DEF Commit, Rollback, RollbackFails, Restart, Finish
  <1>8. CASE \/ Read \/ RefreshRefused
             \/ \E e \in Entries : Forget(e) \/ ForgetFails(e)
             \/ \E members \in Memberships : SaveDirectory(members) \/ SaveDirectoryFails(members)
    <2>1. phase \in {"idle", "refresh"} /\ UNCHANGED edit
      BY <1>8 DEF Read, RefreshRefused, Forget, ForgetFails, MayForget, SaveDirectory,
         SaveDirectoryFails
    <2>2. edit = NoEdit
      BY <2>1 DEF IInv, TypeOK
    <2> QED BY <1>1, <2>1, <2>2
  <1> QED BY <1>2, <1>3, <1>4, <1>5, <1>6, <1>7, <1>8 DEF Next

\* What an edit leaves is what it has done, less what was restored.
LEMMA HalfEnds ==
    ASSUME IInv, HalfInv, edit # NoEdit, edit' = NoEdit, [Next]_vars PROVE HalfDone
  <1>1. /\ TypeOK /\ PlanInv /\ KeptInv
        /\ acl \in [Entries -> (SUBSET Users) \cup {Open}]
        /\ groups \in [Entries -> (SUBSET Users) \cup {NoGroup}]
    BY DEF IInv, EditInv, TypeOK
  <1>2. /\ policyFile' \in {policyFile, edit.new} /\ UNCHANGED fileId
        /\ \E files, others :
            /\ files \subseteq edit.captured /\ others \subseteq edit.grouped
            /\ \A x \in Entries :
                /\ acl'[x] = acl[x] \/ (x \in files /\ acl'[x] = edit.acl[x])
                /\ groups'[x] = groups[x] \/ (x \in others /\ groups'[x] = edit.groups[x])
    <2>1. CASE Commit \/ Died
      <3>1. /\ policyFile' \in {policyFile, edit.new}
            /\ UNCHANGED <<fileId, acl, groups>>
        BY <2>1 DEF Commit, Died, Restart, disk
      <3> QED BY <3>1
    <2>2. CASE Rollback
      <3>1. UNCHANGED <<policyFile, fileId>>
        BY <2>2 DEF Rollback, disk
      <3>2. PICK files \in {edit.captured, {}} :
                /\ acl' = Restored(edit.acl, acl, files)
                /\ groups' = Restored(edit.groups, groups, edit.grouped)
        BY <1>1, <2>2, RollbackFacts
      <3>3. \A x \in Entries :
                /\ acl'[x] = acl[x] \/ (x \in files /\ acl'[x] = edit.acl[x])
                /\ groups'[x] = groups[x] \/ (x \in edit.grouped /\ groups'[x] = edit.groups[x])
        BY <3>2 DEF Restored
      <3> QED BY <3>1, <3>3
    <2>3. CASE RollbackFails
      <3>1. UNCHANGED <<policyFile, fileId>>
        BY <2>3 DEF RollbackFails, disk
      <3>2. \E files, others :
                /\ files \subseteq edit.captured /\ others \subseteq edit.grouped
                /\ acl' = Restored(edit.acl, acl, files)
                /\ groups' = Restored(edit.groups, groups, others)
        BY <2>3 DEF RollbackFails
      <3> QED BY <3>1, <3>2 DEF Restored
    <2> QED BY <2>1, <2>2, <2>3, Ends
  <1>3. policyFile' \in {edit.policy, edit.new}
    BY <1>2 DEF HalfInv
  <1>4. ASSUME NEW x \in Changed(edit.new)
        PROVE  /\ acl'[x] \in {edit.acl[x], edit.new.grants[x]}
               /\ Members(groups'[x]) \subseteq Members(edit.groups[x]) \cup Target(x)
    BY <1>2, <1>4, ChangedEntries DEF HalfInv
  <1>5. ASSUME NEW x \in Removed(edit.new)
        PROVE  acl'[x] \in {edit.acl[x], Open} /\ groups'[x] \in {edit.groups[x], NoGroup}
    BY <1>2, <1>5, ChangedEntries DEF HalfInv
  <1>6. ASSUME NEW x \in Entries, x \notin Changed(edit.new), x \notin Removed(edit.new)
        PROVE  Untouched(x)
    <2>1. x \notin edit.grouped /\ x \notin edit.captured
      BY <1>1, <1>6, ChangedEntries DEF PlanInv
    <2>2. groups'[x] = edit.groups[x] /\ acl'[x] = acl[x]
      BY <1>1, <1>2, <2>1 DEF KeptInv
    <2>3. acl[x] \in {edit.acl[x], Open}
      BY <1>1, <2>1 DEF KeptInv
    <2>4. Same(x) => acl'[x] = edit.acl[x]
      <3>1. edit.ids[x] \in Nat
        BY <1>1, EditFields DEF Ids
      <3> QED BY <1>1, <1>2, <1>6, <2>2, <3>1 DEF KeptInv, Same
    <2> QED BY <2>2, <2>3, <2>4 DEF Untouched
  <1> QED BY <1>3, <1>4, <1>5, <1>6 DEF HalfDone

\* What is shown as current after a start is in force.
LEMMA DeathEnds ==
    ASSUME Died, status' = "current"
    PROVE  \A e \in In(active') : acl'[e] = active'.grants[e]
  <1>1. PICK policyRead, directoryRead \in BOOLEAN : Restart(policyRead, directoryRead)
    BY DEF Died
  <1>2. Revalidated(active', directory', acl, groups) /\ UNCHANGED acl
    BY <1>1 DEF Restart
  <1> QED BY <1>2 DEF Revalidated

LEMMA Invariant == Spec => [](IInv /\ HalfInv)
  <1>1. Init => IInv /\ HalfInv
    BY InitInvariant DEF Init, HalfInv
  <1>2. IInv /\ HalfInv /\ [Next]_vars => (IInv /\ HalfInv)'
    BY StepInvariant, HalfKeeps
  <1> QED BY <1>1, <1>2, PTL DEF Spec

-----------------------------------------------------------------------------
(* The theorems.                                                           *)

\* The policy, its snapshots and the Windows permissions keep their types:
\* in particular, file access is only ever granted to users.
THEOREM TypeCorrect == Spec => []TypeOK
  <1>1. IInv => TypeOK
    BY DEF IInv
  <1> QED BY <1>1, Invariant, PTL

\* A policy that is shown as current is the one on disk, whichever write
\* reported failure before.
THEOREM CurrentDurable == Spec => []CurrentIsDurable
  <1>1. IInv => CurrentIsDurable
    BY DEF IInv, DurableInv, CurrentIsDurable
  <1> QED BY <1>1, Invariant, PTL

\* Policies that the service holds one after the other differ by one revision,
\* through writes in doubt, restarts and forgotten entries.
THEOREM RevisionsByOne == Spec => RevisionsAdvance
  <1>1. IInv /\ [Next]_vars => Advance
    BY StepInvariant
  <1> QED BY <1>1, Invariant, PTL DEF Spec, RevisionsAdvance, Advance

\* An edit that the service ends without leaving the policy degraded is all or
\* nothing in the file, the containers and the groups; one that is cut short by
\* the death of the service, or rolled back in part, leaves each container and
\* each group as before or as planned, and nothing else is touched.
THEOREM EditAtomic == Spec => EditIsAtomic
  <1> DEFINE Ended ==
        edit # NoEdit /\ edit' = NoEdit =>
            /\ HalfDone
            /\ status' # "degraded" /\ ~Died => AllOrNothing
            /\ status' = "current" /\ Died =>
                \A e \in In(active') : acl'[e] = active'.grants[e]
  <1>1. IInv /\ HalfInv /\ [Next]_vars => Ended
    BY StepInvariant, HalfEnds, DeathEnds DEF Atomic
  <1> QED BY <1>1, Invariant, PTL DEF Spec, EditIsAtomic

=============================================================================
