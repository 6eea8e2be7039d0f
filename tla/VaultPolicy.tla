----------------------------- MODULE VaultPolicy -----------------------------
(***************************************************************************)
(* The vault access policy of the SYSTEM service: its revisioned record, the *)
(* Windows permissions that carry it out, and the rollback of an edit that    *)
(* fails half way (commander-svc/src/vault_access.rs,                         *)
(* vault_access/access_directory_mutation.rs and the handlers of pipe.rs).    *)
(*                                                                           *)
(* An edit holds the broker's operation lock and the state lock throughout,   *)
(* so that it is alone inside the service.  It writes the local group and the *)
(* ACL of each changed entry, opens the containers of the removed entries to  *)
(* everyone, deletes their groups, and replaces the policy file last.  Every  *)
(* write may fail, with or without its effect, and the service may die        *)
(* between any two of them.                                                   *)
(*                                                                           *)
(* An entry keeps its container (merge_owner_fragment restores the saved      *)
(* path), so entries stand for containers.  Every grant is for writing: the   *)
(* read and the write group of an entry are one.  The access directory has    *)
(* one group.  Requests that are refused before they change anything are left *)
(* out, and so are personal vaults and the migration of old records.          *)
(***************************************************************************)
EXTENDS Integers, FiniteSets

CONSTANTS
    Entries,      \* entry ids, each with its container
    Machine,      \* the entries presented to the whole machine
    Users,
    Fleet,        \* the access directory's group, as a principal
    Grants,       \* what an edit may grant an entry to: sets of principals
    Memberships,  \* what the directory's group may consist of: sets of users
    Open,         \* the ACL of a container that no policy manages
    NoGroup,
    NoPolicy,
    NoEdit,
    MaxVersion,   \* bound on revisions
    MaxFile,      \* bound on the files that follow one another at a path
    MaxFaults     \* bound on failures, restarts and replaced containers

ASSUME EntriesAssumption == Machine \subseteq Entries
ASSUME GrantsAssumption ==
    /\ Grants \subseteq (SUBSET (Users \cup {Fleet})) \ {{}}
    /\ Fleet \notin Users
    /\ Memberships \subseteq SUBSET Users
ASSUME BoundsAssumption ==
    /\ {MaxVersion, MaxFile, MaxFaults} \subseteq Nat
    /\ MaxFile > 0
ASSUME OpenAssumption == \A granted \in SUBSET Users : granted # Open

VARIABLES
    policyFile,      \* vault_access_policy.json: PersistedPolicy
    directoryFile,   \* the members of the group in the durable directory
    acl,             \* the DACL of each container
    groups,          \* the members of each entry's managed local group
    mirror,          \* the members of the directory group's local group
    fileId,          \* the identity of the file at each path, 0 without one
    active,          \* State.active
    status,          \* State.status.validation_state
    directory,       \* State.access_directory
    healthy,         \* State.access_directory_healthy
    recovery,        \* State.rollback_recovery
    phase,           \* what the holder of the operation lock is doing
    edit,            \* the edit in progress
    faults

disk == <<policyFile, directoryFile, mirror>>
memory == <<active, status, directory, healthy, recovery>>
vars == <<disk, acl, groups, fileId, memory, phase, edit, faults>>

-----------------------------------------------------------------------------
(* Policies.  An entry without grants is not in the policy.                *)

Ids == 0 .. MaxFile
Policy == [version : 1 .. MaxVersion, names : [Entries -> Grants \cup {{}}],
           ids : [Entries -> Ids], grants : [Entries -> SUBSET Users]]
ASSUME NoPolicyAssumption == NoPolicy \notin Policy

In(policy) ==
    IF policy = NoPolicy THEN {} ELSE {e \in Entries : policy.names[e] # {}}

\* resolve_and_plan_with_access_directory: the users named directly.  A
\* machine-wide entry with a directory group admits its members only.
Direct(e, names, members) ==
    IF e \in Machine /\ Fleet \in names
    THEN names \cap members
    ELSE names \cap Users

\* Mutant: the group itself is granted beside its members.
PlanUnexpanded(e, names, members) ==
    Direct(e, names, members) \cup
        IF Fleet \in names THEN members \cup {Fleet} ELSE {}

\* Groups of the directory are expanded: file access is for exact users.
Plan(e, names, members) ==
    Direct(e, names, members) \cup IF Fleet \in names THEN members ELSE {}

Resolve(version, names) ==
    [version |-> version, names |-> names,
     ids |-> [e \in Entries |-> IF names[e] = {} THEN 0 ELSE fileId[e]],
     grants |-> [e \in Entries |-> Plan(e, names[e], directory)]]

Version(policy) == IF policy = NoPolicy THEN 0 ELSE policy.version

\* policy_entry_plan_unchanged
Unchanged(new, e) ==
    /\ e \in In(active)
    /\ new.names[e] = active.names[e]
    /\ new.ids[e] = active.ids[e]
    /\ new.grants[e] = active.grants[e]

Changed(new) == {e \in In(new) : ~Unchanged(new, e)}
Removed(new) == In(active) \ In(new)

\* The groups that the plan of `new` has members for.
Grouped(new) == {e \in Changed(new) : Direct(e, new.names[e], directory) # {}}

\* Mutant: what removed entries granted is left behind.
WritesKeepRemoved(new) ==
    ({1} \X Grouped(new)) \cup ({2} \X Changed(new))

\* The writes of an edit, in the order of their numbers.
Writes(new) ==
    ({1} \X Grouped(new)) \cup ({2} \X Changed(new)) \cup ({3} \X Removed(new))
        \cup ({4} \X {e \in Removed(new) : groups[e] # NoGroup})

\* What an edit keeps for its rollback.  `captured` and `grouped` are the
\* containers and groups with a snapshot, `ids` the identities of its targets,
\* and `checkpoint` whether the durable policy was the one in memory.
Edit == [new : Policy \cup {NoPolicy}, left : SUBSET ((1 .. 4) \X Entries),
         policy : Policy \cup {NoPolicy}, directory : SUBSET Users,
         acl : [Entries -> (SUBSET Users) \cup {Open}],
         groups : [Entries -> (SUBSET Users) \cup {NoGroup}],
         ids : [Entries -> Ids], captured : SUBSET Entries,
         grouped : SUBSET Entries, checkpoint : BOOLEAN]
ASSUME NoEditAssumption == NoEdit \notin Edit

TypeOK ==
    /\ policyFile \in Policy \cup {NoPolicy}
    /\ directoryFile \in SUBSET Users
    /\ acl \in [Entries -> (SUBSET Users) \cup {Open}]
    /\ groups \in [Entries -> (SUBSET Users) \cup {NoGroup}]
    /\ mirror \in SUBSET Users
    /\ fileId \in [Entries -> Ids]
    /\ active \in Policy \cup {NoPolicy}
    /\ status \in {"never", "current", "degraded"}
    /\ directory \in SUBSET Users
    /\ healthy \in BOOLEAN
    /\ recovery \in Edit \cup {NoEdit}
    /\ phase \in {"idle", "refresh", "edit", "rollback"}
    /\ edit \in Edit \cup {NoEdit}
    /\ (phase \in {"edit", "rollback"}) = (edit # NoEdit)
    /\ faults \in 0 .. MaxFaults

\* A machine with containers and a directory, and no policy yet.
Init ==
    /\ policyFile = NoPolicy
    /\ directoryFile \in Memberships
    /\ acl = [e \in Entries |-> Open]
    /\ groups = [e \in Entries |-> NoGroup]
    /\ mirror = directoryFile
    /\ fileId = [e \in Entries |-> 1]
    /\ active = NoPolicy
    /\ status = "never"
    /\ directory = directoryFile
    /\ healthy = TRUE
    /\ recovery = NoEdit
    /\ phase = "idle"
    /\ edit = NoEdit
    /\ faults = 0

Fault ==
    /\ faults < MaxFaults
    /\ faults' = faults + 1

-----------------------------------------------------------------------------
(* The beginning of an edit.                                               *)

\* policy_rollback_checkpoint: memory and disk agree.
Checkpoint ==
    healthy /\ policyFile = active /\ directoryFile = directory

\* policy_rollback_checkpoint_for_mutation: a degraded policy may be repaired,
\* and a policy without a record cleared, with no way back.
MayMutate(new) ==
    \/ Checkpoint
    \/ status = "degraded" /\ recovery = NoEdit /\ healthy
    \/ new = NoPolicy /\ policyFile = NoPolicy

\* The checks and snapshots of apply and clear.
Begin(new) ==
    /\ \A e \in In(new) : fileId[e] # 0
    /\ MayMutate(new)
    /\ edit' =
        [new |-> new, left |-> Writes(new), policy |-> policyFile,
         directory |-> directoryFile, acl |-> acl, groups |-> groups,
         ids |-> [e \in Entries |->
            IF e \in Changed(new) THEN fileId[e]
            ELSE IF e \in In(active) THEN active.ids[e] ELSE 0],
         captured |-> Changed(new), grouped |-> Grouped(new) \cup Removed(new),
         checkpoint |-> Checkpoint]
    /\ phase' = "edit"
    /\ UNCHANGED <<disk, acl, groups, fileId, memory, faults>>

\* ensure_policy_read_available: a degraded policy is for administrators.
Available == healthy /\ (status = "degraded" => active # NoPolicy)

\* handle_vault_apply_owner_fragment: the draft names the active revision.
Apply(names) ==
    /\ phase = "idle"
    /\ Available
    /\ Version(active) < MaxVersion
    /\ \E e \in Entries : names[e] # {}
    /\ Begin(Resolve(Version(active) + 1, names))

Clear ==
    /\ phase = "idle"
    /\ Available
    /\ active # NoPolicy
    /\ Begin(NoPolicy)

-----------------------------------------------------------------------------
(* The writes of an edit.                                                  *)

Ready(rank, e) ==
    /\ phase = "edit"
    /\ <<rank, e>> \in edit.left
    /\ \A w \in edit.left : w[1] >= rank

Done(rank, e) ==
    /\ edit' = [edit EXCEPT !.left = @ \ {<<rank, e>>}]
    /\ UNCHANGED <<disk, fileId, memory, phase, faults>>

Target(e) == Direct(e, edit.new.names[e], directory)

\* groups.reconcile_exact_members
ReconcileGroup(e) ==
    /\ Ready(1, e)
    /\ groups' = [groups EXCEPT ![e] = Target(e)]
    /\ Done(1, e)
    /\ UNCHANGED acl

\* acls.apply_and_verify
ApplyAcl(e) ==
    /\ Ready(2, e)
    /\ acl' = [acl EXCEPT ![e] = edit.new.grants[e]]
    /\ Done(2, e)
    /\ UNCHANGED groups

\* decommission_and_snapshot: the container is what the policy recorded, with
\* exactly the ACL it granted.
Owned(e) == fileId[e] = active.ids[e] /\ acl[e] = active.grants[e]

Decommission(e) ==
    /\ Ready(3, e)
    /\ Owned(e)
    /\ acl' = [acl EXCEPT ![e] = Open]
    /\ edit' = [edit EXCEPT !.left = @ \ {<<3, e>>}, !.captured = @ \cup {e}]
    /\ UNCHANGED <<disk, groups, fileId, memory, phase, faults>>

\* A container that is gone needs no decommissioning.
SkipMissing(e) ==
    /\ Ready(3, e)
    /\ fileId[e] = 0
    /\ Done(3, e)
    /\ UNCHANGED <<acl, groups>>

\* groups.delete_service_owned_group
DeleteGroup(e) ==
    /\ Ready(4, e)
    /\ groups' = [groups EXCEPT ![e] = NoGroup]
    /\ Done(4, e)
    /\ UNCHANGED acl

Finish ==
    /\ phase' = "idle"
    /\ edit' = NoEdit

\* The policy file is replaced, or removed by clear.
Commit ==
    /\ phase = "edit"
    /\ edit.left = {}
    /\ policyFile' = edit.new
    /\ active' = edit.new
    /\ status' = IF edit.new = NoPolicy THEN "never" ELSE "current"
    /\ recovery' = NoEdit
    /\ Finish
    /\ UNCHANGED <<directoryFile, mirror, acl, groups, fileId, directory,
                   healthy, faults>>

Members(group) == IF group = NoGroup THEN {} ELSE group

\* What a write that reports failure may leave.
Failing(rank, e) ==
    /\ Ready(rank, e)
    /\ \/ rank = 1 /\ acl' = acl
          /\ \E left \in {groups[e], Target(e), Target(e) \cap Members(groups[e])} :
                groups' = [groups EXCEPT ![e] = left]
       \/ rank = 2 /\ groups' = groups
          /\ acl' \in {acl, [acl EXCEPT ![e] = edit.new.grants[e]]}
       \/ rank = 3 /\ Owned(e) /\ groups' = groups
          /\ acl' \in {acl, [acl EXCEPT ![e] = Open]}
       \/ rank = 4 /\ acl' = acl
          /\ groups' \in {groups, [groups EXCEPT ![e] = NoGroup]}

WriteFails ==
    /\ \E rank \in 1 .. 4, e \in Entries : Failing(rank, e)
    /\ Fault
    /\ phase' = "rollback"
    /\ UNCHANGED <<disk, fileId, memory, edit>>

\* A container that was replaced or whose ACL drifted is not decommissioned.
DecommissionRefused(e) ==
    /\ Ready(3, e)
    /\ fileId[e] # 0 /\ ~Owned(e)
    /\ phase' = "rollback"
    /\ UNCHANGED <<disk, acl, groups, fileId, memory, edit, faults>>

\* The replacement reports failure, and may have happened.
CommitFails ==
    /\ phase = "edit"
    /\ edit.left = {}
    /\ Fault
    /\ policyFile' \in {policyFile, edit.new}
    /\ phase' = "rollback"
    /\ UNCHANGED <<directoryFile, mirror, acl, groups, fileId, memory, edit>>

-----------------------------------------------------------------------------
(* Rollback and its verification.                                          *)

\* revalidate_persisted_policy_with_directory
Revalidated(policy, members, acls, grps) ==
    \A e \in In(policy) :
        /\ fileId[e] = policy.ids[e]
        /\ policy.grants[e] = Plan(e, policy.names[e], members)
        /\ acls[e] = policy.grants[e]
        /\ LET direct == Direct(e, policy.names[e], members) IN
            direct # {} => grps[e] = direct

\* Mutant: the durable policy is not compared.
VerifiedWithoutDisk(rec, acls, grps) ==
    /\ \A e \in Entries : rec.ids[e] # 0 => fileId[e] = rec.ids[e]
    /\ \A e \in rec.captured : acls[e] = rec.acl[e]
    /\ \A e \in rec.grouped : grps[e] = rec.groups[e]
    /\ Revalidated(active, directory, acls, grps)

\* Mutant: an entry in neither policy must have no file.
VerifiedEverywhere(rec, acls, grps) ==
    /\ Checkpoint
    /\ policyFile = rec.policy
    /\ directoryFile = rec.directory
    /\ \A e \in Entries : fileId[e] = rec.ids[e]
    /\ \A e \in rec.captured : acls[e] = rec.acl[e]
    /\ \A e \in rec.grouped : grps[e] = rec.groups[e]
    /\ Revalidated(active, directory, acls, grps)

\* verify_pending_rollback_recovery: disk, identities, ACLs and groups are
\* what they were before the edit, and make the active policy hold.
Verified(rec, acls, grps) ==
    /\ Checkpoint
    /\ policyFile = rec.policy
    /\ directoryFile = rec.directory
    /\ \A e \in Entries : rec.ids[e] # 0 => fileId[e] = rec.ids[e]
    /\ \A e \in rec.captured : acls[e] = rec.acl[e]
    /\ \A e \in rec.grouped : grps[e] = rec.groups[e]
    /\ Revalidated(active, directory, acls, grps)

Healthy == IF active = NoPolicy THEN "never" ELSE "current"

Restored(old, now, which) ==
    [e \in Entries |-> IF e \in which THEN old[e] ELSE now[e]]

\* rollback_after_apply.  No ACL is written at a path that now names another
\* file.  `recovery` is kept when everything was restored and it is known what
\* the durable policy was; then it is verified at once.
Rollback ==
    /\ phase = "rollback"
    /\ LET matches == \A e \in edit.captured : fileId[e] = edit.ids[e]
           files == IF matches THEN edit.captured ELSE {}
           acls == Restored(edit.acl, acl, files)
           grps == Restored(edit.groups, groups, edit.grouped)
           pending == matches /\ edit.checkpoint
           verified == pending /\ Verified(edit, acls, grps)
       IN
        /\ acl' = acls
        /\ groups' = grps
        /\ status' = IF verified THEN Healthy ELSE "degraded"
        /\ recovery' = IF pending /\ ~verified THEN edit ELSE NoEdit
    /\ Finish
    /\ UNCHANGED <<disk, fileId, active, directory, healthy, faults>>

\* Only some of it is restored, or reading it back fails; or everything is,
\* and only the verification fails.
RollbackFails ==
    /\ phase = "rollback"
    /\ Fault
    /\ LET matches == \A e \in edit.captured : fileId[e] = edit.ids[e]
           files == IF matches THEN edit.captured ELSE {}
       IN
        \E some \in SUBSET files, others \in SUBSET edit.grouped :
            /\ acl' = Restored(edit.acl, acl, some)
            /\ groups' = Restored(edit.groups, groups, others)
            /\ recovery' \in
                {NoEdit} \cup
                    IF /\ matches /\ edit.checkpoint
                       /\ some = edit.captured /\ others = edit.grouped
                    THEN {edit} ELSE {}
    /\ status' = "degraded"
    /\ Finish
    /\ UNCHANGED <<disk, fileId, active, directory, healthy>>

\* ensure_policy_read_available verifies a pending recovery again.
Read ==
    /\ phase = "idle"
    /\ status = "degraded"
    /\ recovery # NoEdit
    /\ Verified(recovery, acl, groups)
    /\ status' = Healthy
    /\ recovery' = NoEdit
    /\ UNCHANGED <<disk, acl, groups, fileId, active, directory, healthy,
                   phase, edit, faults>>

-----------------------------------------------------------------------------
(* The other operations.                                                   *)

\* Mutant: the revision stays.
WithoutBump(policy, e) ==
    [version |-> policy.version,
     names |-> [policy.names EXCEPT ![e] = {}],
     ids |-> [policy.ids EXCEPT ![e] = 0],
     grants |-> [policy.grants EXCEPT ![e] = {}]]

Without(policy, e) ==
    [version |-> policy.version + 1,
     names |-> [policy.names EXCEPT ![e] = {}],
     ids |-> [policy.ids EXCEPT ![e] = 0],
     grants |-> [policy.grants EXCEPT ![e] = {}]]

Nonempty(policy) == IF In(policy) = {} THEN NoPolicy ELSE policy

MayForget(e) ==
    /\ phase = "idle"
    /\ status = "degraded"
    /\ e \in In(active)
    /\ active.version < MaxVersion

\* forget_entry_policy_only: no Windows permission changes.
Forget(e) ==
    /\ MayForget(e)
    /\ LET replacement == Nonempty(Without(active, e)) IN
        /\ policyFile' = replacement
        /\ active' = replacement
        /\ status' = IF replacement = NoPolicy THEN "never" ELSE "degraded"
    /\ recovery' = NoEdit
    /\ UNCHANGED <<directoryFile, mirror, acl, groups, fileId, directory,
                   healthy, phase, edit, faults>>

\* The file was replaced although the write reports failure.
ForgetFails(e) ==
    /\ MayForget(e)
    /\ Fault
    /\ policyFile' = Nonempty(Without(active, e))
    /\ UNCHANGED <<directoryFile, mirror, acl, groups, fileId, memory, phase, edit>>

\* save_access_directory_for_caller, by a member of the group: its local group is
\* brought up to date before the directory is replaced.  The active policy is
\* refreshed before the operation lock is released.
SaveDirectory(members) ==
    /\ phase = "idle"
    /\ healthy
    /\ Version(active) < MaxVersion
    /\ mirror' = members
    /\ directoryFile' = members
    /\ directory' = members
    /\ phase' =
        IF active # NoPolicy /\
            (members # mirror \/ \E e \in Entries : Fleet \in active.names[e])
        THEN "refresh" ELSE "idle"
    /\ UNCHANGED <<policyFile, acl, groups, fileId, active, status, healthy,
                   recovery, edit, faults>>

\* A write fails: the directory was replaced all the same, or the local group
\* could not be restored.
SaveDirectoryFails(members) ==
    /\ phase = "idle"
    /\ healthy
    /\ Fault
    /\ directoryFile' \in {directoryFile, members}
    /\ mirror' \in {mirror, members}
    /\ UNCHANGED <<policyFile, acl, groups, fileId, memory, phase, edit>>

\* refresh_active_policy_for_access_directory_change: the same entries again.
Refresh ==
    /\ phase = "refresh"
    /\ Begin(Resolve(active.version + 1, active.names))

\* apply refuses before its first write: a container is gone, the checkpoint
\* does not hold, or a lookup or a snapshot fails.
RefreshRefused ==
    /\ phase = "refresh"
    /\ phase' = "idle"
    /\ \/ /\ \/ \E e \in In(active) : fileId[e] = 0
             \/ ~MayMutate(active)
          /\ UNCHANGED faults
       \/ Fault
    /\ UNCHANGED <<disk, acl, groups, fileId, memory, edit>>

\* load_at_startup_after_mount_cleanup, after a stop or a crash anywhere.
\* Either file may be unreadable, and any check may fail.
Restart(policyRead, directoryRead) ==
    /\ Fault
    /\ healthy' = directoryRead
    /\ directory' = IF directoryRead THEN directoryFile ELSE {}
    /\ active' = IF policyRead THEN policyFile ELSE NoPolicy
    /\ status' \in
        IF active' = NoPolicy THEN {"never"}
        ELSE IF healthy' /\ Revalidated(active', directory', acl, groups)
        THEN {"current", "degraded"} ELSE {"degraded"}
    /\ recovery' = NoEdit
    /\ Finish
    /\ UNCHANGED <<disk, acl, groups, fileId>>

\* Someone replaces or deletes a container.  The edit in progress holds the
\* containers it changes open, so that nobody can.
ReplaceFile(e) ==
    /\ Fault
    /\ fileId[e] # 0
    /\ fileId' = [fileId EXCEPT ![e] = IF @ = MaxFile THEN 0 ELSE @ + 1]
    /\ edit # NoEdit => e \notin Changed(edit.new)
    /\ acl' = [acl EXCEPT ![e] = Open]
    /\ UNCHANGED <<disk, groups, memory, phase, edit>>

-----------------------------------------------------------------------------
Next ==
    \/ \E names \in [Entries -> Grants \cup {{}}] : Apply(names)
    \/ Clear
    \/ \E e \in Entries :
        \/ ReconcileGroup(e)
        \/ ApplyAcl(e)
        \/ Decommission(e)
        \/ SkipMissing(e)
        \/ DeleteGroup(e)
        \/ DecommissionRefused(e)
        \/ Forget(e)
        \/ ForgetFails(e)
        \/ ReplaceFile(e)
    \/ WriteFails
    \/ Commit
    \/ CommitFails
    \/ Rollback
    \/ RollbackFails
    \/ Read
    \/ \E members \in Memberships :
        \/ SaveDirectory(members)
        \/ SaveDirectoryFails(members)
    \/ Refresh
    \/ RefreshRefused
    \/ \E policyRead, directoryRead \in BOOLEAN :
        Restart(policyRead, directoryRead)

Spec == Init /\ [][Next]_vars

\* The panel asks for the policy again and again.
FairSpec == Spec /\ WF_vars(Read)

-----------------------------------------------------------------------------
(* Properties.                                                             *)

\* A policy that is shown as current, and authorizes mounts, is the one on
\* disk, whatever failed before: an edit whose file replacement is in doubt
\* leaves the policy degraded.
CurrentIsDurable ==
    phase = "idle" /\ status = "current" => policyFile = active

\* The file that the edit left in the policy.
Same(e) == fileId'[e] = edit.ids[e] /\ fileId'[e] # 0

\* The edit does not concern the entry: at most its container was replaced.
Untouched(e) ==
    /\ groups'[e] = edit.groups[e]
    /\ acl'[e] \in {edit.acl[e], Open}
    /\ Same(e) => acl'[e] = edit.acl[e]

\* Entry by entry, what an edit leaves is as before it or as planned.
HalfDone ==
    /\ policyFile' \in {edit.policy, edit.new}
    /\ \A e \in Entries :
        IF e \in Changed(edit.new)
        THEN /\ acl'[e] \in {edit.acl[e], edit.new.grants[e]}
             /\ Members(groups'[e]) \subseteq Members(edit.groups[e]) \cup Target(e)
        ELSE IF e \in Removed(edit.new)
        THEN /\ acl'[e] \in {edit.acl[e], Open}
             /\ groups'[e] \in {edit.groups[e], NoGroup}
        ELSE Untouched(e)

\* All of the plan was carried out, or all is as before.
AllOrNothing ==
    IF active' = edit.new /\ policyFile' = edit.new
    THEN \A e \in Entries :
        IF e \in Changed(edit.new)
        THEN /\ acl'[e] = edit.new.grants[e]
             /\ Target(e) # {} => groups'[e] = Target(e)
        ELSE IF e \in Removed(edit.new)
        THEN groups'[e] = NoGroup /\ (fileId'[e] # 0 => acl'[e] = Open)
        ELSE Untouched(e)
    ELSE /\ policyFile' = edit.policy
         /\ groups' = edit.groups
         /\ \A e \in In(active) \cup Changed(edit.new) : acl'[e] = edit.acl[e]

\* The service died.
Died ==
    \E policyRead, directoryRead \in BOOLEAN : Restart(policyRead, directoryRead)

\* An edit that the service itself ends, and after which the policy is not
\* degraded, is all or nothing.  However it ends, by the death of the service
\* between two writes or by a rollback that fails, every ACL is the old or the
\* planned one, nobody is in a group who was neither there before nor planned,
\* and nothing else was touched.  What the service shows as current when it
\* comes back after dying is in force; the containers outside that policy, and
\* all of them when no policy is shown, may be half changed.
EditIsAtomic ==
    [][ edit # NoEdit /\ edit' = NoEdit =>
            /\ HalfDone
            /\ status' # "degraded" /\ ~Died => AllOrNothing
            /\ status' = "current" /\ Died =>
                \A e \in In(active') : acl'[e] = active'.grants[e]
      ]_vars

\* Two policies shown one after the other differ by one revision, also when a
\* write in doubt, a restart or a forgotten entry comes between them, so that a
\* draft of one is never taken for a draft of the other.
RevisionsAdvance ==
    [][ (active # NoPolicy /\ active' # NoPolicy /\ active' # active) =>
            active'.version = active.version + 1 ]_vars

\* The active policy is in force: on disk, and in Windows.
InForce ==
    /\ healthy /\ policyFile = active /\ directoryFile = directory
    /\ \A e \in In(active) :
        /\ fileId[e] = active.ids[e]
        /\ acl[e] = active.grants[e]
        /\ active.grants[e] = Plan(e, active.names[e], directory)
        /\ Direct(e, active.names[e], directory) \in {{}, groups[e]}

\* So are the entries that the failed edit was to add as it found them.
NothingAdded ==
    \A e \in Entries \ In(active) :
        /\ acl[e] = recovery.acl[e] /\ groups[e] = recovery.groups[e]
        /\ e \in In(recovery.new) => fileId[e] = recovery.new.ids[e]

\* An edit failed and was undone, and yet the policy is degraded, since the
\* verification that followed failed.
Unrecognized ==
    /\ phase = "idle" /\ status = "degraded" /\ recovery # NoEdit
    /\ InForce /\ NothingAdded
    /\ directory = recovery.directory

\* A policy does not stay degraded once its permissions and those of the entries
\* that the edit was to add are right and nobody changes them: what the later
\* reads look at is neither more nor other than that, also when no policy was
\* ever applied or an entry is in neither policy.
RecoveryVerified == []<>~Unrecognized
=============================================================================
