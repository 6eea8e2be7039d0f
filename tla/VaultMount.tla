----------------------------- MODULE VaultMount -----------------------------
(***************************************************************************)
(* The mount broker of the SYSTEM service (commander-svc/src/vault_mount.rs *)
(* and vault_mount_recovery.rs): the in-memory map of active mounts, the    *)
(* durable registry written beside it, and the recovery state that keeps    *)
(* the two honest when the encrypted-volume driver, the Pro broker, the     *)
(* file system, Syncthing or the service itself fails between two steps.    *)
(*                                                                          *)
(* Every operation runs under the `operation` mutex, so at most one record  *)
(* `op` is in progress; what the service cannot lock (the driver's slots,   *)
(* logons, crashes) moves between its steps.  A vault entry stands for its  *)
(* container too: entry ids and containers are one to one.                  *)
(***************************************************************************)
EXTENDS Integers, FiniteSets

CONSTANTS
    Entries,     \* vault entry ids
    Policy,      \* entries of the managed policy; the others are personal
    PerUser,     \* entries presented in one logon only; the others Machine
    SyncOn,      \* per-user entries whose owner opted into Syncthing
    Users,       \* account SIDs
    Owner,       \* personal entry -> the account that registered it
    Admins,      \* accounts whose token is elevated
    Logons,      \* logon sessions (authentication id with its session)
    UserOf,      \* logon -> account
    Slots,       \* driver slots (internal_drive)
    MaxMounts,   \* MAX_DURABLE_MOUNTS
    MaxGen,      \* bound: volumes opened in one behaviour
    MaxFaults,   \* bound: failures, crashes and outside interference
    Foreign,     \* a container that is no vault
    NoMount, NoOp, NoReply

ASSUME EntriesAssumption ==
    /\ IsFiniteSet(Entries)
    /\ Policy \subseteq Entries
    /\ PerUser \subseteq Entries
    /\ SyncOn \subseteq PerUser
    /\ Foreign \notin Entries
ASSUME AccountsAssumption ==
    /\ Owner \in [Entries -> Users]
    /\ Admins \subseteq Users
    /\ UserOf \in [Logons -> Users]
ASSUME BoundsAssumption ==
    /\ MaxMounts \in Nat
    /\ MaxGen \in Nat
    /\ MaxFaults \in Nat

VARIABLES
    up,        \* "down", "boot", "up" or "stopping"
    reg,       \* active mounts, durable registry and RecoveryState
    slots,     \* what the driver holds in each slot: a volume, 0 if empty
    volumes,   \* the volumes opened so far and whose container each one is
    alias,     \* volumes whose drive letter still resolves
    ended,     \* logons that are over
    bound,     \* entries with a Syncthing folder
    syncing,   \* entries whose Syncthing folder is running
    grants,    \* policy entry -> accounts it authorizes
    requests,  \* mount requests authorized and not yet holding the lock
    targets,   \* mounts captured by the session-change callback
    enroll,    \* an enrolment waiting for its prerequisite download
    op,        \* the operation holding the lock
    reply,     \* the answer the last step sent, if it sent one
    faults     \* failures so far

driver == <<slots, volumes, alias>>
sync == <<bound, syncing>>
waiting == <<requests, targets, enroll>>
vars == <<up, reg, driver, ended, sync, grants, waiting, op, reply, faults>>

-----------------------------------------------------------------------------
Gens == 1 .. MaxGen

\* ActiveMount: `id` is engine_mount_identity (0: None), `vol` the volume the
\* broker really opened for it (mounted_at tells two of them apart), `absent`
\* is driver_slot_absent.  Presentation and ownership follow from the entry.
\* valid_durable_mount refuses a record that is absent and needs no cleanup.
Mount == {m \in [logon : Logons, slot : Slots, id : 0 .. MaxGen, vol : Gens,
                 managed : BOOLEAN, unresolved : BOOLEAN,
                 cleanup : BOOLEAN, absent : BOOLEAN] :
             m.absent => m.cleanup}

Table == [Entries -> Mount \cup {NoMount}]

\* VaultMountBroker.active and RecoveryState, with the registry file.
Registry == [active : Table, durable : Table, untrusted : BOOLEAN,
             recoverable : BOOLEAN, persist : SUBSET Entries,
             removal : SUBSET Entries]

NoTable == [e \in Entries |-> NoMount]

Recorded(table) == {e \in Entries : table[e] # NoMount}

\* Mutant: one record too many is admitted.
HasCapacityOffByOne(table) == Cardinality(Recorded(table)) <= MaxMounts

HasCapacity(table) == Cardinality(Recorded(table)) < MaxMounts

Live(e) == \E s \in Slots : slots[s] # 0 /\ volumes[slots[s]] = e

Opened == {g \in Gens : volumes[g] # NoMount}

RequiresPause(e, m) == m.managed \/ (e \in PerUser /\ m.unresolved)

\* live_mount_matches: the slot is empty, holds this very mount, or is unknown.
Matches(m) == ~m.absent /\ m.id # 0 /\ slots[m.slot] = m.id
\* Mutant: the identity in the slot is not compared.
UnknownBySlotOnly(m) == slots[m.slot] # 0 /\ (m.absent \/ m.id = 0)

Unknown(m) == slots[m.slot] # 0 /\ ~Matches(m)

\* Mutant: the letter is taken to vanish with its volume.
LetterAssumedGone(m, letters) == TRUE

\* The presented letter resolves to nothing, or to another volume.
LetterGone(m, letters) == m.vol \notin letters

Put(r, e, m) == [r EXCEPT !.active[e] = m]

\* A successful persist_active.  Its own size check never refuses: see
\* WithinCapacity.
Persisted(r) == [r EXCEPT !.durable = r.active, !.persist = {}]

Retained(r, e, m, written) ==
    IF written THEN Persisted(Put(r, e, m))
               ELSE [Put(r, e, m) EXCEPT !.persist = @ \cup {e}]

Cleared(r, e, written) ==
    IF written THEN Persisted(Put(r, e, NoMount))
               ELSE [r EXCEPT !.removal = @ \cup {e}]

Untrusted(r) == [r EXCEPT !.untrusted = TRUE, !.recoverable = FALSE]

\* Mutant: a failed closing write is not remembered.
RetiredForgetful(r, e, written) == IF written THEN Persisted(r) ELSE r

\* The closing write of both dismount paths.
Retired(r, e, written) ==
    IF written THEN Persisted(r) ELSE [r EXCEPT !.persist = @ \cup {e}]

-----------------------------------------------------------------------------
\* reconcile_absent_mounts_locked: records whose slot is gone are dropped when
\* nothing of them is left, and flagged for cleanup otherwise.  `known` is
\* FALSE when the logon or alias probe fails.
Missing(r) == {e \in Recorded(r.active) : slots[r.active[e].slot] = 0}

\* Mutant: the pause still owed is not looked at.
DroppableUnpaused(r) ==
    {e \in Missing(r) : /\ e \in PerUser
                        /\ r.active[e].logon \in ended
                        /\ LetterGone(r.active[e], alias)}

Droppable(r) ==
    {e \in Missing(r) : /\ e \in PerUser
                        /\ r.active[e].logon \in ended
                        /\ LetterGone(r.active[e], alias)
                        /\ ~RequiresPause(e, r.active[e])}

\* Mutant: the slot is marked absent without asking for cleanup.
SweptUncleaned(r, known) ==
    [e \in Entries |->
        IF known /\ e \in Droppable(r) THEN NoMount
        ELSE IF e \in Missing(r) THEN [r.active[e] EXCEPT !.absent = TRUE]
             ELSE r.active[e]]

Swept(r, known) ==
    [e \in Entries |->
        IF known /\ e \in Droppable(r) THEN NoMount
        ELSE IF e \in Missing(r)
             THEN [r.active[e] EXCEPT !.cleanup = TRUE, !.absent = TRUE]
             ELSE r.active[e]]

Accounted(table) ==
    \A s \in Slots : slots[s] # 0 =>
        \E e \in Recorded(table) : table[e].slot = s /\ Matches(table[e])

Reconciled(r, known) ==
    LET table == Swept(r, known)
        q == IF table = r.active THEN r
             ELSE Persisted([r EXCEPT !.active = table])
    IN  IF q.recoverable /\ Accounted(table)
        THEN [q EXCEPT !.untrusted = FALSE, !.recoverable = FALSE]
        ELSE q

\* It gives up at once, or when the driver or the registry file fails it.
ReconcileRefused(r) == r.untrusted /\ ~r.recoverable
ReconcileMayFail(r) == r.untrusted \/ Recorded(r.active) # {}

\* recovery_allows_entry: a known repair is retried before a mount.
Blocked(r, e) == ReconcileRefused(r) \/ e \in r.persist \/ r.removal # {}

Repaired(r) ==
    Persisted([r EXCEPT !.removal = {},
                        !.active = [e \in Entries |->
                            IF e \in r.removal THEN NoMount ELSE r.active[e]]])

Admitted(e, known) ==
    LET q == Reconciled(reg, known)
    IN  IF Blocked(q, e) THEN Repaired(q) ELSE q

Admissible(e, known) ==
    LET q == Reconciled(reg, known)
    IN  ~ReconcileRefused(reg) /\ (Blocked(q, e) => ~q.untrusted)

-----------------------------------------------------------------------------
Spend(n) == faults + n <= MaxFaults /\ faults' = faults + n

Cost(good) == IF good THEN 0 ELSE 1

Idle == up = "up" /\ op = NoOp

Answer(e, l, state) == [e |-> e, l |-> l, state |-> state]

OpMount == [pc : {"opened", "badReply", "badRoot", "unseen", "unsaved",
                  "resume", "client", "clientShut", "member", "memberShut",
                  "enroll"},
            e : Entries, l : Logons, m : Mount, live : BOOLEAN,
            over : BOOLEAN, ok : BOOLEAN]
OpBoot == [pc : {"boot"}, todo : SUBSET Entries, keep : Table]

\* What stands for nothing is none of the things it stands beside.
ASSUME SentinelsAssumption ==
    /\ NoMount \notin Entries \cup {Foreign} \cup Mount
    /\ NoOp \notin OpMount \cup OpBoot

Targets == [require : BOOLEAN, mounts : Table]
NoTargets == [require |-> FALSE, mounts |-> NoTable]

TypeOK ==
    /\ up \in {"down", "boot", "up", "stopping"}
    /\ reg \in Registry
    /\ slots \in [Slots -> 0 .. MaxGen]
    /\ volumes \in [Gens -> Entries \cup {Foreign, NoMount}]
    /\ alias \subseteq Gens
    /\ ended \subseteq Logons
    /\ bound \subseteq Entries
    /\ syncing \subseteq Entries
    /\ grants \in [Policy -> SUBSET Users]
    /\ requests \subseteq Policy \X Logons
    /\ targets \in Targets
    /\ enroll \in [e : Entries, l : Logons, m : Mount] \cup {NoOp}
    /\ op \in OpMount \cup OpBoot \cup {NoOp}
    /\ reply \in [e : Entries, l : Logons,
                  state : {"Mounted", "Unmounted"}] \cup {NoReply}
    /\ faults \in 0 .. MaxFaults

EmptyRegistry ==
    [active |-> NoTable, durable |-> NoTable, untrusted |-> FALSE,
     recoverable |-> FALSE, persist |-> {}, removal |-> {}]

Init ==
    /\ up = "up"
    /\ reg = EmptyRegistry
    /\ slots = [s \in Slots |-> 0]
    /\ volumes = [g \in Gens |-> NoMount]
    /\ alias = {}
    /\ ended = {}
    /\ bound \in SUBSET SyncOn
    /\ syncing = {}
    /\ grants = [e \in Policy |-> Users]
    /\ requests = {}
    /\ targets = NoTargets
    /\ enroll = NoOp
    /\ op = NoOp
    /\ reply = NoReply
    /\ faults = 0

-----------------------------------------------------------------------------
(* Mounting.                                                               *)

\* handle_vault_mount asks the policy before it waits for the driver check,
\* without the operation lock.
Authorize(e, l) ==
    /\ up = "up"
    /\ l \notin ended
    /\ UserOf[l] \in grants[e]
    /\ requests' = requests \cup {<<e, l>>}
    /\ reply' = NoReply
    /\ UNCHANGED <<up, reg, driver, ended, sync, grants, targets, enroll, op,
                   faults>>

\* A personal vault is mounted by its owner, or repaired by an administrator
\* when it is presented machine-wide.
Requested(e, l) ==
    \/ e \in Policy /\ <<e, l>> \in requests
    \/ /\ e \notin Policy
       /\ l \notin ended
       /\ \/ UserOf[l] = Owner[e]
          \/ e \notin PerUser /\ UserOf[l] \in Admins

Consumed(e, l) == requests' = requests \ {<<e, l>>}

\* recovery_allows_entry says no.
MountRefused(e, l) ==
    /\ Idle
    /\ Requested(e, l)
    /\ \/ ReconcileRefused(reg) /\ reg' = reg /\ Spend(0)
       \/ /\ ~ReconcileRefused(reg) /\ ReconcileMayFail(reg)
          /\ reg' = reg /\ Spend(1)
       \/ /\ ~ReconcileRefused(reg)
          /\ reg' = Reconciled(reg, TRUE)
          /\ Blocked(reg', e)
          /\ Spend(Cost(reg'.untrusted))
    /\ Consumed(e, l)
    /\ reply' = NoReply
    /\ UNCHANGED <<up, driver, ended, sync, grants, targets, enroll, op>>

\* The entry is recorded already, the registry is full, no letter is free or
\* the broker fails; a broker whose answer was lost may have opened a volume.
MountDeclined(e, l) ==
    /\ Idle
    /\ Requested(e, l)
    /\ \E known \in BOOLEAN :
        /\ Admissible(e, known)
        /\ reg' = Admitted(e, known)
        /\ Spend(Cost(known) + Cost(reg'.active[e] # NoMount
                                    \/ ~HasCapacity(reg'.active)))
    /\ Consumed(e, l)
    /\ reply' = NoReply
    /\ UNCHANGED <<up, driver, ended, sync, grants, targets, enroll, op>>

\* The driver opens a container once, in an empty slot.
Opens(e, s, g) ==
    /\ slots[s] = 0
    /\ g = Cardinality(Opened) + 1
    /\ ~Live(e)
    /\ slots' = [slots EXCEPT ![s] = g]
    /\ volumes' = [volumes EXCEPT ![g] = e]
    /\ alias' = alias \cup {g}

MountOpen(e, l) ==
    /\ Idle
    /\ Requested(e, l)
    /\ \E known, heard \in BOOLEAN, s \in Slots, g \in Gens :
        /\ Admissible(e, known)
        /\ reg' = Admitted(e, known)
        /\ reg'.active[e] = NoMount
        /\ HasCapacity(reg'.active)
        /\ Opens(e, s, g)
        /\ Spend(Cost(known) + Cost(heard))
        /\ op' = IF heard
                 THEN [pc |-> "opened", e |-> e, l |-> l, live |-> TRUE,
                       over |-> FALSE, ok |-> FALSE,
                       m |-> [logon |-> l, slot |-> s, id |-> 0, vol |-> g,
                              managed |-> FALSE, unresolved |-> e \in SyncOn,
                              cleanup |-> FALSE, absent |-> FALSE]]
                 ELSE NoOp
    /\ Consumed(e, l)
    /\ reply' = NoReply
    /\ UNCHANGED <<up, ended, sync, grants, targets, enroll>>

At(pc) == op # NoOp /\ op.pc = pc

\* The root of a machine-wide policy drive lists the accounts the policy grants
\* now (mount_plan is read under the lock), and the broker's answer is believed
\* only when the caller's own token can list it.
CanList(e, l) == e \in Policy /\ e \notin PerUser => UserOf[l] \in grants[e]

\* The reply is malformed or its ACL unattested, or the caller cannot list
\* the root of the machine-wide drive: no failure if its grant is gone.
MountRejected ==
    /\ At("opened")
    /\ \E pc \in {"badReply", "badRoot"} :
        /\ pc = "badRoot" => op.e \notin PerUser
        /\ op' = [op EXCEPT !.pc = pc]
        /\ Spend(Cost(pc = "badRoot" /\ ~CanList(op.e, op.l)))
    /\ reply' = NoReply
    /\ UNCHANGED <<up, reg, driver, ended, sync, grants, waiting>>

\* The identity the driver reports is recorded and saved before the mount is
\* announced.
MountRecord ==
    /\ At("opened")
    /\ CanList(op.e, op.l)
    /\ \E looked, written, again \in BOOLEAN :
        LET e == op.e
            seen == IF looked THEN slots[op.m.slot] ELSE 0
            m == [op.m EXCEPT !.id = seen]
        IN  /\ Spend(Cost(looked) + Cost(written) + Cost(again))
            /\ seen = 0 => written
            /\ (seen = 0 \/ ~written \/ e \in SyncOn \/ e \in Policy) => again
            /\ reg' = IF seen # 0 /\ written THEN Persisted(Put(reg, e, m))
                      ELSE IF seen # 0 /\ e \notin Policy THEN Put(reg, e, m)
                      ELSE reg
            /\ op' = IF seen = 0 THEN [op EXCEPT !.pc = "unseen"]
                     ELSE IF ~written
                          THEN [op EXCEPT !.pc = "unsaved", !.m = m]
                     ELSE IF e \in SyncOn
                          THEN [op EXCEPT !.pc = "resume", !.m = m]
                     ELSE NoOp
            /\ reply' = IF seen # 0 /\ written /\ again /\ e \notin SyncOn
                        THEN Answer(e, op.l, "Mounted") ELSE NoReply
    /\ UNCHANGED <<up, driver, ended, sync, grants, waiting>>

\* What a dismount call of the Pro broker may do: close the slot or not,
\* whatever it answers, and remove the presented letter.
Closes(m, ok, shut, clean) ==
    /\ slots' = IF shut THEN [slots EXCEPT ![m.slot] = 0] ELSE slots
    /\ alias' = IF clean THEN alias \ {m.vol} ELSE alias

CloseCost(m, ok, shut) == Cost(ok /\ (shut \/ slots[m.slot] = 0))

\* A rejected mount is closed again; only the personal path with a refused
\* root keeps a record when that fails.
MountDiscard ==
    /\ At("badReply") \/ At("badRoot")
    /\ \E ok, shut, clean, looked, written \in BOOLEAN :
        LET e == op.e
            keeps == op.pc = "badRoot" /\ e \notin Policy /\ ~ok
            m == [op.m EXCEPT !.cleanup = TRUE,
                              !.id = IF looked THEN slots'[op.m.slot] ELSE 0]
        IN  /\ Closes(op.m, ok, shut, clean)
            /\ ~keeps => looked /\ written
            /\ Spend(CloseCost(op.m, ok, shut) + Cost(looked) + Cost(written))
            /\ reg' = IF ~keeps THEN reg
                      ELSE IF written THEN Retained(reg, e, m, TRUE)
                      ELSE Untrusted(Retained(reg, e, m, FALSE))
    /\ op' = NoOp
    /\ reply' = NoReply
    /\ UNCHANGED <<up, volumes, ended, sync, grants, waiting>>

\* A mount whose identity was not seen or not saved is closed again.
MountUndo ==
    /\ At("unseen") \/ At("unsaved")
    /\ \E ok, shut, clean, looked, written \in BOOLEAN :
        LET e == op.e
            gone == ok /\ looked /\ slots'[op.m.slot] = 0
            m == [op.m EXCEPT !.cleanup = TRUE,
                              !.unresolved = @ /\ e \notin Policy]
            forgets == e \in Policy /\ (op.pc = "unsaved" \/ gone)
        IN  /\ Closes(op.m, ok, shut, clean)
            /\ ok => clean
            /\ forgets => written
            /\ Spend(CloseCost(op.m, ok, shut) + Cost(looked) + Cost(written))
            /\ reg' = IF forgets THEN reg
                      ELSE IF gone THEN Cleared(reg, e, written)
                      ELSE Retained(Untrusted(reg), e, m, written)
    /\ op' = NoOp
    /\ reply' = NoReply
    /\ UNCHANGED <<up, volumes, ended, sync, grants, waiting>>

\* vault.syncthing.resume: the adapter answers whether a folder is bound, or
\* fails after or before it started it (mounted_syncthing_result).
Resumes(e, answered, started) ==
    /\ started => e \in bound
    /\ answered => started = (e \in bound)
    /\ syncing' = IF started THEN syncing \cup {e} ELSE syncing

\* Mutant: a resume that failed is taken for one that did nothing.
AfterResumeOptimistic(e, m, answered) ==
    [m EXCEPT !.managed = answered /\ e \in bound, !.unresolved = FALSE]

AfterResume(e, m, answered) ==
    IF answered THEN [m EXCEPT !.managed = e \in bound, !.unresolved = FALSE]
                ELSE [m EXCEPT !.unresolved = TRUE]

MountResume ==
    /\ At("resume")
    /\ \E answered, started, opted, written \in BOOLEAN :
        LET e == op.e
            m == [AfterResume(e, op.m, answered)
                     EXCEPT !.unresolved = @ \/ ~opted]
        IN  /\ Resumes(e, answered, started)
            /\ ~opted => answered /\ e \notin Policy
            /\ Spend(Cost(answered) + Cost(opted) + Cost(written))
            /\ reg' = IF written THEN Persisted(Put(reg, e, m))
                                 ELSE Put(reg, e, m)
            /\ reply' = IF written THEN Answer(e, op.l, "Mounted") ELSE NoReply
    /\ op' = NoOp
    /\ UNCHANGED <<up, driver, ended, bound, grants, waiting>>

-----------------------------------------------------------------------------
(* Dismounting.                                                            *)

\* vault.syncthing.pause, confirmed or not.
Pauses(e, m, confirmed) ==
    IF ~RequiresPause(e, m) THEN confirmed /\ syncing' = syncing
    ELSE IF confirmed THEN syncing' = syncing \ {e}
    ELSE syncing' \in {syncing, syncing \ {e}}

AfterPause(e, m) ==
    IF RequiresPause(e, m)
    THEN [m EXCEPT !.managed = @ \/ e \in bound, !.unresolved = FALSE]
    ELSE m

Closing(pc, e, l, m, over) ==
    [pc |-> pc, e |-> e, l |-> l, m |-> m, live |-> slots[m.slot] # 0,
     over |-> over, ok |-> FALSE]

\* dismount_entry_locked_for_client_inner up to the broker call: the record
\* leaves the map, and returns to it when the pause or the identity check
\* fails.
StartClient(r, e, l, cost) ==
    \E confirmed, looked \in BOOLEAN :
        LET m == AfterPause(e, r.active[e])
        IN  /\ Pauses(e, r.active[e], confirmed)
            /\ ~confirmed => looked
            /\ Spend(cost + Cost(confirmed) + Cost(looked))
            /\ IF ~confirmed
               THEN reg' = r /\ op' = NoOp
               ELSE IF ~looked \/ Unknown(m)
               THEN reg' = Put(r, e, m) /\ op' = NoOp
               ELSE /\ reg' = Put(r, e, NoMount)
                    /\ op' = Closing("client", e, l, m, FALSE)

\* dismount_entry_locked_for_authorized_member up to the broker call.
StartMember(r, e, l, over, cost) ==
    \E looked \in BOOLEAN :
        LET m == r.active[e]
        IN  /\ Spend(cost + Cost(looked))
            /\ IF ~looked \/ Unknown(m)
               THEN reg' = r /\ op' = NoOp
               ELSE /\ reg' = Put(r, e, NoMount)
                    /\ op' = Closing("member", e, l, m, over)

\* Mutant: the recorded owner is recognised by the logon, not the account.
PermittedSameLogon(e, m, l) ==
    IF e \in Policy
    THEN UserOf[l] \in grants[e] \/ (e \in PerUser /\ m.logon = l)
    ELSE m.logon = l \/ (e \notin PerUser /\ UserOf[l] \in Admins)

\* dismount_permission: for a policy vault the accounts the policy authorizes,
\* and the recorded owner of a per-user mount; for a personal one its recorded
\* owner, or an administrator when it is machine-wide.
Permitted(e, m, l) ==
    LET owns == UserOf[m.logon] = UserOf[l]
    IN  IF e \in Policy
        THEN UserOf[l] \in grants[e] \/ (e \in PerUser /\ owns)
        ELSE owns \/ (e \notin PerUser /\ UserOf[l] \in Admins)

\* dismount_authorized_locked for a recorded entry, and the lookup by slot of
\* dismount_personal_for_caller, which finds one of the records of the slot.
Dismount(e, l) ==
    /\ Idle
    /\ l \notin ended
    /\ reg.active[e] # NoMount
    /\ Permitted(e, reg.active[e], l)
    /\ LET old == reg.active[e]
           own == UserOf[old.logon] = UserOf[l]
       IN  \/ /\ ReconcileRefused(reg) \/ ReconcileMayFail(reg)
              /\ Spend(Cost(ReconcileRefused(reg)))
              /\ reply' = NoReply
              /\ UNCHANGED <<reg, op, syncing>>
           \/ \E known \in BOOLEAN :
              LET r == Reconciled(reg, known)
              IN  /\ ~ReconcileRefused(reg)
                  /\ IF r.active[e] = NoMount
                     THEN /\ reg' = r /\ Spend(Cost(known))
                          /\ reply' = Answer(e, l, "Unmounted")
                          /\ UNCHANGED <<op, syncing>>
                     ELSE /\ reply' = NoReply
                          /\ \/ /\ Unknown(old)
                                /\ reg' = r /\ Spend(Cost(known))
                                /\ UNCHANGED <<op, syncing>>
                             \/ /\ ~Unknown(old) /\ old.logon = l
                                /\ StartClient(r, e, l, Cost(known))
                             \/ /\ ~Unknown(old) /\ old.logon # l
                                /\ RequiresPause(e, old)
                                /\ reg' = r
                                /\ UNCHANGED op
                                /\ IF own THEN Pauses(e, old, FALSE) /\ Spend(Cost(known) + 1)
                                          ELSE UNCHANGED syncing /\ Spend(Cost(known))
                             \/ /\ ~Unknown(old) /\ old.logon # l
                                /\ RequiresPause(e, old) => own
                                /\ Pauses(e, old, TRUE)
                                /\ StartMember(r, e, l, known /\ old.logon \in ended,
                                               Cost(known))
    /\ UNCHANGED <<up, driver, ended, bound, grants, waiting>>

\* Mutant: the retry trusts the map alone.
AlreadyUnmountedByMap(e, l) ==
    /\ Idle
    /\ l \notin ended
    /\ UserOf[l] \in grants[e]
    /\ reg.active[e] = NoMount
    /\ ~reg.untrusted /\ reg.persist = {} /\ reg.removal = {}
    /\ reply' = Answer(e, l, "Unmounted")
    /\ UNCHANGED <<up, reg, driver, ended, sync, grants, waiting, op, faults>>

\* confirm_unmounted_policy_entry: a retry is told the vault is closed only
\* when every slot of the driver is accounted for by one record.
AlreadyUnmounted(e, l) ==
    /\ Idle
    /\ l \notin ended
    /\ UserOf[l] \in grants[e]
    /\ reg.active[e] = NoMount
    /\ ~reg.untrusted /\ reg.persist = {} /\ reg.removal = {}
    /\ \A s \in Slots : slots[s] # 0 =>
        LET on == {f \in Recorded(reg.active) : reg.active[f].slot = s}
        IN  Cardinality(on) = 1 /\ \A f \in on : Matches(reg.active[f])
    /\ reply' = Answer(e, l, "Unmounted")
    /\ UNCHANGED <<up, reg, driver, ended, sync, grants, waiting, op, faults>>

\* The broker call.  An ended logon's private letter outlives the slot.
Shut ==
    /\ At("client") \/ At("member")
    /\ \E ok, shut, clean \in BOOLEAN :
        /\ IF op.over /\ op.e \in PerUser THEN ~clean ELSE ok => clean
        /\ Closes(op.m, ok, shut, clean)
        /\ Spend(CloseCost(op.m, ok, shut))
        /\ op' = [op EXCEPT !.ok = ok,
                            !.pc = IF op.pc = "client" THEN "clientShut"
                                                       ELSE "memberShut"]
    /\ reply' = NoReply
    /\ UNCHANGED <<up, reg, volumes, ended, sync, grants, waiting>>

Pending(m, looked) ==
    [m EXCEPT !.cleanup = TRUE,
              !.absent = ~op.live \/ (looked /\ slots[m.slot] = 0)]

\* The rest of the client path.
ClientFinish ==
    /\ At("clientShut")
    /\ \E looked, again, written, answered, started \in BOOLEAN :
        LET e == op.e
            m == op.m
            gone == op.ok /\ looked /\ slots[m.slot] = 0
            resumes == ~gone /\ m.managed
        IN  /\ gone => again
            /\ IF resumes THEN Resumes(e, answered, started)
               ELSE answered /\ ~started /\ syncing' = syncing
            /\ Spend(Cost(looked) + Cost(again) + Cost(written) + Cost(answered))
            /\ reg' = IF gone THEN Retired(reg, e, written)
                      ELSE Retained(reg, e,
                               Pending(IF resumes THEN AfterResume(e, m, answered)
                                                  ELSE m, again),
                               written)
            /\ reply' = IF gone /\ written THEN Answer(e, op.l, "Unmounted")
                        ELSE NoReply
    /\ op' = NoOp
    /\ UNCHANGED <<up, driver, ended, bound, grants, waiting>>

\* The rest of the member path: a private letter must be verified gone, a
\* machine-wide one may be gone already.
MemberFinish ==
    /\ At("memberShut")
    /\ \E looked, again, written, cleaned \in BOOLEAN :
        LET e == op.e
            m == op.m
            empty == looked /\ slots[m.slot] = 0
            privateClean == e \in PerUser /\ empty /\ cleaned
            machineClean == /\ e \notin PerUser /\ ~op.live
                            /\ LetterGone(m, alias) /\ cleaned
            gone == IF e \in PerUser THEN privateClean
                    ELSE (op.ok /\ empty) \/ machineClean
        IN  /\ gone => again
            /\ (IF e \in PerUser THEN ~empty ELSE op.live) => cleaned
            /\ Spend(Cost(looked) + Cost(again) + Cost(written) + Cost(cleaned))
            /\ alias' = IF privateClean THEN alias \ {m.vol} ELSE alias
            /\ reg' = IF gone THEN Retired(reg, e, written)
                      ELSE Retained(reg, e, Pending(m, again), written)
            /\ reply' = IF gone /\ written THEN Answer(e, op.l, "Unmounted")
                        ELSE NoReply
    /\ op' = NoOp
    /\ UNCHANGED <<up, slots, volumes, ended, sync, grants, waiting>>

\* A session-change control captures the mounts of the session while the lock
\* is free, or, when it is busy, only those whose logon is over.
SessionChange(l) ==
    /\ up = "up"
    /\ targets = NoTargets
    /\ \E require \in BOOLEAN :
        /\ ~require => op = NoOp
        /\ targets' = [require |-> require,
                       mounts |-> [e \in Entries |->
                           IF /\ reg.active[e] # NoMount
                              /\ reg.active[e].logon = l
                              /\ require => l \in ended
                           THEN reg.active[e] ELSE NoMount]]
        /\ targets'.mounts # NoTable
    /\ reply' = NoReply
    /\ UNCHANGED <<up, reg, driver, ended, sync, grants, requests, enroll, op,
                   faults>>

\* A captured mount is closed later, if the record is still the captured one.
SessionCleanup(e) ==
    /\ Idle
    /\ targets.mounts[e] # NoMount
    /\ reg.active[e] # NoMount
    /\ LET m == reg.active[e]
           captured == targets.mounts[e]
       IN  /\ m.logon = captured.logon
           /\ m.id = captured.id
           /\ m.vol = captured.vol
           /\ \/ /\ m.logon \in ended
                 /\ IF RequiresPause(e, m)
                    THEN Spend(0) /\ UNCHANGED <<reg, op>>
                    ELSE StartMember(reg, e, m.logon, TRUE, 0)
                 /\ UNCHANGED syncing
              \/ /\ m.logon \notin ended /\ ~targets.require
                 /\ StartClient(reg, e, m.logon, 0)
    /\ reply' = NoReply
    /\ UNCHANGED <<up, driver, ended, bound, grants, waiting>>

SessionCleanupEnds ==
    /\ op = NoOp
    /\ targets # NoTargets
    /\ targets' = NoTargets
    /\ reply' = NoReply
    /\ UNCHANGED <<up, reg, driver, ended, sync, grants, requests, enroll, op,
                   faults>>

-----------------------------------------------------------------------------
(* Syncthing enrolment: checked, downloaded for without the lock, checked    *)
(* again, recorded as unresolved and only then started.                      *)

EnrollEligible(e, l) ==
    /\ e \in SyncOn
    /\ reg.active[e] # NoMount
    /\ reg.active[e].logon = l
    /\ Matches(reg.active[e])

EnrollPrepare(e, l) ==
    /\ Idle
    /\ l \notin ended
    /\ enroll = NoOp
    /\ EnrollEligible(e, l)
    /\ enroll' = [e |-> e, l |-> l, m |-> reg.active[e]]
    /\ reply' = NoReply
    /\ UNCHANGED <<up, reg, driver, ended, sync, grants, requests, targets,
                   op, faults>>

EnrollMark ==
    /\ Idle
    /\ enroll # NoOp
    /\ enroll' = NoOp
    /\ LET e == enroll.e
           m == [reg.active[e] EXCEPT !.unresolved = TRUE]
           same == /\ EnrollEligible(e, enroll.l)
                   /\ reg.active[e].id = enroll.m.id
                   /\ reg.active[e].vol = enroll.m.vol
       IN  \/ ~same /\ UNCHANGED <<reg, op>> /\ Spend(0)
           \/ \E written \in BOOLEAN :
              /\ same
              /\ Spend(Cost(written))
              /\ reg' = IF written THEN Persisted(Put(reg, e, m))
                                   ELSE Put(reg, e, m)
              /\ op' = IF written THEN Closing("enroll", e, enroll.l, m, FALSE)
                                  ELSE NoOp
    /\ reply' = NoReply
    /\ UNCHANGED <<up, driver, ended, sync, grants, requests, targets>>

\* The adapter binds the folder and resumes it; any of its answers may fail.
EnrollCall ==
    /\ At("enroll")
    /\ \E binds, starts, answered, written \in BOOLEAN :
        LET m == [op.m EXCEPT !.managed = TRUE, !.unresolved = FALSE]
        IN  /\ answered => binds /\ starts
            /\ starts => binds \/ op.e \in bound
            /\ ~answered => written
            /\ Spend(Cost(answered) + Cost(written))
            /\ bound' = IF binds THEN bound \cup {op.e} ELSE bound
            /\ syncing' = IF starts THEN syncing \cup {op.e} ELSE syncing
            /\ reg' = IF ~answered THEN reg
                      ELSE IF written THEN Persisted(Put(reg, op.e, m))
                      ELSE Put(reg, op.e, m)
    /\ op' = NoOp
    /\ reply' = NoReply
    /\ UNCHANGED <<up, driver, ended, grants, waiting>>

-----------------------------------------------------------------------------
(* Policy changes.                                                         *)

\* Mutant: volumes without a record are overlooked.
ChangeAllowedByMap(e) ==
    /\ ~reg.untrusted /\ reg.persist = {} /\ reg.removal = {}
    /\ reg.active[e] = NoMount

\* reject_policy_changes_while_mounted_locked for one changed entry.
ChangeAllowed(e) ==
    /\ ~reg.untrusted /\ reg.persist = {} /\ reg.removal = {}
    /\ \A s \in Slots : slots[s] # 0 =>
        LET on == {f \in Recorded(reg.active) : reg.active[f].slot = s}
        IN  /\ Cardinality(on) = 1
            /\ \A f \in on : reg.active[f].id = slots[s] /\ f # e

ChangePolicy(e, accounts) ==
    /\ Idle
    /\ accounts # grants[e]
    /\ ChangeAllowed(e)
    /\ grants' = [grants EXCEPT ![e] = accounts]
    /\ reply' = NoReply
    /\ UNCHANGED <<up, reg, driver, ended, sync, waiting, op, faults>>

\* has_active_mounts_locked
HasActiveMounts == reg.untrusted \/ Recorded(reg.active) # {}

\* Saving an access-directory group re-applies the policy for its entries.
SaveAccessDirectory(e, accounts) ==
    /\ Idle
    /\ accounts # grants[e]
    /\ ~HasActiveMounts
    /\ grants' = [grants EXCEPT ![e] = accounts]
    /\ reply' = NoReply
    /\ UNCHANGED <<up, reg, driver, ended, sync, waiting, op, faults>>

-----------------------------------------------------------------------------
(* Stopping, crashing and starting the service.                            *)

\* dismount_all_locked closes every mount until one fails; then the process
\* ends.
Stop ==
    /\ Idle
    /\ up' = "stopping"
    /\ requests' = {}
    /\ enroll' = NoOp
    /\ reply' = NoReply
    /\ UNCHANGED <<reg, driver, ended, sync, grants, targets, op, faults>>

StopNext(e) ==
    /\ up = "stopping" /\ op = NoOp
    /\ reg.active[e] # NoMount
    /\ StartClient(reg, e, reg.active[e].logon, 0)
    /\ reply' = NoReply
    /\ UNCHANGED <<up, driver, ended, bound, grants, waiting>>

Forgotten == [EmptyRegistry EXCEPT !.durable = reg.durable]

Exits ==
    /\ up' = "down"
    /\ reg' = Forgotten
    /\ requests' = {}
    /\ targets' = NoTargets
    /\ enroll' = NoOp
    /\ op' = NoOp
    /\ reply' = NoReply

StopExit ==
    /\ up = "stopping" /\ op = NoOp
    /\ Spend(Cost(Recorded(reg.active) = {}))
    /\ Exits
    /\ UNCHANGED <<driver, ended, sync, grants>>

\* The process dies between two steps; the driver keeps its volumes.
Crash ==
    /\ up # "down"
    /\ Spend(1)
    /\ Exits
    /\ UNCHANGED <<driver, ended, sync, grants>>

\* The machine restarts: no slot, no letter and no recorded logon survives.
Reboot ==
    /\ Spend(1)
    /\ Exits
    /\ slots' = [s \in Slots |-> 0]
    /\ alias' = {}
    /\ ended' = ended \cup {reg.durable[e].logon : e \in Recorded(reg.durable)}
    /\ UNCHANGED <<volumes, sync, grants>>

\* load_and_cleanup: the registry is unreadable, at odds with the driver, or
\* cleaned entry by entry.  A missing file counts as an empty one.
BootLoad ==
    /\ up = "down"
    /\ \E read, looked \in BOOLEAN :
        LET d == reg.durable
            odd == ~looked \/ \E e \in Recorded(d) : Unknown(d[e])
        IN  /\ Spend(Cost(read) + Cost(looked))
            /\ (~read \/ d = NoTable) => looked
            /\ IF ~read
               THEN reg' = Untrusted(reg) /\ up' = "up" /\ op' = NoOp
               ELSE IF odd
               THEN /\ reg' = [reg EXCEPT !.active = d, !.untrusted = TRUE,
                                          !.recoverable = TRUE]
                    /\ up' = "up" /\ op' = NoOp
               ELSE /\ reg' = [reg EXCEPT !.active = d]
                    /\ up' = "boot"
                    /\ op' = [pc |-> "boot", todo |-> Recorded(d),
                              keep |-> NoTable]
    /\ reply' = NoReply
    /\ UNCHANGED <<driver, ended, sync, grants, waiting>>

BootEntry(e) ==
    /\ up = "boot"
    /\ e \in op.todo
    /\ \E ok, shut, clean, looked, cleaned, known \in BOOLEAN :
        LET m == reg.active[e]
            over == known /\ m.logon \in ended
            ended_private == e \in PerUser /\ over
            empty == looked /\ slots'[m.slot] = 0
            privateClean == ended_private /\ empty /\ cleaned
            machineClean == /\ e \notin PerUser /\ slots[m.slot] = 0
                            /\ LetterGone(m, alias') /\ cleaned
            closed == IF ended_private THEN privateClean
                      ELSE (ok /\ empty) \/ machineClean
            kept == [m EXCEPT !.cleanup = TRUE, !.absent = closed \/ empty]
        IN  /\ ~Unknown(m)
            /\ Closes(m, ok, shut, clean)
            /\ IF ended_private THEN clean = privateClean ELSE ok => clean
            /\ Spend(CloseCost(m, ok, shut) + Cost(looked) + Cost(cleaned) + Cost(known))
            /\ op' = [op EXCEPT !.todo = @ \ {e},
                                !.keep[e] = IF closed /\ ~RequiresPause(e, m)
                                            THEN NoMount ELSE kept]
    /\ reply' = NoReply
    /\ UNCHANGED <<up, reg, volumes, ended, sync, grants, waiting>>

\* The slot changed hands, or could not be read, after the first look.
BootAborted(e) ==
    /\ up = "boot"
    /\ e \in op.todo
    /\ Spend(Cost(Unknown(reg.active[e])))
    /\ reg' = Untrusted(reg)
    /\ up' = "up" /\ op' = NoOp
    /\ reply' = NoReply
    /\ UNCHANGED <<driver, ended, sync, grants, waiting>>

BootFinish ==
    /\ up = "boot"
    /\ op.todo = {}
    /\ \E written \in BOOLEAN :
        /\ Spend(Cost(written))
        /\ reg' = IF written
                  THEN [reg EXCEPT !.active = op.keep, !.durable = op.keep]
                  ELSE Untrusted(reg)
    /\ up' = "up" /\ op' = NoOp
    /\ reply' = NoReply
    /\ UNCHANGED <<driver, ended, sync, grants, waiting>>

-----------------------------------------------------------------------------
(* What the service does not control.                                      *)

LogonEnds(l) ==
    /\ l \notin ended
    /\ ended' = ended \cup {l}
    /\ reply' = NoReply
    /\ UNCHANGED <<up, reg, driver, sync, grants, waiting, op, faults>>

\* The user closes a volume with the encryption engine itself.
ClosedOutside(s) ==
    /\ slots[s] # 0
    /\ Spend(1)
    /\ slots' = [slots EXCEPT ![s] = 0]
    /\ reply' = NoReply
    /\ UNCHANGED <<up, reg, volumes, alias, ended, sync, grants, waiting, op>>

\* Another program opens a container of its own in a free slot.
OpenedOutside(s) ==
    /\ slots[s] = 0
    /\ Spend(1)
    /\ \E g \in Gens :
        /\ g = Cardinality(Opened) + 1
        /\ slots' = [slots EXCEPT ![s] = g]
        /\ volumes' = [volumes EXCEPT ![g] = Foreign]
    /\ reply' = NoReply
    /\ UNCHANGED <<up, reg, alias, ended, sync, grants, waiting, op>>

-----------------------------------------------------------------------------
Step ==
    \/ MountRejected \/ MountRecord \/ MountDiscard \/ MountUndo \/ MountResume
    \/ Shut \/ ClientFinish \/ MemberFinish
    \/ EnrollMark \/ EnrollCall

Boot == BootLoad \/ (\E e \in Entries : BootEntry(e) \/ BootAborted(e)) \/ BootFinish

Request ==
    \/ \E e \in Policy, l \in Logons : Authorize(e, l)
    \/ \E e \in Entries, l \in Logons :
        \/ MountRefused(e, l) \/ MountDeclined(e, l) \/ MountOpen(e, l)
        \/ Dismount(e, l)
        \/ EnrollPrepare(e, l)
    \/ \E e \in Policy, l \in Logons : AlreadyUnmounted(e, l)
    \/ \E e \in Policy, accounts \in SUBSET Users :
        ChangePolicy(e, accounts) \/ SaveAccessDirectory(e, accounts)

Service ==
    \/ \E l \in Logons : SessionChange(l)
    \/ \E e \in Entries : SessionCleanup(e) \/ StopNext(e)
    \/ SessionCleanupEnds
    \/ Stop \/ StopExit \/ Crash \/ Reboot

Outside ==
    \/ \E l \in Logons : LogonEnds(l)
    \/ \E s \in Slots : ClosedOutside(s) \/ OpenedOutside(s)

Next == Step \/ Boot \/ Request \/ Service \/ Outside

Spec == Init /\ [][Next]_vars

\* An operation that holds the lock goes on, a started service finishes its
\* boot and its stop, and an owner who keeps asking for a dismount gets the
\* lock in the end.
Fairness ==
    /\ WF_vars(Step \/ Boot \/ StopExit \/ \E e \in Entries : StopNext(e))
    /\ \A e \in Entries : SF_vars(\E l \in Logons : Dismount(e, l))

LiveSpec == Spec /\ Fairness

-----------------------------------------------------------------------------
(* Properties.                                                             *)

Obliged(r, e) == r.durable[e] # NoMount /\ RequiresPause(e, r.durable[e])

\* A Syncthing folder runs only under a durable record that obliges whoever
\* reads the registry next to pause it: mounts and enrolments save
\* syncthing_resume_unresolved before they call the adapter, and no dismount,
\* reconciliation, crash or boot cleanup drops a record whose pause is
\* unconfirmed.  Only the retry of a removal that could not be written
\* (recovery_allows_entry) may lose the obligation, and only a dismount of a
\* mount whose record could never be written may start a folder without one.
PauseObligationKept ==
    [][\A e \in syncing' \ reg.removal :
        IF e \in syncing THEN Obliged(reg, e) => Obliged(reg', e)
        ELSE Obliged(reg', e) \/ e \in reg.persist]_vars

\* The registry file gives a mount up (deletes its record, or replaces it by
\* that of a later mount) only when the volume is out of the driver and its
\* letter no longer resolves.
RetiredOnlyWhenClean ==
    [][\A e \in Entries :
        LET d == reg.durable[e]
        IN  (d # NoMount /\ (reg'.durable[e] = NoMount
                             \/ reg'.durable[e].vol # d.vol))
            => /\ \A s \in Slots : slots'[s] # d.vol
               /\ d.vol \notin alias']_vars

\* Between operations the map and the registry file name the same mounts,
\* except for those recovery still has to write or remove, unless the registry
\* is untrusted: persist_active, the pending sets and the reinsertions on every
\* error path together lose nothing.
RegistryAgrees ==
    (Idle /\ ~reg.untrusted) =>
        \A e \in Entries \ (reg.persist \cup reg.removal) :
            IF reg.active[e] = NoMount THEN reg.durable[e] = NoMount
            ELSE /\ reg.durable[e] # NoMount
                 /\ reg.durable[e].vol = reg.active[e].vol

\* reject_policy_changes_while_mounted_locked: an owner's policy edit is never
\* applied to an entry whose container is open in some slot of the driver, not
\* even when the broker lost track of that volume.
PolicyEditSafe ==
    [][\A e \in Policy, accounts \in SUBSET Users :
        ChangePolicy(e, accounts) => ~Live(e)]_vars

\* A caller is told Unmounted only when the vault's container is open nowhere,
\* whichever of the four paths answers.
UnmountedIsTrue == reply # NoReply /\ reply.state = "Unmounted" => ~Live(reply.e)

\* Closing one entry never closes the volume of another vault, though stale
\* records keep the number of a slot that a later mount may reuse.
ClosesOnlyItsOwn ==
    [][\A s \in Slots :
        /\ (Shut \/ MountDiscard \/ MountUndo) /\ slots'[s] # slots[s]
           => volumes[slots[s]] \in {op.e, Foreign}
        /\ \A e \in Entries : BootEntry(e) /\ slots'[s] # slots[s]
           => volumes[slots[s]] \in {e, Foreign}]_vars

\* The capacity check under the lock keeps the map within MAX_DURABLE_MOUNTS
\* on every path that records a mount, so no write of cleanup authority is ever
\* refused for its size.
WithinCapacity == Cardinality(Recorded(reg.active)) <= MaxMounts

\* A private or personal record retained for cleanup is retired in the end, if
\* its owner keeps asking: unless no logon of the owner is left, another volume
\* has taken the slot, or the registry is untrusted or waiting for a write.
CleanupCompletes ==
    \A e \in PerUser \cup (Entries \ Policy) :
        (/\ reg.durable[e] # NoMount /\ reg.durable[e].cleanup)
        ~> (\/ reg.durable[e] = NoMount
            \/ Unknown(reg.durable[e])
            \/ reg.untrusted
            \/ e \in reg.persist
            \/ \A l \in Logons : UserOf[l] = UserOf[reg.durable[e].logon]
                                    => l \in ended)

\* What the comment on `operation` promises: a mount succeeds only for a caller
\* the policy in force authorizes.
MountedUnderCurrentPolicy ==
    reply # NoReply /\ reply.state = "Mounted" /\ reply.e \in Policy
        => UserOf[reply.l] \in grants[reply.e]
=============================================================================
