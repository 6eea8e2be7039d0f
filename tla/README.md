# A TLA+ model of WinCommander's privileged core

WinCommander is a Windows desktop application (Tauri, Rust) with a SYSTEM
service beside it.  The application asks; the service, `commander-svc`, holds
the privileges and the durable state.  A third crate, `fleet-agent-core`, talks
to a fleet server on the device's behalf.  This directory models the parts of
these crates in which the order of steps matters, checks them with TLC on small
instances and proves the central properties with TLAPS for all instances.

Paths below are relative to `src/src-tauri/` unless they start with `src/`.

## 1. Inventory

### The parts that carry state and order

| Part | State | Operations | Interacts with |
| --- | --- | --- | --- |
| Vault mount broker (`commander-svc/src/vault_mount.rs`, `vault_mount_recovery.rs`) | map of active mounts, durable registry, `RecoveryState`, the `operation` mutex, per-session letter reservations | mount (policy and personal), dismount (client, member, stop), session cleanup, Syncthing enrolment in three phases, reconciliation, boot cleanup, admission of policy edits | the pipe server, the policy, the encrypted-volume driver's slots, the Pro broker, Syncthing through the Pro broker, the service control manager |
| Vault access policy (`vault_access.rs`, `vault_access/access_directory_mutation.rs`) | the policy in force and its file, its revision and status, container ACLs, managed local groups, the access directory, what a failed edit left for recovery | apply an owner's fragment, clear, forget an entry, save the access directory and refresh, roll back, verify a rollback, revalidate at start | mount broker, directory resolver, Windows ACLs and local groups |
| Personal settings (`personal_settings.rs`, `personal_settings_scheduler.rs`) | one encrypted record file for each account; lanes and three semaphores | read, conditional write, letter cleanup | pipe server, mount broker (letters) |
| Machine settings (`machine_settings.rs`) | one revisioned record | read, conditional write | pipe server |
| Fleet check-in client (`fleet-agent-core`) | identity, pinned keys, seen nonces, dead-man count | enrol, check in, decoy, verify, dispatch, apply policy | fleet server, the platform behind `FleetActions` |
| Fleet contact, credential and transport of the service | stored transport, candidate transport, contact time | stage, promote, forget | fleet client, policy store |
| Policy store, machine policy | last signed policy | verify, replace | fleet client |
| Licence cache (`license_cache*.rs`) | the cache file, the history in the registry, the lock between processes | store, renew, recover an interrupted save, verify | desktop, licensing server |
| Licence device credential (`licence_device_*.rs`) | the identity record (scoped, or the legacy one of older builds), the release record | enrol, confirm, challenge, stage, release, acknowledge | licence cache, licensing server |
| Shield journal | write-ahead journal of system changes | append, undo | hardening commands |
| Shared shortcuts, RAM disk | desired and present objects | reconcile | file system |
| Personal vaults (`vault_access.rs`, `vault_create_staging.rs`, `vault_create_files.rs`, a handler of `pipe.rs`) | the registry of records and reservations, the new container and its DACL, the staged copy | reserve, prepare, publish, bind, complete, cancel, consent, load at start | Pro broker, the vault policy, mount broker |
| Pipe server and peer authentication | connections, rate limits | accept, authenticate, dispatch | every handler |
| Application: backend, flow engine, sidecar supervisor, single instance, guards, updater | per-feature | per-feature | the service's pipe, Windows |

`PROJECT.json` lists every part, including those that are not modelled, with the
reason.

### What is hard in them

- **Steps that cannot be one step.**  A mount opens a volume through the Pro
  broker, asks the driver who sits in the slot, saves the record, resumes a
  Syncthing folder and saves again.  Any of these may fail, its answer may be
  lost, and the service may die between any two.
- **State the service does not own.**  Driver slots are opened and closed by
  other programs, logons end, letters outlive the volume they stood for, and a
  slot number in an old record may belong to a later mount.
- **State read without the lock and used under it.**  The authorization of a
  mount, the record an enrolment was prepared for, and the mounts captured by a
  session-change callback.
- **A lock that is only weakly held.**  The scheduler of personal settings keeps
  an account's lane by a weak reference; blocking work outlives its caller.
- **Two durable writes and one fact.**  The licence history is in the registry
  and the licence in a file; a policy is a file over ACLs and groups that were
  changed before it; a device identity is a record here and a seat at the server.
- **Rollback that may itself fail.**  A failed policy edit restores what it
  changed, unless a container was replaced, the write was in doubt, or the
  restoration fails; then the status must say so until it is verified.
- **Reservations that run out.**  A personal vault takes minutes to format; its
  reservation ends after ten, and another creation may then have the name.
- **Delivery without acknowledgement.**  The fleet server may deliver a command
  again; nonces, dates and two keys decide whether it runs.

The list with line numbers is in `PROJECT.json` under `hazards`.

### What makes each part correct

- *Mount broker*: no volume or folder is lost from the registry before it is
  really closed; map and file agree; an answer "unmounted" is true; one vault's
  cleanup never closes another; a retained record is eventually retired.
- *Personal settings*: an atomic conditional register for each account, within
  the admission limits.
- *Fleet client*: a command in an envelope with a date and a nonce runs at most
  twice, and twice only if it was dated after its first cycle had begun; it runs
  only under the pinned key of its class; pins never change.
- *Vault policy*: an edit that the service ends is all or nothing, or the policy
  is degraded; one cut short by its death leaves every entry as before or as
  planned; what is shown as current is what is on disk; policies that follow one
  another have consecutive revisions.
- *Personal vaults*: a created vault stays its owner's; a failed creation leaves
  nothing.
- *Licence cache*: an older licence never comes back, and an interrupted save is
  completed unless a licence of a higher epoch was recorded after it.
- *Device credential*: device and server agree on the identity; a release is one
  request, however often it is sent.
- *Transport and journal*: a crash between two writes leaves either the old or
  the new state in force.

## 2. Modules

| Module | Role |
| --- | --- |
| `VaultMount` | the mount broker with driver, Syncthing and policy around it |
| `MCVaultMount` | instances for TLC |
| `VaultMountProofs` | type correctness and capacity |
| `VaultMountSafety` | the registry, the driver's volumes, what may be retired, what Syncthing is owed |
| `SettingsRegister` | what the settings store promises: one atomic register per account |
| `PersonalSettings` | scheduler, transactions and the atomic replacement of the file |
| `MCPersonalSettings`, `PersonalSettingsProofs` | instance; exclusion, limits and refinement |
| `FleetClient` | enrolment, check-in, verification, dispatch |
| `MCFleetClient`, `FleetClientProofs` | instances; types, pins, the bound on redelivery |
| `VaultPolicy`, `MCVaultPolicy` | the vault policy over its file, ACLs and groups; instance |
| `VaultPolicyProofs` | durability, revisions, atomic edits |
| `PersonalVaults`, `MCPersonalVaults` | creation and registration of personal vaults; instances |
| `PersonalVaultsProofs` | created vaults are kept, records name files of their owner |
| `LicenceHistory` | what the licence cache promises: a monotone history |
| `LicenceCache`, `MCLicenceCache` | the cache file, the bounded history and renewals; instance |
| `LicenceCacheProofs` | bounds, and the refinement of `LicenceHistory` |
| `LicenceDevice`, `MCLicenceDevice` | identity and release of the device; instance |
| `LicenceDeviceProofs` | enrolment, release and acknowledgement |

### VaultMount

*State.*  `reg` holds what `VaultMountBroker` holds: the map `active`, the
registry file `durable` and the fields of `RecoveryState` (`untrusted`,
`recoverable`, `persist`, `removal`).  `slots`, `volumes` and `alias` are the
driver's (external): which volume sits in which slot, whose container it is, and
whether its letter still resolves.  A volume is numbered when it is opened, so a
number stands for the driver's mount identity.  `bound` and `syncing` are
Syncthing's, `grants` is the policy in force, `ended` the logons that are over.
`requests`, `targets` and `enroll` are what was read outside the lock and waits
for it.  `op` is the operation that holds the `operation` mutex; its `pc` names
the call it waits for.

*Actions.*  `Authorize` is the part of `handle_vault_mount` before the lock.
`MountRefused`, `MountDeclined` and `MountOpen` are the three outcomes of
`mount_authorized_locked` and of the personal mount up to the broker's answer;
`MountRejected`, `MountRecord`, `MountDiscard`, `MountUndo` and `MountResume`
are what follows.  `Dismount` chooses between the client path and the member
path by the caller, as `dismount_authorized_locked` does; `Shut` is the broker
call of both, `ClientFinish` and `MemberFinish` the rest of each.
`AlreadyUnmounted` is the retry of a dismount that finds no record.
`SessionChange`, `SessionCleanup`, `SessionCleanupEnds` are the session-change
callback and its worker; `EnrollPrepare`, `EnrollMark`, `EnrollCall` the phases
of enrolment; `ChangePolicy` and `SaveAccessDirectory` the two ways the policy
changes; `Stop`, `StopNext`, `StopExit`, `Crash`, `Reboot`, `BootLoad`,
`BootEntry`, `BootAborted`, `BootFinish` the life of the service.
`LogonEnds`, `ClosedOutside`, `OpenedOutside` are the environment.

*Abstractions.*
- An entry stands for its container; the code refuses two entries for one.
- Session, SID and authentication id are one logon with one account.
- Failures are Booleans chosen at the call (`written`, `looked`, `ok`, `shut`,
  `answered` ...); `looked` is a snapshot of the driver, `known` the probe of
  logons and letters.  Every failure, crash or outside act draws on `MaxFaults`.
- A broker that answers Ok has removed what it presented, except the private
  letter of a logon that is over; whether it really emptied the slot is looked
  up again, as in the code.  The slot may change hands between the identity
  check and the broker call.
- The session-cleanup worker may retry without limit and gives the lock up
  between targets; the code tries three times.  The model has more behaviours.
- The drive root of a machine-wide policy vault lists the accounts the policy
  grants under the lock (`CanList`), so a caller who lost the grant since the
  authorization is refused by the attestation (`MountRejected`); any other
  rejection is a fault.
- The Syncthing adapter is truthful about whether a folder is bound, and `SyncOn`
  is taken as given; the code also asks who owns the per-user entry exclusively.
- A write of the mount registry that reports failure has not happened.  The
  write-through replacement behind `persist_active` could in principle report
  failure after it took effect; that case is modelled for the policy and for the
  registry of personal vaults, and not here.
- Other programs open only containers that are not vaults.
- Left out: the read-only inspection phase of enrolment, the transfer of personal
  ownership, poisoned mutexes, drive-letter choice, and all contents of paths,
  tokens and ACLs.

### PersonalSettings

`lanes` is `Scheduler.accounts`, a lane the allocation `Arc<Account>`; it lives
while a request refers to it, and `AccountLane` prunes, shares or makes one as
`Scheduler::account` does.  A job waits, gets the lane's transaction permit,
reads, stages the successor of the record and replaces the file.  `Cancel` drops
the caller and not the work.  `Fail` and `Crash` may strike at any of these
points.  A refusal with BUSY changes nothing and is left out; any waiter may get
the permit (tokio is FIFO, so the model has more behaviours); `MaxRevision`
stands for `u64::MAX`.  A `.pending` file left by a crash is never read and is
not modelled.

`SettingsRegister` is the abstract specification.  The refinement mapping is the
identity on `file` and `answer`: the step that replaces the file is the write,
and the step that reads it the read.

### FleetClient

One process from start to end: `Begin` reads the clock once, `Enroll` validates
and pins, `Respond` evicts nonces and takes the response, `Command` verifies and
dispatches one command, `Settle` applies the policy and settles the dead-man
count.  A decoy goes through the same cycle and drops its response.

The server (`Stamp`, and the choice of `Respond`) is external.  A signature covers
the command alone; date and nonce are in the envelope around it
(`verify.rs:148-155`).  So the server may put one command into several
envelopes, dated or not, with a nonce or without, and may deliver each of
them any number of times; a batch may name one twice.  What replay defence can
speak of is an envelope: the same signed command in another one runs again, and
one without a date or a nonce is not defended at all.  The properties about
redelivery are about envelopes that have both.

`Ahead` is how far the server's clock may lead, `Latency` how long a cycle may
take.  Left out: the scope of an envelope, which is outside the signature too
(the class of a command is here that of its catalogue id), the per-device
secret, search jobs, uploads and telemetry; `misses` saturates at `MaxMisses`.
Nonces are in memory only, so a restart is outside this model, and so is a
device clock that is set back: either lets an envelope run again.

### VaultPolicy

*State.*  `policyFile` and `directoryFile` are the two durable records, `acl` and
`groups` what Windows enforces for each entry, `mirror` the local group of the
access directory's group, `fileId` the identity of the file at each path.
`active`, `status`, `directory`, `healthy` and `recovery` are the fields of
`State`.  `edit` is what one call of `apply` or `clear` keeps on its stack: the
new policy, the writes still to be done and the snapshots for the rollback.

*Actions.*  `Apply` and `Clear` do the checks and take the snapshots (`Begin`).
Then come the writes in the code's order, one action for each kind:
`ReconcileGroup`, `ApplyAcl`, `Decommission` (or `SkipMissing`), `DeleteGroup`,
`Commit`.  `WriteFails`, `CommitFails` and `DecommissionRefused` lead to
`Rollback` or `RollbackFails`.  `Read` is the verification of a pending recovery
that every read of the policy tries.  `Forget`, `SaveDirectory` with `Refresh` or
`RefreshRefused`, and `Restart` are the other operations; `ReplaceFile` is the
environment.

*Abstractions.*  An entry stands for its container.  A grant is for writing, so
the read and the write group of an entry are one.  The directory has one group.
An edit holds the broker's lock and the state lock, so requests do not interleave
with it; `Restart`, the failures and `ReplaceFile` do.  Writes of one rank may
come in any order.  `VaultMount` sees the outcome only, as its `grants`.
Left out: requests refused before any change and the migration of old records.

### PersonalVaults

*State.*  One name.  `file` is the file at it (files are numbered, so a number is
an identity), `acl` its DACL, `maker` who made which file.  `disk` and `memory`
are the registry on both sides, each a record and a reservation; `healthy` is
`personal_registry_healthy`, `claimed` the file of the policy's entry for the
name.  A task is one call of `handle_personal_vault_create`; `holder` is the task
that keeps the state lock between two steps.

*Actions.*  `Probe` reads the clock and looks for a file, without the lock;
`Reserve`, `ReserveFails` and `ReserveRefused` are the lock section that follows.
`Prepare` creates and holds the destination of a standard user; `Broker` is the
formatting, with `publish` for a staged container.  `Bind` reads the identity,
`RecordCompletion` binds it to the reservation, `Protect` sets the DACL and
`Complete` registers, tells the caller and keeps the file.  `Refused`,
`CompleteRefused` and the actions that end in `Fails` are the error paths; they
all lead to `Cancel`, after which a held destination is deleted (`Discard`).
`SetConsent`, `Claim`, `Unclaim` and `Restart` are the rest of the service.

*Abstractions.*  Reservations of different names meet only in the registry file,
so one name is enough; the second spelling of a name is left out.  The broker is
taken to refuse a name at which there is a file.  A held destination cannot be
deleted or replaced, since it is opened without sharing for that.  A policy edit
is one step (`VaultPolicy` has its steps).  A write of the registry that fails
may have happened.  The recovery journal is empty: only tests write it.

### LicenceHistory and LicenceCache

A writer holds one lock through both writes: `Store`, `Recover` and `Save` check
and write the history, `WriteCache` or `WriteCacheFails` is the second write.  A
renewal is a task that recovers what is pending (`Peek` without the lock,
`SelectPending` or `SelectNothing`, then `Recover` or `VerifyNothingPending` under
it), loads a snapshot, recovers again, asks twice and saves.  `Restart` is a crash
or an upgrade; the minimum signing epoch may rise.  Whoever reads the clock reads
any time.  A token is a whole signed licence with its issue date, epoch, text and
signature; all signatures are good, since a bad one changes nothing.

`LicenceHistory` keeps every token ever accepted and shows one that nothing
accepted outdates.  The refinement is `INSTANCE LicenceHistory WITH shown <-
Shown`, where `Shown` is the hybrid token of the cache file; `accepted` is a
history variable.  The bounded ledger must forget no floor that matters:
that is what the refinement says.

### LicenceDevice

One licence on one device.  `legacy` and `scoped` are the two registry anchors of
an identity, `release` the record of a release; `registered`, `released` and
`acked` are what the server did.  Each task runs an enrolment (`Enrol`, `Select`,
`Create` or `Reuse`, `Register`, `Confirm`) or a release (`LoadRelease`,
`Challenge`, `Stage`, `SendRelease`, `ConfirmRelease`, `Acknowledge`,
`SendAcknowledgement`, `Record`) with its lock sections as steps.  Writes and
answers may be done and yet reported lost.  `Renew` stands for `LicenceCache`:
the cached text changes.  The service enrols on request; nothing in it calls the
release yet, so that part models the functions as they stand.

## 3. Runs

All runs but `vault_policy`, `personal_vaults` and `personal_registry` check
deadlock; those end when the revisions, the reservations and the faults are used
up.  Sizes are distinct states.

| Run | Instance | States | Shows |
| --- | --- | --- | --- |
| `vault_sync` | one private vault with Syncthing, two logons of its owner, 2 volumes, 2 faults; under `LiveSpec` | 443 k | `TypeOK`, `RegistryAgrees`, `RetiredOnlyWhenClean`, `PauseObligationKept`, `CleanupCompletes` |
| `vault_member` | a per-user policy vault with Syncthing beside a machine-wide personal one, two accounts, room for one record, 2 volumes, 1 fault | 0.9 M | `UnmountedIsTrue`, `WithinCapacity`, `PolicyEditSafe`, `PauseObligationKept` |
| `vault_slots` | a machine-wide policy vault and a personal one share one slot, bob an administrator, 2 volumes, 2 faults | 0.8 M | `RegistryAgrees`, `ClosesOnlyItsOwn`, `RetiredOnlyWhenClean` |
| `settings` | two accounts, three requests, three lanes, two revisions | 206 k | `TypeOK`, `OneTransaction`, `LettersStayCurrent`, `AdmissionBounded`, `IsRegister` |
| `licence_cache` | three licences, six tokens, two of them with the same claims, room for two records, one renewal beside the desktop, two epochs; under `FairSpec` | 220 k | `TypeOK`, `HistoryBounded`, `RetryAllowed`, `NeverRollsBack`, `RecoveryCompletes` |
| `vault_policy` | a private and a machine-wide entry, two users, the directory's group, 2 revisions, 2 faults; under `FairSpec` | 1.5 M | `TypeOK`, `CurrentIsDurable`, `EditIsAtomic`, `RevisionsAdvance`, `RecoveryVerified` |
| `personal_vaults` | two creations at a time, an administrator and a standard user, 3 files, 3 reservations, 2 faults; creations are symmetric | 0.8 M | `TypeOK`, `CreatedIsKept`, `RegistersOnlyItsOwn`, `HalfMadeIsRemoved` |
| `licence_device` | two tasks, two identities, one renewal, one clock set-back, two challenges | 2.1 M | `TypeOK`, `EnrolledIsKept`, `ConfirmedIsEnrolled`, `OneRelease`, `AcknowledgedIsRecorded` |
| `fleet` | three commands for two keys, two envelopes (symmetric), one nonce, decoys, skew 1, a server clock up to 1 ahead, cycles up to 1 long, time to 4; misses not counted | 3.8 M | `TypeOK`, `RedeliveryBounded`, `DispatchedUnderPins`, `PinsMoveTogether` |

The properties in words:

- `RegistryAgrees`: between operations the map and the file name the same mounts
  except those recovery has noted, unless the registry is untrusted.
- `RetiredOnlyWhenClean`: the file gives a mount up only when its volume is out
  of the driver and its letter no longer resolves.
- `PauseObligationKept`: while a folder runs, a record of the file that obliges
  whoever reads it next to pause the folder stays there, and a folder is started
  only under such a record.  Two cases are excepted.  A removal that could not be
  written is retried after a failed dismount resumed the folder, and the code
  then drops the record with its obligation; and a dismount that fails may start
  again the folder of a mount whose record was never written and is pending.
- `UnmountedIsTrue`: whoever is told "unmounted" is told the truth, on each of
  the four paths that answer so.
- `PolicyEditSafe`: an owner's policy edit never touches a vault whose container
  is open, even if no record says so.
- `ClosesOnlyItsOwn`: closing one entry never closes another vault's volume.
- `WithinCapacity`: the map never outgrows `MAX_DURABLE_MOUNTS`, so no write of
  cleanup authority is refused for its size.
- `CleanupCompletes`: a record kept for cleanup is retired in the end if its
  owner keeps asking.
- `OneTransaction`, `LettersStayCurrent`, `AdmissionBounded`, `IsRegister`: one
  piece of work at a time for each account, on the record in force, within the
  limits, and together an atomic register.
- `RedeliveryBounded`: the command of an envelope with a date and a nonce runs at
  most twice however often it is delivered, and twice only if the cycle that ran
  it first had read the clock before that date.
- `DispatchedUnderPins`: what ran was signed by the key of its class that is
  pinned now.
- `PinsMoveTogether`: both keys of a response are pinned or neither, and a pin
  never changes.
- `CurrentIsDurable`: a policy shown as current is the one on disk.
- `EditIsAtomic`: an edit that the service ends without a degraded policy has
  changed everything it planned and nothing else, or nothing.  However an edit
  ends, also by the death of the service between two writes or by a rollback that
  fails, each ACL is the old or the planned one, nobody is in a group who was
  neither there before nor planned, and nothing else was touched.  After a
  death, a policy shown as current is in force for its own entries.
- `RevisionsAdvance`: policies that follow one another differ by one revision.
- `RecoveryVerified`: a policy does not stay degraded for ever while the active
  policy, file and permissions alike, and the entries the failed edit was to add
  are as they should be; also when no policy was ever applied, or when an entry
  that neither policy names has changed.
- `CreatedIsKept`: a vault whose owner was told of its creation stays registered
  to that owner, in memory and on disk, and protected while its file is there.
  Excepted is the file that appeared after the creation which reclaims its name
  had looked (below), and the DACL of a file that a policy claimed.
- `RegistersOnlyItsOwn`: the record of a standard user names a file that a
  creation of that user made.
- `HalfMadeIsRemoved`: when a creation lets go of a standard user's destination,
  the file is gone or the vault was reported as created; only a crash leaves it.
- `NeverRollsBack`: the cache implements `LicenceHistory`.
- `HistoryBounded`: at most `MAX_RECORDS` records, one for each licence.
- `RetryAllowed`: between the two writes a retry of the same candidate would be
  admitted.
- `RecoveryCompletes`: an interrupted save is finished, unless a licence of a higher
  epoch was recorded after it or a newer build gave up its epoch.
- `EnrolledIsKept`: what the server enrolled is kept in a record; a second
  identity exists only beside an older build's that was confirmed late.
- `ConfirmedIsEnrolled`: a confirmed identity is enrolled at the server.
- `OneRelease`: every release the server carried out is the saved request.
- `AcknowledgedIsRecorded`: acknowledgement and record follow one another in the
  right order on both sides.

### Where the code and its comments disagree

Each of these runs checks one sentence of the repository and finds a behaviour
of the code against it; `PROJECT.json` quotes the sentences.

| Run | Sentence | What the trace shows |
| --- | --- | --- |
| `vault_authorization` | an authorization must not interleave with a policy change (`vault_mount.rs:690`) | the caller is authorized before the lock; the policy changes; the mount of a per-user vault succeeds (that of a machine-wide one is stopped by the attestation of its root, `vault_mount.rs:1562`) |
| `fleet_redelivery` | a nonce ttl equal to the skew is the correct choice (`verify.rs:255`) | an envelope dated after the start of the cycle that runs it stays fresh longer than its nonce is kept, and its command runs twice |
| `personal_registry` | never rewrite an invalid registry, block personal vaults until it is repaired (`vault_access.rs:943`) | a start cannot read the registry; the next creation, which does not look at `personal_registry_healthy`, writes an empty one with its reservation over it |

### What else the models show

These behaviours of the code are in the models and contradict no property; they
are worth a maintainer's attention.

- Saving the access directory looks at recorded mounts only, so it changes the
  policy of a container that is open without a record; the owner's edit asks the
  driver.
- A retried removal gives up the Syncthing obligation with the record (above).
- With a registry that cannot be written and a volume that is busy, a folder runs
  without a record in the file: the record of a mount cannot be saved, the
  volume cannot be closed either and the record stays pending in memory; the
  cleanup of the session confirms a pause, the dismount fails and resumes the
  folder, and that write fails too.  A crash then forgets the obligation.
- The same signed command in a second envelope runs again: only the server's
  choice of date and nonce tells the two apart.
- A decoy check-in that fails counts as a miss of the dead man's switch.
- The service may die in the middle of an edit of the policy.  The next start
  knows of no edit: containers outside the policy on disk, and all of them if it
  holds none, stay half changed without a degraded status.
- When the verification that follows a completed rollback fails and the access
  directory is saved before the next read, the pending recovery can no longer be
  verified; without an active policy that lasts until a restart.
- A directory save whose refresh is refused leaves the new directory on disk over
  grants of the old one, and the status current until the next start.
- An edit neither writes nor checks the ACLs of an entry whose plan is that of the
  active policy, also when the policy is degraded because those ACLs differ; then
  the status becomes current.  The comment at `vault_access.rs:3070` says that
  container ACLs are proven there.
- A creation looks for a file before it takes the state lock.  When another
  creation of the name completes in between, its record is taken for that of a
  deleted file and reclaimed; the second creation then fails at the file, and the
  first vault has no record any more.
- Any user may reclaim the name of a deleted vault; the comment at
  `vault_access.rs:1183` speaks of the original owner.
- A registry write in doubt followed by a crash leaves a record for a file whose
  creation was reported as failed, with its DACL restored.
- A policy that claims the file of a creation in progress has its DACL replaced
  by the owner's when the creation completes.
- An administrator's file can be exchanged before its identity is bound; what is
  registered is then the other file.
- After `clear`, revisions start again at 1.
- With a degraded status and no active policy, only a verified recovery or a
  restart lets an administrator apply one again.
- An unreadable policy file is shown as a policy that was never applied.
- A save of the cached token with another verification time that dies between
  its writes is neither pending nor verifiable; a newer token repairs it.
- A save of a token with the claims of the cached one and another proof dies between
  its writes; a licence of a higher epoch is stored next, which takes the pending
  record for reconciled since the claims agree, and its cache write fails.
  Recovery then tries the first candidate, which the higher epoch refuses, until
  one of the two is stored again.
- Enrolment reads the time before its locks.  When another task confirms a legacy
  identity in between, that record seems to come from the future and a second
  identity is enrolled beside it; `EnrolledIsKept` bounds this to one.
- A release record is sealed with the licence text; after a renewal it can be
  neither read nor replaced.

### Bounds

- Two volumes (`MaxGen`) are what it takes to close one and open another in its
  place; a third adds no new relation between a record and a slot.
- One fault breaks any single call; two are needed for a stale record and a
  stranger in its slot (`vault_slots`), or for a failed write and a crash before
  its retry (`vault_sync`), or for a failed write and a failed rollback
  (`vault_policy`).
- Two logons of one account distinguish the owner from the owner's session, two
  accounts a member from the owner.
- `MaxMounts` is 1 beside two entries in `vault_member`, so the limit is met.
- Three requests are a worker, a waiter and a newcomer on one account, or two
  accounts at a time.  `AdmissionBounded` meets the limit per account there; for
  the other two limits, and for all sizes, it is proved.
- `MaxRecords` is 2 beside three licences, so the history is full when a third
  arrives; issues of one second, claims signed twice and two epochs make every
  rule of the order matter.
- Two revisions are a policy and an edit of it that goes wrong; after a clear
  the numbers start again.  Two files at a path are a container and its
  replacement.
- Two tasks meet at every lock of `LicenceDevice`; two times and a receipt that
  is good for one distinguish a fresh, a late and a future one.
- Three files are a vault, its successor and one from outside; three reservations
  are two that meet and one that follows.  The TTL and the clock are one step,
  since only whether a reservation is over matters.
- Two envelopes are two with one nonce, or one command sent twice.  Time to 4 with a
  skew of 1 lets a nonce expire and its envelope be delivered again at each of
  the boundaries; a lead and a delay of 1 are enough for the second run that the
  property allows, and any more is proved.  The run does not count misses, which
  no property reads.

### Fairness

`vault_sync`, `licence_cache` and `vault_policy` assume some.

In `vault_sync` the thread that is at work goes on, be it an operation that holds
the mutex, a boot or a stop: its calls return or fail (one `WF` for all of them).
The owner keeps asking for the dismount, from whichever logon, and a request that
waits for the mutex again and again gets it in the end (`SF` on a `Dismount` of
the entry by some logon); the property excepts the states in which no owner is left to ask or
the code asks for an administrator.  Nothing is assumed of logons, crashes, the
outside, or of mounts being requested.

In `licence_cache` the desktop asks for a renewal again and again, so that its
steps of recovery are taken infinitely often when they can be (`SF` on `Peek`,
`SelectPending`, `Recover` and `WriteCache`): restarts, other writers and a clock
that is behind may interrupt them, but not for ever.  A renewal that cannot go on
ends (`WF` on `GiveUp`).  In `vault_policy` the panel goes on reading the policy
(`WF` on `Read`).

## 4. Proofs

All for arbitrary constants under the named assumptions: the sets of entries,
accounts and requests are finite, limits are naturals, owners and keys are
well-formed.

`VaultMountProofs`
- `TypeCorrect`: `TypeOK`, with `BootInv`: while the service boots, the operation
  is the boot's, and it has yet to treat, or keeps, only entries of the map.
  Without it `BootEntry` would read records that are not there.  `TypeOK`
  includes `valid_durable_mount`: a record marked absent asks for cleanup.
- `CapacityTheorem`: `WithinCapacity`.  The invariant counts `Held`, the records
  of the map with the one the operation took out or is about to put in, since a
  failed dismount reinserts its record after others may have been admitted; and
  it bounds the file too, which boot takes up.  One lemma for each action says
  that it conserves these sets, and only `MountOpen`, behind the capacity check,
  grows them.

`VaultMountSafety`
- `RegistryTheorem`: `AgreeInv` says where map and file may differ while an
  operation is at work: in the entry whose record it has taken out of the map, or
  put there without writing it (`Busy`), and in those recovery has noted.
  `RegistryAgrees` speaks of idle states only and is not inductive.  The lemmas
  before it say what `Put`, `Persisted`, `Retained`, `Reconciled` and `Repaired`,
  the writers of the registry, do to the agreement.
- `ClosesTheorem`, `PolicyEditTheorem`, `UnmountedTheorem`: `VolumeInv` numbers
  volumes without gaps, so that a new one is new.  `RecordInv` says that a record
  names a volume of its own vault and that this vault is in no other slot
  (`Fits`); `OpInv` says it of the record an operation has in hand and of those
  boot keeps, and that a vault found closed stays closed.  A stranger may sit in
  the slot a record names; what the identity check and the second look at the
  driver make of that is what these invariants carry.  From `Fits` the answer
  "unmounted" is true, and an edit that finds no record and no slot is safe.
- `RetiredTheorem`: `CleanInv` says that a volume which only one of map and file
  still names, and which no operation has in hand, is gone: in no slot and with a
  letter that resolves to nothing.  `BootClean` says it of what boot has dropped
  so far, `LetterInv` what a broker call has done to the letter, and `Blind` is
  the registry that could not be read, from which nothing is ever written.  Being
  gone is stable, since a volume number is used once.
- `PauseTheorem`: `PauseInv` says that map and file owe Syncthing the same pauses.
  What the file owes for a folder that runs, the map owes too, so writing the
  map does not lose it; what the map owes for a bound folder the file owes, so
  that a folder started from the map is started under a record of the file.  Both
  but for pending entries and the one in hand, for which `StagePause` says what
  the operation knows at each `pc`; `BootPause` is the same for boot.
- The attempt to prove `PauseObligationKept` showed that it was stated too
  strongly: five faults lead to the folder without a record that is described
  above, three more than in `vault_sync`.  The property was corrected.
- TLC checked `SafeInv`, `CleanInv` and `PauseInv` as invariants of the instances
  of `vault_sync`, `vault_member` and `vault_slots` before they were proved.

`PersonalSettingsProofs`
- `TypeCorrect`, `OneTransactionTheorem`, `LettersTheorem`: from `IInv`, which
  adds to the types that every request holds the lane the map names, that a lane
  has one permit, and that staged work stands on the record in force and was
  admitted for it.  Without the first, an account with two lanes would have two
  permits.
- `AdmissionTheorem`: with `LanesDistinct`, the lanes the scheduler counts are
  exactly the accounts it serves, and the requests of an account all hold one
  lane; then each count grows only below its limit.
- `Refinement`: the store implements `SettingsRegister`.

`FleetClientProofs`
- `TypeCorrect`, `PinsTheorem`, `UnderPinsTheorem`.
- `RedeliveryTheorem`: for every skew, lead, delay and redelivery.  The invariant
  says of an envelope that ran once: its nonce is remembered since a time not
  before that cycle began, or every cycle from now on reads the clock more than
  the skew after that.  So if the cycle had read the clock at the date or later,
  the date is stale by the time the nonce is gone; and if the envelope runs a
  second time, that cycle began after the date, and the same argument rules out a
  third.  `fleet_redelivery` shows that the second run is possible.

`VaultPolicyProofs`
- `CurrentDurable`, `RevisionsByOne`: a replacement of the file that reports
  failure may have happened, so the file and the memory differ; the invariant
  says by how much.  `NearInv`: the file holds no policy, the one in memory or
  the next revision.  `DurableInv`: only a rollback may hold a status "current"
  over another file.  A status becomes current again by way of `Verified` alone,
  which compares the two.
- `EditAtomic`: `PlanInv` ties the writes that are left, the snapshots and the
  groups of an edit to the entries it changes, `DoneInv` says what is no longer
  left is as planned, `KeptInv` that the rest is untouched or open.  The last
  word matters: a container whose decommissioning reports failure has no
  snapshot.  It may be open, and no rollback restores it; but then its ACL is not
  what the active policy grants, and the verification refuses it.  `HalfInv` is
  `HalfDone` of the unfinished edit: it holds after every single write, so it
  also holds where the service dies or a rollback stops.
- The proof showed that `EditIsAtomic` was once stated too strongly: a container
  outside both policies, with an ACL left by a forgotten entry, may be deleted
  during an edit.  Three faults are needed, one more than in `vault_policy`.  The
  property now says what a replaced container looks like.

`PersonalVaultsProofs`
- `CreatedKept`, under `~Unreadable`: no start fails to read the registry; with
  such a start the property is false, which is what `personal_registry` shows.
  `RegistersOwn` and `HalfMadeRemoved` hold without it.
- The invariant has four parts.  `HoldInv`: the file at the name is decided about
  by the creation that holds it, and by nobody else.  `LockInv`: from the DACL to
  the registration one creation keeps the state lock.  `RegInv`: a reservation's
  nonce belongs to one creation and its identity to a file that creation bound.
  `KeptInv`: a reported vault is registered, unless its file was gone when the
  creation that reclaims the name looked.

`LicenceCacheProofs`
- `RollbackImpossible` is the refinement of `LicenceHistory`.  The abstract
  history remembers every token; the concrete one keeps a record for each of a
  few licences, and the cached licence may have none.  `CoverInv` says that this is
  enough: every token ever accepted is covered, within its licence, by a record or
  by the cache, and the cache by its own record.  "Not older" is transitive within
  a licence (`CoversTransitive`) and compares epochs between licences
  (`CoveredIsOlder`), so a token that records and cache admit is newer than
  everything accepted (`AdmittedIsNewest`).  `WriterInv` carries this across the
  gap between the two writes.
- `Bounded` needs the counting lemma `ReplaceBound`: an advance first adds the
  cached licence and then replaces the record of the new one.
- `Retry`: `RetryAllowed` is part of the invariant.

`LicenceDeviceProofs`
- `EnrolledKept`, `ConfirmedEnrolled`: `EnrolInv` relates what a task holds in its
  hand, what the two anchors hold and what the server enrolled, for every place a
  task can be at; an identity that was sent is in an anchor, since it is saved
  first and an anchor is never replaced by another identity.
- `ReleasedOnce`, `AcknowledgedRecorded`: `ReleaseInv` says that every request in
  flight is the saved one, and how far record and server have come.

Assumptions.  Stand-ins (`None`, `NoCache`, `NoPolicy`, `NoEdit`, `NoMount`,
`NoOp`) differ from the values they stand beside, and an open container's ACL
from every set of users: these are options and variants in the code.
`MaxRecords` is positive, as `MAX_RECORDS` is.  TLC evaluates all of them.

Only model-checked: liveness (`CleanupCompletes`, `RecoveryCompletes`,
`RecoveryVerified`), since fairness is beyond the prover.  Every other property
that a passing run checks is a theorem.  That an enrolment or a
release of `LicenceDevice` ends is not checked: under the fairness it needs, TLC
does not finish on an instance in which anything interesting happens.

## 5. Not modelled, and the plan

Windows calls (tokens, ACLs, signatures, DPAPI, the shell), pipe framing, parsers
and matchers, the user interface and the installers have little state of their
own or are outside TLC's reach.

Next, in this order:
1. Proofs: an abstract ledger of open volumes, one record for each, of which the
   broker with its file is shown to be an implementation; `AgreeInv`, `RecordInv`
   and `CleanInv` are what its refinement needs.
2. `FleetTransport`: candidate transport, contact and credential, composed with
   `FleetClient`.
3. `ShieldJournal`, `SharedShortcuts`: journal and undo, reconciliation against
   an outside that changes.
4. `Sidecar`, `FlowEngine`: supervision, restart and cancellation.
