--------------------------- MODULE PersonalVaults ---------------------------
(***************************************************************************)
(* The creation and registration of personal vaults by the SYSTEM service    *)
(* (commander-svc/src/vault_access.rs, pipe.rs, vault_create_staging.rs,      *)
(* vault_create_files.rs).                                                   *)
(*                                                                           *)
(* A creation reserves the name of a container in the durable registry, has   *)
(* the file made, binds its identity to the reservation, protects it for its  *)
(* owner and promotes the reservation to a record.  The file of an            *)
(* administrator is made by the broker in the caller's session; that of a     *)
(* standard user by the service, which holds it open and deletes it unless    *)
(* the creation succeeds.  Creations run side by side; each takes the state   *)
(* lock for its own steps only, reads the file system and the clock outside   *)
(* it, and a reservation runs out while the file is being formatted.          *)
(*                                                                           *)
(* One name: reservations and records of different names share only the file  *)
(* they are written to.  Files are numbered, so a number is a file identity.  *)
(* The other spellings of a name, raw devices and the recovery journal of     *)
(* older builds are left out, as are requests that change nothing.            *)
(***************************************************************************)
EXTENDS Integers

CONSTANTS
    Tasks,        \* creations in progress at a time
    Users,
    Admins,       \* the users whose token is privileged
    Outsider,     \* whoever else puts a file at the name
    None,
    TTL,          \* PERSONAL_CREATION_TTL_SECS, 600 in the code
    Unreadable,   \* whether a start may find the registry unreadable
    MaxFile,      \* bound on the files that follow one another
    MaxSerial,    \* bound on reservations
    MaxTime,      \* bound on the clock
    MaxFaults     \* bound on failures, restarts and files changed outside

ASSUME UsersAssumption ==
    /\ Admins \subseteq Users
    /\ Outsider \notin Users
ASSUME BoundsAssumption ==
    /\ {TTL, MaxFile, MaxSerial, MaxTime, MaxFaults} \subseteq Nat
    /\ Unreadable \in BOOLEAN

VARIABLES
    file,      \* the file at the name, 0 without one
    made,      \* how many files there have been
    maker,     \* who made each of them
    acl,       \* the DACL of the file
    disk,      \* personal_vaults.json
    memory,    \* State.personal and State.personal_pending
    healthy,   \* State.personal_registry_healthy
    claimed,   \* the file of the active policy's entry for the name, 0 without one
    holder,    \* the creation that holds the state lock between two steps
    task,
    clock,
    faults,
    serials,   \* the number of reservations so far
    told,      \* history: the records whose owner was told of success
    raced,     \* history: the files reclaimed on the word of an older probe
    governed   \* history: the files that a policy has claimed

files == <<file, made, maker, acl>>
registry == <<disk, memory, healthy>>
world == <<claimed, clock>>
history == <<told, raced, governed>>
vars == <<files, registry, world, holder, task, faults, serials, history>>

Files == 1 .. MaxFile

\* PersonalVaultRecord
Record == [id : Files, owner : Users, consent : BOOLEAN]

\* PendingPersonalVault: `id` is the identity in BrokerCreated, None in Reserved,
\* and `serial` the reservation's nonce.
Pending == [serial : 1 .. MaxSerial, owner : Users, at : 0 .. MaxTime,
            id : Files \cup {None}]
ASSUME NoneAssumption ==
    None \notin Users \cup Tasks \cup Files \cup Record \cup Pending

Registry == [record : Record \cup {None}, pending : Pending \cup {None}]
Empty == [record |-> None, pending |-> None]

\* A creation.  `probe` is how many files there had been when it looked for one,
\* `held` the file whose handle it keeps, `saved` the DACL before its own.
Task == [pc : {"idle", "reserve", "prepare", "broker", "bind", "record",
               "complete", "verify", "cancel", "discard"},
         user : Users \cup {None}, time : 0 .. MaxTime, probe : 0 .. MaxFile,
         serial : 0 .. MaxSerial, held : Files \cup {None},
         id : Files \cup {None}, saved : Users \cup {"open", "policy"}]

Idle == [pc |-> "idle", user |-> None, time |-> 0, probe |-> 0, serial |-> 0,
         held |-> None, id |-> None, saved |-> "open"]

TypeOK ==
    /\ file \in 0 .. MaxFile
    /\ made \in 0 .. MaxFile
    /\ maker \in [Files -> Users \cup {Outsider}]
    /\ acl \in Users \cup {"open", "policy"}
    /\ {disk, memory} \subseteq Registry
    /\ healthy \in BOOLEAN
    /\ claimed \in 0 .. MaxFile
    /\ holder \in Tasks \cup {None}
    /\ task \in [Tasks -> Task]
    /\ clock \in 0 .. MaxTime
    /\ faults \in 0 .. MaxFaults
    /\ serials \in 0 .. MaxSerial
    /\ told \subseteq Files \X Users
    /\ raced \subseteq Files
    /\ governed \subseteq Files

Init ==
    /\ file = 0
    /\ made = 0
    /\ maker = [f \in Files |-> Outsider]
    /\ acl = "open"
    /\ disk = Empty
    /\ memory = Empty
    /\ healthy = TRUE
    /\ claimed = 0
    /\ holder = None
    /\ task = [t \in Tasks |-> Idle]
    /\ clock = 0
    /\ faults = 0
    /\ serials = 0
    /\ told = {}
    /\ raced = {}
    /\ governed = {}

-----------------------------------------------------------------------------
At(t, pc) == task[t].pc = pc
Unlocked == holder = None
Stay(t, self) == task' = [task EXCEPT ![t] = self]
Goto(t, pc) == Stay(t, [task[t] EXCEPT !.pc = pc])

Fault ==
    /\ faults < MaxFaults
    /\ faults' = faults + 1

\* persist_personal succeeds.
Save(new) ==
    /\ memory' = new
    /\ disk' = new
    /\ UNCHANGED healthy

\* persist_personal fails, and may have replaced the file all the same; memory
\* becomes `old`.
SaveFails(old, new) ==
    /\ Fault
    /\ memory' = old
    /\ disk' \in {disk, new}
    /\ UNCHANGED healthy

\* A new file appears at the name.
Make(who) ==
    /\ file = 0
    /\ made < MaxFile
    /\ made' = made + 1
    /\ file' = made'
    /\ maker' = [maker EXCEPT ![made'] = who]
    /\ acl' = "open"

Live(pending, now) == pending # None /\ now < pending.at + TTL

\* reservation_matches_without_time
Matches(t) ==
    /\ memory.pending # None
    /\ memory.pending.serial = task[t].serial

\* Mutant: the nonce is not compared.
CurrentAnyone(t, now) ==
    /\ memory.pending # None
    /\ Live(memory.pending, now)

\* reservation_matches.  The clock does not go back.
Current(t, now) == Matches(t) /\ Live(memory.pending, now)

-----------------------------------------------------------------------------
(* The reservation.                                                        *)

\* Mutant: the name is not looked up.
ProbeUnchecked(t, user) ==
    /\ At(t, "idle")
    /\ Stay(t, [Idle EXCEPT !.pc = "reserve", !.user = user, !.time = clock,
                            !.probe = made])
    /\ UNCHANGED <<files, registry, world, holder, faults, serials, history>>

\* begin_personal_registration_as_caller: the time is read, then the caller
\* finds no file at the name; both before the state lock is taken.
Probe(t, user) ==
    /\ At(t, "idle")
    /\ file = 0
    /\ Stay(t, [Idle EXCEPT !.pc = "reserve", !.user = user, !.time = clock,
                            !.probe = made])
    /\ UNCHANGED <<files, registry, world, holder, faults, serials, history>>

\* reserve_personal_registration: no policy has the name and no reservation is
\* alive.  The record of a file that is gone is reclaimed, whoever its owner.
MayReserve(t) ==
    /\ At(t, "reserve")
    /\ Unlocked
    /\ claimed = 0
    /\ ~Live(memory.pending, task[t].time)
    /\ serials < MaxSerial
    /\ serials' = serials + 1
    /\ raced' = IF memory.record # None /\ memory.record.id > task[t].probe
                THEN raced \cup {memory.record.id} ELSE raced

Reservation(t) ==
    [record |-> None,
     pending |-> [serial |-> serials + 1, owner |-> task[t].user,
                  at |-> task[t].time, id |-> None]]

Reserve(t) ==
    /\ MayReserve(t)
    /\ Save(Reservation(t))
    /\ Stay(t, [Idle EXCEPT !.user = task[t].user, !.serial = serials', !.pc =
        IF task[t].user \in Admins THEN "broker" ELSE "prepare"])
    /\ UNCHANGED <<files, world, holder, faults, told, governed>>

\* The record is put back; a reservation that had run out is not.
ReserveFails(t) ==
    /\ MayReserve(t)
    /\ SaveFails([memory EXCEPT !.pending = None], Reservation(t))
    /\ Stay(t, Idle)
    /\ UNCHANGED <<files, world, holder, told, governed>>

ReserveRefused(t) ==
    /\ At(t, "reserve")
    /\ Unlocked
    /\ claimed # 0 \/ Live(memory.pending, task[t].time)
    /\ Stay(t, Idle)
    /\ UNCHANGED <<files, registry, world, holder, faults, serials, history>>

-----------------------------------------------------------------------------
(* The file.                                                               *)

\* Creation::prepare creates the destination itself, and keeps it open so that
\* nobody replaces or deletes it.
Prepare(t) ==
    /\ At(t, "prepare")
    /\ Make(task[t].user)
    /\ Stay(t, [task[t] EXCEPT !.pc = "broker", !.held = made'])
    /\ UNCHANGED <<registry, world, holder, faults, serials, history>>

\* There is a file already; or it cannot be created, or is dropped again.
PrepareFails(t) ==
    /\ At(t, "prepare")
    /\ \/ file # 0 /\ UNCHANGED faults
       \/ Fault
    /\ Goto(t, "cancel")
    /\ UNCHANGED <<files, registry, world, holder, serials, history>>

\* The broker formats the container in the stage, from which publish fills the
\* destination; or, for an administrator, makes the file at the name.
Broker(t) ==
    /\ At(t, "broker")
    /\ \/ task[t].held # None /\ UNCHANGED files
       \/ task[t].held = None /\ Make(task[t].user)
    /\ Goto(t, "bind")
    /\ UNCHANGED <<registry, world, holder, faults, serials, history>>

\* The broker or publish fails; the file of an administrator may remain.
BrokerFails(t) ==
    /\ At(t, "broker")
    /\ \/ /\ task[t].held = None /\ file # 0
          /\ UNCHANGED <<files, faults>>
       \/ Fault /\ UNCHANGED files
       \/ Fault /\ task[t].held = None /\ Make(task[t].user)
    /\ Goto(t, "cancel")
    /\ UNCHANGED <<registry, world, holder, serials, history>>

-----------------------------------------------------------------------------
(* The promotion.                                                          *)

\* Mutant: whether there is a file is left to the next step.
BindUnchecked(t) ==
    /\ At(t, "bind")
    /\ Stay(t, [task[t] EXCEPT !.pc = "record", !.time = clock, !.id = file])
    /\ UNCHANGED <<files, registry, world, holder, faults, serials, history>>

\* record_personal_broker_completion_as_caller reads the time and, as the
\* caller, the identity of the file; then it takes the lock.
Bind(t) ==
    /\ At(t, "bind")
    /\ file # 0
    /\ Stay(t, [task[t] EXCEPT !.pc = "record", !.time = clock, !.id = file])
    /\ UNCHANGED <<files, registry, world, holder, faults, serials, history>>

MayRecord(t) ==
    /\ At(t, "record")
    /\ Unlocked
    /\ Current(t, task[t].time)
    /\ memory.pending.id = None

Bound(t) == [memory EXCEPT !.pending.id = task[t].id]

\* record_personal_broker_completion_with_identity; then the time is read again.
RecordCompletion(t) ==
    /\ MayRecord(t)
    /\ Save(Bound(t))
    /\ Stay(t, [task[t] EXCEPT !.pc = "complete", !.time = clock])
    /\ UNCHANGED <<files, world, holder, faults, serials, history>>

RecordCompletionFails(t) ==
    /\ MayRecord(t)
    /\ SaveFails(memory, Bound(t))
    /\ Goto(t, "cancel")
    /\ UNCHANGED <<files, world, holder, serials, history>>

MayComplete(t) ==
    /\ At(t, "complete")
    /\ Unlocked
    /\ Current(t, task[t].time)
    /\ memory.pending.id # None

\* complete_personal_registration_as_caller keeps the lock from here on: the
\* file at the name, whichever it is, is protected for the owner.
Protect(t) ==
    /\ MayComplete(t)
    /\ file # 0
    /\ acl' = memory.pending.owner
    /\ holder' = t
    /\ Stay(t, [task[t] EXCEPT !.pc = "verify", !.saved = acl])
    /\ UNCHANGED <<file, made, maker, registry, world, faults, serials, history>>

\* The DACL cannot be set, and what there was is restored if that is possible.
ProtectFails(t) ==
    /\ MayComplete(t)
    /\ file # 0
    /\ Fault
    /\ acl' \in {acl, memory.pending.owner}
    /\ Goto(t, "cancel")
    /\ UNCHANGED <<file, made, maker, registry, world, holder, serials, history>>

Proven(t) == file = memory.pending.id /\ acl = memory.pending.owner

Registered ==
    [record |-> [id |-> memory.pending.id, owner |-> memory.pending.owner,
                 consent |-> FALSE],
     pending |-> None]

\* The file is still the one bound, and protected; it is registered, the
\* destination kept and the caller told.
Complete(t) ==
    /\ At(t, "verify")
    /\ Proven(t)
    /\ Save(Registered)
    /\ holder' = None
    /\ told' = told \cup {<<memory.pending.id, memory.pending.owner>>}
    /\ Stay(t, Idle)
    /\ UNCHANGED <<files, world, faults, serials, raced, governed>>

\* restore(&snapshots): by name, and without effect when there is no file.
Restore(t) == acl' = IF file = 0 THEN acl ELSE task[t].saved

\* Another file is at the name now, or none.
CompleteRefused(t) ==
    /\ At(t, "verify")
    /\ ~Proven(t)
    /\ \/ Restore(t) /\ UNCHANGED faults
       \/ Fault /\ UNCHANGED acl
    /\ holder' = None
    /\ Goto(t, "cancel")
    /\ UNCHANGED <<file, made, maker, registry, world, serials, history>>

\* The DACL cannot be read back or the registry written: the reservation stays
\* and the DACL is restored, if that is possible.
CompleteFails(t) ==
    /\ At(t, "verify")
    /\ Proven(t)
    /\ SaveFails(memory, Registered)
    /\ Restore(t) \/ UNCHANGED acl
    /\ holder' = None
    /\ Goto(t, "cancel")
    /\ UNCHANGED <<file, made, maker, world, serials, history>>

\* Any other check of these steps fails: the reservation ran out or was
\* replaced, or the file is gone.
Refused(t) ==
    /\ \/ At(t, "bind") /\ file = 0
       \/ At(t, "record") /\ ~MayRecord(t)
       \/ At(t, "complete") /\ (~MayComplete(t) \/ file = 0)
    /\ Unlocked
    /\ Goto(t, "cancel")
    /\ UNCHANGED <<files, registry, world, holder, faults, serials, history>>

-----------------------------------------------------------------------------
(* The end of a creation that failed.                                      *)

\* Mutant: the destination stays.
EndedKeeping(self) == Idle

\* The handler returns; a destination it holds is deleted next.
Ended(self) ==
    IF self.held = None THEN Idle ELSE [self EXCEPT !.pc = "discard"]

\* cancel_personal_registration: a reservation of someone else is left alone.
Cancel(t) ==
    /\ At(t, "cancel")
    /\ Unlocked
    /\ IF Matches(t) THEN Save([memory EXCEPT !.pending = None])
       ELSE UNCHANGED registry
    /\ Stay(t, Ended(task[t]))
    /\ UNCHANGED <<files, world, holder, faults, serials, history>>

CancelFails(t) ==
    /\ At(t, "cancel")
    /\ Unlocked
    /\ Matches(t)
    /\ SaveFails(memory, [memory EXCEPT !.pending = None])
    /\ Stay(t, Ended(task[t]))
    /\ UNCHANGED <<files, world, holder, serials, history>>

\* Drop of Destination: exactly the file it created is deleted.
Discard(t) ==
    /\ At(t, "discard")
    /\ file' = 0
    /\ Stay(t, Idle)
    /\ UNCHANGED <<made, maker, acl, registry, world, holder, faults, serials,
                   history>>

-----------------------------------------------------------------------------
(* The rest of the service, and the outside.                               *)

\* set_personal_syncthing_opt_in, with what a mount of `id` by `user` knows.
SetConsent(id, user, opted) ==
    /\ Unlocked
    /\ healthy
    /\ memory.record # None
    /\ memory.record.id = id /\ memory.record.owner = user
    /\ LET new == [memory EXCEPT !.record.consent = opted] IN
        \/ Save(new) /\ UNCHANGED faults
        \/ SaveFails(memory, new)
    /\ UNCHANGED <<files, world, holder, task, serials, history>>

\* A policy edit names the file, which needs no consent of its owner; its DACL
\* becomes the policy's.
Claim ==
    /\ Unlocked
    /\ claimed = 0
    /\ file # 0
    /\ claimed' = file
    /\ acl' = "policy"
    /\ governed' = governed \cup {file}
    /\ UNCHANGED <<file, made, maker, registry, clock, holder, task, faults,
                   serials, told, raced>>

\* The entry is removed and its file opened again; with another file at the name
\* the edit is refused.
Unclaim ==
    /\ Unlocked
    /\ claimed # 0
    /\ file \in {0, claimed}
    /\ claimed' = 0
    /\ acl' = IF file = 0 THEN acl ELSE "open"
    /\ UNCHANGED <<file, made, maker, registry, clock, holder, task, faults,
                   serials, history>>

\* Someone deletes the file, or puts one there.
Held == \E t \in Tasks : task[t].held # None /\ task[t].held = file

DeleteOutside ==
    /\ Fault
    /\ file # 0
    /\ ~Held
    /\ file' = 0
    /\ UNCHANGED <<made, maker, acl, registry, world, holder, task, serials,
                   history>>

MakeOutside ==
    /\ Fault
    /\ Make(Outsider)
    /\ UNCHANGED <<registry, world, holder, task, serials, history>>

\* load_at_startup_after_mount_cleanup.  A registry that cannot be read or is
\* malformed leaves memory empty and the store unhealthy.
Loaded ==
    [disk EXCEPT !.pending =
        IF disk.record = None /\ Live(@, clock) THEN @ ELSE None]

Restart(read) ==
    /\ Fault
    /\ read \/ Unreadable
    /\ memory' = IF read THEN Loaded ELSE Empty
    /\ healthy' = read
    /\ holder' = None
    /\ task' = [t \in Tasks |-> Idle]
    /\ UNCHANGED <<files, disk, world, serials, history>>

Tick ==
    /\ clock < MaxTime
    /\ clock' = clock + 1
    /\ UNCHANGED <<files, registry, claimed, holder, task, faults, serials,
                   history>>

Create(t) ==
    \/ \E user \in Users : Probe(t, user)
    \/ Reserve(t) \/ ReserveFails(t) \/ ReserveRefused(t)
    \/ Prepare(t) \/ PrepareFails(t)
    \/ Broker(t) \/ BrokerFails(t)
    \/ Bind(t)
    \/ RecordCompletion(t) \/ RecordCompletionFails(t)
    \/ Protect(t) \/ ProtectFails(t)
    \/ Complete(t) \/ CompleteRefused(t) \/ CompleteFails(t)
    \/ Refused(t)
    \/ Cancel(t) \/ CancelFails(t)
    \/ Discard(t)

Next ==
    \/ \E t \in Tasks : Create(t)
    \/ \E id \in Files, user \in Users, opted \in BOOLEAN :
        SetConsent(id, user, opted)
    \/ Claim \/ Unclaim
    \/ DeleteOutside \/ MakeOutside
    \/ \E read \in BOOLEAN : Restart(read)
    \/ Tick

Spec == Init /\ [][Next]_vars

-----------------------------------------------------------------------------
(* Properties.                                                             *)

OwnedBy(reg, id, user) ==
    reg.record # None /\ reg.record.id = id /\ reg.record.owner = user

\* A vault whose owner was told of its creation stays registered to that owner,
\* in memory and on disk, and protected, as long as its file is there: whatever
\* other creations of the name, failed writes or restarts follow.  Excepted are
\* files that a policy has claimed, and the record of a file that appeared only
\* after the reclaiming creation had looked for one.
CreatedIsKept ==
    \A id \in Files \ raced, user \in Users :
        (<<id, user>> \in told /\ file = id) =>
            /\ OwnedBy(memory, id, user) /\ OwnedBy(disk, id, user)
            /\ id \notin governed => acl = user

\* The record of a standard user names a file that a creation of that user made,
\* never that of another creation nor one put there from outside, though
\* reservations run out and are replaced while files are being formatted.  (The
\* file of an administrator, which nobody holds, can be exchanged before it is
\* bound.)
RegistersOnlyItsOwn ==
    \A reg \in {memory, disk} :
        (reg.record # None /\ reg.record.owner \notin Admins) =>
            maker[reg.record.id] = reg.record.owner

\* "No completed Vault was saved": when the creation of a standard user lets go
\* of the file it made, the file is gone or its owner was told of the vault;
\* only a crash leaves a half-made file behind.
HalfMadeIsRemoved ==
    [][ \A t \in Tasks :
            LET id == task[t].held IN
            (id # None /\ task'[t].held = None) =>
                \/ file' # id
                \/ <<id, task[t].user>> \in told'
                \/ \E read \in BOOLEAN : Restart(read) ]_vars

\* load_at_startup: "preserve the bytes for diagnosis and block personal-vault
\* operations until an operator repairs the state."
UnreadableIsPreserved == [][ ~healthy => disk' = disk ]_vars
=============================================================================
