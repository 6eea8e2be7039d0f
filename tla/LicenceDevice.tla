---------------------------- MODULE LicenceDevice ----------------------------
(***************************************************************************)
(* The device's identity for a licence: its enrolment with the licensing      *)
(* server and its release (commander-svc/src/licence_device_credential.rs,     *)
(* licence_device_receipt.rs, licence_device_release_pending.rs).             *)
(*                                                                           *)
(* One licence and device (one binding).  Its identity is a protected         *)
(* registry record, in the anchor of its own (scoped) or in the one that      *)
(* older builds kept for every licence (legacy).  Enrolments and releases run *)
(* side by side; each holds the credential and the process lock while it      *)
(* reads or writes a record, and no lock while it talks to the server.  The   *)
(* licence in the cache may be renewed, the clock set, an answer lost and the *)
(* service stopped between any two steps.  Releases have no caller yet.       *)
(*                                                                           *)
(* A licence text stands for the cached token and for the request body made   *)
(* from it.  Secrets, seals and proofs always match their record.             *)
(***************************************************************************)
EXTENDS Integers, FiniteSets

CONSTANTS
    Tasks,        \* requests in progress at a time
    Ids,          \* device identities
    OldId,        \* the identity that an older build may have left
    None,         \* an empty registry value; in a task, nothing yet
    Foreign,      \* a legacy record of another licence, or a damaged one
    MaxBody,      \* bound on renewals of the licence
    MaxTime,      \* bound on the clock
    Validity,     \* how long a receipt is good, at most 600 s in the code
    MaxSetBacks,  \* bound on the times the clock is set back
    MaxNonce      \* bound on the challenges of the server

ASSUME BoundsAssumption ==
    /\ {MaxBody, MaxTime, Validity, MaxSetBacks, MaxNonce} \subseteq Nat
    /\ MaxBody > 0
ASSUME IdsAssumption == OldId \in Ids

VARIABLES
    body,        \* the cached licence, as the request body it gives
    clock,
    setBacks,
    legacy,      \* the anchor ExperimentalLicenceDevice
    scoped,      \* the anchor of this binding
    release,     \* the anchor ExperimentalLicenceRelease of this binding
    registered,  \* server: the identities enrolled
    nonces,      \* server: the number of challenges given
    released,    \* server: the release requests carried out
    acked,       \* server: the releases acknowledged
    task

device == <<legacy, scoped, release>>
server == <<registered, nonces, released, acked>>
vars == <<body, clock, setBacks, device, server, task>>

Bodies == 1 .. MaxBody
Times == 0 .. MaxTime

\* A pending identity has no accepted_at.
Identity == [phase : {"pending"}, id : Ids, at : {0}]
    \cup [phase : {"confirmed"}, id : Ids, at : Times]

Pending(id) == [phase |-> "pending", id |-> id, at |-> 0]
Confirmed(id, at) == [phase |-> "confirmed", id |-> id, at |-> at]

\* A release request binds the identity, the licence and the server's nonce.
Request == [id : Ids, body : Bodies, nonce : 1 .. MaxNonce]
Release == [phase : {"staged", "confirmed", "acknowledged"}, request : Request]
ASSUME NoneAssumption ==
    None # Foreign /\ None \notin Ids \cup Identity \cup Release

Task == [pc : {"idle", "select", "state", "enrol", "confirm", "challenge",
               "stage", "release", "released", "acknowledge", "send",
               "record"},
         snap : Bodies \cup {None},       \* the licence it started from
         time : Times,                    \* the time it read, or the receipt's
         anchor : {"legacy", "scoped"},
         id : Ids \cup {None},
         request : Request \cup {None}]

Idle == [pc |-> "idle", snap |-> None, time |-> 0, anchor |-> "scoped",
         id |-> None, request |-> None]

TypeOK ==
    /\ body \in Bodies
    /\ clock \in Times
    /\ setBacks \in 0 .. MaxSetBacks
    /\ legacy \in Identity \cup {None, Foreign}
    /\ scoped \in Identity \cup {None}
    /\ release \in Release \cup {None}
    /\ registered \subseteq Ids
    /\ nonces \in 0 .. MaxNonce
    /\ released \subseteq Request
    /\ acked \subseteq Request
    /\ task \in [Tasks -> Task]

\* A machine without an identity, or one that an older build left.
Init ==
    /\ body = 1
    /\ clock = 0
    /\ setBacks = 0
    /\ legacy \in {None, Foreign, Pending(OldId), Confirmed(OldId, 0)}
    /\ scoped = None
    /\ release = None
    /\ registered =
        IF legacy \in Identity /\ legacy.phase = "confirmed"
        THEN {legacy.id} ELSE {}
    /\ nonces = 0
    /\ released = {}
    /\ acked = {}
    /\ task = [t \in Tasks |-> Idle]

-----------------------------------------------------------------------------
(* Records.                                                                *)

\* decode and decode_confirmed: an identity accepted in the future is not one.
Decodes(record, now) ==
    /\ record \in Identity
    /\ record.phase = "confirmed" => record.at <= now

\* selected_machine_anchor_locked: the scoped anchor, unless only the legacy
\* one has an identity of this binding.
Selected(now) ==
    IF scoped = None /\ Decodes(legacy, now) THEN "legacy" ELSE "scoped"

Anchor(name) == IF name = "legacy" THEN legacy ELSE scoped

WriteAnchor(name, record) ==
    /\ legacy' = IF name = "legacy" THEN record ELSE legacy
    /\ scoped' = IF name = "scoped" THEN record ELSE scoped
    /\ UNCHANGED release

\* The confirmed identity that decode_confirmed gives at this time.
Credential ==
    LET record == Anchor(Selected(clock)) IN
    IF Decodes(record, clock) /\ record.phase = "confirmed"
    THEN record.id ELSE None

\* receipt::verify at this time, for a receipt of the same identity.
Fresh(issued) == issued <= clock /\ clock <= issued + Validity

At(t, pc) == task[t].pc = pc
Stay(t, self) == task' = [task EXCEPT ![t] = self]
Goto(t, pc) == Stay(t, [task[t] EXCEPT !.pc = pc])

\* The cache is still what the task started from (with_verified_refresh_wire).
CacheCurrent(t) == body = task[t].snap

World == <<body, clock, setBacks>>

-----------------------------------------------------------------------------
(* Enrolment: enrol_from_machine_cache, enrol_over_network.                *)

\* load_device_licence_snapshot and checked_refresh_wire; then the time is read,
\* before the locks are taken.
Enrol(t) ==
    /\ At(t, "idle")
    /\ Stay(t, [Idle EXCEPT !.pc = "select", !.snap = body, !.time = clock])
    /\ UNCHANGED <<World, device, server>>

\* The anchor is selected, and the locks are released.
Select(t) ==
    /\ At(t, "select")
    /\ Stay(t, [task[t] EXCEPT
        !.pc = "state", !.anchor = Selected(task[t].time)])
    /\ UNCHANGED <<World, device, server>>

\* Mutant: the identity is sent first and saved when it is confirmed.
CreateUnsaved(t) ==
    /\ At(t, "state")
    /\ Anchor(task[t].anchor) = None
    /\ \E id \in Ids :
        /\ \A other \in Tasks : task[other].id # id
        /\ legacy \in Identity => legacy.id # id
        /\ id \notin registered
        /\ Stay(t, [task[t] EXCEPT !.pc = "enrol", !.id = id])
        /\ UNCHANGED device
    /\ UNCHANGED <<World, server>>

\* enrolment_state: an empty anchor gets a new identity, saved and read back.
\* The write may be done and yet report failure.
Create(t) ==
    /\ At(t, "state")
    /\ Anchor(task[t].anchor) = None
    /\ \E id \in Ids :
        /\ legacy \in Identity => legacy.id # id
        /\ id \notin registered
        /\ \/ Stay(t, [task[t] EXCEPT !.pc = "enrol", !.id = id])
           \/ Stay(t, Idle)
        /\ WriteAnchor(task[t].anchor, Pending(id))
    /\ UNCHANGED <<World, server>>

\* A pending identity is sent again; a confirmed one ends the enrolment.
Reuse(t) ==
    /\ At(t, "state")
    /\ LET record == Anchor(task[t].anchor) IN
        /\ Decodes(record, task[t].time)
        /\ IF record.phase = "pending"
           THEN Stay(t, [task[t] EXCEPT !.pc = "enrol", !.id = record.id])
           ELSE Stay(t, Idle)
    /\ UNCHANGED <<World, device, server>>

\* The server enrols the identity, again if need be, and dates its receipt by
\* its own clock.  The answer may be lost.
Register(t, issued) ==
    /\ At(t, "enrol")
    /\ registered' = registered \cup {task[t].id}
    /\ \/ Stay(t, [task[t] EXCEPT !.pc = "confirm", !.time = issued])
       \/ Stay(t, Idle)
    /\ UNCHANGED <<World, device, nonces, released, acked>>

\* Mutant: the receipt's identity is not compared with the record's.
ConfirmAnyIdentity(t) ==
    /\ At(t, "confirm")
    /\ CacheCurrent(t)
    /\ Fresh(task[t].time)
    /\ LET name == Selected(clock) IN
        /\ Decodes(Anchor(name), clock)
        /\ IF Anchor(name).phase = "pending"
           THEN WriteAnchor(name, Confirmed(Anchor(name).id, clock))
           ELSE UNCHANGED device
    /\ Stay(t, Idle)
    /\ UNCHANGED <<World, server>>

\* confirm_locked, with the cache, under all locks: the pending identity is
\* confirmed; one that another enrolment has confirmed is left as it is.
Confirm(t) ==
    /\ At(t, "confirm")
    /\ CacheCurrent(t)
    /\ Fresh(task[t].time)
    /\ LET name == Selected(clock) IN
        /\ Decodes(Anchor(name), clock)
        /\ Anchor(name).id = task[t].id
        /\ IF Anchor(name).phase = "pending"
           THEN WriteAnchor(name, Confirmed(task[t].id, clock))
           ELSE UNCHANGED device
    /\ Stay(t, Idle)
    /\ UNCHANGED <<World, server>>

-----------------------------------------------------------------------------
(* Release: request_release.  Every step that reads or writes the record    *)
(* does so under with_current: all locks, the cache as it was and a         *)
(* confirmed identity.  The time it is given is read before the locks; an   *)
(* earlier one can only refuse the step.                                    *)

WithCurrent(t) ==
    /\ CacheCurrent(t)
    /\ Credential # None

\* load_locked: the record opens only for the identity and licence it binds.
Opens(text) ==
    /\ release # None
    /\ release.request.id = Credential
    /\ release.request.body = text

\* release_exchange_with: a saved request is sent again as it is, and a
\* confirmed one only acknowledged.
LoadRelease(t) ==
    /\ At(t, "idle")
    /\ Credential # None
    /\ LET self == [Idle EXCEPT !.snap = body] IN
        \/ /\ release = None
           /\ Stay(t, [self EXCEPT !.pc = "challenge"])
        \/ /\ Opens(body)
           /\ Stay(t, [self EXCEPT
                !.request = release.request,
                !.pc = IF release.phase = "staged" THEN "release"
                       ELSE "acknowledge"])
    /\ UNCHANGED <<World, device, server>>

\* Mutant: the identity is not loaded again after the challenge.
ChallengeUnchecked(t) ==
    /\ At(t, "challenge")
    /\ CacheCurrent(t)
    /\ nonces < MaxNonce
    /\ nonces' = nonces + 1
    /\ Stay(t, [task[t] EXCEPT !.pc = "stage", !.request =
        [id |-> Credential, body |-> task[t].snap, nonce |-> nonces']])
    /\ UNCHANGED <<World, device, registered, released, acked>>

\* prepare_release_challenge_request, the server's challenge and
\* prepare_release_request.
Challenge(t) ==
    /\ At(t, "challenge")
    /\ WithCurrent(t)
    /\ nonces < MaxNonce
    /\ nonces' = nonces + 1
    /\ Stay(t, [task[t] EXCEPT !.pc = "stage", !.request =
        [id |-> Credential, body |-> task[t].snap, nonce |-> nonces']])
    /\ UNCHANGED <<World, device, registered, released, acked>>

WriteRelease(phase, request) ==
    /\ release' = [phase |-> phase, request |-> request]
    /\ UNCHANGED <<legacy, scoped>>

\* Mutant: a saved release is replaced.
StageReplacing(t) ==
    /\ At(t, "stage")
    /\ WithCurrent(t)
    /\ task[t].request.id = Credential
    /\ WriteRelease("staged", task[t].request)
    /\ Goto(t, "release")
    /\ UNCHANGED <<World, server>>

\* stage: saved and read back before it is sent; no record is replaced.  The
\* write may be done and yet report failure.
Stage(t) ==
    /\ At(t, "stage")
    /\ WithCurrent(t)
    /\ task[t].request.id = Credential
    /\ release = None
    /\ WriteRelease("staged", task[t].request)
    /\ Goto(t, "release") \/ Stay(t, Idle)
    /\ UNCHANGED <<World, server>>

\* Mutant: the acknowledgement follows the network answer, not the record.
SendReleaseAcknowledged(t) ==
    /\ At(t, "release")
    /\ released' = released \cup {task[t].request}
    /\ Goto(t, "send") \/ Stay(t, Idle)
    /\ UNCHANGED <<World, device, registered, nonces, acked>>

\* post_release: the server releases the device; the answer may be lost.
SendRelease(t) ==
    /\ At(t, "release")
    /\ released' = released \cup {task[t].request}
    /\ Goto(t, "released") \/ Stay(t, Idle)
    /\ UNCHANGED <<World, device, registered, nonces, acked>>

\* release_pending::confirm: the request is the one saved.
ConfirmRelease(t) ==
    /\ At(t, "released")
    /\ WithCurrent(t)
    /\ Opens(task[t].snap)
    /\ release.request = task[t].request
    /\ IF release.phase = "staged"
       THEN WriteRelease("confirmed", release.request)
       ELSE UNCHANGED device
    /\ Goto(t, "acknowledge") \/ Stay(t, Idle)
    /\ UNCHANGED <<World, server>>

\* acknowledgement_exchange_with and prepare_acknowledgement: only for a
\* record that says confirmed.
Acknowledge(t) ==
    /\ At(t, "acknowledge")
    /\ WithCurrent(t)
    /\ Opens(task[t].snap)
    /\ \/ release.phase = "acknowledged" /\ Stay(t, Idle)
       \/ /\ release.phase = "confirmed"
          /\ Stay(t, [task[t] EXCEPT
                !.pc = "send", !.request = release.request])
    /\ UNCHANGED <<World, device, server>>

\* post_release_acknowledgement; the answer may be lost.
SendAcknowledgement(t) ==
    /\ At(t, "send")
    /\ acked' = acked \cup {task[t].request}
    /\ Goto(t, "record") \/ Stay(t, Idle)
    /\ UNCHANGED <<World, device, registered, nonces, released>>

\* record_acknowledgement
Record(t) ==
    /\ At(t, "record")
    /\ WithCurrent(t)
    /\ Opens(task[t].snap)
    /\ release.phase # "staged"
    /\ release.request = task[t].request
    /\ IF release.phase = "confirmed"
       THEN WriteRelease("acknowledged", release.request)
       ELSE UNCHANGED device
    /\ Stay(t, Idle)
    /\ UNCHANGED <<World, server>>

-----------------------------------------------------------------------------
\* A check or a write fails, or the server does not answer in time.
GiveUp(t) ==
    /\ ~At(t, "idle")
    /\ Stay(t, Idle)
    /\ UNCHANGED <<World, device, server>>

\* The service stops and starts again.
Restart ==
    /\ task' = [t \in Tasks |-> Idle]
    /\ UNCHANGED <<World, device, server>>

\* A renewal or the desktop replaces the cached licence.
Renew ==
    /\ body < MaxBody
    /\ body' = body + 1
    /\ UNCHANGED <<clock, setBacks, device, server, task>>

Tick ==
    /\ clock < MaxTime
    /\ clock' = clock + 1
    /\ UNCHANGED <<body, setBacks, device, server, task>>

SetBack ==
    /\ setBacks < MaxSetBacks
    /\ setBacks' = setBacks + 1
    /\ clock' \in 0 .. clock - 1
    /\ UNCHANGED <<body, device, server, task>>

Next ==
    \/ \E t \in Tasks :
        \/ Enrol(t)
        \/ Select(t)
        \/ Create(t)
        \/ Reuse(t)
        \/ \E issued \in Times : Register(t, issued)
        \/ Confirm(t)
        \/ LoadRelease(t)
        \/ Challenge(t)
        \/ Stage(t)
        \/ SendRelease(t)
        \/ ConfirmRelease(t)
        \/ Acknowledge(t)
        \/ SendAcknowledgement(t)
        \/ Record(t)
        \/ GiveUp(t)
    \/ Restart
    \/ Renew
    \/ Tick
    \/ SetBack

Spec == Init /\ [][Next]_vars

-----------------------------------------------------------------------------
(* Properties.                                                             *)

Holds(record, id) == record \in Identity /\ record.id = id

\* Whatever the server has enrolled is kept in a record of the device, however
\* enrolments interleave and wherever they stop, and nothing it kept is ever
\* replaced.  There is one identity for each record: a second one is enrolled
\* only beside an identity of an older build that was confirmed later than the
\* time some enrolment went by.
EnrolledIsKept ==
    /\ \A id \in registered : Holds(legacy, id) \/ Holds(scoped, id)
    /\ Cardinality(registered) > 1 =>
        legacy \in Identity /\ legacy.phase = "confirmed" /\ scoped # None

\* Identities agree with the server: one that is confirmed is enrolled there.
ConfirmedIsEnrolled ==
    \A record \in {legacy, scoped} \cap Identity :
        record.phase = "confirmed" => record.id \in registered

\* The device asks for its release with one request for ever, the saved one, so
\* that the server can tell a retry from another release.
OneRelease ==
    \A request \in released : release # None /\ release.request = request

\* An acknowledgement tells the server that the device has recorded the
\* release, and a record that says acknowledged was received by the server.
AcknowledgedIsRecorded ==
    /\ \A request \in acked :
        /\ request \in released
        /\ release.phase # "staged"
    /\ (release # None /\ release.phase = "acknowledged")
        => release.request \in acked
=============================================================================
