---------------------------- MODULE LicenceCache ----------------------------
(***************************************************************************)
(* The machine's licence cache, its protected history and the renewal of a   *)
(* licence by the SYSTEM service (commander-svc/src/license_cache.rs,         *)
(* license_cache_rollback.rs, license_cache_ledger.rs, and                    *)
(* renew_from_machine_cache of licence_device_credential.rs), in the build    *)
(* with the experimental-pq-licence feature.                                  *)
(*                                                                           *)
(* Every writer holds one lock (WRITE_LOCK inside the process, the named      *)
(* mutex between processes) from its checks through two durable writes: the   *)
(* history in the registry, then the cache file, replaced atomically.  The    *)
(* service may die, and either write may fail, between them.  A renewal       *)
(* talks to the licensing server without the lock and compares the cache      *)
(* again before it saves.                                                     *)
(*                                                                           *)
(* A token stands for payload, signature and hybrid proof.  Both signatures   *)
(* of every token are good: a request with a bad one changes nothing.  One    *)
(* device, one issuer.  Tokens that the machine retains verify under the      *)
(* current or the historical keys (license_cache_history.rs).  The system     *)
(* clock may be set: whoever reads it reads any time.                         *)
(***************************************************************************)
EXTENDS Integers, FiniteSets

CONSTANTS
    Licences,     \* licence ids
    Tokens,       \* doubly signed licences
    NoToken,
    NoCache,
    Tasks,        \* renewals in progress at a time
    NoTask,       \* in its place, a request of the desktop to store a licence
    NoWriter,
    MaxRecords,   \* MAX_RECORDS, 4 in the code
    MaxTime,      \* bound on the clock
    MaxEpoch      \* bound on the signing epoch

ASSUME TokensAssumption ==
    /\ Tokens \subseteq [lic : Licences, iat : Nat, text : Nat, sig : Nat,
                         epoch : Nat]
    /\ NoToken \notin Tokens
ASSUME TasksAssumption == NoTask \notin Tasks
ASSUME LimitAssumption ==
    {MaxRecords, MaxTime, MaxEpoch} \subseteq Nat /\ MaxRecords > 0

VARIABLES
    cache,     \* license_cache.json
    ledger,    \* the history; {} when the registry value does not exist
    accepted,  \* history variable: every hybrid token ever recorded or cached
    minEpoch,  \* the minimum signing epoch of the running build
    writer,    \* the holder of the lock, between its two writes
    task       \* the renewals

vars == <<cache, ledger, accepted, minEpoch, writer, task>>

\* A cache file, and a record of the history: a token and last_verified_at.
\* A cache left by a build without hybrid licences has hybrid FALSE.
Record == [token : Tokens, time : 0 .. MaxTime]
CacheFile == [token : Tokens, time : 0 .. MaxTime, hybrid : BOOLEAN]
ASSUME NoCacheAssumption == NoCache \notin CacheFile

RecordOf(file) == [token |-> file.token, time |-> file.time]
HybridFile(tok, time) == [token |-> tok, time |-> time, hybrid |-> TRUE]

Cached == cache # NoCache /\ cache.hybrid

Shown == IF Cached THEN cache.token ELSE NoToken

History == INSTANCE LicenceHistory
    WITH Tokens <- Tokens, NoToken <- NoToken, accepted <- accepted,
         shown <- Shown

\* `seen` is the cache as recovery read it, `snap` the licence being renewed.
Task == [pc : {"idle", "select", "recover", "verify", "load", "ask", "prove",
               "save"},
         tok : Tokens \cup {NoToken}, time : 0 .. MaxTime,
         seen : CacheFile \cup {NoCache}, snap : CacheFile \cup {NoCache}]

Idle == [pc |-> "idle", tok |-> NoToken, time |-> 0, seen |-> NoCache,
         snap |-> NoCache]

Writer == [tok : Tokens, time : 0 .. MaxTime, task : Tasks \cup {NoTask}]

TypeOK ==
    /\ cache \in CacheFile \cup {NoCache}
    /\ ledger \subseteq Record
    /\ accepted \subseteq Tokens
    /\ minEpoch \in 0 .. MaxEpoch
    /\ writer \in Writer \cup {NoWriter}
    /\ task \in [Tasks -> Task]

\* A machine without a licence, with a classical cache, with a hybrid cache
\* older than the history, or with the single record of its first version.
Init ==
    /\ cache \in CacheFile \cup {NoCache}
    /\ ledger \in IF Cached THEN {{}, {RecordOf(cache)}} ELSE {{}}
    /\ accepted = IF Cached THEN {cache.token} ELSE {}
    /\ minEpoch = 0
    /\ writer = NoWriter
    /\ task = [t \in Tasks |-> Idle]

-----------------------------------------------------------------------------
(* The rules of the history.                                               *)

\* Mutant: the server's date is taken as it is.
VerificationTimeUnbounded(tok, time) == tok.iat

\* signed_verification_time: a server clock ahead of the device starts no grace
\* period in the future.
VerificationTime(tok, time) == IF tok.iat < time THEN tok.iat ELSE time

\* check_previous_with_history: a classical cache sets no floor.
CheckPrevious(tok) == Cached => History!NotOlder(cache.token, tok)

Mates(records, tok) == {r \in records : r.token.lic = tok.lic}

\* Mutant: the licence being refreshed must agree with its record, too.
ReconciledAlways(file, tok) ==
    \A r \in Mates(ledger, file.token) :
        History!Payload(r.token) = History!Payload(file.token)

\* The cached licence and its record agree, unless it is the one refreshed.
Reconciled(file, tok) ==
    file.token.lic # tok.lic =>
        \A r \in Mates(ledger, file.token) :
            History!Payload(r.token) = History!Payload(file.token)

\* Mutant: a cached licence without a record is forgotten when replaced.
UnrecordedDropped(files, tok) == {}

\* A cached licence without a record is recorded before another replaces it.
Unrecorded(files, tok) ==
    {RecordOf(file) : file \in {f \in files :
        f.token.lic # tok.lic /\ Mates(ledger, f.token) = {}}}

\* Mutant: the limit is checked before the record is added, not after.
MayAdvanceOneMore(files, tok) ==
    /\ tok.epoch >= minEpoch
    /\ \A r \in ledger : History!NotOlder(r.token, tok)
    /\ \A file \in files : Reconciled(file, tok)
    /\ Unrecorded(files, tok) # {} => Cardinality(ledger) < MaxRecords
    /\ \/ Mates(ledger, tok) # {}
       \/ Cardinality(ledger \cup Unrecorded(files, tok)) <= MaxRecords

\* Ledger::advance.  `files` holds the existing cache, if any: no record is
\* evicted, and a full history refuses another licence.
MayAdvance(files, tok) ==
    /\ tok.epoch >= minEpoch
    /\ \A r \in ledger : History!NotOlder(r.token, tok)
    /\ \A file \in files : Reconciled(file, tok)
    /\ Unrecorded(files, tok) # {} => Cardinality(ledger) < MaxRecords
    /\ \/ Mates(ledger, tok) # {}
       \/ Cardinality(ledger \cup Unrecorded(files, tok)) < MaxRecords

Advance(files, tok, time) ==
    ((ledger \cup Unrecorded(files, tok)) \ Mates(ledger, tok))
        \cup {[token |-> tok, time |-> time]}

HybridCache == IF Cached THEN {cache} ELSE {}

\* ledger::verify_current: `file` is in the history as it stands, and nothing
\* in the history outdates it.
VerifyCurrent(file) ==
    /\ MayAdvance({}, file.token)
    /\ RecordOf(file) \in ledger

\* verify_with_anchor: and it is what the cache holds.
Current(file) == cache = file /\ file.hybrid /\ VerifyCurrent(file)

-----------------------------------------------------------------------------
(* The two writes.                                                         *)

Unlocked == writer = NoWriter

Lock(t, tok, time) == writer' = [tok |-> tok, time |-> time, task |-> t]

\* anchor.write succeeds; the cache file is next.
RecordFirst(t, tok, time) ==
    /\ ledger' = Advance(HybridCache, tok, time)
    /\ accepted' = accepted \cup {tok}
    /\ Lock(t, tok, time)

\* A renewal's first recovery goes on to load the cache; one between the
\* snapshot and the request ends it ("reload before retrying"), like a save.
Continued(self) ==
    IF self.pc = "recover" /\ self.snap = NoCache
    THEN [Idle EXCEPT !.pc = "load"]
    ELSE Idle

\* atomic_write, and the lock is released.
WriteCache ==
    /\ ~Unlocked
    /\ cache' = HybridFile(writer.tok, writer.time)
    /\ writer' = NoWriter
    /\ task' = [t \in Tasks |->
        IF t = writer.task THEN Continued(task[t]) ELSE task[t]]
    /\ UNCHANGED <<ledger, accepted, minEpoch>>

\* atomic_write fails; the history keeps the candidate.
WriteCacheFails ==
    /\ ~Unlocked
    /\ writer' = NoWriter
    /\ task' = [t \in Tasks |-> IF t = writer.task THEN Idle ELSE task[t]]
    /\ UNCHANGED <<cache, ledger, accepted, minEpoch>>

-----------------------------------------------------------------------------
\* store and write_with_anchor: the desktop hands over a licence.
Store(tok, now) ==
    /\ Unlocked
    /\ tok.epoch >= minEpoch
    /\ CheckPrevious(tok)
    /\ MayAdvance(HybridCache, tok)
    /\ RecordFirst(NoTask, tok, VerificationTime(tok, now))
    /\ UNCHANGED <<cache, minEpoch, task>>

-----------------------------------------------------------------------------
(* renew_from_machine_cache: recover, load, recover again, ask, save.      *)

At(t, pc) == task[t].pc = pc

\* The task's next step changes nothing but its own state.
Step(t, self) ==
    /\ task' = [task EXCEPT ![t] = self]
    /\ UNCHANGED <<cache, ledger, accepted, minEpoch, writer>>

Goto(t, pc) == Step(t, [task[t] EXCEPT !.pc = pc])

\* recover_pending_with_anchor reads the cache without the lock, ...
Peek(t) ==
    /\ \/ At(t, "idle")
       \/ At(t, "load") /\ task[t].snap # NoCache
    /\ cache # NoCache
    /\ Step(t, [task[t] EXCEPT !.pc = "select", !.seen = cache])

\* ... then the history: its record of that licence, when it has another token
\* than the cache, is the interrupted candidate (pending_renewal).
Pending(file) ==
    {r \in Mates(ledger, file.token) : r.token # file.token \/ ~file.hybrid}

SelectPending(t, now) ==
    /\ At(t, "select")
    /\ \E r \in Pending(task[t].seen) :
        /\ r.time <= now
        /\ Step(t, [task[t] EXCEPT
            !.pc = "recover", !.tok = r.token, !.time = r.time])

SelectNothing(t) ==
    /\ At(t, "select")
    /\ ledger # {}
    /\ Pending(task[t].seen) = {}
    /\ Goto(t, "verify")

\* Mutant: a cache that is not the recorded one refuses every renewal.
RenewCurrentOnly(t, file, tok, time) ==
    /\ Unlocked
    /\ cache = file
    /\ ledger # {}
    /\ tok.epoch >= minEpoch
    /\ tok.lic = file.token.lic
    /\ CheckPrevious(tok)
    /\ Current(file)
    /\ MayAdvance(HybridCache, tok)
    /\ RecordFirst(t, tok, time)
    /\ UNCHANGED <<cache, minEpoch, task>>

\* write_renewal_with_anchor: the cache is still `file`.  A current licence is
\* advanced; otherwise only the exact candidate of the history is completed.
Renew(t, file, tok, time) ==
    /\ Unlocked
    /\ cache = file
    /\ ledger # {}
    /\ tok.epoch >= minEpoch
    /\ tok.lic = file.token.lic
    /\ CheckPrevious(tok)
    /\ \/ /\ Current(file)
          /\ MayAdvance(HybridCache, tok)
          /\ RecordFirst(t, tok, time)
       \/ /\ ~Current(file)
          /\ VerifyCurrent(HybridFile(tok, time))
          /\ Lock(t, tok, time)
          /\ UNCHANGED <<ledger, accepted>>
    /\ UNCHANGED <<cache, minEpoch, task>>

\* The candidate is accepted as of the time it was first accepted.
Recover(t) ==
    /\ At(t, "recover")
    /\ LET self == task[t] IN
        Renew(t, self.seen, self.tok, VerificationTime(self.tok, self.time))

\* Nothing was pending: the cache that was read is verified under the lock.
VerifyNothingPending(t) ==
    /\ At(t, "verify")
    /\ Unlocked
    /\ Current(task[t].seen)
    /\ Step(t, [task[t] EXCEPT
        !.pc = IF task[t].snap = NoCache THEN "load" ELSE "ask",
        !.seen = NoCache])

\* load_snapshot_with_anchor
Load(t) ==
    /\ At(t, "load")
    /\ task[t].snap = NoCache
    /\ Unlocked
    /\ Cached
    /\ Current(cache)
    /\ Step(t, [task[t] EXCEPT !.snap = cache])

\* prepare_challenge_request and prepare_renewal_request verify the snapshot
\* before each of the two messages of request_renewal.
Ask(t) ==
    /\ At(t, "ask")
    /\ Unlocked
    /\ Current(task[t].snap)
    /\ Goto(t, "prove")

\* The server answers with a licence of the same id, validated on arrival
\* (validate_device_renewal).
Prove(t, tok) ==
    /\ At(t, "prove")
    /\ Unlocked
    /\ Current(task[t].snap)
    /\ tok.lic = task[t].snap.token.lic
    /\ tok.epoch >= minEpoch
    /\ Step(t, [task[t] EXCEPT !.pc = "save", !.tok = tok])

\* save_device_renewal
Save(t, now) ==
    /\ At(t, "save")
    /\ LET self == task[t] IN
        Renew(t, self.snap, self.tok, VerificationTime(self.tok, now))

\* A check fails, a read or the history's write fails, the lock times out, or
\* the server does not answer: the renewal ends without a change.
GiveUp(t) ==
    /\ ~At(t, "idle")
    /\ ~Unlocked => writer.task # t
    /\ Step(t, Idle)

-----------------------------------------------------------------------------
\* The service dies and starts again, perhaps as a newer build.
Restart ==
    /\ minEpoch' \in minEpoch .. MaxEpoch
    /\ writer' = NoWriter
    /\ task' = [t \in Tasks |-> Idle]
    /\ UNCHANGED <<cache, ledger, accepted>>

Times == 0 .. MaxTime

Next ==
    \/ WriteCache
    \/ WriteCacheFails
    \/ \E tok \in Tokens, now \in Times : Store(tok, now)
    \/ \E t \in Tasks :
        \/ Peek(t)
        \/ \E now \in Times : SelectPending(t, now)
        \/ SelectNothing(t)
        \/ Recover(t)
        \/ VerifyNothingPending(t)
        \/ Load(t)
        \/ Ask(t)
        \/ \E tok \in Tokens : Prove(t, tok)
        \/ \E now \in Times : Save(t, now)
        \/ GiveUp(t)
    \/ Restart

Spec == Init /\ [][Next]_vars

\* The desktop asks for a renewal again and again, a renewal that cannot go on
\* ends, the clock is not behind and the disk does not fail for ever.
Fairness ==
    /\ SF_vars(WriteCache)
    /\ \A t \in Tasks :
        /\ WF_vars(GiveUp(t))
        /\ SF_vars(Peek(t))
        /\ SF_vars(\E now \in Times : SelectPending(t, now))
        /\ SF_vars(Recover(t))

FairSpec == Spec /\ Fairness

-----------------------------------------------------------------------------
(* Properties.                                                             *)

\* The cache implements the monotone history: whatever writes fail, wherever
\* the service dies and whoever else writes meanwhile, the licence in the cache
\* file is replaced only by a recorded one that nothing ever accepted outdates,
\* although the history keeps at most MAX_RECORDS records.
NeverRollsBack == History!Spec

\* The history has at most MAX_RECORDS records and one for each licence, so
\* that "duplicate" records never make it invalid.
HistoryBounded ==
    /\ Cardinality(ledger) <= MaxRecords
    /\ \A r, q \in ledger : r.token.lic = q.token.lic => r = q

\* Between the two writes a retry of the same candidate would be admitted, so
\* a save that dies there can be repeated.
RetryAllowed ==
    ~Unlocked =>
        CheckPrevious(writer.tok) /\ MayAdvance(HybridCache, writer.tok)

\* A save of the cached hybrid licence stopped between its writes.  The build
\* still trusts the candidate's epoch and nothing recorded since outdates it.
Interrupted ==
    /\ Cached
    /\ \E r \in Pending(cache) :
        /\ r.token.epoch >= minEpoch
        /\ \A q \in ledger : History!NotOlder(q.token, r.token)

\* Recovery finishes an interrupted save, unless a licence of a higher epoch
\* was recorded after it, or a newer build gave up its epoch: then
\* check_previous refuses the candidate whenever recovery tries it, and the
\* cache waits for the desktop to store that licence again.
RecoveryCompletes == Interrupted ~> ~Interrupted
=============================================================================
