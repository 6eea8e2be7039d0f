-------------------------- MODULE PersonalSettings --------------------------
(***************************************************************************)
(* The per-account settings store of the SYSTEM service                     *)
(* (commander-svc/src/personal_settings.rs, personal_settings_scheduler.rs): *)
(* admission, one transaction at a time for each account, the conditional    *)
(* write and its atomic replacement of the record file.                      *)
(*                                                                           *)
(* An account's lane (struct Account: its two semaphores) is reference       *)
(* counted and only weakly held by the scheduler's map, so it may vanish     *)
(* and be created anew while requests come and go.  A caller may be          *)
(* cancelled while its blocking work runs.                                   *)
(***************************************************************************)
EXTENDS Integers, FiniteSets

CONSTANTS
    Accounts,            \* account SIDs
    Values,              \* settings documents
    MaxRevision,         \* u64::MAX
    NoValue,
    Requests,            \* places for requests in progress at a time
    NoJob,
    Lanes,               \* identities of Account allocations
    NoLane,
    MaxAccounts,         \* MAX_ACCOUNTS
    MaxRequests,         \* MAX_REQUESTS
    MaxAccountRequests   \* MAX_ACCOUNT_REQUESTS

ASSUME LanesAssumption == NoLane \notin Lanes
ASSUME RevisionAssumption == MaxRevision \in Nat
ASSUME LimitsAssumption ==
    /\ IsFiniteSet(Accounts)
    /\ IsFiniteSet(Requests)
    /\ {MaxAccounts, MaxRequests, MaxAccountRequests} \subseteq Nat

VARIABLES
    file,    \* the record file of each account
    answer,  \* the last answer computed for each account
    lanes,   \* Scheduler.accounts
    jobs     \* the requests

vars == <<file, answer, lanes, jobs>>

Register == INSTANCE SettingsRegister
    WITH Accounts <- Accounts, Values <- Values, MaxRevision <- MaxRevision,
         NoValue <- NoValue, file <- file, answer <- answer

-----------------------------------------------------------------------------
\* A request waits for the lane's transaction permit, then runs as blocking
\* work: it reads the record, and a write stages its successor.  `letters` is
\* with_quick_mount_letters at work; `called` is FALSE once the caller is gone.
Job == [pc : {"waiting", "ready", "staged", "letters"},
        kind : {"read", "write", "letters"}, a : Accounts, lane : Lanes,
        expected : 0 .. MaxRevision, value : Values \cup {NoValue},
        legacy : BOOLEAN, base : Register!Record, called : BOOLEAN]

TypeOK ==
    /\ file \in [Accounts -> Register!Record]
    /\ answer \in [Accounts -> Register!Answers]
    /\ lanes \in [Accounts -> Lanes \cup {NoLane}]
    /\ jobs \in [Requests -> Job \cup {NoJob}]

Init ==
    /\ file = [a \in Accounts |-> Register!Unwritten]
    /\ answer = [a \in Accounts |-> Register!Answer(-1, Register!Unwritten)]
    /\ lanes = [a \in Accounts |-> NoLane]
    /\ jobs = [r \in Requests |-> NoJob]

At(r, pc) == jobs[r] # NoJob /\ jobs[r].pc = pc

Working(r) == jobs[r] # NoJob /\ jobs[r].pc # "waiting"

\* Mutant: the blocking work of a cancelled caller does not keep its lane.
HoldersCalled(i) == {r \in Requests : /\ jobs[r] # NoJob
                                      /\ jobs[r].lane = i
                                      /\ jobs[r].called}

\* The strong references of a lane.
Holders(i) == {r \in Requests : jobs[r] # NoJob /\ jobs[r].lane = i}

\* The requests that hold a permit of the global admission semaphore.
Admitted == {r \in Requests : jobs[r] # NoJob /\ jobs[r].kind # "letters"}

\* Scheduler::account: dead entries go, a live lane is shared, a new one is
\* made while fewer than MaxAccounts are left.
Retained == [a \in Accounts |->
                IF lanes[a] # NoLane /\ Holders(lanes[a]) # {} THEN lanes[a]
                                                               ELSE NoLane]

AccountLane(a, i) ==
    LET known == {b \in Accounts : Retained[b] # NoLane}
    IN  /\ IF a \in known THEN i = Retained[a]
           ELSE /\ Cardinality(known) < MaxAccounts
                /\ Holders(i) = {}
        /\ lanes' = [Retained EXCEPT ![a] = i]

\* Mutant: letter cleanup does not take the permit.
FreeDuringCleanup(i) == \A r \in Holders(i) : ~Working(r) \/ jobs[r].kind = "letters"

\* The lane's transaction semaphore has its one permit.
Free(i) == \A r \in Holders(i) : ~Working(r)

\* Mutant: an account is admitted one request too many.
HasPermitsOffByOne(i) ==
    /\ Cardinality(Holders(i) \cap Admitted) <= MaxAccountRequests
    /\ Cardinality(Admitted) < MaxRequests

\* The lane and the scheduler each have a permit left to admit a request.
HasPermits(i) ==
    /\ Cardinality(Holders(i) \cap Admitted) < MaxAccountRequests
    /\ Cardinality(Admitted) < MaxRequests

NewJob(pc, kind, a, i, expected, v, legacy, base) ==
    [pc |-> pc, kind |-> kind, a |-> a, lane |-> i, expected |-> expected,
     value |-> v, legacy |-> legacy, base |-> base,
     called |-> TRUE]

\* Scheduler::acquire up to the wait.  A refusal (BUSY) changes nothing: a lane
\* made for it dies at once.
Submit(r, kind, a, expected, v, legacy) ==
    /\ jobs[r] = NoJob
    /\ \E i \in Lanes :
        /\ AccountLane(a, i)
        /\ HasPermits(i)
        /\ jobs' = [jobs EXCEPT ![r] =
                       NewJob("waiting", kind, a, i, expected, v, legacy,
                              Register!Unwritten)]
    /\ UNCHANGED <<file, answer>>

SubmitRead(r, a) == Submit(r, "read", a, 0, NoValue, FALSE)

\* The caller expects some revision the account has had.
SubmitWrite(r, a) ==
    \E expected \in 0 .. file[a].revision, v \in Values, legacy \in BOOLEAN :
        Submit(r, "write", a, expected, v, legacy)

\* The transaction permit is granted and the blocking work is spawned.
Acquire(r) ==
    /\ At(r, "waiting")
    /\ Free(jobs[r].lane)
    /\ jobs' = [jobs EXCEPT ![r].pc = "ready"]
    /\ UNCHANGED <<file, answer, lanes>>

\* The request is over and drops its lane and permits.
Ended(r) == jobs' = [jobs EXCEPT ![r] = NoJob]

\* The wait exceeds QUEUE_TIMEOUT, or the caller goes away while it waits.
Abandon(r) ==
    /\ At(r, "waiting")
    /\ Ended(r)
    /\ UNCHANGED <<file, answer, lanes>>

\* The caller goes away; the blocking work goes on.
Cancel(r) ==
    /\ At(r, "ready") \/ At(r, "staged")
    /\ jobs[r].called
    /\ jobs' = [jobs EXCEPT ![r].called = FALSE]
    /\ UNCHANGED <<file, answer, lanes>>

\* A storage or DPAPI call fails; atomic_write removes its temporary file.
Fail(r) ==
    /\ Working(r)
    /\ Ended(r)
    /\ UNCHANGED <<file, answer, lanes>>

\* execute reads the record.  A read is answered.
ReadRecord(r) ==
    /\ At(r, "ready") /\ jobs[r].kind = "read"
    /\ answer' = [answer EXCEPT ![jobs[r].a] =
                      Register!Answer(-1, file[jobs[r].a])]
    /\ Ended(r)
    /\ UNCHANGED <<file, lanes>>

\* Mutants: a write that expects an older revision is let through; the last
\* revision is followed by another.
AdmitsOlder(j, current) ==
    j.expected <= current.revision /\ current.revision < MaxRevision

AdmitsBeyondLast(j, current) == j.expected = current.revision

\* A write must expect the current revision, and the next one must exist.
Admits(j, current) ==
    j.expected = current.revision /\ current.revision < MaxRevision

\* execute computes, encrypts and writes the temporary file of the new record.
Stage(r) ==
    /\ At(r, "ready") /\ jobs[r].kind = "write"
    /\ IF Admits(jobs[r], file[jobs[r].a])
       THEN jobs' = [jobs EXCEPT ![r].pc = "staged",
                                 ![r].base = file[jobs[r].a]]
       ELSE Ended(r)
    /\ UNCHANGED <<file, answer, lanes>>

\* The temporary file replaces the record and the write is answered.
Replace(r) ==
    LET j == jobs[r]
    IN  /\ At(r, "staged")
        /\ file' = [file EXCEPT ![j.a] =
                       Register!Successor(j.base, j.value, j.legacy)]
        /\ answer' = [answer EXCEPT ![j.a] =
                         Register!Answer(j.expected, file'[j.a])]
        /\ Ended(r)
        /\ UNCHANGED lanes

\* with_quick_mount_letters takes the transaction permit or gives up, reads the
\* letters of a written record and works on them.
Letters(r, a) ==
    /\ jobs[r] = NoJob
    /\ \E i \in Lanes :
        /\ AccountLane(a, i)
        /\ Free(i)
        /\ file[a].revision > 0
        /\ jobs' = [jobs EXCEPT ![r] =
                       NewJob("letters", "letters", a, i, 0, NoValue, FALSE, file[a])]
    /\ UNCHANGED <<file, answer>>

\* The service dies; what the temporary files hold is lost.
Crash ==
    /\ jobs' = [r \in Requests |-> NoJob]
    /\ lanes' = [a \in Accounts |-> NoLane]
    /\ UNCHANGED <<file, answer>>

Next ==
    \/ \E r \in Requests :
        \/ \E a \in Accounts : SubmitRead(r, a) \/ SubmitWrite(r, a) \/ Letters(r, a)
        \/ Acquire(r) \/ Abandon(r) \/ Cancel(r) \/ Fail(r)
        \/ ReadRecord(r) \/ Stage(r) \/ Replace(r)
    \/ Crash

Spec == Init /\ [][Next]_vars

-----------------------------------------------------------------------------
(* Properties.                                                             *)

\* Two pieces of blocking work never run for one account at a time, although
\* the permit belongs to a lane that may have been dropped and made again, and
\* although a caller may be gone while its work runs.
OneTransaction ==
    \A r, q \in Requests :
        Working(r) /\ Working(q) /\ jobs[r].a = jobs[q].a => r = q

\* The store is an atomic register for each account: every answer is the record
\* of one moment, and a write is applied, once, to the revision its caller
\* expected, or not at all.
IsRegister == Register!Spec

\* Letter cleanup holds the account's writer permit through its final
\* read-back: the record whose letters it read stays in force until it ends.
LettersStayCurrent ==
    \A r \in Requests : At(r, "letters") => file[jobs[r].a] = jobs[r].base

Served == {a \in Accounts : \E r \in Requests : jobs[r] # NoJob /\ jobs[r].a = a}

AdmittedFor(a) == {r \in Admitted : jobs[r].a = a}

\* MAX_ACCOUNTS, MAX_REQUESTS and MAX_ACCOUNT_REQUESTS bound the store and each
\* account, although the last is counted on a lane that may be dropped and made
\* again, and although cancelled callers leave work behind.
AdmissionBounded ==
    /\ Cardinality(Served) <= MaxAccounts
    /\ Cardinality(Admitted) <= MaxRequests
    /\ \A a \in Accounts : Cardinality(AdmittedFor(a)) <= MaxAccountRequests
=============================================================================
