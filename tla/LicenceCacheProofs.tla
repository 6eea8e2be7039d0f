------------------------- MODULE LicenceCacheProofs -------------------------
(***************************************************************************)
(* Proofs about LicenceCache for any licences, tokens, renewals and limits:   *)
(* the cache implements the monotone history of LicenceHistory, the history   *)
(* stays bounded, and an interrupted save can be repeated.                    *)
(*                                                                           *)
(* The history does not keep what was accepted: it keeps one record for each   *)
(* licence, and the cached licence may have none.  The invariant says that     *)
(* this is enough: whatever was accepted is outdated by the record of its      *)
(* licence or by the cache, so that a token which neither refuses is newer     *)
(* than all of it.                                                           *)
(***************************************************************************)
EXTENDS LicenceCache, FiniteSetTheorems, TLAPS

\* `new` outdates or equals `old`, an issue of the same licence.
Covers(new, old) == new.lic = old.lic /\ History!NotOlder(old, new)

\* Everything accepted is covered by the record of its licence or by the cache,
\* and the cache by its own record.
CoverInv ==
    /\ Cached => cache.token \in accepted
    /\ \A r \in ledger : r.token \in accepted
    /\ \A old \in accepted :
        \/ \E r \in ledger : Covers(r.token, old)
        \/ Cached /\ Covers(cache.token, old)
    /\ Cached => \A r \in Mates(ledger, cache.token) : Covers(r.token, cache.token)

\* Between the two writes the candidate is recorded, nothing accepted outdates
\* it, and the licence in the cache has a record to be remembered by.
WriterInv ==
    ~Unlocked =>
        /\ \E r \in ledger : r.token = writer.tok
        /\ History!Newest(writer.tok)
        /\ Cached => Mates(ledger, cache.token) # {}

\* A renewal has a token from its selection or its answer on.
TaskInv ==
    \A t \in Tasks : task[t].pc \in {"recover", "save"} => task[t].tok \in Tokens

LedgerInv == IsFiniteSet(ledger) /\ HistoryBounded

IInv == TypeOK /\ TaskInv /\ LedgerInv /\ CoverInv /\ WriterInv /\ RetryAllowed

-----------------------------------------------------------------------------
(* Tokens and records.                                                     *)

LEMMA TokenType ==
    ASSUME NEW tok \in Tokens
    PROVE  /\ tok.lic \in Licences /\ tok.iat \in Nat /\ tok.epoch \in Nat
           /\ tok # NoToken
  BY TokensAssumption

LEMMA RecordType ==
    ASSUME NEW r \in Record PROVE r.token \in Tokens /\ r.time \in 0 .. MaxTime
  BY DEF Record

LEMMA CachedType ==
    ASSUME TypeOK, Cached
    PROVE  /\ cache \in CacheFile /\ cache.token \in Tokens
           /\ RecordOf(cache) \in Record /\ RecordOf(cache).token = cache.token
  BY DEF TypeOK, Cached, CacheFile, RecordOf, Record

LEMMA HybridFileType ==
    ASSUME NEW tok \in Tokens, NEW time \in 0 .. MaxTime
    PROVE  /\ HybridFile(tok, time) \in CacheFile /\ HybridFile(tok, time) # NoCache
           /\ HybridFile(tok, time).token = tok /\ HybridFile(tok, time).hybrid
           /\ RecordOf(HybridFile(tok, time)) = [token |-> tok, time |-> time]
  <1>1. TRUE \in BOOLEAN
    OBVIOUS
  <1>2. HybridFile(tok, time) \in CacheFile
    BY <1>1 DEF HybridFile, CacheFile
  <1> QED BY <1>2, NoCacheAssumption DEF HybridFile, RecordOf

\* The signed time of a token is never later than the clock.
LEMMA VerificationTimeType ==
    ASSUME NEW tok \in Tokens, NEW time \in 0 .. MaxTime
    PROVE  VerificationTime(tok, time) \in 0 .. MaxTime
  BY TokenType, LimitAssumption DEF VerificationTime

\* Within a licence the order of issues is reflexive and transitive; between
\* licences only the signing epoch is compared.
LEMMA NotOlderReflexive == \A tok \in Tokens : History!NotOlder(tok, tok) /\ Covers(tok, tok)
  BY TokenType DEF History!NotOlder, Covers

LEMMA CoversTransitive ==
    ASSUME NEW x \in Tokens, NEW y \in Tokens, NEW z \in Tokens,
           Covers(y, x), Covers(z, y)
    PROVE  Covers(z, x)
  <1>1. /\ z.epoch >= x.epoch /\ z.lic = x.lic /\ x.lic = y.lic
        /\ y.iat > x.iat \/ History!Payload(y) = History!Payload(x)
        /\ z.iat > y.iat \/ History!Payload(z) = History!Payload(y)
    BY TokenType DEF Covers, History!NotOlder
  <1>2. z.iat > x.iat \/ History!Payload(z) = History!Payload(x)
    BY <1>1, TokenType DEF History!Payload
  <1> QED BY <1>1, <1>2 DEF Covers, History!NotOlder

\* A token newer than what covers another is newer than that one.
LEMMA CoveredIsOlder ==
    ASSUME NEW x \in Tokens, NEW y \in Tokens, NEW z \in Tokens,
           Covers(y, x), History!NotOlder(y, z)
    PROVE  History!NotOlder(x, z)
  <1>1. CASE z.lic = y.lic
    BY <1>1, CoversTransitive DEF Covers
  <1>2. CASE z.lic # y.lic
    <2>1. z.epoch >= y.epoch /\ y.epoch >= x.epoch /\ x.lic = y.lic
      BY DEF Covers, History!NotOlder
    <2>2. z.epoch >= x.epoch
      BY <2>1, TokenType
    <2> QED BY <1>2, <2>1, <2>2 DEF History!NotOlder
  <1> QED BY <1>1, <1>2

\* What the records and the cache admit, nothing accepted outdates.
LEMMA AdmittedIsNewest ==
    ASSUME TypeOK, CoverInv, NEW tok \in Tokens, CheckPrevious(tok),
           \A r \in ledger : History!NotOlder(r.token, tok)
    PROVE  History!Newest(tok)
  <1> SUFFICES ASSUME NEW old \in accepted PROVE History!NotOlder(old, tok)
    BY DEF History!Newest
  <1>1. old \in Tokens
    BY DEF TypeOK
  <1>2. CASE \E r \in ledger : Covers(r.token, old)
    BY <1>1, <1>2, CoveredIsOlder, RecordType DEF TypeOK
  <1>3. CASE Cached /\ Covers(cache.token, old)
    BY <1>1, <1>3, CoveredIsOlder, CachedType DEF CheckPrevious
  <1> QED BY <1>2, <1>3 DEF CoverInv

-----------------------------------------------------------------------------
(* An advance of the history.                                              *)

\* What the limit guarantees: replacing a record or adding one stays below it.
LEMMA ReplaceBound ==
    ASSUME NEW S, IsFiniteSet(S), NEW M \in SUBSET S, NEW x, NEW n \in Nat,
           \/ M # {} /\ Cardinality(S) <= n
           \/ Cardinality(S) < n
    PROVE  /\ IsFiniteSet((S \ M) \cup {x})
           /\ Cardinality((S \ M) \cup {x}) <= n
  <1>1. /\ IsFiniteSet(S \ M) /\ Cardinality(S \ M) \in Nat /\ Cardinality(S) \in Nat
        /\ Cardinality(S \ M) <= Cardinality(S)
    BY FS_Subset, FS_CardinalityType
  <1>2. M # {} => Cardinality(S \ M) < Cardinality(S)
    <2> SUFFICES ASSUME M # {} PROVE Cardinality(S \ M) < Cardinality(S)
      OBVIOUS
    <2>1. PICK m \in M : TRUE
      OBVIOUS
    <2>2. IsFiniteSet(S \ {m}) /\ Cardinality(S \ {m}) = Cardinality(S) - 1
      BY <2>1, FS_RemoveElement
    <2>3. S \ M \subseteq S \ {m}
      BY <2>1
    <2>4. Cardinality(S \ M) <= Cardinality(S \ {m})
      BY <2>2, <2>3, FS_Subset
    <2> QED BY <1>1, <2>2, <2>4
  <1>3. /\ IsFiniteSet((S \ M) \cup {x})
        /\ Cardinality((S \ M) \cup {x}) <= Cardinality(S \ M) + 1
    <2> DEFINE rest == S \ M
    <2>1. IsFiniteSet(rest) /\ Cardinality(rest) \in Nat
      BY <1>1
    <2> HIDE DEF rest
    <2>2. /\ IsFiniteSet(rest \cup {x})
          /\ Cardinality(rest \cup {x}) =
                IF x \in rest THEN Cardinality(rest) ELSE Cardinality(rest) + 1
      BY <2>1, FS_AddElement
    <2>3. Cardinality(rest \cup {x}) <= Cardinality(rest) + 1
      BY <2>1, <2>2
    <2> QED BY <2>2, <2>3 DEF rest
  <1>4. Cardinality((S \ M) \cup {x}) \in Nat
    BY <1>3, FS_CardinalityType
  <1> QED BY <1>1, <1>2, <1>3, <1>4

\* The records that an advance keeps are those of the other licences, and that
\* of the cached licence with them.
LEMMA UnrecordedFacts ==
    ASSUME NEW tok
    PROVE  \/ /\ Unrecorded(HybridCache, tok) = {RecordOf(cache)} /\ Cached
              /\ cache.token.lic # tok.lic /\ Mates(ledger, cache.token) = {}
           \/ /\ Unrecorded(HybridCache, tok) = {}
              /\ \/ ~Cached \/ cache.token.lic = tok.lic
                 \/ Mates(ledger, cache.token) # {}
  <1>1. CASE ~Cached
    BY <1>1 DEF Unrecorded, HybridCache
  <1>2. CASE Cached
    BY <1>2 DEF Unrecorded, HybridCache
  <1> QED BY <1>1, <1>2

LEMMA AdvanceFacts ==
    ASSUME TypeOK, NEW tok \in Tokens, NEW time \in 0 .. MaxTime, NEW new,
           new = Advance(HybridCache, tok, time)
    PROVE  /\ new \subseteq Record
           /\ \E r \in new : r.token = tok
           /\ \A r \in new :
                \/ r.token = tok /\ r.time = time
                \/ r \in ledger /\ r.token.lic # tok.lic
                \/ /\ Cached /\ r = RecordOf(cache) /\ r.token = cache.token
                   /\ cache.token.lic # tok.lic /\ Mates(ledger, cache.token) = {}
           /\ \A r \in ledger : r.token.lic # tok.lic => r \in new
           /\ Cached => \E r \in new : r.token.lic = cache.token.lic
  <1> DEFINE record == [token |-> tok, time |-> time]
             extra == Unrecorded(HybridCache, tok)
  <1>1. new = ((ledger \cup extra) \ Mates(ledger, tok)) \cup {record}
    BY DEF Advance
  <1>2. record \in Record /\ record.token = tok /\ record.time = time
    BY DEF Record
  <1>3. \/ /\ extra = {RecordOf(cache)} /\ Cached
           /\ cache.token.lic # tok.lic /\ Mates(ledger, cache.token) = {}
        \/ /\ extra = {}
           /\ \/ ~Cached \/ cache.token.lic = tok.lic
              \/ Mates(ledger, cache.token) # {}
    BY UnrecordedFacts
  <1>4. Cached => RecordOf(cache) \in Record /\ RecordOf(cache).token = cache.token
    BY CachedType
  <1> HIDE DEF record, extra
  <1>5. new \subseteq Record
    BY <1>1, <1>2, <1>3, <1>4 DEF TypeOK
  <1>6. \A r \in ledger : r.token.lic # tok.lic => r \in new
    BY <1>1 DEF Mates
  <1>7. \A r \in new :
            \/ r.token = tok /\ r.time = time
            \/ r \in ledger /\ r.token.lic # tok.lic
            \/ /\ Cached /\ r = RecordOf(cache) /\ r.token = cache.token
               /\ cache.token.lic # tok.lic /\ Mates(ledger, cache.token) = {}
    BY <1>1, <1>2, <1>3, <1>4 DEF Mates
  <1>8. Cached => \E r \in new : r.token.lic = cache.token.lic
    <2> SUFFICES ASSUME Cached PROVE \E r \in new : r.token.lic = cache.token.lic
      OBVIOUS
    <2>1. CASE cache.token.lic = tok.lic
      BY <1>1, <1>2, <2>1
    <2>2. CASE cache.token.lic # tok.lic /\ Mates(ledger, cache.token) # {}
      BY <1>6, <2>2 DEF Mates
    <2>3. CASE extra = {RecordOf(cache)} /\ cache.token.lic # tok.lic
      BY <1>1, <1>4, <2>3 DEF Mates
    <2> QED BY <1>3, <2>1, <2>2, <2>3
  <1> QED BY <1>1, <1>2, <1>5, <1>6, <1>7, <1>8

\* The history that an advance leaves: bounded, one record for each licence.
LEMMA AdvanceLedger ==
    ASSUME TypeOK, LedgerInv, NEW tok \in Tokens, NEW time \in 0 .. MaxTime,
           MayAdvance(HybridCache, tok), NEW new, new = Advance(HybridCache, tok, time)
    PROVE  /\ IsFiniteSet(new) /\ Cardinality(new) <= MaxRecords
           /\ \A r, q \in new : r.token.lic = q.token.lic => r = q
  <1> DEFINE record == [token |-> tok, time |-> time]
             extra == Unrecorded(HybridCache, tok)
             all == ledger \cup extra
  <1>1. /\ IsFiniteSet(ledger) /\ Cardinality(ledger) <= MaxRecords
        /\ Cardinality(ledger) \in Nat /\ MaxRecords \in Nat
        /\ \A r, q \in ledger : r.token.lic = q.token.lic => r = q
    BY FS_CardinalityType, LimitAssumption DEF LedgerInv, HistoryBounded
  <1>2. IsFiniteSet(all) /\ Cardinality(all) <= MaxRecords
    <2>1. extra # {} => Cardinality(ledger) < MaxRecords
      BY DEF MayAdvance
    <2>2. CASE extra = {}
      BY <1>1, <2>2
    <2>3. CASE extra = {RecordOf(cache)}
      <3>1. /\ IsFiniteSet(ledger \cup {RecordOf(cache)})
            /\ Cardinality(ledger \cup {RecordOf(cache)}) =
                IF RecordOf(cache) \in ledger THEN Cardinality(ledger)
                ELSE Cardinality(ledger) + 1
        BY <1>1, FS_AddElement
      <3>2. extra # {}
        BY <2>3
      <3>3. /\ Cardinality(ledger) < MaxRecords
            /\ Cardinality(ledger \cup {RecordOf(cache)}) <= Cardinality(ledger) + 1
        BY <1>1, <2>1, <3>1, <3>2
      <3>4. Cardinality(ledger \cup {RecordOf(cache)}) <= MaxRecords
        BY <1>1, <3>1, <3>3
      <3> QED BY <2>3, <3>1, <3>4
    <2> QED BY <2>2, <2>3, UnrecordedFacts
  <1>3. Mates(ledger, tok) # {} \/ Cardinality(all) < MaxRecords
    BY DEF MayAdvance
  <1>4. new = (all \ Mates(ledger, tok)) \cup {record}
    BY DEF Advance
  <1>5. Mates(ledger, tok) \in SUBSET all
    BY DEF Mates
  <1>6. IsFiniteSet(new) /\ Cardinality(new) <= MaxRecords
    <2> DEFINE gone == Mates(ledger, tok)
    <2>1. \/ gone # {} /\ Cardinality(all) <= MaxRecords
          \/ Cardinality(all) < MaxRecords
      BY <1>2, <1>3
    <2>2. gone \in SUBSET all /\ IsFiniteSet(all) /\ MaxRecords \in Nat
      BY <1>1, <1>2, <1>5
    <2> HIDE DEF record, all, gone
    <2>3. /\ IsFiniteSet((all \ gone) \cup {record})
          /\ Cardinality((all \ gone) \cup {record}) <= MaxRecords
      BY <2>1, <2>2, ReplaceBound
    <2> QED BY <1>4, <2>3 DEF gone
  <1>7. \A r \in new :
            \/ r.token = tok /\ r.time = time
            \/ r \in ledger /\ r.token.lic # tok.lic
            \/ /\ Cached /\ r = RecordOf(cache) /\ r.token = cache.token
               /\ cache.token.lic # tok.lic /\ Mates(ledger, cache.token) = {}
    BY AdvanceFacts
  <1>8. ASSUME NEW r \in new, r.token = tok, r.time = time PROVE r = record
    <2>1. r \in Record
      BY AdvanceFacts
    <2> QED BY <1>8, <2>1 DEF Record
  <1>9. ASSUME NEW r \in new, NEW q \in new, r.token.lic = q.token.lic PROVE r = q
    BY <1>1, <1>7, <1>8, <1>9 DEF Mates
  <1> QED BY <1>6, <1>9

\* What is accepted stays covered, by the candidate or by the record or cache
\* that covered it before.
LEMMA AdvanceCovers ==
    ASSUME TypeOK, CoverInv, NEW tok \in Tokens, NEW time \in 0 .. MaxTime,
           CheckPrevious(tok), MayAdvance(HybridCache, tok),
           NEW new, new = Advance(HybridCache, tok, time),
           NEW old \in accepted \cup {tok}
    PROVE  \/ \E r \in new : Covers(r.token, old)
           \/ Cached /\ Covers(cache.token, old)
  <1>1. History!Newest(tok)
    BY AdmittedIsNewest DEF MayAdvance
  <1>2. PICK mine \in new : mine.token = tok
    BY AdvanceFacts
  <1>3. CASE old.lic = tok.lic
    <2>1. Covers(tok, old)
      BY <1>1, <1>3, NotOlderReflexive DEF History!Newest, Covers
    <2> QED BY <1>2, <2>1
  <1>4. CASE old \in accepted /\ old.lic # tok.lic
    <2>1. CASE \E r \in ledger : Covers(r.token, old)
      BY <1>4, <2>1, AdvanceFacts DEF Covers
    <2>2. CASE Cached /\ Covers(cache.token, old)
      BY <2>2
    <2> QED BY <1>4, <2>1, <2>2 DEF CoverInv
  <1> QED BY <1>3, <1>4

-----------------------------------------------------------------------------
(* The steps.                                                              *)

\* A licence is recorded before it is cached: by the desktop, or by a renewal
\* of a current licence.
Advances(t, tok, time) ==
    /\ Unlocked
    /\ tok.epoch >= minEpoch
    /\ CheckPrevious(tok)
    /\ MayAdvance(HybridCache, tok)
    /\ RecordFirst(t, tok, time)
    /\ UNCHANGED <<cache, minEpoch, task>>

\* The candidate of an interrupted save is written once more.
Repeats(t, tok, time) ==
    /\ Unlocked
    /\ tok.lic = cache.token.lic
    /\ CheckPrevious(tok)
    /\ VerifyCurrent(HybridFile(tok, time))
    /\ Lock(t, tok, time)
    /\ UNCHANGED <<cache, ledger, accepted, minEpoch, task>>

\* Nothing is written; the lock stays, or is released.
Quiet ==
    /\ UNCHANGED <<cache, ledger, accepted>>
    /\ UNCHANGED <<writer, minEpoch>> \/ writer' = NoWriter

LEMMA RenewCases ==
    ASSUME TypeOK, NEW t \in Tasks, NEW file, NEW tok \in Tokens,
           NEW time \in 0 .. MaxTime, Renew(t, file, tok, time)
    PROVE  Advances(t, tok, time) \/ Repeats(t, tok, time)
  BY DEF Renew, Advances, Repeats

LEMMA StepCases ==
    ASSUME IInv, [Next]_vars
    PROVE  \/ \E t \in Tasks \cup {NoTask}, tok \in Tokens, time \in 0 .. MaxTime :
                Advances(t, tok, time) \/ Repeats(t, tok, time)
           \/ WriteCache
           \/ Quiet
  <1>1. TypeOK /\ TaskInv /\ \A t \in Tasks : task[t] \in Task
    BY DEF IInv, TypeOK
  <1>2. ASSUME NEW tok \in Tokens, NEW now \in Times, Store(tok, now)
        PROVE  Advances(NoTask, tok, VerificationTime(tok, now))
    BY <1>2 DEF Store, Advances
  <1>3. ASSUME NEW t \in Tasks, Recover(t)
        PROVE  \E tok \in Tokens, time \in 0 .. MaxTime :
                    Advances(t, tok, time) \/ Repeats(t, tok, time)
    <2> DEFINE time == VerificationTime(task[t].tok, task[t].time)
    <2>1. task[t].tok \in Tokens
      BY <1>1, <1>3 DEF Recover, At, TaskInv
    <2>2. task[t].time \in 0 .. MaxTime
      BY <1>1 DEF Task
    <2>3. time \in 0 .. MaxTime
      BY <2>1, <2>2, VerificationTimeType
    <2>4. Renew(t, task[t].seen, task[t].tok, time)
      BY <1>3 DEF Recover
    <2> HIDE DEF time
    <2> QED BY <1>1, <2>1, <2>3, <2>4, RenewCases
  <1>4. ASSUME NEW t \in Tasks, NEW now \in Times, Save(t, now)
        PROVE  \E tok \in Tokens, time \in 0 .. MaxTime :
                    Advances(t, tok, time) \/ Repeats(t, tok, time)
    <2> DEFINE time == VerificationTime(task[t].tok, now)
    <2>1. task[t].tok \in Tokens
      BY <1>1, <1>4 DEF Save, At, TaskInv
    <2>2. time \in 0 .. MaxTime
      BY <2>1, VerificationTimeType DEF Times
    <2>3. Renew(t, task[t].snap, task[t].tok, time)
      BY <1>4 DEF Save
    <2> HIDE DEF time
    <2> QED BY <1>1, <2>1, <2>2, <2>3, RenewCases
  <1>5. ASSUME NEW t \in Tasks,
               \/ Peek(t) \/ (\E now \in Times : SelectPending(t, now))
               \/ SelectNothing(t) \/ VerifyNothingPending(t) \/ Load(t) \/ Ask(t)
               \/ (\E tok \in Tokens : Prove(t, tok)) \/ GiveUp(t)
        PROVE  Quiet
    BY <1>5 DEF Peek, SelectPending, SelectNothing, VerifyNothingPending, Load, Ask,
                Prove, GiveUp, Goto, Step, Quiet
  <1>6. CASE WriteCacheFails \/ Restart \/ UNCHANGED vars
    BY <1>6 DEF WriteCacheFails, Restart, vars, Quiet
  <1>7. \A tok \in Tokens, now \in Times : VerificationTime(tok, now) \in 0 .. MaxTime
    BY VerificationTimeType DEF Times
  <1> QED BY <1>2, <1>3, <1>4, <1>5, <1>6, <1>7 DEF Next

-----------------------------------------------------------------------------
(* The invariant.                                                          *)

LEMMA IdleType == Idle \in Task /\ Idle.pc = "idle"
  BY LimitAssumption DEF Idle, Task

LEMMA InitInvariant == Init => IInv
  <1> SUFFICES ASSUME Init PROVE IInv
    OBVIOUS
  <1>1. TypeOK
    <2>1. cache \in CacheFile \cup {NoCache}
      BY DEF Init
    <2>2. Cached => RecordOf(cache) \in Record /\ cache.token \in Tokens
      BY <2>1 DEF Cached, CacheFile, RecordOf, Record
    <2>3. task \in [Tasks -> Task]
      BY IdleType DEF Init
    <2> QED BY <2>1, <2>2, <2>3, LimitAssumption DEF Init, TypeOK
  <1>2. TaskInv
    BY IdleType DEF Init, TaskInv
  <1>3. ledger \in {{}, {RecordOf(cache)}} /\ (ledger # {} => Cached)
    BY DEF Init
  <1>4. LedgerInv
    <2>1. CASE ledger = {}
      BY <2>1, FS_EmptySet, LimitAssumption DEF LedgerInv, HistoryBounded
    <2>2. CASE ledger = {RecordOf(cache)}
      <3>1. IsFiniteSet({RecordOf(cache)}) /\ Cardinality({RecordOf(cache)}) = 1
        BY FS_Singleton
      <3> QED BY <2>2, <3>1, LimitAssumption DEF LedgerInv, HistoryBounded
    <2> QED BY <1>3, <2>1, <2>2
  <1>5. CoverInv
    <2>1. CASE ~Cached
      BY <1>3, <2>1 DEF Init, CoverInv
    <2>2. CASE Cached
      <3>1. /\ accepted = {cache.token} /\ cache.token \in Tokens
            /\ RecordOf(cache).token = cache.token
        BY <1>1, <2>2, CachedType DEF Init
      <3> QED BY <1>3, <2>2, <3>1, NotOlderReflexive DEF CoverInv, Mates
    <2> QED BY <2>1, <2>2
  <1>6. WriterInv /\ RetryAllowed
    BY DEF Init, WriterInv, RetryAllowed, Unlocked
  <1> QED BY <1>1, <1>2, <1>4, <1>5, <1>6 DEF IInv

\* Recording a candidate.
LEMMA AdvanceKeeps ==
    ASSUME IInv, NEW t \in Tasks \cup {NoTask}, NEW tok \in Tokens,
           NEW time \in 0 .. MaxTime, Advances(t, tok, time)
    PROVE  /\ History!Accept(tok)
           /\ TypeOK' /\ LedgerInv' /\ CoverInv' /\ WriterInv' /\ RetryAllowed'
  <1>1. /\ TypeOK /\ LedgerInv /\ CoverInv
        /\ CheckPrevious(tok) /\ MayAdvance(HybridCache, tok) /\ tok.epoch >= minEpoch
        /\ UNCHANGED <<cache, minEpoch, task>>
    BY DEF IInv, Advances
  <1>2. /\ ledger' = Advance(HybridCache, tok, time)
        /\ accepted' = accepted \cup {tok}
        /\ writer' = [tok |-> tok, time |-> time, task |-> t]
    BY DEF Advances, RecordFirst, Lock
  <1>3. writer' \in Writer /\ writer'.tok = tok
    BY <1>2 DEF Writer
  <1>4. /\ ledger' \subseteq Record
        /\ \E r \in ledger' : r.token = tok
        /\ \A r \in ledger' :
             \/ r.token = tok /\ r.time = time
             \/ r \in ledger /\ r.token.lic # tok.lic
             \/ /\ Cached /\ r = RecordOf(cache) /\ r.token = cache.token
                /\ cache.token.lic # tok.lic /\ Mates(ledger, cache.token) = {}
        /\ Cached => \E r \in ledger' : r.token.lic = cache.token.lic
    BY <1>1, <1>2, AdvanceFacts
  <1>5. History!Newest(tok)
    BY <1>1, AdmittedIsNewest DEF MayAdvance
  <1>6. Cached' = Cached /\ Shown' = Shown /\ HybridCache' = HybridCache
    BY <1>1 DEF Cached, Shown, HybridCache
  <1>7. History!Accept(tok)
    BY <1>2, <1>5, <1>6 DEF History!Accept
  <1>8. TypeOK'
    BY <1>1, <1>2, <1>3, <1>4 DEF TypeOK
  <1>9. LedgerInv'
    BY <1>1, <1>2, AdvanceLedger DEF LedgerInv, HistoryBounded
  <1>10. CoverInv'
    <2>1. Cached' => cache'.token \in accepted'
      BY <1>1, <1>2, <1>6 DEF CoverInv
    <2>2. \A r \in ledger' : r.token \in accepted'
      BY <1>1, <1>2, <1>4 DEF CoverInv
    <2>3. \A old \in accepted' :
            \/ \E r \in ledger' : Covers(r.token, old)
            \/ Cached' /\ Covers(cache'.token, old)
      BY <1>1, <1>2, <1>6, AdvanceCovers
    <2>4. ASSUME Cached, NEW r \in ledger', r.token.lic = cache.token.lic
          PROVE  Covers(r.token, cache.token)
      <3>1. cache.token \in Tokens
        BY <1>1, <2>4, CachedType
      <3>2. CASE r.token = tok
        BY <1>1, <2>4, <3>2 DEF CheckPrevious, Covers
      <3>3. CASE r \in ledger
        BY <1>1, <2>4, <3>3 DEF CoverInv, Mates
      <3>4. CASE r.token = cache.token
        BY <3>1, <3>4, NotOlderReflexive
      <3> QED BY <1>4, <3>2, <3>3, <3>4
    <2> QED BY <1>1, <1>6, <2>1, <2>2, <2>3, <2>4 DEF CoverInv, Mates
  <1>11. WriterInv'
    <2>1. \A old \in accepted' : History!NotOlder(old, tok)
      BY <1>2, <1>5, NotOlderReflexive DEF History!Newest
    <2> QED BY <1>1, <1>3, <1>4, <1>6, <2>1 DEF WriterInv, History!Newest, Mates
  <1>12. RetryAllowed'
    <2>1. CheckPrevious(tok)'
      BY <1>1, <1>6 DEF CheckPrevious
    <2>2. \A r \in ledger' : History!NotOlder(r.token, tok)
      BY <1>1, <1>4, NotOlderReflexive DEF MayAdvance, CheckPrevious
    <2>3. ASSUME NEW file \in HybridCache, file.token.lic # tok.lic,
                 NEW r \in ledger', r.token.lic = file.token.lic
          PROVE  History!Payload(r.token) = History!Payload(file.token)
      <3>1. file = cache /\ Cached
        BY <2>3 DEF HybridCache
      <3>2. CASE r \in ledger
        BY <1>1, <2>3, <3>2 DEF MayAdvance, Reconciled, Mates
      <3> QED BY <1>4, <2>3, <3>1, <3>2
    <2>4. {f \in HybridCache : f.token.lic # tok.lic /\ Mates(ledger, f.token)' = {}} = {}
      BY <1>4 DEF HybridCache, Mates
    <2>5. Mates(ledger, tok)' # {}
      BY <1>4 DEF Mates
    <2>6. MayAdvance(HybridCache, tok)'
      BY <1>1, <1>6, <2>2, <2>3, <2>4, <2>5 DEF MayAdvance, Reconciled, Mates, Unrecorded
    <2> QED BY <1>3, <2>1, <2>6 DEF RetryAllowed
  <1> QED BY <1>7, <1>8, <1>9, <1>10, <1>11, <1>12

\* Writing the candidate of an interrupted save once more.
LEMMA RepeatKeeps ==
    ASSUME IInv, NEW t \in Tasks \cup {NoTask}, NEW tok \in Tokens,
           NEW time \in 0 .. MaxTime, Repeats(t, tok, time)
    PROVE  /\ UNCHANGED <<accepted, Shown>>
           /\ TypeOK' /\ LedgerInv' /\ CoverInv' /\ WriterInv' /\ RetryAllowed'
  <1>1. /\ TypeOK /\ LedgerInv /\ CoverInv /\ CheckPrevious(tok)
        /\ tok.lic = cache.token.lic
        /\ UNCHANGED <<cache, ledger, accepted, minEpoch, task>>
    BY DEF IInv, Repeats
  <1>2. writer' = [tok |-> tok, time |-> time, task |-> t]
    BY DEF Repeats, Lock
  <1>3. writer' \in Writer /\ writer'.tok = tok
    BY <1>2 DEF Writer
  <1>4. /\ [token |-> tok, time |-> time] \in ledger
        /\ tok.epoch >= minEpoch
        /\ \A r \in ledger : History!NotOlder(r.token, tok)
    BY HybridFileType DEF Repeats, VerifyCurrent, MayAdvance
  <1>5. \E r \in ledger : r.token = tok
    BY <1>4
  <1>6. Cached' = Cached /\ Shown' = Shown /\ HybridCache' = HybridCache
    BY <1>1 DEF Cached, Shown, HybridCache
  <1>7. TypeOK'
    BY <1>1, <1>3 DEF TypeOK
  <1>8. LedgerInv' /\ CoverInv'
    BY <1>1, <1>6 DEF LedgerInv, HistoryBounded, CoverInv, Mates
  <1>9. WriterInv'
    <2>1. History!Newest(tok)
      BY <1>1, <1>4, AdmittedIsNewest
    <2> QED BY <1>1, <1>3, <1>5, <1>6, <2>1 DEF WriterInv, History!Newest, Mates
  <1>10. RetryAllowed'
    <2>1. CheckPrevious(tok)'
      BY <1>1, <1>6 DEF CheckPrevious
    <2>2. \A file \in HybridCache : file.token.lic = tok.lic
      BY <1>1 DEF HybridCache
    <2>3. Mates(ledger, tok) # {}
      BY <1>5 DEF Mates
    <2>4. MayAdvance(HybridCache, tok)'
      BY <1>1, <1>4, <1>6, <2>2, <2>3 DEF MayAdvance, Reconciled, Mates, Unrecorded
    <2> QED BY <1>3, <2>1, <2>4 DEF RetryAllowed
  <1> QED BY <1>1, <1>6, <1>7, <1>8, <1>9, <1>10

\* The cache file: what it held is remembered by its record.
LEMMA WriteKeeps ==
    ASSUME IInv, WriteCache
    PROVE  /\ History!Show(writer.tok) /\ writer.tok \in Tokens
           /\ LedgerInv' /\ CoverInv' /\ WriterInv' /\ RetryAllowed'
           /\ cache' \in CacheFile
  <1> DEFINE tok == writer.tok
  <1>1. /\ TypeOK /\ LedgerInv /\ CoverInv /\ ~Unlocked
        /\ cache' = HybridFile(tok, writer.time) /\ writer' = NoWriter
        /\ UNCHANGED <<ledger, accepted, minEpoch>>
    BY DEF IInv, WriteCache
  <1>2. tok \in Tokens /\ writer.time \in 0 .. MaxTime
    BY <1>1 DEF TypeOK, Writer, Unlocked
  <1>3. /\ \E r \in ledger : r.token = tok
        /\ History!Newest(tok)
        /\ Cached => Mates(ledger, cache.token) # {}
    BY <1>1 DEF IInv, WriterInv
  <1> HIDE DEF tok
  <1>4. cache' \in CacheFile /\ Cached' /\ cache'.token = tok /\ Shown' = tok
    BY <1>1, <1>2, HybridFileType DEF Cached, Shown
  <1>5. PICK mine \in ledger : mine.token = tok
    BY <1>3
  <1>6. tok \in accepted /\ accepted \subseteq Tokens /\ ledger \subseteq Record
    BY <1>1, <1>5 DEF CoverInv, TypeOK
  <1>7. Unlocked' /\ LedgerInv'
    BY <1>1 DEF Unlocked, LedgerInv, HistoryBounded
  <1>8. History!Show(tok)
    BY <1>1, <1>3, <1>4, <1>6 DEF History!Show
  <1>9. ASSUME NEW old \in accepted, Cached, Covers(cache.token, old)
        PROVE  \E r \in ledger : Covers(r.token, old)
    <2>1. PICK r \in Mates(ledger, cache.token) : TRUE
      BY <1>3, <1>9
    <2>2. r \in ledger /\ r.token \in Tokens /\ Covers(r.token, cache.token)
      BY <1>1, <1>6, <1>9, RecordType DEF CoverInv, Mates
    <2>3. Covers(r.token, old)
      BY <1>1, <1>6, <1>9, <2>2, CachedType, CoversTransitive
    <2> QED BY <2>2, <2>3
  <1>10. \A old \in accepted : \E r \in ledger : Covers(r.token, old)
    BY <1>1, <1>9 DEF CoverInv
  <1>11. \A r \in Mates(ledger, tok) : Covers(r.token, tok)
    <2>1. \A r \in Mates(ledger, tok) : r = mine
      BY <1>1, <1>5 DEF LedgerInv, HistoryBounded, Mates
    <2> QED BY <1>2, <1>5, <2>1, NotOlderReflexive
  <1>12. CoverInv'
    BY <1>1, <1>4, <1>6, <1>10, <1>11 DEF CoverInv, Mates
  <1> QED BY <1>2, <1>4, <1>7, <1>8, <1>12 DEF tok, WriterInv, RetryAllowed

-----------------------------------------------------------------------------
(* The renewals.                                                           *)

\* A state of a renewal, with its token when it needs one.
Ready(self) == self \in Task /\ (self.pc \in {"recover", "save"} => self.tok \in Tokens)

LEMMA StepTask ==
    ASSUME TypeOK, TaskInv, NEW t \in Tasks, NEW self, Ready(self), Step(t, self)
    PROVE  task' \in [Tasks -> Task] /\ TaskInv'
  BY DEF TypeOK, TaskInv, Step, Ready

LEMMA TaskKeeps ==
    ASSUME IInv, [Next]_vars
    PROVE  task' \in [Tasks -> Task] /\ TaskInv'
  <1>1. /\ TypeOK /\ TaskInv /\ task \in [Tasks -> Task]
        /\ cache \in CacheFile \cup {NoCache} /\ ledger \subseteq Record
    BY DEF IInv, TypeOK
  <1>2. CASE UNCHANGED task
    BY <1>1, <1>2 DEF TaskInv
  <1>3. Ready(Idle) /\ Ready([Idle EXCEPT !.pc = "load"])
    BY IdleType DEF Ready, Task
  <1>4. CASE WriteCache
    <2>1. \A self : Ready(Continued(self))
      BY <1>3 DEF Continued
    <2>2. task' = [t \in Tasks |->
              IF t = writer.task THEN Continued(task[t]) ELSE task[t]]
      BY <1>4 DEF WriteCache
    <2> QED BY <1>1, <2>1, <2>2 DEF Ready, TaskInv
  <1>5. CASE WriteCacheFails \/ Restart
    <2>1. \A t \in Tasks : task'[t] = Idle \/ task'[t] = task[t]
      BY <1>1, <1>5 DEF WriteCacheFails, Restart
    <2>2. task' \in [Tasks -> Task]
      BY <1>1, <1>3, <1>5 DEF WriteCacheFails, Restart, Ready
    <2> QED BY <1>1, <1>3, <2>1, <2>2 DEF Ready, TaskInv
  <1>6. ASSUME NEW t \in Tasks, Peek(t)
        PROVE  task' \in [Tasks -> Task] /\ TaskInv'
    <2> DEFINE self == [task[t] EXCEPT !.pc = "select", !.seen = cache]
    <2>1. Ready(self)
      BY <1>1 DEF Ready, Task
    <2>2. Step(t, self)
      BY <1>6 DEF Peek
    <2> HIDE DEF self
    <2> QED BY <1>1, <2>1, <2>2, StepTask
  <1>7. ASSUME NEW t \in Tasks, NEW now \in Times, SelectPending(t, now)
        PROVE  task' \in [Tasks -> Task] /\ TaskInv'
    <2>1. PICK r \in ledger :
            Step(t, [task[t] EXCEPT !.pc = "recover", !.tok = r.token, !.time = r.time])
      BY <1>7 DEF SelectPending, Pending, Mates
    <2> DEFINE self == [task[t] EXCEPT !.pc = "recover", !.tok = r.token, !.time = r.time]
    <2>2. Ready(self)
      BY <1>1, RecordType DEF Ready, Task
    <2>3. Step(t, self)
      BY <2>1
    <2> HIDE DEF self
    <2> QED BY <1>1, <2>2, <2>3, StepTask
  <1>8. ASSUME NEW t \in Tasks, SelectNothing(t)
        PROVE  task' \in [Tasks -> Task] /\ TaskInv'
    <2> DEFINE self == [task[t] EXCEPT !.pc = "verify"]
    <2>1. Ready(self)
      BY <1>1 DEF Ready, Task
    <2>2. Step(t, self)
      BY <1>8 DEF SelectNothing, Goto
    <2> HIDE DEF self
    <2> QED BY <1>1, <2>1, <2>2, StepTask
  <1>9. ASSUME NEW t \in Tasks, VerifyNothingPending(t)
        PROVE  task' \in [Tasks -> Task] /\ TaskInv'
    <2> DEFINE to == IF task[t].snap = NoCache THEN "load" ELSE "ask"
               self == [task[t] EXCEPT !.pc = to, !.seen = NoCache]
    <2>1. to \in {"load", "ask"}
      OBVIOUS
    <2>2. Step(t, self)
      BY <1>9 DEF VerifyNothingPending
    <2> HIDE DEF to
    <2>3. Ready(self)
      BY <1>1, <2>1 DEF Ready, Task
    <2> HIDE DEF self
    <2> QED BY <1>1, <2>2, <2>3, StepTask
  <1>10. ASSUME NEW t \in Tasks, Load(t)
         PROVE  task' \in [Tasks -> Task] /\ TaskInv'
    <2> DEFINE self == [task[t] EXCEPT !.snap = cache]
    <2>1. Ready(self)
      BY <1>1, <1>10 DEF Ready, Task, Load, At
    <2>2. Step(t, self)
      BY <1>10 DEF Load
    <2> HIDE DEF self
    <2> QED BY <1>1, <2>1, <2>2, StepTask
  <1>11. ASSUME NEW t \in Tasks, Ask(t)
         PROVE  task' \in [Tasks -> Task] /\ TaskInv'
    <2> DEFINE self == [task[t] EXCEPT !.pc = "prove"]
    <2>1. Ready(self)
      BY <1>1 DEF Ready, Task
    <2>2. Step(t, self)
      BY <1>11 DEF Ask, Goto
    <2> HIDE DEF self
    <2> QED BY <1>1, <2>1, <2>2, StepTask
  <1>12. ASSUME NEW t \in Tasks, NEW tok \in Tokens, Prove(t, tok)
         PROVE  task' \in [Tasks -> Task] /\ TaskInv'
    <2> DEFINE self == [task[t] EXCEPT !.pc = "save", !.tok = tok]
    <2>1. Ready(self)
      BY <1>1 DEF Ready, Task
    <2>2. Step(t, self)
      BY <1>12 DEF Prove
    <2> HIDE DEF self
    <2> QED BY <1>1, <2>1, <2>2, StepTask
  <1>13. ASSUME NEW t \in Tasks, GiveUp(t)
         PROVE  task' \in [Tasks -> Task] /\ TaskInv'
    BY <1>1, <1>3, <1>13, StepTask DEF GiveUp
  <1>14. ASSUME NEW t \in Tasks, Recover(t) \/ \E now \in Times : Save(t, now)
         PROVE  UNCHANGED task
    BY <1>14 DEF Recover, Save, Renew
  <1>15. ASSUME NEW tok \in Tokens, NEW now \in Times, Store(tok, now)
         PROVE  UNCHANGED task
    BY <1>15 DEF Store
  <1> QED BY <1>2, <1>4, <1>5, <1>6, <1>7, <1>8, <1>9, <1>10, <1>11, <1>12, <1>13,
             <1>14, <1>15 DEF Next, vars

\* A step that leaves cache and history alone, whether or not it gives up the
\* lock.
LEMMA QuietKeeps ==
    ASSUME IInv, Quiet
    PROVE  /\ UNCHANGED <<accepted, Shown>>
           /\ LedgerInv' /\ CoverInv' /\ WriterInv' /\ RetryAllowed'
  <1>1. LedgerInv /\ CoverInv /\ WriterInv /\ RetryAllowed
    BY DEF IInv
  <1>2. UNCHANGED <<cache, ledger, accepted>>
    BY DEF Quiet
  <1>3. Cached' = Cached /\ Shown' = Shown /\ HybridCache' = HybridCache
    BY <1>2 DEF Cached, Shown, HybridCache
  <1>4. LedgerInv' /\ CoverInv'
    BY <1>1, <1>2, <1>3 DEF LedgerInv, HistoryBounded, CoverInv, Mates
  <1>5. CASE writer' = NoWriter
    BY <1>2, <1>3, <1>4, <1>5 DEF WriterInv, RetryAllowed, Unlocked
  <1>6. CASE UNCHANGED <<writer, minEpoch>>
    <2>1. WriterInv'
      BY <1>1, <1>2, <1>3, <1>6 DEF WriterInv, Unlocked, History!Newest, Mates
    <2>2. RetryAllowed'
      BY <1>1, <1>2, <1>3, <1>6
         DEF RetryAllowed, Unlocked, CheckPrevious, MayAdvance, Reconciled, Mates, Unrecorded
    <2> QED BY <1>2, <1>3, <1>4, <2>1, <2>2
  <1> QED BY <1>5, <1>6 DEF Quiet

LEMMA EpochKeeps ==
    ASSUME IInv, [Next]_vars PROVE minEpoch' \in 0 .. MaxEpoch
  <1>1. minEpoch \in 0 .. MaxEpoch
    BY DEF IInv, TypeOK
  <1>2. CASE Restart
    BY <1>1, <1>2, LimitAssumption DEF Restart
  <1>3. CASE UNCHANGED minEpoch
    BY <1>1, <1>3
  <1>4. ~Restart => UNCHANGED minEpoch
    BY DEF Next, vars, WriteCache, WriteCacheFails, Store, Peek, SelectPending,
           SelectNothing, Recover, VerifyNothingPending, Load, Ask, Prove, Save, GiveUp,
           Goto, Step, Renew
  <1> QED BY <1>2, <1>3, <1>4

\* Every step keeps the invariant, and is a step of the monotone history or
\* none.
LEMMA StepInvariant ==
    ASSUME IInv, [Next]_vars
    PROVE  /\ IInv'
           /\ History!Next \/ UNCHANGED <<accepted, Shown>>
  <1>1. task' \in [Tasks -> Task] /\ TaskInv' /\ minEpoch' \in 0 .. MaxEpoch
    BY TaskKeeps, EpochKeeps
  <1>2. TypeOK
    BY DEF IInv
  <1>3. ASSUME NEW t \in Tasks \cup {NoTask}, NEW tok \in Tokens,
               NEW time \in 0 .. MaxTime, Advances(t, tok, time)
        PROVE  IInv' /\ History!Next
    BY <1>1, <1>3, AdvanceKeeps DEF IInv, History!Next
  <1>4. ASSUME NEW t \in Tasks \cup {NoTask}, NEW tok \in Tokens,
               NEW time \in 0 .. MaxTime, Repeats(t, tok, time)
        PROVE  IInv' /\ UNCHANGED <<accepted, Shown>>
    BY <1>1, <1>4, RepeatKeeps DEF IInv
  <1>5. CASE WriteCache
    <2>1. /\ History!Show(writer.tok) /\ writer.tok \in Tokens
          /\ LedgerInv' /\ CoverInv' /\ WriterInv' /\ RetryAllowed'
          /\ cache' \in CacheFile
      BY <1>5, WriteKeeps
    <2>2. TypeOK'
      BY <1>1, <1>2, <1>5, <2>1 DEF TypeOK, WriteCache
    <2> QED BY <1>1, <2>1, <2>2 DEF IInv, History!Next
  <1>6. CASE Quiet
    <2>1. TypeOK'
      BY <1>1, <1>2, <1>6 DEF TypeOK, Quiet
    <2> QED BY <1>1, <1>6, <2>1, QuietKeeps DEF IInv
  <1> QED BY <1>3, <1>4, <1>5, <1>6, StepCases

LEMMA Invariant == Spec => []IInv
  <1>1. IInv /\ [Next]_vars => IInv'
    BY StepInvariant
  <1> QED BY <1>1, InitInvariant, PTL DEF Spec

-----------------------------------------------------------------------------
(* The theorems.                                                           *)

\* The cache, the history, the lock and the renewals keep their types through
\* every interleaving of saves, failed writes and restarts.
THEOREM TypeCorrect == Spec => []TypeOK
  <1>1. IInv => TypeOK
    BY DEF IInv
  <1> QED BY <1>1, Invariant, PTL

\* The history never has more than MAX_RECORDS records, nor two of a licence,
\* although Ledger::advance adds the cached licence before it replaces the
\* record of the new one.
THEOREM Bounded == Spec => []HistoryBounded
  <1>1. IInv => HistoryBounded
    BY DEF IInv, LedgerInv
  <1> QED BY <1>1, Invariant, PTL

\* A save that dies after the write of the history and before that of the
\* cache file can be repeated with the same licence.
THEOREM Retry == Spec => []RetryAllowed
  <1>1. IInv => RetryAllowed
    BY DEF IInv
  <1> QED BY <1>1, Invariant, PTL

\* The cache implements the monotone history: the licence in the cache file is
\* replaced only by a recorded one that nothing ever accepted outdates,
\* whichever write fails, wherever the service dies and whoever else saves,
\* although the history forgets all but one token of each of a few licences.
THEOREM RollbackImpossible == Spec => NeverRollsBack
  <1>1. Init => History!Init
    <2> SUFFICES ASSUME Init PROVE History!Init
      OBVIOUS
    <2>1. TypeOK
      BY InitInvariant DEF IInv
    <2>2. Cached => cache.token \in Tokens
      BY <2>1, CachedType
    <2> QED BY <2>2 DEF Init, History!Init, Shown
  <1>2. IInv /\ [Next]_vars => History!Next \/ UNCHANGED <<accepted, Shown>>
    BY StepInvariant
  <1> QED BY <1>1, <1>2, Invariant, PTL DEF Spec, NeverRollsBack, History!Spec

=============================================================================
