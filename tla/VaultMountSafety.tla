-------------------------- MODULE VaultMountSafety --------------------------
(***************************************************************************)
(* What the broker promises about its registry and about the volumes of the *)
(* driver, proved for any vaults, accounts, logons, slots and bounds.        *)
(*                                                                           *)
(* None of these properties is inductive.  AgreeInv says where the map and   *)
(* the file may differ while an operation has a record in hand; RecordInv    *)
(* and OpInv tie every record to the volume it was made for; CleanInv says   *)
(* that what only the file still names is gone from the driver; PauseInv     *)
(* that map and file owe Syncthing the same pauses.                          *)
(***************************************************************************)
EXTENDS VaultMountProofs

\* Map and file name the same mount of an entry, or none.
Agrees(r, e) ==
    IF r.active[e] = NoMount THEN r.durable[e] = NoMount
    ELSE /\ r.durable[e] # NoMount
         /\ r.durable[e].vol = r.active[e].vol

\* They do so wherever recovery has nothing to write and no operation is busy.
Agreed(r, busy) ==
    \/ ReconcileRefused(r)
    \/ \A e \in Entries \ (r.persist \cup r.removal \cup busy) : Agrees(r, e)

Serving == up \in {"up", "stopping"}

\* The entry whose record the operation has taken out of the map, or put there
\* without writing it.
Busy == {e \in Entries :
            /\ op # NoOp
            /\ \/ op.pc \in {"client", "clientShut", "member", "memberShut"}
               \/ op.pc = "unsaved" /\ e \notin Policy
            /\ op.e = e}

\* Syncthing is called only for a record that is in the file.
Written ==
    At("resume") \/ At("enroll") =>
        /\ reg.durable[op.e] # NoMount
        /\ reg.durable[op.e].vol = op.m.vol

AgreeInv == (Serving => Agreed(reg, Busy)) /\ Written

-----------------------------------------------------------------------------
(* The writers of the registry and the agreement of map and file.           *)

\* Fewer exemptions are a stronger agreement.
LEMMA AgreedWeaker ==
    ASSUME NEW r \in Registry, NEW busy, NEW more, busy \subseteq more,
           Agreed(r, busy)
    PROVE  Agreed(r, more)
BY DEF Agreed

\* A record of the mount the file names agrees with it.
LEMMA AgreedPut ==
    ASSUME NEW r \in Registry, NEW busy, Agreed(r, busy), NEW e \in Entries,
           NEW m \in Mount, r.durable[e] # NoMount, r.durable[e].vol = m.vol
    PROVE  Agreed(Put(r, e, m), busy)
<1>1. r.active \in [Entries -> Mount \cup {NoMount}]
  BY DEF Registry, Table
<1> DEFINE q == Put(r, e, m)
<1>2. /\ q.active = [r.active EXCEPT ![e] = m] /\ q.durable = r.durable
      /\ q.untrusted = r.untrusted /\ q.recoverable = r.recoverable
      /\ q.persist = r.persist /\ q.removal = r.removal
  BY DEF Put, Registry
<1> HIDE DEF q
<1>3. \A f \in Entries : Agrees(r, f) => Agrees(q, f)
  BY <1>1, <1>2, SentinelsAssumption DEF Agrees
<1> QED
  BY <1>2, <1>3 DEF Agreed, ReconcileRefused, q

\* So does a change of the record that keeps its volume.
LEMMA AgreedUpdate ==
    ASSUME NEW r \in Registry, NEW busy, Agreed(r, busy), NEW e \in Entries,
           NEW m \in Mount, r.active[e] # NoMount, r.active[e].vol = m.vol
    PROVE  Agreed(Put(r, e, m), busy)
<1>1. r.active \in [Entries -> Mount \cup {NoMount}]
  BY DEF Registry, Table
<1> DEFINE q == Put(r, e, m)
<1>2. /\ q.active = [r.active EXCEPT ![e] = m] /\ q.durable = r.durable
      /\ q.untrusted = r.untrusted /\ q.recoverable = r.recoverable
      /\ q.persist = r.persist /\ q.removal = r.removal
  BY DEF Put, Registry
<1> HIDE DEF q
<1>3. \A f \in Entries : Agrees(r, f) => Agrees(q, f)
  BY <1>1, <1>2, SentinelsAssumption DEF Agrees
<1> QED
  BY <1>2, <1>3 DEF Agreed, ReconcileRefused, q

\* An entry that is busy may be put or taken out.
LEMMA AgreedTaken ==
    ASSUME NEW r \in Registry, NEW busy, Agreed(r, busy), NEW e \in Entries,
           NEW m
    PROVE  Agreed(Put(r, e, m), busy \cup {e})
<1>1. r.active \in [Entries -> Mount \cup {NoMount}]
  BY DEF Registry, Table
<1> DEFINE q == Put(r, e, m)
<1>2. /\ q.active = [r.active EXCEPT ![e] = m] /\ q.durable = r.durable
      /\ q.untrusted = r.untrusted /\ q.recoverable = r.recoverable
      /\ q.persist = r.persist /\ q.removal = r.removal
  BY DEF Put, Registry
<1> HIDE DEF q
<1>3. \A f \in Entries \ {e} : Agrees(r, f) => Agrees(q, f)
  BY <1>1, <1>2 DEF Agrees
<1> QED
  BY <1>2, <1>3 DEF Agreed, ReconcileRefused, q

\* A successful write makes map and file agree.
LEMMA AgreedPersisted ==
    ASSUME NEW r \in Registry, NEW busy PROVE Agreed(Persisted(r), busy)
<1>1. Persisted(r).active = Persisted(r).durable
  BY DEF Persisted, Registry
<1> QED
  BY <1>1 DEF Agreed, Agrees

\* retain_cleanup_mount puts back the record of a busy entry.
LEMMA AgreedRetained ==
    ASSUME NEW r \in Registry, NEW e \in Entries, NEW m \in MaybeMount,
           NEW written \in BOOLEAN, Agreed(r, {e})
    PROVE  Agreed(Retained(r, e, m, written), {})
<1> DEFINE p == Put(r, e, m)
           q == [p EXCEPT !.persist = @ \cup {e}]
<1>1. p \in Registry /\ Agreed(p, {e})
  <2>1. Agreed(p, {e} \cup {e})
    BY AgreedTaken
  <2> QED
    BY <2>1, PutType
<1> HIDE DEF p
<1>2. /\ q.active = p.active /\ q.durable = p.durable
      /\ q.untrusted = p.untrusted /\ q.recoverable = p.recoverable
      /\ q.persist = p.persist \cup {e} /\ q.removal = p.removal
  BY <1>1 DEF Registry
<1> HIDE DEF q
<1>3. Agreed(q, {})
  BY <1>1, <1>2 DEF Agreed, Agrees, ReconcileRefused
<1>4. Agreed(Persisted(p), {})
  BY <1>1, AgreedPersisted
<1> QED
  BY <1>3, <1>4 DEF Retained, p, q

\* clear_retained_mount removes the record of a busy entry.
LEMMA AgreedCleared ==
    ASSUME NEW r \in Registry, NEW e \in Entries, NEW written \in BOOLEAN,
           Agreed(r, {e})
    PROVE  Agreed(Cleared(r, e, written), {})
<1> DEFINE q == [r EXCEPT !.removal = @ \cup {e}]
<1>1. Agreed(Persisted(Put(r, e, NoMount)), {})
  BY PutType, AgreedPersisted DEF MaybeMount
<1>2. /\ q.active = r.active /\ q.durable = r.durable
      /\ q.untrusted = r.untrusted /\ q.recoverable = r.recoverable
      /\ q.persist = r.persist /\ q.removal = r.removal \cup {e}
  BY DEF Registry
<1> HIDE DEF q
<1>3. Agreed(q, {})
  BY <1>2 DEF Agreed, Agrees, ReconcileRefused
<1> QED
  BY <1>1, <1>3 DEF Cleared, q

\* The closing write of a dismount is done or remembered.
LEMMA AgreedRetired ==
    ASSUME NEW r \in Registry, NEW e \in Entries, NEW written \in BOOLEAN,
           Agreed(r, {e})
    PROVE  Agreed(Retired(r, e, written), {})
<1> DEFINE q == [r EXCEPT !.persist = @ \cup {e}]
<1>1. Agreed(Persisted(r), {})
  BY AgreedPersisted
<1>2. /\ q.active = r.active /\ q.durable = r.durable
      /\ q.untrusted = r.untrusted /\ q.recoverable = r.recoverable
      /\ q.persist = r.persist \cup {e} /\ q.removal = r.removal
  BY DEF Registry
<1> HIDE DEF q
<1>3. Agreed(q, {})
  BY <1>2 DEF Agreed, Agrees, ReconcileRefused
<1> QED
  BY <1>1, <1>3 DEF Retired, q

\* An untrusted registry promises nothing.
LEMMA AgreedUntrusted ==
    ASSUME NEW r \in Registry, NEW busy PROVE Agreed(Untrusted(r), busy)
BY DEF Untrusted, Agreed, ReconcileRefused, Registry

\* reconcile_absent_mounts_locked writes what it changes; it lifts a distrust
\* only under which map and file agreed already.
LEMMA AgreedReconciled ==
    ASSUME NEW r \in Registry, NEW known \in BOOLEAN, NEW busy, Agreed(r, busy)
    PROVE  Agreed(Reconciled(r, known), busy)
<1> DEFINE table == Swept(r, known)
           p == [r EXCEPT !.active = table]
           q == IF table = r.active THEN r ELSE Persisted(p)
           trusted == [q EXCEPT !.untrusted = FALSE, !.recoverable = FALSE]
<1>1. p \in Registry
  BY SweptType DEF Registry
<1>2. q \in Registry /\ Agreed(q, busy)
  BY <1>1, AgreedPersisted, PersistedType
<1>3. Reconciled(r, known) = IF q.recoverable /\ Accounted(table)
                             THEN trusted ELSE q
  BY DEF Reconciled
<1> HIDE DEF q
<1>4. /\ trusted.active = q.active /\ trusted.durable = q.durable
      /\ trusted.persist = q.persist /\ trusted.removal = q.removal
  BY <1>2 DEF Registry
<1>5. q.recoverable => Agreed(trusted, busy)
  BY <1>2, <1>4 DEF Agreed, Agrees, ReconcileRefused
<1> QED
  BY <1>2, <1>3, <1>5

\* recovery_allows_entry leaves map and file in agreement.
LEMMA AgreedAdmitted ==
    ASSUME reg \in Registry, NEW e \in Entries, NEW known \in BOOLEAN,
           Agreed(reg, {})
    PROVE  Agreed(Admitted(e, known), {})
<1> DEFINE q == Reconciled(reg, known)
           kept == [f \in Entries |-> IF f \in q.removal THEN NoMount
                                                         ELSE q.active[f]]
           p == [q EXCEPT !.removal = {}, !.active = kept]
<1>1. q \in Registry /\ Agreed(q, {})
  BY ReconciledType, AgreedReconciled
<1> HIDE DEF q
<1>2. p \in Registry
  <2>1. kept \in Table
    BY <1>1 DEF Registry, Table
  <2> QED
    BY <1>1, <2>1 DEF Registry
<1>3. Agreed(Repaired(q), {})
  BY <1>2, AgreedPersisted DEF Repaired
<1> QED
  BY <1>1, <1>3 DEF Admitted, q


-----------------------------------------------------------------------------
(* AgreeInv, action by action.                                              *)

\* Without an operation no entry is busy.
LEMMA NotBusy == (op = NoOp => Busy = {}) /\ (op' = NoOp => Busy' = {})
BY DEF Busy

\* A broker at rest agrees everywhere.
LEMMA IdleAgreed ==
    ASSUME AgreeInv, Serving, op = NoOp PROVE Agreed(reg, {})
BY NotBusy DEF AgreeInv

\* The entry of the operation in progress is the only one that may differ.
LEMMA OpAgreed ==
    ASSUME TypeInv, AgreeInv, Serving, op # NoOp
    PROVE  Agreed(reg, {op.e})
BY AgreedWeaker DEF AgreeInv, Busy, TypeInv, TypeOK

\* A step that leaves the registry and the operation alone.
LEMMA AgreeSame ==
    ASSUME AgreeInv, UNCHANGED <<reg, op>>, Serving' => Serving
    PROVE  AgreeInv'
BY DEF AgreeInv, Written, Agreed, Agrees, ReconcileRefused, Busy, At

\* A step that ends its operation.
LEMMA AgreeEnds ==
    ASSUME op' = NoOp, Serving' => Agreed(reg', {})
    PROVE  AgreeInv'
<1>1. Busy' = {} /\ Written'
  BY NotBusy DEF Written, At
<1>2. Serving' => Agreed(reg, Busy)'
  BY <1>1 DEF Agreed, Agrees, ReconcileRefused
<1> QED
  BY <1>1, <1>2 DEF AgreeInv

\* A step that goes on with another program counter.
LEMMA AgreeGoes ==
    ASSUME op' # NoOp, op'.pc \notin {"resume", "enroll"}, op'.e \in Entries,
           Serving' => \/ Agreed(reg', {})
                       \/ /\ op'.pc \in {"client", "clientShut", "member", "memberShut"}
                          /\ Agreed(reg', {op'.e})
                       \/ /\ op'.pc = "unsaved" /\ op'.e \notin Policy
                          /\ Agreed(reg', {op'.e})
    PROVE  AgreeInv'
<1>1. Written'
  BY DEF Written, At
<1>2. Serving' => Agreed(reg, Busy)'
  BY DEF Agreed, Agrees, ReconcileRefused, Busy
<1> QED
  BY <1>1, <1>2 DEF AgreeInv

\* Mounting up to the broker's answer.
LEMMA MountAgree ==
    ASSUME TypeInv, AgreeInv, NEW e \in Entries, NEW l \in Logons,
           MountRefused(e, l) \/ MountDeclined(e, l) \/ MountOpen(e, l)
    PROVE  AgreeInv'
<1>1. op = NoOp /\ Serving /\ reg \in Registry
  BY DEF MountRefused, MountDeclined, MountOpen, Idle, Serving, TypeInv, TypeOK
<1>2. Agreed(reg, {})
  BY <1>1, IdleAgreed
<1>3. Agreed(reg', {})
  <2>1. CASE MountRefused(e, l)
    BY <1>1, <1>2, <2>1, AgreedReconciled DEF MountRefused
  <2>2. CASE MountDeclined(e, l)
    BY <1>1, <1>2, <2>2, AgreedAdmitted DEF MountDeclined
  <2>3. CASE MountOpen(e, l)
    BY <1>1, <1>2, <2>3, AgreedAdmitted DEF MountOpen
  <2> QED
    BY <2>1, <2>2, <2>3
<1>4. CASE op' = NoOp
  BY <1>3, <1>4, AgreeEnds
<1>5. CASE op' # NoOp
  <2>1. op'.pc = "opened" /\ op'.e = e
    <3>1. MountOpen(e, l)
      BY <1>1, <1>5 DEF MountRefused, MountDeclined
    <3>2. PICK s \in Slots, g \in Gens :
            op' = [pc |-> "opened", e |-> e, l |-> l, live |-> TRUE,
                   over |-> FALSE, ok |-> FALSE,
                   m |-> [logon |-> l, slot |-> s, id |-> 0, vol |-> g,
                          managed |-> FALSE, unresolved |-> e \in SyncOn,
                          cleanup |-> FALSE, absent |-> FALSE]]
      BY <1>5, <3>1, Zenon DEF MountOpen
    <3> QED
      BY <3>2
  <2> QED
    BY <1>3, <1>5, <2>1, AgreeGoes
<1> QED
  BY <1>4, <1>5

\* A rejected mount has no record.
LEMMA MountRejectedAgree ==
    ASSUME TypeInv, AgreeInv, MountRejected PROVE AgreeInv'
<1>1. op \in OpMount /\ op.e \in Entries /\ op.pc = "opened" /\ op # NoOp
  BY OpMountType DEF MountRejected, OpMount, At
<1>2. op' \in OpMount /\ op'.e = op.e /\ op'.pc \in {"badReply", "badRoot"}
  BY <1>1 DEF MountRejected, OpMount
<1>3. Busy = {} /\ reg' = reg /\ up' = up
  BY <1>1 DEF Busy, MountRejected
<1>4. Serving' => Agreed(reg', {})
  BY <1>3 DEF AgreeInv, Serving
<1> QED
  BY <1>1, <1>2, <1>4, AgreeGoes, SentinelsAssumption

\* The record of a new mount is written before it is announced; one that is
\* not written is busy until it is closed again.
LEMMA MountRecordAgree ==
    ASSUME TypeInv, AgreeInv, MountRecord PROVE AgreeInv'
<1>1. op \in OpMount /\ op.e \in Entries /\ op.m \in Mount /\ op # NoOp
      /\ op.pc = "opened" /\ reg \in Registry /\ up' = up
  BY OpMountType DEF MountRecord, OpMount, At, TypeInv, TypeOK
<1>2. Serving' => Agreed(reg, {})
  <2>1. Busy = {}
    BY <1>1 DEF Busy
  <2> QED
    BY <1>1, <2>1 DEF AgreeInv, Serving
<1> DEFINE seen(looked) == IF looked THEN slots[op.m.slot] ELSE 0
           m(looked) == [op.m EXCEPT !.id = seen(looked)]
<1>3. PICK looked \in BOOLEAN, written \in BOOLEAN, again \in BOOLEAN :
        /\ reg' = IF seen(looked) # 0 /\ written THEN Persisted(Put(reg, op.e, m(looked)))
                  ELSE IF seen(looked) # 0 /\ op.e \notin Policy THEN Put(reg, op.e, m(looked))
                  ELSE reg
        /\ op' = IF seen(looked) = 0 THEN [op EXCEPT !.pc = "unseen"]
                 ELSE IF ~written
                      THEN [op EXCEPT !.pc = "unsaved", !.m = m(looked)]
                 ELSE IF op.e \in SyncOn
                      THEN [op EXCEPT !.pc = "resume", !.m = m(looked)]
                 ELSE NoOp
  BY Zenon DEF MountRecord
<1>4. m(looked) \in Mount /\ m(looked).vol = op.m.vol
  <2>1. seen(looked) \in 0 .. MaxGen /\ op.m.slot \in Slots
    BY <1>1, BoundsAssumption DEF Mount, TypeInv, TypeOK
  <2> QED
    BY <1>1, <2>1 DEF Mount
<1> HIDE DEF m
<1>5. CASE seen(looked) = 0
  <2>1. op' \in OpMount /\ op'.pc = "unseen" /\ op'.e = op.e /\ reg' = reg
    BY <1>1, <1>3, <1>5 DEF OpMount
  <2> QED
    BY <1>1, <1>2, <2>1, AgreeGoes, SentinelsAssumption
<1>6. CASE seen(looked) # 0 /\ ~written
  <2>1. op' \in OpMount /\ op'.pc = "unsaved" /\ op'.e = op.e
    BY <1>1, <1>3, <1>4, <1>6 DEF OpMount
  <2>2. CASE op.e \in Policy
    BY <1>1, <1>2, <1>3, <1>6, <2>1, <2>2, AgreeGoes, SentinelsAssumption
  <2>3. CASE op.e \notin Policy
    <3>1. Serving' => Agreed(reg', {} \cup {op.e})
      BY <1>1, <1>2, <1>3, <1>6, <2>3, AgreedTaken
    <3>2. {} \cup {op.e} = {op.e}
      OBVIOUS
    <3> QED
      BY <1>1, <2>1, <2>3, <3>1, <3>2, AgreeGoes, SentinelsAssumption
  <2> QED
    BY <2>2, <2>3
<1>7. CASE seen(looked) # 0 /\ written /\ op.e \notin SyncOn
  BY <1>1, <1>3, <1>4, <1>7, AgreeEnds, AgreedPersisted, PutType DEF MaybeMount
<1>8. CASE seen(looked) # 0 /\ written /\ op.e \in SyncOn
  <2>1. op' \in OpMount /\ op'.pc = "resume" /\ op'.e = op.e /\ op'.m = m(looked)
    BY <1>1, <1>3, <1>4, <1>8 DEF OpMount
  <2> DEFINE p == Put(reg, op.e, m(looked))
  <2>2. p \in Registry /\ reg' = Persisted(p)
    BY <1>1, <1>3, <1>4, <1>8, PutType DEF MaybeMount
  <2>3. p.active[op.e] = m(looked)
    BY <1>1 DEF Put, Registry, Table
  <2>4. reg'.durable = p.active
    BY <2>2 DEF Persisted, Registry
  <2> HIDE DEF p
  <2>5. Written'
    BY <1>4, <2>1, <2>3, <2>4, SentinelsAssumption DEF Written
  <2>6. Agreed(reg', Busy')
    BY <2>2, AgreedPersisted
  <2>7. Agreed(reg, Busy)'
    BY <2>6 DEF Agreed, Agrees, ReconcileRefused
  <2> QED
    BY <2>5, <2>7 DEF AgreeInv
<1> QED
  BY <1>5, <1>6, <1>7, <1>8


\* The records of a mount that is closed again.
Discarded(looked) ==
    [op.m EXCEPT !.cleanup = TRUE,
                 !.id = IF looked THEN slots'[op.m.slot] ELSE 0]
Undone == [op.m EXCEPT !.cleanup = TRUE, !.unresolved = @ /\ op.e \notin Policy]

\* What closing a rejected mount does to the registry.
LEMMA MountDiscardCases ==
    ASSUME MountDiscard
    PROVE  \E ok, shut, clean, looked \in BOOLEAN :
             /\ Closes(op.m, ok, shut, clean)
             /\ \/ reg' = reg
                \/ reg' = Retained(reg, op.e, Discarded(looked), TRUE)
                \/ reg' = Untrusted(Retained(reg, op.e, Discarded(looked), FALSE))
<1> DEFINE keeps(ok) == op.pc = "badRoot" /\ op.e \notin Policy /\ ~ok
           m(looked) == [op.m EXCEPT !.cleanup = TRUE,
                             !.id = IF looked THEN slots'[op.m.slot] ELSE 0]
<1>1. PICK ok \in BOOLEAN, shut \in BOOLEAN, clean \in BOOLEAN,
           looked \in BOOLEAN, written \in BOOLEAN :
        /\ Closes(op.m, ok, shut, clean)
        /\ ~keeps(ok) => looked /\ written
        /\ Spend(CloseCost(op.m, ok, shut) + Cost(looked) + Cost(written))
        /\ reg' = IF ~keeps(ok) THEN reg
                  ELSE IF written THEN Retained(reg, op.e, m(looked), TRUE)
                  ELSE Untrusted(Retained(reg, op.e, m(looked), FALSE))
  BY Zenon DEF MountDiscard
<1>2. m(looked) = Discarded(looked)
  BY DEF Discarded
<1> HIDE DEF m, keeps
<1>3. \/ reg' = reg
      \/ reg' = Retained(reg, op.e, Discarded(looked), TRUE)
      \/ reg' = Untrusted(Retained(reg, op.e, Discarded(looked), FALSE))
  BY <1>1, <1>2
<1> QED
  BY <1>1, <1>3

\* What closing a mount that was not seen or not saved does.
LEMMA MountUndoCases ==
    ASSUME MountUndo
    PROVE  \E ok, shut, clean, looked, written \in BOOLEAN :
             /\ Closes(op.m, ok, shut, clean)
             /\ ok => clean
             /\ \/ op.e \in Policy /\ reg' = reg
                \/ /\ ok /\ looked /\ slots'[op.m.slot] = 0
                   /\ reg' = Cleared(reg, op.e, written)
                \/ /\ op.e \in Policy => op.pc = "unseen"
                   /\ reg' = Retained(Untrusted(reg), op.e, Undone, written)
<1> DEFINE gone(ok, looked) == ok /\ looked /\ slots'[op.m.slot] = 0
           m == [op.m EXCEPT !.cleanup = TRUE,
                             !.unresolved = @ /\ op.e \notin Policy]
           forgets(ok, looked) ==
               op.e \in Policy /\ (op.pc = "unsaved" \/ gone(ok, looked))
<1>1. PICK ok \in BOOLEAN, shut \in BOOLEAN, clean \in BOOLEAN,
           looked \in BOOLEAN, written \in BOOLEAN :
        /\ Closes(op.m, ok, shut, clean)
        /\ ok => clean
        /\ forgets(ok, looked) => written
        /\ Spend(CloseCost(op.m, ok, shut) + Cost(looked) + Cost(written))
        /\ reg' = IF forgets(ok, looked) THEN reg
                  ELSE IF gone(ok, looked) THEN Cleared(reg, op.e, written)
                  ELSE Retained(Untrusted(reg), op.e, m, written)
  BY Zenon DEF MountUndo
<1>2. m = Undone
  BY DEF Undone
<1>3. /\ forgets(ok, looked) => op.e \in Policy
      /\ ~forgets(ok, looked) => (op.e \in Policy => op.pc = "unseen")
  BY DEF MountUndo, At
<1> HIDE DEF m, forgets
<1>4. \/ op.e \in Policy /\ reg' = reg
      \/ /\ ok /\ looked /\ slots'[op.m.slot] = 0
         /\ reg' = Cleared(reg, op.e, written)
      \/ /\ op.e \in Policy => op.pc = "unseen"
         /\ reg' = Retained(Untrusted(reg), op.e, Undone, written)
  BY <1>1, <1>2, <1>3
<1> QED
  BY <1>1, <1>4

\* A rejected mount is closed; the record some paths keep is put back as that
\* of a busy entry.
LEMMA MountDiscardAgree ==
    ASSUME TypeInv, AgreeInv, MountDiscard PROVE AgreeInv'
<1>1. op \in OpMount /\ op.e \in Entries /\ op.m \in Mount /\ op # NoOp
      /\ op.pc \in {"badReply", "badRoot"} /\ reg \in Registry /\ up' = up
      /\ op' = NoOp
  BY OpMountType DEF MountDiscard, OpMount, At, TypeInv, TypeOK
<1>2. Serving' => Agreed(reg, {}) /\ Agreed(reg, {op.e})
  <2>1. Busy = {}
    BY <1>1 DEF Busy
  <2> QED
    BY <1>1, <2>1, AgreedWeaker DEF AgreeInv, Serving
<1>3. PICK ok \in BOOLEAN, shut \in BOOLEAN, clean \in BOOLEAN, looked \in BOOLEAN :
        /\ Closes(op.m, ok, shut, clean)
        /\ \/ reg' = reg
           \/ reg' = Retained(reg, op.e, Discarded(looked), TRUE)
           \/ reg' = Untrusted(Retained(reg, op.e, Discarded(looked), FALSE))
  BY MountDiscardCases
<1>4. Discarded(looked) \in Mount
  <2>1. slots' \in [Slots -> 0 .. MaxGen] /\ op.m.slot \in Slots
    BY <1>1, <1>3, ClosesType DEF TypeInv, Mount
  <2>2. (IF looked THEN slots'[op.m.slot] ELSE 0) \in 0 .. MaxGen
    BY <2>1, BoundsAssumption
  <2> QED
    BY <1>1, <2>2 DEF Mount, Discarded
<1>5. Serving' => Agreed(reg', {})
  BY <1>1, <1>2, <1>3, <1>4, AgreedRetained, AgreedUntrusted, RetainedType
  DEF MaybeMount
<1> QED
  BY <1>1, <1>5, AgreeEnds

\* A mount that was not seen or not saved: its record is cleared, retained in
\* an untrusted registry, or was never put.
LEMMA MountUndoAgree ==
    ASSUME TypeInv, AgreeInv, MountUndo PROVE AgreeInv'
<1>1. op \in OpMount /\ op.e \in Entries /\ op.m \in Mount /\ op # NoOp
      /\ op.pc \in {"unseen", "unsaved"} /\ reg \in Registry /\ up' = up
      /\ op' = NoOp
  BY OpMountType DEF MountUndo, OpMount, At, TypeInv, TypeOK
<1>2. Serving' => Agreed(reg, {op.e})
  BY <1>1, OpAgreed DEF Serving
<1>3. Serving' => (op.e \in Policy => Agreed(reg, {}))
  <2>1. op.e \in Policy => Busy = {}
    BY <1>1 DEF Busy
  <2> QED
    BY <1>1, <2>1 DEF AgreeInv, Serving
<1>4. PICK written \in BOOLEAN :
        \/ op.e \in Policy /\ reg' = reg
        \/ reg' = Cleared(reg, op.e, written)
        \/ reg' = Retained(Untrusted(reg), op.e, Undone, written)
  BY MountUndoCases
<1>5. Undone \in Mount
  <2>1. (op.m.unresolved /\ op.e \notin Policy) \in BOOLEAN
    OBVIOUS
  <2> QED
    BY <1>1, <2>1 DEF Mount, Undone
<1>6. Untrusted(reg) \in Registry /\ Agreed(Untrusted(reg), {op.e})
  BY <1>1, UntrustedType, AgreedUntrusted
<1>7. Serving' => Agreed(reg', {})
  BY <1>1, <1>2, <1>3, <1>4, <1>5, <1>6, AgreedRetained, AgreedCleared
  DEF MaybeMount
<1> QED
  BY <1>1, <1>7, AgreeEnds

\* The Syncthing call of a mount comes after its record was written.
LEMMA MountResumeAgree ==
    ASSUME TypeInv, AgreeInv, MountResume PROVE AgreeInv'
<1>1. op \in OpMount /\ op.e \in Entries /\ op.m \in Mount /\ op # NoOp
      /\ op.pc = "resume" /\ reg \in Registry /\ up' = up /\ op' = NoOp
  BY OpMountType DEF MountResume, OpMount, At, TypeInv, TypeOK
<1>2. Serving' => Agreed(reg, {})
  <2>1. Busy = {}
    BY <1>1 DEF Busy
  <2> QED
    BY <1>1, <2>1 DEF AgreeInv, Serving
<1>3. reg.durable[op.e] # NoMount /\ reg.durable[op.e].vol = op.m.vol
  BY <1>1 DEF AgreeInv, Written, At
<1> DEFINE m(answered, opted) ==
             [AfterResume(op.e, op.m, answered)
                 EXCEPT !.unresolved = @ \/ ~opted]
<1>4. PICK answered \in BOOLEAN, opted \in BOOLEAN :
        \/ reg' = Persisted(Put(reg, op.e, m(answered, opted)))
        \/ reg' = Put(reg, op.e, m(answered, opted))
  BY Zenon DEF MountResume
<1>5. m(answered, opted) \in Mount /\ m(answered, opted).vol = op.m.vol
  <2>1. AfterResume(op.e, op.m, answered) \in Mount
    BY <1>1, AfterResumeType
  <2>2. (AfterResume(op.e, op.m, answered).unresolved \/ ~opted) \in BOOLEAN
    OBVIOUS
  <2>3. AfterResume(op.e, op.m, answered).vol = op.m.vol
    BY <1>1 DEF AfterResume, Mount
  <2> QED
    BY <2>1, <2>2, <2>3 DEF Mount
<1> HIDE DEF m
<1>6. Serving' => Agreed(reg', {})
  BY <1>1, <1>2, <1>3, <1>4, <1>5, AgreedPut, AgreedPersisted, PutType
  DEF MaybeMount
<1> QED
  BY <1>1, <1>6, AgreeEnds

\* What a confirmed pause changes of a record.
LEMMA AfterPauseSame ==
    ASSUME NEW e \in Entries, NEW m \in Mount
    PROVE  /\ AfterPause(e, m).vol = m.vol /\ AfterPause(e, m).id = m.id
           /\ AfterPause(e, m).slot = m.slot /\ AfterPause(e, m).absent = m.absent
BY DEF AfterPause, Mount

\* The client path takes its record in hand, or leaves it in the map.
LEMMA StartClientAgree ==
    ASSUME NEW r \in Registry, Agreed(r, {}), NEW e \in Entries, NEW l \in Logons,
           NEW cost, r.active[e] # NoMount, StartClient(r, e, l, cost)
    PROVE  AgreeInv'
<1> DEFINE m == AfterPause(e, r.active[e])
<1>1. m \in Mount /\ m.vol = r.active[e].vol
  BY RecordType, AfterPauseType, AfterPauseSame
<1>2. \/ reg' = r /\ op' = NoOp
      \/ reg' = Put(r, e, m) /\ op' = NoOp
      \/ reg' = Put(r, e, NoMount) /\ op' = Closing("client", e, l, m, FALSE)
  BY Zenon DEF StartClient
<1> HIDE DEF m
<1>3. CASE reg' = r /\ op' = NoOp
  BY <1>3, AgreeEnds
<1>4. CASE reg' = Put(r, e, m) /\ op' = NoOp
  BY <1>1, <1>4, AgreeEnds, AgreedUpdate
<1>5. CASE reg' = Put(r, e, NoMount) /\ op' = Closing("client", e, l, m, FALSE)
  <2>0. Closing("client", e, l, m, FALSE) \in OpMount
    BY <1>1, ClosingType
  <2>1. op'.pc = "client" /\ op'.e = e /\ op' # NoOp
    BY <1>5, <2>0, SentinelsAssumption DEF Closing
  <2>2. Agreed(reg', {} \cup {e})
    BY <1>5, AgreedTaken
  <2>3. Agreed(reg', {op'.e})
    BY <2>1, <2>2 DEF Agreed
  <2> QED
    BY <2>1, <2>3, AgreeGoes
<1> QED
  BY <1>2, <1>3, <1>4, <1>5

\* So does the member path.
LEMMA StartMemberAgree ==
    ASSUME NEW r \in Registry, Agreed(r, {}), NEW e \in Entries, NEW l \in Logons,
           NEW over \in BOOLEAN, NEW cost, r.active[e] # NoMount,
           StartMember(r, e, l, over, cost)
    PROVE  AgreeInv'
<1> DEFINE m == r.active[e]
<1>1. m \in Mount
  BY RecordType
<1>2. \/ reg' = r /\ op' = NoOp
      \/ reg' = Put(r, e, NoMount) /\ op' = Closing("member", e, l, m, over)
  BY Zenon DEF StartMember
<1> HIDE DEF m
<1>3. CASE reg' = r /\ op' = NoOp
  BY <1>3, AgreeEnds
<1>4. CASE reg' = Put(r, e, NoMount) /\ op' = Closing("member", e, l, m, over)
  <2>0. Closing("member", e, l, m, over) \in OpMount
    BY <1>1, ClosingType
  <2>1. op'.pc = "member" /\ op'.e = e /\ op' # NoOp
    BY <1>4, <2>0, SentinelsAssumption DEF Closing
  <2>2. Agreed(reg', {} \cup {e})
    BY <1>4, AgreedTaken
  <2>3. Agreed(reg', {op'.e})
    BY <2>1, <2>2 DEF Agreed
  <2> QED
    BY <2>1, <2>3, AgreeGoes
<1> QED
  BY <1>2, <1>3, <1>4

\* What a dismount does before the broker call.
LEMMA DismountCases ==
    ASSUME NEW e \in Entries, NEW l \in Logons, Dismount(e, l)
    PROVE  \/ UNCHANGED <<reg, op>> /\ reply' = NoReply
           \/ \E known \in BOOLEAN :
                /\ ~ReconcileRefused(reg)
                /\ \/ /\ reg' = Reconciled(reg, known) /\ UNCHANGED op
                      /\ reply' # NoReply => /\ reply' = Answer(e, l, "Unmounted")
                                             /\ reg'.active[e] = NoMount
                   \/ /\ Reconciled(reg, known).active[e] # NoMount
                      /\ reply' = NoReply
                      /\ \/ StartClient(Reconciled(reg, known), e, l, Cost(known))
                         \/ \E over \in BOOLEAN :
                              StartMember(Reconciled(reg, known), e, l, over, Cost(known))
<1>1. CASE UNCHANGED <<reg, op>> /\ reply' = NoReply
  BY <1>1
<1>2. CASE ~(UNCHANGED <<reg, op>> /\ reply' = NoReply)
  <2> DEFINE old == reg.active[e]
             own == UserOf[old.logon] = UserOf[l]
  <2>1. PICK known \in BOOLEAN :
          LET r == Reconciled(reg, known)
          IN  /\ ~ReconcileRefused(reg)
              /\ IF r.active[e] = NoMount
                 THEN /\ reg' = r /\ Spend(Cost(known))
                      /\ reply' = Answer(e, l, "Unmounted")
                      /\ UNCHANGED <<op, syncing>>
                 ELSE /\ reply' = NoReply
                      /\ \/ /\ reg' = r /\ UNCHANGED op
                         \/ StartClient(r, e, l, Cost(known))
                         \/ StartMember(r, e, l, known /\ old.logon \in ended,
                                        Cost(known))
    BY <1>2, Zenon DEF Dismount
  <2>2. (known /\ old.logon \in ended) \in BOOLEAN
    OBVIOUS
  <2> QED
    BY <2>1, <2>2
<1> QED
  BY <1>1, <1>2

LEMMA DismountAgree ==
    ASSUME TypeInv, AgreeInv, NEW e \in Entries, NEW l \in Logons, Dismount(e, l)
    PROVE  AgreeInv'
<1>1. op = NoOp /\ Serving /\ reg \in Registry /\ up' = up
  BY DEF Dismount, Idle, Serving, TypeInv, TypeOK
<1>2. Agreed(reg, {})
  BY <1>1, IdleAgreed
<1>3. CASE UNCHANGED <<reg, op>>
  BY <1>1, <1>3, AgreeSame DEF Serving
<1>4. ASSUME NEW known \in BOOLEAN, NEW r, r = Reconciled(reg, known),
             \/ reg' = r /\ UNCHANGED op
             \/ /\ r.active[e] # NoMount
                /\ \/ StartClient(r, e, l, Cost(known))
                   \/ \E over \in BOOLEAN : StartMember(r, e, l, over, Cost(known))
      PROVE  AgreeInv'
  <2>1. r \in Registry /\ Agreed(r, {})
    BY <1>1, <1>2, <1>4, ReconciledType, AgreedReconciled
  <2> QED
    BY <1>1, <1>4, <2>1, AgreeEnds, StartClientAgree, StartMemberAgree
<1> QED
  BY <1>3, <1>4, DismountCases


\* The broker call leaves the record in hand.
LEMMA ShutAgree ==
    ASSUME TypeInv, AgreeInv, Shut PROVE AgreeInv'
<1>1. op \in OpMount /\ op.e \in Entries /\ op # NoOp /\ reg' = reg /\ up' = up
  BY OpMountType DEF Shut, OpMount, At
<1>2. op' \in OpMount /\ op'.e = op.e /\ op'.pc \in {"clientShut", "memberShut"}
  BY <1>1 DEF Shut, OpMount
<1>3. Serving' => Agreed(reg', {op'.e})
  BY <1>1, <1>2, OpAgreed DEF Serving
<1> QED
  BY <1>1, <1>2, <1>3, AgreeGoes, SentinelsAssumption

\* The end of a dismount retires the record or puts it back.
LEMMA ClientFinishCases ==
    ASSUME ClientFinish
    PROVE  \E looked, again, written, answered \in BOOLEAN :
             \/ /\ op.ok /\ looked /\ slots[op.m.slot] = 0
                /\ reg' = Retired(reg, op.e, written)
             \/ /\ \/ reg' = Retained(reg, op.e, Pending(op.m, again), written)
                   \/ reg' = Retained(reg, op.e,
                                 Pending(AfterResume(op.e, op.m, answered), again),
                                 written)
                /\ reply' = NoReply
<1> DEFINE gone(looked) == op.ok /\ looked /\ slots[op.m.slot] = 0
           resumes(looked) == ~gone(looked) /\ op.m.managed
<1>1. PICK looked \in BOOLEAN, again \in BOOLEAN, written \in BOOLEAN,
           answered \in BOOLEAN, started \in BOOLEAN :
        /\ gone(looked) => again
        /\ IF resumes(looked) THEN Resumes(op.e, answered, started)
           ELSE answered /\ ~started /\ syncing' = syncing
        /\ Spend(Cost(looked) + Cost(again) + Cost(written) + Cost(answered))
        /\ reg' = IF gone(looked) THEN Retired(reg, op.e, written)
                  ELSE Retained(reg, op.e,
                           Pending(IF resumes(looked)
                                   THEN AfterResume(op.e, op.m, answered)
                                   ELSE op.m, again),
                           written)
        /\ reply' = IF gone(looked) /\ written THEN Answer(op.e, op.l, "Unmounted")
                    ELSE NoReply
  BY Zenon DEF ClientFinish
<1>2. CASE gone(looked)
  BY <1>1, <1>2
<1>3. CASE ~gone(looked)
  <2>1. reply' = NoReply
    BY <1>1, <1>3
  <2>2. CASE resumes(looked)
    BY <1>1, <1>3, <2>1, <2>2
  <2>3. CASE ~resumes(looked)
    BY <1>1, <1>3, <2>1, <2>3
  <2> QED
    BY <2>2, <2>3
<1> QED
  BY <1>2, <1>3

LEMMA MemberFinishCases ==
    ASSUME MemberFinish
    PROVE  \E looked, again, written, cleaned \in BOOLEAN :
             LET empty == looked /\ slots[op.m.slot] = 0
             IN  \/ /\ IF op.e \in PerUser THEN empty /\ alias' = alias \ {op.m.vol}
                       ELSE \/ op.ok /\ empty
                            \/ ~op.live /\ LetterGone(op.m, alias)
                    /\ reg' = Retired(reg, op.e, written)
                 \/ /\ reg' = Retained(reg, op.e, Pending(op.m, again), written)
                    /\ reply' = NoReply
<1> DEFINE empty(looked) == looked /\ slots[op.m.slot] = 0
           privateClean(looked, cleaned) == op.e \in PerUser /\ empty(looked) /\ cleaned
           machineClean(cleaned) == /\ op.e \notin PerUser /\ ~op.live
                                    /\ LetterGone(op.m, alias) /\ cleaned
           gone(looked, cleaned) ==
               IF op.e \in PerUser THEN privateClean(looked, cleaned)
               ELSE (op.ok /\ empty(looked)) \/ machineClean(cleaned)
<1>1. PICK looked \in BOOLEAN, again \in BOOLEAN, written \in BOOLEAN,
           cleaned \in BOOLEAN :
        /\ gone(looked, cleaned) => again
        /\ (IF op.e \in PerUser THEN ~empty(looked) ELSE op.live) => cleaned
        /\ Spend(Cost(looked) + Cost(again) + Cost(written) + Cost(cleaned))
        /\ alias' = IF privateClean(looked, cleaned) THEN alias \ {op.m.vol} ELSE alias
        /\ reg' = IF gone(looked, cleaned) THEN Retired(reg, op.e, written)
                  ELSE Retained(reg, op.e, Pending(op.m, again), written)
        /\ reply' = IF gone(looked, cleaned) /\ written
                    THEN Answer(op.e, op.l, "Unmounted") ELSE NoReply
  BY Zenon DEF MemberFinish
<1>2. CASE gone(looked, cleaned)
  <2>1. IF op.e \in PerUser THEN empty(looked) /\ alias' = alias \ {op.m.vol}
        ELSE \/ op.ok /\ empty(looked)
             \/ ~op.live /\ LetterGone(op.m, alias)
    BY <1>1, <1>2
  <2>2. reg' = Retired(reg, op.e, written)
    BY <1>1, <1>2
  <2> QED
    BY <2>1, <2>2
<1>3. CASE ~gone(looked, cleaned)
  <2>1. reg' = Retained(reg, op.e, Pending(op.m, again), written) /\ reply' = NoReply
    BY <1>1, <1>3
  <2> QED
    BY <2>1
<1> QED
  BY <1>2, <1>3

LEMMA FinishAgree ==
    ASSUME TypeInv, AgreeInv, ClientFinish \/ MemberFinish PROVE AgreeInv'
<1>1. op \in OpMount /\ op.e \in Entries /\ op.m \in Mount /\ op # NoOp
      /\ reg \in Registry /\ up' = up /\ op' = NoOp
  BY OpMountType DEF ClientFinish, MemberFinish, OpMount, At, TypeInv, TypeOK
<1>2. Serving' => Agreed(reg, {op.e})
  BY <1>1, OpAgreed DEF Serving
<1>3. \E written \in BOOLEAN, m \in Mount :
        \/ reg' = Retired(reg, op.e, written)
        \/ reg' = Retained(reg, op.e, m, written)
  <2>1. CASE ClientFinish
    BY <1>1, <2>1, ClientFinishCases, PendingType, AfterResumeType
  <2>2. CASE MemberFinish
    BY <1>1, <2>2, MemberFinishCases, PendingType
  <2> QED
    BY <2>1, <2>2
<1>4. Serving' => Agreed(reg', {})
  BY <1>1, <1>2, <1>3, AgreedRetired, AgreedRetained DEF MaybeMount
<1> QED
  BY <1>1, <1>4, AgreeEnds

\* The cleanup of an ended session dismounts what it captured.
LEMMA SessionCleanupCases ==
    ASSUME NEW e \in Entries, SessionCleanup(e)
    PROVE  \/ UNCHANGED <<reg, op>>
           \/ StartMember(reg, e, reg.active[e].logon, TRUE, 0)
           \/ StartClient(reg, e, reg.active[e].logon, 0)
BY Zenon DEF SessionCleanup

LEMMA ServiceDismountAgree ==
    ASSUME TypeInv, AgreeInv, NEW e \in Entries, SessionCleanup(e) \/ StopNext(e)
    PROVE  AgreeInv'
<1>1. op = NoOp /\ Serving /\ reg \in Registry /\ up' = up /\ reg.active[e] # NoMount
  BY DEF SessionCleanup, StopNext, Idle, Serving, TypeInv, TypeOK
<1>2. Agreed(reg, {})
  BY <1>1, IdleAgreed
<1>3. reg.active[e].logon \in Logons /\ TRUE \in BOOLEAN
  BY <1>1, RecordType DEF Mount
<1>4. \/ UNCHANGED <<reg, op>>
      \/ StartMember(reg, e, reg.active[e].logon, TRUE, 0)
      \/ StartClient(reg, e, reg.active[e].logon, 0)
  BY SessionCleanupCases DEF StopNext
<1>5. CASE UNCHANGED <<reg, op>>
  BY <1>1, <1>5, AgreeSame DEF Serving
<1>6. CASE StartMember(reg, e, reg.active[e].logon, TRUE, 0)
  BY <1>1, <1>2, <1>3, <1>6, StartMemberAgree
<1>7. CASE StartClient(reg, e, reg.active[e].logon, 0)
  BY <1>1, <1>2, <1>3, <1>7, StartClientAgree
<1> QED
  BY <1>4, <1>5, <1>6, <1>7


\* What an enrolment does to the registry before the Syncthing call.
Enrolled == [reg.active[enroll.e] EXCEPT !.unresolved = TRUE]

LEMMA EnrollMarkCases ==
    ASSUME TypeInv, EnrollMark
    PROVE  \/ UNCHANGED <<reg, op>>
           \/ /\ enroll.e \in Entries /\ enroll.l \in Logons
              /\ EnrollEligible(enroll.e, enroll.l)
              /\ \/ /\ reg' = Persisted(Put(reg, enroll.e, Enrolled))
                    /\ op' = Closing("enroll", enroll.e, enroll.l, Enrolled, FALSE)
                 \/ /\ reg' = Put(reg, enroll.e, Enrolled)
                    /\ op' = NoOp
<1>1. enroll.e \in Entries /\ enroll.l \in Logons
  BY DEF TypeInv, TypeOK, EnrollMark
<1> DEFINE m == [reg.active[enroll.e] EXCEPT !.unresolved = TRUE]
           same == /\ EnrollEligible(enroll.e, enroll.l)
                   /\ reg.active[enroll.e].id = enroll.m.id
                   /\ reg.active[enroll.e].vol = enroll.m.vol
<1>2. \/ ~same /\ UNCHANGED <<reg, op>> /\ Spend(0)
      \/ \E written \in BOOLEAN :
           /\ same
           /\ Spend(Cost(written))
           /\ reg' = IF written THEN Persisted(Put(reg, enroll.e, m))
                                ELSE Put(reg, enroll.e, m)
           /\ op' = IF written THEN Closing("enroll", enroll.e, enroll.l, m, FALSE)
                               ELSE NoOp
  BY Zenon DEF EnrollMark
<1>3. m = Enrolled
  BY DEF Enrolled
<1>4. same => EnrollEligible(enroll.e, enroll.l)
  OBVIOUS
<1> HIDE DEF m, same
<1> QED
  BY <1>1, <1>2, <1>3, <1>4

LEMMA EnrolledType ==
    ASSUME TypeInv, EnrollEligible(enroll.e, enroll.l), enroll.e \in Entries
    PROVE  /\ Enrolled \in Mount /\ Enrolled.vol = reg.active[enroll.e].vol
           /\ Enrolled.id = reg.active[enroll.e].id
           /\ Enrolled.slot = reg.active[enroll.e].slot
<1>1. reg.active[enroll.e] \in Mount
  BY RecordType DEF EnrollEligible, TypeInv, TypeOK
<1> QED
  BY <1>1 DEF Enrolled, Mount

LEMMA EnrollMarkAgree ==
    ASSUME TypeInv, AgreeInv, EnrollMark PROVE AgreeInv'
<1>1. op = NoOp /\ Serving /\ reg \in Registry /\ up' = up
  BY DEF EnrollMark, Idle, Serving, TypeInv, TypeOK
<1>2. Agreed(reg, {})
  BY <1>1, IdleAgreed
<1>3. CASE UNCHANGED <<reg, op>>
  BY <1>1, <1>3, AgreeSame DEF Serving
<1>4. ASSUME enroll.e \in Entries, enroll.l \in Logons,
             EnrollEligible(enroll.e, enroll.l),
             reg' = Put(reg, enroll.e, Enrolled), op' = NoOp
      PROVE  AgreeInv'
  <2>1. reg.active[enroll.e] # NoMount
    BY <1>4 DEF EnrollEligible
  <2>2. Agreed(reg', {})
    BY <1>1, <1>2, <1>4, <2>1, EnrolledType, AgreedUpdate
  <2> QED
    BY <1>4, <2>2, AgreeEnds
<1>5. ASSUME enroll.e \in Entries, enroll.l \in Logons,
             EnrollEligible(enroll.e, enroll.l),
             reg' = Persisted(Put(reg, enroll.e, Enrolled)),
             op' = Closing("enroll", enroll.e, enroll.l, Enrolled, FALSE)
      PROVE  AgreeInv'
  <2> DEFINE p == Put(reg, enroll.e, Enrolled)
  <2>1. Enrolled \in Mount
    BY <1>5, EnrolledType
  <2>2. p \in Registry /\ p.active[enroll.e] = Enrolled
    <3>1. p \in Registry
      BY <1>1, <1>5, <2>1, PutType DEF MaybeMount
    <3>2. p.active[enroll.e] = Enrolled
      BY <1>1, <1>5 DEF Put, Registry, Table
    <3> QED
      BY <3>1, <3>2
  <2>3. reg' = Persisted(p)
    BY <1>5
  <2> HIDE DEF p
  <2>4. reg'.durable = p.active
    BY <2>2, <2>3 DEF Persisted, Registry
  <2>5. op'.e = enroll.e /\ op'.m = Enrolled
    BY <1>5 DEF Closing
  <2>6. Written'
    BY <2>1, <2>2, <2>4, <2>5, SentinelsAssumption DEF Written
  <2>7. Agreed(reg', Busy')
    BY <2>2, <2>3, AgreedPersisted
  <2>8. Agreed(reg, Busy)'
    BY <2>7 DEF Agreed, Agrees, ReconcileRefused
  <2> QED
    BY <2>6, <2>8 DEF AgreeInv
<1> QED
  BY <1>3, <1>4, <1>5, EnrollMarkCases

\* The Syncthing call of an enrolment comes after its record was written.
EnrolledFolder == [op.m EXCEPT !.managed = TRUE, !.unresolved = FALSE]

LEMMA EnrollCallCases ==
    ASSUME EnrollCall
    PROVE  \/ reg' = reg
           \/ reg' = Persisted(Put(reg, op.e, EnrolledFolder))
           \/ reg' = Put(reg, op.e, EnrolledFolder)
<1> DEFINE m == [op.m EXCEPT !.managed = TRUE, !.unresolved = FALSE]
<1>1. PICK binds \in BOOLEAN, starts \in BOOLEAN, answered \in BOOLEAN,
           written \in BOOLEAN :
        /\ answered => binds /\ starts
        /\ starts => binds \/ op.e \in bound
        /\ ~answered => written
        /\ Spend(Cost(answered) + Cost(written))
        /\ bound' = IF binds THEN bound \cup {op.e} ELSE bound
        /\ syncing' = IF starts THEN syncing \cup {op.e} ELSE syncing
        /\ reg' = IF ~answered THEN reg
                  ELSE IF written THEN Persisted(Put(reg, op.e, m))
                  ELSE Put(reg, op.e, m)
  BY Zenon DEF EnrollCall
<1>2. m = EnrolledFolder
  BY DEF EnrolledFolder
<1> HIDE DEF m
<1> QED
  BY <1>1, <1>2

LEMMA EnrollCallAgree ==
    ASSUME TypeInv, AgreeInv, EnrollCall PROVE AgreeInv'
<1>1. op \in OpMount /\ op.e \in Entries /\ op.m \in Mount /\ op # NoOp
      /\ op.pc = "enroll" /\ reg \in Registry /\ up' = up /\ op' = NoOp
  BY OpMountType DEF EnrollCall, OpMount, At, TypeInv, TypeOK
<1>2. Serving' => Agreed(reg, {})
  <2>1. Busy = {}
    BY <1>1 DEF Busy
  <2> QED
    BY <1>1, <2>1 DEF AgreeInv, Serving
<1>3. reg.durable[op.e] # NoMount /\ reg.durable[op.e].vol = op.m.vol
  BY <1>1 DEF AgreeInv, Written, At
<1>4. EnrolledFolder \in Mount /\ EnrolledFolder.vol = op.m.vol
  BY <1>1 DEF EnrolledFolder, Mount
<1>5. Serving' => Agreed(reg', {})
  BY <1>1, <1>2, <1>3, <1>4, EnrollCallCases, AgreedPut, AgreedPersisted, PutType
  DEF MaybeMount
<1> QED
  BY <1>1, <1>5, AgreeEnds

\* A process that ended serves nothing.
LEMMA ExitsAgree ==
    ASSUME Exits PROVE AgreeInv'
<1>1. op' = NoOp /\ ~Serving'
  BY DEF Exits, Serving
<1> QED
  BY <1>1, AgreeEnds

\* load_and_cleanup starts from the file, and ends with a written registry or
\* an untrusted one.
LEMMA BootAgree ==
    ASSUME TypeInv, AgreeInv, Boot PROVE AgreeInv'
<1>1. reg \in Registry
  BY DEF TypeInv, TypeOK
<1>2. CASE BootLoad
  <2> DEFINE d == reg.durable
             odd(looked) == ~looked \/ \E e \in Recorded(d) : Unknown(d[e])
  <2>1. PICK read \in BOOLEAN, looked \in BOOLEAN :
          /\ Spend(Cost(read) + Cost(looked))
          /\ (~read \/ d = NoTable) => looked
          /\ IF ~read
             THEN reg' = Untrusted(reg) /\ up' = "up" /\ op' = NoOp
             ELSE IF odd(looked)
             THEN /\ reg' = [reg EXCEPT !.active = d, !.untrusted = TRUE,
                                        !.recoverable = TRUE]
                  /\ up' = "up" /\ op' = NoOp
             ELSE /\ reg' = [reg EXCEPT !.active = d]
                  /\ up' = "boot"
                  /\ op' = [pc |-> "boot", todo |-> Recorded(d),
                            keep |-> NoTable]
    BY <1>2, Zenon DEF BootLoad
  <2> HIDE DEF odd
  <2>2. CASE ~read
    BY <1>1, <2>1, <2>2, AgreeEnds, AgreedUntrusted
  <2>3. CASE read /\ odd(looked)
    <3>1. reg'.active = reg'.durable /\ op' = NoOp
      BY <1>1, <2>1, <2>3 DEF Registry
    <3>2. Agreed(reg', {})
      BY <3>1 DEF Agreed, Agrees
    <3> QED
      BY <3>1, <3>2, AgreeEnds
  <2>4. CASE read /\ ~odd(looked)
    BY <2>1, <2>4 DEF AgreeInv, Serving, Written, At
  <2> QED
    BY <2>2, <2>3, <2>4
<1>3. ASSUME NEW e \in Entries, BootEntry(e) PROVE AgreeInv'
  <2>1. op \in OpBoot /\ up' = "boot"
    BY <1>3 DEF BootEntry, TypeInv, BootInv
  <2>2. op'.pc = "boot"
    BY <1>3, <2>1 DEF BootEntry, OpBoot
  <2> QED
    BY <2>1, <2>2 DEF AgreeInv, Serving, Written, At
<1>4. ASSUME NEW e \in Entries, BootAborted(e) PROVE AgreeInv'
  BY <1>1, <1>4, AgreeEnds, AgreedUntrusted DEF BootAborted
<1>5. CASE BootFinish
  <2>1. op' = NoOp
    BY <1>5 DEF BootFinish
  <2>2. CASE reg' = Untrusted(reg)
    BY <1>1, <2>1, <2>2, AgreeEnds, AgreedUntrusted
  <2>3. CASE reg' = [reg EXCEPT !.active = op.keep, !.durable = op.keep]
    <3>1. reg'.active = reg'.durable
      BY <1>1, <2>3 DEF Registry
    <3>2. Agreed(reg', {})
      BY <3>1 DEF Agreed, Agrees
    <3> QED
      BY <2>1, <3>2, AgreeEnds
  <2> QED
    BY <1>5, <2>2, <2>3 DEF BootFinish
<1> QED
  BY <1>2, <1>3, <1>4, <1>5 DEF Boot

\* Steps that leave the registry and the operation alone.
Quiet ==
    \/ \E e \in Policy, l \in Logons : Authorize(e, l) \/ AlreadyUnmounted(e, l)
    \/ \E e \in Entries, l \in Logons : EnrollPrepare(e, l)
    \/ \E e \in Policy, accounts \in SUBSET Users :
         ChangePolicy(e, accounts) \/ SaveAccessDirectory(e, accounts)
    \/ \E l \in Logons : SessionChange(l) \/ LogonEnds(l)
    \/ SessionCleanupEnds \/ Stop \/ UNCHANGED vars
    \/ \E s \in Slots : ClosedOutside(s) \/ OpenedOutside(s)

LEMMA QuietFacts ==
    ASSUME Quiet PROVE UNCHANGED <<reg, op>> /\ (Serving' => Serving)
<1>1. CASE Stop
  BY <1>1 DEF Stop, Idle, Serving
<1>2. CASE UNCHANGED vars
  BY <1>2 DEF vars, Serving
<1> QED
  BY <1>1, <1>2 DEF Quiet, Authorize, AlreadyUnmounted, EnrollPrepare, ChangePolicy,
     SaveAccessDirectory, SessionChange, LogonEnds, SessionCleanupEnds,
     ClosedOutside, OpenedOutside, Serving

\* Every step is one of these.
LEMMA NextCases ==
    ASSUME [Next]_vars
    PROVE  \/ Quiet \/ Boot
           \/ \E e \in Entries, l \in Logons :
                MountRefused(e, l) \/ MountDeclined(e, l) \/ MountOpen(e, l)
                \/ Dismount(e, l)
           \/ MountRejected \/ MountRecord \/ MountDiscard \/ MountUndo \/ MountResume
           \/ Shut \/ ClientFinish \/ MemberFinish \/ EnrollMark \/ EnrollCall
           \/ \E e \in Entries : SessionCleanup(e) \/ StopNext(e)
           \/ StopExit \/ Crash \/ Reboot
BY DEF Next, Step, Request, Service, Outside, Quiet

LEMMA NextAgree ==
    ASSUME TypeInv, AgreeInv, [Next]_vars PROVE AgreeInv'
<1>1. CASE Quiet
  BY <1>1, QuietFacts, AgreeSame
<1>2. CASE StopExit \/ Crash \/ Reboot
  BY <1>2, ExitsAgree DEF StopExit, Crash, Reboot
<1> QED
  BY <1>1, <1>2, NextCases, BootAgree, MountAgree, DismountAgree,
     MountRejectedAgree, MountRecordAgree, MountDiscardAgree, MountUndoAgree,
     MountResumeAgree, ShutAgree, FinishAgree, EnrollMarkAgree, EnrollCallAgree,
     ServiceDismountAgree

\* A new broker has nothing to agree about.
LEMMA InitAgree == Init => AgreeInv
<1> SUFFICES ASSUME Init PROVE AgreeInv
  OBVIOUS
<1>1. Agreed(reg, Busy)
  BY DEF Init, EmptyRegistry, NoTable, Agreed, Agrees
<1>2. Written
  BY DEF Init, Written, At
<1> QED
  BY <1>1, <1>2 DEF AgreeInv

\* Between operations the map of active mounts and the registry file name the
\* same mounts, but for those recovery knows it has to write or remove: for any
\* vaults, slots and number of failures, the reinsertion on every error path,
\* the two pending sets and the repair of recovery_allows_entry lose nothing.
THEOREM RegistryTheorem == Spec => []RegistryAgrees
<1>1. TypeInv /\ AgreeInv => RegistryAgrees
  <2> SUFFICES ASSUME TypeInv, AgreeInv, Idle, ~reg.untrusted,
                      NEW e \in Entries \ (reg.persist \cup reg.removal)
               PROVE  Agrees(reg, e)
    BY DEF RegistryAgrees, Agrees
  <2>1. Agreed(reg, {})
    BY IdleAgreed DEF Idle, Serving
  <2> QED
    BY <2>1 DEF Agreed, ReconcileRefused
<1>2. TypeInv /\ AgreeInv /\ [Next]_vars => (TypeInv /\ AgreeInv)'
  BY NextStep, NextAgree
<1>3. Init => TypeInv /\ AgreeInv
  BY InitType, InitAgree
<1> QED
  BY <1>1, <1>2, <1>3, PTL DEF Spec


-----------------------------------------------------------------------------
(* Volumes.  A volume number is used once; a record names the volume the     *)
(* broker opened for it, and no other volume of the same vault is open while *)
(* the record exists anywhere: in the map, in the file, or in the hands of   *)
(* an operation or of boot cleanup.                                          *)

VolumeInv ==
    /\ \E k \in 0 .. MaxGen : Opened = 1 .. k
    /\ \A s \in Slots : slots[s] # 0 => slots[s] \in Opened

\* The record m of entry e in a driver whose slots are `held` and whose volumes
\* belong to `whose`.  The identity it recorded is that of its vault, or of a
\* container another program put in the slot before it was read.
Fits(held, whose, e, m) ==
    /\ whose[m.vol] = e
    /\ m.id # 0 => whose[m.id] \in {e, Foreign}
    /\ \A s \in Slots : held[s] # 0 /\ whose[held[s]] = e
                            => s = m.slot /\ held[s] = m.vol

Sound(held, whose, table) ==
    \A e \in Entries : table[e] # NoMount => Fits(held, whose, e, table[e])

RegSound(r) == Sound(slots, volumes, r.active) /\ Sound(slots, volumes, r.durable)

RecordInv == RegSound(reg)

\* The slot of the operation in progress holds its vault or a stranger, and a
\* vault that was found closed stays closed.
OpSound(held, whose, o) ==
    /\ Fits(held, whose, o.e, o.m)
    /\ held[o.m.slot] # 0 => whose[held[o.m.slot]] \in {o.e, Foreign}
    /\ o.live \/ \A s \in Slots : held[s] # 0 => whose[held[s]] # o.e

OpInv ==
    /\ op \in OpMount => OpSound(slots, volumes, op)
    /\ up = "boot" => Sound(slots, volumes, op.keep)

\* A step of the driver that opens no vault.
DriverStep ==
    /\ \A g \in Opened : volumes'[g] = volumes[g]
    /\ \A s \in Slots : \/ slots'[s] = slots[s] \/ slots'[s] = 0
                        \/ volumes'[slots'[s]] = Foreign
    /\ alias' \subseteq alias

\* The next volume number is new.
LEMMA FreshVolume ==
    ASSUME TypeOK, VolumeInv, NEW g \in Gens, g = Cardinality(Opened) + 1
    PROVE  g \notin Opened /\ g \in 0 .. MaxGen /\ Opened \cup {g} = 1 .. g
<1>1. PICK k \in 0 .. MaxGen : Opened = 1 .. k
  BY DEF VolumeInv
<1>2. Cardinality(1 .. k) = k
  BY <1>1, BoundsAssumption, FS_Interval
<1>3. g = k + 1 /\ k \in Nat
  BY <1>1, <1>2, BoundsAssumption
<1>4. g \in 0 .. MaxGen
  BY BoundsAssumption DEF Gens
<1>5. g \notin 1 .. k /\ (1 .. k) \cup {g} = 1 .. g
  BY <1>3
<1> QED
  BY <1>1, <1>4, <1>5

\* Opening a container gives it the next number.
Places(s, g, e) ==
    /\ g = Cardinality(Opened) + 1
    /\ slots' = [slots EXCEPT ![s] = g]
    /\ volumes' = [volumes EXCEPT ![g] = e]

LEMMA OpenVolume ==
    ASSUME TypeOK, VolumeInv, NEW g \in Gens, NEW s \in Slots, NEW e, e # NoMount,
           Places(s, g, e)
    PROVE  /\ VolumeInv'
           /\ g \notin Opened /\ g # 0 /\ volumes'[g] = e
           /\ \A h \in Opened : volumes'[h] = volumes[h]
           /\ slots'[s] = g /\ \A t \in Slots \ {s} : slots'[t] = slots[t]
<1>1. g \notin Opened /\ g \in 0 .. MaxGen /\ Opened \cup {g} = 1 .. g
  BY FreshVolume DEF Places
<1>2. g # 0
  BY DEF Gens
<1>3. /\ volumes'[g] = e /\ \A h \in Gens \ {g} : volumes'[h] = volumes[h]
      /\ slots'[s] = g /\ \A t \in Slots \ {s} : slots'[t] = slots[t]
  BY DEF TypeOK, Places
<1>4. Opened' = Opened \cup {g}
  BY <1>2, <1>3 DEF Opened
<1>5. VolumeInv'
  <2>1. \E k \in 0 .. MaxGen : Opened' = 1 .. k
    BY <1>1, <1>4
  <2>2. \A t \in Slots : slots'[t] # 0 => slots'[t] \in Opened'
    BY <1>3, <1>4 DEF VolumeInv
  <2> QED
    BY <2>1, <2>2 DEF VolumeInv
<1> QED
  BY <1>1, <1>2, <1>3, <1>5 DEF Opened

\* Closing a volume, or nothing at all.
LEMMA CloseVolume ==
    ASSUME TypeOK, VolumeInv, volumes' = volumes, alias' \subseteq alias,
           \A s \in Slots : slots'[s] \in {slots[s], 0}
    PROVE  VolumeInv' /\ DriverStep
<1>1. Opened' = Opened
  BY DEF Opened
<1> QED
  BY <1>1 DEF VolumeInv, DriverStep

LEMMA ClosesVolume ==
    ASSUME TypeOK, NEW m \in Mount, NEW ok, NEW shut \in BOOLEAN,
           NEW clean \in BOOLEAN, Closes(m, ok, shut, clean)
    PROVE  /\ \A s \in Slots : slots'[s] = slots[s] \/ (slots'[s] = 0 /\ s = m.slot)
           /\ \A s \in Slots : slots'[s] \in {slots[s], 0}
           /\ alias' \subseteq alias
           /\ clean => m.vol \notin alias'
           /\ slots'[m.slot] \in {slots[m.slot], 0}
<1>1. m.slot \in Slots
  BY DEF Mount
<1> QED
  BY <1>1 DEF Closes, TypeOK

\* Boot cleanup calls the broker for the record of its entry, and drops the
\* record only of a volume it saw closed and whose letter is gone.
LEMMA BootEntryCases ==
    ASSUME TypeInv, NEW e \in Entries, BootEntry(e)
    PROVE  /\ reg.active[e] \in Mount /\ ~Unknown(reg.active[e])
           /\ op \in OpBoot /\ e \in op.todo
           /\ \E ok, shut, clean \in BOOLEAN : Closes(reg.active[e], ok, shut, clean)
           /\ \E x \in MaybeMount :
                /\ op' = [op EXCEPT !.todo = @ \ {e}, !.keep[e] = x]
                /\ x = NoMount => /\ reg.active[e].vol \notin alias'
                                  /\ slots'[reg.active[e].slot] = 0
                /\ x # NoMount => /\ x.vol = reg.active[e].vol
                                  /\ x.id = reg.active[e].id
                                  /\ x.slot = reg.active[e].slot
<1> DEFINE m == reg.active[e]
           over(known) == known /\ m.logon \in ended
           private(known) == e \in PerUser /\ over(known)
           empty(looked) == looked /\ slots'[m.slot] = 0
           privateClean(known, looked, cleaned) ==
               private(known) /\ empty(looked) /\ cleaned
           machineClean(cleaned) == /\ e \notin PerUser /\ slots[m.slot] = 0
                                    /\ LetterGone(m, alias') /\ cleaned
           closed(ok, known, looked, cleaned) ==
               IF private(known) THEN privateClean(known, looked, cleaned)
               ELSE (ok /\ empty(looked)) \/ machineClean(cleaned)
           kept(ok, known, looked, cleaned) ==
               [m EXCEPT !.cleanup = TRUE,
                         !.absent = closed(ok, known, looked, cleaned)
                                    \/ empty(looked)]
<1>1. op \in OpBoot /\ e \in op.todo
  BY DEF TypeInv, BootInv, BootEntry
<1>2. m \in Mount
  BY RecordType DEF BootEntry, TypeInv, TypeOK, BootInv, Recorded
<1>3. PICK ok \in BOOLEAN, shut \in BOOLEAN, clean \in BOOLEAN,
           looked \in BOOLEAN, cleaned \in BOOLEAN, known \in BOOLEAN :
        /\ ~Unknown(m)
        /\ Closes(m, ok, shut, clean)
        /\ IF private(known) THEN clean = privateClean(known, looked, cleaned)
           ELSE ok => clean
        /\ Spend(CloseCost(m, ok, shut) + Cost(looked) + Cost(cleaned)
                 + Cost(known))
        /\ op' = [op EXCEPT !.todo = @ \ {e},
                            !.keep[e] = IF closed(ok, known, looked, cleaned)
                                           /\ ~RequiresPause(e, m)
                                        THEN NoMount
                                        ELSE kept(ok, known, looked, cleaned)]
  BY Zenon DEF BootEntry
<1>4. /\ slots[m.slot] = 0 => slots'[m.slot] = 0
      /\ clean => m.vol \notin alias'
  <2>1. TypeOK /\ Closes(m, ok, shut, clean)
    BY <1>3 DEF TypeInv
  <2> HIDE DEF m
  <2>2. slots'[m.slot] \in {slots[m.slot], 0} /\ (clean => m.vol \notin alias')
    BY <1>2, <2>1, ClosesVolume
  <2> QED
    BY <2>2
<1>5. closed(ok, known, looked, cleaned) => m.vol \notin alias' /\ slots'[m.slot] = 0
  BY <1>3, <1>4 DEF LetterGone
<1> DEFINE k == kept(ok, known, looked, cleaned)
<1>6. k \in Mount /\ k.vol = m.vol /\ k.id = m.id /\ k.slot = m.slot
  <2>1. (closed(ok, known, looked, cleaned) \/ empty(looked)) \in BOOLEAN
    OBVIOUS
  <2> HIDE DEF closed, empty
  <2> QED
    BY <1>2, <2>1 DEF Mount
<1> DEFINE x == IF closed(ok, known, looked, cleaned) /\ ~RequiresPause(e, m)
                THEN NoMount ELSE k
<1>7. op' = [op EXCEPT !.todo = @ \ {e}, !.keep[e] = x]
  BY <1>3, Zenon
<1> HIDE DEF closed, k
<1>8. /\ x \in MaybeMount
      /\ x = NoMount => m.vol \notin alias' /\ slots'[m.slot] = 0
      /\ x # NoMount => x.vol = m.vol /\ x.id = m.id /\ x.slot = m.slot
  BY <1>5, <1>6, SentinelsAssumption DEF MaybeMount
<1>9. \E ok1, shut1, clean1 \in BOOLEAN : Closes(m, ok1, shut1, clean1)
  BY <1>3
<1> HIDE DEF x
<1> QED
  BY <1>1, <1>2, <1>3, <1>7, <1>8, <1>9

\* Only a mount opens a vault.
LEMMA NextDriver ==
    ASSUME TypeInv, VolumeInv, [Next]_vars,
           ~\E e \in Entries, l \in Logons : MountOpen(e, l)
    PROVE  VolumeInv' /\ DriverStep
<1>0. TypeOK
  BY DEF TypeInv
<1>1. CASE UNCHANGED driver
  BY <1>0, <1>1, CloseVolume DEF driver
<1>2. CASE Shut \/ MountDiscard \/ MountUndo
  <2>1. op.m \in Mount /\ volumes' = volumes
    BY <1>2, OpMountType DEF Shut, MountDiscard, MountUndo, OpMount, At
  <2>2. PICK ok \in BOOLEAN, shut \in BOOLEAN, clean \in BOOLEAN :
          Closes(op.m, ok, shut, clean)
    BY <1>2, MountDiscardCases, MountUndoCases DEF Shut
  <2> QED
    BY <1>0, <2>1, <2>2, ClosesVolume, CloseVolume
<1>3. CASE MemberFinish
  <2>1. slots' = slots /\ volumes' = volumes /\ alias' \subseteq alias
    BY <1>3 DEF MemberFinish
  <2> QED
    BY <1>0, <2>1, CloseVolume
<1>4. ASSUME NEW e \in Entries, BootEntry(e) PROVE VolumeInv' /\ DriverStep
  <2>1. reg.active[e] \in Mount /\ volumes' = volumes
    BY <1>4, RecordType DEF BootEntry, TypeInv, TypeOK, BootInv, Recorded
  <2>2. PICK ok \in BOOLEAN, shut \in BOOLEAN, clean \in BOOLEAN :
          Closes(reg.active[e], ok, shut, clean)
    BY <1>4, BootEntryCases
  <2> QED
    BY <1>0, <2>1, <2>2, ClosesVolume, CloseVolume
<1>5. CASE Reboot
  <2>1. volumes' = volumes /\ alias' = {} /\ slots' = [s \in Slots |-> 0]
    BY <1>5 DEF Reboot
  <2> QED
    BY <1>0, <2>1, CloseVolume
<1>6. ASSUME NEW s \in Slots, ClosedOutside(s) PROVE VolumeInv' /\ DriverStep
  <2>1. volumes' = volumes /\ alias' = alias /\ slots' = [slots EXCEPT ![s] = 0]
    BY <1>6 DEF ClosedOutside
  <2> QED
    BY <1>0, <2>1, CloseVolume DEF TypeOK
<1>7. ASSUME NEW s \in Slots, OpenedOutside(s) PROVE VolumeInv' /\ DriverStep
  <2>1. PICK g \in Gens : Places(s, g, Foreign)
    BY <1>7 DEF OpenedOutside, Places
  <2>2. alias' = alias
    BY <1>7 DEF OpenedOutside
  <2>3. Foreign # NoMount
    BY SentinelsAssumption
  <2>4. /\ VolumeInv' /\ volumes'[g] = Foreign
        /\ \A h \in Opened : volumes'[h] = volumes[h]
        /\ slots'[s] = g /\ \A t \in Slots \ {s} : slots'[t] = slots[t]
    BY <1>0, <2>1, <2>3, OpenVolume
  <2> QED
    BY <2>2, <2>4 DEF DriverStep
<1>8. CASE Quiet
  <2>1. UNCHANGED driver \/ \E s \in Slots : ClosedOutside(s) \/ OpenedOutside(s)
    BY <1>8 DEF Quiet, Authorize, AlreadyUnmounted, EnrollPrepare, ChangePolicy,
       SaveAccessDirectory, SessionChange, LogonEnds, SessionCleanupEnds, Stop, vars
  <2> QED
    BY <1>1, <1>6, <1>7, <2>1
<1>9. CASE Boot
  <2>1. UNCHANGED driver \/ \E e \in Entries : BootEntry(e)
    BY <1>9 DEF Boot, BootLoad, BootAborted, BootFinish
  <2> QED
    BY <1>1, <1>4, <2>1
<1>10. ASSUME NEW e \in Entries, NEW l \in Logons,
              MountRefused(e, l) \/ MountDeclined(e, l) \/ Dismount(e, l)
              \/ SessionCleanup(e) \/ StopNext(e)
       PROVE  UNCHANGED driver
  BY <1>10 DEF MountRefused, MountDeclined, Dismount, SessionCleanup, StopNext
<1>11. ASSUME NEW e \in Entries, SessionCleanup(e) \/ StopNext(e)
       PROVE  UNCHANGED driver
  BY <1>11 DEF SessionCleanup, StopNext
<1>12. ASSUME MountRejected \/ MountRecord \/ MountResume \/ ClientFinish
              \/ EnrollMark \/ EnrollCall \/ StopExit \/ Crash
       PROVE  UNCHANGED driver
  BY <1>12 DEF MountRejected, MountRecord, MountResume, ClientFinish, EnrollMark,
     EnrollCall, StopExit, Crash
<1> QED
  BY <1>1, <1>2, <1>3, <1>5, <1>8, <1>9, <1>10, <1>11, <1>12, NextCases


\* A record stays true of its volume while no vault is opened.
LEMMA FitsStep ==
    ASSUME TypeOK, VolumeInv, DriverStep, NEW e \in Entries, NEW m \in Mount,
           Fits(slots, volumes, e, m)
    PROVE  Fits(slots', volumes', e, m)
<1>1. m.vol \in Gens /\ m.id \in 0 .. MaxGen /\ m.slot \in Slots
  BY DEF Mount
<1>2. e # NoMount /\ e # Foreign /\ Foreign # NoMount
  BY EntriesAssumption, SentinelsAssumption
<1>3. volumes'[m.vol] = e
  BY <1>1, <1>2 DEF Fits, DriverStep, Opened
<1>4. m.id # 0 => volumes'[m.id] \in {e, Foreign}
  <2>1. m.id # 0 => m.id \in Gens
    BY <1>1, BoundsAssumption DEF Gens
  <2> QED
    BY <1>2, <2>1 DEF Fits, DriverStep, Opened
<1>5. ASSUME NEW s \in Slots, slots'[s] # 0, volumes'[slots'[s]] = e
      PROVE  s = m.slot /\ slots'[s] = m.vol
  <2>1. slots'[s] = slots[s] /\ slots[s] \in Opened
    BY <1>2, <1>5 DEF DriverStep, VolumeInv
  <2>2. volumes[slots[s]] = e
    BY <1>5, <2>1 DEF DriverStep
  <2> QED
    BY <1>5, <2>1, <2>2 DEF Fits
<1> QED
  BY <1>3, <1>4, <1>5 DEF Fits

\* So do the records of a table.
LEMMA SoundStep ==
    ASSUME TypeOK, VolumeInv, DriverStep, NEW table \in Table,
           Sound(slots, volumes, table)
    PROVE  Sound(slots', volumes', table)
<1> SUFFICES ASSUME NEW e \in Entries, table[e] # NoMount
             PROVE  Fits(slots', volumes', e, table[e])
  BY DEF Sound
<1>1. table[e] \in Mount /\ Fits(slots, volumes, e, table[e])
  BY DEF Table, Sound
<1> QED
  BY <1>1, FitsStep

\* And the one of an operation.
LEMMA OpSoundStep ==
    ASSUME TypeOK, VolumeInv, DriverStep, NEW o \in OpMount,
           OpSound(slots, volumes, o)
    PROVE  OpSound(slots', volumes', o)
<1>1. o.e \in Entries /\ o.m \in Mount /\ o.m.slot \in Slots /\ o.e # Foreign
  BY EntriesAssumption DEF OpMount, Mount
<1>2. Fits(slots', volumes', o.e, o.m)
  BY <1>1, FitsStep DEF OpSound
<1>3. \A s \in Slots : slots'[s] # 0 =>
        \/ volumes'[slots'[s]] = Foreign
        \/ slots'[s] = slots[s] /\ volumes'[slots'[s]] = volumes[slots[s]]
  BY DEF DriverStep, VolumeInv
<1>4. slots'[o.m.slot] # 0 => volumes'[slots'[o.m.slot]] \in {o.e, Foreign}
  BY <1>1, <1>3 DEF OpSound
<1>5. o.live \/ \A s \in Slots : slots'[s] # 0 => volumes'[slots'[s]] # o.e
  BY <1>1, <1>3 DEF OpSound
<1> QED
  BY <1>2, <1>4, <1>5 DEF OpSound

\* What a step has to show: its new records are true of the driver as it was.
Carried ==
    /\ RegSound(reg')
    /\ op' \in OpMount => OpSound(slots, volumes, op')
    /\ up' = "boot" => Sound(slots, volumes, op'.keep)

LEMMA CarriedStep ==
    ASSUME TypeInv, TypeInv', VolumeInv, DriverStep, Carried
    PROVE  RecordInv' /\ OpInv'
<1>1. TypeOK /\ reg'.active \in Table /\ reg'.durable \in Table
  BY DEF TypeInv, TypeOK, Registry
<1>2. Sound(slots', volumes', reg'.active) /\ Sound(slots', volumes', reg'.durable)
  BY <1>1, SoundStep DEF Carried, RegSound
<1>3. op' \in OpMount => OpSound(slots', volumes', op')
  BY <1>1, OpSoundStep DEF Carried
<1>4. up' = "boot" => Sound(slots', volumes', op'.keep)
  <2>1. up' = "boot" => op'.keep \in Table
    BY DEF TypeInv, BootInv, OpBoot
  <2> QED
    BY <1>1, <2>1, SoundStep DEF Carried
<1> QED
  BY <1>2, <1>3, <1>4 DEF RecordInv, RegSound, OpInv

-----------------------------------------------------------------------------
(* The writers of the registry and the volumes of its records.              *)

\* The flags of a record say nothing of its volume.
LEMMA FitsSame ==
    ASSUME NEW e, NEW m, NEW n, Fits(slots, volumes, e, m),
           n.vol = m.vol, n.id = m.id, n.slot = m.slot
    PROVE  Fits(slots, volumes, e, n)
BY DEF Fits

LEMMA SoundPut ==
    ASSUME NEW r \in Registry, RegSound(r), NEW e \in Entries, NEW m,
           m = NoMount \/ Fits(slots, volumes, e, m)
    PROVE  RegSound(Put(r, e, m))
<1>1. Put(r, e, m).active = [r.active EXCEPT ![e] = m]
      /\ Put(r, e, m).durable = r.durable
  BY DEF Put, Registry
<1>2. r.active \in [Entries -> Mount \cup {NoMount}]
  BY DEF Registry, Table
<1>3. Sound(slots, volumes, Put(r, e, m).active)
  BY <1>1, <1>2 DEF Sound, RegSound
<1> QED
  BY <1>1, <1>3 DEF RegSound

LEMMA SoundPersisted ==
    ASSUME NEW r \in Registry, RegSound(r) PROVE RegSound(Persisted(r))
<1>1. Persisted(r).active = r.active /\ Persisted(r).durable = r.active
  BY DEF Persisted, Registry
<1> QED
  BY <1>1 DEF RegSound

\* Two registries with the same tables.
LEMMA SoundSame ==
    ASSUME NEW r, RegSound(r), NEW q, q.active = r.active, q.durable = r.durable
    PROVE  RegSound(q)
BY DEF RegSound

LEMMA SoundUntrusted ==
    ASSUME NEW r \in Registry, RegSound(r) PROVE RegSound(Untrusted(r))
<1>1. Untrusted(r).active = r.active /\ Untrusted(r).durable = r.durable
  BY DEF Untrusted, Registry
<1> QED
  BY <1>1, SoundSame

LEMMA SoundRetained ==
    ASSUME NEW r \in Registry, RegSound(r), NEW e \in Entries, NEW m \in Mount,
           Fits(slots, volumes, e, m), NEW written \in BOOLEAN
    PROVE  RegSound(Retained(r, e, m, written))
<1> DEFINE p == Put(r, e, m)
           q == [p EXCEPT !.persist = @ \cup {e}]
<1>1. p \in Registry /\ RegSound(p)
  BY PutType, SoundPut DEF MaybeMount
<1> HIDE DEF p
<1>2. q.active = p.active /\ q.durable = p.durable
  BY <1>1 DEF Registry
<1>3. RegSound(q)
  BY <1>1, <1>2, SoundSame
<1>4. RegSound(Persisted(p))
  BY <1>1, SoundPersisted
<1> QED
  BY <1>3, <1>4 DEF Retained, p

LEMMA SoundCleared ==
    ASSUME NEW r \in Registry, RegSound(r), NEW e \in Entries,
           NEW written \in BOOLEAN
    PROVE  RegSound(Cleared(r, e, written))
<1> DEFINE q == [r EXCEPT !.removal = @ \cup {e}]
<1>1. Put(r, e, NoMount) \in Registry /\ RegSound(Put(r, e, NoMount))
  BY PutType, SoundPut DEF MaybeMount
<1>2. RegSound(Persisted(Put(r, e, NoMount)))
  BY <1>1, SoundPersisted
<1>3. q.active = r.active /\ q.durable = r.durable
  BY DEF Registry
<1>4. RegSound(q)
  BY <1>3, SoundSame
<1> QED
  BY <1>2, <1>4 DEF Cleared

LEMMA SoundRetired ==
    ASSUME NEW r \in Registry, RegSound(r), NEW e \in Entries,
           NEW written \in BOOLEAN
    PROVE  RegSound(Retired(r, e, written))
<1> DEFINE q == [r EXCEPT !.persist = @ \cup {e}]
<1>1. RegSound(Persisted(r))
  BY SoundPersisted
<1>2. q.active = r.active /\ q.durable = r.durable
  BY DEF Registry
<1>3. RegSound(q)
  BY <1>2, SoundSame
<1> QED
  BY <1>1, <1>3 DEF Retired

LEMMA SoundReconciled ==
    ASSUME NEW r \in Registry, RegSound(r), NEW known \in BOOLEAN
    PROVE  RegSound(Reconciled(r, known))
<1> DEFINE table == Swept(r, known)
           p == [r EXCEPT !.active = table]
           q == IF table = r.active THEN r ELSE Persisted(p)
           trusted == [q EXCEPT !.untrusted = FALSE, !.recoverable = FALSE]
<1>1. p \in Registry /\ p.active = table /\ p.durable = r.durable
  BY SweptType DEF Registry
<1>2. Sound(slots, volumes, table)
  <2> SUFFICES ASSUME NEW e \in Entries, table[e] # NoMount
               PROVE  Fits(slots, volumes, e, table[e])
    BY DEF Sound
  <2>1. CASE table[e] = r.active[e]
    BY <2>1 DEF RegSound, Sound
  <2>2. CASE table[e] # r.active[e]
    <3>1. e \in Missing(r) /\ table[e] = [r.active[e] EXCEPT !.cleanup = TRUE, !.absent = TRUE]
      BY <2>2 DEF Swept
    <3>2. r.active[e] # NoMount
      BY <3>1 DEF Missing, Recorded
    <3>3. r.active[e] \in Mount
      BY <3>2, RecordType
    <3>4. /\ table[e].vol = r.active[e].vol /\ table[e].id = r.active[e].id
          /\ table[e].slot = r.active[e].slot
      BY <3>1, <3>3 DEF Mount
    <3>5. Fits(slots, volumes, e, r.active[e])
      BY <3>2 DEF RegSound, Sound
    <3> HIDE DEF table
    <3> QED
      BY <3>4, <3>5, FitsSame
  <2> QED
    BY <2>1, <2>2
<1> HIDE DEF table
<1>3. RegSound(p)
  BY <1>1, <1>2 DEF RegSound
<1>4. q \in Registry /\ RegSound(q)
  BY <1>1, <1>3, SoundPersisted, PersistedType
<1>5. Reconciled(r, known) = IF q.recoverable /\ Accounted(table)
                             THEN trusted ELSE q
  BY DEF Reconciled, table
<1> HIDE DEF q
<1>6. trusted.active = q.active /\ trusted.durable = q.durable
  BY <1>4 DEF Registry
<1>7. RegSound(trusted)
  BY <1>4, <1>6, SoundSame
<1> QED
  BY <1>4, <1>5, <1>7

LEMMA SoundAdmitted ==
    ASSUME reg \in Registry, RegSound(reg), NEW e \in Entries, NEW known \in BOOLEAN
    PROVE  RegSound(Admitted(e, known))
<1> DEFINE q == Reconciled(reg, known)
           kept == [f \in Entries |-> IF f \in q.removal THEN NoMount
                                                         ELSE q.active[f]]
           p == [q EXCEPT !.removal = {}, !.active = kept]
<1>1. q \in Registry /\ RegSound(q)
  BY ReconciledType, SoundReconciled
<1> HIDE DEF q
<1>2. kept \in Table
  BY <1>1 DEF Registry, Table
<1>3. p \in Registry /\ p.active = kept /\ p.durable = q.durable
  BY <1>1, <1>2 DEF Registry
<1>4. Sound(slots, volumes, kept)
  BY <1>1 DEF Sound, RegSound
<1>5. RegSound(p)
  BY <1>1, <1>3, <1>4 DEF RegSound
<1>6. RegSound(Repaired(q))
  BY <1>3, <1>5, SoundPersisted DEF Repaired
<1> QED
  BY <1>1, <1>6 DEF Admitted, q


-----------------------------------------------------------------------------
(* RecordInv and OpInv, action by action.                                   *)

\* A step that ends its operation.
LEMMA CarriedEnds ==
    ASSUME RegSound(reg'), op' = NoOp, up' # "boot" PROVE Carried
BY SentinelsAssumption DEF Carried

\* A step that goes on.
LEMMA CarriedGoes ==
    ASSUME RegSound(reg'), OpSound(slots, volumes, op'), up' # "boot" PROVE Carried
BY DEF Carried

\* A step that leaves the registry and the operation alone.
LEMMA QuietCarried ==
    ASSUME RecordInv, OpInv, Quiet PROVE Carried
<1>1. UNCHANGED <<reg, op>> /\ (up' = "boot" => up = "boot")
  <2>1. CASE Stop
    BY <2>1 DEF Stop
  <2>2. CASE UNCHANGED vars
    BY <2>2 DEF vars
  <2> QED
    BY <2>1, <2>2 DEF Quiet, Authorize, AlreadyUnmounted, EnrollPrepare, ChangePolicy,
       SaveAccessDirectory, SessionChange, LogonEnds, SessionCleanupEnds,
       ClosedOutside, OpenedOutside
<1> QED
  BY <1>1 DEF Carried, RecordInv, OpInv

LEMMA MountRefusedCarried ==
    ASSUME TypeInv, RecordInv, NEW e \in Entries, NEW l \in Logons,
           MountRefused(e, l) \/ MountDeclined(e, l)
    PROVE  Carried
<1>1. op' = NoOp /\ up' # "boot" /\ reg \in Registry /\ RegSound(reg)
  BY DEF MountRefused, MountDeclined, Idle, TypeInv, TypeOK, RecordInv
<1>2. RegSound(reg')
  <2>1. CASE MountRefused(e, l)
    BY <1>1, <2>1, SoundReconciled DEF MountRefused
  <2>2. CASE MountDeclined(e, l)
    BY <1>1, <2>2, SoundAdmitted DEF MountDeclined
  <2> QED
    BY <2>1, <2>2
<1> QED
  BY <1>1, <1>2, CarriedEnds

LEMMA MountRejectedCarried ==
    ASSUME TypeInv, RecordInv, OpInv, MountRejected PROVE Carried
<1>1. op \in OpMount /\ up # "boot"
  BY OpMountType DEF MountRejected
<1>2. op'.e = op.e /\ op'.m = op.m /\ op'.live = op.live /\ up' # "boot" /\ reg' = reg
  BY <1>1 DEF MountRejected, OpMount
<1>3. OpSound(slots, volumes, op')
  BY <1>1, <1>2 DEF OpInv, OpSound
<1> QED
  BY <1>2, <1>3, CarriedGoes DEF RecordInv

\* The identity that is recorded is what the slot holds: the vault, or a
\* stranger that took its place.
LEMMA MountRecordCarried ==
    ASSUME TypeInv, RecordInv, OpInv, MountRecord PROVE Carried
<1>1. op \in OpMount /\ op.e \in Entries /\ op.m \in Mount /\ up # "boot"
      /\ reg \in Registry /\ up' = up
  BY OpMountType DEF MountRecord, OpMount, TypeInv, TypeOK
<1>2. OpSound(slots, volumes, op)
  BY <1>1 DEF OpInv
<1> DEFINE seen(looked) == IF looked THEN slots[op.m.slot] ELSE 0
           m(looked) == [op.m EXCEPT !.id = seen(looked)]
<1>3. PICK looked \in BOOLEAN, written \in BOOLEAN, again \in BOOLEAN :
        /\ reg' = IF seen(looked) # 0 /\ written THEN Persisted(Put(reg, op.e, m(looked)))
                  ELSE IF seen(looked) # 0 /\ op.e \notin Policy THEN Put(reg, op.e, m(looked))
                  ELSE reg
        /\ op' = IF seen(looked) = 0 THEN [op EXCEPT !.pc = "unseen"]
                 ELSE IF ~written
                      THEN [op EXCEPT !.pc = "unsaved", !.m = m(looked)]
                 ELSE IF op.e \in SyncOn
                      THEN [op EXCEPT !.pc = "resume", !.m = m(looked)]
                 ELSE NoOp
  BY Zenon DEF MountRecord
<1>4. m(looked) \in Mount /\ m(looked).vol = op.m.vol /\ m(looked).slot = op.m.slot
      /\ m(looked).id = seen(looked)
  <2>1. seen(looked) \in 0 .. MaxGen /\ op.m.slot \in Slots
    BY <1>1, BoundsAssumption DEF Mount, TypeInv, TypeOK
  <2> QED
    BY <1>1, <2>1 DEF Mount
<1>5. Fits(slots, volumes, op.e, m(looked))
  <2>1. seen(looked) # 0 => volumes[seen(looked)] \in {op.e, Foreign}
    BY <1>2 DEF OpSound
  <2> HIDE DEF m, seen
  <2> QED
    BY <1>2, <1>4, <2>1 DEF OpSound, Fits
<1> HIDE DEF m, seen
<1>6. RegSound(reg')
  <2>1. Put(reg, op.e, m(looked)) \in Registry /\ RegSound(Put(reg, op.e, m(looked)))
    BY <1>1, <1>4, <1>5, PutType, SoundPut DEF MaybeMount, RecordInv
  <2>2. RegSound(Persisted(Put(reg, op.e, m(looked))))
    BY <2>1, SoundPersisted
  <2> QED
    BY <1>3, <2>1, <2>2 DEF RecordInv
<1>7. CASE op' = NoOp
  BY <1>1, <1>6, <1>7, CarriedEnds
<1>8. CASE op' # NoOp
  <2>1. op'.e = op.e /\ op'.live = op.live /\ op'.m \in {op.m, m(looked)}
    BY <1>1, <1>3, <1>4, <1>8 DEF OpMount
  <2>2. OpSound(slots, volumes, op')
    BY <1>2, <1>4, <1>5, <2>1 DEF OpSound
  <2> QED
    BY <1>1, <1>6, <2>2, CarriedGoes
<1> QED
  BY <1>7, <1>8

LEMMA MountDiscardCarried ==
    ASSUME TypeInv, RecordInv, OpInv, MountDiscard PROVE Carried
<1>1. op \in OpMount /\ op.e \in Entries /\ op.m \in Mount /\ up # "boot"
      /\ reg \in Registry /\ up' = up /\ op' = NoOp
  BY OpMountType DEF MountDiscard, OpMount, TypeInv, TypeOK
<1>2. OpSound(slots, volumes, op)
  BY <1>1 DEF OpInv
<1>3. PICK ok \in BOOLEAN, shut \in BOOLEAN, clean \in BOOLEAN, looked \in BOOLEAN :
        /\ Closes(op.m, ok, shut, clean)
        /\ \/ reg' = reg
           \/ reg' = Retained(reg, op.e, Discarded(looked), TRUE)
           \/ reg' = Untrusted(Retained(reg, op.e, Discarded(looked), FALSE))
  BY MountDiscardCases
<1> DEFINE seen == IF looked THEN slots'[op.m.slot] ELSE 0
<1>4. seen \in {slots[op.m.slot], 0} /\ seen \in 0 .. MaxGen
  <2>1. slots'[op.m.slot] \in {slots[op.m.slot], 0}
    BY <1>1, <1>3, ClosesVolume DEF TypeInv
  <2>2. slots[op.m.slot] \in 0 .. MaxGen /\ 0 \in 0 .. MaxGen
    BY <1>1, BoundsAssumption DEF TypeInv, TypeOK, Mount
  <2> QED
    BY <2>1, <2>2
<1>5. /\ Discarded(looked) \in Mount /\ Discarded(looked).vol = op.m.vol
      /\ Discarded(looked).slot = op.m.slot /\ Discarded(looked).id = seen
  <2>1. Discarded(looked) = [op.m EXCEPT !.cleanup = TRUE, !.id = seen]
    BY DEF Discarded
  <2> HIDE DEF seen
  <2> QED
    BY <1>1, <1>4, <2>1 DEF Mount
<1> HIDE DEF seen
<1>6. Fits(slots, volumes, op.e, Discarded(looked))
  BY <1>2, <1>4, <1>5 DEF OpSound, Fits
<1>7. RegSound(reg')
  <2>1. RegSound(Retained(reg, op.e, Discarded(looked), TRUE))
    BY <1>1, <1>5, <1>6, SoundRetained DEF RecordInv
  <2>2. /\ RegSound(Retained(reg, op.e, Discarded(looked), FALSE))
        /\ Retained(reg, op.e, Discarded(looked), FALSE) \in Registry
    BY <1>1, <1>5, <1>6, SoundRetained, RetainedType DEF RecordInv, MaybeMount
  <2>3. RegSound(Untrusted(Retained(reg, op.e, Discarded(looked), FALSE)))
    BY <2>2, SoundUntrusted
  <2> QED
    BY <1>3, <2>1, <2>3 DEF RecordInv
<1> QED
  BY <1>1, <1>7, CarriedEnds

LEMMA MountUndoCarried ==
    ASSUME TypeInv, RecordInv, OpInv, MountUndo PROVE Carried
<1>1. op \in OpMount /\ op.e \in Entries /\ op.m \in Mount /\ up # "boot"
      /\ reg \in Registry /\ up' = up /\ op' = NoOp
  BY OpMountType DEF MountUndo, OpMount, TypeInv, TypeOK
<1>2. PICK written \in BOOLEAN :
        \/ op.e \in Policy /\ reg' = reg
        \/ reg' = Cleared(reg, op.e, written)
        \/ reg' = Retained(Untrusted(reg), op.e, Undone, written)
  BY MountUndoCases
<1>3. /\ Undone \in Mount /\ Undone.vol = op.m.vol /\ Undone.id = op.m.id
      /\ Undone.slot = op.m.slot
  <2>1. (op.m.unresolved /\ op.e \notin Policy) \in BOOLEAN
    OBVIOUS
  <2> QED
    BY <1>1, <2>1 DEF Mount, Undone
<1>4. Fits(slots, volumes, op.e, Undone)
  BY <1>1, <1>3, FitsSame DEF OpInv, OpSound
<1>5. Untrusted(reg) \in Registry /\ RegSound(Untrusted(reg)) /\ RegSound(reg)
  BY <1>1, UntrustedType, SoundUntrusted DEF RecordInv
<1>6. RegSound(reg')
  BY <1>1, <1>2, <1>3, <1>4, <1>5, SoundCleared, SoundRetained
<1> QED
  BY <1>1, <1>6, CarriedEnds

\* The record a Syncthing call leaves.
LEMMA MountResumeCases ==
    ASSUME TypeInv, MountResume
    PROVE  \E m \in Mount :
             /\ m.vol = op.m.vol /\ m.id = op.m.id /\ m.slot = op.m.slot
             /\ \/ reg' = Persisted(Put(reg, op.e, m))
                \/ reg' = Put(reg, op.e, m)
<1>1. op \in OpMount /\ op.e \in Entries /\ op.m \in Mount
  BY OpMountType DEF MountResume, OpMount
<1> DEFINE m(answered, opted) ==
             [AfterResume(op.e, op.m, answered)
                 EXCEPT !.unresolved = @ \/ ~opted]
<1>2. PICK answered \in BOOLEAN, opted \in BOOLEAN :
        \/ reg' = Persisted(Put(reg, op.e, m(answered, opted)))
        \/ reg' = Put(reg, op.e, m(answered, opted))
  BY Zenon DEF MountResume
<1> DEFINE a == AfterResume(op.e, op.m, answered)
<1>3. a \in Mount /\ a.vol = op.m.vol /\ a.id = op.m.id /\ a.slot = op.m.slot
  BY <1>1, AfterResumeType DEF AfterResume, Mount
<1>4. m(answered, opted) = [a EXCEPT !.unresolved = @ \/ ~opted]
  OBVIOUS
<1> HIDE DEF a, m
<1>5. /\ m(answered, opted) \in Mount /\ m(answered, opted).vol = op.m.vol
      /\ m(answered, opted).id = op.m.id /\ m(answered, opted).slot = op.m.slot
  <2>1. (a.unresolved \/ ~opted) \in BOOLEAN
    OBVIOUS
  <2> QED
    BY <1>3, <1>4, <2>1 DEF Mount
<1> QED
  BY <1>2, <1>5

LEMMA SyncCallCarried ==
    ASSUME TypeInv, RecordInv, OpInv, MountResume \/ EnrollCall PROVE Carried
<1>1. op \in OpMount /\ op.e \in Entries /\ op.m \in Mount /\ up # "boot"
      /\ reg \in Registry /\ up' = up /\ op' = NoOp
  BY OpMountType DEF MountResume, EnrollCall, OpMount, TypeInv, TypeOK
<1>2. reg' = reg \/ \E m \in Mount :
             /\ m.vol = op.m.vol /\ m.id = op.m.id /\ m.slot = op.m.slot
             /\ \/ reg' = Persisted(Put(reg, op.e, m))
                \/ reg' = Put(reg, op.e, m)
  <2>1. /\ EnrolledFolder \in Mount /\ EnrolledFolder.vol = op.m.vol
        /\ EnrolledFolder.id = op.m.id /\ EnrolledFolder.slot = op.m.slot
    BY <1>1 DEF EnrolledFolder, Mount
  <2> QED
    BY <2>1, MountResumeCases, EnrollCallCases
<1>3. ASSUME NEW m \in Mount, m.vol = op.m.vol, m.id = op.m.id, m.slot = op.m.slot
      PROVE  RegSound(Put(reg, op.e, m)) /\ RegSound(Persisted(Put(reg, op.e, m)))
  <2>1. Fits(slots, volumes, op.e, m)
    BY <1>1, <1>3, FitsSame DEF OpInv, OpSound
  <2>2. Put(reg, op.e, m) \in Registry /\ RegSound(Put(reg, op.e, m))
    BY <1>1, <2>1, PutType, SoundPut DEF MaybeMount, RecordInv
  <2> QED
    BY <2>2, SoundPersisted
<1>4. RegSound(reg')
  BY <1>2, <1>3 DEF RecordInv
<1> QED
  BY <1>1, <1>4, CarriedEnds


\* A dismount, or an enrolment, takes in hand a record whose slot is empty or
\* holds the identity it recorded.
LEMMA ClosingSound ==
    ASSUME NEW e \in Entries, NEW m \in Mount, Fits(slots, volumes, e, m),
           slots[m.slot] # 0 => slots[m.slot] = m.id,
           NEW pc, NEW l, NEW over
    PROVE  OpSound(slots, volumes, Closing(pc, e, l, m, over))
<1> DEFINE o == Closing(pc, e, l, m, over)
<1>1. o.e = e /\ o.m = m /\ o.live = (slots[m.slot] # 0)
  BY DEF Closing
<1> HIDE DEF o
<1>2. slots[m.slot] # 0 => volumes[slots[m.slot]] \in {e, Foreign}
  BY DEF Fits
<1>3. o.live \/ \A s \in Slots : slots[s] # 0 => volumes[slots[s]] # e
  BY <1>1 DEF Fits
<1>4. OpSound(slots, volumes, o)
  BY <1>1, <1>2, <1>3 DEF OpSound
<1> QED
  BY <1>4 DEF o

LEMMA StartClientCarried ==
    ASSUME NEW r \in Registry, RegSound(r), NEW e \in Entries, NEW l \in Logons,
           NEW cost, r.active[e] # NoMount, StartClient(r, e, l, cost), up' # "boot"
    PROVE  Carried
<1> DEFINE m == AfterPause(e, r.active[e])
<1>1. r.active[e] \in Mount /\ Fits(slots, volumes, e, r.active[e])
  BY RecordType DEF RegSound, Sound
<1>2. m \in Mount /\ Fits(slots, volumes, e, m)
  BY <1>1, AfterPauseType, AfterPauseSame, FitsSame
<1>3. \/ reg' = r /\ op' = NoOp
      \/ reg' = Put(r, e, m) /\ op' = NoOp
      \/ /\ reg' = Put(r, e, NoMount) /\ op' = Closing("client", e, l, m, FALSE)
         /\ ~Unknown(m)
  BY Zenon DEF StartClient
<1> HIDE DEF m
<1>4. RegSound(reg')
  BY <1>2, <1>3, SoundPut
<1>5. ASSUME op' = Closing("client", e, l, m, FALSE), ~Unknown(m)
      PROVE  OpSound(slots, volumes, op')
  <2>1. slots[m.slot] # 0 => slots[m.slot] = m.id
    BY <1>5 DEF Unknown, Matches
  <2> QED
    BY <1>2, <1>5, <2>1, ClosingSound
<1> QED
  BY <1>3, <1>4, <1>5, CarriedEnds, CarriedGoes

LEMMA StartMemberCarried ==
    ASSUME NEW r \in Registry, RegSound(r), NEW e \in Entries, NEW l \in Logons,
           NEW over \in BOOLEAN, NEW cost, r.active[e] # NoMount,
           StartMember(r, e, l, over, cost), up' # "boot"
    PROVE  Carried
<1> DEFINE m == r.active[e]
<1>1. m \in Mount /\ Fits(slots, volumes, e, m)
  BY RecordType DEF RegSound, Sound
<1>2. \/ reg' = r /\ op' = NoOp
      \/ /\ reg' = Put(r, e, NoMount) /\ op' = Closing("member", e, l, m, over)
         /\ ~Unknown(m)
  BY Zenon DEF StartMember
<1> HIDE DEF m
<1>3. RegSound(reg')
  BY <1>2, SoundPut
<1>4. ASSUME op' = Closing("member", e, l, m, over), ~Unknown(m)
      PROVE  OpSound(slots, volumes, op')
  <2>1. slots[m.slot] # 0 => slots[m.slot] = m.id
    BY <1>4 DEF Unknown, Matches
  <2> QED
    BY <1>1, <1>4, <2>1, ClosingSound
<1> QED
  BY <1>2, <1>3, <1>4, CarriedEnds, CarriedGoes

LEMMA DismountCarried ==
    ASSUME TypeInv, RecordInv, OpInv, NEW e \in Entries, NEW l \in Logons,
           Dismount(e, l)
    PROVE  Carried
<1>1. op = NoOp /\ up' # "boot" /\ reg \in Registry
  BY DEF Dismount, Idle, TypeInv, TypeOK
<1>2. CASE UNCHANGED <<reg, op>>
  BY <1>1, <1>2, CarriedEnds DEF RecordInv
<1>3. ASSUME NEW known \in BOOLEAN, NEW r, r = Reconciled(reg, known),
             \/ reg' = r /\ UNCHANGED op
             \/ /\ r.active[e] # NoMount
                /\ \/ StartClient(r, e, l, Cost(known))
                   \/ \E over \in BOOLEAN : StartMember(r, e, l, over, Cost(known))
      PROVE  Carried
  <2>1. r \in Registry /\ RegSound(r)
    BY <1>1, <1>3, ReconciledType, SoundReconciled DEF RecordInv
  <2> QED
    BY <1>1, <1>3, <2>1, CarriedEnds, StartClientCarried, StartMemberCarried
<1> QED
  BY <1>2, <1>3, DismountCases

LEMMA ServiceDismountCarried ==
    ASSUME TypeInv, RecordInv, OpInv, NEW e \in Entries, SessionCleanup(e) \/ StopNext(e)
    PROVE  Carried
<1>1. op = NoOp /\ up' # "boot" /\ reg \in Registry /\ reg.active[e] # NoMount
      /\ RegSound(reg)
  BY DEF SessionCleanup, StopNext, Idle, TypeInv, TypeOK, RecordInv
<1>2. reg.active[e].logon \in Logons /\ TRUE \in BOOLEAN
  BY <1>1, RecordType DEF Mount
<1>3. \/ UNCHANGED <<reg, op>>
      \/ StartMember(reg, e, reg.active[e].logon, TRUE, 0)
      \/ StartClient(reg, e, reg.active[e].logon, 0)
  BY SessionCleanupCases DEF StopNext
<1>4. CASE UNCHANGED <<reg, op>>
  BY <1>1, <1>4, CarriedEnds
<1>5. CASE StartMember(reg, e, reg.active[e].logon, TRUE, 0)
  BY <1>1, <1>2, <1>5, StartMemberCarried
<1>6. CASE StartClient(reg, e, reg.active[e].logon, 0)
  BY <1>1, <1>2, <1>6, StartClientCarried
<1> QED
  BY <1>3, <1>4, <1>5, <1>6

LEMMA ShutCarried ==
    ASSUME TypeInv, RecordInv, OpInv, Shut PROVE Carried
<1>1. op \in OpMount /\ up # "boot"
  BY OpMountType DEF Shut
<1>2. op'.e = op.e /\ op'.m = op.m /\ op'.live = op.live /\ up' # "boot" /\ reg' = reg
  BY <1>1 DEF Shut, OpMount
<1>3. OpSound(slots, volumes, op')
  BY <1>1, <1>2 DEF OpInv, OpSound
<1> QED
  BY <1>2, <1>3, CarriedGoes DEF RecordInv

\* What a failed dismount keeps of a record.
LEMMA PendingSame ==
    ASSUME NEW e \in Entries, NEW m \in Mount, NEW looked \in BOOLEAN,
           NEW answered \in BOOLEAN
    PROVE  /\ Pending(m, looked) \in Mount
           /\ Pending(m, looked).vol = m.vol /\ Pending(m, looked).id = m.id
           /\ Pending(m, looked).slot = m.slot
           /\ AfterResume(e, m, answered) \in Mount
           /\ AfterResume(e, m, answered).vol = m.vol
           /\ AfterResume(e, m, answered).id = m.id
           /\ AfterResume(e, m, answered).slot = m.slot
<1>1. Pending(m, looked) \in Mount /\ AfterResume(e, m, answered) \in Mount
  BY PendingType, AfterResumeType
<1>2. /\ Pending(m, looked).vol = m.vol /\ Pending(m, looked).id = m.id
      /\ Pending(m, looked).slot = m.slot
  BY DEF Pending, Mount
<1>3. /\ AfterResume(e, m, answered).vol = m.vol
      /\ AfterResume(e, m, answered).id = m.id
      /\ AfterResume(e, m, answered).slot = m.slot
  BY DEF AfterResume, Mount
<1> QED
  BY <1>1, <1>2, <1>3

\* Either end of a dismount: the record is retired or put back.
LEMMA FinishCases ==
    ASSUME TypeInv, ClientFinish \/ MemberFinish
    PROVE  \E written \in BOOLEAN :
             \/ reg' = Retired(reg, op.e, written)
             \/ \E m \in Mount :
                  /\ m.vol = op.m.vol /\ m.id = op.m.id /\ m.slot = op.m.slot
                  /\ reg' = Retained(reg, op.e, m, written)
                  /\ reply' = NoReply
<1>1. op \in OpMount /\ op.e \in Entries /\ op.m \in Mount
  BY OpMountType DEF ClientFinish, MemberFinish, OpMount
<1>2. ASSUME NEW again \in BOOLEAN, NEW answered \in BOOLEAN
      PROVE  /\ Pending(op.m, again) \in Mount /\ Pending(op.m, again).vol = op.m.vol
             /\ Pending(op.m, again).id = op.m.id
             /\ Pending(op.m, again).slot = op.m.slot
             /\ Pending(AfterResume(op.e, op.m, answered), again) \in Mount
             /\ Pending(AfterResume(op.e, op.m, answered), again).vol = op.m.vol
             /\ Pending(AfterResume(op.e, op.m, answered), again).id = op.m.id
             /\ Pending(AfterResume(op.e, op.m, answered), again).slot = op.m.slot
  <2> DEFINE a == AfterResume(op.e, op.m, answered)
  <2>1. a \in Mount /\ a.vol = op.m.vol /\ a.id = op.m.id /\ a.slot = op.m.slot
    BY <1>1, PendingSame
  <2> HIDE DEF a
  <2>2. /\ Pending(a, again) \in Mount /\ Pending(a, again).vol = a.vol
        /\ Pending(a, again).id = a.id /\ Pending(a, again).slot = a.slot
    BY <1>1, <2>1, PendingSame
  <2>3. /\ Pending(op.m, again) \in Mount /\ Pending(op.m, again).vol = op.m.vol
        /\ Pending(op.m, again).id = op.m.id /\ Pending(op.m, again).slot = op.m.slot
    BY <1>1, PendingSame
  <2> QED
    BY <2>1, <2>2, <2>3 DEF a
<1>3. CASE ClientFinish
  BY <1>2, <1>3, ClientFinishCases
<1>4. CASE MemberFinish
  BY <1>2, <1>4, MemberFinishCases
<1> QED
  BY <1>3, <1>4

LEMMA FinishCarried ==
    ASSUME TypeInv, RecordInv, OpInv, ClientFinish \/ MemberFinish PROVE Carried
<1>1. op \in OpMount /\ op.e \in Entries /\ op.m \in Mount /\ up' # "boot"
      /\ reg \in Registry /\ op' = NoOp /\ RegSound(reg)
  BY OpMountType DEF ClientFinish, MemberFinish, OpMount, TypeInv, TypeOK, RecordInv
<1>2. PICK written \in BOOLEAN :
             \/ reg' = Retired(reg, op.e, written)
             \/ \E m \in Mount :
                  /\ m.vol = op.m.vol /\ m.id = op.m.id /\ m.slot = op.m.slot
                  /\ reg' = Retained(reg, op.e, m, written)
  BY FinishCases
<1>3. ASSUME NEW m \in Mount, m.vol = op.m.vol, m.id = op.m.id, m.slot = op.m.slot
      PROVE  Fits(slots, volumes, op.e, m)
  BY <1>1, <1>3, FitsSame DEF OpInv, OpSound
<1>4. RegSound(reg')
  BY <1>1, <1>2, <1>3, SoundRetired, SoundRetained
<1> QED
  BY <1>1, <1>4, CarriedEnds

LEMMA EnrollMarkCarried ==
    ASSUME TypeInv, RecordInv, OpInv, EnrollMark PROVE Carried
<1>1. op = NoOp /\ up' # "boot" /\ reg \in Registry /\ RegSound(reg)
  BY DEF EnrollMark, Idle, TypeInv, TypeOK, RecordInv
<1>2. CASE UNCHANGED <<reg, op>>
  BY <1>1, <1>2, CarriedEnds
<1>3. ASSUME enroll.e \in Entries, EnrollEligible(enroll.e, enroll.l)
      PROVE  /\ Enrolled \in Mount /\ Fits(slots, volumes, enroll.e, Enrolled)
             /\ slots[Enrolled.slot] = Enrolled.id
             /\ RegSound(Put(reg, enroll.e, Enrolled))
             /\ RegSound(Persisted(Put(reg, enroll.e, Enrolled)))
  <2>1. /\ Enrolled \in Mount /\ Enrolled.vol = reg.active[enroll.e].vol
        /\ Enrolled.id = reg.active[enroll.e].id
        /\ Enrolled.slot = reg.active[enroll.e].slot
    BY <1>3, EnrolledType
  <2>2. /\ Fits(slots, volumes, enroll.e, reg.active[enroll.e])
        /\ slots[Enrolled.slot] = Enrolled.id
    BY <1>1, <1>3, <2>1 DEF EnrollEligible, Matches, RegSound, Sound
  <2>3. Fits(slots, volumes, enroll.e, Enrolled)
    BY <2>1, <2>2, FitsSame
  <2>4. /\ Put(reg, enroll.e, Enrolled) \in Registry
        /\ RegSound(Put(reg, enroll.e, Enrolled))
    BY <1>1, <1>3, <2>1, <2>3, PutType, SoundPut DEF MaybeMount
  <2> QED
    BY <2>1, <2>2, <2>3, <2>4, SoundPersisted
<1>4. ASSUME enroll.e \in Entries, EnrollEligible(enroll.e, enroll.l),
             reg' = Put(reg, enroll.e, Enrolled), op' = NoOp
      PROVE  Carried
  BY <1>1, <1>3, <1>4, CarriedEnds
<1>5. ASSUME enroll.e \in Entries, EnrollEligible(enroll.e, enroll.l),
             reg' = Persisted(Put(reg, enroll.e, Enrolled)),
             op' = Closing("enroll", enroll.e, enroll.l, Enrolled, FALSE)
      PROVE  Carried
  <2>1. OpSound(slots, volumes, op')
    BY <1>3, <1>5, ClosingSound
  <2> QED
    BY <1>1, <1>3, <1>5, <2>1, CarriedGoes
<1> QED
  BY <1>2, <1>4, <1>5, EnrollMarkCases

\* A process that ends leaves the file.
LEMMA ExitsCarried ==
    ASSUME TypeInv, RecordInv, Exits PROVE Carried
<1>1. op' = NoOp /\ up' # "boot"
  BY DEF Exits
<1>2. reg'.active = NoTable /\ reg'.durable = reg.durable
  BY DEF Exits, Forgotten, EmptyRegistry
<1>3. RegSound(reg')
  BY <1>2 DEF RegSound, Sound, NoTable, RecordInv
<1> QED
  BY <1>1, <1>3, CarriedEnds


\* The three ways load_and_cleanup starts.
LEMMA BootLoadCases ==
    ASSUME TypeInv, BootLoad
    PROVE  /\ reg'.durable = reg.durable /\ reg'.removal = reg.removal
           /\ \/ reg' = Untrusted(reg) /\ up' = "up" /\ op' = NoOp
              \/ reg'.active = reg.durable /\ up' = "up" /\ op' = NoOp
              \/ /\ reg'.active = reg.durable /\ up' = "boot"
                 /\ op' = [pc |-> "boot", todo |-> Recorded(reg.durable), keep |-> NoTable]
<1> DEFINE d == reg.durable
           odd(looked) == ~looked \/ \E e \in Recorded(d) : Unknown(d[e])
<1>1. PICK read \in BOOLEAN, looked \in BOOLEAN :
        /\ Spend(Cost(read) + Cost(looked))
        /\ (~read \/ d = NoTable) => looked
        /\ IF ~read
           THEN reg' = Untrusted(reg) /\ up' = "up" /\ op' = NoOp
           ELSE IF odd(looked)
           THEN /\ reg' = [reg EXCEPT !.active = d, !.untrusted = TRUE,
                                      !.recoverable = TRUE]
                /\ up' = "up" /\ op' = NoOp
           ELSE /\ reg' = [reg EXCEPT !.active = d]
                /\ up' = "boot"
                /\ op' = [pc |-> "boot", todo |-> Recorded(d),
                          keep |-> NoTable]
  BY Zenon DEF BootLoad
<1> HIDE DEF odd
<1>2. reg \in Registry
  BY DEF TypeInv, TypeOK
<1>3. CASE ~read
  BY <1>1, <1>2, <1>3 DEF Untrusted, Registry
<1>4. CASE read /\ odd(looked)
  BY <1>1, <1>2, <1>4 DEF Registry
<1>5. CASE read /\ ~odd(looked)
  BY <1>1, <1>2, <1>5 DEF Registry
<1> QED
  BY <1>3, <1>4, <1>5

\* What boot cleanup did with one entry.
Kept(o, e, x) == [o EXCEPT !.todo = @ \ {e}, !.keep[e] = x]

LEMMA BootKeep ==
    ASSUME NEW o \in OpBoot, NEW e \in Entries, NEW x \in MaybeMount
    PROVE  /\ Kept(o, e, x).pc = "boot" /\ Kept(o, e, x).todo = o.todo \ {e}
           /\ Kept(o, e, x).keep[e] = x
           /\ \A f \in Entries \ {e} : Kept(o, e, x).keep[f] = o.keep[f]
<1> DEFINE k == [o.keep EXCEPT ![e] = x]
<1>1. o.keep \in [Entries -> Mount \cup {NoMount}]
  BY DEF OpBoot, Table
<1>2. Kept(o, e, x).pc = "boot" /\ Kept(o, e, x).todo = o.todo \ {e}
      /\ Kept(o, e, x).keep = k
  BY DEF OpBoot, Kept
<1>3. k[e] = x /\ \A f \in Entries \ {e} : k[f] = o.keep[f]
  BY <1>1
<1> HIDE DEF k
<1> QED
  BY <1>2, <1>3

\* Boot cleanup leaves the records and the kept ones sound.
LEMMA BootCarried ==
    ASSUME TypeInv, RecordInv, OpInv, Boot PROVE Carried
<1>1. reg \in Registry /\ RegSound(reg)
  BY DEF TypeInv, TypeOK, RecordInv
<1>2. CASE BootLoad
  <2>1. CASE reg' = Untrusted(reg) /\ up' = "up" /\ op' = NoOp
    BY <1>1, <2>1, SoundUntrusted, CarriedEnds
  <2>2. CASE reg'.active = reg.durable /\ reg'.durable = reg.durable
    <3>1. RegSound(reg')
      BY <1>1, <2>2 DEF RegSound
    <3>2. CASE op' = NoOp /\ up' = "up"
      BY <3>1, <3>2, CarriedEnds
    <3>3. CASE op' = [pc |-> "boot", todo |-> Recorded(reg.durable), keep |-> NoTable]
      <4>1. op'.pc = "boot" /\ op'.keep = NoTable
        BY <3>3
      <4>2. op' \notin OpMount /\ Sound(slots, volumes, op'.keep)
        BY <4>1 DEF OpMount, Sound, NoTable
      <4> QED
        BY <3>1, <4>2 DEF Carried
    <3> QED
      BY <1>2, <2>2, <3>2, <3>3, BootLoadCases, <2>1
  <2> QED
    BY <1>2, <2>1, <2>2, BootLoadCases
<1>3. ASSUME NEW e \in Entries, BootEntry(e) PROVE Carried
  <2>1. reg' = reg /\ op \in OpBoot /\ up = "boot"
    BY <1>3, BootEntryCases DEF BootEntry
  <2>2. PICK x \in MaybeMount :
          /\ op' = [op EXCEPT !.todo = @ \ {e}, !.keep[e] = x]
          /\ x # NoMount => /\ x.vol = reg.active[e].vol
                            /\ x.id = reg.active[e].id
                            /\ x.slot = reg.active[e].slot
    BY <1>3, BootEntryCases
  <2>3. op'.pc = "boot" /\ op'.keep[e] = x
        /\ \A f \in Entries \ {e} : op'.keep[f] = op.keep[f]
    <3>1. op' = Kept(op, e, x)
      BY <2>2 DEF Kept
    <3> QED
      BY <2>1, <3>1, BootKeep
  <2>4. x # NoMount => Fits(slots, volumes, e, x)
    <3>1. reg.active[e] \in Mount
      BY <1>3, BootEntryCases
    <3>2. Fits(slots, volumes, e, reg.active[e])
      BY <1>1, <3>1, SentinelsAssumption DEF RegSound, Sound
    <3> QED
      BY <2>2, <3>2, FitsSame
  <2>5. Sound(slots, volumes, op'.keep)
    BY <2>1, <2>3, <2>4 DEF OpInv, Sound
  <2>6. op' \notin OpMount
    BY <2>3 DEF OpMount
  <2> QED
    BY <1>1, <2>1, <2>5, <2>6 DEF Carried
<1>4. ASSUME NEW e \in Entries, BootAborted(e) PROVE Carried
  BY <1>1, <1>4, SoundUntrusted, CarriedEnds DEF BootAborted
<1>5. CASE BootFinish
  <2>1. op' = NoOp /\ up' = "up" /\ up = "boot"
    BY <1>5 DEF BootFinish
  <2>2. CASE reg' = Untrusted(reg)
    BY <1>1, <2>1, <2>2, SoundUntrusted, CarriedEnds
  <2>3. CASE reg' = [reg EXCEPT !.active = op.keep, !.durable = op.keep]
    <3>1. reg'.active = op.keep /\ reg'.durable = op.keep
      BY <1>1, <2>3 DEF Registry
    <3>2. RegSound(reg')
      BY <2>1, <3>1 DEF RegSound, OpInv
    <3> QED
      BY <2>1, <3>2, CarriedEnds
  <2> QED
    BY <1>5, <2>2, <2>3 DEF BootFinish
<1> QED
  BY <1>2, <1>3, <1>4, <1>5 DEF Boot

\* recovery_allows_entry leaves nothing pending for the entry it admits.
LEMMA AdmittedFacts ==
    ASSUME reg \in Registry, NEW e \in Entries, NEW known \in BOOLEAN,
           Admissible(e, known)
    PROVE  LET a == Admitted(e, known)
           IN  ~ReconcileRefused(a) /\ e \notin a.persist /\ a.removal = {}
<1> DEFINE q == Reconciled(reg, known)
           kept == [f \in Entries |-> IF f \in q.removal THEN NoMount
                                                         ELSE q.active[f]]
           p == [q EXCEPT !.removal = {}, !.active = kept]
<1>1. q \in Registry
  BY ReconciledType
<1>2. Admitted(e, known) = IF Blocked(q, e) THEN Repaired(q) ELSE q
  BY DEF Admitted
<1>3. Blocked(q, e) => ~q.untrusted
  BY DEF Admissible
<1> HIDE DEF q
<1>4. /\ Repaired(q).untrusted = q.untrusted /\ Repaired(q).persist = {}
      /\ Repaired(q).removal = {}
  <2>1. p.untrusted = q.untrusted /\ p.removal = {} /\ p \in Registry
    <3>1. kept \in Table
      BY <1>1 DEF Registry, Table
    <3> QED
      BY <1>1, <3>1 DEF Registry
  <2>2. Repaired(q) = Persisted(p)
    BY DEF Repaired
  <2> HIDE DEF p
  <2> QED
    BY <2>1, <2>2 DEF Persisted, Registry
<1>5. CASE Blocked(q, e)
  BY <1>2, <1>3, <1>4, <1>5 DEF ReconcileRefused
<1>6. CASE ~Blocked(q, e)
  BY <1>2, <1>6 DEF Blocked
<1> QED
  BY <1>5, <1>6

\* What a mount does, once the driver has opened the container.
LEMMA MountOpenCases ==
    ASSUME TypeInv, NEW e \in Entries, NEW l \in Logons, MountOpen(e, l)
    PROVE  \E known \in BOOLEAN, s \in Slots, g \in Gens :
             /\ reg' = Admitted(e, known) /\ reg'.active[e] = NoMount
             /\ ~ReconcileRefused(reg') /\ e \notin reg'.persist /\ reg'.removal = {}
             /\ Places(s, g, e) /\ ~Live(e) /\ slots[s] = 0
             /\ alias' = alias \cup {g}
             /\ \/ op' = NoOp
                \/ op' = [pc |-> "opened", e |-> e, l |-> l, live |-> TRUE,
                          over |-> FALSE, ok |-> FALSE,
                          m |-> [logon |-> l, slot |-> s, id |-> 0, vol |-> g,
                                 managed |-> FALSE, unresolved |-> e \in SyncOn,
                                 cleanup |-> FALSE, absent |-> FALSE]]
<1>1. PICK known \in BOOLEAN, heard \in BOOLEAN, s \in Slots, g \in Gens :
        /\ Admissible(e, known)
        /\ reg' = Admitted(e, known)
        /\ reg'.active[e] = NoMount
        /\ HasCapacity(reg'.active)
        /\ Opens(e, s, g)
        /\ Spend(Cost(known) + Cost(heard))
        /\ op' = IF heard
                 THEN [pc |-> "opened", e |-> e, l |-> l, live |-> TRUE,
                       over |-> FALSE, ok |-> FALSE,
                       m |-> [logon |-> l, slot |-> s, id |-> 0, vol |-> g,
                              managed |-> FALSE, unresolved |-> e \in SyncOn,
                              cleanup |-> FALSE, absent |-> FALSE]]
                 ELSE NoOp
  BY Zenon DEF MountOpen
<1>2. Places(s, g, e) /\ ~Live(e) /\ slots[s] = 0 /\ alias' = alias \cup {g}
  BY <1>1 DEF Opens, Places
<1>3. ~ReconcileRefused(reg') /\ e \notin reg'.persist /\ reg'.removal = {}
  BY <1>1, AdmittedFacts DEF TypeInv, TypeOK
<1>4. \/ op' = NoOp
      \/ op' = [pc |-> "opened", e |-> e, l |-> l, live |-> TRUE,
                over |-> FALSE, ok |-> FALSE,
                m |-> [logon |-> l, slot |-> s, id |-> 0, vol |-> g,
                       managed |-> FALSE, unresolved |-> e \in SyncOn,
                       cleanup |-> FALSE, absent |-> FALSE]]
  BY <1>1
<1> QED
  BY <1>1, <1>2, <1>3, <1>4

\* A record of another vault is not disturbed by the new volume.
LEMMA FitsOpened ==
    ASSUME TypeOK, VolumeInv, NEW e \in Entries, NEW s \in Slots, NEW g \in Gens,
           Places(s, g, e), NEW f \in Entries, f # e, NEW m \in Mount,
           Fits(slots, volumes, f, m)
    PROVE  Fits(slots', volumes', f, m)
<1>1. m.vol \in Gens /\ m.id \in 0 .. MaxGen
  BY DEF Mount
<1>2. f # NoMount /\ e # NoMount /\ Foreign # NoMount
  BY SentinelsAssumption
<1>3. /\ g # 0 /\ volumes'[g] = e
      /\ \A h \in Opened : volumes'[h] = volumes[h]
      /\ slots'[s] = g /\ \A t \in Slots \ {s} : slots'[t] = slots[t]
  BY <1>2, OpenVolume
<1>4. volumes'[m.vol] = f
  BY <1>1, <1>2, <1>3 DEF Fits, Opened
<1>5. m.id # 0 => volumes'[m.id] \in {f, Foreign}
  <2>1. m.id # 0 => m.id \in Gens
    BY <1>1, BoundsAssumption DEF Gens
  <2> QED
    BY <1>2, <1>3, <2>1 DEF Fits, Opened
<1>6. ASSUME NEW t \in Slots, slots'[t] # 0, volumes'[slots'[t]] = f
      PROVE  t = m.slot /\ slots'[t] = m.vol
  <2>1. slots'[t] = slots[t] /\ slots[t] \in Opened
    BY <1>3, <1>6 DEF VolumeInv
  <2>2. volumes[slots[t]] = f
    BY <1>3, <1>6, <2>1
  <2> QED
    BY <1>6, <2>1, <2>2 DEF Fits
<1> QED
  BY <1>4, <1>5, <1>6 DEF Fits

\* A vault is opened only when no record of it is left, in the map or the file.
LEMMA MountOpenRecords ==
    ASSUME TypeInv, TypeInv', AgreeInv', VolumeInv, RecordInv,
           NEW e \in Entries, NEW l \in Logons, MountOpen(e, l)
    PROVE  VolumeInv' /\ RecordInv' /\ OpInv'
<1>1. PICK known \in BOOLEAN, s \in Slots, g \in Gens :
             /\ reg' = Admitted(e, known) /\ reg'.active[e] = NoMount
             /\ ~ReconcileRefused(reg') /\ e \notin reg'.persist /\ reg'.removal = {}
             /\ Places(s, g, e) /\ ~Live(e) /\ slots[s] = 0
             /\ \/ op' = NoOp
                \/ op' = [pc |-> "opened", e |-> e, l |-> l, live |-> TRUE,
                          over |-> FALSE, ok |-> FALSE,
                          m |-> [logon |-> l, slot |-> s, id |-> 0, vol |-> g,
                                 managed |-> FALSE, unresolved |-> e \in SyncOn,
                                 cleanup |-> FALSE, absent |-> FALSE]]
  BY MountOpenCases
<1>2. TypeOK /\ reg \in Registry /\ reg' \in Registry /\ up' = "up" /\ op = NoOp
  BY DEF TypeInv, TypeOK, MountOpen, Idle
<1>3. e # NoMount
  BY SentinelsAssumption
<1>4. /\ VolumeInv' /\ g # 0 /\ volumes'[g] = e
      /\ \A h \in Opened : volumes'[h] = volumes[h]
      /\ slots'[s] = g /\ \A t \in Slots \ {s} : slots'[t] = slots[t]
  BY <1>1, <1>2, <1>3, OpenVolume
<1>5. reg'.durable[e] = NoMount
  <2>1. Busy' = {}
    BY <1>1 DEF Busy
  <2>2. Agreed(reg', {})
    BY <1>2, <2>1 DEF AgreeInv, Serving, Agreed, Agrees, ReconcileRefused
  <2>3. Agrees(reg', e)
    BY <1>1, <2>2 DEF Agreed
  <2> QED
    BY <1>1, <2>3 DEF Agrees
<1>6. RegSound(reg')
  BY <1>1, <1>2, SoundAdmitted DEF RecordInv
<1>7. ASSUME NEW table \in Table, Sound(slots, volumes, table), table[e] = NoMount
      PROVE  Sound(slots', volumes', table)
  <2> SUFFICES ASSUME NEW f \in Entries, table[f] # NoMount
               PROVE  Fits(slots', volumes', f, table[f])
    BY DEF Sound
  <2>1. table[f] \in Mount /\ Fits(slots, volumes, f, table[f]) /\ f # e
    BY <1>7 DEF Table, Sound
  <2> QED
    BY <1>1, <1>2, <2>1, FitsOpened
<1>8. RecordInv'
  BY <1>1, <1>2, <1>5, <1>6, <1>7 DEF RecordInv, RegSound, Registry
<1>9. \A t \in Slots : slots'[t] # 0 /\ volumes'[slots'[t]] = e => t = s
  <2> SUFFICES ASSUME NEW t \in Slots, slots'[t] # 0, volumes'[slots'[t]] = e, t # s
               PROVE  FALSE
    OBVIOUS
  <2>1. slots'[t] = slots[t] /\ slots[t] \in Opened
    BY <1>4 DEF VolumeInv
  <2>2. volumes[slots[t]] = e
    BY <1>4, <2>1
  <2> QED
    BY <1>1, <2>1, <2>2 DEF Live
<1>10. OpInv'
  <2>1. CASE op' = NoOp
    BY <1>2, <2>1, SentinelsAssumption DEF OpInv
  <2>2. CASE op' # NoOp
    <3>1. op'.e = e /\ op'.m.vol = g /\ op'.m.id = 0 /\ op'.m.slot = s /\ op'.live = TRUE
      BY <1>1, <2>2
    <3>2. Fits(slots', volumes', op'.e, op'.m)
      BY <1>4, <1>9, <3>1 DEF Fits
    <3>3. OpSound(slots', volumes', op')
      BY <1>4, <3>1, <3>2 DEF OpSound
    <3> QED
      BY <1>2, <3>3 DEF OpInv
  <2> QED
    BY <2>1, <2>2
<1> QED
  BY <1>4, <1>8, <1>10


\* The records stay true of the driver in every step.
LEMMA NextRecords ==
    ASSUME TypeInv, TypeInv', AgreeInv', VolumeInv, RecordInv, OpInv, [Next]_vars
    PROVE  VolumeInv' /\ RecordInv' /\ OpInv'
<1>1. CASE \E e \in Entries, l \in Logons : MountOpen(e, l)
  BY <1>1, MountOpenRecords
<1>2. CASE ~\E e \in Entries, l \in Logons : MountOpen(e, l)
  <2>1. VolumeInv' /\ DriverStep
    BY <1>2, NextDriver
  <2>2. ASSUME StopExit \/ Crash \/ Reboot PROVE Carried
    BY <2>2, ExitsCarried DEF StopExit, Crash, Reboot
  <2>3. Carried
    BY <1>2, <2>2, NextCases, QuietCarried, BootCarried, MountRefusedCarried,
       DismountCarried, MountRejectedCarried, MountRecordCarried,
       MountDiscardCarried, MountUndoCarried, SyncCallCarried, ShutCarried,
       FinishCarried, EnrollMarkCarried, ServiceDismountCarried
  <2> QED
    BY <2>1, <2>3, CarriedStep
<1> QED
  BY <1>1, <1>2

\* Nothing is open and nothing recorded at first.
LEMMA InitRecords == Init => VolumeInv /\ RecordInv /\ OpInv
<1> SUFFICES ASSUME Init PROVE VolumeInv /\ RecordInv /\ OpInv
  OBVIOUS
<1>1. VolumeInv
  <2>1. Opened = {} /\ {} = 1 .. 0 /\ 0 \in 0 .. MaxGen
    BY BoundsAssumption DEF Init, Opened, Gens
  <2>2. \A s \in Slots : slots[s] = 0
    BY DEF Init
  <2> QED
    BY <2>1, <2>2 DEF VolumeInv
<1>2. RecordInv
  BY DEF Init, EmptyRegistry, NoTable, RecordInv, RegSound, Sound
<1>3. OpInv
  BY SentinelsAssumption DEF Init, OpInv
<1> QED
  BY <1>1, <1>2, <1>3

SafeInv == TypeInv /\ AgreeInv /\ VolumeInv /\ RecordInv /\ OpInv

\* The safety invariant of the broker.
LEMMA SafeInvariant == Spec => []SafeInv
<1>1. SafeInv /\ [Next]_vars => SafeInv'
  BY NextStep, NextAgree, NextRecords DEF SafeInv
<1>2. Init => SafeInv
  BY InitType, InitAgree, InitRecords DEF SafeInv
<1> QED
  BY <1>1, <1>2, PTL DEF Spec

-----------------------------------------------------------------------------
(* What follows from it.                                                   *)

\* A slot that the broker's call empties held the vault it was called for.
LEMMA CallsCloseOwn ==
    ASSUME SafeInv, Shut \/ MountDiscard \/ MountUndo,
           NEW s \in Slots, slots'[s] # slots[s]
    PROVE  volumes[slots[s]] \in {op.e, Foreign}
<1>1. op \in OpMount /\ op.m \in Mount /\ TypeOK
  BY OpMountType DEF Shut, MountDiscard, MountUndo, OpMount, At, SafeInv, TypeInv
<1>2. PICK ok \in BOOLEAN, shut \in BOOLEAN, clean \in BOOLEAN :
        Closes(op.m, ok, shut, clean)
  BY MountDiscardCases, MountUndoCases DEF Shut, SafeInv
<1>3. slots'[s] = 0 /\ s = op.m.slot
  BY <1>1, <1>2, ClosesVolume
<1>4. OpSound(slots, volumes, op)
  BY <1>1 DEF SafeInv, OpInv
<1> QED
  BY <1>3, <1>4 DEF OpSound

LEMMA BootClosesOwn ==
    ASSUME SafeInv, NEW e \in Entries, BootEntry(e),
           NEW s \in Slots, slots'[s] # slots[s]
    PROVE  volumes[slots[s]] \in {e, Foreign}
<1> DEFINE m == reg.active[e]
<1>1. TypeInv /\ TypeOK /\ m \in Mount /\ ~Unknown(m)
  BY BootEntryCases DEF SafeInv, TypeInv
<1>2. PICK ok \in BOOLEAN, shut \in BOOLEAN, clean \in BOOLEAN :
        Closes(m, ok, shut, clean)
  BY <1>1, BootEntryCases
<1>3. Fits(slots, volumes, e, m)
  BY <1>1, SentinelsAssumption DEF SafeInv, RecordInv, RegSound, Sound
<1> HIDE DEF m
<1>4. slots'[s] = 0 /\ s = m.slot
  BY <1>1, <1>2, ClosesVolume
<1> QED
  BY <1>1, <1>3, <1>4 DEF Unknown, Matches, Fits

\* No dismount, no undone or rejected mount and no boot cleanup closes the
\* volume of another vault, however many records keep the number of a slot that
\* later mounts reuse: the slot is compared with the recorded identity before
\* every call, and while a call is under way only a stranger can take it.
THEOREM ClosesTheorem == Spec => ClosesOnlyItsOwn
<1>1. SafeInv => \A s \in Slots :
        /\ (Shut \/ MountDiscard \/ MountUndo) /\ slots'[s] # slots[s]
           => volumes[slots[s]] \in {op.e, Foreign}
        /\ \A e \in Entries : BootEntry(e) /\ slots'[s] # slots[s]
           => volumes[slots[s]] \in {e, Foreign}
  BY CallsCloseOwn, BootClosesOwn
<1> QED
  BY <1>1, SafeInvariant, PTL DEF ClosesOnlyItsOwn

\* A slot whose one record names what it holds is not open for another vault.
LEMMA AccountedSlots ==
    ASSUME SafeInv, NEW e \in Entries,
           \A s \in Slots : slots[s] # 0 =>
             \E f \in Entries : /\ reg.active[f] # NoMount /\ f # e
                                /\ reg.active[f].id = slots[s]
    PROVE  ~Live(e)
<1> SUFFICES ASSUME NEW s \in Slots, slots[s] # 0, volumes[slots[s]] = e
             PROVE  FALSE
  BY DEF Live
<1>1. PICK f \in Entries : /\ reg.active[f] # NoMount /\ f # e
                           /\ reg.active[f].id = slots[s]
  OBVIOUS
<1>2. Fits(slots, volumes, f, reg.active[f])
  BY <1>1 DEF SafeInv, RecordInv, RegSound, Sound
<1>3. volumes[slots[s]] \in {f, Foreign}
  BY <1>1, <1>2 DEF Fits
<1> QED
  BY <1>1, <1>3, EntriesAssumption

\* A set with one member has one.
LEMMA OneMember == ASSUME NEW S, Cardinality(S) = 1 PROVE S # {}
BY FS_EmptySet

\* An edit of the policy is applied only to a vault that is open in no slot of
\* the driver, whatever the broker lost track of: every busy slot must have one
\* record, that record names what the slot holds, and a volume has one vault.
THEOREM PolicyEditTheorem == Spec => PolicyEditSafe
<1>1. ASSUME SafeInv, NEW e \in Policy, NEW accounts \in SUBSET Users,
             ChangePolicy(e, accounts)
      PROVE  ~Live(e)
  <2>1. e \in Entries /\ ChangeAllowed(e)
    BY <1>1, EntriesAssumption DEF ChangePolicy
  <2>2. ASSUME NEW s \in Slots, slots[s] # 0
        PROVE  \E f \in Entries : /\ reg.active[f] # NoMount /\ f # e
                                  /\ reg.active[f].id = slots[s]
    <3> DEFINE on == {f \in Recorded(reg.active) : reg.active[f].slot = s}
    <3>1. Cardinality(on) = 1 /\ \A f \in on : reg.active[f].id = slots[s] /\ f # e
      BY <2>1, <2>2 DEF ChangeAllowed
    <3>2. on # {} /\ on \subseteq Recorded(reg.active)
      BY <3>1, OneMember
    <3> HIDE DEF on
    <3> QED
      BY <3>1, <3>2 DEF Recorded
  <2> QED
    BY <1>1, <2>1, <2>2, AccountedSlots
<1>2. SafeInv => \A e \in Policy, accounts \in SUBSET Users :
        ChangePolicy(e, accounts) => ~Live(e)
  BY <1>1
<1> QED
  BY <1>2, SafeInvariant, PTL DEF PolicyEditSafe

\* A reconciliation drops a record only when its slot is empty.
LEMMA ReconciledDrops ==
    ASSUME reg \in Registry, NEW e \in Entries, NEW known \in BOOLEAN,
           reg.active[e] # NoMount, Reconciled(reg, known).active[e] = NoMount
    PROVE  e \in Droppable(reg) /\ slots[reg.active[e].slot] = 0
<1> DEFINE table == Swept(reg, known)
           m == [reg.active[e] EXCEPT !.cleanup = TRUE, !.absent = TRUE]
<1>1. Reconciled(reg, known).active = table
  <2>1. table \in Table
    BY SweptType
  <2> HIDE DEF table
  <2> QED
    BY <2>1 DEF Reconciled, Persisted, Registry, table
<1>2. reg.active[e] \in Mount /\ m # NoMount
  <2>1. reg.active[e] \in Mount
    BY RecordType
  <2>2. m \in Mount
    BY <2>1 DEF Mount
  <2> QED
    BY <2>1, <2>2, SentinelsAssumption
<1>3. table[e] = IF known /\ e \in Droppable(reg) THEN NoMount
                 ELSE IF e \in Missing(reg) THEN m ELSE reg.active[e]
  BY DEF Swept
<1> HIDE DEF table, m
<1>4. e \in Droppable(reg)
  BY <1>1, <1>2, <1>3
<1> QED
  BY <1>4 DEF Droppable, Missing

\* The vault of a record whose slot is empty is open nowhere.
LEMMA EmptySlotClosed ==
    ASSUME NEW e \in Entries, NEW m, Fits(slots, volumes, e, m), slots[m.slot] = 0
    PROVE  ~Live(e)
BY DEF Fits, Live


LEMMA DismountTold ==
    ASSUME SafeInv, NEW e \in Entries, NEW l \in Logons, Dismount(e, l),
           reply' # NoReply
    PROVE  reply'.e = e /\ ~Live(e)
<1>1. reg \in Registry /\ reg.active[e] # NoMount
  BY DEF SafeInv, TypeInv, TypeOK, Dismount
<1>2. PICK known \in BOOLEAN : /\ reg' = Reconciled(reg, known)
                               /\ reply' = Answer(e, l, "Unmounted")
                               /\ reg'.active[e] = NoMount
  BY DismountCases
<1>3. slots[reg.active[e].slot] = 0
  BY <1>1, <1>2, ReconciledDrops
<1>4. Fits(slots, volumes, e, reg.active[e])
  BY <1>1 DEF SafeInv, RecordInv, RegSound, Sound
<1> QED
  BY <1>2, <1>3, <1>4, EmptySlotClosed DEF Answer

LEMMA AlreadyUnmountedTold ==
    ASSUME SafeInv, NEW e \in Policy, NEW l \in Logons, AlreadyUnmounted(e, l)
    PROVE  reply'.e = e /\ ~Live(e)
<1>1. e \in Entries /\ reg.active[e] = NoMount /\ reply'.e = e
  BY EntriesAssumption DEF AlreadyUnmounted, Answer
<1>2. ASSUME NEW s \in Slots, slots[s] # 0
      PROVE  \E f \in Entries : /\ reg.active[f] # NoMount /\ f # e
                                /\ reg.active[f].id = slots[s]
  <2> DEFINE on == {f \in Recorded(reg.active) : reg.active[f].slot = s}
  <2>1. Cardinality(on) = 1 /\ \A f \in on : Matches(reg.active[f])
    BY <1>2 DEF AlreadyUnmounted
  <2>2. on # {} /\ \A f \in on : f \in Entries /\ reg.active[f] # NoMount
                                 /\ reg.active[f].slot = s
    BY <2>1, OneMember DEF Recorded
  <2> HIDE DEF on
  <2> QED
    BY <1>1, <2>1, <2>2 DEF Matches
<1> QED
  BY <1>1, <1>2, AccountedSlots

LEMMA FinishTold ==
    ASSUME SafeInv, ClientFinish \/ MemberFinish, reply' # NoReply
    PROVE  reply'.e = op.e /\ ~Live(op.e)
<1>1. op \in OpMount /\ op.e \in Entries
  BY OpMountType DEF ClientFinish, MemberFinish, OpMount, SafeInv
<1>2. OpSound(slots, volumes, op)
  BY <1>1 DEF SafeInv, OpInv
<1>3. slots[op.m.slot] = 0 \/ ~op.live
  BY ClientFinishCases, MemberFinishCases
<1>4. ~Live(op.e)
  BY <1>1, <1>2, <1>3, EmptySlotClosed DEF OpSound, Live
<1>5. reply'.e = op.e
  <2>1. CASE ClientFinish
    BY <2>1 DEF ClientFinish, Answer
  <2>2. CASE MemberFinish
    BY <2>2 DEF MemberFinish, Answer
  <2> QED
    BY <2>1, <2>2
<1> QED
  BY <1>4, <1>5

LEMMA UnmountedKept ==
    ASSUME SafeInv, UnmountedIsTrue, [Next]_vars PROVE UnmountedIsTrue'
<1>1. CASE reply' = NoReply
  BY <1>1 DEF UnmountedIsTrue
<1>2. CASE MountRecord \/ MountResume
  <2>1. reply' = NoReply \/ reply'.state = "Mounted"
    <3>1. reply' = NoReply \/ \E e, l : reply' = Answer(e, l, "Mounted")
      <4>1. CASE MountRecord
        BY <4>1, Zenon DEF MountRecord
      <4>2. CASE MountResume
        BY <4>2, Zenon DEF MountResume
      <4> QED
        BY <1>2, <4>1, <4>2
    <3> QED
      BY <3>1 DEF Answer
  <2> QED
    BY <2>1 DEF UnmountedIsTrue
<1>3. CASE UNCHANGED vars
  <2>1. reply' = reply /\ slots' = slots /\ volumes' = volumes
    BY <1>3 DEF vars, driver
  <2> QED
    BY <2>1 DEF UnmountedIsTrue, Live
<1>4. ASSUME reply' # NoReply, ~(MountRecord \/ MountResume), ~UNCHANGED vars
      PROVE  ~Live(reply'.e) /\ slots' = slots /\ volumes' = volumes
  <2>1. ASSUME NEW e \in Entries, NEW l \in Logons, Dismount(e, l)
        PROVE  ~Live(reply'.e) /\ slots' = slots /\ volumes' = volumes
    BY <1>4, <2>1, DismountTold DEF Dismount, driver
  <2>2. ASSUME NEW e \in Policy, NEW l \in Logons, AlreadyUnmounted(e, l)
        PROVE  ~Live(reply'.e) /\ slots' = slots /\ volumes' = volumes
    BY <2>2, AlreadyUnmountedTold DEF AlreadyUnmounted, driver
  <2>3. CASE ClientFinish \/ MemberFinish
    BY <1>4, <2>3, FinishTold DEF ClientFinish, MemberFinish, driver
  <2>4. \/ \E e \in Entries, l \in Logons : Dismount(e, l)
        \/ \E e \in Policy, l \in Logons : AlreadyUnmounted(e, l)
        \/ ClientFinish \/ MemberFinish
    <3>1. ~Quiet \/ \E e \in Policy, l \in Logons : AlreadyUnmounted(e, l)
      BY <1>4 DEF Quiet, Authorize, EnrollPrepare, ChangePolicy,
         SaveAccessDirectory, SessionChange, LogonEnds, SessionCleanupEnds, Stop,
         ClosedOutside, OpenedOutside
    <3>2. ~Boot
      BY <1>4 DEF Boot, BootLoad, BootEntry, BootAborted, BootFinish
    <3>3. ~MountRejected /\ ~MountDiscard /\ ~MountUndo /\ ~Shut
          /\ ~EnrollMark /\ ~EnrollCall
      BY <1>4 DEF MountRejected, MountDiscard, MountUndo, Shut, EnrollMark, EnrollCall
    <3>4. ASSUME NEW e \in Entries, NEW l \in Logons
          PROVE  ~MountRefused(e, l) /\ ~MountDeclined(e, l) /\ ~MountOpen(e, l)
      BY <1>4 DEF MountRefused, MountDeclined, MountOpen
    <3>5. ASSUME NEW e \in Entries PROVE ~SessionCleanup(e) /\ ~StopNext(e)
      BY <1>4 DEF SessionCleanup, StopNext
    <3>6. ~StopExit /\ ~Crash /\ ~Reboot
      BY <1>4 DEF StopExit, Crash, Reboot, Exits
    <3> QED
      BY <1>4, <3>1, <3>2, <3>3, <3>4, <3>5, <3>6, NextCases
  <2> QED
    BY <2>1, <2>2, <2>3, <2>4
<1>5. CASE ~(reply' = NoReply \/ MountRecord \/ MountResume \/ UNCHANGED vars)
  BY <1>4, <1>5 DEF UnmountedIsTrue, Live
<1> QED
  BY <1>1, <1>2, <1>3, <1>5

\* Whoever is told Unmounted (by a dismount, by a record found gone, by a retry
\* of a dismount that had succeeded) is told the truth: the container of the
\* vault is open in no slot of the driver, not under another letter and not as
\* a volume whose mount was never heard of.
THEOREM UnmountedTheorem == Spec => []UnmountedIsTrue
<1>1. SafeInv /\ UnmountedIsTrue /\ [Next]_vars => UnmountedIsTrue'
  BY UnmountedKept
<1>2. Init => UnmountedIsTrue
  BY DEF Init, UnmountedIsTrue
<1> QED
  BY <1>1, <1>2, SafeInvariant, PTL DEF Spec

-----------------------------------------------------------------------------
(* What only the file still names.  A record that leaves the file must be    *)
(* that of a volume out of the driver and without a letter; this follows     *)
(* from what the broker keeps true all along: a mount the file names is      *)
(* gone, or in the map, or in the hands of the operation in progress.        *)

\* The volumes of which nothing is left.
GoneIn(held, letters) ==
    {v \in Gens : v \notin letters /\ \A s \in Slots : held[s] # v}

GoneSet == GoneIn(slots, alias)

\* A write from registry r to registry q gives up only volumes of G.
Retires(G, r, q) ==
    \A e \in Entries : r.durable[e] # NoMount =>
        \/ r.durable[e].vol \in G
        \/ q.durable[e] # NoMount /\ q.durable[e].vol = r.durable[e].vol

\* The registry r when G are the volumes that are gone and an operation on the
\* entry in H, if there is one, has volume v in hand.
Tidy(G, r, H, v) ==
    /\ \A e \in Entries : r.durable[e] # NoMount =>
          \/ r.durable[e].vol \in G
          \/ r.active[e] # NoMount /\ r.active[e].vol = r.durable[e].vol
          \/ e \in H /\ r.durable[e].vol = v
    /\ \A e \in r.removal : r.active[e] # NoMount => r.active[e].vol \in G
    /\ \A e \in H : r.active[e] # NoMount => r.active[e].vol = v
    /\ \A e \in H : e \in r.removal => v \in G

Passes(G, r, q, H, v) == Retires(G, r, q) /\ Tidy(G, q, H, v)

\* Writes compose, and a registry whose file is the same gave nothing up.
LEMMA RetiresTwice ==
    ASSUME NEW G, NEW r, NEW q, NEW p, Retires(G, r, q), Retires(G, q, p)
    PROVE  Retires(G, r, p)
BY DEF Retires

LEMMA RetiresNothing ==
    ASSUME NEW G, NEW r, NEW q, q.durable = r.durable PROVE Retires(G, r, q)
BY DEF Retires

\* Only the tables and the pending removals matter.
LEMMA PassesSame ==
    ASSUME NEW G, NEW r, NEW q, NEW H, NEW v, Tidy(G, r, H, v),
           q.active = r.active, q.durable = r.durable, q.removal = r.removal
    PROVE  Passes(G, r, q, H, v)
BY DEF Passes, Retires, Tidy

\* A volume that is gone need not be in hand, nor one whose record is back.
LEMMA TidyFree ==
    ASSUME NEW G, NEW r \in Registry, NEW H, NEW v, NEW w, Tidy(G, r, H, v),
           v \in G \/ \A e \in H : r.active[e] # NoMount
    PROVE  Tidy(G, r, {}, w)
BY DEF Tidy

\* An operation takes a record of the map in hand.
LEMMA TidyTake ==
    ASSUME NEW G, NEW r \in Registry, NEW w, Tidy(G, r, {}, w), NEW e \in Entries,
           r.active[e] # NoMount
    PROVE  Tidy(G, r, {e}, r.active[e].vol)
BY DEF Tidy

\* It may take it out of the map, put it there and change it.
LEMMA TidyPut ==
    ASSUME NEW G, NEW r \in Registry, NEW e \in Entries, NEW v, Tidy(G, r, {e}, v),
           NEW m \in MaybeMount, m # NoMount => m.vol = v
    PROVE  Passes(G, r, Put(r, e, m), {e}, v)
<1>1. r.active \in [Entries -> Mount \cup {NoMount}] /\ r.removal \subseteq Entries
  BY DEF Registry, Table
<1> DEFINE q == Put(r, e, m)
<1>2. /\ q.active = [r.active EXCEPT ![e] = m] /\ q.durable = r.durable
      /\ q.removal = r.removal
  BY DEF Put, Registry
<1> HIDE DEF q
<1>3. q.active[e] = m /\ \A f \in Entries \ {e} : q.active[f] = r.active[f]
  BY <1>1, <1>2
<1>4. Tidy(G, q, {e}, v)
  BY <1>1, <1>2, <1>3 DEF Tidy
<1> QED
  BY <1>2, <1>4, RetiresNothing DEF Passes, q

LEMMA TidyPutBack ==
    ASSUME NEW G, NEW r \in Registry, NEW e \in Entries, NEW v, Tidy(G, r, {e}, v),
           NEW m \in Mount, m.vol = v
    PROVE  Passes(G, r, Put(r, e, m), {}, v)
<1>1. m \in MaybeMount /\ m # NoMount
  BY SentinelsAssumption DEF MaybeMount
<1>2. Passes(G, r, Put(r, e, m), {e}, v) /\ Put(r, e, m) \in Registry
  BY <1>1, TidyPut, PutType
<1>3. Put(r, e, m).active[e] = m
  BY DEF Put, Registry, Table
<1>4. Tidy(G, Put(r, e, m), {}, v)
  BY <1>1, <1>2, <1>3, TidyFree DEF Passes
<1> QED
  BY <1>2, <1>4 DEF Passes

\* A write loses nothing that is not gone, when nothing is in hand.
LEMMA TidyPersisted ==
    ASSUME NEW G, NEW r \in Registry, NEW H, NEW v, Tidy(G, r, H, v)
    PROVE  /\ Tidy(G, Persisted(r), H, v)
           /\ H = {} => Retires(G, r, Persisted(r))
<1> DEFINE q == Persisted(r)
<1>1. q.active = r.active /\ q.durable = r.active /\ q.removal = r.removal
  BY DEF Persisted, Registry
<1> HIDE DEF q
<1>2. Tidy(G, q, H, v) /\ (H = {} => Retires(G, r, q))
  BY <1>1 DEF Tidy, Retires
<1> QED
  BY <1>2 DEF q

\* The record that comes back is written with the others.
LEMMA TidyPutPersisted ==
    ASSUME NEW G, NEW r \in Registry, NEW e \in Entries, NEW v, Tidy(G, r, {e}, v),
           NEW m \in Mount, m.vol = v
    PROVE  Passes(G, r, Persisted(Put(r, e, m)), {}, v)
<1> DEFINE p == Put(r, e, m)
<1>1. Passes(G, r, p, {}, v) /\ p \in Registry
  BY TidyPutBack, PutType DEF MaybeMount
<1> HIDE DEF p
<1>2. Tidy(G, Persisted(p), {}, v) /\ Retires(G, p, Persisted(p))
  BY <1>1, TidyPersisted DEF Passes
<1>3. Retires(G, r, Persisted(p))
  BY <1>1, <1>2, RetiresTwice DEF Passes
<1> QED
  BY <1>2, <1>3 DEF Passes, p

LEMMA TidyRetained ==
    ASSUME NEW G, NEW r \in Registry, NEW e \in Entries, NEW v, Tidy(G, r, {e}, v),
           NEW m \in Mount, m.vol = v, NEW written \in BOOLEAN
    PROVE  Passes(G, r, Retained(r, e, m, written), {}, v)
<1> DEFINE p == Put(r, e, m)
           q == [p EXCEPT !.persist = @ \cup {e}]
<1>1. Passes(G, r, p, {}, v) /\ p \in Registry
  BY TidyPutBack, PutType DEF MaybeMount
<1>2. Passes(G, r, Persisted(p), {}, v)
  BY TidyPutPersisted
<1> HIDE DEF p
<1>3. q.active = p.active /\ q.durable = p.durable /\ q.removal = p.removal
  BY <1>1 DEF Registry
<1> HIDE DEF q
<1>4. Passes(G, p, q, {}, v)
  BY <1>1, <1>3, PassesSame DEF Passes
<1>5. Passes(G, r, q, {}, v)
  BY <1>1, <1>4, RetiresTwice DEF Passes
<1> QED
  BY <1>2, <1>5 DEF Retained, p, q

\* The record of a volume that is gone is cleared, now or later.
LEMMA TidyCleared ==
    ASSUME NEW G, NEW r \in Registry, NEW e \in Entries, NEW v, Tidy(G, r, {e}, v),
           v \in G, NEW written \in BOOLEAN
    PROVE  Passes(G, r, Cleared(r, e, written), {}, v)
<1> DEFINE p == Put(r, e, NoMount)
           q == [r EXCEPT !.removal = @ \cup {e}]
<1>1. Passes(G, r, p, {e}, v) /\ p \in Registry
  BY TidyPut, PutType DEF MaybeMount
<1> HIDE DEF p
<1>2. Tidy(G, p, {}, v)
  BY <1>1, TidyFree DEF Passes
<1>3. Tidy(G, Persisted(p), {}, v) /\ Retires(G, p, Persisted(p))
  BY <1>1, <1>2, TidyPersisted
<1>4. Passes(G, r, Persisted(p), {}, v)
  BY <1>1, <1>3, RetiresTwice DEF Passes
<1>5. /\ q.active = r.active /\ q.durable = r.durable
      /\ q.removal = r.removal \cup {e}
  BY DEF Registry
<1> HIDE DEF q
<1>6. Tidy(G, q, {}, v)
  BY <1>5 DEF Tidy
<1>7. Passes(G, r, q, {}, v)
  BY <1>5, <1>6, RetiresNothing DEF Passes
<1> QED
  BY <1>4, <1>7 DEF Cleared, p, q

LEMMA TidyRetired ==
    ASSUME NEW G, NEW r \in Registry, NEW e \in Entries, NEW v, Tidy(G, r, {e}, v),
           v \in G, NEW written \in BOOLEAN
    PROVE  Passes(G, r, Retired(r, e, written), {}, v)
<1> DEFINE q == [r EXCEPT !.persist = @ \cup {e}]
<1>1. Tidy(G, r, {}, v)
  BY TidyFree
<1>2. Passes(G, r, Persisted(r), {}, v)
  BY <1>1, TidyPersisted DEF Passes
<1>3. q.active = r.active /\ q.durable = r.durable /\ q.removal = r.removal
  BY DEF Registry
<1> HIDE DEF q
<1>4. Passes(G, r, q, {}, v)
  BY <1>1, <1>3, PassesSame
<1> QED
  BY <1>2, <1>4 DEF Retired, q

LEMMA TidyUntrusted ==
    ASSUME NEW G, NEW r \in Registry, NEW H, NEW v, Tidy(G, r, H, v)
    PROVE  Passes(G, r, Untrusted(r), H, v)
<1>1. /\ Untrusted(r).active = r.active /\ Untrusted(r).durable = r.durable
      /\ Untrusted(r).removal = r.removal
  BY DEF Untrusted, Registry
<1> QED
  BY <1>1, PassesSame


\* Reconciliation drops only records of volumes that are gone.
LEMMA TidyReconciled ==
    ASSUME NEW G, NEW r \in Registry, NEW v, Tidy(G, r, {}, v), NEW known \in BOOLEAN,
           \A e \in Droppable(r) : r.active[e].vol \in G
    PROVE  Passes(G, r, Reconciled(r, known), {}, v)
<1> DEFINE table == Swept(r, known)
           p == [r EXCEPT !.active = table]
           q == IF table = r.active THEN r ELSE Persisted(p)
           trusted == [q EXCEPT !.untrusted = FALSE, !.recoverable = FALSE]
<1>1. p \in Registry /\ p.active = table /\ p.durable = r.durable /\ p.removal = r.removal
  BY SweptType DEF Registry
<1>2. ASSUME NEW e \in Entries
      PROVE  \/ table[e] = r.active[e]
             \/ table[e] = NoMount /\ r.active[e].vol \in G
             \/ /\ table[e] # NoMount /\ r.active[e] # NoMount
                /\ table[e].vol = r.active[e].vol
  <2>1. CASE known /\ e \in Droppable(r)
    BY <2>1 DEF Swept
  <2>2. CASE ~(known /\ e \in Droppable(r)) /\ e \in Missing(r)
    <3>1. table[e] = [r.active[e] EXCEPT !.cleanup = TRUE, !.absent = TRUE]
      BY <2>2 DEF Swept
    <3>2. r.active[e] \in Mount
      BY <2>2, RecordType DEF Missing, Recorded
    <3>3. table[e] \in Mount /\ table[e].vol = r.active[e].vol
      BY <3>1, <3>2 DEF Mount
    <3> QED
      BY <3>2, <3>3, SentinelsAssumption
  <2>3. CASE ~(known /\ e \in Droppable(r)) /\ e \notin Missing(r)
    BY <2>3 DEF Swept
  <2> QED
    BY <2>1, <2>2, <2>3
<1> HIDE DEF table, p
<1>3. Tidy(G, p, {}, v)
  <2>1. r.removal \subseteq Entries
    BY DEF Registry
  <2> QED
    BY <1>1, <1>2, <2>1 DEF Tidy
<1>4. Passes(G, p, Persisted(p), {}, v)
  BY <1>1, <1>3, TidyPersisted DEF Passes
<1>5. Passes(G, r, Persisted(p), {}, v)
  BY <1>1, <1>4, RetiresNothing, RetiresTwice DEF Passes
<1>6. q \in Registry /\ Passes(G, r, q, {}, v)
  BY <1>1, <1>5, PersistedType, RetiresNothing DEF Passes
<1>7. Reconciled(r, known) = IF q.recoverable /\ Accounted(table)
                             THEN trusted ELSE q
  BY DEF Reconciled, table, p
<1> HIDE DEF q
<1>8. trusted.active = q.active /\ trusted.durable = q.durable
      /\ trusted.removal = q.removal
  BY <1>6 DEF Registry
<1> HIDE DEF trusted
<1>9. Passes(G, r, trusted, {}, v)
  BY <1>6, <1>8, PassesSame, RetiresTwice DEF Passes
<1> QED
  BY <1>6, <1>7, <1>9

\* The retry of a removal drops only records of volumes that are gone.
LEMMA TidyRepaired ==
    ASSUME NEW G, NEW r \in Registry, NEW v, Tidy(G, r, {}, v)
    PROVE  Passes(G, r, Repaired(r), {}, v)
<1> DEFINE kept == [f \in Entries |-> IF f \in r.removal THEN NoMount
                                                         ELSE r.active[f]]
           p == [r EXCEPT !.removal = {}, !.active = kept]
<1>1. kept \in Table
  BY DEF Registry, Table
<1>2. \A f \in Entries : kept[f] = IF f \in r.removal THEN NoMount ELSE r.active[f]
  OBVIOUS
<1>3. Repaired(r) = Persisted(p)
  BY DEF Repaired
<1> HIDE DEF kept
<1>4. p \in Registry /\ p.active = kept /\ p.durable = r.durable /\ p.removal = {}
  BY <1>1 DEF Registry
<1> HIDE DEF p
<1>5. Tidy(G, p, {}, v)
  BY <1>4, <1>2 DEF Tidy
<1>6. Tidy(G, Persisted(p), {}, v) /\ Retires(G, p, Persisted(p))
  BY <1>4, <1>5, TidyPersisted
<1> QED
  BY <1>4, <1>3, <1>6, RetiresNothing, RetiresTwice DEF Passes

LEMMA TidyAdmitted ==
    ASSUME NEW G, reg \in Registry, NEW v, Tidy(G, reg, {}, v), NEW known \in BOOLEAN,
           \A e \in Droppable(reg) : reg.active[e].vol \in G, NEW e \in Entries
    PROVE  Passes(G, reg, Admitted(e, known), {}, v)
<1> DEFINE q == Reconciled(reg, known)
<1>1. q \in Registry /\ Passes(G, reg, q, {}, v)
  BY ReconciledType, TidyReconciled
<1>2. Admitted(e, known) = IF Blocked(q, e) THEN Repaired(q) ELSE q
  BY DEF Admitted
<1> HIDE DEF q
<1>3. Passes(G, q, Repaired(q), {}, v)
  BY <1>1, TidyRepaired DEF Passes
<1> QED
  BY <1>1, <1>2, <1>3, RetiresTwice DEF Passes

-----------------------------------------------------------------------------
(* The volumes that are gone.                                              *)

\* The volume of a record whose vault is closed and whose letter is gone.
LEMMA FitsGone ==
    ASSUME NEW held, NEW whose, NEW letters, NEW e, NEW m \in Mount,
           Fits(held, whose, e, m), m.vol \notin letters,
           \/ held[m.slot] = 0
           \/ \A s \in Slots : held[s] # 0 => whose[held[s]] # e
    PROVE  m.vol \in GoneIn(held, letters)
<1>1. m.vol \in Gens /\ m.vol # 0
  BY DEF Mount, Gens
<1>2. ASSUME NEW s \in Slots, held[s] = m.vol PROVE FALSE
  BY <1>1, <1>2 DEF Fits
<1> QED
  BY <1>1, <1>2 DEF GoneIn

\* What is gone stays gone: a volume number is used once.
LEMMA GoneStep ==
    ASSUME TypeInv, VolumeInv, [Next]_vars, NEW v \in Gens, volumes[v] \in Entries,
           v \in GoneSet
    PROVE  v \in GoneSet'
<1>1. TypeOK /\ v \in Opened /\ v # 0
  BY SentinelsAssumption DEF TypeInv, Opened, Gens
<1>2. v \notin alias /\ \A s \in Slots : slots[s] # v
  BY DEF GoneSet, GoneIn
<1>3. ASSUME NEW e \in Entries, NEW l \in Logons, MountOpen(e, l)
      PROVE  v \notin alias' /\ \A s \in Slots : slots'[s] # v
  <2>1. PICK t \in Slots, g \in Gens : Places(t, g, e) /\ alias' = alias \cup {g}
    BY <1>3, MountOpenCases
  <2>2. g \notin Opened
    BY <1>1, <2>1, FreshVolume DEF Places
  <2>3. slots'[t] = g /\ \A s \in Slots \ {t} : slots'[s] = slots[s]
    BY <1>1, <2>1, OpenVolume, SentinelsAssumption
  <2> QED
    BY <1>1, <1>2, <2>1, <2>2, <2>3
<1>4. ASSUME ~\E e \in Entries, l \in Logons : MountOpen(e, l)
      PROVE  v \notin alias' /\ \A s \in Slots : slots'[s] # v
  <2>1. DriverStep
    BY <1>4, NextDriver
  <2>2. volumes'[v] # Foreign
    BY <1>1, <2>1, EntriesAssumption DEF DriverStep
  <2> QED
    BY <1>1, <1>2, <2>1, <2>2 DEF DriverStep
<1> QED
  BY <1>3, <1>4 DEF GoneSet, GoneIn


-----------------------------------------------------------------------------
(* CleanInv, action by action.                                             *)

\* The entry of the operation in progress.
Hands == {e \in Entries : op \in OpMount /\ op.e = e}

\* A registry that could not be read: nothing is in the map, and nothing is
\* written until the service starts again.
Blind == ReconcileRefused(reg) /\ reg.active = NoTable /\ op = NoOp

\* What boot cleanup has decided so far.
BootClean ==
    up = "boot" =>
        /\ reg.active = reg.durable
        /\ \A e \in Entries \ op.todo :
              IF op.keep[e] = NoMount
              THEN reg.durable[e] # NoMount => reg.durable[e].vol \in GoneSet
              ELSE /\ reg.durable[e] # NoMount
                   /\ op.keep[e].vol = reg.durable[e].vol

\* A successful broker call took the letter away, but for that of a logon that
\* is over.
LetterInv ==
    /\ At("client") => ~op.over
    /\ At("clientShut") /\ op.ok => op.m.vol \notin alias
    /\ At("memberShut") /\ op.ok /\ op.e \notin PerUser => op.m.vol \notin alias

\* A mount that is not saved has no record in the file; an enrolment keeps the
\* one it was asked for in the map.
StageInv ==
    /\ (op \in OpMount /\ op.pc \in {"opened", "badReply", "badRoot", "unseen", "unsaved"})
          => reg.durable[op.e] = NoMount
    /\ At("enroll") => reg.active[op.e] # NoMount

CleanInv ==
    /\ Serving => Blind \/ Tidy(GoneSet, reg, Hands, op.m.vol)
    /\ ~Serving => reg.removal = {}
    /\ up = "down" => reg.active = NoTable /\ op = NoOp
    /\ BootClean
    /\ LetterInv
    /\ StageInv

\* What every step has to show.
CleanStep == Retires(GoneSet', reg, reg') /\ CleanInv'

\* A step that ends its operation.
LEMMA CleanEnds ==
    ASSUME op' = NoOp, up' \in {"up", "stopping"}, NEW v,
           Passes(GoneSet', reg, reg', {}, v)
    PROVE  CleanStep
<1>1. Hands' = {} /\ Serving' /\ ~(up' = "boot") /\ ~(up' = "down")
  BY SentinelsAssumption DEF Hands, Serving
<1>2. Tidy(GoneSet, reg, Hands, op.m.vol)'
  BY <1>1 DEF Passes, Tidy
<1>3. LetterInv' /\ StageInv'
  BY SentinelsAssumption DEF LetterInv, StageInv, At
<1> QED
  BY <1>1, <1>2, <1>3 DEF CleanStep, CleanInv, BootClean, Passes

\* A step that goes on with its volume in hand.
LEMMA CleanGoes ==
    ASSUME op' \in OpMount, op'.e \in Entries, up' \in {"up", "stopping"}, LetterInv', StageInv',
           Passes(GoneSet', reg, reg', {op'.e}, op'.m.vol)
    PROVE  CleanStep
<1>1. Hands' = {op'.e} /\ Serving' /\ ~(up' = "boot") /\ ~(up' = "down")
  BY DEF Hands, Serving
<1>2. Tidy(GoneSet, reg, Hands, op.m.vol)'
  BY <1>1 DEF Passes, Tidy
<1> QED
  BY <1>1, <1>2 DEF CleanStep, CleanInv, BootClean, Passes

\* What is gone stays gone for the records of the map and of the file.
LEMMA RecordGone ==
    ASSUME SafeInv, [Next]_vars, NEW e \in Entries
    PROVE  /\ reg.durable[e] # NoMount /\ reg.durable[e].vol \in GoneSet
              => reg.durable[e].vol \in GoneSet'
           /\ reg.active[e] # NoMount /\ reg.active[e].vol \in GoneSet
              => reg.active[e].vol \in GoneSet'
<1>1. TypeInv /\ VolumeInv /\ reg \in Registry
  BY DEF SafeInv, TypeInv, TypeOK
<1>2. ASSUME NEW m \in Mount, Fits(slots, volumes, e, m), m.vol \in GoneSet
      PROVE  m.vol \in GoneSet'
  <2>1. m.vol \in Gens /\ volumes[m.vol] \in Entries
    BY <1>2 DEF Mount, Fits
  <2> QED
    BY <1>1, <1>2, <2>1, GoneStep
<1>3. /\ reg.durable[e] # NoMount => reg.durable[e] \in Mount
      /\ reg.active[e] # NoMount => reg.active[e] \in Mount
  BY <1>1 DEF Registry, Table
<1>4. /\ reg.durable[e] # NoMount => Fits(slots, volumes, e, reg.durable[e])
      /\ reg.active[e] # NoMount => Fits(slots, volumes, e, reg.active[e])
  BY DEF SafeInv, RecordInv, RegSound, Sound
<1> QED
  BY <1>2, <1>3, <1>4

\* The registry before a step, with what is gone after it.
LEMMA TidyCarry ==
    ASSUME SafeInv, [Next]_vars, Tidy(GoneSet, reg, Hands, op.m.vol)
    PROVE  Tidy(GoneSet', reg, Hands, op.m.vol)
<1>1. TypeInv /\ VolumeInv /\ reg \in Registry
  BY DEF SafeInv, TypeInv, TypeOK
<1>2. \A e \in Hands : op.m.vol \in GoneSet => op.m.vol \in GoneSet'
  <2>1. op \in OpMount => /\ op.e \in Entries /\ op.m.vol \in Gens
                          /\ Fits(slots, volumes, op.e, op.m)
    BY DEF SafeInv, OpInv, OpSound, OpMount, Mount
  <2> QED
    BY <1>1, <2>1, GoneStep DEF Hands, Fits
<1>3. reg.removal \subseteq Entries
  BY <1>1 DEF Registry
<1> QED
  BY <1>2, <1>3, RecordGone DEF Tidy

\* The same at rest, and in the middle of an operation.
LEMMA TidyRest ==
    ASSUME SafeInv, CleanInv, [Next]_vars, Serving, op = NoOp, ~Blind
    PROVE  Tidy(GoneSet', reg, {}, 0)
<1>1. Hands = {}
  BY SentinelsAssumption DEF Hands
<1>2. Tidy(GoneSet', reg, Hands, op.m.vol)
  BY TidyCarry DEF CleanInv
<1> QED
  BY <1>1, <1>2 DEF Tidy

LEMMA TidyBusy ==
    ASSUME SafeInv, CleanInv, [Next]_vars, Serving, op \in OpMount
    PROVE  Tidy(GoneSet', reg, {op.e}, op.m.vol)
<1>1. Hands = {op.e} /\ ~Blind
  BY SentinelsAssumption DEF Hands, Blind, OpMount
<1>2. Tidy(GoneSet', reg, Hands, op.m.vol)
  BY <1>1, TidyCarry DEF CleanInv
<1> QED
  BY <1>1, <1>2

\* What reconciliation may drop is gone.
LEMMA DroppableGone ==
    ASSUME SafeInv, [Next]_vars, NEW e \in Droppable(reg)
    PROVE  reg.active[e].vol \in GoneSet'
<1>1. e \in Entries /\ reg.active[e] # NoMount /\ slots[reg.active[e].slot] = 0
      /\ reg.active[e].vol \notin alias
  BY DEF Droppable, Missing, Recorded, LetterGone
<1>2. reg.active[e] \in Mount /\ Fits(slots, volumes, e, reg.active[e])
  BY <1>1, RecordType DEF SafeInv, TypeInv, TypeOK, RecordInv, RegSound, Sound
<1>3. reg.active[e].vol \in GoneSet
  BY <1>1, <1>2, FitsGone DEF GoneSet
<1>4. reg.active[e].vol \in Gens /\ volumes[reg.active[e].vol] \in Entries
  BY <1>1, <1>2 DEF Mount, Fits
<1> QED
  BY <1>3, <1>4, GoneStep DEF SafeInv


\* An operation runs only in a service that is up.
LEMMA OpServing ==
    ASSUME SafeInv, CleanInv, NEW pc, At(pc), pc # "boot"
    PROVE  op \in OpMount /\ op.e \in Entries /\ op.m \in Mount /\ op.pc = pc /\ Serving
           /\ up \in {"up", "stopping"} /\ reg \in Registry
           /\ TypeInv /\ TypeOK /\ OpSound(slots, volumes, op)
<1>1. TypeInv /\ TypeOK /\ reg \in Registry
  BY DEF SafeInv, TypeInv, TypeOK
<1>2. op \in OpMount /\ up # "boot" /\ op.pc = pc
  BY <1>1, OpMountType DEF At
<1>3. up # "down"
  BY <1>2, SentinelsAssumption DEF CleanInv
<1>4. op.e \in Entries /\ op.m \in Mount
  BY <1>2 DEF OpMount
<1>5. OpSound(slots, volumes, op)
  BY <1>2 DEF SafeInv, OpInv
<1>6. up \in {"up", "stopping"} /\ Serving
  BY <1>1, <1>2, <1>3 DEF TypeOK, Serving
<1> QED
  BY <1>1, <1>2, <1>4, <1>5, <1>6

\* Without a record in the file nothing is in hand that could be lost.
LEMMA TidyFresh ==
    ASSUME NEW G, NEW r \in Registry, NEW e \in Entries, NEW v, NEW w,
           Tidy(G, r, {e}, v), r.durable[e] = NoMount
    PROVE  Tidy(G, r, {}, w)
BY DEF Tidy

\* A step that leaves the registry and the operation alone.
LEMMA QuietClean ==
    ASSUME SafeInv, CleanInv, [Next]_vars, Quiet PROVE CleanStep
<1>1. UNCHANGED <<reg, op>> /\ alias' = alias
      /\ (up' = up \/ (up = "up" /\ up' = "stopping"))
  <2>1. CASE Stop
    BY <2>1 DEF Stop, Idle, driver
  <2>2. CASE UNCHANGED vars
    BY <2>2 DEF vars, driver
  <2> QED
    BY <2>1, <2>2 DEF Quiet, Authorize, AlreadyUnmounted, EnrollPrepare, ChangePolicy,
       SaveAccessDirectory, SessionChange, LogonEnds, SessionCleanupEnds,
       ClosedOutside, OpenedOutside, driver
<1>2. Hands' = Hands
  BY <1>1 DEF Hands
<1>3. ASSUME Serving' PROVE Blind' \/ Tidy(GoneSet, reg, Hands, op.m.vol)'
  <2>1. Serving
    BY <1>1, <1>3 DEF Serving
  <2>2. CASE Blind
    BY <1>1, <2>2 DEF Blind, ReconcileRefused
  <2>3. CASE Tidy(GoneSet, reg, Hands, op.m.vol)
    <3>1. Tidy(GoneSet', reg, Hands, op.m.vol)
      BY <2>3, TidyCarry
    <3> QED
      BY <1>1, <1>2, <3>1 DEF Tidy
  <2> QED
    BY <2>1, <2>2, <2>3 DEF CleanInv
<1>4. BootClean'
  BY <1>1, RecordGone DEF CleanInv, BootClean
<1>5. LetterInv' /\ StageInv'
  BY <1>1 DEF CleanInv, LetterInv, StageInv, At
<1>6. (~Serving' => reg'.removal = {})
      /\ (up' = "down" => reg'.active = NoTable /\ op' = NoOp)
  BY <1>1 DEF CleanInv, Serving
<1> QED
  BY <1>1, <1>3, <1>4, <1>5, <1>6, RetiresNothing DEF CleanStep, CleanInv

\* A process that ends leaves the file.
LEMMA ExitsClean ==
    ASSUME Exits PROVE CleanStep
<1>1. reg'.active = NoTable /\ reg'.durable = reg.durable /\ reg'.removal = {}
  BY DEF Exits, Forgotten, EmptyRegistry
<1>2. up' = "down" /\ op' = NoOp
  BY DEF Exits
<1>3. LetterInv' /\ StageInv'
  BY <1>2, SentinelsAssumption DEF LetterInv, StageInv, At
<1> QED
  BY <1>1, <1>2, <1>3, RetiresNothing DEF CleanStep, CleanInv, BootClean, Serving

\* A registry whose map is its file, with nothing to remove.
LEMMA TidyLoaded ==
    ASSUME NEW G, NEW r, r.active = r.durable, r.removal = {} PROVE Tidy(G, r, {}, 0)
BY DEF Tidy

LEMMA BootLoadClean ==
    ASSUME SafeInv, CleanInv, BootLoad PROVE CleanStep
<1>1. reg \in Registry /\ TypeInv /\ up = "down"
  BY DEF SafeInv, TypeInv, TypeOK, BootLoad
<1>2. reg.active = NoTable /\ reg.removal = {}
  BY <1>1 DEF CleanInv, Serving
<1>3. reg'.durable = reg.durable /\ reg'.removal = {}
  BY <1>1, <1>2, BootLoadCases
<1>4. Retires(GoneSet', reg, reg')
  BY <1>3, RetiresNothing
<1>5. CASE reg' = Untrusted(reg) /\ up' = "up" /\ op' = NoOp
  <2>1. ReconcileRefused(reg') /\ reg'.active = NoTable
    BY <1>1, <1>2, <1>5 DEF Untrusted, ReconcileRefused, Registry
  <2>2. Blind'
    BY <1>5, <2>1 DEF Blind, ReconcileRefused
  <2>3. LetterInv' /\ StageInv'
    BY <1>5, SentinelsAssumption DEF LetterInv, StageInv, At
  <2> QED
    BY <1>4, <1>5, <2>2, <2>3 DEF CleanStep, CleanInv, BootClean, Serving
<1>6. CASE reg'.active = reg.durable /\ up' = "up" /\ op' = NoOp
  <2>1. Tidy(GoneSet', reg', {}, 0)
    BY <1>3, <1>6, TidyLoaded
  <2> QED
    BY <1>4, <1>6, <2>1, CleanEnds DEF Passes
<1>7. CASE /\ reg'.active = reg.durable /\ up' = "boot"
           /\ op' = [pc |-> "boot", todo |-> Recorded(reg.durable), keep |-> NoTable]
  <2>1. op'.pc = "boot" /\ op'.todo = Recorded(reg.durable) /\ op'.keep = NoTable
    BY <1>7
  <2>2. op' \notin OpMount
    BY <2>1 DEF OpMount
  <2>3. BootClean'
    BY <1>3, <1>7, <2>1 DEF BootClean, Recorded, NoTable
  <2>4. LetterInv' /\ StageInv'
    BY <2>1, <2>2 DEF LetterInv, StageInv, At
  <2> QED
    BY <1>3, <1>4, <1>7, <2>3, <2>4 DEF CleanStep, CleanInv, Serving
<1> QED
  BY <1>1, <1>5, <1>6, <1>7, BootLoadCases

\* Boot cleanup drops the record of an entry only when its volume is gone.
LEMMA BootEntryClean ==
    ASSUME SafeInv, CleanInv, [Next]_vars, NEW e \in Entries, BootEntry(e)
    PROVE  CleanStep
<1> DEFINE m == reg.active[e]
<1>1. TypeInv /\ TypeOK /\ VolumeInv /\ m \in Mount /\ op \in OpBoot /\ e \in op.todo
  BY BootEntryCases DEF SafeInv, TypeInv
<1>2. up = "boot" /\ up' = "boot" /\ reg' = reg /\ reg.active = reg.durable
      /\ reg.removal = {}
  BY DEF BootEntry, CleanInv, BootClean, Serving
<1>3. PICK x \in MaybeMount :
        /\ op' = [op EXCEPT !.todo = @ \ {e}, !.keep[e] = x]
        /\ x = NoMount => m.vol \notin alias' /\ slots'[m.slot] = 0
        /\ x # NoMount => x.vol = m.vol
  BY <1>1, BootEntryCases
<1>4. op'.pc = "boot" /\ op'.todo = op.todo \ {e} /\ op'.keep[e] = x
      /\ \A f \in Entries \ {e} : op'.keep[f] = op.keep[f]
  <2>1. op' = Kept(op, e, x)
    BY <1>3 DEF Kept
  <2> QED
    BY <1>1, <2>1, BootKeep
<1>5. Fits(slots, volumes, e, m)
  BY <1>1, SentinelsAssumption DEF SafeInv, RecordInv, RegSound, Sound
<1> HIDE DEF m
<1>6. Fits(slots', volumes', e, m)
  <2>1. DriverStep
    BY <1>1, <1>2, NextDriver DEF MountOpen, Idle
  <2> QED
    BY <1>1, <1>5, <2>1, FitsStep
<1>7. x = NoMount => m.vol \in GoneSet'
  BY <1>1, <1>3, <1>6, FitsGone DEF GoneSet
<1>8. m = reg.durable[e] /\ m # NoMount
  BY <1>1, <1>2, SentinelsAssumption DEF m
<1>9. BootClean'
  <2> SUFFICES ASSUME NEW f \in Entries \ op'.todo
               PROVE  IF op'.keep[f] = NoMount
                      THEN reg.durable[f] # NoMount => reg.durable[f].vol \in GoneSet'
                      ELSE /\ reg.durable[f] # NoMount
                           /\ op'.keep[f].vol = reg.durable[f].vol
    BY <1>2 DEF BootClean
  <2>1. CASE f = e
    BY <1>3, <1>4, <1>7, <1>8, <2>1
  <2>2. CASE f # e
    BY <1>2, <1>4, <2>2, RecordGone DEF CleanInv, BootClean
  <2> QED
    BY <2>1, <2>2
<1>10. LetterInv' /\ StageInv'
  BY <1>4 DEF LetterInv, StageInv, At, OpMount
<1> QED
  BY <1>2, <1>9, <1>10, RetiresNothing DEF CleanStep, CleanInv, Serving

LEMMA BootClosed ==
    ASSUME SafeInv, CleanInv, [Next]_vars,
           BootFinish \/ \E e \in Entries : BootAborted(e)
    PROVE  CleanStep
<1>1. reg \in Registry /\ up = "boot" /\ up' = "up" /\ op' = NoOp
  BY DEF SafeInv, TypeInv, TypeOK, BootFinish, BootAborted
<1>2. reg.active = reg.durable /\ reg.removal = {}
  BY <1>1 DEF CleanInv, BootClean, Serving
<1>3. CASE reg' = Untrusted(reg)
  <2>1. Tidy(GoneSet', reg, {}, 0)
    BY <1>2, TidyLoaded
  <2> QED
    BY <1>1, <1>3, <2>1, TidyUntrusted, CleanEnds
<1>4. CASE BootFinish /\ reg' = [reg EXCEPT !.active = op.keep, !.durable = op.keep]
  <2>1. reg'.active = op.keep /\ reg'.durable = op.keep /\ reg'.removal = {}
    BY <1>1, <1>2, <1>4 DEF Registry
  <2>2. Tidy(GoneSet', reg', {}, 0)
    BY <2>1, TidyLoaded
  <2>3. op.todo = {}
    BY <1>4 DEF BootFinish
  <2>4. Retires(GoneSet', reg, reg')
    BY <1>1, <2>1, <2>3, RecordGone DEF CleanInv, BootClean, Retires
  <2> QED
    BY <1>1, <2>2, <2>4, CleanEnds DEF Passes
<1> QED
  BY <1>3, <1>4 DEF BootFinish, BootAborted


\* A broker that could not read its registry changes nothing.
LEMMA BlindClean ==
    ASSUME SafeInv, Serving, Blind, NEW e \in Entries, NEW l \in Logons,
           \/ MountRefused(e, l) \/ MountDeclined(e, l) \/ MountOpen(e, l)
           \/ Dismount(e, l) \/ SessionCleanup(e) \/ StopNext(e) \/ EnrollMark
    PROVE  CleanStep
<1>1. TypeInv /\ ReconcileRefused(reg) /\ op = NoOp /\ \A f \in Entries : reg.active[f] = NoMount
  BY DEF SafeInv, Blind, NoTable
<1>2. ~Dismount(e, l) /\ ~SessionCleanup(e) /\ ~StopNext(e)
  BY <1>1 DEF Dismount, SessionCleanup, StopNext
<1>3. ~MountDeclined(e, l) /\ ~MountOpen(e, l)
  BY <1>1 DEF MountDeclined, MountOpen, Admissible
<1>4. UNCHANGED <<reg, op, up>>
  <2>1. CASE MountRefused(e, l)
    BY <1>1, <2>1 DEF MountRefused
  <2>2. CASE EnrollMark
    BY <1>1, <2>2, EnrollMarkCases DEF EnrollMark, EnrollEligible
  <2> QED
    BY <1>2, <1>3, <2>1, <2>2
<1>5. Blind'
  BY <1>4 DEF Blind, ReconcileRefused
<1>6. LetterInv' /\ StageInv'
  BY <1>1, <1>4, SentinelsAssumption DEF LetterInv, StageInv, At
<1> QED
  BY <1>4, <1>5, <1>6, RetiresNothing DEF CleanStep, CleanInv, BootClean, Serving

\* The registry after reconciliation or repair, at rest.
LEMMA MountRefusedClean ==
    ASSUME SafeInv, CleanInv, [Next]_vars, ~Blind, NEW e \in Entries, NEW l \in Logons,
           MountRefused(e, l) \/ MountDeclined(e, l)
    PROVE  CleanStep
<1>1. op = NoOp /\ op' = NoOp /\ up = "up" /\ up' = "up" /\ reg \in Registry /\ Serving
  BY DEF MountRefused, MountDeclined, Idle, SafeInv, TypeInv, TypeOK, Serving
<1>2. Tidy(GoneSet', reg, {}, 0)
  BY <1>1, TidyRest
<1>3. \A f \in Droppable(reg) : reg.active[f].vol \in GoneSet'
  BY DroppableGone
<1>4. reg' = reg \/ (\E known \in BOOLEAN : reg' = Reconciled(reg, known)
                                           \/ reg' = Admitted(e, known))
  BY DEF MountRefused, MountDeclined
<1>5. Passes(GoneSet', reg, reg', {}, 0)
  BY <1>1, <1>2, <1>3, <1>4, TidyReconciled, TidyAdmitted, RetiresNothing DEF Passes
<1> QED
  BY <1>1, <1>5, CleanEnds

\* A vault is opened only when the file has no record of it.
LEMMA MountOpenClean ==
    ASSUME SafeInv, SafeInv', CleanInv, [Next]_vars, ~Blind,
           NEW e \in Entries, NEW l \in Logons, MountOpen(e, l)
    PROVE  CleanStep
<1>1. op = NoOp /\ up = "up" /\ up' = "up" /\ reg \in Registry /\ Serving /\ TypeInv
      /\ reg' \in Registry /\ AgreeInv'
  BY DEF MountOpen, Idle, SafeInv, TypeInv, TypeOK, Serving
<1>2. Tidy(GoneSet', reg, {}, 0)
  BY <1>1, TidyRest
<1>3. \A f \in Droppable(reg) : reg.active[f].vol \in GoneSet'
  BY DroppableGone
<1>4. PICK known \in BOOLEAN, s \in Slots, g \in Gens :
        /\ reg' = Admitted(e, known) /\ reg'.active[e] = NoMount
        /\ ~ReconcileRefused(reg') /\ e \notin reg'.persist /\ reg'.removal = {}
        /\ \/ op' = NoOp
           \/ op' = [pc |-> "opened", e |-> e, l |-> l, live |-> TRUE,
                     over |-> FALSE, ok |-> FALSE,
                     m |-> [logon |-> l, slot |-> s, id |-> 0, vol |-> g,
                            managed |-> FALSE, unresolved |-> e \in SyncOn,
                            cleanup |-> FALSE, absent |-> FALSE]]
  BY <1>1, MountOpenCases
<1>5. Passes(GoneSet', reg, reg', {}, 0)
  BY <1>1, <1>2, <1>3, <1>4, TidyAdmitted
<1>6. CASE op' = NoOp
  BY <1>1, <1>5, <1>6, CleanEnds
<1>7. CASE op' # NoOp
  <2>1. op'.pc = "opened" /\ op'.e = e /\ op'.m.vol = g /\ op' \in OpMount
    <3>1. op'.pc = "opened" /\ op'.e = e /\ op'.m.vol = g
      BY <1>4, <1>7
    <3>2. op' \in OpMount
      BY <1>7, <3>1 DEF SafeInv, TypeInv, TypeOK, OpBoot
    <3> QED
      BY <3>1, <3>2
  <2>2. reg'.durable[e] = NoMount
    <3>1. Busy' = {}
      BY <2>1 DEF Busy
    <3>2. Agreed(reg', {})
      BY <1>1, <3>1 DEF AgreeInv, Serving, Agreed, Agrees, ReconcileRefused
    <3>3. Agrees(reg', e)
      BY <1>4, <3>2 DEF Agreed
    <3> QED
      BY <1>4, <3>3 DEF Agrees
  <2>3. LetterInv' /\ StageInv'
    BY <2>1, <2>2 DEF LetterInv, StageInv, At
  <2>4. Passes(GoneSet', reg, reg', {op'.e}, op'.m.vol)
    BY <1>4, <1>5, <2>1 DEF Passes, Tidy
  <2> QED
    BY <1>1, <2>1, <2>3, <2>4, CleanGoes
<1> QED
  BY <1>6, <1>7

LEMMA MountRejectedClean ==
    ASSUME SafeInv, CleanInv, [Next]_vars, MountRejected PROVE CleanStep
<1>1. op \in OpMount /\ op.e \in Entries /\ op.m \in Mount /\ op.pc = "opened" /\ Serving
      /\ up \in {"up", "stopping"}
  BY OpServing DEF MountRejected
<1>2. op' \in OpMount /\ op'.e = op.e /\ op'.m = op.m
      /\ op'.pc \in {"badReply", "badRoot"} /\ reg' = reg /\ up' = up
  BY <1>1 DEF MountRejected, OpMount
<1>3. Tidy(GoneSet', reg, {op.e}, op.m.vol)
  BY <1>1, TidyBusy
<1>4. LetterInv' /\ StageInv'
  BY <1>1, <1>2 DEF CleanInv, LetterInv, StageInv, At
<1> QED
  BY <1>1, <1>2, <1>3, <1>4, CleanGoes, RetiresNothing DEF Passes

\* The record of a new mount: put in the map, in the file, or neither.
LEMMA MountRecordClean ==
    ASSUME SafeInv, CleanInv, [Next]_vars, MountRecord PROVE CleanStep
<1>1. op \in OpMount /\ op.e \in Entries /\ op.m \in Mount /\ op.pc = "opened" /\ Serving
      /\ up \in {"up", "stopping"} /\ reg \in Registry /\ TypeInv /\ TypeOK
  BY OpServing DEF MountRecord
<1>2. up' = up /\ alias' = alias
  BY DEF MountRecord, driver
<1>3. Tidy(GoneSet', reg, {op.e}, op.m.vol) /\ reg.durable[op.e] = NoMount
  BY <1>1, TidyBusy DEF CleanInv, StageInv
<1> DEFINE seen(looked) == IF looked THEN slots[op.m.slot] ELSE 0
           m(looked) == [op.m EXCEPT !.id = seen(looked)]
<1>4. PICK looked \in BOOLEAN, written \in BOOLEAN, again \in BOOLEAN :
        /\ reg' = IF seen(looked) # 0 /\ written THEN Persisted(Put(reg, op.e, m(looked)))
                  ELSE IF seen(looked) # 0 /\ op.e \notin Policy THEN Put(reg, op.e, m(looked))
                  ELSE reg
        /\ op' = IF seen(looked) = 0 THEN [op EXCEPT !.pc = "unseen"]
                 ELSE IF ~written
                      THEN [op EXCEPT !.pc = "unsaved", !.m = m(looked)]
                 ELSE IF op.e \in SyncOn
                      THEN [op EXCEPT !.pc = "resume", !.m = m(looked)]
                 ELSE NoOp
  BY Zenon DEF MountRecord
<1>5. m(looked) \in Mount /\ m(looked).vol = op.m.vol
  <2>1. seen(looked) \in 0 .. MaxGen /\ op.m.slot \in Slots
    BY <1>1, BoundsAssumption DEF Mount, TypeOK
  <2> QED
    BY <1>1, <2>1 DEF Mount
<1> HIDE DEF m, seen
<1> DEFINE p == Put(reg, op.e, m(looked))
<1>6. p \in Registry /\ p.durable = reg.durable /\ Passes(GoneSet', reg, p, {op.e}, op.m.vol)
  <2>1. m(looked) \in MaybeMount
    BY <1>5 DEF MaybeMount
  <2>2. p \in Registry /\ Passes(GoneSet', reg, p, {op.e}, op.m.vol)
    BY <1>1, <1>3, <1>5, <2>1, PutType, TidyPut
  <2>3. p.durable = reg.durable
    BY <1>1 DEF Put, Registry
  <2> QED
    BY <2>2, <2>3
<1>7. Passes(GoneSet', reg, Persisted(p), {}, op.m.vol)
  BY <1>1, <1>3, <1>5, TidyPutPersisted
<1>8. Tidy(GoneSet', Persisted(p), {op.e}, op.m.vol)
  BY <1>6, TidyPersisted DEF Passes
<1> HIDE DEF p
<1>9. CASE seen(looked) = 0 \/ ~written
  <2>1. op' \in OpMount /\ op'.pc \in {"unseen", "unsaved"} /\ op'.e = op.e
        /\ op'.m.vol = op.m.vol
    BY <1>1, <1>4, <1>5, <1>9 DEF OpMount
  <2>2. reg' = reg \/ reg' = p
    BY <1>4, <1>9 DEF p
  <2>3. reg'.durable[op.e] = NoMount /\ Passes(GoneSet', reg, reg', {op.e}, op.m.vol)
    BY <1>3, <1>6, <2>2, RetiresNothing DEF Passes
  <2>4. LetterInv' /\ StageInv'
    BY <2>1, <2>3 DEF LetterInv, StageInv, At
  <2> QED
    BY <1>1, <1>2, <2>1, <2>3, <2>4, CleanGoes
<1>10. CASE seen(looked) # 0 /\ written /\ op.e \notin SyncOn
  BY <1>1, <1>2, <1>4, <1>7, <1>10, CleanEnds DEF p
<1>11. CASE seen(looked) # 0 /\ written /\ op.e \in SyncOn
  <2>1. op' \in OpMount /\ op'.pc = "resume" /\ op'.e = op.e /\ op'.m.vol = op.m.vol
    BY <1>1, <1>4, <1>5, <1>11 DEF OpMount
  <2>2. reg' = Persisted(p)
    BY <1>4, <1>11 DEF p
  <2>3. LetterInv' /\ StageInv'
    BY <2>1 DEF LetterInv, StageInv, At
  <2> QED
    BY <1>1, <1>2, <1>7, <1>8, <2>1, <2>2, <2>3, CleanGoes DEF Passes
<1> QED
  BY <1>9, <1>10, <1>11


\* The record in hand is still true of the driver after the step.
LEMMA HandFits ==
    ASSUME SafeInv, CleanInv, [Next]_vars, op \in OpMount
    PROVE  DriverStep /\ Fits(slots', volumes', op.e, op.m)
<1>1. TypeInv /\ TypeOK /\ VolumeInv /\ op.e \in Entries /\ op.m \in Mount
      /\ Fits(slots, volumes, op.e, op.m)
  BY DEF SafeInv, TypeInv, OpMount, OpInv, OpSound
<1>2. ~\E e \in Entries, l \in Logons : MountOpen(e, l)
  BY SentinelsAssumption DEF MountOpen, Idle
<1>3. DriverStep
  BY <1>1, <1>2, NextDriver
<1> QED
  BY <1>1, <1>3, FitsStep

LEMMA MountDiscardClean ==
    ASSUME SafeInv, CleanInv, [Next]_vars, MountDiscard PROVE CleanStep
<1>1. op \in OpMount /\ op.e \in Entries /\ op.m \in Mount /\ Serving
      /\ op.pc \in {"badReply", "badRoot"}
      /\ up \in {"up", "stopping"} /\ reg \in Registry /\ TypeInv /\ TypeOK
  BY OpServing DEF MountDiscard
<1>2. up' = up /\ op' = NoOp
  BY DEF MountDiscard
<1>3. Tidy(GoneSet', reg, {op.e}, op.m.vol) /\ reg.durable[op.e] = NoMount
  BY <1>1, TidyBusy DEF CleanInv, StageInv
<1>4. PICK ok \in BOOLEAN, shut \in BOOLEAN, clean \in BOOLEAN, looked \in BOOLEAN :
        /\ Closes(op.m, ok, shut, clean)
        /\ \/ reg' = reg
           \/ reg' = Retained(reg, op.e, Discarded(looked), TRUE)
           \/ reg' = Untrusted(Retained(reg, op.e, Discarded(looked), FALSE))
  BY MountDiscardCases
<1>5. Discarded(looked) \in Mount /\ Discarded(looked).vol = op.m.vol
  <2>1. slots' \in [Slots -> 0 .. MaxGen] /\ op.m.slot \in Slots
    BY <1>1, <1>4, ClosesType DEF Mount
  <2>2. (IF looked THEN slots'[op.m.slot] ELSE 0) \in 0 .. MaxGen
    BY <2>1, BoundsAssumption
  <2> QED
    BY <1>1, <2>2 DEF Mount, Discarded
<1>6. ASSUME NEW written \in BOOLEAN
      PROVE  LET r == Retained(reg, op.e, Discarded(looked), written)
             IN  r \in Registry /\ Passes(GoneSet', reg, r, {}, op.m.vol)
  BY <1>1, <1>3, <1>5, TidyRetained, RetainedType DEF MaybeMount
<1> DEFINE r == Retained(reg, op.e, Discarded(looked), FALSE)
<1>7. r \in Registry /\ Passes(GoneSet', reg, r, {}, op.m.vol)
      /\ Passes(GoneSet', reg, Retained(reg, op.e, Discarded(looked), TRUE), {}, op.m.vol)
  <2>1. TRUE \in BOOLEAN /\ FALSE \in BOOLEAN
    OBVIOUS
  <2> QED
    BY <1>6, <2>1
<1> HIDE DEF r
<1>8. Passes(GoneSet', reg, Untrusted(r), {}, op.m.vol)
  BY <1>7, TidyUntrusted, RetiresTwice DEF Passes
<1>9. Passes(GoneSet', reg, reg, {}, op.m.vol)
  BY <1>1, <1>3, TidyFresh, RetiresNothing DEF Passes
<1> QED
  BY <1>1, <1>2, <1>4, <1>7, <1>8, <1>9, CleanEnds DEF r

\* A mount that is undone: its record is cleared only when the volume is gone.
LEMMA MountUndoClean ==
    ASSUME SafeInv, CleanInv, [Next]_vars, MountUndo PROVE CleanStep
<1>1. op \in OpMount /\ op.e \in Entries /\ op.m \in Mount /\ Serving
      /\ op.pc \in {"unseen", "unsaved"}
      /\ up \in {"up", "stopping"} /\ reg \in Registry /\ TypeInv /\ TypeOK
  BY OpServing DEF MountUndo
<1>2. up' = up /\ op' = NoOp
  BY DEF MountUndo
<1>3. Tidy(GoneSet', reg, {op.e}, op.m.vol) /\ reg.durable[op.e] = NoMount
  BY <1>1, TidyBusy DEF CleanInv, StageInv
<1>4. PICK ok \in BOOLEAN, shut \in BOOLEAN, clean \in BOOLEAN, looked \in BOOLEAN,
           written \in BOOLEAN :
        /\ Closes(op.m, ok, shut, clean)
        /\ ok => clean
        /\ \/ op.e \in Policy /\ reg' = reg
           \/ /\ ok /\ looked /\ slots'[op.m.slot] = 0
              /\ reg' = Cleared(reg, op.e, written)
           \/ reg' = Retained(Untrusted(reg), op.e, Undone, written)
  BY MountUndoCases
<1>5. CASE reg' = reg
  BY <1>1, <1>2, <1>3, <1>5, TidyFresh, RetiresNothing, CleanEnds DEF Passes
<1>6. CASE ok /\ slots'[op.m.slot] = 0 /\ reg' = Cleared(reg, op.e, written)
  <2>1. op.m.vol \notin alias'
    BY <1>1, <1>4, <1>6, ClosesVolume
  <2>2. op.m.vol \in GoneSet'
    BY <1>1, <1>6, <2>1, HandFits, FitsGone DEF GoneSet
  <2> QED
    BY <1>1, <1>2, <1>3, <1>6, <2>2, TidyCleared, CleanEnds
<1>7. CASE reg' = Retained(Untrusted(reg), op.e, Undone, written)
  <2>1. Undone \in Mount /\ Undone.vol = op.m.vol
    <3>1. (op.m.unresolved /\ op.e \notin Policy) \in BOOLEAN
      OBVIOUS
    <3> QED
      BY <1>1, <3>1 DEF Mount, Undone
  <2>2. Untrusted(reg) \in Registry
        /\ Passes(GoneSet', reg, Untrusted(reg), {op.e}, op.m.vol)
    BY <1>1, <1>3, UntrustedType, TidyUntrusted
  <2>3. Passes(GoneSet', Untrusted(reg), reg', {}, op.m.vol)
    BY <1>1, <1>7, <2>1, <2>2, TidyRetained DEF Passes
  <2>4. Passes(GoneSet', reg, reg', {}, op.m.vol)
    BY <2>2, <2>3, RetiresTwice DEF Passes
  <2> QED
    BY <1>1, <1>2, <2>4, CleanEnds
<1> QED
  BY <1>4, <1>5, <1>6, <1>7

LEMMA SyncCallClean ==
    ASSUME SafeInv, CleanInv, [Next]_vars, MountResume \/ EnrollCall PROVE CleanStep
<1>1. op \in OpMount /\ op.e \in Entries /\ op.m \in Mount /\ Serving
      /\ (MountResume \/ (EnrollCall /\ op.pc = "enroll"))
      /\ up \in {"up", "stopping"} /\ reg \in Registry /\ TypeInv /\ TypeOK
  BY OpServing DEF MountResume, EnrollCall
<1>2. up' = up /\ op' = NoOp
  BY DEF MountResume, EnrollCall
<1>3. Tidy(GoneSet', reg, {op.e}, op.m.vol)
  BY <1>1, TidyBusy
<1>4. \/ EnrollCall /\ op.pc = "enroll" /\ reg' = reg
      \/ \E m \in Mount : /\ m.vol = op.m.vol
                          /\ \/ reg' = Persisted(Put(reg, op.e, m))
                             \/ reg' = Put(reg, op.e, m)
  <2>1. EnrolledFolder \in Mount /\ EnrolledFolder.vol = op.m.vol
    BY <1>1 DEF EnrolledFolder, Mount
  <2> QED
    BY <1>1, <2>1, MountResumeCases, EnrollCallCases
<1>5. CASE EnrollCall /\ op.pc = "enroll" /\ reg' = reg
  <2>1. reg.active[op.e] # NoMount
    BY <1>5 DEF EnrollCall, CleanInv, StageInv
  <2>2. Tidy(GoneSet', reg, {}, 0)
    BY <1>1, <1>3, <2>1, TidyFree
  <2> QED
    BY <1>1, <1>2, <1>5, <2>2, RetiresNothing, CleanEnds DEF Passes
<1>6. CASE \E m \in Mount : /\ m.vol = op.m.vol
                            /\ \/ reg' = Persisted(Put(reg, op.e, m))
                               \/ reg' = Put(reg, op.e, m)
  BY <1>1, <1>2, <1>3, <1>6, TidyPutBack, TidyPutPersisted, CleanEnds
<1> QED
  BY <1>4, <1>5, <1>6

\* Dismounts take their record in hand.
LEMMA StartsClean ==
    ASSUME NEW r \in Registry, Passes(GoneSet', reg, r, {}, 0), NEW e \in Entries,
           NEW l \in Logons, NEW m \in Mount, r.active[e] # NoMount,
           m.vol = r.active[e].vol, up' \in {"up", "stopping"},
           \/ reg' = r /\ op' = NoOp
           \/ reg' = Put(r, e, m) /\ op' = NoOp
           \/ reg' = Put(r, e, NoMount) /\ op' = Closing("client", e, l, m, FALSE)
           \/ /\ reg' = Put(r, e, NoMount)
              /\ \E over \in BOOLEAN : op' = Closing("member", e, l, m, over)
    PROVE  CleanStep
<1>1. Tidy(GoneSet', r, {e}, m.vol)
  BY TidyTake DEF Passes
<1>2. CASE reg' = r /\ op' = NoOp
  BY <1>2, CleanEnds
<1>3. CASE reg' = Put(r, e, m) /\ op' = NoOp
  <2>1. Passes(GoneSet', r, reg', {}, m.vol)
    BY <1>1, <1>3, TidyPutBack
  <2>2. Passes(GoneSet', reg, reg', {}, m.vol)
    BY <2>1, RetiresTwice DEF Passes
  <2> QED
    BY <1>3, <2>2, CleanEnds
<1>4. ASSUME reg' = Put(r, e, NoMount), NEW over \in BOOLEAN, NEW pc \in {"client", "member"},
             op' = Closing(pc, e, l, m, over), pc = "client" => ~over
      PROVE  CleanStep
  <2>1. op' \in OpMount /\ op'.e = e /\ op'.m = m /\ op'.pc = pc /\ op'.over = over
    <3>1. op' \in OpMount
      BY <1>4, ClosingType
    <3>2. op'.e = e /\ op'.m = m /\ op'.pc = pc /\ op'.over = over
      BY <1>4 DEF Closing
    <3> QED
      BY <3>1, <3>2
  <2>2. LetterInv' /\ StageInv'
    BY <1>4, <2>1 DEF LetterInv, StageInv, At
  <2>3. Passes(GoneSet', r, reg', {e}, m.vol)
    BY <1>1, <1>4, TidyPut DEF MaybeMount
  <2>4. Passes(GoneSet', reg, reg', {op'.e}, op'.m.vol)
    BY <2>1, <2>3, RetiresTwice DEF Passes
  <2> QED
    BY <2>1, <2>2, <2>4, CleanGoes
<1>5. FALSE \in BOOLEAN
  OBVIOUS
<1> QED
  BY <1>2, <1>3, <1>4, <1>5

LEMMA StartClientClean ==
    ASSUME NEW r \in Registry, Passes(GoneSet', reg, r, {}, 0), NEW e \in Entries,
           NEW l \in Logons, NEW cost, r.active[e] # NoMount,
           StartClient(r, e, l, cost), up' \in {"up", "stopping"}
    PROVE  CleanStep
<1> DEFINE m == AfterPause(e, r.active[e])
<1>1. m \in Mount /\ m.vol = r.active[e].vol
  BY RecordType, AfterPauseType, AfterPauseSame
<1>2. \/ reg' = r /\ op' = NoOp
      \/ reg' = Put(r, e, m) /\ op' = NoOp
      \/ reg' = Put(r, e, NoMount) /\ op' = Closing("client", e, l, m, FALSE)
  BY Zenon DEF StartClient
<1> HIDE DEF m
<1> QED
  BY <1>1, <1>2, StartsClean

LEMMA StartMemberClean ==
    ASSUME NEW r \in Registry, Passes(GoneSet', reg, r, {}, 0), NEW e \in Entries,
           NEW l \in Logons, NEW over \in BOOLEAN, NEW cost, r.active[e] # NoMount,
           StartMember(r, e, l, over, cost), up' \in {"up", "stopping"}
    PROVE  CleanStep
<1> DEFINE m == r.active[e]
<1>1. m \in Mount
  BY RecordType
<1>2. \/ reg' = r /\ op' = NoOp
      \/ reg' = Put(r, e, NoMount) /\ op' = Closing("member", e, l, m, over)
  BY Zenon DEF StartMember
<1>3. \/ reg' = r /\ op' = NoOp
      \/ /\ reg' = Put(r, e, NoMount)
         /\ \E o \in BOOLEAN : op' = Closing("member", e, l, m, o)
  BY <1>2
<1>4. m.vol = r.active[e].vol
  OBVIOUS
<1> HIDE DEF m
<1> QED
  BY <1>1, <1>3, <1>4, StartsClean

LEMMA DismountClean ==
    ASSUME SafeInv, CleanInv, [Next]_vars, ~Blind, NEW e \in Entries, NEW l \in Logons,
           Dismount(e, l)
    PROVE  CleanStep
<1>1. op = NoOp /\ up = "up" /\ up' = "up" /\ reg \in Registry /\ Serving
  BY DEF Dismount, Idle, SafeInv, TypeInv, TypeOK, Serving
<1>2. Tidy(GoneSet', reg, {}, 0)
  BY <1>1, TidyRest
<1>3. \A f \in Droppable(reg) : reg.active[f].vol \in GoneSet'
  BY DroppableGone
<1>4. CASE UNCHANGED <<reg, op>>
  BY <1>1, <1>2, <1>4, CleanEnds, RetiresNothing DEF Passes
<1>5. ASSUME NEW known \in BOOLEAN, NEW r, r = Reconciled(reg, known),
             \/ reg' = r /\ UNCHANGED op
             \/ /\ r.active[e] # NoMount
                /\ \/ StartClient(r, e, l, Cost(known))
                   \/ \E over \in BOOLEAN : StartMember(r, e, l, over, Cost(known))
      PROVE  CleanStep
  <2>1. r \in Registry /\ Passes(GoneSet', reg, r, {}, 0)
    BY <1>1, <1>2, <1>3, <1>5, ReconciledType, TidyReconciled
  <2>2. CASE reg' = r /\ UNCHANGED op
    BY <1>1, <2>1, <2>2, CleanEnds
  <2>3. CASE r.active[e] # NoMount /\ StartClient(r, e, l, Cost(known))
    BY <1>1, <2>1, <2>3, StartClientClean
  <2>4. ASSUME r.active[e] # NoMount, NEW over \in BOOLEAN,
               StartMember(r, e, l, over, Cost(known))
        PROVE  CleanStep
    BY <1>1, <2>1, <2>4, StartMemberClean
  <2> QED
    BY <1>5, <2>2, <2>3, <2>4
<1> QED
  BY <1>4, <1>5, DismountCases

LEMMA ServiceDismountClean ==
    ASSUME SafeInv, CleanInv, [Next]_vars, ~Blind, NEW e \in Entries,
           SessionCleanup(e) \/ StopNext(e)
    PROVE  CleanStep
<1>1. op = NoOp /\ up \in {"up", "stopping"} /\ up' = up /\ reg \in Registry /\ Serving
      /\ reg.active[e] # NoMount
  BY DEF SessionCleanup, StopNext, Idle, SafeInv, TypeInv, TypeOK, Serving
<1>2. Passes(GoneSet', reg, reg, {}, 0)
  BY <1>1, TidyRest, RetiresNothing DEF Passes
<1>3. reg.active[e].logon \in Logons /\ TRUE \in BOOLEAN
  BY <1>1, RecordType DEF Mount
<1>4. \/ UNCHANGED <<reg, op>>
      \/ StartMember(reg, e, reg.active[e].logon, TRUE, 0)
      \/ StartClient(reg, e, reg.active[e].logon, 0)
  BY SessionCleanupCases DEF StopNext
<1>5. CASE UNCHANGED <<reg, op>>
  BY <1>1, <1>2, <1>5, CleanEnds
<1>6. CASE StartMember(reg, e, reg.active[e].logon, TRUE, 0)
  BY <1>1, <1>2, <1>3, <1>6, StartMemberClean
<1>7. CASE StartClient(reg, e, reg.active[e].logon, 0)
  BY <1>1, <1>2, <1>3, <1>7, StartClientClean
<1> QED
  BY <1>4, <1>5, <1>6, <1>7

\* The broker call takes the letter away when it succeeds.
LEMMA ShutClean ==
    ASSUME SafeInv, CleanInv, [Next]_vars, Shut PROVE CleanStep
<1>1. op \in OpMount /\ op.e \in Entries /\ op.m \in Mount /\ Serving
      /\ op.pc \in {"client", "member"}
      /\ up \in {"up", "stopping"} /\ reg \in Registry /\ TypeInv /\ TypeOK
  BY OpServing DEF Shut
<1>2. op.pc = "client" => ~op.over
  BY <1>1, SentinelsAssumption DEF CleanInv, LetterInv, At
<1>3. PICK ok \in BOOLEAN, shut \in BOOLEAN, clean \in BOOLEAN :
        /\ IF op.over /\ op.e \in PerUser THEN ~clean ELSE ok => clean
        /\ Closes(op.m, ok, shut, clean)
        /\ Spend(CloseCost(op.m, ok, shut))
        /\ op' = [op EXCEPT !.ok = ok,
                            !.pc = IF op.pc = "client" THEN "clientShut"
                                                       ELSE "memberShut"]
  BY Zenon DEF Shut
<1>4. op' \in OpMount /\ op'.e = op.e /\ op'.m = op.m /\ op'.ok = ok
      /\ op'.pc = (IF op.pc = "client" THEN "clientShut" ELSE "memberShut")
  BY <1>1, <1>3 DEF OpMount
<1>5. reg' = reg /\ up' = up
  BY DEF Shut
<1>6. clean => op.m.vol \notin alias'
  BY <1>1, <1>3, ClosesVolume
<1>7. LetterInv' /\ StageInv'
  BY <1>1, <1>2, <1>3, <1>4, <1>6 DEF LetterInv, StageInv, At
<1>8. Passes(GoneSet', reg, reg', {op'.e}, op'.m.vol)
  BY <1>1, <1>4, <1>5, TidyBusy, RetiresNothing DEF Passes
<1> QED
  BY <1>1, <1>4, <1>5, <1>7, <1>8, CleanGoes

\* A dismount retires its record only when the volume is gone.
LEMMA FinishGone ==
    ASSUME SafeInv, CleanInv, [Next]_vars, ClientFinish \/ MemberFinish
    PROVE  \E written \in BOOLEAN :
             \/ op.m.vol \in GoneSet' /\ reg' = Retired(reg, op.e, written)
             \/ \E m \in Mount : /\ m.vol = op.m.vol
                                 /\ reg' = Retained(reg, op.e, m, written)
<1>1. op \in OpMount /\ op.e \in Entries /\ op.m \in Mount /\ TypeInv
      /\ OpSound(slots, volumes, op)
  BY OpServing DEF ClientFinish, MemberFinish
<1>2. DriverStep /\ Fits(slots', volumes', op.e, op.m)
  BY <1>1, HandFits
<1>3. ASSUME slots[op.m.slot] = 0, slots' = slots, op.m.vol \notin alias'
      PROVE  op.m.vol \in GoneSet'
  BY <1>1, <1>2, <1>3, FitsGone DEF GoneSet
<1>4. slots' = slots /\ volumes' = volumes /\ alias' \subseteq alias
  BY <1>2 DEF ClientFinish, MemberFinish, driver, DriverStep
<1>5. CASE ClientFinish
  <2>1. op.ok => op.m.vol \notin alias
    BY <1>5 DEF ClientFinish, CleanInv, LetterInv
  <2>2. CASE op.ok /\ slots[op.m.slot] = 0
             /\ \E written \in BOOLEAN : reg' = Retired(reg, op.e, written)
    BY <1>3, <1>4, <2>1, <2>2
  <2>3. CASE ~(op.ok /\ slots[op.m.slot] = 0
               /\ \E written \in BOOLEAN : reg' = Retired(reg, op.e, written))
    <3>1. PICK again \in BOOLEAN, written \in BOOLEAN, answered \in BOOLEAN :
            \/ reg' = Retained(reg, op.e, Pending(op.m, again), written)
            \/ reg' = Retained(reg, op.e,
                          Pending(AfterResume(op.e, op.m, answered), again), written)
      BY <1>5, <2>3, ClientFinishCases
    <3> DEFINE a == AfterResume(op.e, op.m, answered)
    <3>2. a \in Mount /\ a.vol = op.m.vol /\ Pending(op.m, again) \in Mount
          /\ Pending(op.m, again).vol = op.m.vol
      BY <1>1, PendingSame
    <3> HIDE DEF a
    <3>3. Pending(a, again) \in Mount /\ Pending(a, again).vol = op.m.vol
      BY <1>1, <3>2, PendingSame
    <3> QED
      BY <3>1, <3>2, <3>3 DEF a
  <2> QED
    BY <2>2, <2>3
<1>6. CASE MemberFinish
  <2>1. op.ok /\ op.e \notin PerUser => op.m.vol \notin alias
    BY <1>6 DEF MemberFinish, CleanInv, LetterInv
  <2>2. PICK looked \in BOOLEAN, again \in BOOLEAN, written \in BOOLEAN :
          \/ /\ IF op.e \in PerUser
                THEN looked /\ slots[op.m.slot] = 0 /\ alias' = alias \ {op.m.vol}
                ELSE \/ op.ok /\ looked /\ slots[op.m.slot] = 0
                     \/ ~op.live /\ LetterGone(op.m, alias)
             /\ reg' = Retired(reg, op.e, written)
          \/ reg' = Retained(reg, op.e, Pending(op.m, again), written)
    BY <1>6, MemberFinishCases
  <2>3. CASE reg' = Retained(reg, op.e, Pending(op.m, again), written)
    BY <1>1, <2>3, PendingSame
  <2>4. ASSUME ~op.live, LetterGone(op.m, alias) PROVE op.m.vol \in GoneSet'
    <3>1. \A s \in Slots : slots'[s] # 0 => volumes'[slots'[s]] # op.e
      BY <1>1, <1>4, <2>4 DEF OpSound
    <3>2. op.m.vol \notin alias'
      BY <1>4, <2>4 DEF LetterGone
    <3> QED
      BY <1>1, <1>2, <3>1, <3>2, FitsGone DEF GoneSet
  <2>5. CASE ~(reg' = Retained(reg, op.e, Pending(op.m, again), written))
    <3>1. op.m.vol \in GoneSet'
      BY <1>3, <1>4, <2>1, <2>2, <2>4, <2>5
    <3> QED
      BY <2>2, <2>5, <3>1
  <2> QED
    BY <2>3, <2>5
<1> QED
  BY <1>5, <1>6

LEMMA FinishClean ==
    ASSUME SafeInv, CleanInv, [Next]_vars, ClientFinish \/ MemberFinish
    PROVE  CleanStep
<1>1. op \in OpMount /\ op.e \in Entries /\ op.m \in Mount /\ Serving
      /\ up \in {"up", "stopping"} /\ reg \in Registry
  BY OpServing DEF ClientFinish, MemberFinish
<1>2. up' = up /\ op' = NoOp
  BY DEF ClientFinish, MemberFinish
<1>3. Tidy(GoneSet', reg, {op.e}, op.m.vol)
  BY <1>1, TidyBusy
<1>4. Passes(GoneSet', reg, reg', {}, op.m.vol)
  BY <1>1, <1>3, FinishGone, TidyRetired, TidyRetained
<1> QED
  BY <1>1, <1>2, <1>4, CleanEnds

\* An enrolment leaves its record in the map.
LEMMA EnrollMarkClean ==
    ASSUME SafeInv, CleanInv, [Next]_vars, ~Blind, EnrollMark PROVE CleanStep
<1>1. op = NoOp /\ up = "up" /\ up' = "up" /\ reg \in Registry /\ Serving /\ TypeInv
  BY DEF EnrollMark, Idle, SafeInv, TypeInv, TypeOK, Serving
<1>2. Tidy(GoneSet', reg, {}, 0)
  BY <1>1, TidyRest
<1>3. CASE UNCHANGED <<reg, op>>
  BY <1>1, <1>2, <1>3, CleanEnds, RetiresNothing DEF Passes
<1>4. ASSUME enroll.e \in Entries, EnrollEligible(enroll.e, enroll.l)
      PROVE  /\ Enrolled \in Mount
             /\ Tidy(GoneSet', reg, {enroll.e}, Enrolled.vol)
  <2>1. Enrolled \in Mount /\ Enrolled.vol = reg.active[enroll.e].vol
    BY <1>1, <1>4, EnrolledType
  <2>2. reg.active[enroll.e] # NoMount
    BY <1>4 DEF EnrollEligible
  <2> QED
    BY <1>1, <1>2, <1>4, <2>1, <2>2, TidyTake
<1>5. ASSUME enroll.e \in Entries, EnrollEligible(enroll.e, enroll.l),
             reg' = Put(reg, enroll.e, Enrolled), op' = NoOp
      PROVE  CleanStep
  BY <1>1, <1>4, <1>5, TidyPutBack, CleanEnds
<1>6. ASSUME enroll.e \in Entries, enroll.l \in Logons,
             EnrollEligible(enroll.e, enroll.l),
             reg' = Persisted(Put(reg, enroll.e, Enrolled)),
             op' = Closing("enroll", enroll.e, enroll.l, Enrolled, FALSE)
      PROVE  CleanStep
  <2> DEFINE p == Put(reg, enroll.e, Enrolled)
  <2>1. p \in Registry /\ Passes(GoneSet', reg, p, {enroll.e}, Enrolled.vol)
    BY <1>1, <1>4, <1>6, PutType, TidyPut DEF MaybeMount
  <2>2. p.active[enroll.e] = Enrolled
    BY <1>1, <1>6 DEF Put, Registry, Table
  <2>3. reg' = Persisted(p)
    BY <1>6
  <2>4. Retires(GoneSet', reg, reg')
    BY <1>1, <1>4, <1>6, TidyPutPersisted DEF Passes
  <2> HIDE DEF p
  <2>5. reg'.active = p.active
    BY <2>1, <2>3 DEF Persisted, Registry
  <2>6. Tidy(GoneSet', reg', {enroll.e}, Enrolled.vol)
    BY <2>1, <2>3, TidyPersisted DEF Passes
  <2>7. op' \in OpMount /\ op'.e = enroll.e /\ op'.m = Enrolled /\ op'.pc = "enroll"
    <3>1. op' \in OpMount
      BY <1>4, <1>6, ClosingType
    <3>2. op'.e = enroll.e /\ op'.m = Enrolled /\ op'.pc = "enroll"
      BY <1>6 DEF Closing
    <3> QED
      BY <3>1, <3>2
  <2>8. reg'.active[op'.e] # NoMount
    BY <1>4, <1>6, <2>2, <2>5, <2>7, SentinelsAssumption
  <2>9. LetterInv' /\ StageInv'
    BY <2>7, <2>8 DEF LetterInv, StageInv, At
  <2> QED
    BY <1>1, <1>6, <2>4, <2>6, <2>7, <2>9, CleanGoes DEF Passes
<1> QED
  BY <1>1, <1>3, <1>5, <1>6, EnrollMarkCases

\* A boot step, a step of an idle broker and a step of an operation.
LEMMA BootStepClean ==
    ASSUME SafeInv, CleanInv, [Next]_vars, Boot PROVE CleanStep
<1>1. CASE BootLoad
  BY <1>1, BootLoadClean
<1>2. ASSUME NEW e \in Entries, BootEntry(e) PROVE CleanStep
  BY <1>2, BootEntryClean
<1>3. CASE BootFinish \/ \E e \in Entries : BootAborted(e)
  BY <1>3, BootClosed
<1> QED
  BY <1>1, <1>2, <1>3 DEF Boot

LEMMA IdleClean ==
    ASSUME SafeInv, SafeInv', CleanInv, [Next]_vars, NEW e \in Entries,
           NEW l \in Logons,
           \/ MountRefused(e, l) \/ MountDeclined(e, l) \/ MountOpen(e, l)
           \/ Dismount(e, l) \/ SessionCleanup(e) \/ StopNext(e) \/ EnrollMark
    PROVE  CleanStep
<1>1. Serving
  BY DEF MountRefused, MountDeclined, MountOpen, Dismount, SessionCleanup, StopNext,
     EnrollMark, Idle, Serving
<1>2. CASE Blind
  BY <1>1, <1>2, BlindClean
<1>3. CASE ~Blind
  BY <1>3, MountRefusedClean, MountOpenClean, DismountClean, ServiceDismountClean,
     EnrollMarkClean
<1> QED
  BY <1>2, <1>3

LEMMA NextClean ==
    ASSUME SafeInv, SafeInv', CleanInv, [Next]_vars PROVE CleanStep
<1>1. CASE StopExit \/ Crash \/ Reboot
  BY <1>1, ExitsClean DEF StopExit, Crash, Reboot
<1>2. ASSUME NEW e \in Entries, SessionCleanup(e) \/ StopNext(e)
      PROVE  CleanStep
  <2>1. reg.active[e].logon \in Logons
    BY <1>2, RecordType DEF SessionCleanup, StopNext, Mount, SafeInv, TypeInv, TypeOK
  <2> QED
    BY <1>2, <2>1, IdleClean
<1>3. ASSUME EnrollMark PROVE CleanStep
  <2>1. enroll.e \in Entries /\ enroll.l \in Logons
    BY <1>3 DEF EnrollMark, SafeInv, TypeInv, TypeOK
  <2> QED
    BY <1>3, <2>1, IdleClean
<1>4. ASSUME NEW e \in Entries, NEW l \in Logons,
             \/ MountRefused(e, l) \/ MountDeclined(e, l) \/ MountOpen(e, l)
             \/ Dismount(e, l)
      PROVE  CleanStep
  BY <1>4, IdleClean
<1> QED
  BY <1>1, <1>2, <1>3, <1>4, NextCases, QuietClean, BootStepClean, MountRejectedClean,
     MountRecordClean, MountDiscardClean, MountUndoClean, SyncCallClean, ShutClean,
     FinishClean

LEMMA InitClean == Init => CleanInv
<1> SUFFICES ASSUME Init PROVE CleanInv
  OBVIOUS
<1>1. up = "up" /\ op = NoOp /\ reg = EmptyRegistry
  BY DEF Init
<1>2. Hands = {}
  BY <1>1, SentinelsAssumption DEF Hands
<1>3. reg.active = reg.durable /\ reg.removal = {}
  BY <1>1 DEF EmptyRegistry
<1>4. Tidy(GoneSet, reg, Hands, op.m.vol)
  BY <1>2, <1>3 DEF Tidy
<1>5. LetterInv /\ StageInv
  BY <1>1, SentinelsAssumption DEF LetterInv, StageInv, At
<1> QED
  BY <1>1, <1>4, <1>5 DEF CleanInv, BootClean, Serving

\* The registry file gives a mount up, by deleting its record or writing that of
\* a later mount over it, only in a step after which the volume is in no slot of
\* the driver and its letter resolves to nothing: for any vaults, slots and
\* logons, and whatever broker call, write, probe or process fails, in the
\* dismount paths, in the reconciliation of absent mounts, in the retry of a
\* pending removal and in the cleanup at boot.
THEOREM RetiredTheorem == Spec => RetiredOnlyWhenClean
<1>1. SafeInv /\ SafeInv' /\ CleanInv /\ [Next]_vars => CleanInv'
  BY NextClean DEF CleanStep
<1>2. ASSUME SafeInv, SafeInv', CleanInv, [Next]_vars, NEW e \in Entries,
             reg.durable[e] # NoMount,
             reg'.durable[e] = NoMount \/ reg'.durable[e].vol # reg.durable[e].vol
      PROVE  /\ \A s \in Slots : slots'[s] # reg.durable[e].vol
             /\ reg.durable[e].vol \notin alias'
  <2>1. Retires(GoneSet', reg, reg')
    BY <1>2, NextClean DEF CleanStep
  <2>2. reg.durable[e].vol \in GoneSet'
    BY <1>2, <2>1 DEF Retires
  <2> QED
    BY <2>2 DEF GoneSet, GoneIn
<1>3. SafeInv /\ SafeInv' /\ CleanInv /\ [Next]_vars
        => \A e \in Entries :
             LET d == reg.durable[e]
             IN  (d # NoMount /\ (reg'.durable[e] = NoMount
                                  \/ reg'.durable[e].vol # d.vol))
                 => /\ \A s \in Slots : slots'[s] # d.vol
                    /\ d.vol \notin alias'
  BY <1>2
<1> QED
  BY <1>1, <1>3, InitClean, SafeInvariant, PTL DEF Spec, RetiredOnlyWhenClean

-----------------------------------------------------------------------------
(* What Syncthing is owed.  A record that asks for a pause must not leave the *)
(* file while its folder runs, so map and file must owe the same pauses; and *)
(* a folder is started only from a record that the file owes one for.        *)

Owes(e, m) == m # NoMount /\ RequiresPause(e, m)

\* A record with an identity that asks for no pause is of a vault without a
\* folder: mount and enrolment learn from the adapter whether there is one.
Plain(B, e, m) == e \in B /\ m # NoMount /\ m.id # 0 => RequiresPause(e, m)

Settled(B, table) == \A e \in Entries : Plain(B, e, table[e])

\* The registry r when the folders S run and the entries B have one, but for
\* those in H, which an operation is at work on.
Owed(S, B, r, H) ==
    /\ \A e \in Entries : e \in S /\ e \notin r.removal /\ e \notin H
          => (Owes(e, r.durable[e]) => Owes(e, r.active[e]))
    /\ \A e \in Entries : e \in B /\ e \notin r.removal /\ e \notin r.persist /\ e \notin H
          => (Owes(e, r.active[e]) => Owes(e, r.durable[e]))
    /\ Settled(B, r.active)
    /\ Settled(B, r.durable)

\* A write from registry r to registry q keeps the pauses owed to S.
Honours(S, r, q) ==
    \A e \in Entries : e \in S /\ e \notin r.removal
        => (Owes(e, r.durable[e]) => Owes(e, q.durable[e]))

Yields(S, B, r, q, H) == Honours(S, r, q) /\ Owed(S, B, q, H)

LEMMA HonoursTwice ==
    ASSUME NEW S, NEW r, NEW q, NEW p, Honours(S, r, q), Honours(S, q, p),
           q.removal = r.removal
    PROVE  Honours(S, r, p)
BY DEF Honours

LEMMA HonoursSame ==
    ASSUME NEW S, NEW r, NEW q, q.durable = r.durable PROVE Honours(S, r, q)
BY DEF Honours

\* Only the tables and the pending sets matter.
LEMMA YieldsSame ==
    ASSUME NEW S, NEW B, NEW r, NEW q, NEW H, Owed(S, B, r, H),
           q.active = r.active, q.durable = r.durable, q.removal = r.removal,
           q.persist = r.persist
    PROVE  Yields(S, B, r, q, H)
BY DEF Yields, Honours, Owed

\* Fewer folders run, but for the one in hand.
LEMMA OwedLess ==
    ASSUME NEW S, NEW T, NEW B, NEW r, NEW H, Owed(S, B, r, H),
           \A e \in Entries : e \in T => e \in S \/ e \in H
    PROVE  Owed(T, B, r, H)
BY DEF Owed

\* The entry in hand is let go.
LEMMA OwedFree ==
    ASSUME NEW S, NEW B, NEW r, NEW e \in Entries, Owed(S, B, r, {e}),
           e \in S /\ e \notin r.removal => (Owes(e, r.durable[e]) => Owes(e, r.active[e])),
           e \in B /\ e \notin r.removal /\ e \notin r.persist
             => (Owes(e, r.active[e]) => Owes(e, r.durable[e]))
    PROVE  Owed(S, B, r, {})
BY DEF Owed

\* The record in hand is taken out, put back or changed.
LEMMA OwedPut ==
    ASSUME NEW S, NEW B, NEW r \in Registry, NEW e \in Entries, Owed(S, B, r, {e}),
           NEW m \in MaybeMount, Plain(B, e, m)
    PROVE  /\ Yields(S, B, r, Put(r, e, m), {e})
           /\ Put(r, e, m) \in Registry
           /\ Put(r, e, m).active[e] = m /\ Put(r, e, m).durable = r.durable
           /\ Put(r, e, m).removal = r.removal /\ Put(r, e, m).persist = r.persist
<1>1. r.active \in [Entries -> Mount \cup {NoMount}]
  BY DEF Registry, Table
<1> DEFINE q == Put(r, e, m)
<1>2. /\ q.active = [r.active EXCEPT ![e] = m] /\ q.durable = r.durable
      /\ q.removal = r.removal /\ q.persist = r.persist
  BY DEF Put, Registry
<1>3. q \in Registry
  BY PutType
<1> HIDE DEF q
<1>4. q.active[e] = m /\ \A f \in Entries \ {e} : q.active[f] = r.active[f]
  BY <1>1, <1>2
<1>5. Settled(B, q.active)
  BY <1>4 DEF Owed, Settled
<1>6. Owed(S, B, q, {e})
  BY <1>2, <1>4, <1>5 DEF Owed
<1> QED
  BY <1>2, <1>3, <1>4, <1>6, HonoursSame DEF Yields, q

\* A write makes map and file owe the same.
LEMMA OwedPersisted ==
    ASSUME NEW S, NEW B, NEW r \in Registry, NEW H, Owed(S, B, r, H),
           \A e \in Entries : e \in H /\ e \in S /\ e \notin r.removal
             => (Owes(e, r.durable[e]) => Owes(e, r.active[e]))
    PROVE  /\ Yields(S, B, r, Persisted(r), {})
           /\ Persisted(r) \in Registry
           /\ Persisted(r).active = r.active /\ Persisted(r).durable = r.active
           /\ Persisted(r).removal = r.removal
<1> DEFINE q == Persisted(r)
<1>1. q.active = r.active /\ q.durable = r.active /\ q.removal = r.removal
  BY DEF Persisted, Registry
<1>2. q \in Registry
  BY PersistedType
<1> HIDE DEF q
<1>3. Owed(S, B, q, {}) /\ Honours(S, r, q)
  BY <1>1 DEF Owed, Honours
<1> QED
  BY <1>1, <1>2, <1>3 DEF Yields, q

\* The record in hand is put back and written.
LEMMA OwedWritten ==
    ASSUME NEW S, NEW B, NEW r \in Registry, NEW e \in Entries, Owed(S, B, r, {e}),
           NEW m \in MaybeMount, Plain(B, e, m),
           e \in S /\ e \notin r.removal => (Owes(e, r.durable[e]) => Owes(e, m))
    PROVE  /\ Yields(S, B, r, Persisted(Put(r, e, m)), {})
           /\ Persisted(Put(r, e, m)).active[e] = m
           /\ Persisted(Put(r, e, m)).durable[e] = m
           /\ Persisted(Put(r, e, m)).removal = r.removal
<1> DEFINE p == Put(r, e, m)
<1>1. /\ Yields(S, B, r, p, {e}) /\ p \in Registry /\ p.active[e] = m
      /\ p.durable = r.durable /\ p.removal = r.removal
  BY OwedPut
<1> HIDE DEF p
<1>2. /\ Yields(S, B, p, Persisted(p), {})
      /\ Persisted(p).active = p.active /\ Persisted(p).durable = p.active
      /\ Persisted(p).removal = p.removal
  BY <1>1, OwedPersisted DEF Yields
<1>3. Honours(S, r, Persisted(p))
  BY <1>1, <1>2, HonoursTwice DEF Yields
<1> QED
  BY <1>1, <1>2, <1>3 DEF Yields, p

\* The record in hand is put back; what is not written is pending.
LEMMA OwedRetained ==
    ASSUME NEW S, NEW B, NEW r \in Registry, NEW e \in Entries, Owed(S, B, r, {e}),
           NEW m \in Mount, Plain(B, e, m), NEW written \in BOOLEAN,
           e \in S /\ e \notin r.removal => (Owes(e, r.durable[e]) => Owes(e, m))
    PROVE  /\ Yields(S, B, r, Retained(r, e, m, written), {})
           /\ written => Retained(r, e, m, written).durable[e] = m
           /\ ~written => Retained(r, e, m, written).durable = r.durable
<1> DEFINE p == Put(r, e, m)
           q == [p EXCEPT !.persist = @ \cup {e}]
<1>0. m \in MaybeMount
  BY DEF MaybeMount
<1>1. /\ Yields(S, B, r, p, {e}) /\ p \in Registry /\ p.active[e] = m
      /\ p.durable = r.durable /\ p.removal = r.removal
  BY <1>0, OwedPut
<1>2. Yields(S, B, r, Persisted(p), {}) /\ Persisted(p).durable[e] = m
  BY <1>0, OwedWritten
<1>3. Retained(r, e, m, written) = IF written THEN Persisted(p) ELSE q
  BY DEF Retained
<1> HIDE DEF p
<1>4. /\ q.active = p.active /\ q.durable = p.durable /\ q.removal = p.removal
      /\ q.persist = p.persist \cup {e}
  BY <1>1 DEF Registry
<1> HIDE DEF q
<1>5. Owed(S, B, q, {e})
  BY <1>1, <1>4 DEF Owed, Yields
<1>6. Owed(S, B, q, {})
  BY <1>1, <1>4, <1>5, OwedFree
<1>7. Honours(S, r, q)
  BY <1>1, <1>4, HonoursSame
<1> QED
  BY <1>1, <1>2, <1>3, <1>4, <1>6, <1>7 DEF Yields

\* The record in hand is given up when nothing is owed for it.
LEMMA OwedRetired ==
    ASSUME NEW S, NEW B, NEW r \in Registry, NEW e \in Entries, Owed(S, B, r, {e}),
           NEW written \in BOOLEAN, e \in S /\ e \notin r.removal => ~Owes(e, r.durable[e])
    PROVE  Yields(S, B, r, Retired(r, e, written), {})
<1> DEFINE q == [r EXCEPT !.persist = @ \cup {e}]
<1>1. Yields(S, B, r, Persisted(r), {})
  BY OwedPersisted
<1>2. /\ q.active = r.active /\ q.durable = r.durable /\ q.removal = r.removal
      /\ q.persist = r.persist \cup {e}
  BY DEF Registry
<1> HIDE DEF q
<1>3. Owed(S, B, q, {e})
  BY <1>2 DEF Owed
<1>4. Owed(S, B, q, {})
  BY <1>2, <1>3, OwedFree
<1>5. Honours(S, r, q)
  BY <1>2, HonoursSame
<1> QED
  BY <1>1, <1>4, <1>5 DEF Retired, Yields, q

\* The record of a mount that was never written is cleared, now or later.
LEMMA OwedCleared ==
    ASSUME NEW S, NEW B, NEW r \in Registry, NEW e \in Entries, Owed(S, B, r, {e}),
           NEW written \in BOOLEAN, r.durable[e] = NoMount
    PROVE  Yields(S, B, r, Cleared(r, e, written), {})
<1> DEFINE q == [r EXCEPT !.removal = @ \cup {e}]
<1>1. Yields(S, B, r, Persisted(Put(r, e, NoMount)), {})
  BY OwedWritten DEF MaybeMount, Plain, Owes
<1>2. /\ q.active = r.active /\ q.durable = r.durable /\ q.removal = r.removal \cup {e}
      /\ q.persist = r.persist
  BY DEF Registry
<1> HIDE DEF q
<1>3. Owed(S, B, q, {})
  BY <1>2 DEF Owed
<1>4. Honours(S, r, q)
  BY <1>2, HonoursSame
<1> QED
  BY <1>1, <1>3, <1>4 DEF Cleared, Yields, q

LEMMA OwedUntrusted ==
    ASSUME NEW S, NEW B, NEW r \in Registry, NEW H, Owed(S, B, r, H)
    PROVE  /\ Yields(S, B, r, Untrusted(r), H)
           /\ Untrusted(r).durable = r.durable /\ Untrusted(r).removal = r.removal
           /\ Untrusted(r).persist = r.persist
<1>1. /\ Untrusted(r).active = r.active /\ Untrusted(r).durable = r.durable
      /\ Untrusted(r).removal = r.removal /\ Untrusted(r).persist = r.persist
  BY DEF Untrusted, Registry
<1> QED
  BY <1>1, YieldsSame

\* Reconciliation drops no record that owes a pause, and changes no debt.
LEMMA OwedReconciled ==
    ASSUME NEW S, NEW B, NEW r \in Registry, Owed(S, B, r, {}), NEW known \in BOOLEAN
    PROVE  /\ Yields(S, B, r, Reconciled(r, known), {})
           /\ Reconciled(r, known).removal = r.removal
           /\ \A e \in Entries : Owes(e, Reconciled(r, known).active[e]) = Owes(e, r.active[e])
<1> DEFINE table == Swept(r, known)
           p == [r EXCEPT !.active = table]
           q == IF table = r.active THEN r ELSE Persisted(p)
           trusted == [q EXCEPT !.untrusted = FALSE, !.recoverable = FALSE]
<1>1. /\ p \in Registry /\ p.active = table /\ p.durable = r.durable
      /\ p.removal = r.removal /\ p.persist = r.persist
  BY SweptType DEF Registry
<1>2. ASSUME NEW e \in Entries
      PROVE  /\ Owes(e, table[e]) = Owes(e, r.active[e])
             /\ Plain(B, e, r.active[e]) => Plain(B, e, table[e])
  <2>1. CASE known /\ e \in Droppable(r)
    BY <2>1 DEF Swept, Droppable, Owes, Plain
  <2>2. CASE ~(known /\ e \in Droppable(r)) /\ e \in Missing(r)
    <3>1. table[e] = [r.active[e] EXCEPT !.cleanup = TRUE, !.absent = TRUE]
      BY <2>2 DEF Swept
    <3>2. r.active[e] \in Mount
      BY <2>2, RecordType DEF Missing, Recorded
    <3>3. table[e] \in Mount /\ table[e].managed = r.active[e].managed
          /\ table[e].unresolved = r.active[e].unresolved /\ table[e].id = r.active[e].id
      BY <3>1, <3>2 DEF Mount
    <3>4. table[e] # NoMount /\ r.active[e] # NoMount
      BY <3>2, <3>3, SentinelsAssumption
    <3>5. RequiresPause(e, table[e]) = RequiresPause(e, r.active[e])
      BY <3>3 DEF RequiresPause
    <3> QED
      BY <3>3, <3>4, <3>5 DEF Owes, Plain
  <2>3. CASE ~(known /\ e \in Droppable(r)) /\ e \notin Missing(r)
    BY <2>3 DEF Swept
  <2> QED
    BY <2>1, <2>2, <2>3
<1> HIDE DEF table, p
<1>3. Owed(S, B, p, {})
  BY <1>1, <1>2 DEF Owed, Settled
<1>4. /\ Yields(S, B, p, Persisted(p), {}) /\ Persisted(p) \in Registry
      /\ Persisted(p).active = table /\ Persisted(p).removal = r.removal
  BY <1>1, <1>3, OwedPersisted
<1>5. Yields(S, B, r, Persisted(p), {})
  BY <1>1, <1>4, HonoursSame, HonoursTwice DEF Yields
<1>6. /\ q \in Registry /\ Yields(S, B, r, q, {}) /\ q.active = table
      /\ q.removal = r.removal
  BY <1>4, <1>5, HonoursSame DEF Yields
<1>7. Reconciled(r, known) = IF q.recoverable /\ Accounted(table)
                             THEN trusted ELSE q
  BY DEF Reconciled, table, p
<1> HIDE DEF q
<1>8. trusted.active = q.active /\ trusted.durable = q.durable
      /\ trusted.removal = q.removal /\ trusted.persist = q.persist
  BY <1>6 DEF Registry
<1> HIDE DEF trusted
<1>9. Yields(S, B, r, trusted, {})
  <2>1. Yields(S, B, q, trusted, {})
    BY <1>6, <1>8, YieldsSame DEF Yields
  <2> QED
    BY <1>6, <2>1, HonoursTwice DEF Yields
<1> QED
  BY <1>2, <1>6, <1>7, <1>8, <1>9

\* The retry of a removal touches no other entry.
LEMMA OwedRepaired ==
    ASSUME NEW S, NEW B, NEW r \in Registry, Owed(S, B, r, {})
    PROVE  Yields(S, B, r, Repaired(r), {})
<1> DEFINE kept == [f \in Entries |-> IF f \in r.removal THEN NoMount
                                                         ELSE r.active[f]]
           p == [r EXCEPT !.removal = {}, !.active = kept]
<1>1. kept \in Table
  BY DEF Registry, Table
<1>2. \A f \in Entries : kept[f] = IF f \in r.removal THEN NoMount ELSE r.active[f]
  OBVIOUS
<1>3. Repaired(r) = Persisted(p)
  BY DEF Repaired
<1> HIDE DEF kept
<1>4. p \in Registry /\ p.active = kept /\ p.durable = r.durable /\ p.removal = {}
  BY <1>1 DEF Registry
<1> HIDE DEF p
<1> DEFINE q == Persisted(p)
<1>5. q.active = kept /\ q.durable = kept
  BY <1>4 DEF Persisted, Registry
<1> HIDE DEF q
<1>6. Settled(B, kept)
  <2>1. Settled(B, r.active)
    BY DEF Owed
  <2> QED
    BY <1>2, <2>1 DEF Settled, Plain
<1>7. Owed(S, B, q, {})
  BY <1>5, <1>6 DEF Owed
<1>8. Honours(S, r, q)
  BY <1>2, <1>5 DEF Owed, Honours
<1> QED
  BY <1>3, <1>7, <1>8 DEF Yields, q

LEMMA OwedAdmitted ==
    ASSUME NEW S, NEW B, reg \in Registry, Owed(S, B, reg, {}), NEW known \in BOOLEAN,
           NEW e \in Entries
    PROVE  Yields(S, B, reg, Admitted(e, known), {})
<1> DEFINE q == Reconciled(reg, known)
<1>1. q \in Registry /\ Yields(S, B, reg, q, {}) /\ q.removal = reg.removal
  BY ReconciledType, OwedReconciled
<1>2. Admitted(e, known) = IF Blocked(q, e) THEN Repaired(q) ELSE q
  BY DEF Admitted
<1> HIDE DEF q
<1>3. Yields(S, B, q, Repaired(q), {})
  BY <1>1, OwedRepaired DEF Yields
<1> QED
  BY <1>1, <1>2, <1>3, HonoursTwice DEF Yields

-----------------------------------------------------------------------------
(* PauseInv, action by action.                                             *)

FolderInv == syncing \subseteq bound /\ bound \subseteq SyncOn

\* What an operation has learned so far: a mount that may have a folder says
\* so before the adapter is called, a call is made under a record that owes its
\* pause, and a dismount goes on only when nothing that runs is owed one.
StagePause ==
    op \in OpMount =>
        /\ op.pc \in {"opened", "badReply", "badRoot", "unseen", "unsaved"}
             => (op.e \in SyncOn => op.m.unresolved)
        /\ op.pc \in {"opened", "unseen"} => op.m.id = 0
        /\ (\/ op.pc \in {"opened", "badReply", "badRoot", "unseen"}
            \/ op.pc = "unsaved" /\ op.e \in Policy) => reg.active[op.e] = NoMount
        /\ op.pc \in {"resume", "enroll"}
             => /\ op.e \in SyncOn
                /\ Owes(op.e, reg.durable[op.e]) /\ Owes(op.e, reg.active[op.e])
        /\ op.pc \in {"client", "clientShut", "member", "memberShut"}
             => /\ Plain(bound, op.e, op.m)
                /\ op.e \in syncing /\ op.e \notin reg.removal
                     => ~Owes(op.e, reg.durable[op.e])
        /\ op.pc \in {"client", "clientShut"}
             => (op.m.managed /\ op.e \in bound /\ op.e \notin reg.removal
                 /\ op.e \notin reg.persist => Owes(op.e, reg.durable[op.e]))

\* Boot cleanup keeps what owes a pause.
BootPause ==
    up = "boot" =>
        \A e \in Entries :
            /\ Plain(bound, e, op.keep[e])
            /\ e \notin op.todo => (Owes(e, reg.durable[e]) => Owes(e, op.keep[e]))

PauseInv ==
    /\ FolderInv
    /\ Settled(bound, reg.durable)
    /\ Serving => Blind \/ Owed(syncing, bound, reg, Hands)
    /\ StagePause
    /\ BootPause

\* A folder that starts is owed its pause, or its record is still to be written.
Starting ==
    \A e \in Entries : e \in syncing' /\ e \notin syncing /\ e \notin reg.removal
        => Owes(e, reg'.durable[e]) \/ e \in reg.persist

PauseStep == Honours(syncing', reg, reg') /\ Starting /\ PauseInv'

LEMMA PauseEnds ==
    ASSUME op' = NoOp, up' \in {"up", "stopping"}, FolderInv', Starting,
           Yields(syncing', bound', reg, reg', {})
    PROVE  PauseStep
<1>1. Hands' = {} /\ op' \notin OpMount /\ ~(up' = "boot")
  BY SentinelsAssumption DEF Hands
<1>2. Owed(syncing, bound, reg, Hands)'
  BY <1>1 DEF Yields, Owed, Settled, Plain, Owes, RequiresPause
<1>3. Settled(bound, reg.durable)'
  BY <1>2 DEF Owed
<1>4. StagePause' /\ BootPause'
  BY <1>1 DEF StagePause, BootPause
<1> QED
  BY <1>2, <1>3, <1>4 DEF PauseStep, PauseInv, Yields

LEMMA PauseGoes ==
    ASSUME op' \in OpMount, op'.e \in Entries, up' \in {"up", "stopping"}, FolderInv',
           Starting, StagePause', Yields(syncing', bound', reg, reg', {op'.e})
    PROVE  PauseStep
<1>1. Hands' = {op'.e} /\ ~(up' = "boot")
  BY DEF Hands
<1>2. Owed(syncing, bound, reg, Hands)'
  BY <1>1 DEF Yields, Owed, Settled, Plain, Owes, RequiresPause
<1>3. Settled(bound, reg.durable)'
  BY <1>2 DEF Owed
<1>4. BootPause'
  BY <1>1 DEF BootPause
<1> QED
  BY <1>2, <1>3, <1>4 DEF PauseStep, PauseInv, Yields

\* Most steps do not call the adapter.
LEMMA Unsynced ==
    ASSUME PauseInv, UNCHANGED <<bound, syncing>> PROVE FolderInv' /\ Starting
BY DEF PauseInv, FolderInv, Starting

\* What is owed at rest, and in the middle of an operation.
LEMMA OwedRest ==
    ASSUME PauseInv, Serving, op = NoOp, ~Blind PROVE Owed(syncing, bound, reg, {})
<1>1. Hands = {}
  BY SentinelsAssumption DEF Hands
<1> QED
  BY <1>1 DEF PauseInv

LEMMA OwedBusy ==
    ASSUME PauseInv, Serving, op \in OpMount PROVE Owed(syncing, bound, reg, {op.e})
<1>1. Hands = {op.e} /\ ~Blind
  BY SentinelsAssumption DEF Hands, Blind, OpMount
<1> QED
  BY <1>1 DEF PauseInv

LEMMA QuietPause ==
    ASSUME PauseInv, Quiet PROVE PauseStep
<1>1. UNCHANGED <<reg, op, bound, syncing>> /\ (Serving' => Serving)
      /\ (up' = "boot" => up = "boot")
  <2>1. CASE Stop
    BY <2>1 DEF Stop, Idle, sync, Serving
  <2>2. CASE UNCHANGED vars
    BY <2>2 DEF vars, sync, Serving
  <2> QED
    BY <2>1, <2>2 DEF Quiet, Authorize, AlreadyUnmounted, EnrollPrepare, ChangePolicy,
       SaveAccessDirectory, SessionChange, LogonEnds, SessionCleanupEnds,
       ClosedOutside, OpenedOutside, sync, Serving
<1>2. Hands' = Hands /\ (Blind => Blind')
  BY <1>1 DEF Hands, Blind, ReconcileRefused
<1>3. Owed(syncing, bound, reg, Hands) => Owed(syncing, bound, reg, Hands)'
  BY <1>1, <1>2 DEF Owed, Settled, Plain, Owes, RequiresPause
<1>4. StagePause' /\ BootPause'
  BY <1>1 DEF PauseInv, StagePause, BootPause, Plain, Owes, RequiresPause
<1>5. Settled(bound, reg.durable)'
  BY <1>1 DEF PauseInv, Settled, Plain, RequiresPause
<1>6. FolderInv' /\ Starting /\ Honours(syncing', reg, reg')
  BY <1>1, Unsynced, HonoursSame
<1> QED
  BY <1>1, <1>2, <1>3, <1>4, <1>5, <1>6 DEF PauseInv, PauseStep

LEMMA ExitsPause ==
    ASSUME PauseInv, Exits, UNCHANGED sync PROVE PauseStep
<1>1. reg'.durable = reg.durable /\ up' = "down" /\ op' = NoOp
      /\ UNCHANGED <<bound, syncing>>
  BY DEF Exits, Forgotten, EmptyRegistry, sync
<1>2. StagePause' /\ BootPause' /\ ~Serving'
  BY <1>1, SentinelsAssumption DEF StagePause, BootPause, Serving
<1>3. Settled(bound, reg.durable)'
  BY <1>1 DEF PauseInv, Settled, Plain, RequiresPause
<1>4. FolderInv' /\ Starting /\ Honours(syncing', reg, reg')
  BY <1>1, Unsynced, HonoursSame
<1> QED
  BY <1>2, <1>3, <1>4 DEF PauseInv, PauseStep

\* A map that is the file owes what the file owes.
LEMMA OwedLoaded ==
    ASSUME NEW S, NEW B, NEW r, r.active = r.durable, Settled(B, r.durable)
    PROVE  Owed(S, B, r, {})
BY DEF Owed

LEMMA BootLoadPause ==
    ASSUME SafeInv, CleanInv, PauseInv, BootLoad PROVE PauseStep
<1>1. reg \in Registry /\ TypeInv /\ up = "down" /\ UNCHANGED <<bound, syncing>>
  BY DEF SafeInv, TypeInv, TypeOK, BootLoad, sync
<1>2. reg.active = NoTable
  BY <1>1 DEF CleanInv
<1>3. reg'.durable = reg.durable
  BY <1>1, BootLoadCases
<1>4. FolderInv' /\ Starting /\ Honours(syncing', reg, reg')
  BY <1>1, <1>3, Unsynced, HonoursSame
<1>5. Settled(bound', reg'.durable)
  BY <1>1, <1>3 DEF PauseInv
<1>6. Settled(bound, reg.durable)'
  BY <1>5 DEF Settled, Plain, RequiresPause
<1>7. CASE reg' = Untrusted(reg) /\ up' = "up" /\ op' = NoOp
  <2>1. ReconcileRefused(reg') /\ reg'.active = NoTable
    BY <1>1, <1>2, <1>7 DEF Untrusted, ReconcileRefused, Registry
  <2>2. Blind'
    BY <1>7, <2>1 DEF Blind, ReconcileRefused
  <2>3. StagePause' /\ BootPause'
    BY <1>7, SentinelsAssumption DEF StagePause, BootPause
  <2> QED
    BY <1>4, <1>6, <2>2, <2>3 DEF PauseStep, PauseInv
<1>8. CASE reg'.active = reg.durable /\ up' = "up" /\ op' = NoOp
  <2>1. Owed(syncing', bound', reg', {})
    BY <1>3, <1>5, <1>8, OwedLoaded
  <2> QED
    BY <1>4, <1>8, <2>1, PauseEnds DEF Yields
<1>9. CASE /\ reg'.active = reg.durable /\ up' = "boot"
           /\ op' = [pc |-> "boot", todo |-> Recorded(reg.durable), keep |-> NoTable]
  <2>1. op'.pc = "boot" /\ op'.todo = Recorded(reg.durable) /\ op'.keep = NoTable
    BY <1>9
  <2>2. op' \notin OpMount
    BY <2>1 DEF OpMount
  <2>3. BootPause'
    BY <1>3, <2>1 DEF BootPause, Recorded, NoTable, Plain, Owes
  <2>4. StagePause' /\ ~Serving'
    BY <1>9, <2>2 DEF StagePause, Serving
  <2> QED
    BY <1>4, <1>6, <2>3, <2>4 DEF PauseStep, PauseInv
<1> QED
  BY <1>1, <1>7, <1>8, <1>9, BootLoadCases

\* Boot cleanup drops no record that owes a pause.
LEMMA BootEntryKeeps ==
    ASSUME TypeInv, NEW e \in Entries, BootEntry(e)
    PROVE  /\ reg.active[e] \in Mount /\ op \in OpBoot
           /\ \E x \in MaybeMount :
                /\ op' = Kept(op, e, x)
                /\ Owes(e, x) = Owes(e, reg.active[e])
                /\ x # NoMount => x.id = reg.active[e].id
<1> DEFINE m == reg.active[e]
           over(known) == known /\ m.logon \in ended
           private(known) == e \in PerUser /\ over(known)
           empty(looked) == looked /\ slots'[m.slot] = 0
           privateClean(known, looked, cleaned) ==
               private(known) /\ empty(looked) /\ cleaned
           machineClean(cleaned) == /\ e \notin PerUser /\ slots[m.slot] = 0
                                    /\ LetterGone(m, alias') /\ cleaned
           closed(ok, known, looked, cleaned) ==
               IF private(known) THEN privateClean(known, looked, cleaned)
               ELSE (ok /\ empty(looked)) \/ machineClean(cleaned)
           kept(ok, known, looked, cleaned) ==
               [m EXCEPT !.cleanup = TRUE,
                         !.absent = closed(ok, known, looked, cleaned)
                                    \/ empty(looked)]
<1>1. op \in OpBoot
  BY DEF TypeInv, BootInv, BootEntry
<1>2. m \in Mount
  BY RecordType DEF BootEntry, TypeInv, TypeOK, BootInv, Recorded
<1>3. PICK ok \in BOOLEAN, shut \in BOOLEAN, clean \in BOOLEAN,
           looked \in BOOLEAN, cleaned \in BOOLEAN, known \in BOOLEAN :
        /\ ~Unknown(m)
        /\ Closes(m, ok, shut, clean)
        /\ IF private(known) THEN clean = privateClean(known, looked, cleaned)
           ELSE ok => clean
        /\ Spend(CloseCost(m, ok, shut) + Cost(looked) + Cost(cleaned)
                 + Cost(known))
        /\ op' = [op EXCEPT !.todo = @ \ {e},
                            !.keep[e] = IF closed(ok, known, looked, cleaned)
                                           /\ ~RequiresPause(e, m)
                                        THEN NoMount
                                        ELSE kept(ok, known, looked, cleaned)]
  BY Zenon DEF BootEntry
<1> DEFINE k == kept(ok, known, looked, cleaned)
<1>4. k \in Mount /\ k.id = m.id /\ k.managed = m.managed /\ k.unresolved = m.unresolved
  <2>1. (closed(ok, known, looked, cleaned) \/ empty(looked)) \in BOOLEAN
    OBVIOUS
  <2> HIDE DEF closed, empty
  <2> QED
    BY <1>2, <2>1 DEF Mount
<1> DEFINE x == IF closed(ok, known, looked, cleaned) /\ ~RequiresPause(e, m)
                THEN NoMount ELSE k
<1>5. op' = Kept(op, e, x)
  BY <1>3, Zenon DEF Kept
<1> HIDE DEF closed, k, m
<1>6. RequiresPause(e, k) = RequiresPause(e, m) /\ k # NoMount /\ m # NoMount
  BY <1>2, <1>4, SentinelsAssumption DEF RequiresPause
<1>7. /\ x \in MaybeMount
      /\ Owes(e, x) = Owes(e, m)
      /\ x # NoMount => x.id = m.id
  BY <1>2, <1>4, <1>6 DEF MaybeMount, Owes
<1> HIDE DEF x
<1> QED
  BY <1>1, <1>2, <1>5, <1>7 DEF m

LEMMA BootEntryPause ==
    ASSUME SafeInv, CleanInv, PauseInv, NEW e \in Entries, BootEntry(e) PROVE PauseStep
<1>1. TypeInv /\ reg.active[e] \in Mount /\ op \in OpBoot
  BY BootEntryKeeps DEF SafeInv
<1>2. up = "boot" /\ up' = "boot" /\ reg' = reg /\ reg.active = reg.durable
      /\ UNCHANGED <<bound, syncing>>
  BY DEF BootEntry, CleanInv, BootClean, sync
<1>3. PICK x \in MaybeMount :
        /\ op' = Kept(op, e, x)
        /\ Owes(e, x) = Owes(e, reg.active[e])
        /\ x # NoMount => x.id = reg.active[e].id
  BY <1>1, BootEntryKeeps
<1>4. op'.pc = "boot" /\ op'.todo = op.todo \ {e} /\ op'.keep[e] = x
      /\ \A f \in Entries \ {e} : op'.keep[f] = op.keep[f]
  BY <1>1, <1>3, BootKeep
<1>5. Plain(bound, e, reg.active[e]) /\ reg.active[e] # NoMount
  BY <1>1, <1>2, SentinelsAssumption DEF PauseInv, Settled
<1>6. Plain(bound, e, x)
  BY <1>3, <1>5 DEF Plain, Owes
<1>7. \A f \in Entries :
            /\ Plain(bound, f, op'.keep[f])
            /\ f \notin op'.todo => (Owes(f, reg.durable[f]) => Owes(f, op'.keep[f]))
  <2> SUFFICES ASSUME NEW f \in Entries
               PROVE  /\ Plain(bound, f, op'.keep[f])
                      /\ f \notin op'.todo
                           => (Owes(f, reg.durable[f]) => Owes(f, op'.keep[f]))
    OBVIOUS
  <2>1. CASE f = e
    BY <1>2, <1>3, <1>4, <1>6, <2>1
  <2>2. CASE f # e
    BY <1>2, <1>4, <2>2 DEF PauseInv, BootPause
  <2> QED
    BY <2>1, <2>2
<1>8. BootPause'
  BY <1>2, <1>7 DEF BootPause, Plain, Owes, RequiresPause
<1>9. StagePause' /\ ~Serving'
  BY <1>2, <1>4 DEF StagePause, Serving, OpMount
<1>10. Settled(bound, reg.durable)'
  BY <1>2 DEF PauseInv, Settled, Plain, RequiresPause
<1>11. FolderInv' /\ Starting /\ Honours(syncing', reg, reg')
  BY <1>2, Unsynced, HonoursSame
<1> QED
  BY <1>8, <1>9, <1>10, <1>11 DEF PauseInv, PauseStep

LEMMA BootClosedPause ==
    ASSUME SafeInv, CleanInv, PauseInv, BootFinish \/ \E e \in Entries : BootAborted(e)
    PROVE  PauseStep
<1>1. reg \in Registry /\ up = "boot" /\ up' = "up" /\ op' = NoOp
      /\ UNCHANGED <<bound, syncing>>
  BY DEF SafeInv, TypeInv, TypeOK, BootFinish, BootAborted, sync
<1>2. reg.active = reg.durable /\ Settled(bound', reg.durable)
  BY <1>1 DEF CleanInv, BootClean, PauseInv
<1>3. FolderInv' /\ Starting
  BY <1>1, Unsynced
<1>4. CASE reg' = Untrusted(reg)
  <2>1. Owed(syncing', bound', reg, {})
    BY <1>2, OwedLoaded
  <2> QED
    BY <1>1, <1>3, <1>4, <2>1, OwedUntrusted, PauseEnds
<1>5. CASE BootFinish /\ reg' = [reg EXCEPT !.active = op.keep, !.durable = op.keep]
  <2>1. reg'.active = op.keep /\ reg'.durable = op.keep
    BY <1>1, <1>5 DEF Registry
  <2>2. op.todo = {}
    BY <1>5 DEF BootFinish
  <2>3. Settled(bound', reg'.durable) /\ Honours(syncing', reg, reg')
    BY <1>1, <2>1, <2>2 DEF PauseInv, BootPause, Settled, Honours
  <2>4. Owed(syncing', bound', reg', {})
    BY <2>1, <2>3, OwedLoaded
  <2> QED
    BY <1>1, <1>3, <2>3, <2>4, PauseEnds DEF Yields
<1> QED
  BY <1>4, <1>5 DEF BootFinish, BootAborted

LEMMA BootPauseStep ==
    ASSUME SafeInv, CleanInv, PauseInv, Boot PROVE PauseStep
BY BootLoadPause, BootEntryPause, BootClosedPause DEF Boot

\* The entry in hand is any entry.
LEMMA OwedHold ==
    ASSUME NEW S, NEW B, NEW r, NEW e, Owed(S, B, r, {}) PROVE Owed(S, B, r, {e})
BY DEF Owed

\* A record that owes its pause, in the map and in the file, may have a folder,
\* and the folder may run.
LEMMA OwedCall ==
    ASSUME NEW S, NEW T, NEW B, NEW C, NEW r, NEW e \in Entries, Owed(S, B, r, {e}),
           \A f \in Entries : f \in T => f \in S \/ f = e,
           \A f \in Entries : f \in C => f \in B \/ f = e,
           Owes(e, r.active[e]), Owes(e, r.durable[e])
    PROVE  Owed(T, C, r, {e})
<1>1. Settled(C, r.active) /\ Settled(C, r.durable)
  BY DEF Owed, Settled, Plain, Owes
<1> QED
  BY <1>1 DEF Owed

\* The operations of a blind service: they change nothing.
LEMMA BlindPause ==
    ASSUME SafeInv, PauseInv, Serving, Blind, NEW e \in Entries, NEW l \in Logons,
           \/ MountRefused(e, l) \/ MountDeclined(e, l) \/ MountOpen(e, l)
           \/ Dismount(e, l) \/ SessionCleanup(e) \/ StopNext(e) \/ EnrollMark
    PROVE  PauseStep
<1>1. TypeInv /\ ReconcileRefused(reg) /\ op = NoOp /\ \A f \in Entries : reg.active[f] = NoMount
  BY DEF SafeInv, Blind, NoTable
<1>2. ~Dismount(e, l) /\ ~SessionCleanup(e) /\ ~StopNext(e)
  BY <1>1 DEF Dismount, SessionCleanup, StopNext
<1>3. ~MountDeclined(e, l) /\ ~MountOpen(e, l)
  BY <1>1 DEF MountDeclined, MountOpen, Admissible
<1>4. UNCHANGED <<reg, op, up, bound, syncing>>
  <2>1. CASE MountRefused(e, l)
    BY <1>1, <2>1 DEF MountRefused, sync
  <2>2. CASE EnrollMark
    BY <1>1, <2>2, EnrollMarkCases DEF EnrollMark, EnrollEligible, sync
  <2> QED
    BY <1>2, <1>3, <2>1, <2>2
<1>5. Blind'
  BY <1>4 DEF Blind, ReconcileRefused
<1>6. StagePause' /\ BootPause'
  BY <1>1, <1>4, SentinelsAssumption DEF StagePause, BootPause, Serving
<1>7. Settled(bound, reg.durable)'
  BY <1>4 DEF PauseInv, Settled, Plain, RequiresPause
<1>8. Honours(syncing', reg, reg')
  BY <1>4, HonoursSame
<1> QED
  BY <1>4, <1>5, <1>6, <1>7, <1>8, Unsynced DEF PauseStep, PauseInv

LEMMA MountRefusedPause ==
    ASSUME SafeInv, PauseInv, ~Blind, NEW e \in Entries, NEW l \in Logons,
           MountRefused(e, l) \/ MountDeclined(e, l)
    PROVE  PauseStep
<1>1. op = NoOp /\ op' = NoOp /\ up = "up" /\ up' = "up" /\ reg \in Registry /\ Serving
      /\ UNCHANGED <<bound, syncing>>
  BY DEF MountRefused, MountDeclined, Idle, SafeInv, TypeInv, TypeOK, Serving, sync
<1>2. Owed(syncing, bound, reg, {})
  BY <1>1, OwedRest
<1>3. reg' = reg \/ (\E known \in BOOLEAN : reg' = Reconciled(reg, known)
                                           \/ reg' = Admitted(e, known))
  BY DEF MountRefused, MountDeclined
<1>4. Yields(syncing, bound, reg, reg, {})
  BY <1>2, HonoursSame DEF Yields
<1>5. Yields(syncing, bound, reg, reg', {})
  BY <1>1, <1>2, <1>3, <1>4, OwedReconciled, OwedAdmitted
<1> QED
  BY <1>1, <1>5, PauseEnds, Unsynced

\* A mount that may have a folder says so from the start.
LEMMA MountOpenPause ==
    ASSUME SafeInv, SafeInv', PauseInv, ~Blind, NEW e \in Entries, NEW l \in Logons,
           MountOpen(e, l)
    PROVE  PauseStep
<1>1. op = NoOp /\ up = "up" /\ up' = "up" /\ reg \in Registry /\ Serving /\ TypeInv
      /\ UNCHANGED <<bound, syncing>>
  BY DEF MountOpen, Idle, SafeInv, TypeInv, TypeOK, Serving, sync
<1>2. PICK known \in BOOLEAN, s \in Slots, g \in Gens :
        /\ reg' = Admitted(e, known) /\ reg'.active[e] = NoMount
        /\ \/ op' = NoOp
           \/ op' = [pc |-> "opened", e |-> e, l |-> l, live |-> TRUE,
                     over |-> FALSE, ok |-> FALSE,
                     m |-> [logon |-> l, slot |-> s, id |-> 0, vol |-> g,
                            managed |-> FALSE, unresolved |-> e \in SyncOn,
                            cleanup |-> FALSE, absent |-> FALSE]]
  BY <1>1, MountOpenCases
<1>3. Yields(syncing', bound', reg, reg', {})
  BY <1>1, <1>2, OwedRest, OwedAdmitted
<1>4. CASE op' = NoOp
  BY <1>1, <1>3, <1>4, PauseEnds, Unsynced
<1>5. CASE op' # NoOp
  <2>1. op'.pc = "opened" /\ op'.e = e /\ op'.m.id = 0 /\ op'.m.unresolved = (e \in SyncOn)
    BY <1>2, <1>5
  <2>2. op' \in OpMount
    BY <1>5, <2>1 DEF SafeInv, TypeInv, TypeOK, OpBoot
  <2>3. StagePause'
    BY <1>2, <2>1 DEF StagePause
  <2>4. Yields(syncing', bound', reg, reg', {op'.e})
    BY <1>3, OwedHold DEF Yields
  <2> QED
    BY <1>1, <2>1, <2>2, <2>3, <2>4, PauseGoes, Unsynced
<1> QED
  BY <1>4, <1>5

LEMMA MountRejectedPause ==
    ASSUME SafeInv, CleanInv, PauseInv, MountRejected PROVE PauseStep
<1>1. op \in OpMount /\ op.e \in Entries /\ op.pc = "opened" /\ Serving
      /\ up \in {"up", "stopping"}
  BY OpServing DEF MountRejected
<1>2. op' \in OpMount /\ op'.e = op.e /\ op'.m = op.m
      /\ op'.pc \in {"badReply", "badRoot"} /\ reg' = reg /\ up' = up
      /\ UNCHANGED <<bound, syncing>>
  BY <1>1 DEF MountRejected, OpMount, sync
<1>3. Yields(syncing', bound', reg, reg', {op'.e})
  BY <1>1, <1>2, OwedBusy, HonoursSame DEF Yields
<1>4. StagePause'
  BY <1>1, <1>2 DEF PauseInv, StagePause
<1> QED
  BY <1>1, <1>2, <1>3, <1>4, PauseGoes, Unsynced

\* The record of a new mount asks for a pause if there may be a folder.
LEMMA MountRecordPause ==
    ASSUME SafeInv, CleanInv, PauseInv, MountRecord PROVE PauseStep
<1>1. op \in OpMount /\ op.e \in Entries /\ op.m \in Mount /\ op.pc = "opened" /\ Serving
      /\ up \in {"up", "stopping"} /\ reg \in Registry /\ TypeOK
  BY OpServing DEF MountRecord
<1>2. up' = up /\ UNCHANGED <<bound, syncing>>
  BY DEF MountRecord, sync
<1>3. /\ Owed(syncing, bound, reg, {op.e}) /\ reg.durable[op.e] = NoMount
      /\ reg.active[op.e] = NoMount /\ op.m.id = 0
      /\ op.e \in SyncOn => op.m.unresolved /\ op.e \in PerUser
      /\ op.e \in bound => op.e \in SyncOn
  BY <1>1, OwedBusy, EntriesAssumption DEF PauseInv, StagePause, FolderInv, CleanInv, StageInv
<1> DEFINE seen(looked) == IF looked THEN slots[op.m.slot] ELSE 0
           m(looked) == [op.m EXCEPT !.id = seen(looked)]
<1>4. PICK looked \in BOOLEAN, written \in BOOLEAN, again \in BOOLEAN :
        /\ reg' = IF seen(looked) # 0 /\ written THEN Persisted(Put(reg, op.e, m(looked)))
                  ELSE IF seen(looked) # 0 /\ op.e \notin Policy THEN Put(reg, op.e, m(looked))
                  ELSE reg
        /\ op' = IF seen(looked) = 0 THEN [op EXCEPT !.pc = "unseen"]
                 ELSE IF ~written
                      THEN [op EXCEPT !.pc = "unsaved", !.m = m(looked)]
                 ELSE IF op.e \in SyncOn
                      THEN [op EXCEPT !.pc = "resume", !.m = m(looked)]
                 ELSE NoOp
  BY Zenon DEF MountRecord
<1>5. m(looked) \in Mount /\ m(looked).unresolved = op.m.unresolved
  <2>1. seen(looked) \in 0 .. MaxGen /\ op.m.slot \in Slots
    BY <1>1, BoundsAssumption DEF Mount, TypeOK
  <2> QED
    BY <1>1, <2>1 DEF Mount
<1> HIDE DEF m, seen
<1>6. Plain(bound, op.e, m(looked)) /\ (op.e \in SyncOn => Owes(op.e, m(looked)))
      /\ m(looked) \in MaybeMount
  BY <1>3, <1>5, SentinelsAssumption DEF Plain, Owes, RequiresPause, MaybeMount
<1> DEFINE p == Put(reg, op.e, m(looked))
<1>7. Yields(syncing, bound, reg, p, {op.e})
  BY <1>1, <1>3, <1>6, OwedPut
<1>8. /\ Yields(syncing, bound, reg, Persisted(p), {})
      /\ Persisted(p).active[op.e] = m(looked) /\ Persisted(p).durable[op.e] = m(looked)
  <2>1. op.e \in syncing /\ op.e \notin reg.removal
          => (Owes(op.e, reg.durable[op.e]) => Owes(op.e, m(looked)))
    BY <1>3 DEF Owes
  <2>2. reg \in Registry /\ op.e \in Entries /\ Owed(syncing, bound, reg, {op.e})
        /\ Plain(bound, op.e, m(looked)) /\ m(looked) \in MaybeMount
    BY <1>1, <1>3, <1>6
  <2> QED
    BY <2>1, <2>2, OwedWritten, Zenon
<1> HIDE DEF p
<1>9. CASE seen(looked) = 0
  <2>1. op' \in OpMount /\ op'.pc = "unseen" /\ op'.e = op.e /\ op'.m = op.m
        /\ reg' = reg
    BY <1>1, <1>4, <1>9 DEF OpMount
  <2>2. StagePause'
    BY <1>3, <2>1 DEF StagePause
  <2>3. Yields(syncing', bound', reg, reg', {op'.e})
    BY <1>2, <1>3, <2>1, HonoursSame DEF Yields
  <2> QED
    BY <1>1, <1>2, <2>1, <2>2, <2>3, PauseGoes, Unsynced
<1>10. CASE seen(looked) # 0 /\ ~written
  <2>1. op' \in OpMount /\ op'.pc = "unsaved" /\ op'.e = op.e /\ op'.m = m(looked)
    BY <1>1, <1>4, <1>5, <1>10 DEF OpMount
  <2>2. reg' = p \/ reg' = reg
    BY <1>4, <1>10 DEF p
  <2>3. op.e \in Policy => reg' = reg
    BY <1>4, <1>10
  <2>4. StagePause'
    BY <1>3, <1>5, <2>1, <2>3 DEF StagePause
  <2>5. Yields(syncing', bound', reg, reg', {op'.e})
    BY <1>2, <1>3, <1>7, <2>1, <2>2, HonoursSame DEF Yields
  <2> QED
    BY <1>1, <1>2, <2>1, <2>4, <2>5, PauseGoes, Unsynced
<1>11. CASE seen(looked) # 0 /\ written /\ op.e \notin SyncOn
  <2>1. op' = NoOp /\ reg' = Persisted(p)
    BY <1>4, <1>11 DEF p
  <2> QED
    BY <1>1, <1>2, <1>8, <2>1, PauseEnds, Unsynced
<1>12. CASE seen(looked) # 0 /\ written /\ op.e \in SyncOn
  <2>1. op' \in OpMount /\ op'.pc = "resume" /\ op'.e = op.e
    BY <1>1, <1>4, <1>5, <1>12 DEF OpMount
  <2>2. reg' = Persisted(p)
    BY <1>4, <1>12 DEF p
  <2>3. Owes(op.e, reg'.durable[op.e]) /\ Owes(op.e, reg'.active[op.e])
    BY <1>6, <1>8, <1>12, <2>2
  <2>4. StagePause'
    BY <1>12, <2>1, <2>3 DEF StagePause, Owes, RequiresPause
  <2>5. Yields(syncing', bound', reg, reg', {op'.e})
    BY <1>2, <1>8, <2>2, OwedHold DEF Yields
  <2> QED
    BY <1>1, <1>2, <2>1, <2>4, <2>5, PauseGoes, Unsynced
<1> QED
  BY <1>9, <1>10, <1>11, <1>12

\* A mount that is closed again had no record in the file, and a record kept of
\* it asks for a pause if there may be a folder.
LEMMA MountDiscardPause ==
    ASSUME SafeInv, CleanInv, PauseInv, MountDiscard PROVE PauseStep
<1>1. op \in OpMount /\ op.e \in Entries /\ op.m \in Mount /\ Serving
      /\ op.pc \in {"badReply", "badRoot"}
      /\ up \in {"up", "stopping"} /\ reg \in Registry /\ TypeInv /\ TypeOK
  BY OpServing DEF MountDiscard
<1>2. up' = up /\ op' = NoOp /\ UNCHANGED <<bound, syncing>>
  BY DEF MountDiscard, sync
<1>3. /\ Owed(syncing, bound, reg, {op.e}) /\ reg.durable[op.e] = NoMount
      /\ reg.active[op.e] = NoMount
      /\ op.e \in SyncOn => op.m.unresolved /\ op.e \in PerUser
      /\ op.e \in bound => op.e \in SyncOn
  BY <1>1, OwedBusy, EntriesAssumption DEF PauseInv, StagePause, FolderInv, CleanInv, StageInv
<1>4. PICK ok \in BOOLEAN, shut \in BOOLEAN, clean \in BOOLEAN, looked \in BOOLEAN :
        /\ Closes(op.m, ok, shut, clean)
        /\ \/ reg' = reg
           \/ reg' = Retained(reg, op.e, Discarded(looked), TRUE)
           \/ reg' = Untrusted(Retained(reg, op.e, Discarded(looked), FALSE))
  BY MountDiscardCases
<1>5. Discarded(looked) \in Mount /\ Discarded(looked).unresolved = op.m.unresolved
  <2>1. slots' \in [Slots -> 0 .. MaxGen] /\ op.m.slot \in Slots
    BY <1>1, <1>4, ClosesType DEF Mount
  <2>2. (IF looked THEN slots'[op.m.slot] ELSE 0) \in 0 .. MaxGen
    BY <2>1, BoundsAssumption
  <2> QED
    BY <1>1, <2>2 DEF Mount, Discarded
<1>6. Plain(bound, op.e, Discarded(looked))
  BY <1>3, <1>5 DEF Plain, RequiresPause
<1> DEFINE r == Retained(reg, op.e, Discarded(looked), FALSE)
<1>7. /\ Yields(syncing, bound, reg, r, {}) /\ r \in Registry /\ r.durable = reg.durable
      /\ Yields(syncing, bound, reg, Retained(reg, op.e, Discarded(looked), TRUE), {})
  <2>1. TRUE \in BOOLEAN /\ FALSE \in BOOLEAN
    OBVIOUS
  <2>2. Discarded(looked) \in MaybeMount
    BY <1>5 DEF MaybeMount
  <2>3. r \in Registry
    BY <1>1, <2>1, <2>2, RetainedType
  <2>4. op.e \in syncing /\ op.e \notin reg.removal
          => (Owes(op.e, reg.durable[op.e]) => Owes(op.e, Discarded(looked)))
    BY <1>3 DEF Owes
  <2>5. reg \in Registry /\ op.e \in Entries /\ Owed(syncing, bound, reg, {op.e})
        /\ Plain(bound, op.e, Discarded(looked)) /\ Discarded(looked) \in Mount
    BY <1>1, <1>3, <1>5, <1>6
  <2>6. ASSUME NEW w \in BOOLEAN
        PROVE  Yields(syncing, bound, reg, Retained(reg, op.e, Discarded(looked), w), {})
    BY <2>4, <2>5, OwedRetained
  <2>7. r.durable = reg.durable
    <3>1. r.durable = Put(reg, op.e, Discarded(looked)).durable
      BY <1>1, <2>2, PutType DEF Retained, Registry
    <3> QED
      BY <1>1, <3>1 DEF Put, Registry
  <2> HIDE DEF r
  <2>8. Yields(syncing, bound, reg, Retained(reg, op.e, Discarded(looked), TRUE), {})
    BY <2>6
  <2>9. Yields(syncing, bound, reg, r, {})
    BY <2>1, <2>6, Zenon DEF r
  <2> QED
    BY <2>3, <2>7, <2>8, <2>9
<1> HIDE DEF r
<1>8. Yields(syncing, bound, reg, Untrusted(r), {})
  BY <1>7, OwedUntrusted, HonoursSame DEF Yields
<1>9. Yields(syncing, bound, reg, reg, {})
  BY <1>1, <1>3, OwedFree, HonoursSame DEF Yields, Owes
<1>10. Yields(syncing', bound', reg, reg', {})
  BY <1>2, <1>4, <1>7, <1>8, <1>9 DEF r
<1> QED
  BY <1>1, <1>2, <1>10, PauseEnds, Unsynced

LEMMA MountUndoPause ==
    ASSUME SafeInv, CleanInv, PauseInv, MountUndo PROVE PauseStep
<1>1. op \in OpMount /\ op.e \in Entries /\ op.m \in Mount /\ Serving
      /\ op.pc \in {"unseen", "unsaved"}
      /\ up \in {"up", "stopping"} /\ reg \in Registry /\ TypeInv /\ TypeOK
  BY OpServing DEF MountUndo
<1>2. up' = up /\ op' = NoOp /\ UNCHANGED <<bound, syncing>>
  BY DEF MountUndo, sync
<1>3. /\ Owed(syncing, bound, reg, {op.e}) /\ reg.durable[op.e] = NoMount
      /\ op.e \in Policy => reg.active[op.e] = NoMount
      /\ op.pc = "unseen" => op.m.id = 0
      /\ op.e \in SyncOn => op.m.unresolved /\ op.e \in PerUser
      /\ op.e \in bound => op.e \in SyncOn
  BY <1>1, OwedBusy, EntriesAssumption DEF PauseInv, StagePause, FolderInv, CleanInv, StageInv
<1>4. PICK written \in BOOLEAN :
        \/ op.e \in Policy /\ reg' = reg
        \/ reg' = Cleared(reg, op.e, written)
        \/ /\ op.e \in Policy => op.pc = "unseen"
           /\ reg' = Retained(Untrusted(reg), op.e, Undone, written)
  BY MountUndoCases
<1>5. ASSUME op.e \in Policy, reg' = reg PROVE Yields(syncing, bound, reg, reg', {})
  BY <1>1, <1>3, <1>5, OwedFree, HonoursSame DEF Yields, Owes
<1>6. ASSUME reg' = Cleared(reg, op.e, written)
      PROVE  Yields(syncing, bound, reg, reg', {})
  BY <1>1, <1>3, <1>6, OwedCleared
<1>7. ASSUME op.e \in Policy => op.pc = "unseen",
             reg' = Retained(Untrusted(reg), op.e, Undone, written)
      PROVE  Yields(syncing, bound, reg, reg', {})
  <2>1. Undone \in Mount /\ Undone.id = op.m.id
        /\ Undone.unresolved = (op.m.unresolved /\ op.e \notin Policy)
    <3>1. (op.m.unresolved /\ op.e \notin Policy) \in BOOLEAN
      OBVIOUS
    <3> QED
      BY <1>1, <3>1 DEF Mount, Undone
  <2>2. Plain(bound, op.e, Undone)
    BY <1>3, <1>7, <2>1 DEF Plain, RequiresPause
  <2>3. /\ Untrusted(reg) \in Registry /\ Untrusted(reg).durable = reg.durable
        /\ Untrusted(reg).removal = reg.removal
        /\ Yields(syncing, bound, reg, Untrusted(reg), {op.e})
    BY <1>1, <1>3, UntrustedType, OwedUntrusted
  <2>4. Yields(syncing, bound, Untrusted(reg), reg', {})
    BY <1>1, <1>3, <1>7, <2>1, <2>2, <2>3, OwedRetained DEF Yields, Owes
  <2> QED
    BY <2>3, <2>4, HonoursTwice DEF Yields
<1>8. Yields(syncing', bound', reg, reg', {})
  BY <1>2, <1>4, <1>5, <1>6, <1>7
<1> QED
  BY <1>1, <1>2, <1>8, PauseEnds, Unsynced

\* A call of the adapter is made under a record that owes its pause, and the
\* record it leaves owes one if there is a folder.
LEMMA CallPause ==
    ASSUME SafeInv, CleanInv, PauseInv, op \in OpMount, op.e \in Entries, Serving,
           op.pc \in {"resume", "enroll"}, op' = NoOp, up' \in {"up", "stopping"},
           reg \in Registry, NEW m \in Mount, FolderInv',
           op.e \in bound' => RequiresPause(op.e, m),
           \A f \in Entries : f \in syncing' => f \in syncing \/ f = op.e,
           \A f \in Entries : f \in bound' => f \in bound \/ f = op.e,
           \/ reg' = reg
           \/ reg' = Put(reg, op.e, m)
           \/ reg' = Persisted(Put(reg, op.e, m))
    PROVE  PauseStep
<1> DEFINE S == syncing'
           B == bound'
<1>1. Owes(op.e, reg.durable[op.e]) /\ Owes(op.e, reg.active[op.e])
  BY DEF PauseInv, StagePause
<1>2. Owed(S, B, reg, {op.e})
  BY <1>1, OwedBusy, OwedCall
<1>3. /\ op.e \in B => Owes(op.e, m)
      /\ op.e \in S => op.e \in B
      /\ Plain(B, op.e, m) /\ m \in MaybeMount
  BY SentinelsAssumption DEF Owes, Plain, FolderInv, MaybeMount
<1> HIDE DEF S, B
<1>4. CASE reg' = reg
  <2>1. Yields(S, B, reg, reg', {})
    BY <1>1, <1>2, <1>4, OwedFree, HonoursSame DEF Yields
  <2>2. Starting
    BY <1>1, <1>4 DEF Starting
  <2> QED
    BY <2>1, <2>2, PauseEnds DEF S, B
<1>5. CASE reg' = Put(reg, op.e, m)
  <2>1. /\ Yields(S, B, reg, reg', {op.e}) /\ reg'.active[op.e] = m
        /\ reg'.durable = reg.durable
    BY <1>2, <1>3, <1>5, OwedPut
  <2>2. Owed(S, B, reg', {op.e}) /\ Honours(S, reg, reg')
    BY <2>1 DEF Yields
  <2>3. Owed(S, B, reg', {})
    BY <1>1, <1>3, <2>1, <2>2, OwedFree
  <2>4. Starting
    BY <1>1, <2>1 DEF Starting
  <2> QED
    BY <2>2, <2>3, <2>4, PauseEnds DEF S, B, Yields
<1>6. CASE reg' = Persisted(Put(reg, op.e, m))
  <2>1. op.e \in S /\ op.e \notin reg.removal
          => (Owes(op.e, reg.durable[op.e]) => Owes(op.e, m))
    BY <1>3
  <2>2. Yields(S, B, reg, reg', {}) /\ reg'.durable[op.e] = m
    BY <1>2, <1>3, <1>6, <2>1, OwedWritten
  <2>3. Starting
    BY <1>3, <2>2 DEF Starting, S
  <2> QED
    BY <2>2, <2>3, PauseEnds DEF S, B
<1> QED
  BY <1>4, <1>5, <1>6

\* The record an answered or a failed resume leaves.
LEMMA ResumeRecord ==
    ASSUME NEW e, NEW a \in Mount, NEW answered \in BOOLEAN
    PROVE  /\ AfterResume(e, a, answered) \in Mount
           /\ answered /\ e \in bound => AfterResume(e, a, answered).managed
           /\ ~answered => AfterResume(e, a, answered).unresolved
           /\ ~answered /\ a.managed => AfterResume(e, a, answered).managed
<1>1. (e \in bound) \in BOOLEAN /\ TRUE \in BOOLEAN /\ FALSE \in BOOLEAN
  OBVIOUS
<1>2. CASE answered
  <2>1. AfterResume(e, a, answered) = [a EXCEPT !.managed = e \in bound, !.unresolved = FALSE]
    BY <1>2 DEF AfterResume
  <2> QED
    BY <1>1, <1>2, <2>1 DEF Mount
<1>3. CASE ~answered
  <2>1. AfterResume(e, a, answered) = [a EXCEPT !.unresolved = TRUE]
    BY <1>3 DEF AfterResume
  <2> QED
    BY <1>1, <1>3, <2>1 DEF Mount
<1> QED
  BY <1>2, <1>3

LEMMA MountResumePause ==
    ASSUME SafeInv, CleanInv, PauseInv, MountResume PROVE PauseStep
<1>1. op \in OpMount /\ op.e \in Entries /\ op.m \in Mount /\ op.pc = "resume" /\ Serving
      /\ up \in {"up", "stopping"} /\ reg \in Registry
  BY OpServing DEF MountResume
<1>2. up' = up /\ op' = NoOp /\ bound' = bound
  BY DEF MountResume
<1>3. op.e \in PerUser
  BY <1>1, EntriesAssumption DEF PauseInv, StagePause
<1> DEFINE m(answered, opted) ==
             [AfterResume(op.e, op.m, answered)
                 EXCEPT !.unresolved = @ \/ ~opted]
<1>4. PICK answered \in BOOLEAN, started \in BOOLEAN, opted \in BOOLEAN, written \in BOOLEAN :
        /\ Resumes(op.e, answered, started)
        /\ reg' = IF written THEN Persisted(Put(reg, op.e, m(answered, opted)))
                             ELSE Put(reg, op.e, m(answered, opted))
  BY Zenon DEF MountResume
<1> DEFINE a == AfterResume(op.e, op.m, answered)
<1>5. /\ a \in Mount
      /\ answered /\ op.e \in bound => a.managed
      /\ ~answered => a.unresolved
  BY <1>1, ResumeRecord
<1>6. m(answered, opted) = [a EXCEPT !.unresolved = @ \/ ~opted]
  OBVIOUS
<1> HIDE DEF a, m
<1> DEFINE n == m(answered, opted)
<1>7. n \in Mount /\ n.managed = a.managed /\ n.unresolved = (a.unresolved \/ ~opted)
  <2>1. (a.unresolved \/ ~opted) \in BOOLEAN
    OBVIOUS
  <2>2. n = [a EXCEPT !.unresolved = a.unresolved \/ ~opted]
    BY <1>6
  <2> HIDE DEF n
  <2> QED
    BY <1>5, <2>1, <2>2 DEF Mount
<1>8. \/ reg' = Put(reg, op.e, n)
      \/ reg' = Persisted(Put(reg, op.e, n))
  BY <1>4
<1> HIDE DEF n
<1>9. op.e \in bound' => RequiresPause(op.e, n)
  BY <1>2, <1>3, <1>5, <1>7 DEF RequiresPause
<1>10. /\ \A f \in Entries : f \in syncing' => f \in syncing \/ f = op.e
       /\ \A f \in Entries : f \in bound' => f \in bound \/ f = op.e
       /\ FolderInv'
  BY <1>2, <1>4 DEF Resumes, PauseInv, FolderInv
<1> QED
  BY <1>1, <1>2, <1>7, <1>8, <1>9, <1>10, CallPause

LEMMA EnrollCallPause ==
    ASSUME SafeInv, CleanInv, PauseInv, EnrollCall PROVE PauseStep
<1>1. op \in OpMount /\ op.e \in Entries /\ op.m \in Mount /\ op.pc = "enroll" /\ Serving
      /\ up \in {"up", "stopping"} /\ reg \in Registry
  BY OpServing DEF EnrollCall
<1>2. up' = up /\ op' = NoOp
  BY DEF EnrollCall
<1>3. op.e \in SyncOn
  BY <1>1 DEF PauseInv, StagePause
<1> DEFINE m == [op.m EXCEPT !.managed = TRUE, !.unresolved = FALSE]
<1>4. PICK binds \in BOOLEAN, starts \in BOOLEAN, answered \in BOOLEAN,
           written \in BOOLEAN :
        /\ answered => binds /\ starts
        /\ starts => binds \/ op.e \in bound
        /\ ~answered => written
        /\ Spend(Cost(answered) + Cost(written))
        /\ bound' = IF binds THEN bound \cup {op.e} ELSE bound
        /\ syncing' = IF starts THEN syncing \cup {op.e} ELSE syncing
        /\ reg' = IF ~answered THEN reg
                  ELSE IF written THEN Persisted(Put(reg, op.e, m))
                  ELSE Put(reg, op.e, m)
  BY Zenon DEF EnrollCall
<1>5. m \in Mount /\ m.managed
  BY <1>1 DEF Mount
<1> HIDE DEF m
<1>6. \/ reg' = reg
      \/ reg' = Put(reg, op.e, m)
      \/ reg' = Persisted(Put(reg, op.e, m))
  BY <1>4
<1>7. RequiresPause(op.e, m)
  BY <1>5 DEF RequiresPause
<1>8. /\ \A f \in Entries : f \in syncing' => f \in syncing \/ f = op.e
      /\ \A f \in Entries : f \in bound' => f \in bound \/ f = op.e
      /\ FolderInv'
  BY <1>3, <1>4 DEF PauseInv, FolderInv
<1> QED
  BY <1>1, <1>2, <1>5, <1>6, <1>7, <1>8, CallPause

\* A dismount takes a record in hand whose folder is confirmed to be paused, if
\* the record asks for it; what it puts back instead owes no more than before.
LEMMA StartsPause ==
    ASSUME PauseInv, NEW r \in Registry, Yields(syncing, bound, reg, r, {}),
           NEW e \in Entries, NEW l \in Logons, NEW m \in Mount, r.active[e] # NoMount,
           up' \in {"up", "stopping"}, bound' = bound,
           r.removal = reg.removal,
           syncing' \subseteq syncing,
           Plain(bound, e, m), RequiresPause(e, m) => RequiresPause(e, r.active[e]),
           \/ reg' = r /\ op' = NoOp
           \/ /\ e \in syncing' => ~RequiresPause(e, r.active[e])
              /\ \/ reg' = Put(r, e, m) /\ op' = NoOp
                 \/ /\ reg' = Put(r, e, NoMount)
                    /\ \E pc \in {"client", "member"}, over \in BOOLEAN :
                          op' = Closing(pc, e, l, m, over)
    PROVE  PauseStep
<1>1. FolderInv' /\ Starting
  BY DEF PauseInv, FolderInv, Starting
<1> DEFINE S == syncing'
<1>2. Owed(S, bound, r, {}) /\ Honours(S, reg, r)
  BY OwedLess DEF Yields, Honours
<1>3. Owed(S, bound, r, {e})
  BY <1>2, OwedHold
<1>4. CASE reg' = r /\ op' = NoOp
  BY <1>1, <1>2, <1>4, PauseEnds DEF Yields
<1>5. ASSUME e \in S => ~RequiresPause(e, r.active[e])
      PROVE  /\ e \in S /\ e \notin r.removal => ~Owes(e, r.durable[e])
             /\ Owes(e, m) /\ e \in bound /\ e \notin r.removal /\ e \notin r.persist
                  => Owes(e, r.durable[e])
  BY <1>2, <1>5 DEF Owed, Owes
<1>6. ASSUME NEW n \in MaybeMount, Plain(bound, e, n), reg' = Put(r, e, n)
      PROVE  /\ Honours(S, reg, reg') /\ Owed(S, bound, reg', {e})
             /\ reg'.active[e] = n /\ reg'.durable = r.durable
             /\ reg'.removal = r.removal /\ reg'.persist = r.persist
  <2> HIDE DEF S
  <2>1. /\ Yields(S, bound, r, Put(r, e, n), {e})
        /\ Put(r, e, n).active[e] = n /\ Put(r, e, n).durable = r.durable
        /\ Put(r, e, n).removal = r.removal /\ Put(r, e, n).persist = r.persist
    BY ONLY <1>3, <1>6, r \in Registry, e \in Entries, OwedPut
  <2>2. Honours(S, r, reg') /\ Owed(S, bound, reg', {e})
    BY <1>6, <2>1 DEF Yields
  <2>3. Honours(S, reg, r) /\ r.removal = reg.removal
    BY <1>2
  <2>4. Honours(S, reg, reg')
    BY <2>2, <2>3, HonoursTwice
  <2> QED
    BY <1>6, <2>1, <2>2, <2>4
<1>7. CASE /\ e \in syncing' => ~RequiresPause(e, r.active[e])
           /\ reg' = Put(r, e, m) /\ op' = NoOp
  <2>1. /\ Honours(S, reg, reg') /\ Owed(S, bound, reg', {e})
        /\ reg'.active[e] = m /\ reg'.durable = r.durable
        /\ reg'.removal = r.removal /\ reg'.persist = r.persist
    BY <1>6, <1>7 DEF MaybeMount
  <2>2. Owed(S, bound, reg', {})
    BY <1>5, <1>7, <2>1, OwedFree
  <2> QED
    BY <1>1, <1>7, <2>1, <2>2, PauseEnds DEF Yields
<1>8. ASSUME e \in syncing' => ~RequiresPause(e, r.active[e]), reg' = Put(r, e, NoMount),
             NEW pc \in {"client", "member"}, NEW over \in BOOLEAN,
             op' = Closing(pc, e, l, m, over)
      PROVE  PauseStep
  <2>1. Plain(bound, e, NoMount) /\ NoMount \in MaybeMount
    BY DEF Plain, MaybeMount
  <2>2. /\ Honours(S, reg, reg') /\ Owed(S, bound, reg', {e})
        /\ reg'.durable = r.durable
        /\ reg'.removal = r.removal /\ reg'.persist = r.persist
    BY <1>6, <1>8, <2>1
  <2>3. op' \in OpMount /\ op'.e = e /\ op'.m = m /\ op'.pc = pc
    <3>1. op' \in OpMount
      BY <1>8, ClosingType
    <3> QED
      BY <1>8, <3>1 DEF Closing
  <2>4. op'.m.managed => Owes(e, m)
    BY <2>3, SentinelsAssumption DEF Owes, RequiresPause
  <2>5. Plain(bound', op'.e, op'.m)
    BY <2>3
  <2>6. StagePause'
    BY <1>5, <1>8, <2>2, <2>3, <2>4, <2>5 DEF StagePause, Plain, Owes, RequiresPause
  <2> QED
    BY <1>1, <2>2, <2>3, <2>6, PauseGoes DEF Yields
<1> QED
  BY <1>4, <1>7, <1>8

\* What a pause may stop.
LEMMA PausesFacts ==
    ASSUME NEW e, NEW m, NEW confirmed \in BOOLEAN, Pauses(e, m, confirmed)
    PROVE  /\ syncing' \subseteq syncing
           /\ confirmed /\ RequiresPause(e, m) => e \notin syncing'
BY DEF Pauses

\* The record after a confirmed pause asks for one if there is a folder.
LEMMA PausedRecord ==
    ASSUME NEW e \in Entries, NEW a \in Mount, Plain(bound, e, a)
    PROVE  /\ Plain(bound, e, AfterPause(e, a))
           /\ RequiresPause(e, AfterPause(e, a)) => RequiresPause(e, a)
<1>1. CASE RequiresPause(e, a)
  <2>1. AfterPause(e, a) = [a EXCEPT !.managed = @ \/ e \in bound, !.unresolved = FALSE]
    BY <1>1 DEF AfterPause
  <2>2. AfterPause(e, a).managed = (a.managed \/ e \in bound)
    BY <2>1 DEF Mount
  <2> QED
    BY <1>1, <2>2 DEF Plain, RequiresPause
<1>2. CASE ~RequiresPause(e, a)
  BY <1>2 DEF AfterPause
<1> QED
  BY <1>1, <1>2

LEMMA StartClientPause ==
    ASSUME PauseInv, NEW r \in Registry, Yields(syncing, bound, reg, r, {}),
           NEW e \in Entries, NEW l \in Logons, NEW cost, r.active[e] # NoMount,
           up' \in {"up", "stopping"}, bound' = bound, r.removal = reg.removal,
           StartClient(r, e, l, cost)
    PROVE  PauseStep
<1> DEFINE a == r.active[e]
           m == AfterPause(e, r.active[e])
<1>1. PICK confirmed \in BOOLEAN, looked \in BOOLEAN :
        /\ Pauses(e, a, confirmed)
        /\ ~confirmed => looked
        /\ Spend(cost + Cost(confirmed) + Cost(looked))
        /\ IF ~confirmed
           THEN reg' = r /\ op' = NoOp
           ELSE IF ~looked \/ Unknown(m)
           THEN reg' = Put(r, e, m) /\ op' = NoOp
           ELSE /\ reg' = Put(r, e, NoMount)
                /\ op' = Closing("client", e, l, m, FALSE)
  BY Zenon DEF StartClient
<1>2. a \in Mount /\ m \in Mount
  BY RecordType, AfterPauseType
<1>3. Plain(bound, e, a)
  BY DEF Yields, Owed, Settled
<1>4. Plain(bound, e, m) /\ (RequiresPause(e, m) => RequiresPause(e, a))
  BY <1>2, <1>3, PausedRecord
<1>5. syncing' \subseteq syncing /\ (confirmed => (e \in syncing' => ~RequiresPause(e, a)))
  BY <1>1, PausesFacts
<1>6. \/ reg' = r /\ op' = NoOp
      \/ /\ e \in syncing' => ~RequiresPause(e, a)
         /\ \/ reg' = Put(r, e, m) /\ op' = NoOp
            \/ /\ reg' = Put(r, e, NoMount)
               /\ \E pc \in {"client", "member"}, over \in BOOLEAN :
                     op' = Closing(pc, e, l, m, over)
  <2>1. FALSE \in BOOLEAN /\ "client" \in {"client", "member"}
    OBVIOUS
  <2> HIDE DEF a, m
  <2> QED
    BY <1>1, <1>5, <2>1
<1> HIDE DEF m
<1> QED
  BY <1>2, <1>4, <1>5, <1>6, StartsPause

LEMMA StartMemberPause ==
    ASSUME PauseInv, NEW r \in Registry, Yields(syncing, bound, reg, r, {}),
           NEW e \in Entries, NEW l \in Logons, NEW over \in BOOLEAN, NEW cost,
           r.active[e] # NoMount, up' \in {"up", "stopping"}, bound' = bound,
           r.removal = reg.removal, syncing' \subseteq syncing,
           e \in syncing' => ~RequiresPause(e, r.active[e]),
           StartMember(r, e, l, over, cost)
    PROVE  PauseStep
<1> DEFINE m == r.active[e]
<1>1. m \in Mount
  BY RecordType
<1>2. \/ reg' = r /\ op' = NoOp
      \/ reg' = Put(r, e, NoMount) /\ op' = Closing("member", e, l, m, over)
  BY Zenon DEF StartMember
<1>3. Plain(bound, e, m)
  BY DEF Yields, Owed, Settled
<1>4. \/ reg' = r /\ op' = NoOp
      \/ /\ e \in syncing' => ~RequiresPause(e, m)
         /\ \/ reg' = Put(r, e, m) /\ op' = NoOp
            \/ /\ reg' = Put(r, e, NoMount)
               /\ \E pc \in {"client", "member"}, o \in BOOLEAN :
                     op' = Closing(pc, e, l, m, o)
  <2>1. "member" \in {"client", "member"}
    OBVIOUS
  <2> HIDE DEF m
  <2> QED
    BY <1>2, <2>1 DEF m
<1> QED
  BY <1>1, <1>3, <1>4, StartsPause

\* What a dismount does to Syncthing before the broker call.
LEMMA DismountPauses ==
    ASSUME NEW e \in Entries, NEW l \in Logons, Dismount(e, l)
    PROVE  \/ UNCHANGED <<reg, op, syncing>>
           \/ \E known \in BOOLEAN :
                \/ /\ reg' = Reconciled(reg, known) /\ UNCHANGED op
                   /\ syncing' \subseteq syncing
                \/ /\ Reconciled(reg, known).active[e] # NoMount
                   /\ \/ StartClient(Reconciled(reg, known), e, l, Cost(known))
                      \/ /\ Pauses(e, reg.active[e], TRUE)
                         /\ \E over \in BOOLEAN :
                              StartMember(Reconciled(reg, known), e, l, over, Cost(known))
<1> DEFINE old == reg.active[e]
           own == UserOf[old.logon] = UserOf[l]
<1>1. CASE UNCHANGED <<reg, op, syncing>>
  BY <1>1
<1>2. CASE ~UNCHANGED <<reg, op, syncing>>
  <2>1. PICK known \in BOOLEAN :
          LET r == Reconciled(reg, known)
          IN  /\ ~ReconcileRefused(reg)
              /\ IF r.active[e] = NoMount
                 THEN /\ reg' = r /\ Spend(Cost(known))
                      /\ reply' = Answer(e, l, "Unmounted")
                      /\ UNCHANGED <<op, syncing>>
                 ELSE /\ reply' = NoReply
                      /\ \/ /\ Unknown(old)
                            /\ reg' = r /\ Spend(Cost(known))
                            /\ UNCHANGED <<op, syncing>>
                         \/ /\ ~Unknown(old) /\ old.logon = l
                            /\ StartClient(r, e, l, Cost(known))
                         \/ /\ ~Unknown(old) /\ old.logon # l
                            /\ RequiresPause(e, old)
                            /\ reg' = r
                            /\ UNCHANGED op
                            /\ IF own THEN Pauses(e, old, FALSE) /\ Spend(Cost(known) + 1)
                                      ELSE UNCHANGED syncing /\ Spend(Cost(known))
                         \/ /\ ~Unknown(old) /\ old.logon # l
                            /\ RequiresPause(e, old) => own
                            /\ Pauses(e, old, TRUE)
                            /\ StartMember(r, e, l, known /\ old.logon \in ended,
                                           Cost(known))
    BY <1>2, Zenon DEF Dismount
  <2>2. (known /\ old.logon \in ended) \in BOOLEAN /\ FALSE \in BOOLEAN
    OBVIOUS
  <2>3. Pauses(e, old, FALSE) => syncing' \subseteq syncing
    BY <2>2, PausesFacts
  <2>4. UNCHANGED syncing => syncing' \subseteq syncing
    OBVIOUS
  <2> HIDE DEF old, own
  <2>5. \/ /\ reg' = Reconciled(reg, known) /\ UNCHANGED op
           /\ syncing' \subseteq syncing
        \/ /\ Reconciled(reg, known).active[e] # NoMount
           /\ \/ StartClient(Reconciled(reg, known), e, l, Cost(known))
              \/ /\ Pauses(e, old, TRUE)
                 /\ StartMember(Reconciled(reg, known), e, l, known /\ old.logon \in ended,
                                Cost(known))
    BY <2>1, <2>3, <2>4
  <2> QED
    BY <2>2, <2>5 DEF old
<1> QED
  BY <1>1, <1>2

LEMMA DismountPause ==
    ASSUME SafeInv, PauseInv, ~Blind, NEW e \in Entries, NEW l \in Logons,
           Dismount(e, l)
    PROVE  PauseStep
<1>1. op = NoOp /\ up = "up" /\ up' = "up" /\ reg \in Registry /\ Serving /\ bound' = bound
      /\ reg.active[e] # NoMount
  BY DEF Dismount, Idle, SafeInv, TypeInv, TypeOK, Serving
<1>2. Owed(syncing, bound, reg, {})
  BY <1>1, OwedRest
<1>3. CASE UNCHANGED <<reg, op, syncing>>
  BY <1>1, <1>2, <1>3, PauseEnds, Unsynced, HonoursSame DEF Yields
<1>4. ASSUME NEW known \in BOOLEAN, NEW r, r = Reconciled(reg, known),
             \/ /\ reg' = r /\ UNCHANGED op
                /\ syncing' \subseteq syncing
             \/ /\ r.active[e] # NoMount
                /\ \/ StartClient(r, e, l, Cost(known))
                   \/ /\ Pauses(e, reg.active[e], TRUE)
                      /\ \E over \in BOOLEAN :
                           StartMember(r, e, l, over, Cost(known))
      PROVE  PauseStep
  <2>1. /\ r \in Registry /\ Yields(syncing, bound, reg, r, {}) /\ r.removal = reg.removal
        /\ Owes(e, r.active[e]) = Owes(e, reg.active[e])
    BY <1>1, <1>2, <1>4, ReconciledType, OwedReconciled
  <2>2. CASE reg' = r /\ UNCHANGED op /\ syncing' \subseteq syncing
    <3>1. FolderInv' /\ Starting
      BY <1>1, <2>2 DEF PauseInv, FolderInv, Starting
    <3>2. Yields(syncing', bound', reg, reg', {})
      BY <1>1, <2>1, <2>2, OwedLess DEF Yields, Honours
    <3> QED
      BY <1>1, <2>2, <3>1, <3>2, PauseEnds
  <2>3. CASE r.active[e] # NoMount /\ StartClient(r, e, l, Cost(known))
    BY <1>1, <2>1, <2>3, StartClientPause
  <2>4. ASSUME r.active[e] # NoMount, Pauses(e, reg.active[e], TRUE), NEW over \in BOOLEAN,
               StartMember(r, e, l, over, Cost(known))
        PROVE  PauseStep
    <3>1. RequiresPause(e, r.active[e]) => RequiresPause(e, reg.active[e])
      BY <1>1, <2>1, <2>4 DEF Owes
    <3>2. TRUE \in BOOLEAN
      OBVIOUS
    <3>3. /\ syncing' \subseteq syncing
          /\ e \in syncing' => ~RequiresPause(e, r.active[e])
      BY <2>4, <3>1, <3>2, PausesFacts
    <3> QED
      BY <1>1, <2>1, <2>4, <3>3, StartMemberPause
  <2> QED
    BY <1>4, <2>2, <2>3, <2>4
<1> QED
  BY <1>3, <1>4, DismountPauses

\* The session cleanup takes the member path only when no pause is asked for.
LEMMA SessionCleanupPauses ==
    ASSUME NEW e \in Entries, SessionCleanup(e)
    PROVE  \/ UNCHANGED <<reg, op, syncing>>
           \/ /\ ~RequiresPause(e, reg.active[e]) /\ UNCHANGED syncing
              /\ StartMember(reg, e, reg.active[e].logon, TRUE, 0)
           \/ StartClient(reg, e, reg.active[e].logon, 0)
BY Zenon DEF SessionCleanup

LEMMA ServiceDismountPause ==
    ASSUME SafeInv, PauseInv, ~Blind, NEW e \in Entries, SessionCleanup(e) \/ StopNext(e)
    PROVE  PauseStep
<1>1. op = NoOp /\ up \in {"up", "stopping"} /\ up' = up /\ reg \in Registry /\ Serving
      /\ reg.active[e] # NoMount /\ bound' = bound
  BY DEF SessionCleanup, StopNext, Idle, SafeInv, TypeInv, TypeOK, Serving
<1>2. Yields(syncing, bound, reg, reg, {})
  BY <1>1, OwedRest, HonoursSame DEF Yields
<1>3. reg.active[e].logon \in Logons /\ TRUE \in BOOLEAN
  BY <1>1, RecordType DEF Mount
<1>4. \/ UNCHANGED <<reg, op, syncing>>
      \/ /\ ~RequiresPause(e, reg.active[e]) /\ UNCHANGED syncing
         /\ StartMember(reg, e, reg.active[e].logon, TRUE, 0)
      \/ StartClient(reg, e, reg.active[e].logon, 0)
  BY SessionCleanupPauses DEF StopNext
<1>5. CASE UNCHANGED <<reg, op, syncing>>
  BY <1>1, <1>2, <1>5, PauseEnds, Unsynced
<1>6. CASE /\ ~RequiresPause(e, reg.active[e]) /\ UNCHANGED syncing
           /\ StartMember(reg, e, reg.active[e].logon, TRUE, 0)
  BY <1>1, <1>2, <1>3, <1>6, StartMemberPause
<1>7. CASE StartClient(reg, e, reg.active[e].logon, 0)
  BY <1>1, <1>2, <1>3, <1>7, StartClientPause
<1> QED
  BY <1>4, <1>5, <1>6, <1>7

LEMMA ShutPause ==
    ASSUME SafeInv, CleanInv, PauseInv, Shut PROVE PauseStep
<1>1. op \in OpMount /\ op.e \in Entries /\ op.m \in Mount /\ Serving
      /\ op.pc \in {"client", "member"}
      /\ up \in {"up", "stopping"} /\ reg \in Registry
  BY OpServing DEF Shut
<1>2. PICK ok \in BOOLEAN, shut \in BOOLEAN, clean \in BOOLEAN :
        /\ IF op.over /\ op.e \in PerUser THEN ~clean ELSE ok => clean
        /\ Closes(op.m, ok, shut, clean)
        /\ Spend(CloseCost(op.m, ok, shut))
        /\ op' = [op EXCEPT !.ok = ok,
                            !.pc = IF op.pc = "client" THEN "clientShut"
                                                       ELSE "memberShut"]
  BY Zenon DEF Shut
<1>3. op' \in OpMount /\ op'.e = op.e /\ op'.m = op.m
      /\ op'.pc = (IF op.pc = "client" THEN "clientShut" ELSE "memberShut")
  BY <1>1, <1>2 DEF OpMount
<1>4. reg' = reg /\ up' = up /\ UNCHANGED <<bound, syncing>>
  BY DEF Shut, sync
<1>5. StagePause'
  BY <1>1, <1>3, <1>4 DEF PauseInv, StagePause, Plain, Owes, RequiresPause
<1>6. Yields(syncing', bound', reg, reg', {op'.e})
  BY <1>1, <1>3, <1>4, OwedBusy, HonoursSame DEF Yields
<1> QED
  BY <1>1, <1>3, <1>4, <1>5, <1>6, PauseGoes, Unsynced

\* The record put back owes a pause if its folder runs and was owed one.
LEMMA PutBackPause ==
    ASSUME PauseInv, Serving, op \in OpMount, op.e \in Entries, reg \in Registry,
           op' = NoOp, up' \in {"up", "stopping"}, bound' = bound, FolderInv',
           \A f \in Entries : f \in syncing' => f \in syncing \/ f = op.e,
           NEW m \in Mount, Plain(bound, op.e, m), NEW written \in BOOLEAN,
           op.e \in syncing' /\ op.e \notin reg.removal
             => (Owes(op.e, reg.durable[op.e]) => Owes(op.e, m)),
           op.e \in syncing' /\ op.e \notin syncing /\ op.e \notin reg.removal
             => Owes(op.e, m) /\ (op.e \in reg.persist \/ Owes(op.e, reg.durable[op.e])),
           reg' = Retained(reg, op.e, m, written)
    PROVE  PauseStep
<1> DEFINE S == syncing'
<1>1. Owed(S, bound, reg, {op.e})
  BY OwedBusy, OwedLess
<1>2. /\ Yields(S, bound, reg, reg', {})
      /\ written => reg'.durable[op.e] = m
      /\ ~written => reg'.durable = reg.durable
  BY <1>1, OwedRetained
<1>3. Starting
  <2> SUFFICES ASSUME NEW f \in Entries, f \in syncing', f \notin syncing, f \notin reg.removal
               PROVE  Owes(f, reg'.durable[f]) \/ f \in reg.persist
    BY DEF Starting
  <2>1. f = op.e
    OBVIOUS
  <2> QED
    BY <1>2, <2>1
<1> QED
  BY <1>2, <1>3, PauseEnds

\* A failed dismount marks its record and leaves the rest of it.
LEMMA PendingDebt ==
    ASSUME NEW m \in Mount, NEW looked \in BOOLEAN
    PROVE  /\ Pending(m, looked) \in Mount
           /\ Pending(m, looked).id = m.id /\ Pending(m, looked).managed = m.managed
           /\ Pending(m, looked).unresolved = m.unresolved
<1>1. Pending(m, looked) \in Mount
  BY PendingType
<1> QED
  BY <1>1 DEF Pending, Mount

LEMMA ClientFinishPauses ==
    ASSUME ClientFinish
    PROVE  \E again, written, answered, started \in BOOLEAN :
             \/ reg' = Retired(reg, op.e, written) /\ syncing' = syncing
             \/ /\ reg' = Retained(reg, op.e, Pending(op.m, again), written)
                /\ syncing' = syncing
             \/ /\ op.m.managed /\ Resumes(op.e, answered, started)
                /\ reg' = Retained(reg, op.e,
                              Pending(AfterResume(op.e, op.m, answered), again),
                              written)
<1> DEFINE gone(looked) == op.ok /\ looked /\ slots[op.m.slot] = 0
           resumes(looked) == ~gone(looked) /\ op.m.managed
<1>1. PICK looked \in BOOLEAN, again \in BOOLEAN, written \in BOOLEAN,
           answered \in BOOLEAN, started \in BOOLEAN :
        /\ gone(looked) => again
        /\ IF resumes(looked) THEN Resumes(op.e, answered, started)
           ELSE answered /\ ~started /\ syncing' = syncing
        /\ Spend(Cost(looked) + Cost(again) + Cost(written) + Cost(answered))
        /\ reg' = IF gone(looked) THEN Retired(reg, op.e, written)
                  ELSE Retained(reg, op.e,
                           Pending(IF resumes(looked)
                                   THEN AfterResume(op.e, op.m, answered)
                                   ELSE op.m, again),
                           written)
        /\ reply' = IF gone(looked) /\ written THEN Answer(op.e, op.l, "Unmounted")
                    ELSE NoReply
  BY Zenon DEF ClientFinish
<1>2. CASE gone(looked)
  BY <1>1, <1>2
<1>3. CASE resumes(looked)
  BY <1>1, <1>3
<1>4. CASE ~gone(looked) /\ ~resumes(looked)
  BY <1>1, <1>4
<1> QED
  BY <1>2, <1>3, <1>4

LEMMA FinishPause ==
    ASSUME SafeInv, CleanInv, PauseInv, ClientFinish \/ MemberFinish PROVE PauseStep
<1>1. op \in OpMount /\ op.e \in Entries /\ op.m \in Mount /\ Serving
      /\ op.pc \in {"clientShut", "memberShut"} /\ (ClientFinish => op.pc = "clientShut")
      /\ up \in {"up", "stopping"} /\ reg \in Registry
  <2>1. ClientFinish => At("clientShut")
    BY DEF ClientFinish
  <2>2. MemberFinish => At("memberShut")
    BY DEF MemberFinish
  <2> QED
    BY <2>1, <2>2, OpServing
<1>2. up' = up /\ op' = NoOp /\ bound' = bound /\ (MemberFinish => syncing' = syncing)
  BY DEF ClientFinish, MemberFinish, sync
<1>3. /\ Plain(bound, op.e, op.m)
      /\ op.e \in syncing /\ op.e \notin reg.removal => ~Owes(op.e, reg.durable[op.e])
      /\ op.pc = "clientShut" => (op.m.managed /\ op.e \in bound /\ op.e \notin reg.removal
             /\ op.e \notin reg.persist => Owes(op.e, reg.durable[op.e]))
  BY <1>1 DEF PauseInv, StagePause
<1>4. syncing' = syncing => FolderInv' /\ Starting
  BY <1>2, Unsynced
<1>5. ASSUME NEW written \in BOOLEAN, reg' = Retired(reg, op.e, written), syncing' = syncing
      PROVE  PauseStep
  BY <1>1, <1>2, <1>3, <1>4, <1>5, OwedBusy, OwedRetired, PauseEnds
<1>6. ASSUME NEW written \in BOOLEAN, NEW again \in BOOLEAN, syncing' = syncing,
             reg' = Retained(reg, op.e, Pending(op.m, again), written)
      PROVE  PauseStep
  <2> DEFINE m == Pending(op.m, again)
  <2>1. /\ m \in Mount /\ m.id = op.m.id /\ m.managed = op.m.managed
        /\ m.unresolved = op.m.unresolved
    BY <1>1, PendingDebt
  <2> HIDE DEF m
  <2>2. Plain(bound, op.e, m)
    BY <1>1, <1>3, <2>1, SentinelsAssumption DEF Plain, RequiresPause
  <2> QED
    BY <1>1, <1>2, <1>3, <1>4, <1>6, <2>1, <2>2, PutBackPause DEF m
<1>7. ASSUME ClientFinish, op.m.managed,
             NEW written \in BOOLEAN, NEW again \in BOOLEAN, NEW answered \in BOOLEAN,
             NEW started \in BOOLEAN, Resumes(op.e, answered, started),
             reg' = Retained(reg, op.e,
                        Pending(AfterResume(op.e, op.m, answered), again), written)
      PROVE  PauseStep
  <2> DEFINE a == AfterResume(op.e, op.m, answered)
             m == Pending(a, again)
  <2>1. a \in Mount /\ (op.e \in bound => a.managed)
    BY <1>1, <1>7, ResumeRecord
  <2> HIDE DEF a
  <2>2. m \in Mount /\ m.managed = a.managed
    BY <2>1, PendingDebt
  <2> HIDE DEF m
  <2>3. op.e \in bound => Owes(op.e, m)
    BY <2>1, <2>2, SentinelsAssumption DEF Owes, RequiresPause
  <2>4. Plain(bound, op.e, m)
    BY <2>3 DEF Plain, Owes
  <2>5. /\ FolderInv' /\ (op.e \in syncing' => op.e \in bound)
        /\ \A f \in Entries : f \in syncing' => f \in syncing \/ f = op.e
    BY <1>2, <1>7 DEF Resumes, PauseInv, FolderInv
  <2>6. op.e \in syncing' /\ op.e \notin reg.removal
          => (Owes(op.e, reg.durable[op.e]) => Owes(op.e, m))
    BY <2>3, <2>5
  <2>7. op.e \in syncing' /\ op.e \notin syncing /\ op.e \notin reg.removal
          => Owes(op.e, m) /\ (op.e \in reg.persist \/ Owes(op.e, reg.durable[op.e]))
    BY <1>1, <1>3, <1>7, <2>3, <2>5
  <2>8. reg' = Retained(reg, op.e, m, written)
    BY <1>7 DEF a, m
  <2> QED
    BY <1>1, <1>2, <2>2, <2>4, <2>5, <2>6, <2>7, <2>8, PutBackPause
<1>8. CASE ClientFinish
  BY <1>5, <1>6, <1>7, <1>8, ClientFinishPauses
<1>9. CASE MemberFinish
  <2>1. PICK again \in BOOLEAN, written \in BOOLEAN :
          \/ reg' = Retired(reg, op.e, written)
          \/ reg' = Retained(reg, op.e, Pending(op.m, again), written)
    BY <1>9, MemberFinishCases
  <2> QED
    BY <1>2, <1>5, <1>6, <1>9, <2>1
<1> QED
  BY <1>8, <1>9

\* An enrolment owes the pause before it calls the adapter.
LEMMA EnrollMarkPause ==
    ASSUME SafeInv, PauseInv, ~Blind, EnrollMark PROVE PauseStep
<1>1. op = NoOp /\ up = "up" /\ up' = "up" /\ reg \in Registry /\ Serving /\ TypeInv
      /\ UNCHANGED <<bound, syncing>>
  BY DEF EnrollMark, Idle, SafeInv, TypeInv, TypeOK, Serving, sync
<1>2. Owed(syncing, bound, reg, {})
  BY <1>1, OwedRest
<1>3. CASE UNCHANGED <<reg, op>>
  BY <1>1, <1>2, <1>3, PauseEnds, Unsynced, HonoursSame DEF Yields
<1>4. ASSUME enroll.e \in Entries, EnrollEligible(enroll.e, enroll.l)
      PROVE  /\ Enrolled \in Mount /\ Owes(enroll.e, Enrolled)
             /\ Enrolled \in MaybeMount /\ Plain(bound, enroll.e, Enrolled)
             /\ Owed(syncing, bound, reg, {enroll.e})
  <2>1. Enrolled \in Mount
    BY <1>1, <1>4, EnrolledType
  <2>2. reg.active[enroll.e] \in Mount
    BY <1>1, <1>4, RecordType DEF EnrollEligible
  <2>3. Enrolled.unresolved
    BY <2>2 DEF Enrolled, Mount
  <2>4. enroll.e \in PerUser
    BY <1>4, EntriesAssumption DEF EnrollEligible
  <2>5. Owes(enroll.e, Enrolled)
    BY <2>1, <2>3, <2>4, SentinelsAssumption DEF Owes, RequiresPause
  <2> QED
    BY <1>2, <2>1, <2>5, OwedHold DEF Plain, Owes, MaybeMount
<1>5. ASSUME enroll.e \in Entries, EnrollEligible(enroll.e, enroll.l),
             reg' = Put(reg, enroll.e, Enrolled), op' = NoOp
      PROVE  PauseStep
  <2>1. /\ Yields(syncing, bound, reg, reg', {enroll.e}) /\ reg'.active[enroll.e] = Enrolled
        /\ reg'.durable = reg.durable /\ reg'.removal = reg.removal
        /\ reg'.persist = reg.persist
    BY <1>1, <1>4, <1>5, OwedPut
  <2>2. enroll.e \in bound => Owes(enroll.e, reg.active[enroll.e])
    <3>1. Plain(bound, enroll.e, reg.active[enroll.e])
      BY <1>2, <1>5 DEF Owed, Settled
    <3> QED
      BY <1>5, <3>1 DEF Plain, Owes, EnrollEligible, Matches
  <2>3. enroll.e \in bound /\ enroll.e \notin reg.removal /\ enroll.e \notin reg.persist
          => Owes(enroll.e, reg.durable[enroll.e])
    BY <1>2, <1>5, <2>2 DEF Owed
  <2>4. Owed(syncing, bound, reg', {})
    BY <1>4, <1>5, <2>1, <2>3, OwedFree DEF Yields
  <2>5. Yields(syncing', bound', reg, reg', {})
    BY <1>1, <2>1, <2>4 DEF Yields
  <2> QED
    BY <1>1, <1>5, <2>5, PauseEnds, Unsynced
<1>6. ASSUME enroll.e \in Entries, enroll.l \in Logons,
             EnrollEligible(enroll.e, enroll.l),
             reg' = Persisted(Put(reg, enroll.e, Enrolled)),
             op' = Closing("enroll", enroll.e, enroll.l, Enrolled, FALSE)
      PROVE  PauseStep
  <2>1. enroll.e \in syncing /\ enroll.e \notin reg.removal
          => (Owes(enroll.e, reg.durable[enroll.e]) => Owes(enroll.e, Enrolled))
    BY <1>4, <1>6
  <2>2. /\ Yields(syncing, bound, reg, reg', {})
        /\ reg'.active[enroll.e] = Enrolled /\ reg'.durable[enroll.e] = Enrolled
    BY <1>1, <1>4, <1>6, <2>1, OwedWritten
  <2>3. op' \in OpMount /\ op'.e = enroll.e /\ op'.pc = "enroll"
    <3>1. op' \in OpMount
      BY <1>4, <1>6, ClosingType
    <3> QED
      BY <1>6, <3>1 DEF Closing
  <2>4. enroll.e \in SyncOn
    BY <1>6 DEF EnrollEligible
  <2>5. Owes(op'.e, reg'.durable[op'.e]) /\ Owes(op'.e, reg'.active[op'.e])
    BY <1>4, <1>6, <2>2, <2>3
  <2>6. StagePause'
    BY <2>3, <2>4, <2>5 DEF StagePause, Owes, RequiresPause
  <2>7. Yields(syncing', bound', reg, reg', {op'.e})
    BY <1>1, <2>2, OwedHold DEF Yields
  <2> QED
    BY <1>1, <1>6, <2>3, <2>6, <2>7, PauseGoes, Unsynced
<1> QED
  BY <1>1, <1>3, <1>5, <1>6, EnrollMarkCases

LEMMA IdlePause ==
    ASSUME SafeInv, SafeInv', CleanInv, PauseInv, NEW e \in Entries, NEW l \in Logons,
           \/ MountRefused(e, l) \/ MountDeclined(e, l) \/ MountOpen(e, l)
           \/ Dismount(e, l) \/ SessionCleanup(e) \/ StopNext(e) \/ EnrollMark
    PROVE  PauseStep
<1>1. Serving
  BY DEF MountRefused, MountDeclined, MountOpen, Dismount, SessionCleanup, StopNext,
     EnrollMark, Idle, Serving
<1>2. CASE Blind
  BY <1>1, <1>2, BlindPause
<1>3. CASE ~Blind
  BY <1>3, MountRefusedPause, MountOpenPause, DismountPause, ServiceDismountPause,
     EnrollMarkPause
<1> QED
  BY <1>2, <1>3

LEMMA NextPause ==
    ASSUME SafeInv, SafeInv', CleanInv, PauseInv, [Next]_vars PROVE PauseStep
<1>1. CASE StopExit \/ Crash \/ Reboot
  BY <1>1, ExitsPause DEF StopExit, Crash, Reboot
<1>2. ASSUME NEW e \in Entries, SessionCleanup(e) \/ StopNext(e)
      PROVE  PauseStep
  <2>1. reg.active[e].logon \in Logons
    BY <1>2, RecordType DEF SessionCleanup, StopNext, Mount, SafeInv, TypeInv, TypeOK
  <2> QED
    BY <1>2, <2>1, IdlePause
<1>3. ASSUME EnrollMark PROVE PauseStep
  <2>1. enroll.e \in Entries /\ enroll.l \in Logons
    BY <1>3 DEF EnrollMark, SafeInv, TypeInv, TypeOK
  <2> QED
    BY <1>3, <2>1, IdlePause
<1>4. ASSUME NEW e \in Entries, NEW l \in Logons,
             \/ MountRefused(e, l) \/ MountDeclined(e, l) \/ MountOpen(e, l)
             \/ Dismount(e, l)
      PROVE  PauseStep
  BY <1>4, IdlePause
<1> QED
  BY <1>1, <1>2, <1>3, <1>4, NextCases, QuietPause, BootPauseStep, MountRejectedPause,
     MountRecordPause, MountDiscardPause, MountUndoPause, MountResumePause,
     EnrollCallPause, ShutPause, FinishPause

LEMMA InitPause == Init => PauseInv
<1> SUFFICES ASSUME Init PROVE PauseInv
  OBVIOUS
<1>1. up = "up" /\ op = NoOp /\ reg = EmptyRegistry /\ bound \subseteq SyncOn /\ syncing = {}
  BY DEF Init
<1>2. Hands = {}
  BY <1>1, SentinelsAssumption DEF Hands
<1>3. /\ reg.active = reg.durable
      /\ \A e \in Entries : reg.durable[e] = NoMount
  BY <1>1 DEF EmptyRegistry, NoTable
<1>4. Settled(bound, reg.durable)
  BY <1>3 DEF Settled, Plain
<1>5. Owed(syncing, bound, reg, Hands)
  BY <1>2, <1>3, <1>4, OwedLoaded
<1>6. StagePause /\ BootPause /\ FolderInv
  BY <1>1, SentinelsAssumption DEF StagePause, BootPause, FolderInv
<1> QED
  BY <1>4, <1>5, <1>6 DEF PauseInv

\* While a Syncthing folder runs, the registry file never loses the obligation
\* to pause it, and a folder is started only under a record that carries it (or
\* is still to be written): for any vaults, slots and logons, through mounts,
\* enrolments, dismounts, reconciliation, boot cleanup and crashes, whatever
\* call of the adapter or the broker or write of the file fails on the way.
THEOREM PauseTheorem == Spec => PauseObligationKept
<1>1. SafeInv /\ SafeInv' /\ CleanInv /\ [Next]_vars => CleanInv'
  BY NextClean DEF CleanStep
<1>2. SafeInv /\ SafeInv' /\ CleanInv /\ PauseInv /\ [Next]_vars => PauseInv'
  BY NextPause DEF PauseStep
<1>3. ASSUME SafeInv, SafeInv', CleanInv, PauseInv, [Next]_vars,
             NEW e \in syncing' \ reg.removal
      PROVE  IF e \in syncing THEN Obliged(reg, e) => Obliged(reg', e)
             ELSE Obliged(reg', e) \/ e \in reg.persist
  <2>1. Honours(syncing', reg, reg') /\ Starting
    BY <1>3, NextPause DEF PauseStep
  <2>2. e \in Entries
    BY <1>3 DEF SafeInv, TypeInv, TypeOK
  <2> QED
    BY <1>3, <2>1, <2>2 DEF Honours, Starting, Owes, Obliged
<1>4. SafeInv /\ SafeInv' /\ CleanInv /\ PauseInv /\ [Next]_vars
        => \A e \in syncing' \ reg.removal :
             IF e \in syncing THEN Obliged(reg, e) => Obliged(reg', e)
             ELSE Obliged(reg', e) \/ e \in reg.persist
  BY <1>3
<1> QED
  BY <1>1, <1>2, <1>4, InitClean, InitPause, SafeInvariant, PTL
  DEF Spec, PauseObligationKept

=============================================================================
