-------------------------- MODULE VaultMountProofs --------------------------
(***************************************************************************)
(* The theorems about VaultMount, for any vaults, accounts, logons, slots    *)
(* and bounds: the broker keeps its types, and its map and its registry file *)
(* stay within MAX_DURABLE_MOUNTS.                                           *)
(*                                                                           *)
(* Each action has one lemma, which shows that it keeps the types and says   *)
(* what it does to the set of entries the broker holds.                      *)
(***************************************************************************)
EXTENDS VaultMount, FiniteSetTheorems, TLAPS

MaybeMount == Mount \cup {NoMount}
Reply == [e : Entries, l : Logons, state : {"Mounted", "Unmounted"}]

-----------------------------------------------------------------------------
(* What the operators on registries and records return.                     *)

\* Put replaces one record of the map.
LEMMA PutType ==
    ASSUME NEW r \in Registry, NEW e \in Entries, NEW m \in MaybeMount
    PROVE  Put(r, e, m) \in Registry
BY DEF Put, Registry, Table, MaybeMount

\* persist_active writes the map and forgets what it still had to write.
LEMMA PersistedType ==
    ASSUME NEW r \in Registry
    PROVE  Persisted(r) \in Registry
BY DEF Persisted, Registry

\* retain_cleanup_mount puts a record back, whether or not it is written.
LEMMA RetainedType ==
    ASSUME NEW r \in Registry, NEW e \in Entries, NEW m \in MaybeMount,
           NEW written \in BOOLEAN
    PROVE  Retained(r, e, m, written) \in Registry
<1>1. Put(r, e, m) \in Registry
  BY PutType
<1>2. Persisted(Put(r, e, m)) \in Registry
  BY <1>1, PersistedType
<1>3. [Put(r, e, m) EXCEPT !.persist = @ \cup {e}] \in Registry
  BY <1>1 DEF Registry
<1> QED
  BY <1>2, <1>3 DEF Retained

\* clear_retained_mount removes a record or remembers to.
LEMMA ClearedType ==
    ASSUME NEW r \in Registry, NEW e \in Entries, NEW written \in BOOLEAN
    PROVE  Cleared(r, e, written) \in Registry
<1>1. Persisted(Put(r, e, NoMount)) \in Registry
  BY PutType, PersistedType DEF MaybeMount
<1>2. [r EXCEPT !.removal = @ \cup {e}] \in Registry
  BY DEF Registry
<1> QED
  BY <1>1, <1>2 DEF Cleared

\* mark_registry_untrusted changes the two flags.
LEMMA UntrustedType ==
    ASSUME NEW r \in Registry
    PROVE  Untrusted(r) \in Registry
BY DEF Untrusted, Registry

\* The closing write of a dismount.
LEMMA RetiredType ==
    ASSUME NEW r \in Registry, NEW e \in Entries, NEW written \in BOOLEAN
    PROVE  Retired(r, e, written) \in Registry
<1>1. Persisted(r) \in Registry
  BY PersistedType
<1>2. [r EXCEPT !.persist = @ \cup {e}] \in Registry
  BY DEF Registry
<1> QED
  BY <1>1, <1>2 DEF Retired

\* The sweep of reconcile_absent_mounts_locked keeps valid_durable_mount true:
\* what it marks absent it marks for cleanup.
LEMMA SweptType ==
    ASSUME NEW r \in Registry, NEW known \in BOOLEAN
    PROVE  Swept(r, known) \in Table
<1> SUFFICES ASSUME NEW e \in Entries
             PROVE  Swept(r, known)[e] \in MaybeMount
  BY DEF Swept, Table, MaybeMount
<1>1. r.active[e] \in MaybeMount
  BY DEF Registry, Table, MaybeMount
<1>2. CASE known /\ e \in Droppable(r)
  BY <1>2 DEF Swept, MaybeMount
<1>3. CASE ~(known /\ e \in Droppable(r)) /\ e \in Missing(r)
  <2>1. r.active[e] \in Mount
    BY <1>1, <1>3 DEF Missing, Recorded, MaybeMount
  <2>2. [r.active[e] EXCEPT !.cleanup = TRUE, !.absent = TRUE] \in Mount
    BY <2>1 DEF Mount
  <2> QED
    BY <1>3, <2>2 DEF Swept, MaybeMount
<1>4. CASE ~(known /\ e \in Droppable(r)) /\ e \notin Missing(r)
  BY <1>1, <1>4 DEF Swept
<1> QED
  BY <1>2, <1>3, <1>4

\* reconcile_absent_mounts_locked as a whole.
LEMMA ReconciledType ==
    ASSUME NEW r \in Registry, NEW known \in BOOLEAN
    PROVE  Reconciled(r, known) \in Registry
<1> DEFINE table == Swept(r, known)
           q == IF table = r.active THEN r
                ELSE Persisted([r EXCEPT !.active = table])
<1>1. [r EXCEPT !.active = table] \in Registry
  BY SweptType DEF Registry
<1>2. q \in Registry
  BY <1>1, PersistedType
<1>3. [q EXCEPT !.untrusted = FALSE, !.recoverable = FALSE] \in Registry
  BY <1>2 DEF Registry
<1> QED
  BY <1>2, <1>3 DEF Reconciled

\* The repair of recovery_allows_entry drops what had to be removed.
LEMMA RepairedType ==
    ASSUME NEW r \in Registry
    PROVE  Repaired(r) \in Registry
<1> DEFINE kept == [e \in Entries |-> IF e \in r.removal THEN NoMount
                                                         ELSE r.active[e]]
<1>1. kept \in Table
  BY DEF Registry, Table
<1>2. [r EXCEPT !.removal = {}, !.active = kept] \in Registry
  BY <1>1 DEF Registry
<1> QED
  BY <1>2, PersistedType DEF Repaired

\* What recovery_allows_entry leaves behind.
LEMMA AdmittedType ==
    ASSUME reg \in Registry, NEW e \in Entries, NEW known \in BOOLEAN
    PROVE  Admitted(e, known) \in Registry
<1>1. Reconciled(reg, known) \in Registry
  BY ReconciledType
<1>2. Repaired(Reconciled(reg, known)) \in Registry
  BY <1>1, RepairedType
<1> QED
  BY <1>1, <1>2 DEF Admitted

\* A record of the map is a mount.
LEMMA RecordType ==
    ASSUME NEW r \in Registry, NEW e \in Entries, r.active[e] # NoMount
    PROVE  r.active[e] \in Mount
BY DEF Registry, Table

\* mounted_syncthing_result changes the two Syncthing flags.
LEMMA AfterResumeType ==
    ASSUME NEW e \in Entries, NEW m \in Mount, NEW answered \in BOOLEAN
    PROVE  AfterResume(e, m, answered) \in Mount
<1>1. [m EXCEPT !.managed = e \in bound, !.unresolved = FALSE] \in Mount
  <2>1. (e \in bound) \in BOOLEAN
    OBVIOUS
  <2> QED
    BY <2>1 DEF Mount
<1>2. [m EXCEPT !.unresolved = TRUE] \in Mount
  BY DEF Mount
<1> QED
  BY <1>1, <1>2 DEF AfterResume

\* So does a confirmed pause.
LEMMA AfterPauseType ==
    ASSUME NEW e \in Entries, NEW m \in Mount
    PROVE  AfterPause(e, m) \in Mount
<1>1. (m.managed \/ e \in bound) \in BOOLEAN
  OBVIOUS
<1>2. [m EXCEPT !.managed = @ \/ e \in bound, !.unresolved = FALSE] \in Mount
  BY <1>1 DEF Mount
<1> QED
  BY <1>2 DEF AfterPause

\* A record kept after a failed dismount is marked for cleanup.
LEMMA PendingType ==
    ASSUME NEW m \in Mount, NEW looked \in BOOLEAN
    PROVE  Pending(m, looked) \in Mount
<1>1. (~op.live \/ (looked /\ slots[m.slot] = 0)) \in BOOLEAN
  OBVIOUS
<1> QED
  BY <1>1 DEF Pending, Mount

\* Costs are counts.
LEMMA CostType ==
    ASSUME NEW good PROVE Cost(good) \in 0 .. 1
BY DEF Cost

\* The cost of a broker call is a count.
LEMMA CloseCostType ==
    ASSUME NEW m, NEW ok, NEW shut PROVE CloseCost(m, ok, shut) \in 0 .. 1
BY CostType DEF CloseCost

\* Faults are spent within their bound.
LEMMA SpendType ==
    ASSUME TypeOK, NEW n \in Nat, Spend(n)
    PROVE  faults' \in 0 .. MaxFaults
BY BoundsAssumption DEF TypeOK, Spend

-----------------------------------------------------------------------------
(* The entries the broker answers for: those of the map, and the one whose  *)
(* record the operation in progress has taken out of it or not yet put in.  *)
(* Only a mount that was admitted widens them, and the registry file names  *)
(* no entry they did not include.                                           *)

Held == Recorded(reg.active)
            \cup {e \in Entries : up # "boot" /\ op # NoOp /\ op.e = e}

Keeps(q) ==
    /\ Recorded(q.active) \subseteq Held
    /\ q.durable = reg.durable \/ Recorded(q.durable) \subseteq Held

\* A step that takes up no further entry.
Conserves == Keeps(reg') /\ Held' \subseteq Held

\* The step of load_and_cleanup: what the file names is taken up.
Loads == Held' \subseteq Recorded(reg.durable) /\ reg'.durable = reg.durable

\* The step of a mount: one more entry, if there is room.
Grows == /\ Keeps(reg')
         /\ HasCapacity(reg'.active)
         /\ \E e \in Entries : Held' \subseteq Recorded(reg'.active) \cup {e}

\* The registry as it is names held entries only.
LEMMA KeepsReg == Keeps(reg)
BY DEF Keeps, Held

\* Recording a held entry, or removing any, stays within Held.
LEMMA KeepsPut ==
    ASSUME NEW r \in Registry, Keeps(r), NEW e \in Entries, NEW m,
           e \in Held \/ m = NoMount
    PROVE  Keeps(Put(r, e, m))
<1>1. Put(r, e, m).active = [r.active EXCEPT ![e] = m]
      /\ Put(r, e, m).durable = r.durable
  BY DEF Put, Registry
<1>2. r.active \in [Entries -> Mount \cup {NoMount}]
  BY DEF Registry, Table
<1>3. Recorded(Put(r, e, m).active) \subseteq Held
  BY <1>1, <1>2 DEF Recorded, Keeps
<1> QED
  BY <1>1, <1>3 DEF Keeps

\* persist_active writes what the map names.
LEMMA KeepsPersisted ==
    ASSUME NEW r \in Registry, Keeps(r)
    PROVE  Keeps(Persisted(r))
<1>1. Persisted(r).active = r.active /\ Persisted(r).durable = r.active
  BY DEF Persisted, Registry
<1> QED
  BY <1>1 DEF Keeps

\* retain_cleanup_mount puts back a held entry.
LEMMA KeepsRetained ==
    ASSUME NEW r \in Registry, Keeps(r), NEW e \in Entries, e \in Held,
           NEW m \in Mount, NEW written \in BOOLEAN
    PROVE  Keeps(Retained(r, e, m, written))
<1>1. Put(r, e, m) \in Registry /\ Keeps(Put(r, e, m))
  BY PutType, KeepsPut DEF MaybeMount
<1>2. Keeps(Persisted(Put(r, e, m)))
  BY <1>1, KeepsPersisted
<1>3. Keeps([Put(r, e, m) EXCEPT !.persist = @ \cup {e}])
  BY <1>1 DEF Keeps, Registry
<1> QED
  BY <1>2, <1>3 DEF Retained

\* clear_retained_mount adds no entry.
LEMMA KeepsCleared ==
    ASSUME NEW r \in Registry, Keeps(r), NEW e \in Entries,
           NEW written \in BOOLEAN
    PROVE  Keeps(Cleared(r, e, written))
<1>1. Put(r, e, NoMount) \in Registry /\ Keeps(Put(r, e, NoMount))
  BY PutType, KeepsPut DEF MaybeMount
<1>2. Keeps(Persisted(Put(r, e, NoMount)))
  BY <1>1, KeepsPersisted
<1>3. Keeps([r EXCEPT !.removal = @ \cup {e}])
  BY DEF Keeps, Registry
<1> QED
  BY <1>2, <1>3 DEF Cleared

\* mark_registry_untrusted adds no entry.
LEMMA KeepsUntrusted ==
    ASSUME NEW r \in Registry, Keeps(r)
    PROVE  Keeps(Untrusted(r))
BY DEF Keeps, Untrusted, Registry

\* The closing write of a dismount adds no entry.
LEMMA KeepsRetired ==
    ASSUME NEW r \in Registry, Keeps(r), NEW e \in Entries,
           NEW written \in BOOLEAN
    PROVE  Keeps(Retired(r, e, written))
<1>1. Keeps(Persisted(r))
  BY KeepsPersisted
<1>2. Keeps([r EXCEPT !.persist = @ \cup {e}])
  BY DEF Keeps, Registry
<1> QED
  BY <1>1, <1>2 DEF Retired

\* reconcile_absent_mounts_locked only drops and flags records.
LEMMA KeepsReconciled ==
    ASSUME NEW r \in Registry, Keeps(r), NEW known \in BOOLEAN
    PROVE  Keeps(Reconciled(r, known))
<1> DEFINE table == Swept(r, known)
           swept == [r EXCEPT !.active = table]
           q == IF table = r.active THEN r ELSE Persisted(swept)
<1>1. swept \in Registry /\ swept.active = table /\ swept.durable = r.durable
  BY SweptType DEF Registry
<1>2. Recorded(table) \subseteq Recorded(r.active)
  BY DEF Recorded, Swept, Missing
<1>3. Keeps(swept)
  BY <1>1, <1>2 DEF Keeps
<1>4. q \in Registry /\ Keeps(q)
  BY <1>1, <1>3, KeepsPersisted, PersistedType
<1>5. Keeps([q EXCEPT !.untrusted = FALSE, !.recoverable = FALSE])
  BY <1>4 DEF Keeps, Registry
<1> QED
  BY <1>4, <1>5 DEF Reconciled

\* The repair of recovery_allows_entry only drops records.
LEMMA KeepsRepaired ==
    ASSUME NEW r \in Registry, Keeps(r)
    PROVE  Keeps(Repaired(r))
<1> DEFINE kept == [e \in Entries |-> IF e \in r.removal THEN NoMount
                                                         ELSE r.active[e]]
           q == [r EXCEPT !.removal = {}, !.active = kept]
<1>1. kept \in Table
  BY DEF Registry, Table
<1>2. q \in Registry /\ q.active = kept /\ q.durable = r.durable
  BY <1>1 DEF Registry
<1>3. Recorded(kept) \subseteq Recorded(r.active)
  BY DEF Recorded
<1>4. Keeps(q)
  BY <1>2, <1>3 DEF Keeps
<1> QED
  BY <1>2, <1>4, KeepsPersisted DEF Repaired

\* So recovery_allows_entry adds no entry.
LEMMA KeepsAdmitted ==
    ASSUME reg \in Registry, NEW e \in Entries, NEW known \in BOOLEAN
    PROVE  Keeps(Admitted(e, known))
<1>1. Reconciled(reg, known) \in Registry /\ Keeps(Reconciled(reg, known))
  BY ReconciledType, KeepsReconciled, KeepsReg
<1>2. Keeps(Repaired(Reconciled(reg, known)))
  BY <1>1, KeepsRepaired
<1> QED
  BY <1>1, <1>2 DEF Admitted

\* A step that leaves the registry and the operation alone.
LEMMA SameHeld ==
    ASSUME UNCHANGED <<up, reg, op>>
    PROVE  Conserves
<1>1. Held' = Held
  BY DEF Held, Recorded
<1> QED
  BY <1>1, KeepsReg DEF Conserves

\* A step that keeps the registry within Held and ends its operation, or goes
\* on with an entry of Held.
LEMMA HeldStep ==
    ASSUME Keeps(reg'), op' = NoOp \/ op'.e \in Held
    PROVE  Conserves
<1>1. Recorded(reg'.active) \subseteq Held
  BY DEF Keeps
<1>2. Held' \subseteq Held
  BY <1>1 DEF Held, Recorded
<1> QED
  BY <1>2 DEF Conserves

\* The entry of the operation in progress is held.
LEMMA OpHeld ==
    ASSUME op \in OpMount, op # NoOp, up # "boot"
    PROVE  op.e \in Held
BY DEF OpMount, Held

-----------------------------------------------------------------------------
(* TypeOK is inductive once boot is tied to its operation: BootEntry reads   *)
(* the record of each entry it has still to do, and MountRecord and the rest *)
(* must not run while the registry is being loaded.                          *)

BootInv ==
    up = "boot" => /\ op \in OpBoot
                   /\ op.todo \subseteq Recorded(reg.active)
                   /\ Recorded(op.keep) \subseteq Recorded(reg.active)

TypeInv == TypeOK /\ BootInv

\* The program counter tells the operations of mounts from that of boot.
LEMMA OpMountType ==
    ASSUME TypeInv, NEW pc, At(pc), pc # "boot"
    PROVE  op \in OpMount /\ up # "boot"
BY DEF TypeInv, TypeOK, BootInv, At, OpMount, OpBoot

\* A new broker has the types and is not booting.
LEMMA InitType == Init => TypeInv
<1> SUFFICES ASSUME Init PROVE TypeInv
  OBVIOUS
<1>1. NoTable \in Table
  BY DEF NoTable, Table
<1>2. reg \in Registry
  BY <1>1 DEF Init, EmptyRegistry, Registry
<1>3. slots \in [Slots -> 0 .. MaxGen] /\ faults \in 0 .. MaxFaults
  BY BoundsAssumption DEF Init
<1>4. targets \in Targets
  BY <1>1 DEF Init, NoTargets, Targets
<1>5. bound \subseteq Entries /\ grants \in [Policy -> SUBSET Users]
  BY EntriesAssumption DEF Init
<1> QED
  BY <1>2, <1>3, <1>4, <1>5 DEF Init, TypeInv, TypeOK, BootInv

\* handle_vault_mount's authorization.
LEMMA AuthorizeStep ==
    ASSUME TypeInv, NEW e \in Policy, NEW l \in Logons, Authorize(e, l)
    PROVE  TypeInv' /\ Conserves
<1>1. TypeInv'
  BY DEF TypeInv, TypeOK, BootInv, Authorize, Recorded, driver, sync
<1>2. Conserves
  BY SameHeld DEF Authorize
<1> QED
  BY <1>1, <1>2

\* A mount that recovery refuses.
LEMMA MountRefusedStep ==
    ASSUME TypeInv, NEW e \in Entries, NEW l \in Logons, MountRefused(e, l)
    PROVE  TypeInv' /\ Conserves
<1>1. reg' \in Registry
  BY ReconciledType DEF MountRefused, TypeInv, TypeOK
<1>2. faults' \in 0 .. MaxFaults
  <2>1. Cost(reg'.untrusted) \in Nat
    BY CostType
  <2>2. Spend(0) \/ Spend(1) \/ Spend(Cost(reg'.untrusted))
    BY DEF MountRefused
  <2> QED
    BY <2>1, <2>2, SpendType DEF TypeInv
<1>3. requests' \subseteq Policy \X Logons
  BY DEF MountRefused, Consumed, TypeInv, TypeOK
<1>4. TypeInv'
  BY <1>1, <1>2, <1>3
  DEF TypeInv, TypeOK, BootInv, MountRefused, Idle, driver, sync
<1>5. Conserves
  <2>1. Keeps(reg')
    BY KeepsReg, KeepsReconciled DEF MountRefused, TypeInv, TypeOK
  <2>2. op' = NoOp
    BY DEF MountRefused, Idle
  <2> QED
    BY <2>1, <2>2, HeldStep
<1> QED
  BY <1>4, <1>5

\* A mount that is declined after recovery let it through.
LEMMA MountDeclinedStep ==
    ASSUME TypeInv, NEW e \in Entries, NEW l \in Logons, MountDeclined(e, l)
    PROVE  TypeInv' /\ Conserves
<1>1. reg' \in Registry
  BY AdmittedType DEF MountDeclined, TypeInv, TypeOK
<1>2. faults' \in 0 .. MaxFaults
  <2>1. PICK known \in BOOLEAN :
          Spend(Cost(known) + Cost(reg'.active[e] # NoMount
                                   \/ ~HasCapacity(reg'.active)))
    BY DEF MountDeclined
  <2> QED
    BY <2>1, SpendType, CostType DEF TypeInv
<1>3. requests' \subseteq Policy \X Logons
  BY DEF MountDeclined, Consumed, TypeInv, TypeOK
<1>4. TypeInv'
  BY <1>1, <1>2, <1>3
  DEF TypeInv, TypeOK, BootInv, MountDeclined, Idle, driver, sync
<1>5. Conserves
  <2>1. Keeps(reg')
    BY KeepsAdmitted DEF MountDeclined, TypeInv, TypeOK
  <2>2. op' = NoOp
    BY DEF MountDeclined, Idle
  <2> QED
    BY <2>1, <2>2, HeldStep
<1> QED
  BY <1>4, <1>5

\* A mount whose volume is opened is the one step that may take up an entry.
LEMMA MountOpenStep ==
    ASSUME TypeInv, NEW e \in Entries, NEW l \in Logons, MountOpen(e, l)
    PROVE  TypeInv' /\ Grows
<1> DEFINE opened(s, g) ==
             [pc |-> "opened", e |-> e, l |-> l, live |-> TRUE,
              over |-> FALSE, ok |-> FALSE,
              m |-> [logon |-> l, slot |-> s, id |-> 0, vol |-> g,
                     managed |-> FALSE, unresolved |-> e \in SyncOn,
                     cleanup |-> FALSE, absent |-> FALSE]]
<1>1. PICK known \in BOOLEAN, heard \in BOOLEAN, s \in Slots, g \in Gens :
        /\ reg' = Admitted(e, known)
        /\ Opens(e, s, g)
        /\ Spend(Cost(known) + Cost(heard))
        /\ op' = IF heard THEN opened(s, g) ELSE NoOp
  BY Zenon DEF MountOpen
<1>2. reg' \in Registry
  BY <1>1, AdmittedType DEF TypeInv, TypeOK
<1>3. faults' \in 0 .. MaxFaults
  BY <1>1, SpendType, CostType DEF TypeInv
<1>4. requests' \subseteq Policy \X Logons
  BY DEF MountOpen, Consumed, TypeInv, TypeOK
<1>5. op' \in OpMount \cup {NoOp}
  <2>1. (e \in SyncOn) \in BOOLEAN /\ 0 \in 0 .. MaxGen
    BY BoundsAssumption
  <2>2. opened(s, g) \in OpMount
    BY <2>1 DEF OpMount, Mount
  <2> QED
    BY <1>1, <2>2
<1>6. /\ slots' \in [Slots -> 0 .. MaxGen]
      /\ volumes' \in [Gens -> Entries \cup {Foreign, NoMount}]
      /\ alias' \subseteq Gens
  <2>1. g \in 0 .. MaxGen
    BY BoundsAssumption DEF Gens
  <2>2. slots' \in [Slots -> 0 .. MaxGen]
    BY <1>1, <2>1 DEF Opens, TypeInv, TypeOK
  <2>3. volumes' \in [Gens -> Entries \cup {Foreign, NoMount}]
    BY <1>1 DEF Opens, TypeInv, TypeOK
  <2>4. alias' \subseteq Gens
    BY <1>1 DEF Opens, TypeInv, TypeOK
  <2> QED
    BY <2>2, <2>3, <2>4
<1>7. TypeInv'
  BY <1>2, <1>3, <1>4, <1>5, <1>6
  DEF TypeInv, TypeOK, BootInv, MountOpen, Idle, sync
<1>8. Grows
  <2>1. Keeps(reg')
    BY <1>1, KeepsAdmitted DEF TypeInv, TypeOK
  <2>2. HasCapacity(reg'.active)
    BY DEF MountOpen
  <2>3. op' = NoOp \/ op'.e = e
    BY <1>1
  <2>4. Held' \subseteq Recorded(reg'.active) \cup {e}
    BY <2>3 DEF Held, Recorded
  <2> QED
    BY <2>1, <2>2, <2>4 DEF Grows
<1> QED
  BY <1>7, <1>8

\* A malformed reply or a refused root.
LEMMA MountRejectedStep ==
    ASSUME TypeInv, MountRejected
    PROVE  TypeInv' /\ Conserves
<1>1. op \in OpMount /\ up # "boot"
  BY OpMountType DEF MountRejected
<1>2. op' \in OpMount
  BY <1>1 DEF MountRejected, OpMount
<1>3. faults' \in 0 .. MaxFaults
  <2>1. PICK good \in BOOLEAN : Spend(Cost(good))
    BY DEF MountRejected
  <2> QED
    BY <2>1, SpendType, CostType DEF TypeInv
<1>4. TypeInv'
  BY <1>1, <1>2, <1>3
  DEF TypeInv, TypeOK, BootInv, MountRejected, driver, sync, waiting
<1>5. Conserves
  <2>1. op.e \in Held /\ Keeps(reg)
    BY <1>1, OpHeld, KeepsReg DEF MountRejected, At
  <2>2. op'.e = op.e /\ reg' = reg
    BY <1>1 DEF MountRejected, OpMount
  <2> QED
    BY <2>1, <2>2, HeldStep
<1> QED
  BY <1>4, <1>5

\* Answers are well formed.
LEMMA AnswerType ==
    ASSUME NEW e \in Entries, NEW l \in Logons,
           NEW state \in {"Mounted", "Unmounted"}
    PROVE  Answer(e, l, state) \in Reply
BY DEF Answer, Reply

\* Recording the identity of a new mount.
LEMMA MountRecordStep ==
    ASSUME TypeInv, MountRecord
    PROVE  TypeInv' /\ Conserves
<1>1. op \in OpMount /\ up # "boot" /\ reg \in Registry
  BY OpMountType DEF MountRecord, TypeInv, TypeOK
<1> DEFINE seen(looked) == IF looked THEN slots[op.m.slot] ELSE 0
           m(looked) == [op.m EXCEPT !.id = seen(looked)]
<1>2. PICK looked \in BOOLEAN, written \in BOOLEAN, again \in BOOLEAN :
        /\ Spend(Cost(looked) + Cost(written) + Cost(again))
        /\ seen(looked) = 0 => written
        /\ (seen(looked) = 0 \/ ~written \/ op.e \in SyncOn \/ op.e \in Policy)
            => again
        /\ reg' = IF seen(looked) # 0 /\ written
                  THEN Persisted(Put(reg, op.e, m(looked)))
                  ELSE IF seen(looked) # 0 /\ op.e \notin Policy
                       THEN Put(reg, op.e, m(looked))
                  ELSE reg
        /\ op' = IF seen(looked) = 0 THEN [op EXCEPT !.pc = "unseen"]
                 ELSE IF ~written
                      THEN [op EXCEPT !.pc = "unsaved", !.m = m(looked)]
                 ELSE IF op.e \in SyncOn
                      THEN [op EXCEPT !.pc = "resume", !.m = m(looked)]
                 ELSE NoOp
        /\ reply' = IF seen(looked) # 0 /\ written /\ again /\ op.e \notin SyncOn
                    THEN Answer(op.e, op.l, "Mounted") ELSE NoReply
  BY Zenon DEF MountRecord
<1>3. m(looked) \in Mount
  <2>1. seen(looked) \in 0 .. MaxGen
    BY <1>1, BoundsAssumption DEF OpMount, Mount, TypeInv, TypeOK
  <2>2. op.m \in Mount
    BY <1>1 DEF OpMount
  <2> QED
    BY <2>1, <2>2 DEF Mount
<1>4. op.e \in Entries /\ op.l \in Logons
  BY <1>1 DEF OpMount
<1>5. reg' \in Registry
  BY <1>1, <1>2, <1>3, <1>4, PutType, PersistedType DEF MaybeMount
<1>6. op' \in OpMount \cup {NoOp}
  BY <1>1, <1>2, <1>3 DEF OpMount
<1>7. reply' \in Reply \cup {NoReply}
  BY <1>2, <1>4, AnswerType
<1>8. faults' \in 0 .. MaxFaults
  BY <1>2, SpendType, CostType DEF TypeInv
<1>9. UNCHANGED <<up, driver, ended, sync, grants, waiting>>
  BY DEF MountRecord
<1>10. TypeInv'
  BY <1>1, <1>5, <1>6, <1>7, <1>8, <1>9
  DEF TypeInv, TypeOK, BootInv, Reply, driver, sync, waiting
<1>11. Conserves
  <2>1. op.e \in Held /\ Keeps(reg)
    BY <1>1, OpHeld, KeepsReg DEF MountRecord, At
  <2>2. Put(reg, op.e, m(looked)) \in Registry
        /\ Keeps(Put(reg, op.e, m(looked)))
    BY <1>1, <1>3, <1>4, <2>1, PutType, KeepsPut DEF MaybeMount
  <2>3. Keeps(reg')
    BY <1>2, <2>1, <2>2, KeepsPersisted
  <2>4. op' = NoOp \/ op'.e = op.e
    BY <1>1, <1>2 DEF OpMount
  <2> QED
    BY <2>1, <2>3, <2>4, HeldStep
<1> QED
  BY <1>10, <1>11

\* A broker call empties a slot and removes a letter at most.
LEMMA ClosesType ==
    ASSUME TypeOK, NEW m \in Mount, NEW ok, NEW shut \in BOOLEAN,
           NEW clean \in BOOLEAN, Closes(m, ok, shut, clean)
    PROVE  slots' \in [Slots -> 0 .. MaxGen] /\ alias' \subseteq Gens
<1>1. m.slot \in Slots /\ 0 \in 0 .. MaxGen
  BY BoundsAssumption DEF Mount
<1>2. slots' \in [Slots -> 0 .. MaxGen]
  BY <1>1 DEF Closes, TypeOK
<1>3. alias' \subseteq Gens
  BY DEF Closes, TypeOK
<1> QED
  BY <1>2, <1>3

\* Closing a rejected mount again.
LEMMA MountDiscardStep ==
    ASSUME TypeInv, MountDiscard
    PROVE  TypeInv' /\ Conserves
<1>1. op \in OpMount /\ up # "boot" /\ reg \in Registry
  BY OpMountType DEF MountDiscard, TypeInv, TypeOK
<1>2. op.e \in Entries /\ op.m \in Mount
  BY <1>1 DEF OpMount
<1> DEFINE keeps(ok) == op.pc = "badRoot" /\ op.e \notin Policy /\ ~ok
           m(looked) == [op.m EXCEPT !.cleanup = TRUE,
                             !.id = IF looked THEN slots'[op.m.slot] ELSE 0]
<1>3. PICK ok \in BOOLEAN, shut \in BOOLEAN, clean \in BOOLEAN,
           looked \in BOOLEAN, written \in BOOLEAN :
        /\ Closes(op.m, ok, shut, clean)
        /\ ~keeps(ok) => looked /\ written
        /\ Spend(CloseCost(op.m, ok, shut) + Cost(looked) + Cost(written))
        /\ reg' = IF ~keeps(ok) THEN reg
                  ELSE IF written THEN Retained(reg, op.e, m(looked), TRUE)
                  ELSE Untrusted(Retained(reg, op.e, m(looked), FALSE))
  BY Zenon DEF MountDiscard
<1>4. slots' \in [Slots -> 0 .. MaxGen] /\ alias' \subseteq Gens
  BY <1>2, <1>3, ClosesType DEF TypeInv
<1>5. m(looked) \in Mount
  <2>1. (IF looked THEN slots'[op.m.slot] ELSE 0) \in 0 .. MaxGen
    BY <1>2, <1>4, BoundsAssumption DEF Mount
  <2> QED
    BY <1>2, <2>1 DEF Mount
<1>6. reg' \in Registry
  BY <1>1, <1>2, <1>3, <1>5, RetainedType, UntrustedType DEF MaybeMount
<1>7. faults' \in 0 .. MaxFaults
  BY <1>3, SpendType, CostType, CloseCostType DEF TypeInv
<1>8. op' = NoOp /\ reply' = NoReply
      /\ UNCHANGED <<up, volumes, ended, sync, grants, waiting>>
  BY DEF MountDiscard
<1>9. TypeInv'
  BY <1>1, <1>4, <1>6, <1>7, <1>8
  DEF TypeInv, TypeOK, BootInv, sync, waiting
<1>10. Conserves
  <2>1. op.e \in Held /\ Keeps(reg)
    BY <1>1, OpHeld, KeepsReg DEF MountDiscard, At
  <2>2. Keeps(reg')
    BY <1>1, <1>2, <1>3, <1>5, <2>1, KeepsRetained, RetainedType,
       KeepsUntrusted DEF MaybeMount
  <2> QED
    BY <1>8, <2>2, HeldStep
<1> QED
  BY <1>9, <1>10

\* Closing a mount that was not seen or not saved.
LEMMA MountUndoStep ==
    ASSUME TypeInv, MountUndo
    PROVE  TypeInv' /\ Conserves
<1>1. op \in OpMount /\ up # "boot" /\ reg \in Registry
  BY OpMountType DEF MountUndo, TypeInv, TypeOK
<1>2. op.e \in Entries /\ op.m \in Mount
  BY <1>1 DEF OpMount
<1> DEFINE gone(ok, looked) == ok /\ looked /\ slots'[op.m.slot] = 0
           m == [op.m EXCEPT !.cleanup = TRUE,
                             !.unresolved = @ /\ op.e \notin Policy]
           forgets(ok, looked) ==
               op.e \in Policy /\ (op.pc = "unsaved" \/ gone(ok, looked))
<1>3. PICK ok \in BOOLEAN, shut \in BOOLEAN, clean \in BOOLEAN,
           looked \in BOOLEAN, written \in BOOLEAN :
        /\ Closes(op.m, ok, shut, clean)
        /\ ok => clean
        /\ forgets(ok, looked) => written
        /\ Spend(CloseCost(op.m, ok, shut) + Cost(looked) + Cost(written))
        /\ reg' = IF forgets(ok, looked) THEN reg
                  ELSE IF gone(ok, looked) THEN Cleared(reg, op.e, written)
                  ELSE Retained(Untrusted(reg), op.e, m, written)
  BY Zenon DEF MountUndo
<1>4. slots' \in [Slots -> 0 .. MaxGen] /\ alias' \subseteq Gens
  BY <1>2, <1>3, ClosesType DEF TypeInv
<1>5. m \in Mount
  <2>1. (op.m.unresolved /\ op.e \notin Policy) \in BOOLEAN
    OBVIOUS
  <2> QED
    BY <1>2, <2>1 DEF Mount
<1>6. reg' \in Registry
  BY <1>1, <1>2, <1>3, <1>5, RetainedType, UntrustedType, ClearedType
  DEF MaybeMount
<1>7. faults' \in 0 .. MaxFaults
  BY <1>3, SpendType, CostType, CloseCostType DEF TypeInv
<1>8. op' = NoOp /\ reply' = NoReply
      /\ UNCHANGED <<up, volumes, ended, sync, grants, waiting>>
  BY DEF MountUndo
<1>9. TypeInv'
  BY <1>1, <1>4, <1>6, <1>7, <1>8
  DEF TypeInv, TypeOK, BootInv, sync, waiting
<1>10. Conserves
  <2>1. op.e \in Held /\ Keeps(reg)
    BY <1>1, OpHeld, KeepsReg DEF MountUndo, At
  <2>2. Untrusted(reg) \in Registry /\ Keeps(Untrusted(reg))
    BY <1>1, <2>1, UntrustedType, KeepsUntrusted
  <2>3. Keeps(reg')
    BY <1>1, <1>2, <1>3, <1>5, <2>1, <2>2, KeepsRetained, KeepsCleared
  <2> QED
    BY <1>8, <2>3, HeldStep
<1> QED
  BY <1>9, <1>10

\* Resuming the folder of a new mount.
LEMMA MountResumeStep ==
    ASSUME TypeInv, MountResume
    PROVE  TypeInv' /\ Conserves
<1>1. op \in OpMount /\ up # "boot" /\ reg \in Registry
  BY OpMountType DEF MountResume, TypeInv, TypeOK
<1>2. op.e \in Entries /\ op.l \in Logons /\ op.m \in Mount
  BY <1>1 DEF OpMount
<1> DEFINE m(answered, opted) ==
             [AfterResume(op.e, op.m, answered)
                 EXCEPT !.unresolved = @ \/ ~opted]
<1>3. PICK answered \in BOOLEAN, started \in BOOLEAN, opted \in BOOLEAN,
           written \in BOOLEAN :
        /\ Resumes(op.e, answered, started)
        /\ Spend(Cost(answered) + Cost(opted) + Cost(written))
        /\ reg' = IF written THEN Persisted(Put(reg, op.e, m(answered, opted)))
                             ELSE Put(reg, op.e, m(answered, opted))
        /\ reply' = IF written THEN Answer(op.e, op.l, "Mounted") ELSE NoReply
  BY Zenon DEF MountResume
<1>4. m(answered, opted) \in Mount
  <2>1. AfterResume(op.e, op.m, answered) \in Mount
    BY <1>2, AfterResumeType
  <2>2. (AfterResume(op.e, op.m, answered).unresolved \/ ~opted) \in BOOLEAN
    OBVIOUS
  <2> QED
    BY <2>1, <2>2 DEF Mount
<1>5. reg' \in Registry
  BY <1>1, <1>2, <1>3, <1>4, PutType, PersistedType DEF MaybeMount
<1>6. reply' \in Reply \cup {NoReply}
  BY <1>2, <1>3, AnswerType
<1>7. faults' \in 0 .. MaxFaults
  BY <1>3, SpendType, CostType DEF TypeInv
<1>8. syncing' \subseteq Entries
  BY <1>2, <1>3 DEF Resumes, TypeInv, TypeOK
<1>9. op' = NoOp /\ UNCHANGED <<up, driver, ended, bound, grants, waiting>>
  BY DEF MountResume
<1>10. TypeInv'
  BY <1>1, <1>5, <1>6, <1>7, <1>8, <1>9
  DEF TypeInv, TypeOK, BootInv, Reply, driver, waiting
<1>11. Conserves
  <2>1. op.e \in Held /\ Keeps(reg)
    BY <1>1, OpHeld, KeepsReg DEF MountResume, At
  <2>2. Put(reg, op.e, m(answered, opted)) \in Registry
        /\ Keeps(Put(reg, op.e, m(answered, opted)))
    BY <1>1, <1>2, <1>4, <2>1, PutType, KeepsPut DEF MaybeMount
  <2>3. Keeps(reg')
    BY <1>3, <2>2, KeepsPersisted
  <2> QED
    BY <1>9, <2>3, HeldStep
<1> QED
  BY <1>10, <1>11

\* The pause call changes the folder of its entry only.
LEMMA PausesType ==
    ASSUME TypeOK, NEW e \in Entries, NEW m, NEW confirmed \in BOOLEAN,
           Pauses(e, m, confirmed)
    PROVE  syncing' \subseteq Entries
BY DEF TypeOK, Pauses

\* The operation of a dismount is well formed.
LEMMA ClosingType ==
    ASSUME NEW pc \in {"client", "member", "enroll"}, NEW e \in Entries,
           NEW l \in Logons, NEW m \in Mount, NEW over \in BOOLEAN
    PROVE  Closing(pc, e, l, m, over) \in OpMount
<1>1. (slots[m.slot] # 0) \in BOOLEAN
  OBVIOUS
<1> QED
  BY <1>1 DEF Closing, OpMount

\* The start of the client path takes a record out of the map or leaves it.
LEMMA StartClientStep ==
    ASSUME TypeOK, NEW r \in Registry, NEW e \in Entries, NEW l \in Logons,
           NEW cost \in Nat, Keeps(r), r.active[e] # NoMount, StartClient(r, e, l, cost)
    PROVE  /\ reg' \in Registry
           /\ op' \in OpMount \cup {NoOp}
           /\ syncing' \subseteq Entries
           /\ faults' \in 0 .. MaxFaults
           /\ Conserves
<1> DEFINE m == AfterPause(e, r.active[e])
<1>1. PICK confirmed \in BOOLEAN, looked \in BOOLEAN :
        /\ Pauses(e, r.active[e], confirmed)
        /\ ~confirmed => looked
        /\ Spend(cost + Cost(confirmed) + Cost(looked))
        /\ IF ~confirmed
           THEN reg' = r /\ op' = NoOp
           ELSE IF ~looked \/ Unknown(m)
           THEN reg' = Put(r, e, m) /\ op' = NoOp
           ELSE /\ reg' = Put(r, e, NoMount)
                /\ op' = Closing("client", e, l, m, FALSE)
  BY Zenon DEF StartClient
<1>2. m \in Mount
  BY RecordType, AfterPauseType
<1>3. reg' \in Registry
  BY <1>1, <1>2, PutType DEF MaybeMount
<1>4. op' \in OpMount \cup {NoOp}
  BY <1>1, <1>2, ClosingType
<1>5. syncing' \subseteq Entries
  BY <1>1, PausesType
<1>6. faults' \in 0 .. MaxFaults
  BY <1>1, SpendType, CostType
<1>7. e \in Held
  BY DEF Keeps, Recorded
<1>8. Keeps(reg')
  BY <1>1, <1>7, KeepsPut
<1>9. op' = NoOp \/ op'.e \in Held
  BY <1>1, <1>7 DEF Closing
<1>10. Conserves
  BY <1>8, <1>9, HeldStep
<1> QED
  BY <1>3, <1>4, <1>5, <1>6, <1>10

\* So does the start of the member path.
LEMMA StartMemberStep ==
    ASSUME TypeOK, NEW r \in Registry, NEW e \in Entries, NEW l \in Logons,
           NEW over \in BOOLEAN, NEW cost \in Nat, Keeps(r), r.active[e] # NoMount,
           StartMember(r, e, l, over, cost)
    PROVE  /\ reg' \in Registry
           /\ op' \in OpMount \cup {NoOp}
           /\ faults' \in 0 .. MaxFaults
           /\ Conserves
<1> DEFINE m == r.active[e]
<1>1. PICK looked \in BOOLEAN :
        /\ Spend(cost + Cost(looked))
        /\ IF ~looked \/ Unknown(m)
           THEN reg' = r /\ op' = NoOp
           ELSE /\ reg' = Put(r, e, NoMount)
                /\ op' = Closing("member", e, l, m, over)
  BY Zenon DEF StartMember
<1>2. m \in Mount
  BY RecordType
<1>3. reg' \in Registry
  BY <1>1, PutType DEF MaybeMount
<1>4. op' \in OpMount \cup {NoOp}
  BY <1>1, <1>2, ClosingType
<1>5. faults' \in 0 .. MaxFaults
  BY <1>1, SpendType, CostType
<1>6. e \in Held
  BY DEF Keeps, Recorded
<1>7. Keeps(reg')
  BY <1>1, KeepsPut
<1>8. op' = NoOp \/ op'.e \in Held
  BY <1>1, <1>6 DEF Closing
<1>9. Conserves
  BY <1>7, <1>8, HeldStep
<1> QED
  BY <1>3, <1>4, <1>5, <1>9

\* dismount_authorized_locked up to the broker call.
LEMMA DismountStep ==
    ASSUME TypeInv, NEW e \in Entries, NEW l \in Logons, Dismount(e, l)
    PROVE  TypeInv' /\ Conserves
<1> DEFINE old == reg.active[e]
<1>0. TypeOK /\ reg \in Registry /\ up # "boot" /\ op = NoOp
  BY DEF TypeInv, TypeOK, Dismount, Idle
<1>1. /\ reg' \in Registry
      /\ op' \in OpMount \cup {NoOp}
      /\ syncing' \subseteq Entries
      /\ faults' \in 0 .. MaxFaults
      /\ reply' \in Reply \cup {NoReply}
      /\ Conserves
  <2>1. CASE /\ Spend(Cost(ReconcileRefused(reg)))
             /\ reply' = NoReply
             /\ UNCHANGED <<reg, op, syncing>>
    <3>1. Conserves
      BY <1>0, <2>1, KeepsReg, HeldStep
    <3> QED
      BY <1>0, <2>1, <3>1, SpendType, CostType DEF TypeOK
  <2>2. ASSUME NEW known \in BOOLEAN, NEW r, r = Reconciled(reg, known),
               r.active[e] = NoMount,
               reg' = r, Spend(Cost(known)), reply' = Answer(e, l, "Unmounted"),
               UNCHANGED <<op, syncing>>
        PROVE  <1>1!:
    <3>1. r \in Registry
      BY <1>0, <2>2, ReconciledType
    <3>2. Answer(e, l, "Unmounted") \in Reply
      BY AnswerType
    <3>3. faults' \in 0 .. MaxFaults
      BY <1>0, <2>2, SpendType, CostType
    <3>4. Conserves
      BY <1>0, <2>2, KeepsReg, KeepsReconciled, HeldStep
    <3> QED
      BY <1>0, <2>2, <3>1, <3>2, <3>3, <3>4 DEF TypeOK
  <2>3. ASSUME NEW known \in BOOLEAN, NEW r, r = Reconciled(reg, known),
               r.active[e] # NoMount, reply' = NoReply,
               \/ /\ reg' = r /\ Spend(Cost(known))
                  /\ UNCHANGED <<op, syncing>>
               \/ StartClient(r, e, l, Cost(known))
               \/ /\ reg' = r
                  /\ UNCHANGED op
                  /\ \/ Pauses(e, old, FALSE) /\ Spend(Cost(known) + 1)
                     \/ UNCHANGED syncing /\ Spend(Cost(known))
               \/ /\ Pauses(e, old, TRUE)
                  /\ StartMember(r, e, l, known /\ old.logon \in ended,
                                 Cost(known))
        PROVE  <1>1!:
    <3>1. r \in Registry /\ Cost(known) \in Nat /\ Keeps(r)
      BY <1>0, <2>3, ReconciledType, CostType, KeepsReg, KeepsReconciled
    <3> DEFINE still == reg' = r /\ UNCHANGED op
    <3>0. still => Conserves
      BY <1>0, <3>1, HeldStep
    <3>2. CASE /\ reg' = r /\ Spend(Cost(known))
               /\ UNCHANGED <<op, syncing>>
      BY <1>0, <2>3, <3>0, <3>1, <3>2, SpendType DEF TypeOK
    <3>3. CASE StartClient(r, e, l, Cost(known))
      BY <1>0, <2>3, <3>1, <3>3, StartClientStep
    <3>4. CASE /\ reg' = r
               /\ UNCHANGED op
               /\ \/ Pauses(e, old, FALSE) /\ Spend(Cost(known) + 1)
                  \/ UNCHANGED syncing /\ Spend(Cost(known))
      <4>1. syncing' \subseteq Entries
        BY <1>0, <3>4, PausesType DEF TypeOK
      <4>2. faults' \in 0 .. MaxFaults
        <5>1. Cost(known) + 1 \in Nat
          BY <3>1
        <5> QED
          BY <1>0, <3>1, <3>4, <5>1, SpendType
      <4> QED
        BY <1>0, <2>3, <3>0, <3>1, <3>4, <4>1, <4>2
    <3>5. CASE /\ Pauses(e, old, TRUE)
               /\ StartMember(r, e, l, known /\ old.logon \in ended,
                              Cost(known))
      <4>1. syncing' \subseteq Entries
        BY <1>0, <3>5, PausesType
      <4>2. (known /\ old.logon \in ended) \in BOOLEAN
        OBVIOUS
      <4> QED
        BY <1>0, <2>3, <3>1, <3>5, <4>1, <4>2, StartMemberStep
    <3> QED
      BY <2>3, <3>2, <3>3, <3>4, <3>5
  <2> QED
    BY <2>1, <2>2, <2>3 DEF Dismount
<1>2. UNCHANGED <<up, driver, ended, bound, grants, waiting>>
  BY DEF Dismount
<1>3. TypeInv'
  BY <1>0, <1>1, <1>2 DEF TypeInv, TypeOK, BootInv, Reply, driver, waiting
<1> QED
  BY <1>1, <1>3

\* confirm_unmounted_policy_entry only answers.
LEMMA AlreadyUnmountedStep ==
    ASSUME TypeInv, NEW e \in Policy, NEW l \in Logons, AlreadyUnmounted(e, l)
    PROVE  TypeInv' /\ Conserves
<1>1. reply' \in Reply
  BY AnswerType, EntriesAssumption DEF AlreadyUnmounted
<1>2. UNCHANGED <<up, reg, driver, ended, sync, grants, waiting, op, faults>>
  BY DEF AlreadyUnmounted
<1>3. TypeInv'
  BY <1>1, <1>2
  DEF TypeInv, TypeOK, BootInv, Reply, Recorded, driver, sync, waiting
<1>4. Conserves
  BY <1>2, SameHeld
<1> QED
  BY <1>3, <1>4

\* The broker call of a dismount.
LEMMA ShutStep ==
    ASSUME TypeInv, Shut
    PROVE  TypeInv' /\ Conserves
<1>1. op \in OpMount /\ up # "boot"
  BY OpMountType DEF Shut
<1>2. op.m \in Mount
  BY <1>1 DEF OpMount
<1>3. PICK ok \in BOOLEAN, shut \in BOOLEAN, clean \in BOOLEAN :
        /\ Closes(op.m, ok, shut, clean)
        /\ Spend(CloseCost(op.m, ok, shut))
        /\ op' = [op EXCEPT !.ok = ok,
                            !.pc = IF op.pc = "client" THEN "clientShut"
                                                       ELSE "memberShut"]
  BY DEF Shut
<1>4. slots' \in [Slots -> 0 .. MaxGen] /\ alias' \subseteq Gens
  BY <1>2, <1>3, ClosesType DEF TypeInv
<1>5. op' \in OpMount
  BY <1>1, <1>3 DEF OpMount
<1>6. faults' \in 0 .. MaxFaults
  BY <1>3, SpendType, CloseCostType DEF TypeInv
<1>7. reply' = NoReply
      /\ UNCHANGED <<up, reg, volumes, ended, sync, grants, waiting>>
  BY DEF Shut
<1>8. TypeInv'
  BY <1>1, <1>4, <1>5, <1>6, <1>7
  DEF TypeInv, TypeOK, BootInv, sync, waiting
<1>9. Conserves
  <2>1. op.e \in Held /\ Keeps(reg)
    BY <1>1, OpHeld, KeepsReg DEF Shut, At
  <2>2. op'.e = op.e
    BY <1>1, <1>3 DEF OpMount
  <2> QED
    BY <1>7, <2>1, <2>2, HeldStep
<1> QED
  BY <1>8, <1>9

\* The end of the client path retires the record or puts it back.
LEMMA ClientFinishStep ==
    ASSUME TypeInv, ClientFinish
    PROVE  TypeInv' /\ Conserves
<1>1. op \in OpMount /\ up # "boot" /\ reg \in Registry
  BY OpMountType DEF ClientFinish, TypeInv, TypeOK
<1>2. op.e \in Entries /\ op.l \in Logons /\ op.m \in Mount
  BY <1>1 DEF OpMount
<1> DEFINE gone(looked) == op.ok /\ looked /\ slots[op.m.slot] = 0
           resumes(looked) == ~gone(looked) /\ op.m.managed
           owed(looked, answered) ==
               IF resumes(looked) THEN AfterResume(op.e, op.m, answered)
                                  ELSE op.m
<1>3. PICK looked \in BOOLEAN, again \in BOOLEAN, written \in BOOLEAN,
           answered \in BOOLEAN, started \in BOOLEAN :
        /\ gone(looked) => again
        /\ IF resumes(looked) THEN Resumes(op.e, answered, started)
           ELSE answered /\ ~started /\ syncing' = syncing
        /\ Spend(Cost(looked) + Cost(again) + Cost(written) + Cost(answered))
        /\ reg' = IF gone(looked) THEN Retired(reg, op.e, written)
                  ELSE Retained(reg, op.e,
                                Pending(owed(looked, answered), again), written)
        /\ reply' = IF gone(looked) /\ written
                    THEN Answer(op.e, op.l, "Unmounted") ELSE NoReply
  BY Zenon DEF ClientFinish
<1>4. Pending(owed(looked, answered), again) \in Mount
  BY <1>2, AfterResumeType, PendingType
<1>5. reg' \in Registry
  BY <1>1, <1>2, <1>3, <1>4, RetiredType, RetainedType DEF MaybeMount
<1>6. reply' \in Reply \cup {NoReply}
  BY <1>2, <1>3, AnswerType
<1>7. faults' \in 0 .. MaxFaults
  BY <1>3, SpendType, CostType DEF TypeInv
<1>8. syncing' \subseteq Entries
  BY <1>2, <1>3 DEF Resumes, TypeInv, TypeOK
<1>9. op' = NoOp /\ UNCHANGED <<up, driver, ended, bound, grants, waiting>>
  BY DEF ClientFinish
<1>10. TypeInv'
  BY <1>1, <1>5, <1>6, <1>7, <1>8, <1>9
  DEF TypeInv, TypeOK, BootInv, Reply, driver, waiting
<1>11. Conserves
  <2>1. op.e \in Held /\ Keeps(reg)
    BY <1>1, OpHeld, KeepsReg DEF ClientFinish, At
  <2>2. Keeps(reg')
    BY <1>1, <1>2, <1>3, <1>4, <2>1, KeepsRetained, KeepsRetired
  <2> QED
    BY <1>9, <2>2, HeldStep
<1> QED
  BY <1>10, <1>11

\* So does the end of the member path.
LEMMA MemberFinishStep ==
    ASSUME TypeInv, MemberFinish
    PROVE  TypeInv' /\ Conserves
<1>1. op \in OpMount /\ up # "boot" /\ reg \in Registry
  BY OpMountType DEF MemberFinish, TypeInv, TypeOK
<1>2. op.e \in Entries /\ op.l \in Logons /\ op.m \in Mount
  BY <1>1 DEF OpMount
<1> DEFINE empty(looked) == looked /\ slots[op.m.slot] = 0
           privateClean(looked, cleaned) ==
               op.e \in PerUser /\ empty(looked) /\ cleaned
           machineClean(cleaned) == /\ op.e \notin PerUser /\ ~op.live
                                    /\ LetterGone(op.m, alias) /\ cleaned
           gone(looked, cleaned) ==
               IF op.e \in PerUser THEN privateClean(looked, cleaned)
               ELSE (op.ok /\ empty(looked)) \/ machineClean(cleaned)
<1>3. PICK looked \in BOOLEAN, again \in BOOLEAN, written \in BOOLEAN,
           cleaned \in BOOLEAN :
        /\ gone(looked, cleaned) => again
        /\ (IF op.e \in PerUser THEN ~empty(looked) ELSE op.live) => cleaned
        /\ Spend(Cost(looked) + Cost(again) + Cost(written) + Cost(cleaned))
        /\ alias' = IF privateClean(looked, cleaned) THEN alias \ {op.m.vol}
                    ELSE alias
        /\ reg' = IF gone(looked, cleaned) THEN Retired(reg, op.e, written)
                  ELSE Retained(reg, op.e, Pending(op.m, again), written)
        /\ reply' = IF gone(looked, cleaned) /\ written
                    THEN Answer(op.e, op.l, "Unmounted") ELSE NoReply
  BY Zenon DEF MemberFinish
<1>4. Pending(op.m, again) \in Mount
  BY <1>2, PendingType
<1>5. reg' \in Registry
  BY <1>1, <1>2, <1>3, <1>4, RetiredType, RetainedType DEF MaybeMount
<1>6. reply' \in Reply \cup {NoReply}
  BY <1>2, <1>3, AnswerType
<1>7. faults' \in 0 .. MaxFaults
  BY <1>3, SpendType, CostType DEF TypeInv
<1>8. alias' \subseteq Gens
  BY <1>3 DEF TypeInv, TypeOK
<1>9. op' = NoOp /\ UNCHANGED <<up, slots, volumes, ended, sync, grants, waiting>>
  BY DEF MemberFinish
<1>10. TypeInv'
  BY <1>1, <1>5, <1>6, <1>7, <1>8, <1>9
  DEF TypeInv, TypeOK, BootInv, Reply, sync, waiting
<1>11. Conserves
  <2>1. op.e \in Held /\ Keeps(reg)
    BY <1>1, OpHeld, KeepsReg DEF MemberFinish, At
  <2>2. Keeps(reg')
    BY <1>1, <1>2, <1>3, <1>4, <2>1, KeepsRetained, KeepsRetired
  <2> QED
    BY <1>9, <2>2, HeldStep
<1> QED
  BY <1>10, <1>11

\* A session change captures mounts and nothing else.
LEMMA SessionChangeStep ==
    ASSUME TypeInv, NEW l \in Logons, SessionChange(l)
    PROVE  TypeInv' /\ Conserves
<1>1. targets' \in Targets
  <2>1. PICK require \in BOOLEAN :
          targets' = [require |-> require,
                      mounts |-> [e \in Entries |->
                          IF /\ reg.active[e] # NoMount
                             /\ reg.active[e].logon = l
                             /\ require => l \in ended
                          THEN reg.active[e] ELSE NoMount]]
    BY DEF SessionChange
  <2>2. reg.active \in Table
    BY DEF TypeInv, TypeOK, Registry
  <2> QED
    BY <2>1, <2>2 DEF Targets, Table
<1>2. up # "boot" /\ reply' = NoReply
      /\ UNCHANGED <<up, reg, driver, ended, sync, grants, requests, enroll,
                     op, faults>>
  BY DEF SessionChange
<1>3. TypeInv'
  BY <1>1, <1>2 DEF TypeInv, TypeOK, BootInv, driver, sync
<1>4. Conserves
  BY <1>2, SameHeld
<1> QED
  BY <1>3, <1>4

\* Closing a captured mount.
LEMMA SessionCleanupStep ==
    ASSUME TypeInv, NEW e \in Entries, SessionCleanup(e)
    PROVE  TypeInv' /\ Conserves
<1> DEFINE m == reg.active[e]
<1>1. /\ TypeOK /\ reg \in Registry /\ up # "boot" /\ op = NoOp
      /\ m # NoMount /\ reply' = NoReply
      /\ UNCHANGED <<up, driver, ended, bound, grants, waiting>>
  BY DEF TypeInv, TypeOK, SessionCleanup, Idle
<1>2. m \in Mount /\ m.logon \in Logons
  BY <1>1, RecordType DEF Mount
<1>3. \/ Spend(0) /\ UNCHANGED <<reg, op, syncing>>
      \/ StartMember(reg, e, m.logon, TRUE, 0) /\ UNCHANGED syncing
      \/ StartClient(reg, e, m.logon, 0)
  BY DEF SessionCleanup
<1>4. /\ reg' \in Registry
      /\ op' \in OpMount \cup {NoOp}
      /\ syncing' \subseteq Entries
      /\ faults' \in 0 .. MaxFaults
      /\ Conserves
  <2>1. CASE Spend(0) /\ UNCHANGED <<reg, op, syncing>>
    <3>1. Conserves
      BY <1>1, <2>1, KeepsReg, HeldStep
    <3> QED
      BY <1>1, <2>1, <3>1, SpendType DEF TypeOK
  <2>2. CASE StartMember(reg, e, m.logon, TRUE, 0) /\ UNCHANGED syncing
    BY <1>1, <1>2, <2>2, StartMemberStep, KeepsReg DEF TypeOK
  <2>3. CASE StartClient(reg, e, m.logon, 0)
    BY <1>1, <1>2, <2>3, StartClientStep, KeepsReg
  <2> QED
    BY <1>3, <2>1, <2>2, <2>3
<1>5. TypeInv'
  BY <1>1, <1>4 DEF TypeInv, TypeOK, BootInv, driver, waiting
<1> QED
  BY <1>4, <1>5

\* Nothing captured is a capture, and an empty map a map.
LEMMA NoTargetsType == NoTargets \in Targets /\ NoTable \in Table
BY DEF NoTargets, Targets, NoTable, Table

\* The end of a session cleanup.
LEMMA SessionCleanupEndsStep ==
    ASSUME TypeInv, SessionCleanupEnds
    PROVE  TypeInv' /\ Conserves
<1>1. TypeInv'
  BY NoTargetsType
  DEF TypeInv, TypeOK, BootInv, SessionCleanupEnds, Recorded, driver, sync
<1>2. Conserves
  BY SameHeld DEF SessionCleanupEnds
<1> QED
  BY <1>1, <1>2

\* An enrolment remembers the mount it prepares for.
LEMMA EnrollPrepareStep ==
    ASSUME TypeInv, NEW e \in Entries, NEW l \in Logons, EnrollPrepare(e, l)
    PROVE  TypeInv' /\ Conserves
<1>1. reg.active[e] \in Mount
  BY RecordType DEF EnrollPrepare, EnrollEligible, TypeInv, TypeOK
<1>2. enroll' \in [e : Entries, l : Logons, m : Mount]
  BY <1>1 DEF EnrollPrepare
<1>3. up # "boot" /\ reply' = NoReply
      /\ UNCHANGED <<up, reg, driver, ended, sync, grants, requests, targets,
                     op, faults>>
  BY DEF EnrollPrepare, Idle
<1>4. TypeInv'
  BY <1>2, <1>3 DEF TypeInv, TypeOK, BootInv, driver, sync
<1>5. Conserves
  BY <1>3, SameHeld
<1> QED
  BY <1>4, <1>5

\* The second check of an enrolment and its saved intent.
LEMMA EnrollMarkStep ==
    ASSUME TypeInv, EnrollMark
    PROVE  TypeInv' /\ Conserves
<1> DEFINE e == enroll.e
           m == [reg.active[e] EXCEPT !.unresolved = TRUE]
           same == /\ EnrollEligible(e, enroll.l)
                   /\ reg.active[e].id = enroll.m.id
                   /\ reg.active[e].vol = enroll.m.vol
<1>1. /\ TypeOK /\ reg \in Registry /\ up # "boot" /\ op = NoOp
      /\ enroll' = NoOp /\ reply' = NoReply
      /\ UNCHANGED <<up, driver, ended, sync, grants, requests, targets>>
      /\ enroll \in [e : Entries, l : Logons, m : Mount]
  BY DEF TypeInv, TypeOK, EnrollMark, Idle
<1>2. e \in Entries /\ enroll.l \in Logons
  BY <1>1
<1>3. \/ UNCHANGED <<reg, op>> /\ Spend(0)
      \/ \E written \in BOOLEAN :
            /\ same
            /\ Spend(Cost(written))
            /\ reg' = IF written THEN Persisted(Put(reg, e, m))
                                 ELSE Put(reg, e, m)
            /\ op' = IF written THEN Closing("enroll", e, enroll.l, m, FALSE)
                                ELSE NoOp
  BY Zenon DEF EnrollMark
<1>4. /\ reg' \in Registry
      /\ op' \in OpMount \cup {NoOp}
      /\ faults' \in 0 .. MaxFaults
      /\ Conserves
  <2>1. CASE UNCHANGED <<reg, op>> /\ Spend(0)
    <3>1. Conserves
      BY <1>1, <2>1, KeepsReg, HeldStep
    <3> QED
      BY <1>1, <2>1, <3>1, SpendType
  <2>2. ASSUME NEW written \in BOOLEAN, same, Spend(Cost(written)),
               reg' = IF written THEN Persisted(Put(reg, e, m))
                                 ELSE Put(reg, e, m),
               op' = IF written THEN Closing("enroll", e, enroll.l, m, FALSE)
                                ELSE NoOp
        PROVE  <1>4!:
    <3>1. reg.active[e] \in Mount
      BY <1>1, <1>2, <2>2, RecordType DEF EnrollEligible
    <3>2. m \in Mount
      BY <3>1 DEF Mount
    <3>3. reg' \in Registry
      BY <1>1, <1>2, <2>2, <3>2, PutType, PersistedType DEF MaybeMount
    <3>4. op' \in OpMount \cup {NoOp}
      BY <1>2, <2>2, <3>2, ClosingType
    <3>5. faults' \in 0 .. MaxFaults
      BY <1>1, <2>2, SpendType, CostType
    <3>6. e \in Held
      BY <1>2, <2>2 DEF EnrollEligible, Held, Recorded
    <3>7. Put(reg, e, m) \in Registry /\ Keeps(Put(reg, e, m))
      BY <1>1, <1>2, <3>2, <3>6, PutType, KeepsPut, KeepsReg DEF MaybeMount
    <3>8. Keeps(reg')
      BY <2>2, <3>7, KeepsPersisted
    <3>9. op' = NoOp \/ op'.e \in Held
      BY <2>2, <3>6 DEF Closing
    <3>10. Conserves
      BY <3>8, <3>9, HeldStep
    <3> QED
      BY <3>3, <3>4, <3>5, <3>10
  <2> QED
    BY <1>3, <2>1, <2>2
<1>5. TypeInv'
  BY <1>1, <1>4 DEF TypeInv, TypeOK, BootInv, driver, sync
<1> QED
  BY <1>4, <1>5

\* The adapter's answer to an enrolment.
LEMMA EnrollCallStep ==
    ASSUME TypeInv, EnrollCall
    PROVE  TypeInv' /\ Conserves
<1>1. op \in OpMount /\ up # "boot" /\ reg \in Registry
  BY OpMountType DEF EnrollCall, TypeInv, TypeOK
<1>2. op.e \in Entries /\ op.m \in Mount
  BY <1>1 DEF OpMount
<1> DEFINE m == [op.m EXCEPT !.managed = TRUE, !.unresolved = FALSE]
<1>3. PICK binds \in BOOLEAN, starts \in BOOLEAN, answered \in BOOLEAN,
           written \in BOOLEAN :
        /\ answered => binds /\ starts
        /\ starts => binds \/ op.e \in bound
        /\ ~answered => written
        /\ Spend(Cost(answered) + Cost(written))
        /\ bound' = IF binds THEN bound \cup {op.e} ELSE bound
        /\ syncing' = IF starts THEN syncing \cup {op.e} ELSE syncing
        /\ reg' = IF ~answered THEN reg
                  ELSE IF written THEN Persisted(Put(reg, op.e, m))
                  ELSE Put(reg, op.e, m)
  BY Zenon DEF EnrollCall
<1>4. m \in Mount
  BY <1>2 DEF Mount
<1>5. reg' \in Registry
  BY <1>1, <1>2, <1>3, <1>4, PutType, PersistedType DEF MaybeMount
<1>6. bound' \subseteq Entries /\ syncing' \subseteq Entries
  BY <1>2, <1>3 DEF TypeInv, TypeOK
<1>7. faults' \in 0 .. MaxFaults
  BY <1>3, SpendType, CostType DEF TypeInv
<1>8. op' = NoOp /\ reply' = NoReply
      /\ UNCHANGED <<up, driver, ended, grants, waiting>>
  BY DEF EnrollCall
<1>9. TypeInv'
  BY <1>1, <1>5, <1>6, <1>7, <1>8
  DEF TypeInv, TypeOK, BootInv, driver, waiting
<1>10. Conserves
  <2>1. op.e \in Held /\ Keeps(reg)
    BY <1>1, OpHeld, KeepsReg DEF EnrollCall, At
  <2>2. Put(reg, op.e, m) \in Registry /\ Keeps(Put(reg, op.e, m))
    BY <1>1, <1>2, <1>4, <2>1, PutType, KeepsPut DEF MaybeMount
  <2>3. Keeps(reg')
    BY <1>3, <2>1, <2>2, KeepsPersisted
  <2> QED
    BY <1>8, <2>3, HeldStep
<1> QED
  BY <1>9, <1>10

\* Both ways of changing the policy.
LEMMA PolicyStep ==
    ASSUME TypeInv, NEW e \in Policy, NEW accounts \in SUBSET Users,
           ChangePolicy(e, accounts) \/ SaveAccessDirectory(e, accounts)
    PROVE  TypeInv' /\ Conserves
<1>1. /\ grants' = [grants EXCEPT ![e] = accounts]
      /\ up # "boot" /\ reply' = NoReply
      /\ UNCHANGED <<up, reg, driver, ended, sync, waiting, op, faults>>
  BY DEF ChangePolicy, SaveAccessDirectory, Idle
<1>2. grants' \in [Policy -> SUBSET Users]
  BY <1>1 DEF TypeInv, TypeOK
<1>3. TypeInv'
  BY <1>1, <1>2 DEF TypeInv, TypeOK, BootInv, driver, sync, waiting
<1>4. Conserves
  BY <1>1, SameHeld
<1> QED
  BY <1>3, <1>4

\* The beginning of a stop.
LEMMA StopStep ==
    ASSUME TypeInv, Stop
    PROVE  TypeInv' /\ Conserves
<1>1. TypeInv'
  BY DEF TypeInv, TypeOK, BootInv, Stop, driver, sync
<1>2. Conserves
  <2>1. op' = NoOp /\ reg' = reg
    BY DEF Stop, Idle
  <2> QED
    BY <2>1, KeepsReg, HeldStep
<1> QED
  BY <1>1, <1>2

\* dismount_all_locked takes the next entry.
LEMMA StopNextStep ==
    ASSUME TypeInv, NEW e \in Entries, StopNext(e)
    PROVE  TypeInv' /\ Conserves
<1>1. /\ TypeOK /\ reg \in Registry /\ up # "boot"
      /\ reg.active[e] # NoMount /\ reply' = NoReply
      /\ StartClient(reg, e, reg.active[e].logon, 0)
      /\ UNCHANGED <<up, driver, ended, bound, grants, waiting>>
  BY DEF TypeInv, TypeOK, StopNext
<1>2. reg.active[e].logon \in Logons
  BY <1>1, RecordType DEF Mount
<1>3. /\ reg' \in Registry
      /\ op' \in OpMount \cup {NoOp}
      /\ syncing' \subseteq Entries
      /\ faults' \in 0 .. MaxFaults
      /\ Conserves
  BY <1>1, <1>2, StartClientStep, KeepsReg
<1>4. TypeInv'
  BY <1>1, <1>3 DEF TypeInv, TypeOK, BootInv, driver, waiting
<1> QED
  BY <1>3, <1>4

\* Only the registry file survives the process.
LEMMA ExitsType ==
    ASSUME TypeOK, Exits
    PROVE  /\ up' = "down" /\ reg' \in Registry /\ requests' = {}
           /\ targets' \in Targets /\ enroll' = NoOp /\ op' = NoOp
           /\ reply' = NoReply
<1>1. reg' \in Registry
  BY NoTargetsType DEF TypeOK, Exits, Forgotten, EmptyRegistry, Registry
<1> QED
  BY <1>1, NoTargetsType DEF Exits

\* Nothing is held by a process that is gone.
LEMMA ExitsHeld ==
    ASSUME TypeOK, Exits
    PROVE  Conserves
<1>1. reg'.active = NoTable /\ reg'.durable = reg.durable /\ op' = NoOp
  BY DEF Exits, Forgotten, EmptyRegistry
<1>2. Recorded(NoTable) = {}
  BY DEF Recorded, NoTable
<1>3. Keeps(reg')
  BY <1>1, <1>2 DEF Keeps
<1> QED
  BY <1>1, <1>3, HeldStep

\* The end of a stop.
LEMMA StopExitStep ==
    ASSUME TypeInv, StopExit
    PROVE  TypeInv' /\ Conserves
<1>1. faults' \in 0 .. MaxFaults
  BY SpendType, CostType DEF StopExit, TypeInv
<1>2. Exits /\ UNCHANGED <<driver, ended, sync, grants>>
  BY DEF StopExit
<1>3. TypeInv'
  BY <1>1, <1>2, ExitsType DEF TypeInv, TypeOK, BootInv, driver, sync
<1>4. Conserves
  BY <1>2, ExitsHeld DEF TypeInv
<1> QED
  BY <1>3, <1>4

\* The death of the process.
LEMMA CrashStep ==
    ASSUME TypeInv, Crash
    PROVE  TypeInv' /\ Conserves
<1>1. faults' \in 0 .. MaxFaults
  BY SpendType DEF Crash, TypeInv
<1>2. Exits /\ UNCHANGED <<driver, ended, sync, grants>>
  BY DEF Crash
<1>3. TypeInv'
  BY <1>1, <1>2, ExitsType DEF TypeInv, TypeOK, BootInv, driver, sync
<1>4. Conserves
  BY <1>2, ExitsHeld DEF TypeInv
<1> QED
  BY <1>3, <1>4

\* The restart of the machine.
LEMMA RebootStep ==
    ASSUME TypeInv, Reboot
    PROVE  TypeInv' /\ Conserves
<1>1. faults' \in 0 .. MaxFaults
  BY SpendType DEF Reboot, TypeInv
<1>2. Exits /\ UNCHANGED <<volumes, sync, grants>>
  BY DEF Reboot
<1>3. slots' \in [Slots -> 0 .. MaxGen] /\ alias' \subseteq Gens
  BY BoundsAssumption DEF Reboot
<1>4. ended' \subseteq Logons
  <2>1. \A e \in Recorded(reg.durable) : reg.durable[e].logon \in Logons
    BY DEF TypeInv, TypeOK, Registry, Table, Mount, Recorded
  <2> QED
    BY <2>1 DEF Reboot, TypeInv, TypeOK
<1>5. TypeInv'
  BY <1>1, <1>2, <1>3, <1>4, ExitsType DEF TypeInv, TypeOK, BootInv, sync
<1>6. Conserves
  BY <1>2, ExitsHeld DEF TypeInv
<1> QED
  BY <1>5, <1>6

\* load_and_cleanup takes up what the registry file names.
LEMMA BootLoadStep ==
    ASSUME TypeInv, BootLoad
    PROVE  TypeInv' /\ (Conserves \/ Loads)
<1> DEFINE d == reg.durable
           odd(looked) == ~looked \/ \E e \in Recorded(d) : Unknown(d[e])
<1>1. reg \in Registry /\ d \in Table
  BY DEF TypeInv, TypeOK, Registry
<1>2. PICK read \in BOOLEAN, looked \in BOOLEAN :
        /\ Spend(Cost(read) + Cost(looked))
        /\ (~read \/ d = NoTable) => looked
        /\ IF ~read
           THEN reg' = Untrusted(reg) /\ up' = "up" /\ op' = NoOp
           ELSE IF odd(looked)
           THEN /\ reg' = [reg EXCEPT !.active = d, !.untrusted = TRUE,
                                      !.recoverable = TRUE]
                /\ up' = "up" /\ op' = NoOp
           ELSE /\ reg' = [reg EXCEPT !.active = d]
                /\ up' = "boot"
                /\ op' = [pc |-> "boot", todo |-> Recorded(d), keep |-> NoTable]
  BY Zenon DEF BootLoad
<1>3. faults' \in 0 .. MaxFaults
  BY <1>2, SpendType, CostType DEF TypeInv
<1>4. [reg EXCEPT !.active = d] \in Registry
      /\ [reg EXCEPT !.active = d].active = d
      /\ [reg EXCEPT !.active = d, !.untrusted = TRUE,
                     !.recoverable = TRUE] \in Registry
  BY <1>1 DEF Registry
<1>5. reg' \in Registry
  BY <1>1, <1>2, <1>4, UntrustedType
<1>6. [pc |-> "boot", todo |-> Recorded(d), keep |-> NoTable] \in OpBoot
  BY NoTargetsType DEF OpBoot, Recorded
<1>7. /\ op' \in OpBoot \cup {NoOp}
      /\ up' \in {"boot", "up"}
      /\ up' = "boot" => /\ op' \in OpBoot
                         /\ op'.todo = Recorded(reg'.active)
                         /\ op'.keep = NoTable
  <2>1. CASE ~read
    BY <1>2, <2>1
  <2>2. CASE read /\ odd(looked)
    <3> HIDE DEF odd
    <3> QED
      BY <1>2, <2>2
  <2>3. CASE read /\ ~odd(looked)
    <3> HIDE DEF odd
    <3>1. /\ reg' = [reg EXCEPT !.active = d] /\ up' = "boot"
          /\ op' = [pc |-> "boot", todo |-> Recorded(d), keep |-> NoTable]
      BY <1>2, <2>3
    <3>2. reg'.active = d
      BY <1>4, <3>1
    <3>3. op'.todo = Recorded(d)
      BY <3>1
    <3>5. op'.keep = NoTable
      BY <3>1
    <3>4. op'.todo = Recorded(reg'.active)
      BY <3>2, <3>3, Zenon
    <3> QED
      BY <1>6, <3>1, <3>4, <3>5
  <2> QED
    BY <2>1, <2>2, <2>3
<1>8. reply' = NoReply /\ UNCHANGED <<driver, ended, sync, grants, waiting>>
  BY DEF BootLoad
<1>9. BootInv'
  <2>1. Recorded(NoTable) = {}
    BY DEF Recorded, NoTable
  <2> QED
    BY <1>7, <2>1 DEF BootInv, Recorded
<1>10. TypeInv'
  BY <1>3, <1>5, <1>7, <1>8, <1>9 DEF TypeInv, TypeOK, driver, sync, waiting
<1>11. Conserves \/ Loads
  <2>1. CASE ~read
    BY <1>1, <1>2, <2>1, KeepsReg, KeepsUntrusted, HeldStep
  <2>2. CASE read
    <3>1. reg'.active = d /\ reg'.durable = d
      BY <1>1, <1>2, <2>2 DEF Registry
    <3>2. up' = "boot" \/ op' = NoOp
      BY <1>2, <2>2
    <3>3. Held' \subseteq Recorded(d)
      BY <3>1, <3>2 DEF Held, Recorded
    <3> QED
      BY <3>1, <3>3 DEF Loads
  <2> QED
    BY <2>1, <2>2
<1> QED
  BY <1>10, <1>11

\* Boot cleanup closes one entry and keeps or drops its record.
LEMMA BootEntryStep ==
    ASSUME TypeInv, NEW e \in Entries, BootEntry(e)
    PROVE  TypeInv' /\ Conserves
<1> DEFINE m == reg.active[e]
           over(known) == known /\ m.logon \in ended
           private(known) == e \in PerUser /\ over(known)
           empty(looked) == looked /\ slots'[m.slot] = 0
           privateClean(known, looked, cleaned) ==
               private(known) /\ empty(looked) /\ cleaned
           machineClean(cleaned) == /\ e \notin PerUser /\ slots[m.slot] = 0
                                    /\ LetterGone(m, alias') /\ cleaned
           closed(ok, known, looked, cleaned) ==
               IF private(known) THEN privateClean(known, looked, cleaned)
               ELSE (ok /\ empty(looked)) \/ machineClean(cleaned)
           kept(ok, known, looked, cleaned) ==
               [m EXCEPT !.cleanup = TRUE,
                         !.absent = closed(ok, known, looked, cleaned)
                                    \/ empty(looked)]
<1>1. /\ TypeOK /\ up = "boot" /\ op \in OpBoot
      /\ op.todo \subseteq Recorded(reg.active) /\ e \in op.todo
      /\ Recorded(op.keep) \subseteq Recorded(reg.active)
      /\ reg \in Registry
  BY DEF TypeInv, TypeOK, BootInv, BootEntry
<1>2. m \in Mount
  BY <1>1, RecordType DEF Recorded
<1>3. PICK ok \in BOOLEAN, shut \in BOOLEAN, clean \in BOOLEAN,
           looked \in BOOLEAN, cleaned \in BOOLEAN, known \in BOOLEAN :
        /\ ~Unknown(m)
        /\ Closes(m, ok, shut, clean)
        /\ IF private(known) THEN clean = privateClean(known, looked, cleaned)
           ELSE ok => clean
        /\ Spend(CloseCost(m, ok, shut) + Cost(looked) + Cost(cleaned)
                 + Cost(known))
        /\ op' = [op EXCEPT !.todo = @ \ {e},
                            !.keep[e] = IF closed(ok, known, looked, cleaned)
                                           /\ ~RequiresPause(e, m)
                                        THEN NoMount
                                        ELSE kept(ok, known, looked, cleaned)]
  BY Zenon DEF BootEntry
<1>4. slots' \in [Slots -> 0 .. MaxGen] /\ alias' \subseteq Gens
  BY <1>1, <1>2, <1>3, ClosesType
<1>5. faults' \in 0 .. MaxFaults
  BY <1>1, <1>3, SpendType, CostType, CloseCostType
<1> DEFINE k == kept(ok, known, looked, cleaned)
<1>6. k \in Mount
  <2>1. (closed(ok, known, looked, cleaned) \/ empty(looked)) \in BOOLEAN
    OBVIOUS
  <2> HIDE DEF closed, empty
  <2> QED
    BY <1>2, <2>1 DEF Mount
<1>7. \E x \in MaybeMount :
        op' = [op EXCEPT !.todo = @ \ {e}, !.keep[e] = x]
  <2> DEFINE x == IF closed(ok, known, looked, cleaned) /\ ~RequiresPause(e, m)
                  THEN NoMount ELSE k
  <2>1. x \in MaybeMount
    BY <1>6 DEF MaybeMount
  <2>2. op' = [op EXCEPT !.todo = @ \ {e}, !.keep[e] = x]
    BY <1>3, Zenon
  <2> QED
    BY <2>1, <2>2
<1>8. /\ op' \in OpBoot /\ op'.todo \subseteq op.todo
      /\ Recorded(op'.keep) \subseteq Recorded(reg.active)
  <2>1. PICK x \in MaybeMount :
          op' = [op EXCEPT !.todo = @ \ {e}, !.keep[e] = x]
    BY <1>7
  <2>2. op.todo \subseteq Entries /\ op.keep \in Table
    BY <1>1 DEF OpBoot
  <2>3. [op.keep EXCEPT ![e] = x] \in Table
    BY <2>2 DEF Table, MaybeMount
  <2>4. op' = [pc |-> "boot", todo |-> op.todo \ {e},
               keep |-> [op.keep EXCEPT ![e] = x]]
    BY <1>1, <2>1 DEF OpBoot
  <2>5. Recorded([op.keep EXCEPT ![e] = x]) \subseteq Recorded(reg.active)
    BY <1>1, <2>2 DEF Recorded, Table
  <2> QED
    BY <2>2, <2>3, <2>4, <2>5 DEF OpBoot
<1>9. reply' = NoReply
      /\ UNCHANGED <<up, reg, volumes, ended, sync, grants, waiting>>
  BY DEF BootEntry
<1>10. TypeInv'
  BY <1>1, <1>4, <1>5, <1>8, <1>9
  DEF TypeInv, TypeOK, BootInv, Recorded, sync, waiting
<1>11. Conserves
  <2>1. Held' \subseteq Recorded(reg.active)
    BY <1>1, <1>9 DEF Held, Recorded
  <2>2. Keeps(reg')
    BY <1>9, KeepsReg
  <2> QED
    BY <2>1, <2>2 DEF Conserves, Held
<1> QED
  BY <1>10, <1>11

\* Boot cleanup that gives up.
LEMMA BootAbortedStep ==
    ASSUME TypeInv, NEW e \in Entries, BootAborted(e)
    PROVE  TypeInv' /\ Conserves
<1>1. reg' \in Registry
  BY UntrustedType DEF BootAborted, TypeInv, TypeOK
<1>2. faults' \in 0 .. MaxFaults
  BY SpendType, CostType DEF BootAborted, TypeInv
<1>3. TypeInv'
  BY <1>1, <1>2
  DEF TypeInv, TypeOK, BootInv, BootAborted, driver, sync, waiting
<1>4. Conserves
  <2>1. Keeps(reg') /\ op' = NoOp
    BY KeepsReg, KeepsUntrusted DEF BootAborted, TypeInv, TypeOK
  <2> QED
    BY <2>1, HeldStep
<1> QED
  BY <1>3, <1>4

\* The closing write of boot cleanup.
LEMMA BootFinishStep ==
    ASSUME TypeInv, BootFinish
    PROVE  TypeInv' /\ Conserves
<1>1. op \in OpBoot /\ reg \in Registry
  BY DEF TypeInv, TypeOK, BootInv, BootFinish
<1>2. [reg EXCEPT !.active = op.keep, !.durable = op.keep] \in Registry
  BY <1>1 DEF OpBoot, Registry
<1>3. reg' \in Registry
  BY <1>1, <1>2, UntrustedType DEF BootFinish
<1>4. faults' \in 0 .. MaxFaults
  BY SpendType, CostType DEF BootFinish, TypeInv
<1>5. TypeInv'
  BY <1>3, <1>4
  DEF TypeInv, TypeOK, BootInv, BootFinish, driver, sync, waiting
<1>6. Conserves
  <2> DEFINE q == [reg EXCEPT !.active = op.keep, !.durable = op.keep]
  <2>1. q.active = op.keep /\ q.durable = op.keep
    BY <1>1 DEF Registry
  <2>2. Recorded(op.keep) \subseteq Held
    BY DEF TypeInv, BootInv, BootFinish, Held
  <2>3. Keeps(q)
    BY <2>1, <2>2 DEF Keeps
  <2>4. Keeps(reg') /\ op' = NoOp
    BY <1>1, <2>3, KeepsReg, KeepsUntrusted DEF BootFinish
  <2> QED
    BY <2>4, HeldStep
<1> QED
  BY <1>5, <1>6

\* The end of a logon.
LEMMA LogonEndsStep ==
    ASSUME TypeInv, NEW l \in Logons, LogonEnds(l)
    PROVE  TypeInv' /\ Conserves
<1>1. TypeInv'
  BY DEF TypeInv, TypeOK, BootInv, LogonEnds, Recorded, driver, sync, waiting
<1>2. Conserves
  BY SameHeld DEF LogonEnds
<1> QED
  BY <1>1, <1>2

\* A volume closed by the user.
LEMMA ClosedOutsideStep ==
    ASSUME TypeInv, NEW s \in Slots, ClosedOutside(s)
    PROVE  TypeInv' /\ Conserves
<1>1. slots' \in [Slots -> 0 .. MaxGen]
  BY BoundsAssumption DEF TypeInv, TypeOK, ClosedOutside
<1>2. faults' \in 0 .. MaxFaults
  BY SpendType DEF ClosedOutside, TypeInv
<1>3. TypeInv'
  BY <1>1, <1>2
  DEF TypeInv, TypeOK, BootInv, ClosedOutside, Recorded, sync, waiting
<1>4. Conserves
  BY SameHeld DEF ClosedOutside
<1> QED
  BY <1>3, <1>4

\* A volume opened by another program.
LEMMA OpenedOutsideStep ==
    ASSUME TypeInv, NEW s \in Slots, OpenedOutside(s)
    PROVE  TypeInv' /\ Conserves
<1>1. PICK g \in Gens : /\ slots' = [slots EXCEPT ![s] = g]
                        /\ volumes' = [volumes EXCEPT ![g] = Foreign]
  BY DEF OpenedOutside
<1>2. g \in 0 .. MaxGen
  BY BoundsAssumption DEF Gens
<1>3. slots' \in [Slots -> 0 .. MaxGen]
  BY <1>1, <1>2 DEF TypeInv, TypeOK
<1>4. volumes' \in [Gens -> Entries \cup {Foreign, NoMount}]
  BY <1>1 DEF TypeInv, TypeOK
<1>5. faults' \in 0 .. MaxFaults
  BY SpendType DEF OpenedOutside, TypeInv
<1>6. TypeInv'
  BY <1>3, <1>4, <1>5
  DEF TypeInv, TypeOK, BootInv, OpenedOutside, Recorded, sync, waiting
<1>7. Conserves
  BY SameHeld DEF OpenedOutside
<1> QED
  BY <1>6, <1>7

\* Every step keeps the types and takes up an entry in three ways at most: not
\* at all, from the file, or one that was admitted.
LEMMA NextStep ==
    TypeInv /\ [Next]_vars => TypeInv' /\ (Conserves \/ Loads \/ Grows)
<1> SUFFICES ASSUME TypeInv, [Next]_vars
             PROVE  TypeInv' /\ (Conserves \/ Loads \/ Grows)
  OBVIOUS
<1>1. CASE Step
  BY <1>1, MountRejectedStep, MountRecordStep, MountDiscardStep, MountUndoStep,
     MountResumeStep, ShutStep, ClientFinishStep, MemberFinishStep,
     EnrollMarkStep, EnrollCallStep DEF Step
<1>2. CASE Boot
  BY <1>2, BootLoadStep, BootEntryStep, BootAbortedStep, BootFinishStep DEF Boot
<1>3. CASE Request
  BY <1>3, AuthorizeStep, MountRefusedStep, MountDeclinedStep, MountOpenStep,
     DismountStep, EnrollPrepareStep, AlreadyUnmountedStep, PolicyStep
  DEF Request
<1>4. CASE Service
  BY <1>4, SessionChangeStep, SessionCleanupStep, StopNextStep,
     SessionCleanupEndsStep, StopStep, StopExitStep, CrashStep, RebootStep
  DEF Service
<1>5. CASE Outside
  BY <1>5, LogonEndsStep, ClosedOutsideStep, OpenedOutsideStep DEF Outside
<1>6. CASE UNCHANGED vars
  <2>1. TypeInv'
    BY <1>6 DEF vars, driver, sync, waiting, TypeInv, TypeOK, BootInv, Recorded
  <2> QED
    BY <1>6, <2>1, SameHeld DEF vars
<1> QED
  BY <1>1, <1>2, <1>3, <1>4, <1>5, <1>6 DEF Next

\* The broker keeps its types whatever fails, stops or interferes: above all,
\* every record marked absent stays marked for cleanup (valid_durable_mount),
\* so that no registry it writes is refused at the next boot.
THEOREM TypeCorrect == Spec => []TypeOK
<1>1. TypeInv => TypeOK
  BY DEF TypeInv
<1> QED
  BY <1>1, InitType, NextStep, PTL DEF Spec

-----------------------------------------------------------------------------
(* WithinCapacity is not inductive: a record leaves the map while its        *)
(* dismount runs and may come back, and the file outlives a crash.  What is  *)
(* held counts the first, and the file is bounded beside it.                 *)

CapacityInv ==
    /\ Cardinality(Held) <= MaxMounts
    /\ Cardinality(Recorded(reg.durable)) <= MaxMounts

\* A part of a set of entries within the limit is within it.
LEMMA SmallerSet ==
    ASSUME NEW S, NEW T, S \subseteq T, T \subseteq Entries,
           Cardinality(T) <= MaxMounts
    PROVE  Cardinality(S) <= MaxMounts
<1>1. IsFiniteSet(T)
  BY EntriesAssumption, FS_Subset
<1>2. IsFiniteSet(S) /\ Cardinality(S) <= Cardinality(T)
  BY <1>1, FS_Subset
<1>3. Cardinality(S) \in Nat /\ Cardinality(T) \in Nat
  BY <1>1, <1>2, FS_CardinalityType
<1> QED
  BY <1>2, <1>3, BoundsAssumption

\* Held entries are entries.
LEMMA HeldEntries == Held \subseteq Entries
BY DEF Held, Recorded

\* A new broker holds nothing.
LEMMA InitCapacity == Init => CapacityInv
<1> SUFFICES ASSUME Init PROVE CapacityInv
  OBVIOUS
<1>1. Held = {} /\ Recorded(reg.durable) = {}
  BY DEF Init, EmptyRegistry, NoTable, Held, Recorded
<1>2. Cardinality({}) = 0
  BY FS_EmptySet
<1> QED
  BY <1>1, <1>2, BoundsAssumption DEF CapacityInv

\* Steps that conserve or load keep within the limit; a mount was admitted
\* below it.
LEMMA NextCapacity ==
    ASSUME TypeInv, CapacityInv, Conserves \/ Loads \/ Grows
    PROVE  CapacityInv'
<1>1. Recorded(reg.durable) \subseteq Entries /\ Held \subseteq Entries
  BY HeldEntries DEF Recorded
<1>2. ASSUME Keeps(reg')
      PROVE  Cardinality(Recorded(reg'.durable)) <= MaxMounts
  <2>1. CASE reg'.durable = reg.durable
    BY <2>1 DEF CapacityInv
  <2>2. CASE Recorded(reg'.durable) \subseteq Held
    BY <1>1, <2>2, SmallerSet DEF CapacityInv
  <2> QED
    BY <1>2, <2>1, <2>2 DEF Keeps
<1>3. CASE Conserves
  <2>1. Cardinality(Held') <= MaxMounts
    BY <1>1, <1>3, SmallerSet DEF Conserves, CapacityInv
  <2>2. Cardinality(Recorded(reg'.durable)) <= MaxMounts
    BY <1>2, <1>3 DEF Conserves
  <2> QED
    BY <2>1, <2>2 DEF CapacityInv, Recorded
<1>4. CASE Loads
  <2>1. Cardinality(Held') <= MaxMounts
    BY <1>1, <1>4, SmallerSet DEF Loads, CapacityInv
  <2>2. Cardinality(Recorded(reg'.durable)) <= MaxMounts
    BY <1>4 DEF Loads, CapacityInv
  <2> QED
    BY <2>1, <2>2 DEF CapacityInv, Recorded
<1>5. CASE Grows
  <2>1. PICK e \in Entries : Held' \subseteq Recorded(reg'.active) \cup {e}
    BY <1>5 DEF Grows
  <2> DEFINE S == Recorded(reg'.active)
  <2>2. S \subseteq Entries /\ S \cup {e} \subseteq Entries
    BY DEF Recorded
  <2>3. Cardinality(S) < MaxMounts
    BY <1>5 DEF Grows, HasCapacity
  <2>4. IsFiniteSet(S)
    BY <2>2, EntriesAssumption, FS_Subset
  <2>5. Cardinality(S) \in Nat
    BY <2>4, FS_CardinalityType
  <2> HIDE DEF S
  <2>6. Cardinality(S \cup {e}) = Cardinality(S)
        \/ Cardinality(S \cup {e}) = Cardinality(S) + 1
    BY <2>4, FS_AddElement
  <2>7. Cardinality(S \cup {e}) <= MaxMounts
    BY <2>3, <2>5, <2>6, BoundsAssumption
  <2>8. Cardinality(Held') <= MaxMounts
    BY <2>1, <2>2, <2>7, SmallerSet DEF S
  <2>9. Cardinality(Recorded(reg'.durable)) <= MaxMounts
    BY <1>2, <1>5 DEF Grows
  <2> QED
    BY <2>8, <2>9 DEF CapacityInv, Recorded
<1> QED
  BY <1>3, <1>4, <1>5

\* The map never outgrows MAX_DURABLE_MOUNTS, whatever dismounts fail and put
\* their records back, and whatever a crashed process left in the file: the
\* check in front of the broker call is enough, and persist_active never
\* refuses a map for its size.
THEOREM CapacityTheorem == Spec => []WithinCapacity
<1>1. TypeInv /\ CapacityInv => WithinCapacity
  <2> SUFFICES ASSUME CapacityInv PROVE WithinCapacity
    OBVIOUS
  <2>1. Recorded(reg.active) \subseteq Held
    BY DEF Held
  <2> QED
    BY <2>1, HeldEntries, SmallerSet DEF CapacityInv, WithinCapacity
<1>2. TypeInv /\ CapacityInv /\ [Next]_vars => (TypeInv /\ CapacityInv)'
  BY NextStep, NextCapacity
<1>3. Init => TypeInv /\ CapacityInv
  BY InitType, InitCapacity
<1> QED
  BY <1>1, <1>2, <1>3, PTL DEF Spec
=============================================================================
