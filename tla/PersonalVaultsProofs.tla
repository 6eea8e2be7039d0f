------------------------ MODULE PersonalVaultsProofs ------------------------
(***************************************************************************)
(* Proofs about PersonalVaults for any number of creations, users and files,  *)
(* any reservation time and any number of failures and restarts.             *)
(*                                                                           *)
(* The properties rest on three facts that hold between the steps: a creation *)
(* that holds a destination is the only one to decide about the file at the   *)
(* name, a reservation's nonce belongs to one creation, and the state lock    *)
(* keeps a reservation as it is from its protection to its promotion.         *)
(***************************************************************************)
EXTENDS PersonalVaults, TLAPS

\* What a creation knows of the files.  One that has looked for a file knows
\* that those made until then are gone.
HoldTask(u) ==
    /\ task[u].pc # "idle" => task[u].user \in Users
    /\ task[u].pc \in {"idle", "reserve", "prepare"} => task[u].held = None
    /\ At(u, "reserve") =>
        task[u].probe <= made /\ (file = 0 \/ file > task[u].probe)
    /\ (task[u].pc \in {"broker", "bind", "record", "complete", "verify"}
        /\ task[u].user \notin Admins) => task[u].held # None
    /\ task[u].held # None =>
        file = task[u].held /\ maker[file] = task[u].user
    /\ At(u, "record") =>
        /\ task[u].id \in Files /\ task[u].id <= made
        /\ task[u].held # None => task[u].id = task[u].held
    /\ At(u, "discard") => task[u].held # None

HoldInv ==
    /\ \A u \in Tasks : HoldTask(u)
    /\ file <= made
    /\ \A u, v \in Tasks :
        (task[u].held # None /\ task[u].held = task[v].held) => u = v

\* What a creation knows of its reservation.
LockTask(u) ==
    /\ task[u].serial <= serials
    /\ Matches(u) => memory.pending.owner = task[u].user
    /\ At(u, "verify") =>
        holder = u /\ Matches(u) /\ memory.pending.id # None

LockInv == \A u \in Tasks : LockTask(u)

\* A registry at a time when `top` files were made, by those in `by`, and
\* `last` reservations.
Sound(reg, top, by, last) ==
    /\ reg.pending # None =>
        /\ reg.record = None
        /\ reg.pending.serial <= last
        /\ reg.pending.id # None =>
            /\ reg.pending.id <= top
            /\ reg.pending.owner \in Admins \/ by[reg.pending.id] = reg.pending.owner
    /\ reg.record # None =>
        /\ reg.record.id <= top
        /\ reg.record.owner \in Admins \/ by[reg.record.id] = reg.record.owner

RegInv == \A reg \in {memory, disk} : Sound(reg, made, maker, serials)

KeptInv ==
    /\ \A id \in Files, user \in Users : <<id, user>> \in told => id <= made
    /\ claimed # 0 => claimed \in governed
    /\ ~Unreadable => CreatedIsKept

IInv == TypeOK /\ HoldInv /\ LockInv /\ RegInv /\ KeptInv

-----------------------------------------------------------------------------
(* What the steps are made of.                                             *)

\* What a step of one creation does to the others.
LEMMA StayFacts ==
    ASSUME NEW t \in Tasks, NEW self \in Task, TypeOK, Stay(t, self)
    PROVE  /\ task' \in [Tasks -> Task]
           /\ task'[t] = self
           /\ \A u \in Tasks : u # t => task'[u] = task[u]
  BY DEF Stay, TypeOK

LEMMA IdleFacts ==
    /\ Idle \in Task
    /\ Idle.pc = "idle" /\ Idle.held = None /\ Idle.serial = 0
  BY BoundsAssumption DEF Idle, Task

Pcs == {"idle", "reserve", "prepare", "broker", "bind", "record", "complete",
        "verify", "cancel", "discard"}

\* A step to another program counter, keeping the rest.
LEMMA GotoFacts ==
    ASSUME NEW t \in Tasks, NEW pc \in Pcs, TypeOK, Goto(t, pc)
    PROVE  /\ task' \in [Tasks -> Task]
           /\ task'[t].pc = pc
           /\ task'[t].user = task[t].user /\ task'[t].held = task[t].held
           /\ task'[t].serial = task[t].serial /\ task'[t].id = task[t].id
           /\ \A u \in Tasks : u # t => task'[u] = task[u]
  <1> DEFINE self == [task[t] EXCEPT !.pc = pc]
  <1>1. /\ self \in Task /\ self.pc = pc /\ self.user = task[t].user
        /\ self.held = task[t].held /\ self.serial = task[t].serial
        /\ self.id = task[t].id
    BY DEF Pcs, TypeOK, Task
  <1>2. Stay(t, self)
    BY DEF Goto
  <1> HIDE DEF self
  <1> QED BY <1>1, <1>2, StayFacts

\* The end of a creation that failed.
LEMMA EndedFacts ==
    ASSUME NEW self \in Task
    PROVE  /\ Ended(self) \in Task
           /\ Ended(self).held = self.held
           /\ \/ Ended(self).pc = "idle" /\ self.held = None /\ Ended(self).serial = 0
              \/ /\ Ended(self).pc = "discard" /\ self.held # None
                 /\ Ended(self).user = self.user /\ Ended(self).serial = self.serial
  <1>1. CASE self.held = None
    BY <1>1, IdleFacts DEF Ended
  <1>2. CASE self.held # None
    BY <1>2 DEF Ended, Task
  <1> QED BY <1>1, <1>2

\* A new file has a number of its own.
LEMMA MakeFacts ==
    ASSUME TypeOK, NEW who \in Users \cup {Outsider}, Make(who)
    PROVE  /\ file = 0 /\ made' = made + 1 /\ file' = made' /\ made' \in Files
           /\ file' \in 0 .. MaxFile /\ made' \in 0 .. MaxFile
           /\ maker' \in [Files -> Users \cup {Outsider}]
           /\ maker'[made'] = who
           /\ \A f \in Files : f <= made => maker'[f] = maker[f]
           /\ acl' = "open"
  <1>1. made' \in Files /\ made' = made + 1
    BY BoundsAssumption DEF Make, TypeOK, Files
  <1> QED BY <1>1, BoundsAssumption DEF Make, TypeOK, Files

\* What a step may do to the file at the name.
LEMMA FileCases ==
    ASSUME IInv, [Next]_vars
    PROVE  \/ UNCHANGED <<file, made, maker>>
           \/ \E who \in Users \cup {Outsider} : Make(who)
           \/ file' = 0 /\ UNCHANGED <<made, maker>>
  <1>1. ASSUME NEW t \in Tasks, Create(t)
        PROVE  \/ UNCHANGED <<file, made, maker>>
               \/ \E who \in Users \cup {Outsider} : Make(who)
               \/ file' = 0 /\ UNCHANGED <<made, maker>>
    <2>1. CASE Prepare(t) \/ Broker(t) \/ BrokerFails(t)
      <3>1. task[t].user \in Users
        BY <2>1 DEF Prepare, Broker, BrokerFails, At, IInv, HoldInv, HoldTask
      <3>2. UNCHANGED files \/ Make(task[t].user)
        BY <2>1 DEF Prepare, Broker, BrokerFails
      <3> QED BY <3>1, <3>2 DEF files
    <2>2. CASE Discard(t)
      BY <2>2 DEF Discard
    <2>3. CASE Protect(t) \/ ProtectFails(t) \/ CompleteRefused(t) \/ CompleteFails(t)
      BY <2>3 DEF Protect, ProtectFails, CompleteRefused, CompleteFails
    <2>4. CASE \/ \E user \in Users : Probe(t, user)
               \/ Reserve(t) \/ ReserveFails(t) \/ ReserveRefused(t)
               \/ PrepareFails(t) \/ Bind(t)
               \/ RecordCompletion(t) \/ RecordCompletionFails(t)
               \/ Complete(t) \/ Refused(t) \/ Cancel(t) \/ CancelFails(t)
      BY <2>4 DEF Probe, Reserve, ReserveFails, ReserveRefused, PrepareFails, Bind,
                  RecordCompletion, RecordCompletionFails, Complete, Refused, Cancel,
                  CancelFails, files
    <2> QED BY <1>1, <2>1, <2>2, <2>3, <2>4 DEF Create
  <1>2. CASE MakeOutside \/ DeleteOutside
    BY <1>2 DEF MakeOutside, DeleteOutside
  <1>3. CASE \/ \E id \in Files, user \in Users, opted \in BOOLEAN :
                  SetConsent(id, user, opted)
             \/ Claim \/ Unclaim \/ Tick
             \/ \E read \in BOOLEAN : Restart(read)
             \/ UNCHANGED vars
    BY <1>3 DEF SetConsent, Claim, Unclaim, Tick, Restart, vars, files
  <1> QED BY <1>1, <1>2, <1>3 DEF Next

\* So the numbers of files only grow, and no file changes its maker.
LEMMA FileStep ==
    ASSUME IInv, [Next]_vars
    PROVE  /\ file' \in 0 .. MaxFile /\ made' \in 0 .. MaxFile /\ file' <= made'
           /\ maker' \in [Files -> Users \cup {Outsider}]
           /\ made <= made'
           /\ \A f \in Files : f <= made => maker'[f] = maker[f]
  <1>1. /\ file \in 0 .. MaxFile /\ made \in 0 .. MaxFile /\ file <= made
        /\ maker \in [Files -> Users \cup {Outsider}] /\ TypeOK
    BY DEF IInv, TypeOK, HoldInv
  <1>2. CASE \E who \in Users \cup {Outsider} : Make(who)
    BY <1>1, <1>2, MakeFacts, BoundsAssumption
  <1>3. CASE ~\E who \in Users \cup {Outsider} : Make(who)
    BY <1>1, <1>3, FileCases, BoundsAssumption
  <1> QED BY <1>2, <1>3

-----------------------------------------------------------------------------
(* The registry.                                                           *)

LEMMA RegistryType ==
    ASSUME NEW reg \in Registry
    PROVE  /\ reg.record \in Record \cup {None}
           /\ reg.pending \in Pending \cup {None}
           /\ reg.record # None =>
                reg.record.id \in Files /\ reg.record.owner \in Users
           /\ reg.pending # None =>
                /\ reg.pending.serial \in 1 .. MaxSerial
                /\ reg.pending.owner \in Users
                /\ reg.pending.id \in Files \cup {None}
  BY DEF Registry, Record, Pending

\* What was sound stays so.
LEMMA SoundStays ==
    ASSUME NEW reg \in Registry, NEW top \in Nat, NEW top2 \in Nat, top <= top2,
           NEW last \in Nat, NEW last2 \in Nat, last <= last2, NEW by, NEW by2,
           \A f \in Files : f <= top => by2[f] = by[f],
           Sound(reg, top, by, last)
    PROVE  Sound(reg, top2, by2, last2)
  BY RegistryType, BoundsAssumption DEF Sound, Files

LEMMA DropFacts ==
    ASSUME NEW reg \in Registry
    PROVE  LET new == [reg EXCEPT !.pending = None] IN
           /\ new \in Registry /\ new.record = reg.record /\ new.pending = None
           /\ \A top, by, last : Sound(reg, top, by, last) => Sound(new, top, by, last)
  BY DEF Registry, Sound

\* The registry that a start reads.
LEMMA LoadedFacts ==
    ASSUME IInv
    PROVE  /\ Loaded \in Registry /\ Sound(Loaded, made, maker, serials)
           /\ Loaded.record = disk.record
  <1>1. disk \in Registry /\ Sound(disk, made, maker, serials)
    BY DEF IInv, TypeOK, RegInv
  <1>2. Loaded = disk \/ Loaded = [disk EXCEPT !.pending = None]
    BY <1>1 DEF Loaded, Registry
  <1>3. CASE Loaded = disk
    BY <1>1, <1>3
  <1>4. CASE Loaded = [disk EXCEPT !.pending = None]
    BY <1>1, <1>4, DropFacts
  <1> QED BY <1>2, <1>3, <1>4

LEMMA EmptyFacts ==
    ASSUME NEW top, NEW by, NEW last
    PROVE  Empty \in Registry /\ Sound(Empty, top, by, last)
  BY DEF Empty, Registry, Sound

\* A reservation has a new nonce.
LEMMA ReservationFacts ==
    ASSUME IInv, NEW t \in Tasks, MayReserve(t)
    PROVE  /\ Reservation(t) \in Registry
           /\ Reservation(t).record = None
           /\ Reservation(t).pending # None
           /\ Reservation(t).pending.serial = serials'
           /\ Reservation(t).pending.owner = task[t].user
           /\ \A top, by : Sound(Reservation(t), top, by, serials')
           /\ serials' = serials + 1 /\ serials' \in 0 .. MaxSerial
  <1> DEFINE pending == [serial |-> serials + 1, owner |-> task[t].user,
                         at |-> task[t].time, id |-> None]
  <1>1. serials' = serials + 1 /\ serials' \in 1 .. MaxSerial /\ serials' \in Nat
    BY BoundsAssumption DEF MayReserve, IInv, TypeOK
  <1>2. task[t].user \in Users /\ task[t].time \in 0 .. MaxTime
    BY DEF MayReserve, At, IInv, HoldInv, HoldTask, TypeOK, Task
  <1>3. pending \in Pending
    BY <1>1, <1>2 DEF Pending
  <1>4. Reservation(t) = [record |-> None, pending |-> pending]
    BY DEF Reservation
  <1> QED BY <1>1, <1>3, <1>4, NoneAssumption DEF Registry, Sound

\* What is bound to a reservation is a file of its own creation.
LEMMA BoundFacts ==
    ASSUME IInv, NEW t \in Tasks, MayRecord(t)
    PROVE  /\ Bound(t) \in Registry
           /\ Sound(Bound(t), made, maker, serials)
           /\ Bound(t).record = memory.record /\ Bound(t).record = None
           /\ Bound(t).pending # None
           /\ Bound(t).pending.serial = memory.pending.serial
           /\ Bound(t).pending.owner = memory.pending.owner
  <1> DEFINE pending == [memory.pending EXCEPT !.id = task[t].id]
  <1>1. /\ memory \in Registry /\ memory.pending \in Pending
        /\ Sound(memory, made, maker, serials) /\ memory.pending # None
    BY RegistryType DEF MayRecord, Current, Matches, IInv, TypeOK, RegInv
  <1>2. /\ memory.pending.owner = task[t].user
        /\ task[t].id \in Files /\ task[t].id <= made
        /\ memory.pending.owner \in Admins \/ maker[task[t].id] = memory.pending.owner
    BY DEF MayRecord, Current, At, IInv, LockInv, LockTask, HoldInv, HoldTask
  <1>3. /\ pending \in Pending /\ pending # None /\ pending.id = task[t].id
        /\ pending.serial = memory.pending.serial
        /\ pending.owner = memory.pending.owner
    BY <1>1, <1>2, NoneAssumption DEF Pending
  <1>4. Bound(t) = [record |-> memory.record, pending |-> pending]
    BY <1>1 DEF Bound, Registry
  <1>5. memory.record = None
    BY <1>1 DEF Sound
  <1> HIDE DEF pending
  <1> QED BY <1>1, <1>2, <1>3, <1>4, <1>5 DEF Registry, Sound

\* What is registered is what was bound.
LEMMA RegisteredFacts ==
    ASSUME IInv, NEW t \in Tasks, At(t, "verify"), Proven(t)
    PROVE  /\ Registered \in Registry
           /\ Sound(Registered, made, maker, serials)
           /\ Registered.pending = None
           /\ Registered.record # None
           /\ Registered.record.id = memory.pending.id
           /\ Registered.record.owner = memory.pending.owner
           /\ memory.pending # None /\ memory.record = None
           /\ memory.pending.id = file /\ memory.pending.id \in Files
           /\ memory.pending.owner = task[t].user /\ memory.pending.owner \in Users
  <1> DEFINE record == [id |-> memory.pending.id, owner |-> memory.pending.owner,
                        consent |-> FALSE]
  <1>1. /\ memory \in Registry /\ Sound(memory, made, maker, serials)
        /\ memory.pending # None /\ memory.pending.id # None
        /\ memory.pending.owner = task[t].user
    BY DEF Matches, IInv, TypeOK, RegInv, LockInv, LockTask
  <1>2. memory.pending.id \in Files /\ memory.pending.owner \in Users
    BY <1>1, RegistryType
  <1>3. record \in Record /\ record # None
    <2>1. FALSE \in BOOLEAN
      OBVIOUS
    <2>2. record \in Record
      BY <1>2, <2>1 DEF Record
    <2> QED BY <2>2, NoneAssumption
  <1>4. Registered = [record |-> record, pending |-> None]
    BY DEF Registered
  <1> QED BY <1>1, <1>2, <1>3, <1>4 DEF Registry, Sound, Proven

\* A changed consent.
LEMMA ConsentFacts ==
    ASSUME NEW reg \in Registry, reg.record # None, NEW opted \in BOOLEAN
    PROVE  LET new == [reg EXCEPT !.record.consent = opted] IN
           /\ new \in Registry /\ new.pending = reg.pending
           /\ new.record # None
           /\ new.record.id = reg.record.id /\ new.record.owner = reg.record.owner
           /\ \A top, by, last : Sound(reg, top, by, last) => Sound(new, top, by, last)
  <1> DEFINE record == [reg.record EXCEPT !.consent = opted]
             new == [reg EXCEPT !.record.consent = opted]
  <1>1. /\ record \in Record /\ record # None
        /\ record.id = reg.record.id /\ record.owner = reg.record.owner
    BY RegistryType, NoneAssumption DEF Record
  <1>2. new = [record |-> record, pending |-> reg.pending]
    BY DEF Registry
  <1> HIDE DEF record, new
  <1>3. new \in Registry
    BY <1>1, <1>2, RegistryType DEF Registry
  <1> QED BY <1>1, <1>2, <1>3 DEF Sound, new

\* A step that writes `new`, or keeps or drops what there was.
LEMMA RegistryWrites ==
    ASSUME IInv, [Next]_vars, NEW new \in Registry,
           Sound(new, made, maker, serials'),
           serials' \in Nat, serials <= serials',
           memory' \in {memory, disk, [memory EXCEPT !.pending = None], Loaded, Empty, new},
           disk' \in {disk, [memory EXCEPT !.pending = None], new}
    PROVE  {memory', disk'} \subseteq Registry /\ RegInv'
  <1>1. /\ made \in Nat /\ made' \in Nat /\ made <= made'
        /\ \A f \in Files : f <= made => maker'[f] = maker[f]
    BY FileStep, BoundsAssumption DEF IInv, TypeOK
  <1>2. /\ serials \in Nat
        /\ memory \in Registry /\ disk \in Registry
        /\ Sound(memory, made, maker, serials) /\ Sound(disk, made, maker, serials)
    BY BoundsAssumption DEF IInv, TypeOK, RegInv
  <1>3. \A reg \in Registry : Sound(reg, made, maker, serials)
            => Sound(reg, made', maker', serials')
    BY <1>1, <1>2, SoundStays
  <1>4. Sound(new, made', maker', serials')
    BY <1>1, SoundStays
  <1>5. \A reg \in {memory, disk, [memory EXCEPT !.pending = None], Loaded, Empty} :
            reg \in Registry /\ Sound(reg, made, maker, serials)
    BY <1>2, DropFacts, LoadedFacts, EmptyFacts
  <1>6. \A reg \in {memory', disk'} :
            reg \in Registry /\ Sound(reg, made', maker', serials')
    BY <1>3, <1>4, <1>5
  <1> QED BY <1>6 DEF RegInv

\* Every step keeps the registry sound.
LEMMA StepRegistry ==
    ASSUME IInv, [Next]_vars
    PROVE  /\ {memory', disk'} \subseteq Registry /\ RegInv'
           /\ serials' \in 0 .. MaxSerial /\ serials <= serials'
  <1>1. /\ serials \in 0 .. MaxSerial /\ serials \in Nat /\ serials <= serials
        /\ memory \in Registry /\ disk \in Registry
        /\ Sound(memory, made, maker, serials) /\ Sound(disk, made, maker, serials)
    BY BoundsAssumption DEF IInv, TypeOK, RegInv
  <1>2. CASE UNCHANGED <<memory, disk, serials>>
    BY <1>1, <1>2, RegistryWrites
  <1>3. ASSUME NEW t \in Tasks, Reserve(t) \/ ReserveFails(t)
        PROVE  /\ {memory', disk'} \subseteq Registry /\ RegInv'
               /\ serials' \in 0 .. MaxSerial /\ serials <= serials'
    <2>1. MayReserve(t)
      BY <1>3 DEF Reserve, ReserveFails
    <2>2. /\ Reservation(t) \in Registry
          /\ Sound(Reservation(t), made, maker, serials')
          /\ serials' \in 0 .. MaxSerial /\ serials' \in Nat /\ serials <= serials'
      BY <1>1, <2>1, ReservationFacts, BoundsAssumption
    <2>3. /\ memory' \in {[memory EXCEPT !.pending = None], Reservation(t)}
          /\ disk' \in {disk, Reservation(t)}
      BY <1>3 DEF Reserve, ReserveFails, Save, SaveFails
    <2> QED BY <2>2, <2>3, RegistryWrites
  <1>4. ASSUME NEW t \in Tasks, RecordCompletion(t) \/ RecordCompletionFails(t)
        PROVE  {memory', disk'} \subseteq Registry /\ RegInv' /\ serials' = serials
    <2>1. MayRecord(t) /\ serials' = serials
      BY <1>4 DEF RecordCompletion, RecordCompletionFails
    <2>2. Bound(t) \in Registry /\ Sound(Bound(t), made, maker, serials')
      BY <2>1, BoundFacts
    <2>3. memory' \in {memory, Bound(t)} /\ disk' \in {disk, Bound(t)}
      BY <1>4 DEF RecordCompletion, RecordCompletionFails, Save, SaveFails
    <2> QED BY <1>1, <2>1, <2>2, <2>3, RegistryWrites
  <1>5. ASSUME NEW t \in Tasks, Complete(t) \/ CompleteFails(t)
        PROVE  {memory', disk'} \subseteq Registry /\ RegInv' /\ serials' = serials
    <2>1. At(t, "verify") /\ Proven(t) /\ serials' = serials
      BY <1>5 DEF Complete, CompleteFails
    <2>2. Registered \in Registry /\ Sound(Registered, made, maker, serials')
      BY <2>1, RegisteredFacts
    <2>3. memory' \in {memory, Registered} /\ disk' \in {disk, Registered}
      BY <1>5 DEF Complete, CompleteFails, Save, SaveFails
    <2> QED BY <1>1, <2>1, <2>2, <2>3, RegistryWrites
  <1>6. ASSUME NEW t \in Tasks, Cancel(t) \/ CancelFails(t)
        PROVE  {memory', disk'} \subseteq Registry /\ RegInv' /\ serials' = serials
    <2>1. /\ serials' = serials
          /\ memory' \in {memory, [memory EXCEPT !.pending = None]}
          /\ disk' \in {disk, [memory EXCEPT !.pending = None]}
      BY <1>6 DEF Cancel, CancelFails, Save, SaveFails, registry
    <2> QED BY <1>1, <2>1, RegistryWrites
  <1>7. ASSUME NEW id \in Files, NEW user \in Users, NEW opted \in BOOLEAN,
               SetConsent(id, user, opted)
        PROVE  {memory', disk'} \subseteq Registry /\ RegInv' /\ serials' = serials
    <2> DEFINE new == [memory EXCEPT !.record.consent = opted]
    <2>1. serials' = serials /\ memory' \in {memory, new} /\ disk' \in {disk, new}
      BY <1>7 DEF SetConsent, Save, SaveFails
    <2>2. new \in Registry /\ Sound(new, made, maker, serials')
      BY <1>1, <1>7, <2>1, ConsentFacts DEF SetConsent
    <2> HIDE DEF new
    <2> QED BY <1>1, <2>1, <2>2, RegistryWrites
  <1>8. ASSUME NEW read \in BOOLEAN, Restart(read)
        PROVE  {memory', disk'} \subseteq Registry /\ RegInv' /\ serials' = serials
    <2>1. serials' = serials /\ memory' \in {Loaded, Empty} /\ disk' = disk
      BY <1>8 DEF Restart
    <2> QED BY <1>1, <2>1, RegistryWrites
  <1>9. ASSUME NEW t \in Tasks,
               \/ \E user \in Users : Probe(t, user)
               \/ ReserveRefused(t) \/ Prepare(t) \/ PrepareFails(t)
               \/ Broker(t) \/ BrokerFails(t) \/ Bind(t)
               \/ Protect(t) \/ ProtectFails(t) \/ CompleteRefused(t)
               \/ Refused(t) \/ Discard(t)
        PROVE  UNCHANGED <<memory, disk, serials>>
    BY <1>9 DEF Probe, ReserveRefused, Prepare, PrepareFails, Broker, BrokerFails, Bind,
                Protect, ProtectFails, CompleteRefused, Refused, Discard, registry
  <1>10. ASSUME \/ Claim \/ Unclaim \/ DeleteOutside \/ MakeOutside \/ Tick
                \/ UNCHANGED vars
         PROVE  UNCHANGED <<memory, disk, serials>>
    BY <1>10 DEF Claim, Unclaim, DeleteOutside, MakeOutside, Tick, vars, registry
  <1>11. ASSUME NEW t \in Tasks, Create(t)
         PROVE  /\ {memory', disk'} \subseteq Registry /\ RegInv'
                /\ serials' \in 0 .. MaxSerial /\ serials <= serials'
    BY <1>1, <1>2, <1>3, <1>4, <1>5, <1>6, <1>9, <1>11 DEF Create
  <1> QED BY <1>1, <1>2, <1>7, <1>8, <1>10, <1>11 DEF Next

-----------------------------------------------------------------------------
(* Types.                                                                  *)

LEMMA InitType == Init => TypeOK
  <1> SUFFICES ASSUME Init PROVE TypeOK
    OBVIOUS
  <1>1. Empty \in Registry
    BY EmptyFacts
  <1>2. task \in [Tasks -> Task]
    BY IdleFacts DEF Init
  <1>3. maker \in [Files -> Users \cup {Outsider}]
    BY DEF Init
  <1>4. healthy \in BOOLEAN
    BY DEF Init
  <1> QED BY <1>1, <1>2, <1>3, <1>4, BoundsAssumption DEF Init, TypeOK

\* The creations keep their type.
LEMMA StepTask ==
    ASSUME IInv, [Next]_vars PROVE task' \in [Tasks -> Task]
  <1>1. TypeOK /\ \A t \in Tasks : task[t] \in Task
    BY DEF IInv, TypeOK
  <1>2. ASSUME NEW t \in Tasks, \E self \in Task : Stay(t, self)
        PROVE  task' \in [Tasks -> Task]
    BY <1>1, <1>2, StayFacts
  <1>3. ASSUME NEW t \in Tasks, \E pc \in Pcs : Goto(t, pc)
        PROVE  task' \in [Tasks -> Task]
    BY <1>1, <1>3, GotoFacts
  <1>4. ASSUME NEW t \in Tasks, Create(t) PROVE task' \in [Tasks -> Task]
    <2>1. ASSUME NEW user \in Users, Probe(t, user) PROVE task' \in [Tasks -> Task]
      <3>1. [Idle EXCEPT !.pc = "reserve", !.user = user, !.time = clock,
                         !.probe = made] \in Task
        <4>1. clock \in 0 .. MaxTime /\ made \in 0 .. MaxFile
          BY <1>1 DEF TypeOK
        <4> QED BY <4>1, IdleFacts DEF Task
      <3> QED BY <1>2, <2>1, <3>1 DEF Probe
    <2>2. CASE Reserve(t)
      <3> DEFINE pc == IF task[t].user \in Admins THEN "broker" ELSE "prepare"
                 self == [Idle EXCEPT !.user = task[t].user, !.serial = serials',
                                      !.pc = pc]
      <3>1. serials' \in 0 .. MaxSerial /\ pc \in {"broker", "prepare"}
        BY <2>2, ReservationFacts DEF Reserve
      <3>2. Stay(t, self)
        BY <2>2 DEF Reserve
      <3> HIDE DEF pc
      <3>3. self \in Task
        BY <1>1, <3>1, IdleFacts DEF Task
      <3> QED BY <1>2, <3>2, <3>3
    <2>3. CASE ReserveFails(t) \/ ReserveRefused(t) \/ Complete(t) \/ Discard(t)
      BY <1>2, <2>3, IdleFacts DEF ReserveFails, ReserveRefused, Complete, Discard
    <2>4. CASE Prepare(t)
      <3>1. task[t].user \in Users \cup {Outsider}
        BY <2>4 DEF Prepare, At, IInv, HoldInv, HoldTask
      <3>2. made' \in Files
        BY <1>1, <2>4, <3>1, MakeFacts DEF Prepare
      <3>3. [task[t] EXCEPT !.pc = "broker", !.held = made'] \in Task
        BY <1>1, <3>2 DEF Task
      <3> QED BY <1>2, <2>4, <3>3 DEF Prepare
    <2>5. CASE Bind(t)
      <3>1. file \in Files
        BY <1>1, <2>5, BoundsAssumption DEF Bind, TypeOK, Files
      <3>2. [task[t] EXCEPT !.pc = "record", !.time = clock, !.id = file] \in Task
        BY <1>1, <3>1 DEF Task, TypeOK
      <3> QED BY <1>2, <2>5, <3>2 DEF Bind
    <2>6. CASE RecordCompletion(t)
      <3>1. [task[t] EXCEPT !.pc = "complete", !.time = clock] \in Task
        BY <1>1 DEF Task, TypeOK
      <3> QED BY <1>2, <2>6, <3>1 DEF RecordCompletion
    <2>7. CASE Protect(t)
      <3>1. [task[t] EXCEPT !.pc = "verify", !.saved = acl] \in Task
        BY <1>1 DEF Task, TypeOK
      <3> QED BY <1>2, <2>7, <3>1 DEF Protect
    <2>8. CASE Cancel(t) \/ CancelFails(t)
      BY <1>1, <1>2, <2>8, EndedFacts DEF Cancel, CancelFails
    <2>9. CASE \/ PrepareFails(t) \/ Broker(t) \/ BrokerFails(t)
               \/ RecordCompletionFails(t) \/ ProtectFails(t) \/ CompleteRefused(t)
               \/ CompleteFails(t) \/ Refused(t)
      BY <1>3, <2>9 DEF PrepareFails, Broker, BrokerFails, RecordCompletionFails,
           ProtectFails, CompleteRefused, CompleteFails, Refused, Pcs
    <2> QED
      BY <1>4, <2>1, <2>2, <2>3, <2>4, <2>5, <2>6, <2>7, <2>8, <2>9 DEF Create
  <1>5. ASSUME NEW read \in BOOLEAN, Restart(read) PROVE task' \in [Tasks -> Task]
    BY <1>5, IdleFacts DEF Restart
  <1>6. CASE \/ \E id \in Files, user \in Users, opted \in BOOLEAN :
                  SetConsent(id, user, opted)
             \/ Claim \/ Unclaim \/ DeleteOutside \/ MakeOutside \/ Tick
             \/ UNCHANGED vars
    BY <1>1, <1>6 DEF SetConsent, Claim, Unclaim, DeleteOutside, MakeOutside, Tick,
                      vars, TypeOK
  <1> QED BY <1>4, <1>5, <1>6 DEF Next

LEMMA MakerUsers ==
    ASSUME IInv, NEW t \in Tasks, task[t].pc # "idle"
    PROVE  task[t].user \in Users \cup {Outsider}
  BY DEF IInv, HoldInv, HoldTask

\* Every step keeps the types.
LEMMA StepType ==
    ASSUME IInv, [Next]_vars PROVE TypeOK'
  <1>1. TypeOK
    BY DEF IInv
  <1>2. acl' \in Users \cup {"open", "policy"}
    <2>1. CASE UNCHANGED acl
      BY <1>1, <2>1 DEF TypeOK
    <2>2. CASE \E who \in Users \cup {Outsider} : Make(who)
      BY <1>1, <2>2, MakeFacts
    <2>3. ASSUME NEW t \in Tasks, Protect(t) \/ ProtectFails(t)
          PROVE  acl' \in Users \cup {"open", "policy"}
      <3>1. memory.pending # None /\ memory \in Registry
        BY <2>3 DEF Protect, ProtectFails, MayComplete, Current, Matches, IInv, TypeOK
      <3>2. memory.pending.owner \in Users
        BY <3>1, RegistryType
      <3> QED BY <1>1, <2>3, <3>2 DEF Protect, ProtectFails, TypeOK
    <2>4. ASSUME NEW t \in Tasks, CompleteRefused(t) \/ CompleteFails(t)
          PROVE  acl' \in Users \cup {"open", "policy"}
      <3>1. task[t].saved \in Users \cup {"open", "policy"}
        BY DEF IInv, TypeOK, Task
      <3>2. acl' \in {acl, task[t].saved}
        BY <2>4 DEF CompleteRefused, CompleteFails, Restore
      <3> QED BY <1>1, <3>1, <3>2 DEF TypeOK
    <2>5. CASE Claim \/ Unclaim
      BY <1>1, <2>5 DEF Claim, Unclaim, TypeOK
    <2>6. ASSUME NEW t \in Tasks, Prepare(t) \/ Broker(t) \/ BrokerFails(t)
          PROVE  UNCHANGED acl \/ \E who \in Users \cup {Outsider} : Make(who)
      <3>1. task[t].user \in Users \cup {Outsider}
        BY <2>6, MakerUsers DEF Prepare, Broker, BrokerFails, At
      <3>2. UNCHANGED files \/ Make(task[t].user)
        BY <2>6 DEF Prepare, Broker, BrokerFails
      <3> QED BY <3>1, <3>2 DEF files
    <2>7. ASSUME NEW t \in Tasks,
                 \/ \E user \in Users : Probe(t, user)
                 \/ Reserve(t) \/ ReserveFails(t) \/ ReserveRefused(t)
                 \/ PrepareFails(t) \/ Bind(t)
                 \/ RecordCompletion(t) \/ RecordCompletionFails(t)
                 \/ Complete(t) \/ Refused(t) \/ Cancel(t) \/ CancelFails(t)
                 \/ Discard(t)
          PROVE  UNCHANGED acl
      BY <2>7 DEF Probe, Reserve, ReserveFails, ReserveRefused, PrepareFails, Bind,
                  RecordCompletion, RecordCompletionFails, Complete, Refused, Cancel,
                  CancelFails, Discard, files
    <2>8. CASE \/ \E id \in Files, user \in Users, opted \in BOOLEAN :
                    SetConsent(id, user, opted)
               \/ DeleteOutside \/ Tick \/ UNCHANGED vars
               \/ \E read \in BOOLEAN : Restart(read)
      BY <2>1, <2>8 DEF SetConsent, DeleteOutside, Tick, vars, Restart, files
    <2>9. CASE MakeOutside
      BY <2>2, <2>9 DEF MakeOutside
    <2>10. ASSUME NEW t \in Tasks, Create(t)
           PROVE  acl' \in Users \cup {"open", "policy"}
      BY <2>1, <2>2, <2>3, <2>4, <2>6, <2>7, <2>10 DEF Create
    <2> QED BY <2>5, <2>8, <2>9, <2>10 DEF Next
  <1>3. /\ claimed' \in 0 .. MaxFile /\ clock' \in 0 .. MaxTime
        /\ governed' \subseteq Files
    <2>1. CASE Claim \/ Unclaim \/ Tick
      <3>1. CASE Claim
        <4>1. file \in Files /\ file \in 0 .. MaxFile
          BY <1>1, <3>1, BoundsAssumption DEF Claim, TypeOK, Files
        <4> QED BY <1>1, <3>1, <4>1 DEF Claim, TypeOK
      <3>2. CASE Unclaim
        BY <1>1, <3>2, BoundsAssumption DEF Unclaim, TypeOK, history
      <3>3. CASE Tick
        BY <1>1, <3>3, BoundsAssumption DEF Tick, TypeOK, history
      <3> QED BY <2>1, <3>1, <3>2, <3>3
    <2>2. CASE UNCHANGED <<claimed, clock, governed>>
      BY <1>1, <2>2 DEF TypeOK
    <2>3. ASSUME NEW t \in Tasks, Create(t) PROVE UNCHANGED <<claimed, clock, governed>>
      BY <2>3 DEF Create, Probe, Reserve, ReserveFails, ReserveRefused, Prepare,
           PrepareFails, Broker, BrokerFails, Bind, RecordCompletion,
           RecordCompletionFails, Protect, ProtectFails, Complete, CompleteRefused,
           CompleteFails, Refused, Cancel, CancelFails, Discard, world, history
    <2>4. CASE \/ \E id \in Files, user \in Users, opted \in BOOLEAN :
                    SetConsent(id, user, opted)
               \/ DeleteOutside \/ MakeOutside \/ UNCHANGED vars
               \/ \E read \in BOOLEAN : Restart(read)
      BY <2>2, <2>4 DEF SetConsent, DeleteOutside, MakeOutside, vars, Restart, world,
                        history
    <2> QED BY <2>1, <2>2, <2>3, <2>4 DEF Next
  <1>4. holder' \in Tasks \cup {None}
    <2>1. ASSUME NEW t \in Tasks, Create(t) PROVE holder' \in {holder, t, None}
      BY <2>1 DEF Create, Probe, Reserve, ReserveFails, ReserveRefused, Prepare,
           PrepareFails, Broker, BrokerFails, Bind, RecordCompletion,
           RecordCompletionFails, Protect, ProtectFails, Complete, CompleteRefused,
           CompleteFails, Refused, Cancel, CancelFails, Discard
    <2>2. ASSUME ~\E t \in Tasks : Create(t) PROVE holder' \in {holder, None}
      BY <2>2 DEF Next, SetConsent, Claim, Unclaim, DeleteOutside, MakeOutside, Restart,
           Tick, vars
    <2> QED BY <1>1, <2>1, <2>2 DEF TypeOK
  <1>5. healthy' \in BOOLEAN
    <2>1. healthy \in BOOLEAN
      BY <1>1 DEF TypeOK
    <2>2. ASSUME NEW t \in Tasks, Create(t) PROVE healthy' = healthy
      BY <2>2 DEF Create, Probe, Reserve, ReserveFails, ReserveRefused, Prepare,
           PrepareFails, Broker, BrokerFails, Bind, RecordCompletion,
           RecordCompletionFails, Protect, ProtectFails, Complete, CompleteRefused,
           CompleteFails, Refused, Cancel, CancelFails, Discard, registry, Save,
           SaveFails
    <2>3. ASSUME NEW read \in BOOLEAN, Restart(read) PROVE healthy' \in BOOLEAN
      <3>1. healthy' = read
        BY <2>3 DEF Restart
      <3> QED BY <3>1
    <2>4. CASE \/ \E id \in Files, user \in Users, opted \in BOOLEAN :
                    SetConsent(id, user, opted)
               \/ Claim \/ Unclaim \/ DeleteOutside \/ MakeOutside \/ Tick
               \/ UNCHANGED vars
      <3>1. healthy' = healthy
        BY <2>4 DEF SetConsent, Claim, Unclaim, DeleteOutside, MakeOutside, Tick, vars,
                    registry, Save, SaveFails
      <3> QED BY <2>1, <3>1
    <2> QED BY <2>1, <2>2, <2>3, <2>4 DEF Next
  <1>6. faults' \in 0 .. MaxFaults
    <2>1. CASE Fault
      BY <1>1, <2>1, BoundsAssumption DEF Fault, TypeOK
    <2>2. ASSUME NEW t \in Tasks, Create(t) PROVE Fault \/ faults' = faults
      BY <2>2 DEF Create, Probe, Reserve, ReserveFails, ReserveRefused, Prepare,
           PrepareFails, Broker, BrokerFails, Bind, RecordCompletion,
           RecordCompletionFails, Protect, ProtectFails, Complete, CompleteRefused,
           CompleteFails, Refused, Cancel, CancelFails, Discard, SaveFails
    <2>3. ASSUME ~\E t \in Tasks : Create(t) PROVE Fault \/ faults' = faults
      BY <2>3 DEF Next, SetConsent, Claim, Unclaim, DeleteOutside, MakeOutside, Restart,
           Tick, vars, SaveFails
    <2> QED BY <1>1, <2>1, <2>2, <2>3 DEF TypeOK
  <1>7. told' \subseteq Files \X Users /\ raced' \subseteq Files
    <2>1. told \subseteq Files \X Users /\ raced \subseteq Files /\ memory \in Registry
      BY <1>1 DEF TypeOK
    <2>2. CASE UNCHANGED <<told, raced>>
      BY <2>1, <2>2
    <2>3. ASSUME NEW t \in Tasks, Reserve(t) \/ ReserveFails(t)
          PROVE  told' = told /\ raced' \subseteq Files
      BY <2>1, <2>3, RegistryType DEF Reserve, ReserveFails, MayReserve
    <2>4. ASSUME NEW t \in Tasks, Complete(t)
          PROVE  told' \subseteq Files \X Users /\ raced' = raced
      <3>1. memory.pending.id \in Files /\ memory.pending.owner \in Users
        BY <2>4, RegisteredFacts DEF Complete
      <3> QED BY <2>1, <2>4, <3>1 DEF Complete
    <2>5. ASSUME NEW t \in Tasks,
                 \/ \E user \in Users : Probe(t, user)
                 \/ ReserveRefused(t) \/ Prepare(t) \/ PrepareFails(t)
                 \/ Broker(t) \/ BrokerFails(t) \/ Bind(t)
                 \/ RecordCompletion(t) \/ RecordCompletionFails(t)
                 \/ Protect(t) \/ ProtectFails(t)
                 \/ CompleteRefused(t) \/ CompleteFails(t) \/ Refused(t)
                 \/ Cancel(t) \/ CancelFails(t) \/ Discard(t)
          PROVE  UNCHANGED <<told, raced>>
      BY <2>5 DEF Probe, ReserveRefused, Prepare, PrepareFails, Broker, BrokerFails,
           Bind, RecordCompletion, RecordCompletionFails, Protect, ProtectFails,
           CompleteRefused, CompleteFails, Refused, Cancel, CancelFails, Discard, history
    <2>6. ASSUME NEW t \in Tasks, Create(t)
          PROVE  told' \subseteq Files \X Users /\ raced' \subseteq Files
      BY <2>1, <2>2, <2>3, <2>4, <2>5, <2>6 DEF Create
    <2>7. ASSUME ~\E t \in Tasks : Create(t) PROVE UNCHANGED <<told, raced>>
      BY <2>7 DEF Next, SetConsent, Claim, Unclaim, DeleteOutside, MakeOutside, Restart,
           Tick, vars, history
    <2> QED BY <2>2, <2>6, <2>7
  <1> QED
    BY <1>2, <1>3, <1>4, <1>5, <1>6, <1>7, FileStep, StepTask, StepRegistry DEF TypeOK

-----------------------------------------------------------------------------
(* Files and the creations that hold them.                                 *)

LEMMA InitHold == Init => HoldInv
  BY IdleFacts DEF Init, HoldInv, HoldTask, At

\* Only its creation lets go of a file that is held.
LEMMA HeldStays ==
    ASSUME IInv, [Next]_vars, NEW u \in Tasks, task[u].held # None, ~Discard(u)
    PROVE  file' = file
  <1>1. /\ task[u].held \in Files /\ file = task[u].held /\ file \in Files
        /\ file # 0 /\ TypeOK
    <2>1. TypeOK /\ HoldInv
      BY DEF IInv
    <2>2. task[u] \in Task
      BY <2>1 DEF TypeOK
    <2>3. task[u].held \in Files
      BY <2>2 DEF Task
    <2>4. file = task[u].held
      BY <2>1 DEF HoldInv, HoldTask
    <2> QED BY <2>1, <2>3, <2>4, BoundsAssumption DEF Files
  <1>2. CASE \E who \in Users \cup {Outsider} : Make(who)
    BY <1>1, <1>2, MakeFacts
  <1>3. CASE DeleteOutside
    BY <1>1, <1>3 DEF DeleteOutside, Held
  <1>4. ASSUME NEW t \in Tasks, Discard(t) PROVE FALSE
    <2>1. task[t].held # None /\ task[t].held = file
      BY <1>4 DEF Discard, IInv, HoldInv, HoldTask
    <2>2. t = u
      BY <1>1, <2>1 DEF IInv, HoldInv
    <2> QED BY <1>4, <2>2
  <1>5. ASSUME ~DeleteOutside, ~\E t \in Tasks : Discard(t),
               ~\E who \in Users \cup {Outsider} : Make(who)
        PROVE  file' = file
    <2>1. ASSUME NEW t \in Tasks, Create(t), ~Discard(t) PROVE file' = file
      <3>1. CASE Prepare(t) \/ Broker(t) \/ BrokerFails(t)
        <4>1. task[t].user \in Users \cup {Outsider}
          BY <3>1, MakerUsers DEF Prepare, Broker, BrokerFails, At
        <4> QED BY <1>5, <3>1, <4>1 DEF Prepare, Broker, BrokerFails, files
      <3>2. CASE ~(Prepare(t) \/ Broker(t) \/ BrokerFails(t))
        BY <2>1, <3>2 DEF Create, Probe, Reserve, ReserveFails, ReserveRefused,
             PrepareFails, Bind, RecordCompletion, RecordCompletionFails, Protect,
             ProtectFails, Complete, CompleteRefused, CompleteFails, Refused, Cancel,
             CancelFails, files
      <3> QED BY <3>1, <3>2
    <2>2. ASSUME ~\E t \in Tasks : Create(t) PROVE file' = file
      BY <1>5, <2>2 DEF Next, SetConsent, Claim, Unclaim, MakeOutside, Restart, Tick,
           vars, files
    <2> QED BY <1>5, <2>1, <2>2
  <1> QED BY <1>2, <1>3, <1>4, <1>5

\* What a creation knows of the files does not change under it.
LEMMA HoldOther ==
    ASSUME IInv, [Next]_vars, NEW u \in Tasks, task'[u] = task[u]
    PROVE  HoldTask(u)'
  <1>0. ~Discard(u)
    <2>1. ASSUME Discard(u) PROVE task'[u] = Idle
      BY <2>1, IdleFacts, StayFacts DEF Discard, IInv
    <2> QED BY <2>1, IdleFacts DEF Discard, At
  <1>1. /\ HoldTask(u) /\ TypeOK /\ made \in Nat /\ made' \in Nat /\ made <= made'
        /\ \A f \in Files : f <= made => maker'[f] = maker[f]
    BY FileStep, BoundsAssumption DEF IInv, HoldInv, TypeOK
  <1>2. task[u] \in Task
    BY <1>1 DEF TypeOK
  <1>3. task[u].held # None => file' = file /\ maker'[file] = maker[file]
    <2>1. task[u].held # None => file \in Files /\ file <= made
      BY <1>1, <1>2 DEF HoldTask, Task, IInv, HoldInv
    <2> QED BY <1>0, <1>1, <2>1, HeldStays
  <1>4. At(u, "reserve") =>
            task[u].probe <= made' /\ (file' = 0 \/ file' > task[u].probe)
    <2> SUFFICES ASSUME At(u, "reserve")
                 PROVE  task[u].probe <= made' /\ (file' = 0 \/ file' > task[u].probe)
      OBVIOUS
    <2>1. /\ task[u].probe \in Nat /\ task[u].probe <= made
          /\ file = 0 \/ file > task[u].probe
      BY <1>1, <1>2, BoundsAssumption DEF HoldTask, Task
    <2>2. CASE \E who \in Users \cup {Outsider} : Make(who)
      BY <1>1, <2>1, <2>2, MakeFacts
    <2>3. CASE ~\E who \in Users \cup {Outsider} : Make(who)
      BY <1>1, <2>1, <2>3, FileCases
    <2> QED BY <2>2, <2>3
  <1>5. At(u, "record") => task[u].id <= made'
    BY <1>1, <1>2, BoundsAssumption DEF HoldTask, Files
  <1> QED BY <1>1, <1>3, <1>4, <1>5 DEF HoldTask, At

\* A creation goes on with the file it holds.
LEMMA HoldGoto ==
    ASSUME IInv, [Next]_vars, NEW t \in Tasks, ~Discard(t),
           task'[t].pc \in {"bind", "complete", "verify", "cancel", "discard"},
           task'[t].pc \in {"cancel", "discard"} \/
             task[t].pc \in {"broker", "bind", "record", "complete", "verify"},
           task[t].pc # "idle",
           task'[t].user = task[t].user, task'[t].held = task[t].held,
           task'[t].pc = "discard" => task[t].held # None
    PROVE  HoldTask(t)'
  <1>1. HoldTask(t) /\ (task[t].held # None => file' = file)
    BY HeldStays DEF IInv, HoldInv
  <1>2. task[t].held # None => maker'[file] = maker[file]
    <2>1. task[t].held # None => file \in Files /\ file <= made
      BY DEF IInv, TypeOK, Task, HoldInv, HoldTask
    <2> QED BY <2>1, FileStep
  <1> QED BY <1>1, <1>2 DEF HoldTask, At

LEMMA HoldIdle ==
    ASSUME NEW t \in Tasks, task'[t] = Idle PROVE HoldTask(t)'
  BY IdleFacts DEF HoldTask, At

\* A destination is made where there was no file, so nobody else holds one.
LEMMA PrepareHold ==
    ASSUME IInv, [Next]_vars, NEW t \in Tasks, Prepare(t) PROVE HoldInv'
  <1> DEFINE self == [task[t] EXCEPT !.pc = "broker", !.held = made']
  <1>1. /\ task[t] \in Task /\ task[t].user \in Users \cup {Outsider}
        /\ task[t].user \in Users /\ TypeOK
    BY DEF Prepare, At, IInv, TypeOK, HoldInv, HoldTask
  <1>2. /\ file = 0 /\ file' = made' /\ made' \in Files /\ maker'[made'] = task[t].user
    BY <1>1, MakeFacts DEF Prepare
  <1>3. /\ self \in Task /\ self.pc = "broker" /\ self.held = made'
        /\ self.user = task[t].user
    BY <1>1, <1>2 DEF Task
  <1>4. Stay(t, self)
    BY DEF Prepare
  <1> HIDE DEF self
  <1>5. task'[t] = self /\ (\A u \in Tasks : u # t => task'[u] = task[u])
    BY <1>1, <1>3, <1>4, StayFacts
  <1>6. \A u \in Tasks : u # t => task'[u].held = None
    <2>1. \A u \in Tasks : task[u].held \in Files \cup {None}
      BY DEF IInv, TypeOK, Task
    <2>2. 0 \notin Files
      BY BoundsAssumption DEF Files
    <2> QED BY <1>2, <1>5, <2>1, <2>2 DEF IInv, HoldInv, HoldTask
  <1>7. made' # None
    BY <1>2, NoneAssumption
  <1>8. HoldTask(t)'
    BY <1>1, <1>2, <1>3, <1>5, <1>7 DEF HoldTask, At
  <1>9. ASSUME NEW u \in Tasks, u # t PROVE HoldTask(u)'
    BY <1>5, <1>9, HoldOther
  <1> QED BY <1>3, <1>5, <1>6, <1>7, <1>8, <1>9, FileStep DEF HoldInv

\* No other step makes a creation hold a file.
LEMMA HoldFrame ==
    ASSUME IInv, [Next]_vars, NEW t \in Tasks,
           \A u \in Tasks : u # t => task'[u] = task[u],
           task'[t].held \in {task[t].held, None}, HoldTask(t)'
    PROVE  HoldInv'
  <1>1. \A u \in Tasks : HoldTask(u)'
    BY HoldOther
  <1>2. \A u \in Tasks : task'[u].held \in {task[u].held, None}
    OBVIOUS
  <1> QED BY <1>1, <1>2, FileStep DEF IInv, HoldInv

\* Every step keeps what the creations know of the files.
LEMMA StepHold == IInv /\ [Next]_vars => HoldInv'
  <1> SUFFICES ASSUME IInv, [Next]_vars PROVE HoldInv'
    OBVIOUS
  <1>1. TypeOK /\ HoldInv /\ \A t \in Tasks : task[t] \in Task
    BY DEF IInv, TypeOK
  <1>2. ASSUME NEW t \in Tasks, Stay(t, Idle) PROVE HoldInv'
    <2>1. task'[t] = Idle /\ \A u \in Tasks : u # t => task'[u] = task[u]
      BY <1>1, <1>2, IdleFacts, StayFacts
    <2> QED BY <2>1, HoldFrame, HoldIdle, IdleFacts
  <1>3. ASSUME NEW t \in Tasks, NEW user \in Users, Probe(t, user) PROVE HoldInv'
    <2> DEFINE self == [Idle EXCEPT !.pc = "reserve", !.user = user, !.time = clock,
                                    !.probe = made]
    <2>1. /\ self \in Task /\ self.pc = "reserve" /\ self.user = user
          /\ self.probe = made /\ self.held = None
      BY <1>1, IdleFacts DEF Task, TypeOK
    <2>2. Stay(t, self)
      BY <1>3 DEF Probe
    <2> HIDE DEF self
    <2>3. task'[t] = self /\ \A u \in Tasks : u # t => task'[u] = task[u]
      BY <1>1, <2>1, <2>2, StayFacts
    <2>4. made' = made /\ file' = file /\ file = 0 /\ made \in Nat
      BY <1>1, <1>3, BoundsAssumption DEF Probe, files, TypeOK
    <2>5. HoldTask(t)'
      BY <2>1, <2>3, <2>4 DEF HoldTask, At
    <2> QED BY <2>1, <2>3, <2>5, HoldFrame
  <1>4. ASSUME NEW t \in Tasks, Reserve(t) PROVE HoldInv'
    <2> DEFINE pc == IF task[t].user \in Admins THEN "broker" ELSE "prepare"
               self == [Idle EXCEPT !.user = task[t].user, !.serial = serials',
                                    !.pc = pc]
    <2>1. serials' \in 0 .. MaxSerial /\ pc \in {"broker", "prepare"}
      BY <1>4, ReservationFacts DEF Reserve
    <2>2. task[t].user \in Users /\ (task[t].user \in Admins \/ pc = "prepare")
      BY <1>4 DEF Reserve, MayReserve, At, IInv, HoldInv, HoldTask
    <2>3. Stay(t, self)
      BY <1>4 DEF Reserve
    <2> HIDE DEF pc
    <2>4. /\ self \in Task /\ self.pc = pc /\ self.user = task[t].user
          /\ self.held = None
      BY <1>1, <2>1, IdleFacts DEF Task
    <2> HIDE DEF self
    <2>5. task'[t] = self /\ \A u \in Tasks : u # t => task'[u] = task[u]
      BY <1>1, <2>3, <2>4, StayFacts
    <2>6. HoldTask(t)'
      BY <2>1, <2>2, <2>4, <2>5 DEF HoldTask, At
    <2> QED BY <2>4, <2>5, <2>6, HoldFrame
  <1>5. ASSUME NEW t \in Tasks, Bind(t) PROVE HoldInv'
    <2> DEFINE self == [task[t] EXCEPT !.pc = "record", !.time = clock, !.id = file]
    <2>1. /\ At(t, "bind") /\ file \in Files /\ file <= made /\ HoldTask(t)
          /\ Stay(t, self) /\ UNCHANGED <<file, made, maker>>
      BY <1>1, <1>5, BoundsAssumption DEF Bind, TypeOK, Files, HoldInv, files
    <2>2. /\ self \in Task /\ self.pc = "record" /\ self.user = task[t].user
          /\ self.held = task[t].held /\ self.id = file
      BY <1>1, <2>1 DEF Task, TypeOK
    <2> HIDE DEF self
    <2>3. task'[t] = self /\ \A u \in Tasks : u # t => task'[u] = task[u]
      BY <1>1, <2>1, <2>2, StayFacts
    <2>4. HoldTask(t)'
      BY <2>1, <2>2, <2>3 DEF HoldTask, At
    <2> QED BY <2>2, <2>3, <2>4, HoldFrame
  <1>6. ASSUME NEW t \in Tasks, RecordCompletion(t) \/ Protect(t) PROVE HoldInv'
    <2>1. PICK self \in Task :
            /\ Stay(t, self) /\ self.pc \in {"complete", "verify"}
            /\ self.user = task[t].user /\ self.held = task[t].held
      <3>1. CASE RecordCompletion(t)
        <4> DEFINE self == [task[t] EXCEPT !.pc = "complete", !.time = clock]
        <4>1. self \in Task /\ self.pc = "complete" /\ self.user = task[t].user
              /\ self.held = task[t].held
          BY <1>1 DEF Task, TypeOK
        <4>2. Stay(t, self)
          BY <3>1 DEF RecordCompletion
        <4> HIDE DEF self
        <4> QED BY <4>1, <4>2
      <3>2. CASE Protect(t)
        <4> DEFINE self == [task[t] EXCEPT !.pc = "verify", !.saved = acl]
        <4>1. self \in Task /\ self.pc = "verify" /\ self.user = task[t].user
              /\ self.held = task[t].held
          BY <1>1 DEF Task, TypeOK
        <4>2. Stay(t, self)
          BY <3>2 DEF Protect
        <4> HIDE DEF self
        <4> QED BY <4>1, <4>2
      <3> QED BY <1>6, <3>1, <3>2
    <2>2. task'[t] = self /\ \A u \in Tasks : u # t => task'[u] = task[u]
      BY <1>1, <2>1, StayFacts
    <2>3. task[t].pc \in {"record", "complete"}
      BY <1>6 DEF RecordCompletion, MayRecord, Protect, MayComplete, At
    <2>4. HoldTask(t)'
      BY <2>1, <2>2, <2>3, HoldGoto DEF Discard, At
    <2> QED BY <2>1, <2>2, <2>4, HoldFrame
  <1>7. ASSUME NEW t \in Tasks, Cancel(t) \/ CancelFails(t) PROVE HoldInv'
    <2>1. At(t, "cancel") /\ Stay(t, Ended(task[t]))
      BY <1>7 DEF Cancel, CancelFails
    <2>2. task'[t] = Ended(task[t]) /\ \A u \in Tasks : u # t => task'[u] = task[u]
      BY <1>1, <2>1, EndedFacts, StayFacts
    <2>3. CASE task[t].held = None
      <3>1. Stay(t, Idle)
        BY <2>1, <2>3 DEF Ended
      <3> QED BY <1>2, <3>1
    <2>4. CASE task[t].held # None
      <3>1. /\ task'[t].pc = "discard" /\ task'[t].user = task[t].user
            /\ task'[t].held = task[t].held
        BY <1>1, <2>2, <2>4, EndedFacts
      <3>2. HoldTask(t)'
        BY <2>1, <2>4, <3>1, HoldGoto DEF Discard, At
      <3> QED BY <2>2, <3>1, <3>2, HoldFrame
    <2> QED BY <2>3, <2>4
  <1>8. ASSUME NEW t \in Tasks,
               \/ PrepareFails(t) \/ Broker(t) \/ BrokerFails(t)
               \/ RecordCompletionFails(t) \/ ProtectFails(t) \/ CompleteRefused(t)
               \/ CompleteFails(t) \/ Refused(t)
        PROVE  HoldInv'
    <2>1. /\ Goto(t, "bind") \/ Goto(t, "cancel")
          /\ task[t].pc \in {"prepare", "broker", "bind", "record", "complete", "verify"}
          /\ Goto(t, "bind") => task[t].pc = "broker" \/ Goto(t, "cancel")
      BY <1>8 DEF PrepareFails, Broker, BrokerFails, RecordCompletionFails, MayRecord,
           ProtectFails, MayComplete, CompleteRefused, CompleteFails, Refused, At
    <2>2. /\ \/ task'[t].pc = "cancel"
             \/ task'[t].pc = "bind" /\ task[t].pc = "broker"
          /\ task'[t].user = task[t].user /\ task'[t].held = task[t].held
          /\ \A u \in Tasks : u # t => task'[u] = task[u]
      <3>1. CASE Goto(t, "cancel")
        BY <1>1, <3>1, GotoFacts DEF Pcs
      <3>2. CASE Goto(t, "bind") /\ ~Goto(t, "cancel")
        BY <1>1, <2>1, <3>2, GotoFacts DEF Pcs
      <3> QED BY <2>1, <3>1, <3>2
    <2>3. HoldTask(t)'
      BY <2>1, <2>2, HoldGoto DEF Discard, At
    <2> QED BY <2>2, <2>3, HoldFrame
  <1>9. ASSUME NEW t \in Tasks,
               ReserveFails(t) \/ ReserveRefused(t) \/ Complete(t) \/ Discard(t)
        PROVE  Stay(t, Idle)
    BY <1>9 DEF ReserveFails, ReserveRefused, Complete, Discard
  <1>10. ASSUME NEW t \in Tasks, Create(t) PROVE HoldInv'
    BY <1>2, <1>3, <1>4, <1>5, <1>6, <1>7, <1>8, <1>9, <1>10, PrepareHold DEF Create
  <1>11. ASSUME NEW read \in BOOLEAN, Restart(read) PROVE HoldInv'
    <2>1. \A t \in Tasks : task'[t] = Idle
      BY <1>11 DEF Restart
    <2> QED BY <2>1, HoldIdle, IdleFacts, FileStep DEF HoldInv
  <1>12. CASE task' = task
    BY <1>1, <1>12, HoldOther, FileStep DEF HoldInv
  <1>13. CASE \/ \E id \in Files, user \in Users, opted \in BOOLEAN :
                   SetConsent(id, user, opted)
              \/ Claim \/ Unclaim \/ DeleteOutside \/ MakeOutside \/ Tick
              \/ UNCHANGED vars
    BY <1>12, <1>13 DEF SetConsent, Claim, Unclaim, DeleteOutside, MakeOutside, Tick, vars
  <1> QED BY <1>10, <1>11, <1>13 DEF Next

-----------------------------------------------------------------------------
(* Reservations.                                                           *)

LEMMA InitLock == Init => LockInv
  BY IdleFacts DEF Init, Empty, LockInv, LockTask, Matches, At

\* What a step may do to the reservation in memory.
LEMMA PendingStep ==
    ASSUME IInv, [Next]_vars
    PROVE  \/ memory'.pending = None
           \/ memory'.pending = memory.pending
           \/ /\ memory.pending # None
              /\ memory'.pending.serial = memory.pending.serial
              /\ memory'.pending.owner = memory.pending.owner
           \/ \E t \in Tasks :
                /\ Reserve(t)
                /\ memory'.pending.serial = serials + 1
                /\ memory'.pending.owner = task[t].user
           \/ \E read \in BOOLEAN : Restart(read)
  <1> DEFINE Same == memory'.pending = memory.pending
  <1>1. memory \in Registry
    BY DEF IInv, TypeOK
  <1>2. ASSUME NEW t \in Tasks, Reserve(t)
        PROVE  memory'.pending.serial = serials + 1 /\ memory'.pending.owner = task[t].user
    BY <1>2, ReservationFacts DEF Reserve, Save
  <1>3. ASSUME NEW t \in Tasks, ReserveFails(t) PROVE memory'.pending = None
    BY <1>1, <1>3, DropFacts DEF ReserveFails, SaveFails
  <1>4. ASSUME NEW t \in Tasks, RecordCompletion(t)
        PROVE  /\ memory.pending # None
               /\ memory'.pending.serial = memory.pending.serial
               /\ memory'.pending.owner = memory.pending.owner
    BY <1>4, BoundFacts DEF RecordCompletion, MayRecord, Current, Matches, Save
  <1>5. ASSUME NEW t \in Tasks, Complete(t) PROVE memory'.pending = None
    BY <1>5, RegisteredFacts DEF Complete, Save
  <1>6. ASSUME NEW t \in Tasks, Cancel(t)
        PROVE  memory'.pending = None \/ memory' = memory
    BY <1>1, <1>6, DropFacts DEF Cancel, Save, registry
  <1>7. ASSUME NEW id \in Files, NEW user \in Users, NEW opted \in BOOLEAN,
               SetConsent(id, user, opted)
        PROVE  Same
    BY <1>1, <1>7, ConsentFacts DEF SetConsent, Save, SaveFails
  <1>8. ASSUME NEW t \in Tasks,
               \/ \E user \in Users : Probe(t, user)
               \/ ReserveRefused(t) \/ Prepare(t) \/ PrepareFails(t)
               \/ Broker(t) \/ BrokerFails(t) \/ Bind(t) \/ RecordCompletionFails(t)
               \/ Protect(t) \/ ProtectFails(t) \/ CompleteRefused(t)
               \/ CompleteFails(t) \/ Refused(t) \/ CancelFails(t) \/ Discard(t)
        PROVE  memory' = memory
    BY <1>8 DEF Probe, ReserveRefused, Prepare, PrepareFails, Broker, BrokerFails, Bind,
         RecordCompletionFails, Protect, ProtectFails, CompleteRefused, CompleteFails,
         Refused, CancelFails, Discard, SaveFails, registry
  <1>9. CASE Claim \/ Unclaim \/ DeleteOutside \/ MakeOutside \/ Tick \/ UNCHANGED vars
    BY <1>9 DEF Claim, Unclaim, DeleteOutside, MakeOutside, Tick, vars, registry
  <1>10. ASSUME NEW t \in Tasks, Create(t)
         PROVE  \/ Reserve(t) \/ memory'.pending = None \/ Same
                \/ /\ memory.pending # None
                   /\ memory'.pending.serial = memory.pending.serial
                   /\ memory'.pending.owner = memory.pending.owner
    BY <1>3, <1>4, <1>5, <1>6, <1>8, <1>10 DEF Create
  <1> QED BY <1>2, <1>7, <1>9, <1>10 DEF Next

\* A nonce stays with its creation.
LEMMA LockMatches ==
    ASSUME IInv, [Next]_vars, NEW u \in Tasks, ~Reserve(u),
           \/ task'[u].serial = 0
           \/ task'[u].serial = task[u].serial /\ task'[u].user = task[u].user
    PROVE  /\ task'[u].serial <= serials'
           /\ Matches(u)' => memory'.pending.owner = task'[u].user
  <1>1. /\ serials \in Nat /\ serials' \in Nat /\ serials <= serials'
        /\ task[u].serial \in Nat /\ task[u].serial <= serials
        /\ memory' \in Registry
    BY StepRegistry, BoundsAssumption DEF IInv, TypeOK, Task, LockInv, LockTask
  <1>2. Matches(u)' => task'[u].serial # 0
    BY <1>1, RegistryType DEF Matches
  <1>3. CASE \E read \in BOOLEAN : Restart(read)
    <2>1. task'[u] = Idle
      BY <1>3 DEF Restart
    <2> QED BY <1>1, <1>2, <2>1, IdleFacts
  <1>4. CASE \E t \in Tasks :
                /\ Reserve(t)
                /\ memory'.pending.serial = serials + 1
                /\ memory'.pending.owner = task[t].user
    BY <1>1, <1>2, <1>4 DEF Matches
  <1>5. CASE \/ memory'.pending = None
             \/ memory'.pending = memory.pending
             \/ /\ memory.pending # None
                /\ memory'.pending.serial = memory.pending.serial
                /\ memory'.pending.owner = memory.pending.owner
    BY <1>1, <1>2, <1>5 DEF Matches, IInv, LockInv, LockTask
  <1> QED BY <1>3, <1>4, <1>5, PendingStep

\* While a creation holds the lock, only it changes the reservation.
LEMMA LockHeld ==
    ASSUME IInv, [Next]_vars, NEW u \in Tasks, At(u, "verify"), task'[u] = task[u]
    PROVE  UNCHANGED <<memory, holder>>
  <1>1. holder = u /\ ~Unlocked /\ TypeOK
    BY NoneAssumption DEF IInv, LockInv, LockTask, Unlocked
  <1>2. ASSUME NEW t \in Tasks, At(t, "verify") PROVE t = u
    BY <1>1, <1>2 DEF IInv, LockInv, LockTask
  <1>3. ASSUME NEW t \in Tasks, Complete(t) \/ CompleteRefused(t) \/ CompleteFails(t)
        PROVE  FALSE
    <2>1. t = u
      BY <1>2, <1>3 DEF Complete, CompleteRefused, CompleteFails
    <2>2. task'[u].pc \in {"idle", "cancel"}
      BY <1>1, <1>3, <2>1, IdleFacts, StayFacts, GotoFacts
         DEF Complete, CompleteRefused, CompleteFails, Pcs
    <2> QED BY <2>2 DEF At
  <1>4. ASSUME NEW t \in Tasks, Create(t) PROVE UNCHANGED <<memory, holder>>
    BY <1>1, <1>3, <1>4 DEF Create, Probe, Reserve, ReserveFails, ReserveRefused,
         MayReserve, Prepare, PrepareFails, Broker, BrokerFails, Bind, RecordCompletion,
         RecordCompletionFails, MayRecord, Protect, ProtectFails, MayComplete, Refused,
         Cancel, CancelFails, Discard, registry
  <1>5. ASSUME NEW read \in BOOLEAN, Restart(read) PROVE FALSE
    <2>1. task'[u] = Idle
      BY <1>5 DEF Restart
    <2> QED BY <2>1, IdleFacts DEF At
  <1>6. CASE \/ \E id \in Files, user \in Users, opted \in BOOLEAN :
                  SetConsent(id, user, opted)
             \/ Claim \/ Unclaim \/ DeleteOutside \/ MakeOutside \/ Tick
             \/ UNCHANGED vars
    BY <1>1, <1>6 DEF SetConsent, Claim, Unclaim, DeleteOutside, MakeOutside, Tick,
         vars, registry
  <1> QED BY <1>4, <1>5, <1>6 DEF Next

LEMMA LockOther ==
    ASSUME IInv, [Next]_vars, NEW u \in Tasks, task'[u] = task[u]
    PROVE  LockTask(u)'
  <1>1. ~Reserve(u)
    <2>1. ASSUME Reserve(u) PROVE task'[u].pc \in {"broker", "prepare"}
      BY <2>1, IdleFacts DEF Reserve, Stay, IInv, TypeOK, Task
    <2> QED BY <2>1 DEF Reserve, MayReserve, At
  <1>2. /\ task'[u].serial <= serials'
        /\ Matches(u)' => memory'.pending.owner = task'[u].user
    BY <1>1, LockMatches
  <1>3. At(u, "verify") => UNCHANGED <<memory, holder>>
    BY LockHeld
  <1> QED BY <1>2, <1>3 DEF IInv, LockInv, LockTask, At, Matches

\* Every step keeps what the creations know of their reservations.
LEMMA StepLock == IInv /\ [Next]_vars => LockInv'
  <1> SUFFICES ASSUME IInv, [Next]_vars PROVE LockInv'
    OBVIOUS
  <1>1. TypeOK /\ \A t \in Tasks : task[t] \in Task
    BY DEF IInv, TypeOK
  <1>2. ASSUME NEW t \in Tasks, ~Reserve(t), task'[t].pc # "verify",
               \A u \in Tasks : u # t => task'[u] = task[u],
               \/ task'[t].serial = 0
               \/ task'[t].serial = task[t].serial /\ task'[t].user = task[t].user
        PROVE  LockInv'
    <2>1. LockTask(t)'
      BY <1>2, LockMatches DEF LockTask, At
    <2> QED BY <1>2, <2>1, LockOther DEF LockInv
  <1>3. ASSUME NEW t \in Tasks, Reserve(t) PROVE LockInv'
    <2> DEFINE pc == IF task[t].user \in Admins THEN "broker" ELSE "prepare"
               self == [Idle EXCEPT !.user = task[t].user, !.serial = serials',
                                    !.pc = pc]
    <2>1. /\ serials' \in 0 .. MaxSerial /\ pc \in {"broker", "prepare"}
          /\ memory'.pending.owner = task[t].user
      BY <1>3, ReservationFacts DEF Reserve, Save
    <2>2. Stay(t, self)
      BY <1>3 DEF Reserve
    <2> HIDE DEF pc
    <2>3. /\ self \in Task /\ self.pc = pc /\ self.user = task[t].user
          /\ self.serial = serials'
      BY <1>1, <2>1, IdleFacts DEF Task
    <2> HIDE DEF self
    <2>4. task'[t] = self /\ \A u \in Tasks : u # t => task'[u] = task[u]
      BY <1>1, <2>2, <2>3, StayFacts
    <2>5. LockTask(t)'
      BY <2>1, <2>3, <2>4, BoundsAssumption DEF LockTask, At
    <2> QED BY <2>4, <2>5, LockOther DEF LockInv
  <1>4. ASSUME NEW t \in Tasks, Protect(t) PROVE LockInv'
    <2> DEFINE self == [task[t] EXCEPT !.pc = "verify", !.saved = acl]
    <2>1. Stay(t, self) /\ ~Reserve(t)
      BY <1>4 DEF Protect, MayComplete, Reserve, MayReserve, At
    <2>2. /\ self \in Task /\ self.serial = task[t].serial /\ self.user = task[t].user
      BY <1>1 DEF Task, TypeOK
    <2> HIDE DEF self
    <2>3. task'[t] = self /\ \A u \in Tasks : u # t => task'[u] = task[u]
      BY <1>1, <2>1, <2>2, StayFacts
    <2>4. /\ holder' = t /\ memory' = memory /\ Matches(t) /\ memory.pending.id # None
      BY <1>4 DEF Protect, MayComplete, Current, registry
    <2>5. LockTask(t)'
      BY <2>1, <2>2, <2>3, <2>4, LockMatches DEF LockTask, Matches
    <2> QED BY <2>3, <2>5, LockOther DEF LockInv
  <1>5. ASSUME NEW t \in Tasks,
               \/ \E user \in Users : Probe(t, user)
               \/ Prepare(t) \/ Bind(t) \/ RecordCompletion(t)
        PROVE  LockInv'
    <2>1. PICK self \in Task :
            /\ Stay(t, self) /\ self.pc # "verify" /\ ~Reserve(t)
            /\ \/ self.serial = 0
               \/ self.serial = task[t].serial /\ self.user = task[t].user
      <3>1. ASSUME NEW user \in Users, Probe(t, user)
            PROVE  \E self \in Task :
                      Stay(t, self) /\ self.pc # "verify" /\ ~Reserve(t)
                      /\ self.serial = 0
        <4> DEFINE self == [Idle EXCEPT !.pc = "reserve", !.user = user,
                              !.time = clock, !.probe = made]
        <4>1. self \in Task /\ self.pc = "reserve" /\ self.serial = 0
          BY <1>1, IdleFacts DEF Task, TypeOK
        <4>2. Stay(t, self) /\ ~Reserve(t)
          BY <3>1 DEF Probe, Reserve, MayReserve, At
        <4> HIDE DEF self
        <4> QED BY <4>1, <4>2
      <3>2. ASSUME Prepare(t)
            PROVE  \E self \in Task :
                      Stay(t, self) /\ self.pc # "verify" /\ ~Reserve(t)
                      /\ self.serial = task[t].serial /\ self.user = task[t].user
        <4> DEFINE self == [task[t] EXCEPT !.pc = "broker", !.held = made']
        <4>1. task[t].user \in Users \cup {Outsider}
          BY <3>2, MakerUsers DEF Prepare, At
        <4>2. made' \in Files
          BY <1>1, <3>2, <4>1, MakeFacts DEF Prepare
        <4>3. /\ self \in Task /\ self.pc = "broker" /\ self.serial = task[t].serial
              /\ self.user = task[t].user
          BY <1>1, <4>2 DEF Task
        <4>4. Stay(t, self) /\ ~Reserve(t)
          BY <3>2 DEF Prepare, Reserve, MayReserve, At
        <4> HIDE DEF self
        <4> QED BY <4>3, <4>4
      <3>3. ASSUME Bind(t)
            PROVE  \E self \in Task :
                      Stay(t, self) /\ self.pc # "verify" /\ ~Reserve(t)
                      /\ self.serial = task[t].serial /\ self.user = task[t].user
        <4> DEFINE self == [task[t] EXCEPT !.pc = "record", !.time = clock, !.id = file]
        <4>1. file \in Files
          BY <1>1, <3>3, BoundsAssumption DEF Bind, TypeOK, Files
        <4>2. /\ self \in Task /\ self.pc = "record" /\ self.serial = task[t].serial
              /\ self.user = task[t].user
          BY <1>1, <4>1 DEF Task, TypeOK
        <4>3. Stay(t, self) /\ ~Reserve(t)
          BY <3>3 DEF Bind, Reserve, MayReserve, At
        <4> HIDE DEF self
        <4> QED BY <4>2, <4>3
      <3>4. ASSUME RecordCompletion(t)
            PROVE  \E self \in Task :
                      Stay(t, self) /\ self.pc # "verify" /\ ~Reserve(t)
                      /\ self.serial = task[t].serial /\ self.user = task[t].user
        <4> DEFINE self == [task[t] EXCEPT !.pc = "complete", !.time = clock]
        <4>1. /\ self \in Task /\ self.pc = "complete" /\ self.serial = task[t].serial
              /\ self.user = task[t].user
          BY <1>1 DEF Task, TypeOK
        <4>2. Stay(t, self) /\ ~Reserve(t)
          BY <3>4 DEF RecordCompletion, MayRecord, Reserve, MayReserve, At
        <4> HIDE DEF self
        <4> QED BY <4>1, <4>2
      <3> QED BY <1>5, <3>1, <3>2, <3>3, <3>4
    <2>2. task'[t] = self /\ \A u \in Tasks : u # t => task'[u] = task[u]
      BY <1>1, <2>1, StayFacts
    <2> QED BY <1>2, <2>1, <2>2
  <1>6. ASSUME NEW t \in Tasks, Cancel(t) \/ CancelFails(t) PROVE LockInv'
    <2>1. Stay(t, Ended(task[t])) /\ ~Reserve(t)
      BY <1>6 DEF Cancel, CancelFails, Reserve, MayReserve, At
    <2>2. task'[t] = Ended(task[t]) /\ \A u \in Tasks : u # t => task'[u] = task[u]
      BY <1>1, <2>1, EndedFacts, StayFacts
    <2>3. /\ task'[t].pc # "verify"
          /\ \/ task'[t].serial = 0
             \/ task'[t].serial = task[t].serial /\ task'[t].user = task[t].user
      BY <1>1, <2>2, EndedFacts
    <2> QED BY <1>2, <2>1, <2>2, <2>3
  <1>7. ASSUME NEW t \in Tasks,
               ReserveFails(t) \/ ReserveRefused(t) \/ Complete(t) \/ Discard(t)
        PROVE  LockInv'
    <2>1. Stay(t, Idle)
      BY <1>7 DEF ReserveFails, ReserveRefused, Complete, Discard
    <2>2. task'[t] = Idle /\ \A u \in Tasks : u # t => task'[u] = task[u]
      BY <1>1, <2>1, IdleFacts, StayFacts
    <2>3. ~Reserve(t)
      <3>1. Reserve(t) => task'[t].pc \in {"broker", "prepare"}
        BY <1>1, IdleFacts DEF Reserve, Stay, TypeOK, Task
      <3> QED BY <2>2, <3>1, IdleFacts
    <2> QED BY <1>2, <2>2, <2>3, IdleFacts
  <1>8. ASSUME NEW t \in Tasks,
               \/ PrepareFails(t) \/ Broker(t) \/ BrokerFails(t)
               \/ RecordCompletionFails(t) \/ ProtectFails(t) \/ CompleteRefused(t)
               \/ CompleteFails(t) \/ Refused(t)
        PROVE  LockInv'
    <2>1. /\ Goto(t, "bind") \/ Goto(t, "cancel")
          /\ ~At(t, "reserve")
      BY <1>8 DEF PrepareFails, Broker, BrokerFails, RecordCompletionFails, MayRecord,
           ProtectFails, MayComplete, CompleteRefused, CompleteFails, Refused, At
    <2>2. /\ task'[t].pc \in {"bind", "cancel"}
          /\ task'[t].serial = task[t].serial /\ task'[t].user = task[t].user
          /\ \A u \in Tasks : u # t => task'[u] = task[u]
      BY <1>1, <2>1, GotoFacts DEF Pcs
    <2> QED BY <1>2, <2>1, <2>2 DEF Reserve, MayReserve
  <1>9. ASSUME NEW t \in Tasks, Create(t) PROVE LockInv'
    BY <1>3, <1>4, <1>5, <1>6, <1>7, <1>8, <1>9 DEF Create
  <1>10. ASSUME NEW read \in BOOLEAN, Restart(read) PROVE LockInv'
    <2>1. ASSUME NEW u \in Tasks PROVE LockTask(u)'
      <3>1. task'[u] = Idle
        BY <1>10 DEF Restart
      <3>2. ~Reserve(u)
        <4>1. Reserve(u) => task'[u].pc \in {"broker", "prepare"}
          BY <1>1, IdleFacts DEF Reserve, Stay, TypeOK, Task
        <4> QED BY <3>1, <4>1, IdleFacts
      <3> QED BY <3>1, <3>2, IdleFacts, LockMatches DEF LockTask, At
    <2> QED BY <2>1 DEF LockInv
  <1>11. CASE task' = task
    BY <1>1, <1>11, LockOther DEF LockInv
  <1>12. CASE \/ \E id \in Files, user \in Users, opted \in BOOLEAN :
                   SetConsent(id, user, opted)
              \/ Claim \/ Unclaim \/ DeleteOutside \/ MakeOutside \/ Tick
              \/ UNCHANGED vars
    BY <1>11, <1>12 DEF SetConsent, Claim, Unclaim, DeleteOutside, MakeOutside, Tick, vars
  <1> QED BY <1>9, <1>10, <1>12 DEF Next

-----------------------------------------------------------------------------
(* What the callers were told.                                             *)

LEMMA InitKept == Init => KeptInv
  BY DEF Init, KeptInv, CreatedIsKept

\* A record that somebody was told of, of the file now at the name, and the DACL
\* of that file.
KeptAs(id, user) ==
    /\ OwnedBy(memory, id, user) /\ OwnedBy(disk, id, user)
    /\ id \notin governed => acl = user

\* While the name has a record and its file, nothing but the policy and consent
\* touches them; a creation that would has not seen the file.
LEMMA KeptStays ==
    ASSUME IInv, [Next]_vars, ~Unreadable, NEW id \in Files, NEW user \in Users,
           id \notin raced', KeptAs(id, user), file = id, file' = id
    PROVE  KeptAs(id, user)'
  <1>1. /\ memory \in Registry /\ disk \in Registry
        /\ memory.record # None /\ memory.record.id = id
        /\ memory.pending = None /\ disk.record # None
    BY DEF KeptAs, OwnedBy, IInv, TypeOK, RegInv, Sound
  <1>2. \A t \in Tasks : ~At(t, "verify") /\ ~MayRecord(t) /\ ~MayComplete(t)
    BY <1>1 DEF IInv, LockInv, LockTask, Matches, MayRecord, MayComplete, Current
  <1>3. \A t \in Tasks : ~MayReserve(t)
    <2>1. SUFFICES ASSUME NEW t \in Tasks, MayReserve(t) PROVE FALSE
      OBVIOUS
    <2>2. task[t].probe \in Nat /\ (file = 0 \/ file > task[t].probe)
      BY <2>1, BoundsAssumption DEF MayReserve, At, IInv, TypeOK, Task, HoldInv, HoldTask
    <2>3. id > task[t].probe
      BY <2>2, BoundsAssumption DEF Files
    <2> QED BY <1>1, <2>1, <2>3 DEF MayReserve
  <1>4. id # 0
    BY BoundsAssumption DEF Files
  <1>5. CASE UNCHANGED <<memory, disk, acl, governed>>
    BY <1>5 DEF KeptAs, OwnedBy
  <1>6. ASSUME NEW t \in Tasks, Create(t) PROVE KeptAs(id, user)'
    BY <1>1, <1>2, <1>3, <1>4, <1>5, <1>6 DEF Create, Probe, Reserve, ReserveFails,
         ReserveRefused, Prepare, PrepareFails, Broker, BrokerFails, Make, Bind,
         RecordCompletion, RecordCompletionFails, Protect, ProtectFails, Complete,
         CompleteRefused, CompleteFails, Refused, Cancel, CancelFails, Matches, Discard,
         files, registry, history
  <1>7. ASSUME NEW id2 \in Files, NEW user2 \in Users, NEW opted \in BOOLEAN,
               SetConsent(id2, user2, opted)
        PROVE  KeptAs(id, user)'
    <2> DEFINE new == [memory EXCEPT !.record.consent = opted]
    <2>1. OwnedBy(new, id, user)
      BY <1>1, ConsentFacts DEF KeptAs, OwnedBy
    <2>2. memory' \in {memory, new} /\ disk' \in {disk, new}
      BY <1>7 DEF SetConsent, Save, SaveFails
    <2>3. UNCHANGED <<acl, governed>>
      BY <1>7 DEF SetConsent, files, history
    <2> HIDE DEF new
    <2> QED BY <2>1, <2>2, <2>3 DEF KeptAs, OwnedBy
  <1>8. ASSUME NEW read \in BOOLEAN, Restart(read) PROVE KeptAs(id, user)'
    <2>1. memory' = Loaded /\ UNCHANGED <<disk, acl, governed>>
      BY <1>8 DEF Restart, files, history
    <2> QED BY <2>1, LoadedFacts DEF KeptAs, OwnedBy
  <1>9. CASE Claim
    BY <1>9 DEF Claim, KeptAs, OwnedBy, registry
  <1>10. CASE Unclaim
    <2>1. id \in governed
      BY <1>4, <1>10 DEF Unclaim, IInv, KeptInv
    <2> QED BY <1>10, <2>1 DEF Unclaim, KeptAs, OwnedBy, registry, history
  <1>11. CASE DeleteOutside \/ MakeOutside \/ Tick \/ UNCHANGED vars
    BY <1>4, <1>5, <1>11 DEF DeleteOutside, MakeOutside, Make, Tick, vars, files,
                             registry, history
  <1> QED BY <1>6, <1>7, <1>8, <1>9, <1>10, <1>11 DEF Next

\* Who is told, and of what.
LEMMA ToldStep ==
    ASSUME IInv, [Next]_vars
    PROVE  \/ told' = told
           \/ \E t \in Tasks : Complete(t)
  <1>1. ASSUME NEW t \in Tasks, Create(t), ~Complete(t) PROVE told' = told
    BY <1>1 DEF Create, Probe, Reserve, ReserveFails, ReserveRefused, Prepare,
         PrepareFails, Broker, BrokerFails, Bind, RecordCompletion,
         RecordCompletionFails, Protect, ProtectFails, CompleteRefused, CompleteFails,
         Refused, Cancel, CancelFails, Discard, history
  <1>2. ASSUME ~\E t \in Tasks : Create(t) PROVE told' = told
    BY <1>2 DEF Next, SetConsent, Claim, Unclaim, DeleteOutside, MakeOutside, Restart,
         Tick, vars, history
  <1> QED BY <1>1, <1>2

LEMMA RacedStep ==
    ASSUME IInv, [Next]_vars PROVE raced \subseteq raced'
  <1>1. ASSUME NEW t \in Tasks, Create(t) PROVE raced \subseteq raced'
    BY <1>1 DEF Create, Probe, Reserve, ReserveFails, MayReserve, ReserveRefused,
         Prepare, PrepareFails, Broker, BrokerFails, Bind, RecordCompletion,
         RecordCompletionFails, Protect, ProtectFails, Complete, CompleteRefused,
         CompleteFails, Refused, Cancel, CancelFails, Discard, history
  <1>2. ASSUME ~\E t \in Tasks : Create(t) PROVE raced' = raced
    BY <1>2 DEF Next, SetConsent, Claim, Unclaim, DeleteOutside, MakeOutside, Restart,
         Tick, vars, history
  <1> QED BY <1>1, <1>2

\* The step that tells the caller leaves what it tells.
LEMMA CompleteKept ==
    ASSUME IInv, NEW t \in Tasks, Complete(t), NEW id, NEW user,
           id = memory.pending.id, user = memory.pending.owner
    PROVE  /\ id \in Files /\ user \in Users /\ id = file /\ file' = file
           /\ memory.record = None /\ told' = told \cup {<<id, user>>}
           /\ user = task[t].user /\ KeptAs(id, user)'
  <1>1. /\ Registered.record # None
        /\ Registered.record.id = memory.pending.id
        /\ Registered.record.owner = memory.pending.owner
        /\ memory.record = None
        /\ memory.pending.id = file /\ memory.pending.id \in Files
        /\ memory.pending.owner = task[t].user /\ memory.pending.owner \in Users
    BY RegisteredFacts DEF Complete
  <1>2. /\ memory' = Registered /\ disk' = Registered
        /\ acl' = acl /\ acl = memory.pending.owner /\ file' = file
        /\ told' = told \cup {<<memory.pending.id, memory.pending.owner>>}
    BY DEF Complete, Save, Proven, files
  <1> QED BY <1>1, <1>2 DEF KeptAs, OwnedBy

\* Every step keeps what the callers were told.
LEMMA StepKept == IInv /\ [Next]_vars => KeptInv'
  <1> SUFFICES ASSUME IInv, [Next]_vars PROVE KeptInv'
    OBVIOUS
  <1>1. /\ TypeOK /\ KeptInv /\ made \in Nat /\ made' \in Nat /\ made <= made'
        /\ file <= made /\ raced \subseteq raced'
    BY FileStep, RacedStep, BoundsAssumption DEF IInv, TypeOK, HoldInv
  <1>2. ASSUME NEW id \in Files, NEW user \in Users, <<id, user>> \in told'
        PROVE  id <= made'
    <2>1. CASE <<id, user>> \in told
      BY <1>1, <2>1, BoundsAssumption DEF KeptInv, Files
    <2>2. CASE <<id, user>> \notin told
      <3>1. PICK t \in Tasks : Complete(t)
        BY <1>2, <2>2, ToldStep
      <3>2. id = file
        BY <1>2, <2>2, <3>1, CompleteKept
      <3> QED BY <1>1, <3>2, BoundsAssumption DEF TypeOK
    <2> QED BY <2>1, <2>2
  <1>3. claimed' # 0 => claimed' \in governed'
    <2>1. CASE Claim \/ Unclaim
      BY <2>1 DEF Claim, Unclaim
    <2>2. CASE ~(Claim \/ Unclaim)
      <3>1. ASSUME NEW t \in Tasks, Create(t) PROVE UNCHANGED <<claimed, governed>>
        BY <3>1 DEF Create, Probe, Reserve, ReserveFails, ReserveRefused, Prepare,
             PrepareFails, Broker, BrokerFails, Bind, RecordCompletion,
             RecordCompletionFails, Protect, ProtectFails, Complete, CompleteRefused,
             CompleteFails, Refused, Cancel, CancelFails, Discard, world, history
      <3>2. ASSUME ~\E t \in Tasks : Create(t) PROVE UNCHANGED <<claimed, governed>>
        BY <2>2, <3>2 DEF Next, SetConsent, DeleteOutside, MakeOutside, Restart, Tick,
             vars, world, history
      <3> QED BY <1>1, <3>1, <3>2 DEF KeptInv
    <2> QED BY <2>1, <2>2
  <1>4. ASSUME ~Unreadable PROVE CreatedIsKept'
    <2> SUFFICES ASSUME NEW id \in Files, NEW user \in Users, id \notin raced',
                        <<id, user>> \in told', file' = id
                 PROVE  KeptAs(id, user)'
      BY DEF CreatedIsKept, KeptAs
    <2>1. CASE <<id, user>> \in told
      <3>1. id <= made /\ id # 0
        BY <1>1, <2>1, BoundsAssumption DEF KeptInv, Files
      <3>2. file = id
        <4>1. CASE \E who \in Users \cup {Outsider} : Make(who)
          BY <1>1, <3>1, <4>1, MakeFacts, BoundsAssumption DEF Files
        <4>2. CASE ~\E who \in Users \cup {Outsider} : Make(who)
          BY <3>1, <4>2, FileCases
        <4> QED BY <4>1, <4>2
      <3>3. KeptAs(id, user)
        BY <1>1, <1>4, <2>1, <3>2 DEF KeptInv, CreatedIsKept, KeptAs
      <3> QED BY <1>4, <3>2, <3>3, KeptStays
    <2>2. CASE <<id, user>> \notin told
      <3>1. PICK t \in Tasks : Complete(t)
        BY <2>2, ToldStep
      <3>2. id = memory.pending.id /\ user = memory.pending.owner
        BY <2>2, <3>1, CompleteKept
      <3> QED BY <3>1, <3>2, CompleteKept
    <2> QED BY <2>1, <2>2
  <1> QED BY <1>2, <1>3, <1>4 DEF KeptInv

-----------------------------------------------------------------------------
(* The theorems.                                                           *)

LEMMA InitRegistry == Init => RegInv
  BY EmptyFacts DEF Init, RegInv

LEMMA Inductive == Spec => []IInv
  <1>1. Init => IInv
    BY InitType, InitHold, InitLock, InitRegistry, InitKept DEF IInv
  <1>2. IInv /\ [Next]_vars => IInv'
    BY StepType, StepHold, StepLock, StepRegistry, StepKept DEF IInv
  <1> QED BY <1>1, <1>2, PTL DEF Spec

\* Every step keeps the types of the files, the registry and the creations.
THEOREM TypeCorrect == Spec => []TypeOK
  BY Inductive, PTL DEF IInv

\* A created vault stays registered and protected (reserve_personal_registration,
\* complete_personal_registration_as_caller, load_at_startup_after_mount_cleanup),
\* if no start finds the registry unreadable: one that does serves no records
\* until it is repaired.
THEOREM CreatedKept == ASSUME ~Unreadable PROVE Spec => []CreatedIsKept
  <1>1. IInv => CreatedIsKept
    BY DEF IInv, KeptInv
  <1> QED BY <1>1, Inductive, PTL

\* The record of a standard user is of a file made for that user
\* (Creation::prepare, record_personal_broker_completion_with_identity).
THEOREM RegistersOwn == Spec => []RegistersOnlyItsOwn
  <1>1. IInv => RegistersOnlyItsOwn
    BY DEF IInv, RegInv, Sound, RegistersOnlyItsOwn
  <1> QED BY <1>1, Inductive, PTL

\* A creation of a standard user ends with its file gone or its owner told of it
\* (Drop of Destination); only a crash leaves a half-made file.
THEOREM HalfMadeRemoved == Spec => HalfMadeIsRemoved
  <1> DEFINE Removed == \A t \in Tasks :
                LET id == task[t].held IN
                (id # None /\ task'[t].held = None) =>
                    \/ file' # id
                    \/ <<id, task[t].user>> \in told'
                    \/ \E read \in BOOLEAN : Restart(read)
  <1>1. IInv /\ [Next]_vars => Removed
    <2> SUFFICES ASSUME IInv, [Next]_vars, NEW t \in Tasks, task[t].held # None,
                        task'[t].held = None, ~\E read \in BOOLEAN : Restart(read)
                 PROVE  file' # task[t].held \/ <<task[t].held, task[t].user>> \in told'
      OBVIOUS
    <2>1. /\ TypeOK /\ task[t] \in Task /\ task[t].held \in Files
          /\ task[t].held = file /\ file # 0
          /\ task[t].pc \notin {"idle", "reserve", "prepare"}
      <3>1. TypeOK /\ task[t] \in Task /\ HoldTask(t)
        BY DEF IInv, TypeOK, HoldInv
      <3>2. task[t].held \in Files
        BY <3>1 DEF Task
      <3> QED BY <3>1, <3>2, BoundsAssumption DEF HoldTask, Files
    <2>2. task'[t] # task[t]
      OBVIOUS
    <2>3. ASSUME ~\E u \in Tasks : Create(u) PROVE task' = task
      BY <2>3 DEF Next, SetConsent, Claim, Unclaim, DeleteOutside, MakeOutside, Tick, vars
    <2>4. PICK u \in Tasks : Create(u)
      BY <2>2, <2>3
    <2>5. \E self : Stay(u, self)
      BY <2>4 DEF Create, Probe, Reserve, ReserveFails, ReserveRefused, Prepare,
           PrepareFails, Broker, BrokerFails, Bind, RecordCompletion,
           RecordCompletionFails, Protect, ProtectFails, Complete, CompleteRefused,
           CompleteFails, Refused, Cancel, CancelFails, Discard, Goto
    <2>6. Create(t)
      <3>1. u # t => task'[t] = task[t]
        BY <2>1, <2>5 DEF Stay, TypeOK
      <3> QED BY <2>2, <2>4, <3>1
    <2>7. CASE Complete(t)
      BY <2>1, <2>7, CompleteKept
    <2>8. CASE Discard(t)
      BY <2>1, <2>8 DEF Discard
    <2>9. CASE Bind(t) \/ RecordCompletion(t) \/ Protect(t)
      <3>1. CASE Bind(t)
        BY <2>1, <3>1 DEF Bind, Stay, TypeOK, Task
      <3>2. CASE RecordCompletion(t)
        BY <2>1, <3>2 DEF RecordCompletion, Stay, TypeOK, Task
      <3>3. CASE Protect(t)
        BY <2>1, <3>3 DEF Protect, Stay, TypeOK, Task
      <3> QED BY <2>9, <3>1, <3>2, <3>3
    <2>10. CASE Cancel(t) \/ CancelFails(t)
      BY <2>1, <2>10, EndedFacts, StayFacts DEF Cancel, CancelFails
    <2>11. CASE \/ Broker(t) \/ BrokerFails(t) \/ RecordCompletionFails(t)
                \/ ProtectFails(t) \/ CompleteRefused(t) \/ CompleteFails(t)
                \/ Refused(t)
      BY <2>1, <2>11, GotoFacts DEF Broker, BrokerFails, RecordCompletionFails,
           ProtectFails, CompleteRefused, CompleteFails, Refused, Pcs
    <2>12. ASSUME \/ \E user \in Users : Probe(t, user)
                  \/ Reserve(t) \/ ReserveFails(t) \/ ReserveRefused(t)
                  \/ Prepare(t) \/ PrepareFails(t)
           PROVE  FALSE
      <3>1. task[t].pc \in {"idle", "reserve", "prepare"}
        BY <2>12 DEF Probe, Reserve, ReserveFails, MayReserve, ReserveRefused, Prepare,
             PrepareFails, At
      <3> QED BY <2>1, <3>1
    <2>13. \/ Broker(t) \/ BrokerFails(t) \/ Bind(t)
           \/ RecordCompletion(t) \/ RecordCompletionFails(t)
           \/ Protect(t) \/ ProtectFails(t)
           \/ Complete(t) \/ CompleteRefused(t) \/ CompleteFails(t)
           \/ Refused(t) \/ Cancel(t) \/ CancelFails(t) \/ Discard(t)
      BY <2>6, <2>12 DEF Create
    <2> QED BY <2>7, <2>8, <2>9, <2>10, <2>11, <2>13
  <1> QED BY <1>1, Inductive, PTL DEF Removed, HalfMadeIsRemoved, Spec

=============================================================================
