-------------------------- MODULE FleetClientProofs --------------------------
(***************************************************************************)
(* Proofs about FleetClient for any commands, keys, skew, delays and clocks: *)
(* what was dispatched was signed under the pins in force, pins never move    *)
(* once set, and an envelope with a date and a nonce runs once, or twice if   *)
(* the cycle that ran it first had read the clock before that date.           *)
(*                                                                           *)
(* RedeliveryBounded is not inductive.  Its invariant says where an envelope  *)
(* that ran stands: its nonce is remembered since it ran first, or every      *)
(* cycle from now on reads the clock more than the skew after that; and once  *)
(* it ran twice, the same holds of its date, so that it is stale for ever.    *)
(***************************************************************************)
EXTENDS FleetClient, TLAPS

\* The envelopes of a response were made.
TodoStamped ==
    At("commands") => \A n \in 1 .. Len(cycle.todo) : stamped[cycle.todo[n]] # NotStamped

\* What was dispatched came in an envelope.
DispatchedStamped == \A v \in Envelopes : dispatched[v] > 0 => stamped[v] # NotStamped

SafeInv == TypeOK /\ TodoStamped /\ DispatchedStamped

\* The invariant holds initially.
LEMMA InitSafe == Init => SafeInv
  <1> SUFFICES ASSUME Init PROVE SafeInv
    OBVIOUS
  <1> USE KeysAssumption, TimeAssumption
  <1>1. /\ clock \in 1 .. MaxTime
        /\ misses \in 0 .. MaxMisses
        /\ seen \in [Nonces -> -1 .. MaxTime]
        /\ dispatched \in [Envelopes -> 0 .. 3]
        /\ first \in [Envelopes -> 0 .. MaxTime]
    BY DEF Init
  <1>2. /\ enrolled \in BOOLEAN /\ decoyNext \in BOOLEAN
        /\ operatorPin \in Pin /\ serverPin \in Pin
        /\ cycle \in Cycle \cup {NoCycle}
        /\ stamped \in [Envelopes -> Envelope \cup {NotStamped}]
        /\ applied \subseteq Keys
    BY DEF Init
  <1>3. TodoStamped /\ DispatchedStamped
    BY DEF Init, TodoStamped, DispatchedStamped, At
  <1> QED BY <1>1, <1>2, <1>3 DEF SafeInv, TypeOK

\* What Command decides for one envelope: nothing, or a dispatch that
\* verify_command allowed.
Verdict(v) ==
    /\ stamped[v] # NotStamped
    /\ \/ dispatched' = dispatched /\ first' = first /\ seen' = seen
       \/ /\ Signer[stamped[v].command] = KeyFor(stamped[v].command)
          /\ Fresh(stamped[v].ts, cycle.start)
          /\ stamped[v].nonce = NoNonce \/ seen[stamped[v].nonce] = -1
          /\ dispatched' = [dispatched EXCEPT ![v] = IF @ < 3 THEN @ + 1 ELSE 3]
          /\ first' = [first EXCEPT ![v] = IF dispatched[v] = 0
                                           THEN cycle.start ELSE @]
          /\ seen' = IF stamped[v].nonce = NoNonce THEN seen
                     ELSE [seen EXCEPT ![stamped[v].nonce] = cycle.start]

\* The first envelope of a response that has one.
LEMMA CommandHead ==
    ASSUME TypeOK, Command
    PROVE  /\ cycle \in Cycle /\ cycle.todo \in Seq(Envelopes)
           /\ Len(cycle.todo) \in Nat /\ 1 \in 1 .. Len(cycle.todo)
           /\ Head(cycle.todo) \in Envelopes
           /\ Head(cycle.todo) = cycle.todo[1]
  <1>1. cycle \in Cycle /\ cycle.todo \in Seq(Envelopes) /\ cycle.todo # <<>>
    BY DEF Command, At, TypeOK, Cycle
  <1> QED BY <1>1

\* Command decides about one envelope of the response.
LEMMA CommandVerdict == SafeInv /\ Command => \E v \in Envelopes : Verdict(v)
  <1> SUFFICES ASSUME SafeInv, Command PROVE \E v \in Envelopes : Verdict(v)
    OBVIOUS
  <1> USE DEF SafeInv
  <1> DEFINE v == Head(cycle.todo)
  <1>1. v \in Envelopes /\ v = cycle.todo[1] /\ 1 \in 1 .. Len(cycle.todo)
    BY CommandHead
  <1>2. stamped[v] # NotStamped
    BY <1>1 DEF Command, TodoStamped
  <1>3. \/ dispatched' = dispatched /\ first' = first /\ seen' = seen
        \/ /\ Signer[stamped[v].command] = KeyFor(stamped[v].command)
           /\ Fresh(stamped[v].ts, cycle.start)
           /\ stamped[v].nonce = NoNonce \/ seen[stamped[v].nonce] = -1
           /\ dispatched' = [dispatched EXCEPT ![v] = IF @ < 3 THEN @ + 1 ELSE 3]
           /\ first' = [first EXCEPT ![v] = IF dispatched[v] = 0
                                            THEN cycle.start ELSE @]
           /\ seen' = IF stamped[v].nonce = NoNonce THEN seen
                      ELSE [seen EXCEPT ![stamped[v].nonce] = cycle.start]
    BY Zenon DEF Command, runs
  <1>4. Verdict(v)
    BY <1>2, <1>3 DEF Verdict
  <1> QED BY <1>1, <1>4

\* The rest of the response stays a sequence of envelopes.
LEMMA CommandTail == SafeInv /\ Command => cycle' \in Cycle /\ TodoStamped'
  <1> SUFFICES ASSUME SafeInv, Command PROVE cycle' \in Cycle /\ TodoStamped'
    OBVIOUS
  <1> USE DEF SafeInv
  <1> DEFINE todo == cycle.todo
  <1>1. cycle \in Cycle /\ todo \in Seq(Envelopes) /\ Len(todo) \in Nat
        /\ 1 \in 1 .. Len(todo)
    BY CommandHead
  <1>2. /\ Tail(todo) \in Seq(Envelopes)
        /\ Len(Tail(todo)) = Len(todo) - 1
        /\ \A n \in 1 .. Len(todo) - 1 : Tail(todo)[n] = todo[n + 1]
    BY <1>1
  <1>3. cycle' = [cycle EXCEPT !.todo = Tail(todo)] /\ stamped' = stamped
    BY Zenon DEF Command
  <1>4. \A n \in 1 .. Len(todo) : stamped[todo[n]] # NotStamped
    BY DEF Command, TodoStamped
  <1> HIDE DEF todo
  <1>5. cycle' \in Cycle /\ cycle'.todo = Tail(todo)
    BY <1>1, <1>2, <1>3 DEF Cycle
  <1>6. ASSUME NEW n \in 1 .. Len(Tail(todo))
        PROVE  stamped[Tail(todo)[n]] # NotStamped
    <2>1. n \in 1 .. Len(todo) - 1 /\ n + 1 \in 1 .. Len(todo)
      BY <1>1, <1>2
    <2> QED BY <1>2, <1>4, <2>1
  <1>7. TodoStamped'
    BY <1>3, <1>5, <1>6 DEF TodoStamped
  <1> QED BY <1>5, <1>7

\* Every step keeps it.
LEMMA StepSafe == SafeInv /\ [Next]_vars => SafeInv'
  <1> SUFFICES ASSUME SafeInv, [Next]_vars PROVE SafeInv'
    OBVIOUS
  <1> USE KeysAssumption, TimeAssumption DEF SafeInv
  <1>1. ASSUME NEW decoy \in BOOLEAN, Begin(decoy)
        PROVE  SafeInv'
    <2>1. <<>> \in Seq(Envelopes)
      OBVIOUS
    <2>2. cycle' \in Cycle /\ decoyNext' \in BOOLEAN
      BY <1>1, <2>1 DEF Begin, TypeOK, Cycle, Pin
    <2>3. TypeOK'
      BY <1>1, <2>2 DEF Begin, TypeOK, pins, history, runs
    <2>4. TodoStamped' /\ DispatchedStamped'
      BY <1>1 DEF Begin, TodoStamped, DispatchedStamped, At, history, runs
    <2> QED BY <2>3, <2>4
  <1>2. CASE CallFails \/ HmacFails
    BY <1>2 DEF CallFails, HmacFails, Missed, TypeOK, TodoStamped,
                DispatchedStamped, At, pins, history, runs
  <1>3. ASSUME NEW operator \in Pin \cup {WeakKey}, NEW server \in Pin \cup {WeakKey},
               Enroll(operator, server)
        PROVE  SafeInv'
    <2>1. CASE Acceptable(operator, server)
      <3>1. operatorPin' \in Pin /\ serverPin' \in Pin /\ enrolled' \in BOOLEAN
        BY <1>3, <2>1 DEF Enroll, Acceptable, Kept, TypeOK, Pin
      <3>2. /\ cycle \in Cycle /\ cycle' = [cycle EXCEPT !.pc = "post"]
            /\ misses' = misses
        BY <1>3, <2>1 DEF Enroll, At, TypeOK
      <3>3. cycle' \in Cycle /\ cycle'.pc = "post"
        BY <3>2 DEF Cycle
      <3> QED BY <1>3, <3>1, <3>2, <3>3
              DEF Enroll, TypeOK, TodoStamped, DispatchedStamped, At, history, runs
    <2>2. CASE ~Acceptable(operator, server)
      BY <1>3, <2>2 DEF Enroll, Missed, TypeOK, TodoStamped, DispatchedStamped,
                        At, pins, history, runs
    <2> QED BY <2>1, <2>2
  <1>4. ASSUME NEW todo \in Batches, Respond(todo)
        PROVE  SafeInv'
    <2>1. PICK n \in 0 .. MaxBatch : todo \in [1 .. n -> Delivered]
      BY DEF Batches
    <2>2. todo \in Seq(Envelopes) /\ Len(todo) = n
      BY <2>1 DEF Delivered
    <2>3. \A k \in 1 .. Len(todo) : stamped[todo[k]] # NotStamped
      BY <2>1, <2>2 DEF Delivered
    <2>4. cycle \in Cycle
      BY <1>4 DEF Respond, At, TypeOK
    <2>5. CASE cycle.decoy
      BY <1>4, <2>5 DEF Respond, TypeOK, TodoStamped, DispatchedStamped, At,
                        pins, history, runs
    <2>6. CASE ~cycle.decoy
      <3>1. /\ cycle' = [cycle EXCEPT !.pc = "commands", !.todo = todo]
            /\ seen' = Evicted(seen, cycle.start)
        BY <1>4, <2>6 DEF Respond
      <3>2. cycle' \in Cycle /\ cycle'.todo = todo
        BY <2>2, <2>4, <3>1 DEF Cycle
      <3>3. seen' \in [Nonces -> -1 .. MaxTime]
        BY <3>1 DEF Evicted, TypeOK
      <3> QED BY <1>4, <2>3, <3>2, <3>3
              DEF Respond, TypeOK, TodoStamped, DispatchedStamped, pins, history,
                  runs
    <2> QED BY <2>5, <2>6
  <1>5. CASE Command
    <2>1. cycle' \in Cycle /\ TodoStamped'
      BY <1>5, CommandTail
    <2>2. PICK v \in Envelopes : Verdict(v)
      BY <1>5, CommandVerdict
    <2>3. cycle.start \in 1 .. MaxTime
      BY <1>5 DEF Command, At, TypeOK, Cycle
    <2>4. /\ seen' \in [Nonces -> -1 .. MaxTime]
          /\ dispatched' \in [Envelopes -> 0 .. 3]
          /\ first' \in [Envelopes -> 0 .. MaxTime]
          /\ \A w \in Envelopes : w # v => dispatched'[w] = dispatched[w]
      BY <2>2, <2>3 DEF Verdict, TypeOK
    <2>5. DispatchedStamped'
      BY <1>5, <2>2, <2>4 DEF Command, Verdict, DispatchedStamped
    <2>6. TypeOK'
      BY <1>5, <2>1, <2>4 DEF Command, TypeOK, pins
    <2> QED BY <2>1, <2>5, <2>6
  <1>6. ASSUME NEW policy \in Pin, NEW clear \in BOOLEAN, Settle(policy, clear)
        PROVE  SafeInv'
    <2>1. applied' \subseteq Keys
      BY <1>6 DEF Settle, TypeOK, Pin
    <2> QED BY <1>6, <2>1 DEF Settle, Missed, TypeOK, TodoStamped,
                              DispatchedStamped, At, pins, runs
  <1>7. ASSUME NEW v \in Envelopes, Stamp(v)
        PROVE  SafeInv'
    <2>1. PICK c \in Commands, ts \in 0 .. clock + Ahead,
               nonce \in Nonces \cup {NoNonce} :
            stamped' = [stamped EXCEPT ![v] = [command |-> c, ts |-> ts,
                                               nonce |-> nonce]]
      BY <1>7 DEF Stamp
    <2>2. ts \in 0 .. MaxTime + Ahead
      BY DEF TypeOK
    <2>3. stamped' \in [Envelopes -> Envelope \cup {NotStamped}]
      BY <2>1, <2>2 DEF TypeOK, Envelope
    <2>4. \A w \in Envelopes : stamped[w] # NotStamped => stamped'[w] = stamped[w]
      BY <1>7, <2>1 DEF Stamp, TypeOK
    <2>5. At("commands") => \A n \in 1 .. Len(cycle.todo) : cycle.todo[n] \in Envelopes
      BY DEF At, TypeOK, Cycle
    <2> QED BY <1>7, <2>3, <2>4, <2>5
            DEF Stamp, TypeOK, TodoStamped, DispatchedStamped, At, pins, runs
  <1>8. CASE Tick
    BY <1>8 DEF Tick, TypeOK, TodoStamped, DispatchedStamped, At, pins, history, runs
  <1>9. CASE UNCHANGED vars
    BY <1>9 DEF vars, TypeOK, TodoStamped, DispatchedStamped, At, pins, history, runs
  <1> QED
    BY <1>1, <1>2, <1>3, <1>4, <1>5, <1>6, <1>7, <1>8, <1>9 DEF Next

\* The state of the client is well typed in every run of the loop.
THEOREM TypeCorrect == Spec => []TypeOK
  <1>1. SafeInv => TypeOK
    BY DEF SafeInv
  <1> QED BY <1>1, InitSafe, StepSafe, PTL DEF Spec

-----------------------------------------------------------------------------
\* A cycle enrols only a device without an identity.
Enrolling == At("enroll") => ~enrolled

\* An enrolment changes nothing but the pins that were missing.
LEMMA EnrollStep ==
    ASSUME NEW operator, NEW server, Enroll(operator, server), SafeInv, Enrolling,
           operator \in Pin \cup {WeakKey}, server \in Pin \cup {WeakKey}
    PROVE  \/ UNCHANGED pins
           \/ /\ ~enrolled /\ enrolled' /\ ~At("enroll")'
              /\ operatorPin' \in Pin /\ serverPin' \in Pin
              /\ operatorPin # NoKey => operatorPin' = operatorPin
              /\ serverPin # NoKey => serverPin' = serverPin
  <1>1. CASE Acceptable(operator, server)
    <2>1. cycle \in Cycle /\ cycle' = [cycle EXCEPT !.pc = "post"]
      BY <1>1 DEF Enroll, At, SafeInv, TypeOK
    <2>2. ~At("enroll")'
      BY <2>1 DEF At, Cycle
    <2> QED BY <1>1, <2>2, KeysAssumption
            DEF Enroll, Acceptable, Kept, Enrolling, SafeInv, TypeOK, Pin
  <1>2. CASE ~Acceptable(operator, server)
    BY <1>2 DEF Enroll
  <1> QED BY <1>1, <1>2

\* Every other step leaves the pins alone.
LEMMA PinsStep ==
    ASSUME SafeInv, Enrolling, [Next]_vars
    PROVE  \/ UNCHANGED pins
           \/ /\ ~enrolled /\ enrolled' /\ ~At("enroll")'
              /\ operatorPin' \in Pin /\ serverPin' \in Pin
              /\ operatorPin # NoKey => operatorPin' = operatorPin
              /\ serverPin # NoKey => serverPin' = serverPin
              /\ UNCHANGED history
  <1>1. ASSUME NEW operator \in Pin \cup {WeakKey}, NEW server \in Pin \cup {WeakKey},
               Enroll(operator, server)
        PROVE  UNCHANGED history
    BY <1>1 DEF Enroll
  <1>2. CASE \E operator, server \in Pin \cup {WeakKey} : Enroll(operator, server)
    BY <1>1, <1>2, EnrollStep
  <1>3. CASE \/ \E decoy \in BOOLEAN : Begin(decoy)
             \/ CallFails \/ HmacFails \/ Command \/ Tick
             \/ \E todo \in Batches : Respond(todo)
             \/ \E policy \in Pin, clear \in BOOLEAN : Settle(policy, clear)
             \/ \E v \in Envelopes : Stamp(v)
             \/ UNCHANGED vars
    BY <1>3 DEF Begin, CallFails, HmacFails, Command, Settle, Tick, Respond,
                Stamp, vars
  <1> QED BY <1>2, <1>3 DEF Next

\* No step sends an enrolled device back to enrolment.
LEMMA EnrollingStep == SafeInv /\ Enrolling /\ [Next]_vars => Enrolling'
  <1> SUFFICES ASSUME SafeInv, Enrolling, [Next]_vars, ~UNCHANGED cycle
               PROVE  Enrolling'
    BY PinsStep DEF Enrolling, At, pins
  <1>1. ASSUME NEW decoy \in BOOLEAN, Begin(decoy)
        PROVE  Enrolling'
    BY <1>1 DEF Begin, Enrolling, At, pins
  <1>2. CASE \/ CallFails \/ HmacFails
             \/ \E policy \in Pin, clear \in BOOLEAN : Settle(policy, clear)
    BY <1>2 DEF CallFails, HmacFails, Settle, Enrolling, At
  <1>3. ASSUME NEW operator \in Pin \cup {WeakKey}, NEW server \in Pin \cup {WeakKey},
               Enroll(operator, server)
        PROVE  Enrolling'
    <2>1. CASE Acceptable(operator, server)
      <3>1. cycle \in Cycle /\ cycle' = [cycle EXCEPT !.pc = "post"]
        BY <1>3, <2>1 DEF Enroll, At, SafeInv, TypeOK
      <3> QED BY <3>1 DEF Enrolling, At, Cycle
    <2>2. CASE ~Acceptable(operator, server)
      BY <1>3, <2>2 DEF Enroll, Enrolling, At
    <2> QED BY <2>1, <2>2
  <1>4. ASSUME NEW todo \in Batches, Respond(todo)
        PROVE  Enrolling'
    <2>1. cycle \in Cycle
      BY <1>4 DEF Respond, At, SafeInv, TypeOK
    <2> QED BY <1>4, <2>1 DEF Respond, Enrolling, At, Cycle
  <1>5. CASE Command
    <2>1. cycle \in Cycle /\ cycle.pc = "commands"
      BY <1>5, CommandHead DEF SafeInv, Command, At
    <2>2. cycle'.pc = "commands"
      BY <1>5, <2>1 DEF Command, Cycle
    <2> QED BY <2>2 DEF Enrolling, At
  <1>6. CASE Tick \/ (\E v \in Envelopes : Stamp(v)) \/ UNCHANGED vars
    BY <1>6 DEF Tick, Stamp, vars
  <1> QED
    BY <1>1, <1>2, <1>3, <1>4, <1>5, <1>6 DEF Next

\* enroll keeps both keys of one acceptable response or neither, and a pin
\* never changes.
THEOREM PinsTheorem == Spec => PinsMoveTogether
  <1>1. Init => Enrolling
    BY DEF Init, Enrolling, At
  <1>2. SafeInv /\ Enrolling /\ [Next]_vars =>
          [<<operatorPin, serverPin>>' # <<operatorPin, serverPin>> =>
             /\ ~enrolled /\ enrolled'
             /\ operatorPin' \in Pin /\ serverPin' \in Pin
             /\ operatorPin # NoKey => operatorPin' = operatorPin
             /\ serverPin # NoKey => serverPin' = serverPin]_vars
    BY PinsStep DEF pins
  <1> QED
    BY <1>1, <1>2, InitSafe, StepSafe, EnrollingStep, PTL
       DEF Spec, PinsMoveTogether
-----------------------------------------------------------------------------
\* A step keeps what was dispatched and applied under the pins.
LEMMA UnderPinsStep ==
    SafeInv /\ Enrolling /\ DispatchedUnderPins /\ [Next]_vars => DispatchedUnderPins'
  <1> SUFFICES ASSUME SafeInv, Enrolling, DispatchedUnderPins, [Next]_vars
               PROVE  DispatchedUnderPins'
    OBVIOUS
  <1> USE KeysAssumption DEF SafeInv
  <1>1. \A v \in Envelopes : dispatched[v] > 0 => Signer[stamped[v].command] \in Keys
    BY CommandsAssumption DEF TypeOK, DispatchedStamped, Envelope
  <1>2. CASE UNCHANGED history
    <2>1. CASE UNCHANGED pins
      BY <1>2, <2>1 DEF DispatchedUnderPins, history, runs, pins
    <2>2. CASE serverPin # NoKey => serverPin' = serverPin
      BY <1>1, <1>2, <2>2 DEF DispatchedUnderPins, TypeOK, history, runs
    <2> QED BY <2>1, <2>2, PinsStep
  <1>3. CASE Command
    <2>1. PICK v \in Envelopes : Verdict(v)
      BY <1>3, CommandVerdict
    <2>2. UNCHANGED <<serverPin, stamped, applied>>
      BY <1>3 DEF Command, pins
    <2> QED BY <2>1, <2>2 DEF Verdict, KeyFor, DispatchedUnderPins, TypeOK
  <1>4. ASSUME NEW policy \in Pin, NEW clear \in BOOLEAN, Settle(policy, clear)
        PROVE  DispatchedUnderPins'
    <2>1. /\ UNCHANGED <<serverPin, stamped, dispatched>>
          /\ applied' \subseteq applied \cup {serverPin}
      BY <1>4 DEF Settle, pins, runs
    <2> QED BY <2>1 DEF DispatchedUnderPins
  <1>5. ASSUME NEW v \in Envelopes, Stamp(v)
        PROVE  DispatchedUnderPins'
    <2>1. \A w \in Envelopes : stamped[w] # NotStamped => stamped'[w] = stamped[w]
      BY <1>5 DEF Stamp, TypeOK
    <2>2. UNCHANGED <<serverPin, dispatched, applied>>
      BY <1>5 DEF Stamp, pins, runs
    <2> QED BY <2>1, <2>2 DEF DispatchedUnderPins, DispatchedStamped
  <1> QED
    BY <1>2, <1>3, <1>4, <1>5
       DEF Next, Begin, Enroll, CallFails, HmacFails, Respond, Tick, vars

\* Commands and policies were signed by the keys in force: neither key ever
\* stood in for the other, and no enrolment replaced a pin that was used.
THEOREM UnderPinsTheorem == Spec => []DispatchedUnderPins
  <1>1. Init => Enrolling /\ DispatchedUnderPins
    BY DEF Init, Enrolling, At, DispatchedUnderPins
  <1> QED
    BY <1>1, InitSafe, StepSafe, EnrollingStep, UnderPinsStep, PTL DEF Spec

-----------------------------------------------------------------------------
\* The time that the cycle in progress read, or the next one will: it never
\* goes back.
Now == IF cycle = NoCycle THEN clock ELSE cycle.start

StartPast == cycle # NoCycle => cycle.start <= clock

\* The nonce n is remembered since t, or whatever is verified from now on is
\* verified at a time more than Skew after t.
Remembered(n, t) == seen[n] >= t \/ Now > t + Skew

\* Where an envelope stands that ran.
Guarded(v) ==
    Defended(v) =>
        /\ dispatched[v] = 1 =>
            /\ stamped[v].ts - first[v] <= Skew
            /\ Remembered(stamped[v].nonce, first[v])
        /\ dispatched[v] = 2 =>
            /\ first[v] < stamped[v].ts
            /\ Remembered(stamped[v].nonce, stamped[v].ts)
        /\ dispatched[v] <= 2

RunInv == SafeInv /\ StartPast /\ \A v \in Envelopes : Guarded(v)

\* Cycles read the clock in the order they run.
LEMMA NowStep ==
    ASSUME SafeInv, StartPast, [Next]_vars
    PROVE  /\ StartPast'
           /\ Now \in Nat /\ Now' \in Nat /\ Now' >= Now
           /\ cycle' # NoCycle => Now' = cycle'.start
  <1> USE TimeAssumption DEF SafeInv
  <1>1. clock \in 1 .. MaxTime /\ (cycle # NoCycle => cycle \in Cycle /\ cycle.start \in 1 .. MaxTime)
    BY DEF TypeOK, Cycle
  <1>2. CASE /\ cycle' = NoCycle \/ (cycle' # NoCycle /\ cycle # NoCycle /\ cycle'.start = cycle.start)
             /\ clock' = clock
    BY <1>1, <1>2 DEF Now, StartPast
  <1>3. ASSUME NEW decoy \in BOOLEAN, Begin(decoy)
        PROVE  cycle = NoCycle /\ clock' = clock /\ (cycle' = NoCycle \/ cycle'.start = clock)
    BY <1>3 DEF Begin
  <1>4. CASE \E decoy \in BOOLEAN : Begin(decoy)
    BY <1>1, <1>3, <1>4 DEF Now, StartPast
  <1>5. CASE Tick \/ UNCHANGED vars
    BY <1>1, <1>5 DEF Tick, vars, Now, StartPast
  <1>6. CASE CallFails \/ HmacFails \/ \E policy \in Pin, clear \in BOOLEAN : Settle(policy, clear)
    <2>1. cycle' = NoCycle /\ clock' = clock
      BY <1>6 DEF CallFails, HmacFails, Settle
    <2> QED BY <1>2, <2>1
  <1>7. ASSUME NEW operator \in Pin \cup {WeakKey}, NEW server \in Pin \cup {WeakKey},
               Enroll(operator, server), cycle' # NoCycle
        PROVE  cycle # NoCycle /\ cycle'.start = cycle.start /\ clock' = clock
    <2>1. cycle # NoCycle /\ cycle' = [cycle EXCEPT !.pc = "post"] /\ clock' = clock
      BY <1>7 DEF Enroll, At
    <2> QED BY <1>1, <2>1 DEF Cycle
  <1>8. CASE \E operator, server \in Pin \cup {WeakKey} : Enroll(operator, server)
    <2>1. clock' = clock
      BY <1>8 DEF Enroll
    <2> QED BY <1>2, <1>7, <1>8, <2>1
  <1>9. ASSUME NEW todo \in Batches, Respond(todo), cycle' # NoCycle
        PROVE  cycle # NoCycle /\ cycle'.start = cycle.start
    <2>1. /\ cycle # NoCycle
          /\ cycle' = [cycle EXCEPT !.pc = "commands", !.todo = todo]
      BY <1>9 DEF Respond, At
    <2> QED BY <1>1, <2>1 DEF Cycle
  <1>10. CASE \E todo \in Batches : Respond(todo)
    <2>1. clock' = clock
      BY <1>10 DEF Respond
    <2> QED BY <1>2, <1>9, <1>10, <2>1
  <1>11. CASE Command
    <2>1. cycle # NoCycle /\ cycle' = [cycle EXCEPT !.todo = Tail(@)] /\ clock' = clock
      BY <1>11 DEF Command, At
    <2>2. cycle'.start = cycle.start
      BY <1>1, <2>1 DEF Cycle
    <2> QED BY <1>2, <2>1, <2>2
  <1>12. CASE \E v \in Envelopes : Stamp(v)
    BY <1>2, <1>12 DEF Stamp
  <1> QED
    BY <1>4, <1>5, <1>6, <1>8, <1>10, <1>11, <1>12 DEF Next

\* The nonce of an envelope is forgotten only once it is too late for it.
LEMMA RememberedStep ==
    ASSUME SafeInv, StartPast, [Next]_vars, NEW n \in Nonces, NEW t \in Nat,
           Remembered(n, t)
    PROVE  Remembered(n, t)'
  <1> USE TimeAssumption DEF SafeInv
  <1>1. /\ Now \in Nat /\ Now' \in Nat /\ Now' >= Now
        /\ cycle' # NoCycle => Now' = cycle'.start
    BY NowStep
  <1>2. seen[n] \in Int
    BY DEF TypeOK
  <1>3. CASE seen'[n] = seen[n]
    BY <1>1, <1>2, <1>3 DEF Remembered
  <1>4. ASSUME NEW todo \in Batches, Respond(todo)
        PROVE  \/ seen'[n] = seen[n]
               \/ Now - seen[n] > Skew
    <2>1. cycle # NoCycle /\ (seen' = seen \/ seen' = Evicted(seen, cycle.start))
      BY <1>4 DEF Respond, At
    <2>2. CASE seen' = Evicted(seen, cycle.start)
      <3>1. seen'[n] = IF cycle.start - seen[n] <= Skew THEN seen[n] ELSE -1
        BY <2>2 DEF Evicted
      <3>2. Now = cycle.start /\ cycle.start \in Nat
        BY <1>1, <2>1 DEF Now
      <3> QED BY <1>2, <3>1, <3>2
    <2> QED BY <2>1, <2>2
  <1>5. CASE \E todo \in Batches : Respond(todo)
    BY <1>1, <1>2, <1>3, <1>4, <1>5 DEF Remembered
  <1>6. CASE Command
    <2>1. PICK v \in Envelopes : Verdict(v)
      BY <1>6, CommandVerdict
    <2>2. Now = cycle.start
      BY <1>6 DEF Command, At, Now
    <2>3. seen'[n] = seen[n] \/ seen[n] = -1
      BY <2>1 DEF Verdict, TypeOK
    <2> QED BY <1>1, <1>3, <2>3 DEF Remembered
  <1>7. CASE ~(Command \/ \E todo \in Batches : Respond(todo))
    <2>1. seen' = seen
      BY <1>7 DEF Next, Begin, Enroll, CallFails, HmacFails, Settle, Stamp,
                  Tick, vars
    <2> QED BY <1>3, <2>1
  <1> QED BY <1>5, <1>6, <1>7

\* An envelope that is dispatched moves on by one, and no other step moves it.
LEMMA GuardedStep ==
    ASSUME SafeInv, StartPast, [Next]_vars, NEW v \in Envelopes, Guarded(v)
    PROVE  Guarded(v)'
  <1> USE TimeAssumption DEF SafeInv
  <1> DEFINE sent == stamped[v]
  <1>1. /\ dispatched[v] \in 0 .. 3 /\ first[v] \in Nat
        /\ sent # NotStamped => sent.ts \in Nat /\ sent.nonce \in Nonces \cup {NoNonce}
    BY DEF TypeOK, Envelope
  <1>2. CASE stamped'[v] = sent /\ dispatched'[v] = dispatched[v] /\ first'[v] = first[v]
    BY <1>1, <1>2, RememberedStep DEF Guarded, Defended
  <1>3. CASE Command
    <2>1. PICK w \in Envelopes : Verdict(w)
      BY <1>3, CommandVerdict
    <2>2. stamped' = stamped /\ Now = cycle.start /\ Now \in Nat
      BY <1>3, NowStep DEF Command, At, Now
    <2>3. CASE dispatched' = dispatched /\ first' = first
      BY <1>2, <2>2, <2>3
    <2>4. CASE w # v
      BY <1>2, <2>1, <2>2, <2>4 DEF Verdict, TypeOK
    <2>5. CASE w = v /\ Defended(v) /\ ~(dispatched' = dispatched /\ first' = first)
      <3>1. /\ sent # NotStamped /\ sent.nonce \in Nonces /\ sent.ts \in Nat
            /\ sent.ts # 0
        BY <1>1, <2>5 DEF Defended
      <3>2. /\ Fresh(sent.ts, Now) /\ seen[sent.nonce] = -1
            /\ dispatched'[v] = IF dispatched[v] < 3 THEN dispatched[v] + 1 ELSE 3
            /\ first'[v] = IF dispatched[v] = 0 THEN Now ELSE first[v]
            /\ seen'[sent.nonce] = Now
        BY <2>1, <2>2, <2>5, <3>1 DEF Verdict, TypeOK, Defended
      <3>3. /\ Now - sent.ts <= Skew /\ sent.ts - Now <= Skew
        BY <3>1, <3>2 DEF Fresh
      <3>4. /\ dispatched[v] = 1 => /\ sent.ts - first[v] <= Skew
                                   /\ Now > first[v] + Skew
            /\ dispatched[v] # 2 /\ dispatched[v] <= 2
        BY <1>1, <2>2, <2>5, <3>1, <3>2, <3>3 DEF Guarded, Remembered
      <3> QED BY <1>1, <2>2, <3>1, <3>2, <3>3, <3>4 DEF Guarded, Remembered
    <2>6. CASE ~Defended(v)
      BY <2>2, <2>6 DEF Guarded, Defended
    <2> QED BY <2>3, <2>4, <2>5, <2>6
  <1>4. ASSUME NEW w \in Envelopes, Stamp(w)
        PROVE  Guarded(v)'
    <2>1. CASE sent # NotStamped
      BY <1>2, <1>4, <2>1 DEF Stamp, TypeOK, runs
    <2>2. CASE sent = NotStamped
      <3>1. dispatched'[v] = 0
        BY <1>1, <1>4, <2>2 DEF Stamp, DispatchedStamped, runs
      <3> QED BY <3>1 DEF Guarded
    <2> QED BY <2>1, <2>2
  <1>5. CASE ~(Command \/ \E w \in Envelopes : Stamp(w))
    <2>1. UNCHANGED <<stamped, runs>>
      BY <1>5 DEF Next, Begin, Enroll, CallFails, HmacFails, Respond, Settle,
                  Tick, vars, history
    <2> QED BY <1>2, <2>1 DEF runs
  <1> QED BY <1>3, <1>4, <1>5

\* evict_stale_nonces with ttl_secs equal to max_skew_secs, for any server clock,
\* delays and deliveries: an envelope with a date and a nonce runs once, or
\* twice if the cycle that ran it first had read the clock before its date.
THEOREM RedeliveryTheorem == Spec => []RedeliveryBounded
  <1>1. Init => RunInv
    BY InitSafe DEF Init, RunInv, StartPast, Guarded, Defended
  <1>2. RunInv /\ [Next]_vars => RunInv'
    BY StepSafe, NowStep, GuardedStep DEF RunInv
  <1>3. RunInv => RedeliveryBounded
    BY DEF RunInv, Guarded, RedeliveryBounded
  <1> QED BY <1>1, <1>2, <1>3, PTL DEF Spec

=============================================================================
