----------------------------- MODULE FleetClient -----------------------------
(***************************************************************************)
(* The check-in client of fleet-agent-core (transport.rs, dispatch.rs,      *)
(* verify.rs): enrolment with key pinning, the check-in loop with its       *)
(* decoys, the verification and dispatch of signed commands, and the         *)
(* dead-man count.  The fleet server and the platform behind FleetActions    *)
(* are external.  A signature covers the command alone; its date and nonce   *)
(* are in the envelope around it, which the server makes: it may send a      *)
(* command in several envelopes, and each of them in any number of           *)
(* responses, since nothing in the protocol acknowledges one.                *)
(***************************************************************************)
EXTENDS Integers, Sequences

CONSTANTS
    Commands,    \* signed commands
    Duress,      \* those of the operator's catalogue (is_duress_catalog)
    Signer,      \* command -> the key that signed it
    Envelopes,   \* what the server sends: a command with a date and a nonce
    Nonces,
    NoNonce,     \* the empty nonce
    Keys,        \* valid verifying keys
    OperatorKey, \* config.cmd_pubkey
    WeakKey,     \* a key that decode_verifying_key refuses
    NoKey,
    Skew,        \* config.max_cmd_skew_secs
    Ahead,       \* by how much the server's clock may lead the device's
    Latency,     \* how long a cycle may take
    Decoys,      \* config.checkin_decoy_enabled
    MaxTime,     \* bound: the clock
    MaxMisses,   \* bound: the dead-man count; stands for any larger one too
    MaxBatch,    \* bound: commands in one response
    NoCycle, NotStamped

ASSUME CommandsAssumption ==
    /\ Duress \subseteq Commands
    /\ Signer \in [Commands -> Keys]
    /\ NoNonce \notin Nonces
ASSUME KeysAssumption ==
    /\ OperatorKey \in Keys
    /\ WeakKey \notin Keys
    /\ NoKey \notin Keys
    /\ WeakKey # NoKey
ASSUME TimeAssumption ==
    /\ Skew \in Nat /\ Ahead \in Nat /\ Latency \in Nat
    /\ MaxTime \in Nat \ {0} /\ MaxMisses \in Nat /\ MaxBatch \in Nat
    /\ Decoys \in BOOLEAN

VARIABLES
    clock,       \* the device's clock, in seconds
    enrolled,    \* FleetClientState.device_id is set
    operatorPin, \* pinned_pubkey_b64
    serverPin,   \* pinned_server_key_b64
    seen,        \* seen_nonces: the `now` each nonce was recorded with, or -1
    misses,      \* dead_man_misses
    cycle,       \* the check-in in progress
    decoyNext,   \* a decoy may fire before the next real check-in
    stamped,     \* the envelopes the server made
    dispatched,  \* envelope -> how often its command was handed to the
                 \* platform (3: or more)
    first,       \* and the `now` of the cycle that did so first, or 0
    applied      \* signers of the policies handed to the platform

pins == <<enrolled, operatorPin, serverPin>>
runs == <<dispatched, first>>
history == <<stamped, runs, applied>>
vars == <<clock, pins, seen, misses, cycle, decoyNext, history>>

Pin == Keys \cup {NoKey}

\* The timestamp is 0 when the server does not date the command.
Envelope == [command : Commands, ts : 0 .. MaxTime + Ahead,
             nonce : Nonces \cup {NoNonce}]

Cycle == [pc : {"enroll", "post", "commands"}, start : 1 .. MaxTime,
          decoy : BOOLEAN, todo : Seq(Envelopes)]

TypeOK ==
    /\ clock \in 1 .. MaxTime
    /\ enrolled \in BOOLEAN
    /\ operatorPin \in Pin
    /\ serverPin \in Pin
    /\ seen \in [Nonces -> -1 .. MaxTime]
    /\ misses \in 0 .. MaxMisses
    /\ cycle \in Cycle \cup {NoCycle}
    /\ decoyNext \in BOOLEAN
    /\ stamped \in [Envelopes -> Envelope \cup {NotStamped}]
    /\ dispatched \in [Envelopes -> 0 .. 3]
    /\ first \in [Envelopes -> 0 .. MaxTime]
    /\ applied \subseteq Keys

\* The platform may have restored the pins, and the identity with them.
Init ==
    /\ clock = 1
    /\ operatorPin \in Pin
    /\ serverPin \in Pin
    /\ enrolled \in BOOLEAN
    /\ seen = [n \in Nonces |-> -1]
    /\ misses = 0
    /\ cycle = NoCycle
    /\ decoyNext = FALSE
    /\ stamped = [v \in Envelopes |-> NotStamped]
    /\ dispatched = [v \in Envelopes |-> 0]
    /\ first = [v \in Envelopes |-> 0]
    /\ applied = {}

-----------------------------------------------------------------------------
At(pc) == cycle # NoCycle /\ cycle.pc = pc

\* spawn_fleet_client: real check-ins, with at most one decoy between two.
\* `now` is read once, when the cycle starts.
Begin(decoy) ==
    /\ cycle = NoCycle
    /\ decoy => decoyNext
    /\ cycle' = [pc |-> IF enrolled THEN "post" ELSE "enroll", start |-> clock,
                 decoy |-> decoy, todo |-> <<>>]
    /\ decoyNext' = (Decoys /\ ~decoy)
    /\ UNCHANGED <<clock, pins, seen, misses, history>>

Missed == misses' = IF misses < MaxMisses THEN misses + 1 ELSE misses

\* Enrolment or the check-in POST fails, for a decoy as well.
CallFails ==
    /\ At("enroll") \/ At("post")
    /\ Missed
    /\ cycle' = NoCycle
    /\ UNCHANGED <<clock, pins, seen, decoyNext, history>>

\* The request body could not be authenticated.
HmacFails ==
    /\ At("post")
    /\ cycle' = NoCycle
    /\ UNCHANGED <<clock, pins, seen, misses, decoyNext, history>>

\* Mutant: the keys are validated one after the other.
AcceptableOneByOne(operator, server) ==
    /\ operator # WeakKey
    /\ operatorPin = NoKey \/ operator \in {NoKey, operatorPin}

\* enroll: the whole response is validated, and compared with both pins,
\* before either is kept.
Acceptable(operator, server) ==
    /\ operator # WeakKey /\ server # WeakKey
    /\ operatorPin = NoKey \/ operator \in {NoKey, operatorPin}
    /\ serverPin = NoKey \/ server \in {NoKey, serverPin}

\* Mutant: what the server sent last is kept.
KeptLatest(pin, received) == received

\* A key is pinned on first sight.
Kept(pin, received) == IF pin = NoKey THEN received ELSE pin

Enroll(operator, server) ==
    /\ At("enroll")
    /\ IF Acceptable(operator, server)
       THEN /\ operatorPin' = Kept(operatorPin, operator)
            /\ serverPin' = Kept(serverPin, server)
            /\ enrolled' = TRUE
            /\ cycle' = [cycle EXCEPT !.pc = "post"]
            /\ UNCHANGED misses
       ELSE /\ Missed
            /\ cycle' = NoCycle
            /\ UNCHANGED pins
    /\ UNCHANGED <<clock, seen, decoyNext, history>>

\* Mutant: a nonce is forgotten one second early.
EvictedEarly(nonces, now) ==
    [n \in Nonces |-> IF now - nonces[n] < Skew THEN nonces[n] ELSE -1]

\* evict_stale_nonces with ttl_secs = max_skew_secs
Evicted(nonces, now) ==
    [n \in Nonces |-> IF now - nonces[n] <= Skew THEN nonces[n] ELSE -1]

\* The response arrives; a decoy's is dropped.  What else it says, Settle reads.
Respond(todo) ==
    /\ At("post")
    /\ IF cycle.decoy THEN cycle' = NoCycle /\ UNCHANGED seen
       ELSE /\ seen' = Evicted(seen, cycle.start)
            /\ cycle' = [cycle EXCEPT !.pc = "commands", !.todo = todo]
    /\ UNCHANGED <<clock, pins, misses, decoyNext, history>>

\* Mutant: the operator key stands in for a missing server key.
KeyForOrOther(c) ==
    IF c \in Duress \/ serverPin = NoKey THEN OperatorKey ELSE serverPin

\* The catalog alone decides which key a command needs.
KeyFor(c) == IF c \in Duress THEN OperatorKey ELSE serverPin

Fresh(ts, now) == ts = 0 \/ (now - ts <= Skew /\ ts - now <= Skew)

\* process_checkin and verify_command for the next envelope of the response.
Command ==
    /\ At("commands")
    /\ cycle.todo # <<>>
    /\ LET v == Head(cycle.todo)
           sent == stamped[v]
           valid == /\ Signer[sent.command] = KeyFor(sent.command)
                    /\ Fresh(sent.ts, cycle.start)
                    /\ sent.nonce = NoNonce \/ seen[sent.nonce] = -1
       IN  IF valid
           THEN /\ dispatched' = [dispatched EXCEPT ![v] = IF @ < 3 THEN @ + 1 ELSE 3]
                /\ first' = [first EXCEPT ![v] = IF dispatched[v] = 0
                                                 THEN cycle.start ELSE @]
                /\ seen' = IF sent.nonce = NoNonce THEN seen
                           ELSE [seen EXCEPT ![sent.nonce] = cycle.start]
           ELSE UNCHANGED <<runs, seen>>
    /\ cycle' = [cycle EXCEPT !.todo = Tail(@)]
    /\ UNCHANGED <<clock, pins, misses, decoyNext, stamped, applied>>

\* The policy envelope, named by its signer, and the dead-man accounting that
\* close a real cycle.
Settle(policy, clear) ==
    /\ At("commands")
    /\ cycle.todo = <<>>
    /\ applied' = IF policy # NoKey /\ policy = serverPin
                  THEN applied \cup {policy} ELSE applied
    /\ IF clear THEN misses' = 0 ELSE Missed
    /\ cycle' = NoCycle
    /\ UNCHANGED <<clock, pins, seen, decoyNext, stamped, runs>>

-----------------------------------------------------------------------------
(* The server and the clock.                                               *)

\* The server puts a command, new or sent before, into an envelope: dated or
\* not, by a clock that may lag behind the device's or lead it.  One made
\* earlier has an earlier date, so it is enough to make them for a response.
Stamp(v) ==
    /\ At("post")
    /\ stamped[v] = NotStamped
    /\ \E c \in Commands, ts \in 0 .. clock + Ahead, nonce \in Nonces \cup {NoNonce} :
        stamped' = [stamped EXCEPT ![v] = [command |-> c, ts |-> ts,
                                           nonce |-> nonce]]
    /\ UNCHANGED <<clock, pins, seen, misses, cycle, decoyNext, runs, applied>>

Delivered == {v \in Envelopes : stamped[v] # NotStamped}

Batches == UNION {[1 .. n -> Delivered] : n \in 0 .. MaxBatch}

Tick ==
    /\ clock < MaxTime
    /\ cycle # NoCycle => clock - cycle.start < Latency
    /\ clock' = clock + 1
    /\ UNCHANGED <<pins, seen, misses, cycle, decoyNext, history>>

Next ==
    \/ \E decoy \in BOOLEAN : Begin(decoy)
    \/ \E operator, server \in Pin \cup {WeakKey} : Enroll(operator, server)
    \/ CallFails \/ HmacFails \/ Command \/ Tick
    \/ \E todo \in Batches : Respond(todo)
    \/ \E policy \in Pin, clear \in BOOLEAN : Settle(policy, clear)
    \/ \E v \in Envelopes : Stamp(v)

Spec == Init /\ [][Next]_vars

-----------------------------------------------------------------------------
(* Properties.                                                             *)

Defended(v) ==
    stamped[v] # NotStamped /\ stamped[v].nonce # NoNonce /\ stamped[v].ts # 0

\* What the comment on evict_stale_nonces claims of a ttl equal to the skew:
\* the command of an envelope with a date and a nonce is handed to the platform
\* at most once, however often and however late the server delivers it.
DispatchedOnce == \A v \in Envelopes : Defended(v) => dispatched[v] <= 1

\* What evict_stale_nonces and verify_command together do achieve, whatever the
\* server, its clock and the delays, as long as the device's clock is not set
\* back: no envelope with a date and a nonce runs three times, and one runs
\* twice only if the cycle that ran it first had read the clock before that date.
RedeliveryBounded ==
    \A v \in Envelopes : Defended(v) =>
        /\ dispatched[v] <= 2
        /\ dispatched[v] = 2 => first[v] < stamped[v].ts

\* Every ordinary command ever dispatched, and every policy ever applied, was
\* signed by the key that is pinned now, and every operator command by the
\* provisioned operator key: neither key ever stood in for the other, and no
\* enrolment replaced a pin that had been used.
DispatchedUnderPins ==
    /\ \A v \in Envelopes : dispatched[v] > 0 =>
        LET c == stamped[v].command
        IN  Signer[c] = IF c \in Duress THEN OperatorKey ELSE serverPin
    /\ applied \subseteq {serverPin}

\* enroll keeps both keys of one acceptable response or neither: pins move only
\* in the step that enrols the device, to valid keys, and a pin never changes.
PinsMoveTogether ==
    [][<<operatorPin, serverPin>>' # <<operatorPin, serverPin>> =>
        /\ ~enrolled /\ enrolled'
        /\ operatorPin' \in Pin /\ serverPin' \in Pin
        /\ operatorPin # NoKey => operatorPin' = operatorPin
        /\ serverPin # NoKey => serverPin' = serverPin]_vars
=============================================================================
