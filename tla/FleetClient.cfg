\* A command in two envelopes, each redelivered; restored pins and decoys, a server
\* clock that lags or leads, and cycles that take time.
CONSTANTS
    operator = operator
    server = server
    alarm = alarm
    posing = posing
    task = task
    Commands = {alarm, posing, task}
    Duress = {alarm, posing}
    Signer <- SignedBy
    Envelopes = {v1, v2}
    Nonces = {n1}
    NoNonce = NoNonce
    Keys = {operator, server}
    OperatorKey = operator
    WeakKey = WeakKey
    NoKey = NoKey
    Skew = 1
    Ahead = 1
    Latency = 1
    Decoys = TRUE
    MaxTime = 4
    MaxMisses = 0
    MaxBatch = 2
    NoCycle = NoCycle
    NotStamped = NotStamped
SPECIFICATION Spec
SYMMETRY Alike
INVARIANTS TypeOK RedeliveryBounded DispatchedUnderPins
PROPERTY PinsMoveTogether
