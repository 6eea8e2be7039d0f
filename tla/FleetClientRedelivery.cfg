\* A command dated while its check-in is under way.
CONSTANTS
    operator = operator
    server = server
    alarm = alarm
    posing = posing
    task = task
    Commands = {alarm}
    Duress = {alarm}
    Signer <- SignedBy
    Envelopes = {v1}
    Nonces = {n1}
    NoNonce = NoNonce
    Keys = {operator, server}
    OperatorKey = operator
    WeakKey = WeakKey
    NoKey = NoKey
    Skew = 1
    Ahead = 0
    Latency = 1
    Decoys = FALSE
    MaxTime = 5
    MaxMisses = 1
    MaxBatch = 1
    NoCycle = NoCycle
    NotStamped = NotStamped
SPECIFICATION Spec
INVARIANT DispatchedOnce
