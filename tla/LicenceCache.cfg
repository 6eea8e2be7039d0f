CONSTANTS
    a = a
    b = b
    c = c
    Licences = {a, b, c}
    Tokens <- MCTokens
    NoToken = NoToken
    NoCache = NoCache
    Tasks = {t1}
    NoTask = NoTask
    NoWriter = NoWriter
    MaxRecords = 2
    MaxTime = 1
    MaxEpoch = 1
SPECIFICATION FairSpec
INVARIANTS TypeOK HistoryBounded RetryAllowed
PROPERTIES NeverRollsBack RecoveryCompletes
