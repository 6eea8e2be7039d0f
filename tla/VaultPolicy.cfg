CONSTANTS
    e1 = e1
    e2 = e2
    u1 = u1
    u2 = u2
    Entries = {e1, e2}
    Machine = {e2}
    Users = {u1, u2}
    Fleet = Fleet
    Grants <- MCGrants
    Memberships <- MCMemberships
    Open = Open
    NoGroup = NoGroup
    NoPolicy = NoPolicy
    NoEdit = NoEdit
    MaxVersion = 2
    MaxFile = 2
    MaxFaults = 2
SPECIFICATION FairSpec
INVARIANTS TypeOK CurrentIsDurable
PROPERTIES EditIsAtomic RevisionsAdvance RecoveryVerified
CHECK_DEADLOCK FALSE
