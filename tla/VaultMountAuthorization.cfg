\* A mount request authorized before the policy changes.
CONSTANTS
    shared = shared
    private = private
    team = team
    alice = alice
    bob = bob
    a1 = a1
    a2 = a2
    b1 = b1
    Entries = {private}
    Policy = {private}
    PerUser = {private}
    SyncOn = {}
    Users = {alice, bob}
    Owner <- OwnedByAlice
    Admins = {}
    Logons = {a1, b1}
    UserOf <- UserOfLogon
    Slots = {1}
    MaxMounts = 1
    MaxGen = 1
    MaxFaults = 0
    Foreign = Foreign
    NoMount = NoMount
    NoOp = NoOp
    NoReply = NoReply
SPECIFICATION Spec
INVARIANT MountedUnderCurrentPolicy
