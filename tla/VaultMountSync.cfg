\* A per-user personal vault with Syncthing, two logons of its owner, who
\* keeps asking for a record that was retained to be retired.
CONSTANTS
    shared = shared
    private = private
    team = team
    alice = alice
    bob = bob
    a1 = a1
    a2 = a2
    b1 = b1
    Entries = {private}
    Policy = {}
    PerUser = {private}
    SyncOn = {private}
    Users = {alice, bob}
    Owner <- OwnedByAlice
    Admins = {}
    Logons = {a1, a2}
    UserOf <- UserOfLogon
    Slots = {1}
    MaxMounts = 1
    MaxGen = 2
    MaxFaults = 2
    Foreign = Foreign
    NoMount = NoMount
    NoOp = NoOp
    NoReply = NoReply
SPECIFICATION LiveSpec
INVARIANTS TypeOK RegistryAgrees
PROPERTIES CleanupCompletes RetiredOnlyWhenClean PauseObligationKept
