\* A per-user policy vault with Syncthing beside a machine-wide personal one; room for one record.
CONSTANTS
    shared = shared
    private = private
    team = team
    alice = alice
    bob = bob
    a1 = a1
    a2 = a2
    b1 = b1
    Entries = {team, private}
    Policy = {private}
    PerUser = {private}
    SyncOn = {private}
    Users = {alice, bob}
    Owner <- OwnedByAlice
    Admins = {}
    Logons = {a1, b1}
    UserOf <- UserOfLogon
    Slots = {1}
    MaxMounts = 1
    MaxGen = 2
    MaxFaults = 1
    Foreign = Foreign
    NoMount = NoMount
    NoOp = NoOp
    NoReply = NoReply
SPECIFICATION Spec
INVARIANTS UnmountedIsTrue WithinCapacity
PROPERTIES PolicyEditSafe PauseObligationKept
