\* A machine-wide policy vault and a personal one take turns in one slot; bob is an administrator.
CONSTANTS
    shared = shared
    private = private
    team = team
    alice = alice
    bob = bob
    a1 = a1
    a2 = a2
    b1 = b1
    Entries = {shared, private}
    Policy = {shared}
    PerUser = {private}
    SyncOn = {}
    Users = {alice, bob}
    Owner <- OwnedByAlice
    Admins = {bob}
    Logons = {a1, b1}
    UserOf <- UserOfLogon
    Slots = {1}
    MaxMounts = 2
    MaxGen = 2
    MaxFaults = 2
    Foreign = Foreign
    NoMount = NoMount
    NoOp = NoOp
    NoReply = NoReply
SPECIFICATION Spec
INVARIANT RegistryAgrees
PROPERTIES ClosesOnlyItsOwn RetiredOnlyWhenClean
