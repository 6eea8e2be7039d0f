\* Three requests at a time on two accounts.
CONSTANTS
    Accounts = {a1, a2}
    Values = {v1}
    MaxRevision = 2
    NoValue = NoValue
    Requests = {r1, r2, r3}
    Lanes = {l1, l2, l3}
    NoLane = NoLane
    NoJob = NoJob
    MaxAccounts = 2
    MaxRequests = 3
    MaxAccountRequests = 2
SPECIFICATION Spec
INVARIANTS TypeOK OneTransaction LettersStayCurrent AdmissionBounded
PROPERTY IsRegister
SYMMETRY Symmetry
