CONSTANTS
    t1 = t1
    t2 = t2
    d1 = d1
    d2 = d2
    Tasks = {t1, t2}
    Ids = {d1, d2}
    OldId = d1
    None = None
    Foreign = Foreign
    MaxBody = 2
    MaxTime = 2
    Validity = 1
    MaxSetBacks = 1
    MaxNonce = 2
SPECIFICATION Spec
INVARIANTS TypeOK EnrolledIsKept ConfirmedIsEnrolled OneRelease AcknowledgedIsRecorded
