CONSTANTS
    admin = admin
    user = user
    t1 = t1
    t2 = t2
    Tasks = {t1, t2}
    Users = {admin, user}
    Admins = {admin}
    Outsider = Outsider
    None = None
    TTL = 1
    Unreadable = TRUE
    MaxFile = 3
    MaxSerial = 3
    MaxTime = 1
    MaxFaults = 2
SPECIFICATION Spec
PROPERTY UnreadableIsPreserved
SYMMETRY Symmetry
CHECK_DEADLOCK FALSE
