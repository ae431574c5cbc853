SPECIFICATION FairSpec
CONSTANTS
    a = a
    b = b
    alice = alice
    bob = bob
    NoUser = NoUser
    Requests = {a, b}
    Owner <- TwoOwners
    Faults = {"refuse", "error", "lostAnswer"}
    MaxHandles = 3
    MaxDrops = 0
    MaxErrors = 2
PROPERTIES
    EventuallyDecided
CHECK_DEADLOCK FALSE
