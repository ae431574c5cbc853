SPECIFICATION Spec
CONSTANTS
    a = a
    b = b
    alice = alice
    bob = bob
    NoUser = NoUser
    Requests = {a, b}
    Owner <- OneOwner
    Faults = {"drop", "reconnect", "refuse", "forbid", "error", "lostAnswer"}
    MaxHandles = 3
    MaxDrops = 2
    MaxErrors = 2
INVARIANTS
    AttemptsAreExclusive
    OneSubscription
CHECK_DEADLOCK FALSE
