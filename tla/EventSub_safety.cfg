SPECIFICATION Spec
CONSTANTS
    a = a
    b = b
    alice = alice
    bob = bob
    NoUser = NoUser
    Requests = {a, b}
    Owner <- TwoOwners
    Faults = {"release", "drop", "reconnect", "refuse", "forbid", "error", "lostAnswer"}
    MaxHandles = 3
    MaxDrops = 1
    MaxErrors = 1
INVARIANTS
    TypeOK
    OneConnecting
    ReferencesAreCounted
    SubscribedIsHeard
    ConnectionKnowsRequest
    UnsubscribingHasDelete
CHECK_DEADLOCK FALSE
