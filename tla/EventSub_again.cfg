SPECIFICATION Spec
CONSTANTS
    a = a
    b = b
    alice = alice
    bob = bob
    NoUser = NoUser
    Requests = {a}
    Owner <- OneOwner
    Faults = {"release"}
    MaxHandles = 2
    MaxDrops = 0
    MaxErrors = 0
INVARIANTS
    RetryingIsInProgress
CHECK_DEADLOCK FALSE
