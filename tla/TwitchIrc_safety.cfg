SPECIFICATION FairSpec
CONSTANTS
    a = a
    alice = alice
    eventsub = eventsub
    Anon = Anon
    Conns = {"read", "write"}
    Channels = {a}
    Accounts = {alice}
    Budget = 1
    Threads = {eventsub}
    MaxOpens = 2
    MaxBreaks = 1
    MaxSwitches = 1
INVARIANTS
    TypeOK
    LossIsRetried
    TimeoutIsEarned
    OpenIsJoined
    ClosedIsParted
    JoinsAreSpaced
PROPERTIES
    EventuallyJoined
CHECK_DEADLOCK FALSE
