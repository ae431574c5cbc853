SPECIFICATION FairSpec
CONSTANTS
    a = a
    b = b
    c = c
    channel = channel
    user = user
    Topics <- BttvTopics
    Keys = {channel, user}
    Joins <- BttvJoins
    Parts <- BttvParts
    MaxSubs = 2
    MaxCloses = 2
    MaxJoins = 3
INVARIANTS
    TypeOK
    NoDuplicateSubscription
    WantedIsTracked
    BacklogHasDriver
    EventsMatchClients
    WithinCapacity
PROPERTIES
    EventuallySubscribed
