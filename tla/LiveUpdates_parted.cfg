SPECIFICATION Spec
CONSTANTS
    a = a
    b = b
    c = c
    channel = channel
    user = user
    Topics <- SeventvTopics
    Keys = {channel, user}
    Joins <- SeventvJoins
    Parts <- SeventvJoins
    MaxSubs = 2
    MaxCloses = 1
    MaxJoins = 3
INVARIANTS
    PartedIsReleased
