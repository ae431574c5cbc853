SPECIFICATION Spec
CONSTANTS
    plain = plain
    again = again
    dynamic = dynamic
    emote = emote
    other = other
    None = None
    Requests <- MCRequests
    Urls = {emote}
    UrlOf <- MCUrlOf
    Cached <- MCLoads
    Concurrent <- MCLoads
    Timed <- MCOther
    Called <- MCOther
    Finally <- MCOther
    Images = {plain, again}
    KeyOf <- MCKeyOf
    Dynamic = {}
    MaxLoads = 1
    MaxRequests = 2
    MaxSweeps = 1
INVARIANTS
    NeverLocksTwice
CHECK_DEADLOCK FALSE
