SPECIFICATION FairSpec
CONSTANTS
    plain = plain
    again = again
    dynamic = dynamic
    emote = emote
    other = other
    None = None
    Requests <- MCRequests
    Urls = {emote}
    UrlOf <- MCUrlOf
    Cached <- MCLoads
    Concurrent <- MCLoads
    Timed <- MCOther
    Called <- MCOther
    Finally <- MCOther
    Images = {plain, dynamic}
    KeyOf <- MCKeyOf
    Dynamic = {dynamic}
    MaxLoads = 2
    MaxRequests = 2
    MaxSweeps = 1
INVARIANTS
    TypeOK
    OneOutcome
    LoadedIsTracked
PROPERTIES
    AnswersArrive
CHECK_DEADLOCK FALSE
