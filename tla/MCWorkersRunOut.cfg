\* One worker per service, and two callers.
SPECIFICATION FairSpec
CONSTANTS
    webTorrent = webTorrent
    itorrents = itorrents
    Requests = {q1, q2}
    Services <- MCServices
    Cap <- MCCapOne
    RateLimited = {itorrents}
    NoRequest = NoRequest
PROPERTIES
    EveryCallAnswered
CHECK_DEADLOCK FALSE
