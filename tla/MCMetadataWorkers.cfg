\* Liveness is checked, so there is no symmetry.  The system may stop: when
\* all the workers have ended and every caller waits.
SPECIFICATION FairSpec
CONSTANTS
    webTorrent = webTorrent
    itorrents = itorrents
    Requests = {q1, q2, q3}
    Services <- MCServices
    Cap <- MCCap
    RateLimited = {itorrents}
    NoRequest = NoRequest
INVARIANTS
    TypeOK
    CapsRespected
    SlotsAccountedFor
    WaitingOnce
PROPERTIES
    AnsweredWhileWorkersRun
CHECK_DEADLOCK FALSE
