\* Two replicas: does a job that needs a worker come to rest?
\* The bounds end a behavior: no deadlock check.
CONSTANTS
    a = a
    b = b
    h = h
    k = k
    NoOne = NoOne
    Runners <- MCRunners
    Handlers <- OneHandler
    Verbs = {"archive"}
    Ops = {"execute", "cancel", "pause", "resume"}
    Scopes = {1, 2}
    ExecBatch = 1
    MaxCandidates = 1
    MaxClaims = 9
    MaxRequests = 2
    MaxMoves = 0
    MaxFaults = 1
SPECIFICATION FairSpec
PROPERTY JobSettles
CHECK_DEADLOCK FALSE
