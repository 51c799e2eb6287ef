\* Two replicas execute a job while tasks move and a lease is lost.
\* The bounds end a behavior: no deadlock check.
CONSTANTS
    a = a
    b = b
    h = h
    k = k
    NoOne = NoOne
    Runners <- MCRunners
    Handlers <- OneHandler
    Verbs = {"delete"}
    Ops = {"execute"}
    Scopes = {2}
    ExecBatch = 2
    MaxCandidates = 9
    MaxClaims = 2
    MaxRequests = 1
    MaxMoves = 1
    MaxFaults = 2
SPECIFICATION Spec
INVARIANTS ResultsAreHonest
SYMMETRY Symmetry
CHECK_DEADLOCK FALSE
