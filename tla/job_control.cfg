\* Two replicas, two requests in progress, of every kind.
\* The bounds end a behavior: no deadlock check.
CONSTANTS
    a = a
    b = b
    h = h
    k = k
    NoOne = NoOne
    Runners <- MCRunners
    Handlers <- TwoHandlers
    Verbs = {"archive", "count"}
    Ops = {"execute", "cancel", "pause", "resume"}
    Scopes = {1}
    ExecBatch = 1
    MaxCandidates = 9
    MaxClaims = 2
    MaxRequests = 3
    MaxMoves = 0
    MaxFaults = 1
SPECIFICATION Spec
INVARIANTS JobTypeOK LeaseCarriesFence CandidatesFollowCursor
PROPERTIES BatchStartsOwned OnlyResumeRevives JobRoleSpec
SYMMETRY Symmetry
CHECK_DEADLOCK FALSE
