\* A resume is written over a cancel that was granted meanwhile.
\* The bounds end a behavior: no deadlock check.
CONSTANTS
    a = a
    b = b
    h = h
    k = k
    NoOne = NoOne
    Runners <- MCRunners
    Handlers <- TwoHandlers
    Verbs = {"archive"}
    Ops = {"cancel", "pause", "resume"}
    Scopes = {1}
    ExecBatch = 1
    MaxCandidates = 9
    MaxClaims = 9
    MaxRequests = 3
    MaxMoves = 0
    MaxFaults = 0
SPECIFICATION Spec
PROPERTY TerminalIsFinal
SYMMETRY Symmetry
CHECK_DEADLOCK FALSE
