\* Two replicas: who works when processes stop, crash and lose leases.
\* The bounds end a behavior: no deadlock check.
CONSTANTS
    a = a
    b = b
    NoOne = NoOne
    Instances <- MCInstances
    TokenSeqRange = 10
    LegacySeqs = {}
    MaxSec = 0
    MaxClaims = 2
    MaxLosses = 0
    Engines = {"hygiene"}
    BatchesOf <- MCOne
    ChunksOf <- MCOne
    FaultsOf <- MCOne
SPECIFICATION EngineSpec
PROPERTY RoleIsTakenOver
CHECK_DEADLOCK FALSE
