\* The sweeper and the indexer: what two replicas do to Redis and to their own state.
\* The bounds end a behavior: no deadlock check.
CONSTANTS
    a = a
    b = b
    NoOne = NoOne
    Instances <- MCInstances
    TokenSeqRange = 10
    LegacySeqs = {}
    MaxSec = 0
    MaxClaims = 2
    MaxLosses = 0
    Engines = {"stats", "errsig"}
    BatchesOf <- MCBatchesOf
    ChunksOf <- MCChunksOf
    FaultsOf <- MCFaultsOf
SPECIFICATION EngineSafety
INVARIANTS EngineTypeOK TokenlessHolderWasRefused UnfencedOnlyAfterLapse
PROPERTIES RefusedClaimIsDropped RoleSpec
SYMMETRY Symmetry
CHECK_DEADLOCK FALSE
