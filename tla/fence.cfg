\* Three processes, a clock that moves both ways, a Redis that may lose its last
\* writes, a fence key left by an old release.  The bounds end a behavior: no
\* deadlock check.
CONSTANTS
    a = a
    b = b
    c = c
    NoOne = NoOne
    Instances <- MCInstances
    TokenSeqRange = 5
    LegacySeqs = {3}
    MaxSec = 1
    MaxClaims = 3
    MaxLosses = 2
SPECIFICATION Spec
INVARIANTS FenceTypeOK LockMatchesFence TokensGrow
PROPERTY ExecByLastOwner
CHECK_DEADLOCK FALSE
