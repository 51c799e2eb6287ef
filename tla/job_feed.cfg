\* One job, seen through a stream that fails in every way and through polls. Frames of other
\* jobs are without bound.
\* The bounds end a behavior: no deadlock check.
CONSTANTS
  States = {"running", "done"}
  SettledStates <- MCSettled
  NoJob = NoJob
  NoSnap = NoSnap
  MaxVersions = 1
  MaxMounts = 2
  MaxChan = 2
  MaxGets = 1
SPECIFICATION FairSpec
INVARIANTS FeedTypeOK OneStreamPerTab StandsDownForAStream SettledOnce
PROPERTIES EndStays EndIsShown
CHECK_DEADLOCK FALSE
