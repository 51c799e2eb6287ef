\* Two windows a listing, one change on the server.  The bounds end a behavior: no deadlock check.
SPECIFICATION DrawerSpec
CONSTANTS
  scanned = scanned
  listed = listed
  Filters = {scanned, listed}
  ScanFilters = {scanned}
  Deletable = {scanned, listed}
  Tasks = {1, 2}
  None = None
  MaxMoves = 2
  MaxChanges = 1
  MaxInFlight = 2
INVARIANTS ConsoleTypeOK RowsAnswerTheQuery PausedIsAnnounced
PROPERTIES RowsHoldStill VerbsActOnChosen DrawerActsOnPeeked
CHECK_DEADLOCK FALSE
