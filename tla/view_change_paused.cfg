\* Two windows a listing, one change on the server.  The bounds end a behavior: no deadlock check.
SPECIFICATION DrawerSpec
CONSTANTS
  scanned = scanned
  listed = listed
  Filters = {scanned, listed}
  ScanFilters = {scanned}
  Deletable = {scanned, listed}
  Tasks = {1, 2}
  None = None
  MaxMoves = 3
  MaxChanges = 1
  MaxInFlight = 2
PROPERTY ViewChangeIsShown
CHECK_DEADLOCK FALSE
