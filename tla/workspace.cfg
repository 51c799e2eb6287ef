SPECIFICATION Spec
CONSTANTS
  Queues = {"a", "b"}
  Tasks = {1, 2, 3}
  Groups = {"g", "h"}
  NoGroup = NoGroup
  Home <- MCHome
  GroupOf <- MCGroupOf
  Tabs = {"retry", "completed", "aggregating"}
  Scenarios <- MCScenarios
  BulkLists = {"active", "pending", "scheduled", "retry", "archived", "completed"}
  Verbs <- MCVerbs
  PageSize = 2
  MaxPolled = 1
  MaxInFlight = 3
INVARIANTS WorkspaceTypeOK QuietTableIsOfTheQueue OneBatchInFlight SizeIsSumOfLists
PROPERTIES ShownNeverGoesBack RemovedWasActedOn
