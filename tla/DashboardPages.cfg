SPECIFICATION Console
CONSTANTS
  Filters = {"all", "errors"}
  MaxPages = 3
  Scenarios <- MCScenarios
  MaxFetches = 2
  Ranges = {"day", "week"}
  UsageScenarios <- MCUsageScenarios
INVARIANTS PagesTypeOK UsageTypeOK
PROPERTIES RowsSettle NavigationEnds NavigationKeepsRowsAligned ModelsNeverGoBack ModelsCatchUp UsageSettles ModelUsageSettles
CHECK_DEADLOCK FALSE
