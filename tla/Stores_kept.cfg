SPECIFICATION Spec
CONSTANTS
  None = None
  Base = 2
  MaxPageSize = 4
  Clients = {c1, c2}
  Groups = {"p", "q"}
  Queries <- MCQueries
  Rows <- MCRows
  MaxSaves = 3
  Savers = {c1, c2}
  ArtifactIds = {1, 2}
  Contexts = {"x", "y"}
  Uploads <- MCUploads
  Policies <- MCPolicies
  PageSizes = {1}
  StartTime = 6
  MaxTime = 8
  MaxCalls = 2
  MaxCrashes = 1
  Executions = {"e1"}
  Steps = {"a-b"}
  Asked = {"a_b", "a-b"}
  Likened <- MCLikened
  Capacity = 1
  MaxEvents = 3
  MaxRuns = 2
  Epsilon = 2
  Results <- MCResults
  Filters <- MCFilters
  Followed <- MCFollowed
  QuerySizes = {1, 2}
  MaxResultSaves = 3
  Aggregations <- MCAggregations
INVARIANT
  EventsKept
CHECK_DEADLOCK FALSE
