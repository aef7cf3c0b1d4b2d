SPECIFICATION Spec
CONSTANTS
  Calls = {"execute", "inspect", "unknown", "unapproved", "denied", "out of tree"}
  Body <- MCBody
  ToolDefs <- MCToolDefs
  Rules <- MCRules
  Approvals = {"p1"}
  Grants <- MCGrants
  MaxGrants = 2
  MaxToolFaults = 1
  Planners = {"new", "old"}
  Unevidenced = {"old"}
  PlanRequests <- MCPlanRequests
  CatalogModel <- Row
  ModelRecords <- MCModelRecords
  DeploymentOrder <- MCDeploymentOrder
  ConfiguredRow <- MCConfiguredRow
  OperatorRows <- MCOperatorRows
  FirstPolicies <- MCFirstPolicies
  MorePolicies <- MCMorePolicies
  Usage <- MCUsage
  MaxClock = 2
  MaxUpdates = 2
  Dimensions = {"cost", "attempts"}
  Limit <- MCLimit
  Reservations = {"n1", "n2", "n3"}
  NodeOrder <- MCNodeOrder
  DependsOn <- MCDependsOn
  Estimated <- MCEstimated
  ToolNodes = {"n1"}
  MaxCost = 2
  MaxRounds = 4
  MaxRetries = 1
  Visitors = {"v1", "v2"}
  Tokens <- MCTokens
  APICalls <- MCAPICalls
  KeyIds = {"k1", "k2"}
  FirstKeys = {"k1"}
  ScopedTasks = {"x", "y"}
  FirstOwners <- MCFirstOwners
  TTL = 1
  FetchTime = 1
  Skew = 1
  MaxTime = 4
INVARIANTS
  
  
  CountersAreSums
  OverspendIsOverrun
  AcceptedPlanNeverStuck
  
  AnsweredUnderCurrentKey
CHECK_DEADLOCK FALSE
