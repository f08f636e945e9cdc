SPECIFICATION Spec
CONSTANTS
  Ids = {7}
  NoId = NoId
  Queries = {good, malformed, unplannable}
  NoQuery = NoQuery
  Invalid = {malformed}
  Unplanned = {unplannable}
  Reported <- ReportOf
  PlanOf <- Planned
  OptimizeOf <- Pushed
  EstimateOf <- Estimated
  ColumnsOf <- ColumnsFor
  BindingsOf <- BindingsIn
  Capacity = 1
  Lines <- AllLines
  MaxLines = 2
INVARIANTS TypeOK AnswersInOrder ToolsAgree
PROPERTIES EveryLineAnswered StopsAfterTheInput
