SPECIFICATION SpecPipeline
CONSTANTS
  Values = {0, 1, 2}
  Null = 0
  Truth <- GraphTruth
  Found <- GraphFound
  Computed <- GraphComputed
  Aggregated <- GraphAggregated
  SortKey <- GraphSortKey
  SortKeys = 4
  Picks <- GraphPicks
  UserVars = {"a", "b"}
  MaxSynth = 2
  Vars <- AllVars
  Fresh <- SynthName
  NumSpines = 6
  MaxClauses = 2
  Queries <- Queried
  Analysis <- Report
INVARIANTS TypeOK VisibleIsBound FitForOptimize ColumnsAgree MeansTheQuery ColumnsKept NoFalseAlarm TypedIsVisible TypesFitThePlan
PROPERTIES FromPlanToPushdown AnswersOptimized
