SPECIFICATION Spec
CONSTANTS
  Values = {0, 1, 2}
  Null = 0
  Truth <- GraphTruth
  Found <- GraphFound
  Computed <- GraphComputed
  Aggregated <- GraphAggregated
  SortKey <- GraphSortKey
  SortKeys = 4
  Picks <- GraphPicks
  Vars = {"x", "y", "z"}
  NumSpines = 3
  Unit = 64
  MaxOps = 2
  Inputs <- AggregatePlans
INVARIANT EvalKept
