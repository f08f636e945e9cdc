SPECIFICATION Spec
CONSTANTS
  Values = {0, 1, 2}
  Null = 0
  Truth <- GraphTruth
  Found <- GraphFound
  Computed <- GraphComputed
  Aggregated <- GraphAggregated
  SortKey <- GraphSortKey
  SortKeys = 4
  Picks <- GraphPicks
  Vars = {"x", "y", "z", "i"}
  NumSpines = 2
  MaxOps = 2
  Questions <- PlainQuestions
INVARIANTS TypeOK SupplyExists RowsFromSupply UpdatesFromSupply
