SPECIFICATION Spec
CONSTANTS
  Vars = {"x", "y", "p", "q"}
  RowNames = {"x", "y"}
  Inputs <- AllInputs
INVARIANTS TypeOK UsedIsLookedUp ReportedIsUsed InferredFits NoFalseMismatch
PROPERTY NothingForgotten
