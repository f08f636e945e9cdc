SPECIFICATION Spec
CONSTANTS
  Vars = {"x", "y", "p", "q"}
  RowNames = {"x", "y"}
  Inputs <- CorrelatedInputs
INVARIANT UsedIsLookedUp
