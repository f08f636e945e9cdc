SPECIFICATION Spec
CONSTANTS
  Vars = {"x", "y", "p", "q"}
  RowNames = {"x", "y"}
  Inputs <- ShadowedInputs
INVARIANT NoFalseMismatch
