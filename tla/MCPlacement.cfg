SPECIFICATION Spec
CONSTANTS
  MaxClauses = 4
  MaxModifiers = 6
  Statements <- AllStatements
INVARIANTS TypeOK AcceptsWellPlaced RejectsMisplaced BlamesTheFirst
PROPERTIES Decides
