SPECIFICATION Spec
CONSTANTS
  MaxExprDepth = 4
  MaxInt = 7
  Digit = 4
  MaxString = 3
  MaxPlanConjuncts = 3
  MutateBatchSize = 2
  MaxStatements = 3
  Sessions = {1, 2}
  Stores <- MCStores
  Statements <- MCStatements
  Expressions <- MCExpressions
  Conditions <- MCConditions
INVARIANTS IndexConsistent NoOrphans ParsedAsWritten PlanSound
PROPERTY StatementsMean
CHECK_DEADLOCK FALSE
