SPECIFICATION Spec
CONSTANTS
  Exprs <- MCExprs
  Assignments <- MCAssignments
  Holds <- MCHolds
  Neg <- MCNeg
  Less <- MCLess
  ExprTrue = 1
  ExprFalse <- MCExprFalse
  Reads <- MCReads
  Cells <- MCCells
  Picks <- MCPicks
  Queries <- MCQueries
  OptionSets <- MCOptionSets
  MaxCalls = 3
  K = {1, 2, 3}
  V = {0, 1}
  Width = 3
  Byte = 2
  Constants <- MCConstants
  Points <- MCPoints
  Operands <- MCOperands
  ConstArrayOpt = TRUE
  CheckOvershift = TRUE
  MaxMatches = 2
  MaxCreates = 2
  Conditions <- MCConditions
  MaxConstraints = 3
  Word = 8
INVARIANTS CachesSound AnswersRight SearchesFindSets RangeIsTight FoldsRight PathConditionExact FastCexRight
CHECK_DEADLOCK FALSE
