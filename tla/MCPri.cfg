CONSTANTS
  Contents <- const_Contents
  Contexts <- const_Contexts
SPECIFICATION Spec
CHECK_DEADLOCK FALSE
INVARIANTS
  TypeOK
  AnswersAsWritten
  IncompleteIsRefused
  MoreSpecificWins
  ClosestWins
