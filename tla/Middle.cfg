SPECIFICATION MiddleSpec
CONSTANTS
  Programs <- CleanupPrograms
  Outcomes <- CleanupValues
  Slack = 0
INVARIANTS AllTypesOK SameMeaning PhisOnlyWhereWritesMeet SameBehaviour SameTraces
PROPERTY CleanedUp
CHECK_DEADLOCK FALSE
