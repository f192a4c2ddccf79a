CONSTANTS
  Temps = {"a", "b", "c", "d"}
  Leaves = {"k"}
  Fresh = {"f", "g"}
  Commands = {"rebuild", "decode", "quit"}
  Quit = "quit"
  MaxLines = 4
SPECIFICATION FairSpec
INVARIANTS AllTypesOK NoLostWakeup ParallelSemantics SameEffects CostsAreBounded SameExecution ArenaIsExact SelectsAreGuarded
PROPERTIES ImplementsConsole StaysResponsive StopsWhenTold
CHECK_DEADLOCK FALSE
