\* A violation: the index of an access is 2 times 1.5.
CONSTANTS
  Temps = {"a", "b", "c", "d"}
  Leaves = {"k"}
  Fresh = {"f", "g"}
  Commands = {"rebuild", "decode", "quit"}
  Quit = "quit"
  MaxLines = 1
SPECIFICATION PartsSpec
INVARIANTS ShiftedIsPlain
CHECK_DEADLOCK FALSE
