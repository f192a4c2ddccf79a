\* A violation: the code does not do what its documentation says.
CONSTANTS
  tutorial = tutorial
  classic = classic
  ProjectLevels <- MCProjectLevels
  ResourceLevel = classic
  Converts = FALSE
  MaxSource = 1
  MaxResource = 1
  MaxFailures = 2
SPECIFICATION PartsSpec
INVARIANTS ResourcesAreFresh
