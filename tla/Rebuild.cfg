\* One edit of each kind falls before, inside or after any step of any number
\* of rebuilds, and two publications fail at any file.
CONSTANTS
  tutorial = tutorial
  classic = classic
  ProjectLevels <- MCProjectLevels
  ResourceLevel = classic
  Converts = FALSE
  MaxSource = 1
  MaxResource = 1
  MaxFailures = 2
SPECIFICATION PartsSpec
INVARIANTS AllTypesOK PublishedAssetsExist ClientNeverStranded LevelsPlayCurrentEngine SourceIsFresh EnginesMean
