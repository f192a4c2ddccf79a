CONSTANTS
  Temps <- FourTemps
  FlowGraphs <- FourBlocks
  TempSize = 6
  Sizes <- AllSizes
  Graphs <- AllGraphs
  Strategies <- AllStrategies
  N = 3
  Setups <- TwoSetups
  Codes <- BlockCodes
  Flows <- ThreeFlows
  MaxSteps = 4
SPECIFICATION SlotsSpec
INVARIANTS AllTypesOK NoOverlap NeverWorseThanBump SlotsAreSafe LivenessIsLeast SameObservations ShapeIsExact
PROPERTY Terminates
CHECK_DEADLOCK FALSE
