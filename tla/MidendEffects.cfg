\* A violation: a block whose one instruction is a call with an effect.
SPECIFICATION EffectsSpec
CONSTANTS
  Programs <- CleanupPrograms
  Outcomes <- CleanupValues
  Slack = 0
INVARIANT EffectsAreKept
CHECK_DEADLOCK FALSE
