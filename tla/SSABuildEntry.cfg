\* A violation: the entry block is the head of a loop.
SPECIFICATION EntrySpec
CONSTANTS
  Programs <- CleanupPrograms
  Outcomes <- CleanupValues
  Slack = 0
INVARIANT UndefWhenUnwritten
CHECK_DEADLOCK FALSE
