SPECIFICATION Spec
CONSTANTS
  Timeout = 2
  Period = 1
  MaxBeats = 2
  Clients = {c1, c2}
  MaxRetries = 1
  MaxOkBeats = 1
  Polls = 2
  Processors = {p1, p2}
  Values = {0, 1, 3}
  Ref = 1
  Minimize = FALSE
  MaxTasks = 3
  RegionTasks = 3
  Ratio = 2
  NoValue = NoValue
CHECK_DEADLOCK FALSE
INVARIANTS TimeoutMeansSilence OutcomeReportedOnce TasksAccounted
PROPERTY ProgramsEnd
