SPECIFICATION PartSpec
CONSTANTS
  Ids = {j1, j2}
  Schedules <- AllSchedules
  Sessions = {s1}
  NoSession = NoSession
  NoJob = NoJob
  MaxJobs = 1
  MaxClock = 3
  MaxCalls = 3
  Sockets = {k1, k2}
  Operators = {o1}
  BusSize = 1
  MaxQuestions = 2
  Loops = {p1, p2}
  MaxTurns = 3
  Trigger = 2
  Keep = 2
  MinNew = 1
  MaxSeen = 2
INVARIANTS
  MismatchHasACause
  TimerExact
  OneShotRunsOnce
  CutShortIsRetried
  PairsStayTogether SummaryIsOfPrefix NothingForgotten StoredTurnsStay
PROPERTIES
  DueJobRuns
\* With the runtime stopped, sockets wait for room on the bus for good.
CHECK_DEADLOCK FALSE
