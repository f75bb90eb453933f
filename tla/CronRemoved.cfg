SPECIFICATION Spec
CONSTANTS
  Ids = {j1}
  Schedules <- Recurring
  Sessions = {s1}
  NoSession = NoSession
  NoJob = NoJob
  MaxJobs = 1
  MaxClock = 3
  MaxCalls = 3
PROPERTIES
  RemovedNeverStarts
