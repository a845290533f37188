CONSTANTS
  j1 = j1  j2 = j2
  WinJobs = {j1}
  Pages = 1
  WinQueueSize = 1
  MaxCallFaults = 0
  MaxTouches = 1
SPECIFICATION SpoolSpec
CHECK_DEADLOCK FALSE
INVARIANTS PausedJobsStay
