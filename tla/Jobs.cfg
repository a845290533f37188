CONSTANTS
  j1 = j1  j2 = j2  p1 = p1
  Jobs = {j1, j2}
  Printers = {p1}
  PrinterOf <- SamePrinter
  MaxDeliveries = 2
  MaxDownloads = 1
  JobsCap = 1
  QueueSize = 1
  MaxSemaphores = 2
  MaxFaults = 2
  WinJobs = {j1, j2}
  Pages = 1
  WinQueueSize = 1
  MaxCallFaults = 1
  MaxTouches = 1
SPECIFICATION MCSpec
CHECK_DEADLOCK FALSE
INVARIANTS
  TypeOK OnePrintAtATime SemaphoresExact StatsExact NothingLeftBehind NotStuckInProgress DoneIsPrinted
  ContextFreed PrintedIsDone
PROPERTIES ImplementsService FinalStateStays EveryDeliveryEnds PollingEnds
