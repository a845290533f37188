CONSTANTS
  j1 = j1  j2 = j2  p1 = p1
  Jobs = {j1}
  Printers = {p1}
  PrinterOf <- SamePrinter
  MaxDeliveries = 2
  MaxDownloads = 1
  JobsCap = 1
  QueueSize = 1
  MaxSemaphores = 1
  MaxFaults = 0
  WinJobs = {}
  Pages = 1
  WinQueueSize = 1
  MaxCallFaults = 0
  MaxTouches = 0
SPECIFICATION MCSpec
CHECK_DEADLOCK FALSE
INVARIANTS PrintedOnce
