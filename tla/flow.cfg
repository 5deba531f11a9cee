SPECIFICATION Both
CONSTANTS
  worker = worker
  other_worker = other_worker
  Main = main
  Worker <- MCWorker
  Local = local_worker
  Overlap = FALSE
  CutsInside = TRUE
  FluxLimitor = 1
  DaysPerMonth = 2
  LastDate = 2
  Bound <- MCBound
  Thread <- MCThread
  MaxFd = 2
  MaxCalls = 3
  MaxFaults = 1
INVARIANTS
  TrafficConserved
  CalendarExact
  MonthsCoverTotal
  
  SamplesAreRecent
