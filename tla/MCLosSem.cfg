SPECIFICATION SemSpec
CONSTANTS
  t1 = t1
  t2 = t2
  s1 = s1
  Idle = idle
  Dummy = Dummy
  TcbArray <- MCTcbArray
  SysTask = {idle}
  Lowest = 2
  WaitList = {s1}
  FreeTask = FreeTask
  RecycleList = RecycleList
  CreatePrio <- MCCreatePrio
  PriSetArg = {}
  MaxTicks = 1
  MaxLock = 1
  TimeSlice = 1
  IsrSuspends = FALSE
  NoCall = NoCall
  SemArray <- MCSemArray
  MaxCounts = {1, 2}
  SemTimeouts <- MCTimeouts
INVARIANTS
  SemTypeOK
  ListsAgree
  WaitsWhereItCalled
  NoIdlePermit
  HighestReadyRuns
PROPERTY
  ImplementsSemaphore
CHECK_DEADLOCK FALSE
