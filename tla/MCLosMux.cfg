SPECIFICATION MuxSpec
CONSTANTS
  t1 = t1
  t2 = t2
  t3 = t3
  m1 = m1
  m2 = m2
  Idle = idle
  Dummy = Dummy
  TcbArray <- MCTcbPair
  SysTask = {idle, t1}
  Lowest = 2
  WaitList = {m1, m2}
  FreeTask = FreeTask
  RecycleList = RecycleList
  CreatePrio <- MCCreatePrio
  PriSetArg = {}
  MaxTicks = 1
  MaxLock = 0
  TimeSlice = 1
  IsrSuspends = FALSE
  NoCall = NoCall
  MuxArray <- MCMuxArray
  NoOwner = NoOwner
  MuxTimeouts = {1}
  MaxNest = 2
  Ordered = TRUE
INVARIANTS
  ListsAgree
  WaitsForOwner
  PriorityRestored
PROPERTY
  ImplementsMutex
CHECK_DEADLOCK FALSE
