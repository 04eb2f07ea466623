SPECIFICATION EventSpec
CONSTANTS
  t1 = t1
  t2 = t2
  ev = ev
  f1 = f1
  f2 = f2
  Idle = idle
  Dummy = Dummy
  TcbArray <- MCTcbArray
  SysTask = {idle, t1}
  Lowest = 2
  WaitList = {ev}
  FreeTask = FreeTask
  RecycleList = RecycleList
  CreatePrio <- MCCreatePrio
  PriSetArg = {}
  MaxTicks = 1
  MaxLock = 0
  TimeSlice = 1
  IsrSuspends = FALSE
  NoCall = NoCall
  Event = {ev}
  EventBit = {f1, f2}
  Masks <- MCMasks
  EventCall <- MCEventCall
  EventTimeouts <- MCTimeouts
INVARIANTS
  NobodyMissesEvents
PROPERTY
  ImplementsEvents
CHECK_DEADLOCK FALSE
