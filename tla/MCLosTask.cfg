SPECIFICATION FairSpec
CONSTANTS
  t1 = t1
  t2 = t2
  Idle = idle
  Dummy = Dummy
  TcbArray <- MCTcbArray
  SysTask = {idle}
  Lowest = 2
  WaitList = {}
  FreeTask = FreeTask
  RecycleList = RecycleList
  CreatePrio <- MCCreatePrio
  PriSetArg = {0, 1}
  MaxTicks = 2
  MaxLock = 1
  TimeSlice = 2
  IsrSuspends = FALSE
INVARIANTS
  TypeOK
  ListsAgree
  HighestReadyRuns
  SwitchTargetFresh
  NoWildList
PROPERTIES
  NoSwitchWhileLocked
  DelayEnds
  RoundRobin
