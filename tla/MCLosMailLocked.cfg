SPECIFICATION MailSpec
CONSTANTS
  t1 = t1
  t2 = t2
  q1 = q1
  q2 = q2
  x = x
  y = y
  z = z
  readers1 = readers1
  readers2 = readers2
  writers1 = writers1
  writers2 = writers2
  allocators1 = allocators1
  allocators2 = allocators2
  Idle = idle
  Dummy = Dummy
  TcbArray <- MCTcbArray
  SysTask = {idle}
  Lowest = 2
  WaitList = {readers1, readers2, writers1, writers2, allocators1, allocators2}
  FreeTask = FreeTask
  RecycleList = RecycleList
  CreatePrio <- MCCreatePrio
  PriSetArg = {}
  MaxTicks = 1
  MaxLock = 1
  TimeSlice = 1
  IsrSuspends = FALSE
  NoCall = NoCall
  QueueArray <- MCQueueArray
  ReadWriteList <- MCReadWriteList
  MemList <- MCMemList
  QueueLens = {1}
  Msg = {}
  NoMsg = NoMsg
  QueueTimeouts = {}
  MailPool <- MCMailPool
  NoMail = NoMail
  MailTimeouts <- MCTimeouts
  LockedAllocs = TRUE
INVARIANT
  MailNeverNull
CHECK_DEADLOCK FALSE
