SPECIFICATION QueueSpec
CONSTANTS
  t1 = t1
  t2 = t2
  q1 = q1
  a = a
  b = b
  readers = readers
  writers = writers
  allocators = allocators
  Idle = idle
  Dummy = Dummy
  TcbArray <- MCTcbArray
  SysTask = {idle, t1}
  Lowest = 2
  WaitList = {readers, writers, allocators}
  FreeTask = FreeTask
  RecycleList = RecycleList
  CreatePrio <- MCCreatePrio
  PriSetArg = {}
  MaxTicks = 1
  MaxLock = 0
  TimeSlice = 1
  IsrSuspends = FALSE
  NoCall = NoCall
  QueueArray <- MCQueueArray
  ReadWriteList <- MCReadWriteList
  MemList <- MCMemList
  QueueLens = {2}
  Msg = {a, b}
  NoMsg = NoMsg
  QueueTimeouts = {1}
INVARIANTS
  NodesAddUp
  NobodyWaitsInVain
  WokenOnLiveQueue
PROPERTY
  ImplementsQueue
SYMMETRY MCSymmetry
CHECK_DEADLOCK FALSE
