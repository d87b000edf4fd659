CONSTANTS
  m = m
  w1 = w1
  w2 = w2
  c1 = c1
  c2 = c2
  MainThread = m
  Listener = Listener
  Null = Null
  ListenFd = 3
  WakeFd = 0
  Threads <- MCAlone
  Conns <- MCPair
  Fds = {4, 5}
  Limits = {{4}, {4, 5}}
  Programs = {TRUE, FALSE}
  Asserts = TRUE
  GuardedPool = FALSE
  Quitters <- MCAlone
  Urgents <- MCOneClient
  MaxChunks = 1
  MaxNum = 1
  AddStep = 1
SPECIFICATION FairSpec
CHECK_DEADLOCK FALSE
INVARIANTS ServerTypeOK WaiterIsArmed OnlyUrgentDataBlock NoFault FreeIsForgotten ClosedIsErased MutedOnlyWhileRunning NothingIsMissed
PROPERTIES HangupsAreAnswered WaitersAreAccepted DataIsRead QuitEnds ComesToRest ContractKept ImplementsConnections
