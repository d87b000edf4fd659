CONSTANTS
  m = m
  w1 = w1
  w2 = w2
  c1 = c1
  c2 = c2
  MainThread = m
  Listener = Listener
  Null = Null
  ListenFd = 3
  WakeFd = 0
  Threads <- MCTwoWorkers
  Conns <- MCPair
  Fds = {4}
  Limits = {{4}}
  Programs = {TRUE}
  Asserts = TRUE
  GuardedPool = TRUE
  Quitters <- MCNobody
  Urgents <- MCOneClient
  MaxChunks = 1
  MaxNum = 20
  AddStep = 15
SPECIFICATION FairSpec
INVARIANTS WaiterIsArmed NoFault OneThreadServes
PROPERTIES ReleasedAtTheEnd HangupsAreAnswered
