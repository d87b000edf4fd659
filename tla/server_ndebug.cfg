CONSTANTS
  m = m
  w1 = w1
  w2 = w2
  c1 = c1
  c2 = c2
  MainThread = m
  Listener = Listener
  Null = Null
  ListenFd = 3
  WakeFd = 0
  Threads <- MCAlone
  Conns <- MCPair
  Fds = {4, 5}
  Limits = {{4, 5}}
  Programs = {TRUE}
  Asserts = FALSE
  GuardedPool = FALSE
  Quitters <- MCNobody
  Urgents <- MCNobody
  MaxChunks = 1
  MaxNum = 20
  AddStep = 15
SPECIFICATION Spec
INVARIANT ClosedIsErased
