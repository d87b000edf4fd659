CONSTANTS
  l1 = l1
  l2 = l2
  l3 = l3
  l4 = l4
  l5 = l5
  l6 = l6
  Null = Null
  Loops <- MCLoops
  Tids <- MCTids
  TidOf <- MCTidOf
SPECIFICATION FairSpec
INVARIANTS LoopPoolTypeOK Registered
PROPERTIES ServesInRounds NoLoopStarves
