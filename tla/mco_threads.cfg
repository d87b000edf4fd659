CONSTANTS
  t1 = t1
  t2 = t2
  a = a
  b = b
  c = c
  Null = Null
  Threads <- MCThreads
  Coroutines <- MCCoroutines
  MaxDepth = 4
SPECIFICATION Spec
INVARIANTS McoThreadsTypeOK OneThreadPerRoutine FramesAreOwn
SYMMETRY MCSymmetry
PROPERTY ImplementsMovingCoroutines
