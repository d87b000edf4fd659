CONSTANTS
  m = m
  t1 = t1
  t2 = t2
  Threads <- MCThreads
  Starter = m
  Null = Null
  Warm = TRUE
SPECIFICATION Spec
INVARIANTS PoolTypeOK OneObjectPerThread
SYMMETRY MCSymmetry
