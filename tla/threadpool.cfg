CONSTANT MaxThreads = 4
SPECIFICATION Spec
CHECK_DEADLOCK FALSE
INVARIANTS ThreadPoolTypeOK NoThreadOutlivesPool
