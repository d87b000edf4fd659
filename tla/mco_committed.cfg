CONSTANTS
  a = a
  b = b
  c = c
  Main = Main
  Null = Null
  Blank = 0
  Vals = {0, 1}
  Coroutines <- MCCoroutines
  StackMgrSet = FALSE
  Asserts = FALSE
  Misuse <- MCNone
  MaxDepth = 4
SPECIFICATION Spec
CHECK_DEADLOCK FALSE
INVARIANT NoSegv
