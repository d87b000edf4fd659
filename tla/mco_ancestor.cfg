CONSTANTS
  a = a
  b = b
  c = c
  Main = Main
  Null = Null
  Blank = 0
  Vals = {0, 1}
  Coroutines <- MCCoroutines
  StackMgrSet = TRUE
  Asserts = FALSE
  Misuse <- MCAncestor
  MaxDepth = 6
SPECIFICATION Spec
CHECK_DEADLOCK FALSE
INVARIANT YieldAssertion
