CONSTANTS
  a = a
  b = b
  c = c
  Main = Main
  Null = Null
  Blank = 0
  Vals = {0, 1}
  Coroutines <- MCCoroutines
  StackMgrSet = TRUE
  Asserts = FALSE
  Misuse <- MCNone
  MaxDepth = 4
SPECIFICATION Spec
INVARIANTS TypeOK RunningIsTop SinkIsBelow OneCopy NoCrash
SYMMETRY MCSymmetry
PROPERTY ImplementsCoroutine
