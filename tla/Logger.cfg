SPECIFICATION Spec
CONSTANTS
  Threads = {loop}
  Chars = {a, b}
  NewLine = nl
  BufferSize = 3
  MaxLogged = 7
INVARIANTS TypeOK WritesInBounds NothingLost
PROPERTY WholeLines
CHECK_DEADLOCK FALSE
