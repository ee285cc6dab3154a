SPECIFICATION Spec
CONSTANTS
  Threads = {loop, worker}
  Chars = {a}
  NewLine = nl
  BufferSize = 2
  MaxLogged = 4
INVARIANT WritesInBounds
CHECK_DEADLOCK FALSE
