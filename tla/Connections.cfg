SPECIFICATION Spec
CONSTANTS
  Conns = {c1, c2}
  IoSize = 2
  Pipelined = TRUE
  MaxRequests = 2
  Disruptions = {"disconnect", "shutdown", "wakeup_fails"}
  MaxAsync = 2
  MaxChunks = 1
  ChunkSizes = {1}
  Jobs = {"send", "stream"}
  Routes = {"async"}
INVARIANTS EveryWakeupHasTarget PendingUnanswered WakeupInv ExitTerminated NothingForgotten
CHECK_DEADLOCK FALSE
