SPECIFICATION FairSpec
CONSTANTS
  Conns = {c1}
  IoSize = 2
  Pipelined = FALSE
  MaxRequests = 2
  Disruptions = {"disconnect", "shutdown", "wakeup_fails"}
  MaxAsync = 2
  MaxChunks = 3
  ChunkSizes = {1}
  Jobs = {"send", "stream"}
  Routes = {"reply", "stream", "silent", "async"}
PROPERTIES SendAnswered RegisteredWaiterReleased CloseTerminates NullStreamAnswered
CHECK_DEADLOCK FALSE
