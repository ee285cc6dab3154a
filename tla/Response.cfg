SPECIFICATION Spec
CONSTANTS
  Conns = {c1}
  IoSize = 2
  Pipelined = FALSE
  MaxRequests = 3
  Disruptions = {"disconnect", "shutdown", "wakeup_fails", "wakeup_lost"}
  MaxAsync = 2
  MaxChunks = 2
  ChunkSizes = {1}
  Jobs = {"send", "stream"}
  Routes = {"reply", "stream", "silent", "async"}
INVARIANTS TypeOK WireWellFormed LoadedStateFresh NoLostNotify
PROPERTIES ChunkBackpressure KeepsPromise
CHECK_DEADLOCK FALSE
