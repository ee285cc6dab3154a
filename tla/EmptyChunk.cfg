SPECIFICATION Spec
CONSTANTS
  Conns = {c1}
  IoSize = 2
  Pipelined = FALSE
  MaxRequests = 1
  Disruptions = {}
  MaxAsync = 1
  MaxChunks = 2
  ChunkSizes = {0, 1}
  Jobs = {"stream"}
  Routes = {"async"}
INVARIANT OneTermination
CHECK_DEADLOCK FALSE
