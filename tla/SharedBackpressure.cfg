SPECIFICATION Spec
CONSTANTS
  Conns = {c1, c2}
  IoSize = 2
  Pipelined = FALSE
  MaxRequests = 1
  Disruptions = {}
  MaxAsync = 2
  MaxChunks = 2
  ChunkSizes = {1}
  Jobs = {"stream"}
  Routes = {"async"}
PROPERTY ChunkBackpressure
CHECK_DEADLOCK FALSE
