SPECIFICATION FairSpec
CONSTANTS
  Conns = {c1}
  IoSize = 2
  Pipelined = FALSE
  MaxRequests = 1
  Disruptions = {"disconnect"}
  MaxAsync = 1
  MaxChunks = 2
  ChunkSizes = {1}
  Jobs = {"stream"}
  Routes = {"async"}
PROPERTY BegunWaiterReleased
CHECK_DEADLOCK FALSE
