SPECIFICATION Spec
CONSTANTS
  http = http
  https = https
  Paths <- MCPaths
  Uris <- MCUris
  Endpoints = {http, https}
  Secure = {https}
  Conns = {c1}
  Calls <- MCCalls
  MaxCalls = 3
  MaxServers = 2
INVARIANTS TypeOK PointersAlive  ServedAsRegistered RunningCallbackAlive SecuredAsConfigured FreesItsCopies LeaksOnlyReplaced
CHECK_DEADLOCK FALSE
