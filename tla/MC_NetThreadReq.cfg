SPECIFICATION Spec
CONSTANTS
  Links = {}
  NoLink = NoLink
  Uses = {"Listen", "GetHostIp", "StopListen"}
  MaxReq = 3
  MaxStarts = 2
  MaxBacklog = 1
  Timeout = 1
INVARIANTS NoLostRequest
PROPERTIES EndsOnce SweepComplete
