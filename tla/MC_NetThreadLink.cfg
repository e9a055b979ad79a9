SPECIFICATION FairSpec
CONSTANTS
  Links = {l1}
  NoLink = NoLink
  Uses = {"Connect", "Listen", "CloseLink", "SendMsg"}
  MaxReq = 1
  MaxStarts = 2
  MaxBacklog = 2
  Timeout = 1
INVARIANTS EventOrder NoStaleEvent
PROPERTIES StopLeavesNothing BridgeSpec StopReturns RequestEnds
