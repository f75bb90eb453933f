SPECIFICATION Spec
CONSTANTS
  Nodes = {n1}
  Approvers = {}
  Types <- MCTypes
  GatewayTypes <- MCGatewayTypes
  Caps <- MCCaps
  Requests <- KeyRequests
  Refused <- KeyRefused
  Keys = {k1}
  Gateway = Gateway
  NoOwner = NoOwner
  NoKey = NoKey
  NoCap = NoCap
  TokenTTL = 1
  IdemWindow = 1
  CapSets <- AnyCaps
  RawPolicies <- KeyPolicies
  Windows <- SomeWindows
  MaxTasks = 2
  MaxToken = 2
  MaxClock = 3
INVARIANTS
  OneTaskPerKey
PROPERTIES
  OwnerNeverChanges
  QuotaExceededOnlyByAck
