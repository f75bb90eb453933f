SPECIFICATION Spec
CONSTANTS
  Nodes = {n1}
  Approvers = {}
  Types <- MCTypes
  GatewayTypes <- MCGatewayTypes
  Caps <- MCCaps
  Requests <- QuotaRequests
  Refused <- NoRequests
  Keys = {}
  Gateway = Gateway
  NoOwner = NoOwner
  NoKey = NoKey
  NoCap = NoCap
  TokenTTL = 0
  IdemWindow = 0
  CapSets <- Camera
  RawPolicies <- QuotaPolicies
  Windows <- NoWindows
  MaxTasks = 2
  MaxToken = 1
  MaxClock = 1
PROPERTIES
  MaxConcurrent
