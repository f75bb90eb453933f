SPECIFICATION FairSpec
CONSTANTS
  Nodes = {n1}
  Approvers = {a1, a2}
  Types <- MCTypes
  GatewayTypes <- MCGatewayTypes
  Caps <- MCCaps
  Requests <- ApprovalRequests
  Refused <- NoRequests
  Keys = {}
  Gateway = Gateway
  NoOwner = NoOwner
  NoKey = NoKey
  NoCap = NoCap
  TokenTTL = 0
  IdemWindow = 0
  CapSets <- NoCaps
  RawPolicies <- ApprovalPolicies
  Windows <- NoWindows
  MaxTasks = 2
  MaxToken = 1
  MaxClock = 2
INVARIANTS
  TypeOK
  ReleasedByQuorum
  EventsExplainTasks
  GatewayRunsTracked
PROPERTIES
  StatusNeverGoesBack
  OverdueApprovalsResolve
