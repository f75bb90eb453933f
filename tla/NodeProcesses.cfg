SPECIFICATION Spec
CONSTANTS
  Nodes = {n1}
  Approvers = {a1}
  Types <- MCTypes
  GatewayTypes <- MCTypes
  Caps = {}
  Requests <- MCRequests
  Refused <- NoRequests
  Keys = {}
  Gateway = Gateway
  NoOwner = NoOwner
  NoKey = NoKey
  NoCap = NoCap
  TokenTTL = 0
  IdemWindow = 0
  Commands = {p1}
  RawPolicies <- MCPolicies
  MaxClock = 2
  Payloads = {x1, x2}
SYMMETRY Renamings
INVARIANTS
  EveryCopyIsSound
  OncePerLife
