SPECIFICATION Spec
CONSTANTS
  Callers = {"gw1", "gw2", "cli"}
  ProcessOf <- MCProcessOf
  Agents = {a, b}
  Nobody = Nobody
  Grace = 1
  RouteTTL = 1
  MaxTime = 3
  MaxCalls = 3
  Services = {s1}
  NoService = NoService
  Window = 4
  Threshold = 2
  OpenFor = 4
  MaxDelay = 2
  Polls = 2
  Senders = {t1, t2}
  Chats = {c1, c2, c3}
  DropChats = {c2}
  LostChats = {c3}
  NoMessage = NoMessage
  MaxQueue = 2
  Burst = 1
  Cost = 2
  Rate = 1
  Cooldown = 2
  PerTurn = 2
  Loaders = {l1, l2}
  Skills = {n1, n2}
  MaxInstalls = 2
  Workers = {"gate", "loop"}
  MaxRecords = 3
  MaxDay = 2
  MaxRuns = 2
  MaxAsks = 2
  MaxBatch = 2
  Execs = {x1}
  Owners = {"u1"}
  MaxKept = 3
  PerStream = 2
  Arrivals = {m1}
  Posts = {w1, w2}
  Reports = {g1}
  NoInbound = NoInbound
  MaxInbound = 1
  MaxReplies = 1
  Gates = {gate1}
  Ids = {i1, i2, i3}
  Calls = {k1, k2}
  TTL = 0
  MaxClock = 2
INVARIANTS
  NoExecutionUnapproved
  StartFailuresBounded
  RollsBackToHeld RateBound TurnOrder NothingVanishes
  PartialIsJournaled InstalledStaysWhole
  ChainBreaksOnlyOnOverlap
  OwnPolicies BatchesAnswered
  KillIsKept
  TypesOK
PROPERTIES
  NewestWins SidecarComesUp EveryReplySettled SettledForGood SessionsEnd EveryMessageHandled
  ImplementsPermits
CHECK_DEADLOCK FALSE
