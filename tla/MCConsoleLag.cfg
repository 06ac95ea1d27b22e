SPECIFICATION MCSpec
CONSTANTS
  d1 = d1
  d2 = d2
  d3 = d3
  d4 = d4
  b1 = b1
  x1 = x1
  p1 = p1
  p2 = p2
  p3 = p3
  acme = acme
  nova = nova
  Events <- MCEvents
  Players <- MCPlayers
  PlayerOf <- MCPlayerOf
  TypeOf <- MCTypeOf
  WelcomeCredit = 1
  Poison = {x1}
  MaxAttempts = 2
  NoEvent = NoEvent
  PartnerEvents = {d3, b1}
  MaxIngested = 2
  MaxRestarts = 1
  MaxGlitches = 1
  Probes = {q1}
  MaxUnanswered = 1
  RunEvents <- MCRunEvents
  Lanes = {p1, p2}
  ProbeEvent <- MCProbeEvent
  MaxPolls = 2
  VelocityLimit = 2
  Minute = 1
  Times = {0, 1, 2, 3}
  MaxPack = 4
  Brands = {acme, nova}
  EventIds = {1, 2}
  Skew = 1
  MaxInspect = 2
  DefaultN = 1
  Queries = {0, 3}
  MaxLetters = 3
  ShowN = 2
  BrandRank <- MCBrandRank
  TicksPerSecond = 2
  Units = {1, 2}
INVARIANT LagIsBacklog
CHECK_DEADLOCK FALSE
