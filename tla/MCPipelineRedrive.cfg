SPECIFICATION PipelineFairSpec
CONSTANTS
  d1 = d1
  d2 = d2
  p1 = p1
  App = App
  Publishers = {App}
  NoEvent = NoEvent
  Unreadable = Unreadable
  Events <- MCEvents
  Players <- MCPlayers
  PlayerOf <- MCPlayerOf
  TypeOf <- MCTypeOf
  AmountOf <- MCAmountOf
  Batch = 2
  MaxFaults = 2
  WelcomeCredit = 5
  VIPSilverThreshold = 3
  VIPGoldThreshold = 6
  VelocityBetLimit = 2
  ScoreBound = 64
  Window = 1
  MaxTime = 0
  MaxAttempts = 1
  Poison = {}
  MaxTopic = 0
PROPERTY
  RedriveIsApplied
