SPECIFICATION ConsumerFairSpec
CONSTANTS
  d1 = d1
  d2 = d2
  b1 = b1
  p1 = p1
  Unreadable = Unreadable
  Events <- MCEvents
  Players <- MCPlayers
  PlayerOf <- MCPlayerOf
  TypeOf <- MCTypeOf
  AmountOf <- MCAmountOf
  MaxFaults = 4
  WelcomeCredit = 5
  VIPSilverThreshold = 3
  VIPGoldThreshold = 6
  VelocityBetLimit = 2
  ScoreBound = 64
  Window = 1
  MaxTime = 1
  MaxAttempts = 2
  Poison = {b1}
  MaxTopic = 3
INVARIANTS
  CommittedIsSettled
  GivingUpCostsAttempts
PROPERTY
  EveryMessageSettles
CHECK_DEADLOCK FALSE
