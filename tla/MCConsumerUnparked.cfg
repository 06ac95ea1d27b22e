SPECIFICATION ConsumerSpec
CONSTANTS
  d1 = d1
  d2 = d2
  b1 = b1
  p1 = p1
  Unreadable = Unreadable
  Events <- MCEvents
  Players <- MCPlayers
  PlayerOf <- MCPlayerOf
  TypeOf <- MCTypeOf
  AmountOf <- MCAmountOf
  MaxFaults = 3
  WelcomeCredit = 5
  VIPSilverThreshold = 3
  VIPGoldThreshold = 6
  VelocityBetLimit = 2
  ScoreBound = 64
  Window = 1
  MaxTime = 0
  MaxAttempts = 2
  Poison = {b1}
  MaxTopic = 4
INVARIANT
  UnparkedIsNotDone
CHECK_DEADLOCK FALSE
