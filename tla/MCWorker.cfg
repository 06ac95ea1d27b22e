SPECIFICATION SnapshotSpec
CONSTANTS
  d1 = d1
  d2 = d2
  b1 = b1
  b2 = b2
  b3 = b3
  b4 = b4
  h1 = h1
  p1 = p1
  p2 = p2
  Events <- MCEvents
  Players <- MCPlayers
  PlayerOf <- MCPlayerOf
  TypeOf <- MCTypeOf
  AmountOf <- MCAmountOf
  WelcomeCredit = 5
  VIPSilverThreshold = 3
  VIPGoldThreshold = 5
  VelocityBetLimit = 2
  ScoreBound = 7
  Window = 1
  MaxTime = 2
  Watched = p1
SYMMETRY MCSymmetry
INVARIANTS
  WorkerTypeOK
  WelcomeOnce
  LedgerFollowsMarks
  ScoreIsSumOfBets
  FlagMeansBurst
  TagShowsCredit
