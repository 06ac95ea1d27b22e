SPECIFICATION MCSpec
CONSTANTS
  d1 = d1
  d2 = d2
  b1 = b1
  p1 = p1
  p2 = p2
  Events <- MCEvents
  Players <- MCPlayers
  PlayerOf <- MCPlayerOf
  TypeOf <- MCTypeOf
  AmountOf <- MCAmountOf
  WelcomeCredit = 5
  VIPSilverThreshold = 3
  VIPGoldThreshold = 5
  VelocityBetLimit = 2
  ScoreBound = 64
  Window = 0
  MaxTime = 1
  Handlers = {w1, w2}
  NoEvent = NoEvent
  Rotations = {s1, s2}
  SecretOf <- MCSecretOf
  FirstSecret = s0
  NoSecret = NoSecret
  Overlap = 4
  TicksPerSecond = 2
  MaxClock = 7
  MaxLost = 1
  old = old
  new = new
  newer = newer
  Processes = {old, new, newer}
  FilesOf <- MCFilesOf
  Free = Free
  MaxFaults = 2
INVARIANTS
  LedgerIsExact
  OverlapHonoured
  AnswerIsUsable
  SchemaIsPrefix
  FailuresAreFaults
  DoneIsMigrated
PROPERTIES
  ImplementsWorker
  EveryTransactionEnds
  EveryoneGetsThrough
CHECK_DEADLOCK FALSE
