SPECIFICATION OutboxFairSpec
CONSTANTS
  p1 = p1
  Events = {e1, e2, e3}
  Players <- MCPlayers
  PlayerOf <- MCPlayerOf
  TypeOf <- MCTypeOf
  AmountOf <- MCAmountOf
  Unreadable = Unreadable
  Publishers = {w1}
  Batch = 2
  NoEvent = NoEvent
  MaxFaults = 3
INVARIANTS
  NothingLost
  PublishedMeansInTopic
  BatchIsPublishing
  DuplicatesNeedFaults
PROPERTIES
  PublishedIsFinal
  SavedIsPublished
  GaugeSettles
