SPECIFICATION OutboxFairSpec
CONSTANTS
  p1 = p1
  Events = {e1, e2}
  Players <- MCPlayers
  PlayerOf <- MCPlayerOf
  TypeOf <- MCTypeOf
  AmountOf <- MCAmountOf
  Unreadable = Unreadable
  Publishers = {w1, w2}
  Batch = 2
  NoEvent = NoEvent
  MaxFaults = 1
PROPERTY
  SavedIsPublished
