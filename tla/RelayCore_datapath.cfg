SPECIFICATION Spec
CONSTANTS
  MaxQueued = 2
  Hour = 1
  Engines <- MCEngines
  FirstEngine = "impair"
  Plans <- MCPlans
  LedgerCap = 2
  DefaultLedgerCap = 2
  EnableArgs = {}
  Buffers = {1, 2, 3, 4}
  Closers = {}
  MaxDelay = 2
  Horizon = 4
  MaxPackets = 3
  MaxEnables = 0
  MaxSwaps = 0
INVARIANTS TypeOK NoLostWakeup Conservation BuffersOwned SnapshotIsRecent
PROPERTY ImplementsDelayLine
