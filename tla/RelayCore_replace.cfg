SPECIFICATION Spec
CONSTANTS
  MaxQueued = 2
  Hour = 1
  Engines <- MCEngines
  FirstEngine = "impair"
  Plans <- MCPlans
  LedgerCap = 2
  DefaultLedgerCap = 2
  EnableArgs = {2}
  Buffers = {1, 2, 3, 4}
  Closers = {}
  MaxDelay = 2
  Horizon = 4
  MaxPackets = 2
  MaxEnables = 1
  MaxSwaps = 0
INVARIANT EntriesFaithful
