SPECIFICATION Spec
CONSTANTS
  MaxQueued = 2
  Hour = 1
  Engines <- MCEngines
  FirstEngine = "impair"
  Plans <- MCPlans
  LedgerCap = 0
  DefaultLedgerCap = 3
  EnableArgs = {0, 1}
  Buffers = {1, 2, 3, 4}
  Closers = {}
  MaxDelay = 2
  Horizon = 3
  MaxPackets = 2
  MaxEnables = 2
  MaxSwaps = 1
INVARIANTS LedgerFaithful OwdAttributed NoPanic
