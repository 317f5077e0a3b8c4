SPECIFICATION FairSpec
CONSTANTS
  MaxQueued = 2
  Hour = 1
  Engines <- MCEngines
  FirstEngine = "impair"
  Plans <- MCPlans
  LedgerCap = 0
  DefaultLedgerCap = 2
  EnableArgs = {}
  Buffers = {1, 2, 3, 4}
  Closers = {c1, c2}
  MaxDelay = 2
  Horizon = 3
  MaxPackets = 1
  MaxEnables = 0
  MaxSwaps = 0
INVARIANT QuietAfterClose
PROPERTIES ImplementsDelayLine EveryForwardLeaves CloseCompletes
