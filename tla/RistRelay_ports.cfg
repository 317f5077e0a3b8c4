SPECIFICATION FairSpec
CONSTANTS
  Senders = {"s"}
  Ports = {4, 5, 6}
  MaxTries = 2
  MaxReads = 2
INVARIANTS PortsSeparate ObservedAll PairHeld
PROPERTY CloseCompletes
