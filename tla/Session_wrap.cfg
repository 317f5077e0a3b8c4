SPECIFICATION Spec
CONSTANTS
  Space = 4
  Protos = {"rist"}
  ISNs = {0}
  MaxSend = 5
  MaxRetrans = 0
  MaxFeedback = 0
INVARIANT RetransmissionsReal
CHECK_DEADLOCK FALSE
