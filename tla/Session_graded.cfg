SPECIFICATION Spec
CONSTANTS
  Space = 8
  Protos = {"srt", "rist"}
  ISNs = {0, 7}
  MaxSend = 3
  MaxRetrans = 2
  MaxFeedback = 3
INVARIANTS
  SequenceAccounted RequestsExact AckVerdictExact
  MuteNotCredited HonestNotFailed
CHECK_DEADLOCK FALSE
