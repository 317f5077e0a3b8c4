SPECIFICATION Spec
CONSTANTS
  NsPerSec = 4
  NsPerMs = 2
  BitsPerMbit = 8
  Jobs <- MCJobs
INVARIANTS
  ReplayExact AppendedStagesLocal StreamsPrivate GoldenExact StatsExact
  MergeSound ReceiverGraded
