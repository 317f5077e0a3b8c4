SPECIFICATION Spec
CONSTANTS
  NsPerSec = 4
  NsPerMs = 2
  Workloads <- MCWorkloads
INVARIANTS
  PacketsConserved UpstreamDelayKept
  OnePacketBursts TraceKept
PROPERTIES
  RateLinkKept SlicesImmutable
