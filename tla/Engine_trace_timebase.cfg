SPECIFICATION Spec
CONSTANTS
  NsPerSec = 4
  NsPerMs = 2
  Workloads <- DelayedTrace
INVARIANT UpstreamDelayKept
