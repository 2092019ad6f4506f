SPECIFICATION Spec
CONSTANTS
  Script <- MCScript
  QueueSize = 3
  SweepSteps = 1
INVARIANTS PacketsTrue OldFirst
PROPERTIES StopObeyed
CHECK_DEADLOCK FALSE
