SPECIFICATION Spec
CONSTANTS
  UnlockDuration = 5
  WdtTimeout = 10
  TimerQueueLength = 2
INVARIANT OpenIsTemporary
