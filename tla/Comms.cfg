\* In units of 5 s: the firmware's interval and watchdog, and a WiFi wait that
\* ends together with the watchdog.
SPECIFICATION FairSpec
CONSTANTS
  Interval = 1
  WifiTimeout = 2
  WdtTimeout = 2
  Wrap = 8
INVARIANTS
  RetryInv
  DeafIsKnown
PROPERTIES
  AttemptsSpaced
  RetryPrompt
  Reconnects
