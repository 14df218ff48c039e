\* The firmware's 10 s watchdog and 15 s WiFi wait; a clock that drifts to beyond
\* two time steps.
SPECIFICATION Spec
CONSTANTS
  Code <- MCCode
  WdtTimeout = 10
  JoinTimeout = 15
  ErrStep = 10
  MaxErr = 70
  Times <- MCTimes
INVARIANTS
  TypeOK
  ReadyForWork
  ClockFlagsAgree
  TotpTolerance
PROPERTIES
  HangIsFinal
