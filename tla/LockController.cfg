\* The values of the firmware; the daemon's queue is cut from 10 to 2 commands.
SPECIFICATION FairSpec
CONSTANTS
  UnlockDuration = 5
  WdtTimeout = 10
  TimerQueueLength = 2
INVARIANTS
  TypeOK
  Inv
  SwitchCases
  OpenLockIsAttended
  RelockIsComing
  OpenTimeBounded
PROPERTIES
  PermitKept
  DoorSafe
  AutoRelock
  LoopNeverStalls
  RemoteUnlockServed
  RemoteLockServed
