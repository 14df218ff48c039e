------------------------ MODULE LockControllerProofs ------------------------
(***************************************************************************)
(* The theorems of LockController: what holds for every duration, watchdog *)
(* period and queue length that satisfy ConstantsAssumption.               *)
(***************************************************************************)
EXTENDS LockController, SequenceTheorems, TLAPS

-----------------------------------------------------------------------------
(* The command queue of the timer daemon.                                  *)

Commands == {"stop", "start"}
Queue == {q \in Seq(Commands) : Len(q) <= TimerQueueLength}

\* Posting keeps the queue within its length (xTimerStop with a full queue).
LEMMA PostedInQueue ==
  ASSUME NEW q \in Queue, NEW c \in Commands
  PROVE  Posted(q, c) \in Queue
BY ConstantsAssumption DEF Posted, Queue, ConstantsAssumption

\* Stopping the timer, whether it runs or not, does too.
LEMMA StopPostedInQueue ==
  ASSUME timerQueue \in Queue
  PROVE  StopPosted \in Queue
BY PostedInQueue DEF StopPosted, Commands

\* A command that is taken leaves the last one where it was, or was the last.
LEMMA TakingKeepsLast ==
  ASSUME NEW q \in Queue, q # <<>>
  PROVE  /\ Tail(q) \in Queue
         /\ Head(q) \in Commands
         /\ Tail(q) = <<>> => Head(q) = q[Len(q)]
         /\ Tail(q) # <<>> => Tail(q)[Len(Tail(q))] = q[Len(q)]
<1>1. Len(q) \in Nat \ {0} /\ Len(Tail(q)) = Len(q) - 1
  BY DEF Queue
<1>2. Tail(q) \in Seq(Commands) /\ Head(q) \in Commands
  BY DEF Queue
<1>3. ASSUME Tail(q) = <<>> PROVE Head(q) = q[Len(q)]
  <2>1. Len(q) = 1
    BY <1>1, <1>3
  <2> QED
    BY <2>1 DEF Queue
<1>4. ASSUME Tail(q) # <<>> PROVE Tail(q)[Len(Tail(q))] = q[Len(q)]
  <2>1. Len(Tail(q)) \in Nat \ {0}
    BY <1>1, <1>2, <1>4
  <2> QED
    BY <1>1, <2>1 DEF Queue
<1> QED
  BY <1>1, <1>2, <1>3, <1>4, ConstantsAssumption DEF Queue, ConstantsAssumption

\* A start that is posted is the last command.
LEMMA StartIsLast ==
  ASSUME NEW q \in Queue
  PROVE  /\ Append(q, "start") # <<>>
         /\ Append(q, "start")[Len(Append(q, "start"))] = "start"
BY DEF Queue, Commands

-----------------------------------------------------------------------------
(* Type correctness.                                                       *)

USE DEF loopVars, timerVars, ledVars, history

\* Setting a pattern arms the one-shot or not.
LEMMA FlashArms ==
  ASSUME NEW p, SetPattern(p)
  PROVE  blinker' \in BOOLEAN
<1>1. blinker' = (p \in Flash)
  BY DEF SetPattern
<1>2. (p \in Flash) \in BOOLEAN
  OBVIOUS
<1> QED
  BY <1>1, <1>2, Zenon

LEMMA TypeInit == Init => TypeOK
<1> SUFFICES ASSUME Init PROVE TypeOK
  OBVIOUS
<1>1. /\ unlockTimer \in BOOLEAN /\ timerActive \in BOOLEAN
      /\ blinker \in BOOLEAN /\ abandoned \in BOOLEAN
  BY Zenon DEF Init
<1> QED
  BY <1>1, ConstantsAssumption DEF Init, TypeOK, ConstantsAssumption, SystemState,
     Location, Waits, Pattern, MaxOpen

\* Every pattern a step sets is a pattern, and every location it goes to is one.
LEMMA TypeStep == TypeOK /\ [Next]_vars => TypeOK'
<1> SUFFICES ASSUME TypeOK, [Next]_vars PROVE TypeOK'
  OBVIOUS
<1> USE ConstantsAssumption DEF TypeOK, ConstantsAssumption, MaxOpen
<1>q. timerQueue \in Queue /\ StopPosted \in Queue
  BY StopPostedInQueue DEF Queue, Commands
<1>l. Waits \subseteq Location
  BY DEF Location
<1>1. CASE LoopStep
  <2>1. CASE HungLoop
    BY <2>1 DEF HungLoop, SetPattern, Pattern, Flash, Errors, SystemState, Location, Waits
  <2>2. CASE LoopBegins
    BY <2>2 DEF LoopBegins, SetPattern, Pattern, Flash, Errors, SystemState, Location, Waits
  <2>3. CASE LoopEnds
    BY <2>3 DEF LoopEnds, SetPattern, Pattern, Flash, Errors, SystemState, Location, Waits
  <2>4. CASE CommandUnlock
    BY <2>4 DEF CommandUnlock, SetPattern, Pattern, Flash, Errors, SystemState, Location, Waits
  <2>5. CASE CommandLock
    BY <1>q, <2>5 DEF CommandLock, SetPattern, Pattern, Flash, Errors, SystemState, Location, Queue, Commands, Waits
  <2>6. CASE Switch
    BY <2>6 DEF Switch, SetPattern, Pattern, Flash, Errors, SystemState, Location, Waits
  <2>7. CASE RfidCheck
    <3>1. blinker' \in BOOLEAN
      BY <2>7, FlashArms DEF RfidCheck
    <3> QED
      BY <3>1, <2>7 DEF RfidCheck, SetPattern, Pattern, Flash, Errors, SystemState, Location, Waits
  <2>8. CASE BioGate
    BY <2>8 DEF BioGate, SetPattern, Pattern, Flash, Errors, SystemState, Location, Waits
  <2>9. CASE BioCheck
    <3>1. blinker' \in BOOLEAN
      BY <2>9, FlashArms DEF BioCheck
    <3> QED
      BY <3>1, <2>9 DEF BioCheck, SetPattern, Pattern, Flash, Errors, SystemState, Location, Waits
  <2>10. CASE Unlock
    <3>1. abandoned' \in BOOLEAN
      BY <2>10, Zenon DEF Unlock
    <3>2. blinker' \in BOOLEAN
      BY <2>10, FlashArms DEF Unlock
    <3> QED
      BY <3>1, <3>2, <1>q, <2>10 DEF Unlock, SetPattern, Pattern, Flash, Errors, SystemState, Location, Queue, Commands, Waits
  <2>11. CASE StartTimer
    BY <2>11 DEF StartTimer, SetPattern, Pattern, Flash, Errors, SystemState, Location, Waits
  <2>12. CASE StartFails
    BY <2>12 DEF StartFails, SetPattern, Pattern, Flash, Errors, SystemState, Location, Waits
  <2>13. CASE Lock
    <3>1. abandoned' \in BOOLEAN
      BY <2>13, Zenon DEF Lock
    <3>2. blinker' \in BOOLEAN
      BY <2>13, FlashArms DEF Lock
    <3> QED
      BY <3>1, <3>2, <2>13 DEF Lock, SetPattern, Pattern, Flash, Errors, SystemState, Location, Waits
  <2> QED
    BY <1>1, <2>1, <2>2, <2>3, <2>4, <2>5, <2>6, <2>7, <2>8, <2>9, <2>10, <2>11, <2>12, <2>13 DEF LoopStep
<1>2. CASE CommsStep
  <2>1. CASE CommsQuiet
    BY <2>1 DEF CommsQuiet, SetPattern, Pattern, Flash, Errors, SystemState, Location, Waits
  <2>2. CASE CommsDrops
    BY <2>2 DEF CommsDrops, SetPattern, Pattern, Flash, Errors, SystemState, Location, Waits
  <2>3. CASE CommsDown
    BY <2>3 DEF CommsDown, SetPattern, Pattern, Flash, Errors, SystemState, Location, Waits
  <2>4. CASE RejectMessage
    BY <2>4 DEF RejectMessage, SetPattern, Pattern, Flash, Errors, SystemState, Location, Waits
  <2>5. CASE HandleUnlock
    BY <2>5 DEF HandleUnlock, SetPattern, Pattern, Flash, Errors, SystemState, Location, Waits
  <2>6. CASE HandleLock
    BY <2>6 DEF HandleLock, SetPattern, Pattern, Flash, Errors, SystemState, Location, Waits
  <2>7. CASE HandleEnroll
    BY <2>7 DEF HandleEnroll, SetPattern, Pattern, Flash, Errors, SystemState, Location, Waits
  <2>8. CASE HandleQuery
    BY <2>8 DEF HandleQuery, SetPattern, Pattern, Flash, Errors, SystemState, Location, Waits
  <2> QED
    BY <1>2, <2>1, <2>2, <2>3, <2>4, <2>5, <2>6, <2>7, <2>8 DEF CommsStep
<1>3. CASE Return
  <2>1. CASE SetupFails
    BY <2>1 DEF SetupFails, SetPattern, Pattern, Flash, Errors, SystemState, Location, Waits
  <2>2. CASE SetupDone
    BY <2>2 DEF SetupDone, SetPattern, Pattern, Flash, Errors, SystemState, Location, Waits
  <2>3. CASE WifiReturns
    BY <2>3 DEF WifiReturns, SetPattern, Pattern, Flash, Errors, SystemState, Location, Waits
  <2>4. CASE ReconnectEnds
    BY <2>4 DEF ReconnectEnds, SetPattern, Pattern, Flash, Errors, SystemState, Location, Waits
  <2>5. CASE EnrollProgress
    BY <2>5 DEF EnrollProgress, SetPattern, Pattern, Flash, Errors, SystemState, Location, Waits
  <2>6. CASE EnrollReturns
    BY <2>6 DEF EnrollReturns, SetPattern, Pattern, Flash, Errors, SystemState, Location, Waits
  <2>7. CASE ReplySent
    BY <2>7 DEF ReplySent, SetPattern, Pattern, Flash, Errors, SystemState, Location, IdlePattern, Waits
  <2>8. CASE PublishReturns
    BY <2>8 DEF PublishReturns, SetPattern, Pattern, Flash, Errors, SystemState, Location, Waits
  <2> QED
    BY <1>3, <2>1, <2>2, <2>3, <2>4, <2>5, <2>6, <2>7, <2>8 DEF Return
<1>4. CASE TimerTask
  <2>1. CASE TimerCommand
    BY <2>1 DEF TimerCommand, SetPattern, Pattern, Flash, Errors, SystemState, Location, Waits
  <2>2. CASE TimerExpires
    <3>1. timerActive' \in BOOLEAN
      BY <2>2, Zenon DEF TimerExpires
    <3> QED
      BY <3>1, <2>2 DEF TimerExpires, SetPattern, Pattern, Flash, Errors, SystemState, Location, Waits
  <2>3. CASE CallbackChecks
    BY <2>3 DEF CallbackChecks, SetPattern, Pattern, Flash, Errors, SystemState, Location, Waits
  <2>4. CASE CallbackLocks
    BY <2>4 DEF CallbackLocks, SetPattern, Pattern, Flash, Errors, SystemState, Location, Waits
  <2> QED
    BY <1>4, <2>1, <2>2, <2>3, <2>4 DEF TimerTask
<1>5. CASE FlashTask
  <2>1. CASE FlashFires
    <3>1. blinker' \in BOOLEAN
      BY <2>1, Zenon DEF FlashFires
    <3> QED
      BY <3>1, <2>1 DEF FlashFires, SetPattern, Pattern, Flash, Errors, SystemState, Location, IdlePattern, Waits
  <2>2. CASE FlashReverts
    BY <2>2 DEF FlashReverts, SetPattern, Pattern, Flash, Errors, SystemState, Location, Waits
  <2> QED
    BY <1>5, <2>1, <2>2 DEF FlashTask
<1>6. CASE Tick
  BY <1>6 DEF Tick, Waits, Location, NothingDue
<1>7. CASE Panic \/ PowerCycle
  <2>1. Reboot
    BY <1>7 DEF Panic, PowerCycle
  <2>2. /\ unlockTimer' \in BOOLEAN /\ timerActive' \in BOOLEAN
        /\ blinker' \in BOOLEAN /\ abandoned' \in BOOLEAN
    BY <2>1, Zenon DEF Reboot
  <2> QED
    BY <2>1, <2>2 DEF Reboot, SystemState, Location, Waits, Pattern
<1>8. CASE UNCHANGED vars
  BY <1>8 DEF vars
<1> QED
  BY <1>1, <1>2, <1>3, <1>4, <1>5, <1>6, <1>7, <1>8 DEF Next

\* Every variable keeps its type: the queue its length, the watchdog its limit.
THEOREM TypeCorrect == Spec => []TypeOK
<1>1. Init => TypeOK
  BY TypeInit
<1>2. TypeOK /\ [Next]_vars => TypeOK'
  BY TypeStep
<1> QED
  BY <1>1, <1>2, PTL DEF Spec

-----------------------------------------------------------------------------
(* The inductive invariant.                                                *)

\* loopTask finds where it goes what the step that leads there has left: the
\* timer callback can only have written LOCKING in between.
LEMMA LoopFindsStep == Inv /\ [Next]_vars => LoopFinds'
<1> SUFFICES ASSUME Inv, [Next]_vars PROVE LoopFinds'
  OBVIOUS
<1> USE DEF Inv, LoopFinds, OpenLockIsAttended, Attending, Handled
<1>t. lock \in {"LOCKED", "UNLOCKED"}
  BY DEF TypeOK
<1>1. CASE LoopStep
  <2>1. CASE HungLoop
    BY <2>1 DEF HungLoop
  <2>2. CASE LoopBegins
    BY <2>2 DEF LoopBegins
  <2>3. CASE LoopEnds
    BY <2>3 DEF LoopEnds
  <2>4. CASE CommandUnlock
    BY <2>4 DEF CommandUnlock
  <2>5. CASE CommandLock
    BY <2>5 DEF CommandLock
  <2>6. CASE Switch
    BY <2>6, <1>t DEF Switch
  <2>7. CASE RfidCheck
    BY <2>7 DEF RfidCheck
  <2>8. CASE BioGate
    BY <2>8 DEF BioGate
  <2>9. CASE BioCheck
    BY <2>9 DEF BioCheck
  <2>10. CASE Unlock
    BY <2>10 DEF Unlock
  <2>11. CASE StartTimer
    BY <2>11 DEF StartTimer
  <2>12. CASE StartFails
    BY <2>12 DEF StartFails
  <2>13. CASE Lock
    BY <2>13 DEF Lock
  <2> QED
    BY <1>1, <2>1, <2>2, <2>3, <2>4, <2>5, <2>6, <2>7, <2>8, <2>9, <2>10, <2>11, <2>12, <2>13 DEF LoopStep
<1>2. CASE CommsStep
  <2>1. CASE CommsQuiet
    BY <2>1 DEF CommsQuiet
  <2>2. CASE CommsDrops
    BY <2>2 DEF CommsDrops
  <2>3. CASE CommsDown
    BY <2>3 DEF CommsDown
  <2>4. CASE RejectMessage
    BY <2>4 DEF RejectMessage
  <2>5. CASE HandleUnlock
    BY <2>5 DEF HandleUnlock
  <2>6. CASE HandleLock
    BY <2>6 DEF HandleLock
  <2>7. CASE HandleEnroll
    BY <2>7, <1>t DEF HandleEnroll
  <2>8. CASE HandleQuery
    BY <2>8 DEF HandleQuery
  <2> QED
    BY <1>2, <2>1, <2>2, <2>3, <2>4, <2>5, <2>6, <2>7, <2>8 DEF CommsStep
<1>3. CASE Return
  <2>1. CASE SetupFails \/ SetupDone \/ WifiReturns \/ ReconnectEnds
             \/ EnrollProgress \/ EnrollReturns \/ ReplySent \/ PublishReturns
    BY <2>1 DEF SetupFails, SetupDone, WifiReturns, ReconnectEnds, EnrollProgress,
       EnrollReturns, ReplySent, PublishReturns
  <2> QED
    BY <1>3, <2>1 DEF Return
<1>4. CASE TimerTask
  <2>1. CASE TimerCommand \/ TimerExpires \/ CallbackChecks \/ CallbackLocks
    BY <2>1 DEF TimerCommand, TimerExpires, CallbackChecks, CallbackLocks
  <2> QED
    BY <1>4, <2>1 DEF TimerTask
<1>5. CASE FlashTask
  <2>1. CASE FlashFires \/ FlashReverts
    BY <2>1 DEF FlashFires, FlashReverts
  <2> QED
    BY <1>5, <2>1 DEF FlashTask
<1>6. CASE Tick
  BY <1>6 DEF Tick, Waits, NothingDue
<1>7. CASE Panic \/ PowerCycle
  BY <1>7 DEF Panic, PowerCycle, Reboot
<1>8. CASE UNCHANGED vars
  BY <1>8 DEF vars
<1> QED
  BY <1>1, <1>2, <1>3, <1>4, <1>5, <1>6, <1>7, <1>8 DEF Next

\* A step that leaves the attended states has locked the door or waived it.
LEMMA AttendedStep == Inv /\ [Next]_vars => OpenLockIsAttended'
<1> SUFFICES ASSUME Inv, [Next]_vars PROVE OpenLockIsAttended'
  OBVIOUS
<1> USE DEF Inv, LoopFinds, OpenLockIsAttended, Attending, Handled
<1>1. CASE LoopStep
  <2>1. CASE HungLoop \/ LoopBegins \/ LoopEnds \/ CommandUnlock \/ CommandLock
             \/ Switch \/ RfidCheck \/ BioGate \/ BioCheck \/ Unlock \/ StartTimer
             \/ StartFails \/ Lock
    BY <2>1 DEF HungLoop, LoopBegins, LoopEnds, CommandUnlock, CommandLock, Switch,
       RfidCheck, BioGate, BioCheck, Unlock, StartTimer, StartFails, Lock
  <2> QED
    BY <1>1, <2>1 DEF LoopStep
<1>2. CASE CommsStep
  <2>1. CASE CommsQuiet \/ CommsDrops \/ CommsDown \/ RejectMessage \/ HandleUnlock
             \/ HandleLock \/ HandleEnroll \/ HandleQuery
    BY <2>1 DEF CommsQuiet, CommsDrops, CommsDown, RejectMessage, HandleUnlock,
       HandleLock, HandleEnroll, HandleQuery
  <2> QED
    BY <1>2, <2>1 DEF CommsStep
<1>3. CASE Return
  <2>1. CASE SetupFails \/ SetupDone \/ WifiReturns \/ ReconnectEnds
             \/ EnrollProgress \/ EnrollReturns \/ ReplySent \/ PublishReturns
    BY <2>1 DEF SetupFails, SetupDone, WifiReturns, ReconnectEnds, EnrollProgress,
       EnrollReturns, ReplySent, PublishReturns
  <2> QED
    BY <1>3, <2>1 DEF Return
<1>4. CASE TimerTask
  <2>1. CASE TimerCommand \/ TimerExpires \/ CallbackChecks \/ CallbackLocks
    BY <2>1 DEF TimerCommand, TimerExpires, CallbackChecks, CallbackLocks
  <2> QED
    BY <1>4, <2>1 DEF TimerTask
<1>5. CASE FlashTask
  <2>1. CASE FlashFires \/ FlashReverts
    BY <2>1 DEF FlashFires, FlashReverts
  <2> QED
    BY <1>5, <2>1 DEF FlashTask
<1>6. CASE Tick
  BY <1>6 DEF Tick, Waits, NothingDue
<1>7. CASE Panic \/ PowerCycle
  BY <1>7 DEF Panic, PowerCycle, Reboot
<1>8. CASE UNCHANGED vars
  BY <1>8 DEF vars
<1> QED
  BY <1>1, <1>2, <1>3, <1>4, <1>5, <1>6, <1>7, <1>8 DEF Next

\* The relock stays under way: only a command that ends UNLOCKED_TEMP, or the
\* start itself, changes the queue behind the last start.
LEMMA RelockStep == Inv /\ [Next]_vars => RelockIsComing'
<1> SUFFICES ASSUME Inv, [Next]_vars PROVE RelockIsComing'
  OBVIOUS
<1> USE DEF Inv, LoopFinds, RelockIsComing
<1>q. timerQueue \in Queue
  BY DEF TypeOK, Queue, Commands
<1>1. CASE LoopStep
  <2>1. CASE HungLoop \/ LoopBegins \/ LoopEnds \/ CommandUnlock \/ CommandLock
             \/ Switch \/ RfidCheck \/ BioGate \/ BioCheck \/ Unlock \/ StartFails
             \/ Lock
    BY <2>1 DEF HungLoop, LoopBegins, LoopEnds, CommandUnlock, CommandLock, Switch,
       RfidCheck, BioGate, BioCheck, Unlock, StartFails, Lock
  <2>2. CASE StartTimer
    BY <2>2, <1>q, StartIsLast DEF StartTimer
  <2> QED
    BY <1>1, <2>1, <2>2 DEF LoopStep
<1>2. CASE CommsStep
  <2>1. CASE CommsQuiet \/ CommsDrops \/ CommsDown \/ RejectMessage \/ HandleUnlock
             \/ HandleLock \/ HandleEnroll \/ HandleQuery
    BY <2>1 DEF CommsQuiet, CommsDrops, CommsDown, RejectMessage, HandleUnlock,
       HandleLock, HandleEnroll, HandleQuery
  <2> QED
    BY <1>2, <2>1 DEF CommsStep
<1>3. CASE Return
  <2>1. CASE SetupFails \/ SetupDone \/ WifiReturns \/ ReconnectEnds
             \/ EnrollProgress \/ EnrollReturns \/ ReplySent \/ PublishReturns
    BY <2>1 DEF SetupFails, SetupDone, WifiReturns, ReconnectEnds, EnrollProgress,
       EnrollReturns, ReplySent, PublishReturns
  <2> QED
    BY <1>3, <2>1 DEF Return
<1>4. CASE TimerTask
  <2>1. CASE TimerExpires \/ CallbackChecks \/ CallbackLocks
    BY <2>1 DEF TimerExpires, CallbackChecks, CallbackLocks
  <2>2. CASE TimerCommand
    BY <2>2, <1>q, TakingKeepsLast DEF TimerCommand
  <2> QED
    BY <1>4, <2>1, <2>2 DEF TimerTask
<1>5. CASE FlashTask
  <2>1. CASE FlashFires \/ FlashReverts
    BY <2>1 DEF FlashFires, FlashReverts
  <2> QED
    BY <1>5, <2>1 DEF FlashTask
<1>6. CASE Tick
  BY <1>6 DEF Tick, Waits, NothingDue
<1>7. CASE Panic \/ PowerCycle
  BY <1>7 DEF Panic, PowerCycle, Reboot
<1>8. CASE UNCHANGED vars
  BY <1>8 DEF vars
<1> QED
  BY <1>1, <1>2, <1>3, <1>4, <1>5, <1>6, <1>7, <1>8 DEF Next

\* The time of the open lock: UNLOCKED_TEMP counts it down with the timer, a
\* blocking call adds at most what the watchdog allows.
LEMMA TimeStep == Inv /\ [Next]_vars => TimeFound'
<1> SUFFICES ASSUME Inv, [Next]_vars PROVE TimeFound'
  OBVIOUS
<1> USE DEF Inv, TimeFound, Limited, LoopFinds, OpenLockIsAttended, Attending, Handled
<1>t. /\ wdt \in 0..WdtTimeout /\ openFor \in Nat /\ timerLeft \in 0..UnlockDuration
      /\ lock \in {"LOCKED", "UNLOCKED"}
  BY ConstantsAssumption DEF TypeOK, MaxOpen, ConstantsAssumption
<1>q. timerQueue \in Queue
  BY DEF TypeOK, Queue, Commands
<1>1. CASE LoopStep
  <2>1. CASE HungLoop \/ CommandUnlock \/ CommandLock \/ Switch \/ RfidCheck
             \/ BioGate \/ BioCheck \/ Lock
    BY <2>1 DEF HungLoop, CommandUnlock, CommandLock, Switch, RfidCheck, BioGate,
       BioCheck, Lock
  <2>2. CASE LoopBegins
    BY <2>2, <1>t, ConstantsAssumption DEF LoopBegins, ConstantsAssumption
  <2>3. CASE LoopEnds
    BY <2>3, <1>t, ConstantsAssumption DEF LoopEnds, ConstantsAssumption
  <2>4. CASE Unlock
    BY <2>4, <1>t, ConstantsAssumption DEF Unlock, ConstantsAssumption
  <2>5. CASE StartTimer
    BY <2>5, <1>q, <1>t, StartIsLast, ConstantsAssumption DEF StartTimer, ConstantsAssumption
  <2>6. CASE StartFails
    BY <2>6, <1>t, ConstantsAssumption DEF StartFails, ConstantsAssumption
  <2> QED
    BY <1>1, <2>1, <2>2, <2>3, <2>4, <2>5, <2>6 DEF LoopStep
<1>2. CASE CommsStep
  <2>1. CASE CommsQuiet \/ CommsDrops \/ CommsDown \/ RejectMessage \/ HandleUnlock
             \/ HandleLock \/ HandleEnroll \/ HandleQuery
    BY <2>1 DEF CommsQuiet, CommsDrops, CommsDown, RejectMessage, HandleUnlock,
       HandleLock, HandleEnroll, HandleQuery
  <2> QED
    BY <1>2, <2>1 DEF CommsStep
<1>3. CASE Return
  <2>1. CASE SetupFails \/ SetupDone \/ WifiReturns \/ ReconnectEnds
             \/ EnrollProgress \/ EnrollReturns \/ ReplySent \/ PublishReturns
    BY <2>1 DEF SetupFails, SetupDone, WifiReturns, ReconnectEnds, EnrollProgress,
       EnrollReturns, ReplySent, PublishReturns
  <2> QED
    BY <1>3, <2>1 DEF Return
<1>4. CASE TimerTask
  <2>1. CASE TimerExpires \/ CallbackChecks \/ CallbackLocks
    BY <2>1 DEF TimerExpires, CallbackChecks, CallbackLocks
  <2>2. CASE TimerCommand
    <3>1. CASE currentState = "UNLOCKED_TEMP" /\ Limited
      <4>1. openFor = 0 /\ timerQueue # <<>>
        BY <2>2, <3>1 DEF TimerCommand
      <4>2. timerQueue[Len(timerQueue)] = "start"
        BY <2>2, <3>1, <4>1 DEF TimerCommand, RelockIsComing
      <4>3. Tail(timerQueue) = <<>> => Head(timerQueue) = "start"
        BY <1>q, <4>1, <4>2, TakingKeepsLast
      <4> QED
        BY <2>2, <1>t, <3>1, <4>1, <4>3, ConstantsAssumption DEF TimerCommand, ConstantsAssumption
    <3>2. CASE ~(currentState = "UNLOCKED_TEMP" /\ Limited)
      BY <2>2, <3>2 DEF TimerCommand
    <3> QED
      BY <3>1, <3>2
  <2> QED
    BY <1>4, <2>1, <2>2 DEF TimerTask
<1>5. CASE FlashTask
  <2>1. CASE FlashFires \/ FlashReverts
    BY <2>1 DEF FlashFires, FlashReverts
  <2> QED
    BY <1>5, <2>1 DEF FlashTask
<1>6. CASE Tick
  <2>1. CASE Limited /\ currentState = "UNLOCKED_TEMP"
    <3>1. timerActive /\ timerLeft > 0 /\ callback = "none" /\ timerQueue = <<>>
      BY <1>6, <2>1 DEF Tick, NothingDue, RelockIsComing
    <3> QED
      BY <1>6, <1>t, <2>1, <3>1, ConstantsAssumption DEF Tick, ConstantsAssumption, Waits
  <2>2. CASE ~(Limited /\ currentState = "UNLOCKED_TEMP")
    BY <1>6, <1>t, <2>2, ConstantsAssumption DEF Tick, ConstantsAssumption, Waits
  <2> QED
    BY <2>1, <2>2
<1>7. CASE Panic \/ PowerCycle
  BY <1>7 DEF Panic, PowerCycle, Reboot
<1>8. CASE UNCHANGED vars
  BY <1>8 DEF vars
<1> QED
  BY <1>1, <1>2, <1>3, <1>4, <1>5, <1>6, <1>7, <1>8 DEF Next

\* The initial state satisfies every part.
LEMMA InvInit == Init => Inv
<1>1. Init => TypeOK
  BY TypeInit
<1> QED
  BY <1>1 DEF Init, Inv, LoopFinds, OpenLockIsAttended, RelockIsComing, TimeFound, Limited

\* Every step of every task keeps every part.
LEMMA InvStep == Inv /\ [Next]_vars => Inv'
<1>1. Inv /\ [Next]_vars => TypeOK'
  BY TypeStep DEF Inv
<1> QED
  BY <1>1, LoopFindsStep, AttendedStep, RelockStep, TimeStep DEF Inv

\* The invariant holds in every reachable state, for all constants.
THEOREM InvHolds == Spec => []Inv
<1> QED
  BY InvInit, InvStep, PTL DEF Spec

-----------------------------------------------------------------------------
(* What the invariant gives.                                               *)

\* The switch of loop() is reached in a state one of its live cases handles:
\* the CONFIG_MODE and default cases (main.cpp:318-340) are dead code.
THEOREM SwitchReached == Spec => []SwitchCases
<1>1. Inv => SwitchCases
  BY DEF Inv, LoopFinds, SwitchCases
<1> QED
  BY <1>1, InvHolds, PTL

\* Whatever the tasks interleave, a lock left open by no enrolment is in the
\* hands of a state that locks it again.
THEOREM LockAttended == Spec => []OpenLockIsAttended
<1>1. Inv => OpenLockIsAttended
  BY DEF Inv
<1> QED
  BY <1>1, InvHolds, PTL

\* The timer daemon always has the end of UNLOCKED_TEMP in hand, whatever the
\* length of its queue.
THEOREM RelockUnderWay == Spec => []RelockIsComing
<1>1. Inv => RelockIsComing
  BY DEF Inv
<1> QED
  BY <1>1, InvHolds, PTL

\* An attended lock with a timer is never open longer than two watchdog periods.
THEOREM OpenTimeIsBounded == Spec => []OpenTimeBounded
<1>1. Inv => OpenTimeBounded
  <2> SUFFICES ASSUME Inv PROVE OpenTimeBounded
    OBVIOUS
  <2>1. wdt \in 0..WdtTimeout /\ openFor \in Nat
    BY ConstantsAssumption DEF Inv, TypeOK, MaxOpen, ConstantsAssumption
  <2>2. Limited => openFor <= WdtTimeout + wdt
    BY DEF Inv, TimeFound
  <2> QED
    BY <2>1, <2>2, ConstantsAssumption DEF OpenTimeBounded, MaxOpen, ConstantsAssumption
<1> QED
  BY <1>1, InvHolds, PTL

-----------------------------------------------------------------------------
(* Authorisations are not lost.                                            *)

\* loopTask gives a permit up only by drawing the bolt: where it writes another
\* state it has none (LoopFinds), so what takes one is the callback's write, an
\* enrolment or a restart.
LEMMA PermitStep ==
  ASSUME Inv, [Next]_vars, Permit, ~Permit'
  PROVE  \/ pc' = "starting" /\ lock' = "UNLOCKED"
         \/ callback = "locking" /\ callback' = "none"
         \/ pc' \in {"enroll", "setup"}
<1> USE DEF Inv, LoopFinds, Permit
<1>1. CASE LoopStep
  <2>1. CASE HungLoop \/ LoopBegins \/ LoopEnds \/ CommandUnlock \/ CommandLock
             \/ Switch \/ RfidCheck \/ BioGate \/ BioCheck
    BY <2>1 DEF HungLoop, LoopBegins, LoopEnds, CommandUnlock, CommandLock, Switch,
       RfidCheck, BioGate, BioCheck
  <2>2. CASE Unlock \/ StartTimer \/ StartFails \/ Lock
    BY <2>2 DEF Unlock, StartTimer, StartFails, Lock
  <2> QED
    BY <1>1, <2>1, <2>2 DEF LoopStep
<1>2. CASE CommsStep
  <2>1. CASE CommsQuiet \/ CommsDrops \/ CommsDown \/ RejectMessage \/ HandleUnlock
             \/ HandleLock \/ HandleEnroll \/ HandleQuery
    BY <2>1 DEF CommsQuiet, CommsDrops, CommsDown, RejectMessage, HandleUnlock,
       HandleLock, HandleEnroll, HandleQuery
  <2> QED
    BY <1>2, <2>1 DEF CommsStep
<1>3. CASE Return
  <2>1. CASE SetupFails \/ SetupDone \/ WifiReturns \/ ReconnectEnds
             \/ EnrollProgress \/ EnrollReturns \/ ReplySent \/ PublishReturns
    BY <2>1 DEF SetupFails, SetupDone, WifiReturns, ReconnectEnds, EnrollProgress,
       EnrollReturns, ReplySent, PublishReturns
  <2> QED
    BY <1>3, <2>1 DEF Return
<1>4. CASE TimerTask
  <2>1. CASE TimerCommand \/ TimerExpires \/ CallbackChecks \/ CallbackLocks
    BY <2>1 DEF TimerCommand, TimerExpires, CallbackChecks, CallbackLocks
  <2> QED
    BY <1>4, <2>1 DEF TimerTask
<1>5. CASE FlashTask
  <2>1. CASE FlashFires \/ FlashReverts
    BY <2>1 DEF FlashFires, FlashReverts
  <2> QED
    BY <1>5, <2>1 DEF FlashTask
<1>6. CASE Tick
  BY <1>6 DEF Tick, Waits
<1>7. CASE Panic \/ PowerCycle
  BY <1>7 DEF Panic, PowerCycle, Reboot
<1>8. CASE UNCHANGED vars
  BY <1>8 DEF vars
<1> QED
  BY <1>1, <1>2, <1>3, <1>4, <1>5, <1>6, <1>7, <1>8 DEF Next

\* Whoever has been authorised gets the bolt drawn, unless the timer callback had
\* decided before, an enrolment begins or the device restarts.
THEOREM PermitsAreKept == Spec => PermitKept
<1>1. Inv /\ [Next]_vars =>
        [Permit /\ ~Permit' =>
           \/ pc' = "starting" /\ lock' = "UNLOCKED"
           \/ callback = "locking" /\ callback' = "none"
           \/ pc' \in {"enroll", "setup"}]_vars
  BY PermitStep
<1> QED
  BY <1>1, InvHolds, PTL DEF Spec, PermitKept

-----------------------------------------------------------------------------
(* The controller implements DoorLock.                                     *)

\* Power-on is a locked door without a permit.
LEMMA DoorInit == Init => Door!Init
BY DEF Init, Permit, Door!Init

\* Every step is a step of DoorLock or leaves its four variables alone.
LEMMA DoorStep == Inv /\ [Next]_vars => [Door!Next]_(Door!vars)
<1> SUFFICES ASSUME Inv, [Next]_vars PROVE [Door!Next]_(Door!vars)
  OBVIOUS
<1> USE DEF Inv, LoopFinds, Handled, Permit
<1>t. lock \in {"LOCKED", "UNLOCKED"}
  BY DEF TypeOK
<1>1. CASE LoopStep
  <2>1. CASE HungLoop \/ LoopBegins \/ LoopEnds \/ Switch \/ BioGate \/ StartTimer
             \/ StartFails
    BY <2>1 DEF HungLoop, LoopBegins, LoopEnds, Switch, BioGate, StartTimer,
       StartFails, Door!vars
  <2>2. CASE CommandUnlock
    BY <2>2 DEF CommandUnlock, Door!Next, Door!Authorise, Door!vars
  <2>3. CASE CommandLock
    BY <2>3 DEF CommandLock, Door!Next, Door!Withdraw, Door!vars
  <2>4. CASE RfidCheck
    BY <2>4 DEF RfidCheck, Door!Next, Door!Authorise, Door!vars
  <2>5. CASE BioCheck
    BY <2>5 DEF BioCheck, Door!Next, Door!Authorise, Door!Withdraw, Door!vars
  <2>6. CASE Unlock
    BY <2>6 DEF Unlock, Door!Next, Door!Open, Door!vars
  <2>7. CASE Lock
    BY <2>7 DEF Lock, Door!Next, Door!Close, Door!vars
  <2> QED
    BY <1>1, <2>1, <2>2, <2>3, <2>4, <2>5, <2>6, <2>7 DEF LoopStep
<1>2. CASE CommsStep
  <2>1. CASE CommsQuiet \/ CommsDrops \/ CommsDown \/ RejectMessage \/ HandleUnlock
             \/ HandleLock \/ HandleQuery
    BY <2>1 DEF CommsQuiet, CommsDrops, CommsDown, RejectMessage, HandleUnlock,
       HandleLock, HandleQuery, Door!vars
  <2>2. CASE HandleEnroll
    BY <2>2 DEF HandleEnroll, Door!Next, Door!Waive, Door!vars
  <2> QED
    BY <1>2, <2>1, <2>2 DEF CommsStep
<1>3. CASE Return
  <2>1. CASE WifiReturns \/ ReconnectEnds \/ EnrollProgress \/ ReplySent
             \/ PublishReturns
    BY <2>1 DEF WifiReturns, ReconnectEnds, EnrollProgress, ReplySent,
       PublishReturns, Door!vars
  <2>2. CASE SetupFails
    BY <2>2 DEF SetupFails, Door!Next, Door!Withdraw, Door!vars
  <2>3. CASE SetupDone
    BY <2>3 DEF SetupDone, Door!Next, Door!Restart, Door!vars
  <2>4. CASE EnrollReturns
    BY <2>4 DEF EnrollReturns, Door!Next, Door!Withdraw, Door!vars
  <2> QED
    BY <1>3, <2>1, <2>2, <2>3, <2>4 DEF Return
<1>4. CASE TimerTask
  <2>1. CASE TimerCommand \/ TimerExpires \/ CallbackChecks
    BY <2>1 DEF TimerCommand, TimerExpires, CallbackChecks, Door!vars
  <2>2. CASE CallbackLocks
    BY <2>2 DEF CallbackLocks, Door!Next, Door!Withdraw, Door!vars
  <2> QED
    BY <1>4, <2>1, <2>2 DEF TimerTask
<1>5. CASE FlashTask
  <2>1. CASE FlashFires \/ FlashReverts
    BY <2>1 DEF FlashFires, FlashReverts, Door!vars
  <2> QED
    BY <1>5, <2>1 DEF FlashTask
<1>6. CASE Tick
  <2>1. CASE Limited
    <3>1. openFor < MaxOpen /\ openFor <= MaxOpen
      BY <1>6, <2>1, ConstantsAssumption
         DEF Tick, TypeOK, TimeFound, Limited, MaxOpen, ConstantsAssumption
    <3>2. openFor' = openFor + 1 /\ UNCHANGED <<currentState, lock, unlockTimer, abandoned>>
      BY <1>6, <2>1, <3>1 DEF Tick, Limited
    <3>3. pc' = pc \/ (pc = "delay" /\ pc' = "loop")
      BY <1>6 DEF Tick
    <3>4. Door!Second
      BY <2>1, <3>1, <3>2, <3>3 DEF Limited, Door!Second
    <3> QED
      BY <3>4 DEF Door!Next
  <2>2. CASE ~Limited
    BY <1>6, <1>t, <2>2 DEF Tick, Limited, Waits, Door!vars
  <2> QED
    BY <2>1, <2>2
<1>7. CASE Panic \/ PowerCycle
  BY <1>7 DEF Panic, PowerCycle, Reboot, Door!Next, Door!Restart
<1>8. CASE UNCHANGED vars
  BY <1>8 DEF vars, Door!vars
<1> QED
  BY <1>1, <1>2, <1>3, <1>4, <1>5, <1>6, <1>7, <1>8 DEF Next

\* The controller is a DoorLock: the bolt moves only on a permit, once per
\* permit, and an unwaived opening ends within MaxOpen seconds.
THEOREM ImplementsDoor == Spec => DoorSafe
<1> QED
  BY InvHolds, DoorInit, DoorStep, PTL DEF Spec, DoorSafe, Door!Spec

=============================================================================
