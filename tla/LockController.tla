--------------------------- MODULE LockController ---------------------------
(***************************************************************************)
(* The access-control application of the lock: the SystemState machine of  *)
(* firmware/src/main.cpp with LockControl, the FreeRTOS unlock timer, the  *)
(* task watchdog and the visible part of StatusIndicator.                  *)
(*                                                                         *)
(* Three tasks share memory without locks:                                 *)
(*   - loopTask      setup(), then loop() for ever; Comms::loop() and the  *)
(*                   command handler run inside it;                        *)
(*   - timer daemon  the commands queued by xTimerStart/xTimerStop, the    *)
(*                   expiry of unlockTimer and unlockTimerCallback;        *)
(*   - esp_timer     the one-shot Ticker that ends an AUTH_* flash.        *)
(* A step ends where another task may observe or overwrite what the code   *)
(* has read: a test of currentState and the write that depends on it are   *)
(* two steps.  Time is counted in seconds and passes only while loopTask   *)
(* waits; shorter delays are charged to the delay that ends loop().        *)
(***************************************************************************)
EXTENDS Integers, Sequences

CONSTANTS
  UnlockDuration,     \* UNLOCK_DURATION_MS, in seconds
  WdtTimeout,         \* esp_task_wdt_init(10, true), in seconds
  TimerQueueLength    \* capacity of the timer daemon's command queue

ASSUME ConstantsAssumption ==
  /\ UnlockDuration \in Nat \ {0}
  /\ WdtTimeout \in Nat \ {0}
  /\ TimerQueueLength \in Nat \ {0}
  /\ UnlockDuration < WdtTimeout

VARIABLES
  currentState,  \* the SystemState every task reads and writes
  pc,            \* where loopTask is
  lock,          \* LockControl::current_state (the pin follows it)
  unlockTimer,   \* FALSE: the handle is NULL, xTimerCreate failed
  timerActive,   \* what xTimerIsTimerActive reports
  timerLeft,     \* seconds until the active timer expires
  timerQueue,    \* commands posted and not yet taken by the daemon
  callback,      \* where the daemon is in unlockTimerCallback
  pattern,       \* StatusIndicator::currentPattern
  blinker,       \* TRUE: the one-shot that ends an AUTH_* flash is armed
  revert,        \* pattern the fired one-shot is about to set, or "none"
  wdt,           \* seconds since loopTask last reset the watchdog
  openFor,       \* history: seconds since the open lock was last unlocked
  abandoned      \* history: an enrolment began while the lock was open

loopVars  == <<currentState, pc>>
timerVars == <<timerActive, timerLeft, timerQueue, callback>>
ledVars   == <<pattern, blinker>>
history   == <<openFor, abandoned>>
vars == <<loopVars, lock, unlockTimer, timerVars, ledVars, revert, wdt, history>>

SystemState ==
  {"BOOTING", "IDLE", "AUTH_RFID_PENDING", "AUTH_BIO_PENDING",
   "AUTH_REMOTE_PENDING", "UNLOCKING", "UNLOCKED_TEMP", "LOCKING",
   "ERROR_STATE", "CONFIG_MODE"}

Flash  == {"AUTH_SUCCESS", "AUTH_FAIL"}
Errors == {"ERROR_GENERIC", "ERROR_ATECC", "ERROR_MQTT"}
Pattern ==
  {"IDLE_LOCKED", "IDLE_UNLOCKED", "SYSTEM_BOOTING", "AUTH_WAITING",
   "CONFIG_MODE"} \cup Flash \cup Errors

\* Calls loopTask may wait in; each can last until the watchdog bites.
Waits == {"setup", "reconnect", "reply", "enroll", "publish"}
Location ==
  Waits \cup {"hung", "loop", "comms", "cmdUnlock", "cmdLock", "switch",
              "idle", "bioGate", "bio", "unlocking", "starting", "locking", "delay"}

\* The longest an attended lock can stay open: the watchdog may let the call
\* that follows the unlock last WdtTimeout, and the next iteration as long.
MaxOpen == 2 * WdtTimeout

-----------------------------------------------------------------------------
(* StatusIndicator::setPattern, taken as one step, and the lock it shows.  *)

SetPattern(p) ==
  /\ pattern' = p
  /\ blinker' = (p \in Flash)

IdlePattern == IF lock = "LOCKED" THEN "IDLE_LOCKED" ELSE "IDLE_UNLOCKED"

\* xTimerStop / xTimerStart with no block time: nothing is queued when full.
Posted(q, c) == IF Len(q) < TimerQueueLength THEN Append(q, c) ELSE q
StopPosted   == IF timerActive THEN Posted(timerQueue, "stop") ELSE timerQueue

-----------------------------------------------------------------------------
(* Power-on and setup().                                                   *)

Init ==
  /\ currentState = "BOOTING"
  /\ pc = "setup"
  /\ lock = "LOCKED"
  /\ unlockTimer = FALSE
  /\ timerActive = FALSE
  /\ timerLeft = 0
  /\ timerQueue = <<>>
  /\ callback = "none"
  /\ pattern = "SYSTEM_BOOTING"
  /\ blinker = FALSE
  /\ revert = "none"
  /\ wdt = 0
  /\ openFor = 0
  /\ abandoned = FALSE

\* A security module or a driver does not come up: flash an error for ever.
SetupFails ==
  /\ pc = "setup"
  /\ currentState' = "ERROR_STATE"
  /\ pc' = "hung"
  /\ \E p \in {"ERROR_ATECC", "ERROR_GENERIC"} : SetPattern(p)
  /\ UNCHANGED <<lock, unlockTimer, timerVars, revert, wdt, history>>

HungLoop ==
  /\ pc = "hung"
  /\ wdt' = 0
  /\ UNCHANGED <<loopVars, lock, unlockTimer, timerVars, ledVars, revert, history>>

\* The timer may not be created; setup() goes on without it.
SetupDone ==
  /\ pc = "setup"
  /\ currentState' = "IDLE"
  /\ pc' = "loop"
  /\ unlockTimer' \in BOOLEAN
  /\ SetPattern("IDLE_LOCKED")
  /\ UNCHANGED <<lock, timerVars, revert, wdt, history>>

-----------------------------------------------------------------------------
(* loop(): the watchdog, Comms::loop() and the command it may deliver.     *)

LoopBegins ==
  /\ pc = "loop"
  /\ pc' = "comms"
  /\ wdt' = 0
  /\ UNCHANGED <<currentState, lock, unlockTimer, timerVars, ledVars, revert, history>>

LoopEnds ==
  /\ pc = "delay"
  /\ pc' = "loop"
  /\ UNCHANGED <<currentState, lock, unlockTimer, timerVars, ledVars, revert, wdt, history>>

\* Connected with no message, or not yet time for a reconnection attempt.
CommsQuiet ==
  /\ pc = "comms"
  /\ pc' = "switch"
  /\ UNCHANGED <<currentState, lock, unlockTimer, timerVars, ledVars, revert, wdt, history>>

\* mqttClient.loop() fails: disconnect and show it.
CommsDrops ==
  /\ pc = "comms"
  /\ pc' = "switch"
  /\ SetPattern("ERROR_MQTT")
  /\ UNCHANGED <<currentState, lock, unlockTimer, timerVars, revert, wdt, history>>

\* WiFi or the broker is gone: wait for it inside Comms::loop().
CommsDown ==
  /\ pc = "comms"
  /\ pc' = "reconnect"
  /\ SetPattern("SYSTEM_BOOTING")
  /\ UNCHANGED <<currentState, lock, unlockTimer, timerVars, revert, wdt, history>>

\* WiFi is back: Comms::loop() goes on with the MQTT client.
WifiReturns ==
  /\ pc = "reconnect"
  /\ pc' = "comms"
  /\ UNCHANGED <<currentState, lock, unlockTimer, timerVars, ledVars, revert, wdt, history>>

\* The attempt ends: connected (IDLE_LOCKED whatever the lock), refused, or no
\* WiFi when the wait for it was over (Comms has what ends that wait).
ReconnectEnds ==
  /\ pc = "reconnect"
  /\ pc' = "switch"
  /\ \E p \in {"IDLE_LOCKED", "ERROR_MQTT", "ERROR_GENERIC"} : SetPattern(p)
  /\ UNCHANGED <<currentState, lock, unlockTimer, timerVars, revert, wdt, history>>

\* A message that does not verify, decrypt or parse, an unknown command, a bad
\* identifier, or a command refused in this state.
RejectMessage ==
  /\ pc = "comms"
  /\ pc' = "switch"
  /\ SetPattern("AUTH_FAIL")
  /\ UNCHANGED <<currentState, lock, unlockTimer, timerVars, revert, wdt, history>>

\* Mutant: UNLOCK is accepted while the lock is open.
HandleUnlock_WhileOpen ==
  /\ pc = "comms"
  /\ currentState \in {"IDLE", "LOCKING", "UNLOCKED_TEMP"}
  /\ pc' = "cmdUnlock"
  /\ SetPattern("AUTH_WAITING")
  /\ UNCHANGED <<currentState, lock, unlockTimer, timerVars, revert, wdt, history>>

\* UNLOCK: the test of currentState, then the write it licenses.
HandleUnlock ==
  /\ pc = "comms"
  /\ currentState \in {"IDLE", "LOCKING"}
  /\ pc' = "cmdUnlock"
  /\ SetPattern("AUTH_WAITING")
  /\ UNCHANGED <<currentState, lock, unlockTimer, timerVars, revert, wdt, history>>

CommandUnlock ==
  /\ pc = "cmdUnlock"
  /\ currentState' = "UNLOCKING"
  /\ pc' = "switch"
  /\ UNCHANGED <<lock, unlockTimer, timerVars, ledVars, revert, wdt, history>>

\* Mutant: LOCK is refused only when there is nothing to lock.
HandleLock_UnlessIdle ==
  /\ pc = "comms"
  /\ currentState \notin {"IDLE", "ERROR_STATE"}
  /\ pc' = "cmdLock"
  /\ SetPattern("AUTH_WAITING")
  /\ UNCHANGED <<currentState, lock, unlockTimer, timerVars, revert, wdt, history>>

\* LOCK: the test, then the write and the request to stop the timer.
HandleLock ==
  /\ pc = "comms"
  /\ currentState = "UNLOCKED_TEMP"
  /\ pc' = "cmdLock"
  /\ SetPattern("AUTH_WAITING")
  /\ UNCHANGED <<currentState, lock, unlockTimer, timerVars, revert, wdt, history>>

CommandLock ==
  /\ pc = "cmdLock"
  /\ currentState' = "LOCKING"
  /\ pc' = "switch"
  /\ timerQueue' = IF unlockTimer THEN StopPosted ELSE timerQueue
  /\ UNCHANGED <<lock, unlockTimer, timerActive, timerLeft, callback, ledVars,
                 revert, wdt, history>>

\* ENROLL_FINGER is accepted in every state and blocks loopTask.
HandleEnroll ==
  /\ pc = "comms"
  /\ currentState' = "CONFIG_MODE"
  /\ pc' = "enroll"
  /\ SetPattern("CONFIG_MODE")
  /\ abandoned' = (lock = "UNLOCKED")
  /\ openFor' = 0
  /\ UNCHANGED <<lock, unlockTimer, timerVars, revert, wdt>>

\* Mutant: the enrolment resets the watchdog while it waits for a finger.
EnrollProgress_Feeds ==
  /\ pc = "enroll"
  /\ wdt' = 0
  /\ UNCHANGED <<loopVars, lock, unlockTimer, timerVars, ledVars, revert, history>>

\* Finger placed, image taken, finger removed, model stored or refused.
EnrollProgress ==
  /\ pc = "enroll"
  /\ \E p \in {"AUTH_SUCCESS", "AUTH_FAIL", "IDLE_LOCKED", "CONFIG_MODE"} : SetPattern(p)
  /\ UNCHANGED <<loopVars, lock, unlockTimer, timerVars, revert, wdt, history>>

\* Mutant: the mode is not left after the enrolment.
EnrollReturns_KeepsMode ==
  /\ pc = "enroll"
  /\ pc' = "switch"
  /\ SetPattern("IDLE_LOCKED")
  /\ UNCHANGED <<currentState, lock, unlockTimer, timerVars, revert, wdt, history>>

EnrollReturns ==
  /\ pc = "enroll"
  /\ currentState' = "IDLE"
  /\ pc' = "switch"
  /\ SetPattern("IDLE_LOCKED")
  /\ UNCHANGED <<lock, unlockTimer, timerVars, revert, wdt, history>>

\* DELETE_FINGER and STATUS_REQUEST leave currentState alone and publish.
HandleQuery ==
  /\ pc = "comms"
  /\ pc' = "reply"
  /\ SetPattern("AUTH_WAITING")
  /\ UNCHANGED <<currentState, lock, unlockTimer, timerVars, revert, wdt, history>>

ReplySent ==
  /\ pc = "reply"
  /\ pc' = "switch"
  /\ \E p \in Flash \cup {IdlePattern} : SetPattern(p)
  /\ UNCHANGED <<currentState, lock, unlockTimer, timerVars, revert, wdt, history>>

-----------------------------------------------------------------------------
(* loop(): switch (currentState) and its cases.                            *)

\* UNLOCKED_TEMP and ERROR_STATE only delay.  CONFIG_MODE and the default case
\* are never reached (SwitchCases).
Switch ==
  /\ pc = "switch"
  /\ \/ currentState = "IDLE"      /\ pc' = "idle"
     \/ currentState = "UNLOCKING" /\ pc' = "unlocking"
     \/ currentState = "LOCKING"   /\ pc' = "locking"
     \/ currentState \notin {"IDLE", "UNLOCKING", "LOCKING"} /\ pc' = "delay"
  /\ UNCHANGED <<currentState, lock, unlockTimer, timerVars, ledVars, revert, wdt, history>>

\* RFID: no card read, a card that is allowed, a card that is not.
RfidCheck ==
  /\ pc = "idle"
  /\ pc' = "bioGate"
  /\ \/ UNCHANGED <<currentState, ledVars>>
     \/ currentState' = "UNLOCKING" /\ SetPattern("AUTH_SUCCESS")
     \/ UNCHANGED currentState /\ SetPattern("AUTH_FAIL")
  /\ UNCHANGED <<lock, unlockTimer, timerVars, revert, wdt, history>>

\* The fingerprint is tried only if currentState is still IDLE.
BioGate ==
  /\ pc = "bioGate"
  /\ pc' = IF currentState = "IDLE" THEN "bio" ELSE "delay"
  /\ UNCHANGED <<currentState, lock, unlockTimer, timerVars, ledVars, revert, wdt, history>>

\* Mutant: no break after the IDLE case, the UNLOCKING case runs as well.
BioCheck_FallsThrough ==
  /\ pc = "bio"
  /\ pc' = "unlocking"
  /\ UNCHANGED <<currentState, lock, unlockTimer, timerVars, ledVars, revert, wdt, history>>

\* Fingerprint: nothing matched, a confident match, a weak one, a sensor error.
BioCheck ==
  /\ pc = "bio"
  /\ pc' = "delay"
  /\ \/ UNCHANGED <<currentState, ledVars>>
     \/ currentState' = "UNLOCKING" /\ SetPattern("AUTH_SUCCESS")
     \/ UNCHANGED currentState /\ SetPattern("AUTH_FAIL")
     \/ currentState' = "ERROR_STATE" /\ SetPattern("ERROR_GENERIC")
  /\ UNCHANGED <<lock, unlockTimer, timerVars, revert, wdt, history>>

\* LockControl::unlock(), and a running timer is asked to stop.
Unlock ==
  /\ pc = "unlocking"
  /\ lock' = "UNLOCKED"
  /\ openFor' = 0
  /\ abandoned' = FALSE
  /\ IF lock = "LOCKED" THEN SetPattern("IDLE_UNLOCKED") ELSE UNCHANGED ledVars
  /\ pc' = "starting"
  /\ timerQueue' = IF unlockTimer THEN StopPosted ELSE timerQueue
  /\ UNCHANGED <<currentState, unlockTimer, timerActive, timerLeft, callback, revert, wdt>>

\* Mutant: the result of xTimerStart is not looked at.
StartTimer_Unchecked ==
  /\ pc = "starting"
  /\ timerQueue' = IF unlockTimer THEN Posted(timerQueue, "start") ELSE timerQueue
  /\ currentState' = "UNLOCKED_TEMP"
  /\ pc' = "publish"
  /\ SetPattern("IDLE_UNLOCKED")
  /\ UNCHANGED <<lock, unlockTimer, timerActive, timerLeft, callback, revert, wdt, history>>

\* Mutant: the timer is started first and stopped afterwards.
StartTimer_ThenStop ==
  /\ pc = "starting"
  /\ timerQueue' = IF unlockTimer THEN Posted(Posted(timerQueue, "start"), "stop")
                                  ELSE timerQueue
  /\ currentState' = "UNLOCKED_TEMP"
  /\ pc' = "publish"
  /\ SetPattern("IDLE_UNLOCKED")
  /\ UNCHANGED <<lock, unlockTimer, timerActive, timerLeft, callback, revert, wdt, history>>

\* The timer is started; a NULL timer leaves the lock open until a LOCK command.
StartTimer ==
  /\ pc = "starting"
  /\ unlockTimer => Len(timerQueue) < TimerQueueLength
  /\ timerQueue' = IF unlockTimer THEN Append(timerQueue, "start") ELSE timerQueue
  /\ currentState' = "UNLOCKED_TEMP"
  /\ pc' = "publish"
  /\ SetPattern("IDLE_UNLOCKED")
  /\ UNCHANGED <<lock, unlockTimer, timerActive, timerLeft, callback, revert, wdt, history>>

\* Mutant: a timer that does not start is treated as nothing to do.
StartFails_ToIdle ==
  /\ pc = "starting"
  /\ unlockTimer /\ Len(timerQueue) = TimerQueueLength
  /\ currentState' = "IDLE"
  /\ pc' = "delay"
  /\ UNCHANGED <<lock, unlockTimer, timerVars, ledVars, revert, wdt, history>>

\* The command queue is full: lock again at once.
StartFails ==
  /\ pc = "starting"
  /\ unlockTimer /\ Len(timerQueue) = TimerQueueLength
  /\ currentState' = "LOCKING"
  /\ pc' = "delay"
  /\ UNCHANGED <<lock, unlockTimer, timerVars, ledVars, revert, wdt, history>>

\* LockControl::lock() and back to IDLE.
Lock ==
  /\ pc = "locking"
  /\ lock' = "LOCKED"
  /\ openFor' = 0
  /\ abandoned' = FALSE
  /\ currentState' = "IDLE"
  /\ pc' = "publish"
  /\ SetPattern("IDLE_LOCKED")
  /\ UNCHANGED <<unlockTimer, timerVars, revert, wdt>>

\* Comms::publishStatus returns, whether or not it sent anything.
PublishReturns ==
  /\ pc = "publish"
  /\ pc' = "delay"
  /\ UNCHANGED <<currentState, lock, unlockTimer, timerVars, ledVars, revert, wdt, history>>

-----------------------------------------------------------------------------
(* The FreeRTOS timer daemon: one command or one expiry at a time.         *)

TimerCommand ==
  /\ callback = "none"
  /\ timerQueue # <<>>
  /\ timerQueue' = Tail(timerQueue)
  /\ timerActive' = (Head(timerQueue) = "start")
  /\ timerLeft' = IF Head(timerQueue) = "start" THEN UnlockDuration ELSE 0
  /\ UNCHANGED <<loopVars, lock, unlockTimer, callback, ledVars, revert, wdt, history>>

TimerExpires ==
  /\ callback = "none"
  /\ timerActive /\ timerLeft = 0
  /\ timerActive' = FALSE
  /\ callback' = "entered"
  /\ UNCHANGED <<loopVars, lock, unlockTimer, timerLeft, timerQueue, ledVars,
                 revert, wdt, history>>

\* Mutant: the callback tests the state the unlock started from.
CallbackChecks_WrongState ==
  /\ callback = "entered"
  /\ callback' = IF currentState = "UNLOCKING" THEN "locking" ELSE "none"
  /\ UNCHANGED <<loopVars, lock, unlockTimer, timerActive, timerLeft, timerQueue,
                 ledVars, revert, wdt, history>>

\* Mutant: the callback ends the open state without asking for the lock.
CallbackLocks_ToIdle ==
  /\ callback = "locking"
  /\ currentState' = "IDLE"
  /\ callback' = "none"
  /\ UNCHANGED <<pc, lock, unlockTimer, timerActive, timerLeft, timerQueue,
                 ledVars, revert, wdt, history>>

\* unlockTimerCallback: the test of currentState, then the write.
CallbackChecks ==
  /\ callback = "entered"
  /\ callback' = IF currentState = "UNLOCKED_TEMP" THEN "locking" ELSE "none"
  /\ UNCHANGED <<loopVars, lock, unlockTimer, timerActive, timerLeft, timerQueue,
                 ledVars, revert, wdt, history>>

CallbackLocks ==
  /\ callback = "locking"
  /\ currentState' = "LOCKING"
  /\ callback' = "none"
  /\ UNCHANGED <<pc, lock, unlockTimer, timerActive, timerLeft, timerQueue,
                 ledVars, revert, wdt, history>>

-----------------------------------------------------------------------------
(* esp_timer: the lambda that ends a flash reads the lock, then sets.      *)

\* Mutant: the flash ends in the pattern shown, not in the one of the lock.
FlashFires_KeepsPattern ==
  /\ blinker /\ revert = "none"
  /\ blinker' = FALSE
  /\ revert' = pattern
  /\ UNCHANGED <<loopVars, lock, unlockTimer, timerVars, pattern, wdt, history>>

FlashFires ==
  /\ blinker /\ revert = "none"
  /\ blinker' = FALSE
  /\ revert' = IdlePattern
  /\ UNCHANGED <<loopVars, lock, unlockTimer, timerVars, pattern, wdt, history>>

FlashReverts ==
  /\ revert # "none"
  /\ SetPattern(revert)
  /\ revert' = "none"
  /\ UNCHANGED <<loopVars, lock, unlockTimer, timerVars, wdt, history>>

-----------------------------------------------------------------------------
(* Time, the watchdog and the power supply.                                *)

\* What the timer daemon has to do this second is done before the next.  The
\* length of a flash (300 ms) is not measured.
NothingDue ==
  /\ callback = "none"
  /\ timerQueue = <<>>
  /\ timerActive => timerLeft > 0

Tick ==
  /\ pc \in Waits \cup {"hung", "delay"}
  /\ pc = "hung" => wdt = 0
  /\ wdt < WdtTimeout
  /\ NothingDue
  /\ wdt' = wdt + 1
  /\ pc' = IF pc = "delay" THEN "loop" ELSE pc
  /\ timerLeft' = IF timerActive THEN timerLeft - 1 ELSE timerLeft
  /\ openFor' = IF lock = "UNLOCKED" /\ ~abandoned /\ openFor <= MaxOpen
                  THEN openFor + 1 ELSE openFor
  /\ UNCHANGED <<currentState, lock, unlockTimer, timerActive, timerQueue,
                 callback, ledVars, revert, abandoned>>

Reboot ==
  /\ currentState' = "BOOTING"
  /\ pc' = "setup"
  /\ lock' = "LOCKED"
  /\ unlockTimer' = FALSE
  /\ timerActive' = FALSE
  /\ timerLeft' = 0
  /\ timerQueue' = <<>>
  /\ callback' = "none"
  /\ pattern' = "SYSTEM_BOOTING"
  /\ blinker' = FALSE
  /\ revert' = "none"
  /\ wdt' = 0
  /\ openFor' = 0
  /\ abandoned' = FALSE

\* The watchdog panics and resets the chip; so may the power supply.
Panic == wdt = WdtTimeout /\ Reboot
PowerCycle == Reboot

-----------------------------------------------------------------------------
\* Steps loopTask takes by itself, and returns that depend on the outside.
LoopStep ==
  \/ HungLoop \/ LoopBegins \/ LoopEnds \/ CommandUnlock \/ CommandLock
  \/ Switch \/ RfidCheck \/ BioGate \/ BioCheck \/ Unlock
  \/ StartTimer \/ StartFails \/ Lock
CommsStep ==
  \/ CommsQuiet \/ CommsDrops \/ CommsDown \/ RejectMessage
  \/ HandleUnlock \/ HandleLock \/ HandleEnroll \/ HandleQuery
Return ==
  \/ SetupFails \/ SetupDone \/ WifiReturns \/ ReconnectEnds
  \/ EnrollProgress \/ EnrollReturns \/ ReplySent \/ PublishReturns
TimerTask == TimerCommand \/ TimerExpires \/ CallbackChecks \/ CallbackLocks
FlashTask == FlashFires \/ FlashReverts

Next ==
  \/ LoopStep \/ CommsStep \/ Return \/ TimerTask \/ FlashTask
  \/ Tick \/ Panic \/ PowerCycle

\* The scheduler runs every ready task, time diverges and the watchdog bites.
\* Nothing makes a Return happen: a blocked call may never come back.
Fairness ==
  /\ WF_vars(LoopStep \/ CommsStep)
  /\ WF_vars(TimerTask)
  /\ WF_vars(FlashTask)
  /\ WF_vars(Panic)
  /\ SF_vars(Tick)

Spec == Init /\ [][Next]_vars
FairSpec == Spec /\ Fairness

-----------------------------------------------------------------------------
(* What is checked.                                                        *)

\* Every variable in its type; the queue and the watchdog within their limits.
TypeOK ==
  /\ currentState \in SystemState
  /\ pc \in Location
  /\ lock \in {"LOCKED", "UNLOCKED"}
  /\ unlockTimer \in BOOLEAN
  /\ timerActive \in BOOLEAN
  /\ timerLeft \in 0..UnlockDuration
  /\ timerQueue \in Seq({"stop", "start"})
  /\ Len(timerQueue) <= TimerQueueLength
  /\ callback \in {"none", "entered", "locking"}
  /\ pattern \in Pattern
  /\ blinker \in BOOLEAN
  /\ revert \in {"none", "IDLE_LOCKED", "IDLE_UNLOCKED"}
  /\ wdt \in 0..WdtTimeout
  /\ openFor \in 0..(MaxOpen + 1)
  /\ abandoned \in BOOLEAN

Handled == {"IDLE", "UNLOCKING", "UNLOCKED_TEMP", "LOCKING", "ERROR_STATE"}

\* When loop() reaches its switch, whatever message or timer came first, it is
\* in one of five states: the CONFIG_MODE case (main.cpp:318) never shows its
\* pattern and the default case (main.cpp:336) never has anything to recover.
SwitchCases ==
  pc = "switch" => currentState \in Handled

\* What loopTask may find where it is: SwitchCases with the steps that lead
\* there and leave from there.
LoopFinds ==
  /\ pc \notin {"setup", "enroll"} => currentState \in Handled
  /\ pc \in {"unlocking", "starting"} => currentState \in {"UNLOCKING", "LOCKING"}
  /\ pc = "locking" => currentState = "LOCKING"
  /\ pc \in {"setup", "enroll", "cmdLock", "bio"} => currentState # "UNLOCKING"
  /\ pc \in {"setup", "hung"} => lock = "LOCKED" /\ openFor = 0
  /\ pc \in {"idle", "bioGate", "bio", "enroll"} => lock = "LOCKED" \/ abandoned

\* The states in which some task still has the open lock in hand.
Attending == {"UNLOCKING", "UNLOCKED_TEMP", "LOCKING"}

\* The lock is open only in a state that leads to locking it again, whatever
\* the timer callback, a full command queue or an error does meanwhile, unless
\* an enrolment began while it was open.
OpenLockIsAttended ==
  lock = "UNLOCKED" /\ ~abandoned => currentState \in Attending

\* While the lock is open for a limited time the end of that time is under way:
\* the start is queued behind every stop, or the timer runs, or the callback is
\* about to act.  No stop, lost command or late expiry can leave it out.
RelockIsComing ==
  currentState = "UNLOCKED_TEMP" /\ unlockTimer =>
    \/ callback # "none"
    \/ timerQueue = <<>> /\ timerActive
    \/ timerQueue # <<>> /\ timerQueue[Len(timerQueue)] = "start"

\* The lock is open for a limited time: nobody gave up the automatic relock.
Limited == lock = "UNLOCKED" /\ ~abandoned /\ unlockTimer

\* Where the time of the open lock stands when UNLOCKED_TEMP counts it, after the
\* switch of the iteration that opened it or found it open, and before the next.
TimeFound ==
  Limited =>
    /\ currentState = "UNLOCKED_TEMP" =>
         /\ openFor <= UnlockDuration
         /\ callback = "none" /\ timerQueue = <<>> => openFor + timerLeft <= UnlockDuration
         /\ timerQueue # <<>> => openFor = 0
    /\ pc = "starting" => openFor = 0
    /\ pc = "publish" => openFor <= wdt
    /\ pc = "delay" => openFor <= UnlockDuration \/ openFor <= wdt
    /\ pc = "loop" => openFor <= WdtTimeout
    /\ openFor <= WdtTimeout + wdt

\* An attended open lock with a timer is locked, or the device reset, within
\* two watchdog periods, however long WiFi, the broker or a publication blocks.
OpenTimeBounded ==
  Limited => openFor <= MaxOpen

\* The inductive invariant: each part needs the others to be kept by a step.
Inv == TypeOK /\ LoopFinds /\ OpenLockIsAttended /\ RelockIsComing /\ TimeFound

\* Someone has been authorised and loopTask has not drawn the bolt yet.
Permit ==
  \/ currentState = "UNLOCKING" /\ pc # "starting"
  \/ currentState = "LOCKING" /\ pc = "unlocking"

\* An authorisation, once granted, draws the bolt.  No message, connection loss,
\* card, sensor error or expiry that comes in between takes it away: only a
\* callback that had decided to lock before it was granted, an enrolment, or a
\* restart of the device does.
PermitKept ==
  [][Permit /\ ~Permit' =>
       \/ pc' = "starting" /\ lock' = "UNLOCKED"
       \/ callback = "locking" /\ callback' = "none"
       \/ pc' \in {"enroll", "setup"}]_vars

\* The controller implements DoorLock: an accepted request is a permit until
\* the bolt is drawn or another write of currentState overtakes it.
Door == INSTANCE DoorLock WITH
  door   <- lock,
  permit <- Permit,
  age    <- IF abandoned \/ ~unlockTimer THEN 0 ELSE openFor,
  waived <- abandoned \/ ~unlockTimer

\* Every step of the three tasks is a step of DoorLock or leaves it alone.
DoorSafe == Door!Spec

\* The automatic relock happens: an open lock with a timer is locked, by loop()
\* or by a restart, whatever messages, connection losses and full queues come in
\* between, unless an enrolment abandons it or somebody is authorised again.
AutoRelock == Limited ~> lock = "LOCKED" \/ abandoned \/ Permit

\* loopTask never stays in a blocking call for ever: it comes back to loop(),
\* restarts, or is in the error loop of setup() (an enrolment that waits for a
\* finger is ended by the watchdog).
LoopNeverStalls == []<>(pc \in {"loop", "setup", "hung"})

\* An accepted UNLOCK command draws the bolt or the device restarts, unless the
\* timer callback had already decided to lock.
RemoteUnlockServed ==
  pc = "cmdUnlock" /\ callback # "locking" ~> pc \in {"starting", "setup"}

\* An accepted LOCK command locks, or the device restarts locked, even when the
\* timer expires at the same moment.
RemoteLockServed == pc = "cmdLock" ~> lock = "LOCKED"
=============================================================================
