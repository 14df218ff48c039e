--------------------------- MODULE StatusIndicator ---------------------------
(***************************************************************************)
(* drivers/status_indicator.cpp with the pins of the firmware (red only,   *)
(* main.cpp:137), statement by statement.                                  *)
(*                                                                         *)
(* Two tasks run the code on the same unprotected statics: loopTask calls  *)
(* setPattern, the esp_timer task runs the callbacks of the blinker Ticker *)
(* (toggleSimpleLed, and setPattern at the end of a flash).  A step is one *)
(* statement that reads or writes a static or the pin.  Ticker's attach,   *)
(* once and detach are taken as atomic; detach does not wait for a         *)
(* callback that has begun.                                                *)
(***************************************************************************)
EXTENDS Integers

VARIABLES
  currentPattern,  \* what setPattern was last told
  ledState,        \* phase of a blinking pattern
  blinker,         \* what the Ticker does: nothing, end a flash, or toggle
  led,             \* level of the red pin
  at,              \* where each task is in the code
  arg,             \* argument of the task's setPattern
  pin,             \* pinToUse of the task's toggleSimpleLed
  flashShown,      \* history: the level was set by an AUTH_* flash
  clean            \* history: no other task ran during the last setPattern

task    == <<at, arg, pin>>
history == <<flashShown, clean>>
vars == <<currentPattern, ledState, blinker, led, task, history>>

Task == {"loopTask", "esp_timer"}

Flash == {"AUTH_SUCCESS", "AUTH_FAIL"}
Idle == {"IDLE_LOCKED", "IDLE_UNLOCKED"}
Alternating == {"ERROR_NTP", "ERROR_MQTT"}
Blinking == {"ERROR_GENERIC", "ERROR_ATECC", "SYSTEM_BOOTING"} \cup Alternating
Pulsing == {"AUTH_WAITING", "CONFIG_MODE"}
Pattern == Idle \cup Flash \cup Blinking \cup Pulsing

Location == {"idle", "set", "clear", "detach", "branch", "colour", "arm", "flip", "pick", "write"}

-----------------------------------------------------------------------------
\* setSolidColor(1, 0, 0): the others leave the red pin low.
Red == {"IDLE_LOCKED", "AUTH_FAIL"}

\* Mutant: AUTH_WAITING has no case of its own and falls to the default, red.
PinToUse_WaitingByDefault(p, state) ==
  IF \/ p \in {"ERROR_GENERIC", "ERROR_ATECC", "IDLE_LOCKED", "AUTH_FAIL"} \cup Pulsing
     \/ p \in Alternating /\ state
  THEN "red" ELSE "none"

\* pinToUse: green and blue are -1.
PinToUse(p, state) ==
  IF \/ p \in {"ERROR_GENERIC", "ERROR_ATECC", "IDLE_LOCKED", "AUTH_FAIL", "CONFIG_MODE"}
     \/ p \in Alternating /\ state
  THEN "red" ELSE "none"

\* init() is about to call setPattern(SYSTEM_BOOTING) for the first time.
Init ==
  /\ currentPattern = "IDLE_LOCKED"
  /\ ledState = FALSE
  /\ blinker = "off"
  /\ led = FALSE
  /\ at = [t \in Task |-> IF t = "loopTask" THEN "set" ELSE "idle"]
  /\ arg = [t \in Task |-> "SYSTEM_BOOTING"]
  /\ pin = [t \in Task |-> "none"]
  /\ flashShown = FALSE
  /\ clean = TRUE

Goto(t, l) == at' = [at EXCEPT ![t] = l]
Alone(t) == \A u \in Task \ {t} : at[u] = "idle"

\* Task t enters setPattern(p).
Enter(t, p) ==
  /\ at[t] = "idle"
  /\ Goto(t, "set")
  /\ arg' = [arg EXCEPT ![t] = p]
  /\ clean' = Alone(t)
  /\ UNCHANGED <<currentPattern, ledState, led, pin, flashShown>>

-----------------------------------------------------------------------------
(* setPattern, and setSolidColor inside it.                                *)

SetCurrent(t) ==
  /\ at[t] = "set"
  /\ currentPattern' = arg[t]
  /\ Goto(t, "clear")
  /\ UNCHANGED <<ledState, blinker, led, arg, pin, history>>

ClearState(t) ==
  /\ at[t] = "clear"
  /\ ledState' = FALSE
  /\ Goto(t, "detach")
  /\ UNCHANGED <<currentPattern, blinker, led, arg, pin, history>>

Detach(t) ==
  /\ at[t] = "detach"
  /\ blinker' = "off"
  /\ Goto(t, "branch")
  /\ UNCHANGED <<currentPattern, ledState, led, arg, pin, history>>

Attach(t) ==
  /\ at[t] = "branch"
  /\ arg[t] \in Blinking
  /\ blinker' = "toggle"
  /\ Goto(t, "flip")
  /\ UNCHANGED <<currentPattern, ledState, led, arg, pin, history>>

\* setSolidColor detaches once more; a pulse without its pin is a solid colour.
DetachAgain(t) ==
  /\ at[t] = "branch"
  /\ arg[t] \notin Blinking
  /\ blinker' = "off"
  /\ Goto(t, "colour")
  /\ UNCHANGED <<currentPattern, ledState, led, arg, pin, history>>

\* Mutant: the end of the flash is not armed.
SolidColor_NotArmed(t) ==
  /\ at[t] = "colour"
  /\ led' = (arg[t] \in Red)
  /\ flashShown' = (arg[t] \in Flash)
  /\ Goto(t, IF arg[t] \in Pulsing THEN "flip" ELSE "idle")
  /\ UNCHANGED <<currentPattern, ledState, blinker, arg, pin, clean>>

SolidColor(t) ==
  /\ at[t] = "colour"
  /\ led' = (arg[t] \in Red)
  /\ flashShown' = (arg[t] \in Flash)
  /\ Goto(t, CASE arg[t] \in Flash   -> "arm"
               [] arg[t] \in Pulsing -> "flip"
               [] arg[t] \in Idle    -> "idle")
  /\ UNCHANGED <<currentPattern, ledState, blinker, arg, pin, clean>>

\* blinker.once_ms(300, ...)
ArmOneShot(t) ==
  /\ at[t] = "arm"
  /\ blinker' = "flash"
  /\ Goto(t, "idle")
  /\ UNCHANGED <<currentPattern, ledState, led, arg, pin, history>>

-----------------------------------------------------------------------------
(* toggleSimpleLed, called by setPattern or by the Ticker.                 *)

Flip(t) ==
  /\ at[t] = "flip"
  /\ ledState' = ~ledState
  /\ Goto(t, "pick")
  /\ UNCHANGED <<currentPattern, blinker, led, arg, pin, history>>

PickPin(t) ==
  /\ at[t] = "pick"
  /\ pin' = [pin EXCEPT ![t] = PinToUse(currentPattern, ledState)]
  /\ Goto(t, "write")
  /\ UNCHANGED <<currentPattern, ledState, blinker, led, arg, history>>

WritePin(t) ==
  /\ at[t] = "write"
  /\ led' = IF pin[t] = "red" THEN ledState ELSE led
  /\ flashShown' = (flashShown /\ pin[t] = "none")
  /\ Goto(t, "idle")
  /\ UNCHANGED <<currentPattern, ledState, blinker, arg, pin, clean>>

-----------------------------------------------------------------------------
\* loopTask calls setPattern.
SetPattern(p) == Enter("loopTask", p) /\ UNCHANGED blinker

\* Mutant: the end of a flash sets the current pattern again.
FlashEnds_Reflashes ==
  /\ blinker = "flash"
  /\ blinker' = "off"
  /\ Enter("esp_timer", currentPattern)

\* The one-shot of a flash fires: setPattern of what the lock is.
FlashEnds ==
  /\ blinker = "flash"
  /\ blinker' = "off"
  /\ \E p \in Idle : Enter("esp_timer", p)

Toggle ==
  /\ blinker = "toggle"
  /\ at["esp_timer"] = "idle"
  /\ Goto("esp_timer", "flip")
  /\ clean' = (clean /\ Alone("esp_timer"))
  /\ UNCHANGED <<currentPattern, ledState, blinker, led, arg, pin, flashShown>>

Runs(t) ==
  \/ SetCurrent(t) \/ ClearState(t) \/ Detach(t) \/ Attach(t) \/ DetachAgain(t)
  \/ SolidColor(t) \/ ArmOneShot(t)
  \/ Flip(t) \/ PickPin(t) \/ WritePin(t)

Next ==
  \/ \E p \in Pattern : SetPattern(p)
  \/ FlashEnds
  \/ Toggle
  \/ \E t \in Task : Runs(t)

Spec == Init /\ [][Next]_vars

\* Both tasks are scheduled, and a Ticker that is armed fires.
FairSpec ==
  /\ Spec
  /\ \A t \in Task : WF_vars(Runs(t))
  /\ WF_vars(FlashEnds)
  /\ WF_vars(Toggle)

-----------------------------------------------------------------------------
(* What is checked.                                                        *)

\* Every variable in its type, and only loopTask blinks, pulses or flashes: the
\* esp_timer task sets idle patterns only.
TypeOK ==
  /\ currentPattern \in Pattern
  /\ ledState \in BOOLEAN
  /\ blinker \in {"off", "flash", "toggle"}
  /\ led \in BOOLEAN
  /\ at \in [Task -> Location]
  /\ arg \in [Task -> Pattern]
  /\ pin \in [Task -> {"red", "none"}]
  /\ flashShown \in BOOLEAN
  /\ clean \in BOOLEAN
  /\ at["esp_timer"] # "arm"

Quiet == \A t \in Task : at[t] = "idle"

\* A setPattern no other task ran into leaves the red pin as its pattern draws it,
\* whatever an earlier race left shown, blinking or armed, and only its own Ticker
\* changes it: lit for the patterns that are red, dark for those of another colour,
\* in phase for those that blink red.
CleanPatternIsDrawn ==
  clean /\ Quiet =>
    /\ currentPattern \in Red => led
    /\ currentPattern \in {"IDLE_UNLOCKED", "AUTH_SUCCESS", "AUTH_WAITING"} => ~led
    /\ currentPattern \in {"ERROR_GENERIC", "ERROR_ATECC"} => led = ledState

\* The Ticker will write the red pin: as the end of a flash, or by a toggle of a
\* pattern that has a phase in red.
WritesRed ==
  \/ blinker = "flash"
  \/ blinker = "toggle" /\ PinToUse(currentPattern, TRUE) = "red"

\* However the two tasks interleave, the colour of a flash is never left on the pin
\* with nothing to overwrite it, except under SYSTEM_BOOTING, whose blue pin is -1.
FlashIsTakenBack ==
  Quiet /\ flashShown => WritesRed \/ currentPattern = "SYSTEM_BOOTING"

\* When loopTask sets no more patterns a flash ends, except under SYSTEM_BOOTING: set
\* within the 300 ms of the flash it detaches the one-shot and never writes the pin.
FlashDoesEnd ==
  <>[](at["loopTask"] = "idle") =>
    \/ <>[](~flashShown)
    \/ <>[](currentPattern = "SYSTEM_BOOTING")
=============================================================================
