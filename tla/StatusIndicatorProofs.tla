------------------------ MODULE StatusIndicatorProofs ------------------------
(***************************************************************************)
(* Proofs about StatusIndicator, however its two tasks interleave: a flash *)
(* has a Ticker to write over it, and a setPattern that ran undisturbed    *)
(* leaves the pin as its pattern draws it.                                 *)
(***************************************************************************)
EXTENDS StatusIndicator, TLAPS

\* The esp_timer task only sets idle patterns; only a flash is armed.
ArgInv ==
  /\ at["esp_timer"] \in {"set", "clear", "detach", "branch", "colour"} => arg["esp_timer"] \in Idle
  /\ \A t \in Task : at[t] = "colour" => arg[t] \notin Blinking
  /\ \A t \in Task : at[t] = "arm" => arg[t] \in Flash

\* A setPattern of the esp_timer task ends in a solid colour; one of loopTask ends a
\* flash, arms its end or attaches the toggle of the current pattern, unless the other
\* task has run into it; in between the Ticker is armed.
FlashInv ==
  flashShown =>
    \/ at["esp_timer"] \in {"set", "clear", "detach", "branch", "colour"}
    \/ at["loopTask"] \in {"set", "colour", "arm"}
    \/ at["loopTask"] \in {"clear", "detach", "branch"} /\ currentPattern = arg["loopTask"]
    \/ /\ at["loopTask"] \in {"idle", "flip", "pick", "write"}
       /\ blinker = "flash" \/ (blinker = "toggle" /\ currentPattern \in Blinking)

\* What an undisturbed setPattern has done when task t is at each of its statements.
InSet(t) ==
  /\ at[t] \in {"clear", "detach", "branch", "colour", "arm"} => currentPattern = arg[t]
  /\ at[t] \in {"detach", "branch", "colour", "arm"} => ~ledState
  /\ at[t] \in {"branch", "colour"} => blinker = "off"
  /\ at[t] = "arm" => led = (currentPattern \in Red)

\* The same of toggleSimpleLed: a pulse takes a single turn, from a dark pin.
InToggle(t) ==
  /\ at[t] \in {"flip", "pick", "write"} =>
       \/ currentPattern \in Blinking
       \/ currentPattern \in Pulsing /\ blinker = "off" /\ ~led
  /\ at[t] = "write" => pin[t] = PinToUse(currentPattern, ledState)

CleanInv ==
  clean =>
    /\ \A t \in Task : at[t] # "idle" => Alone(t)
    /\ \A t \in Task : InSet(t) /\ InToggle(t)
    /\ Quiet /\ blinker = "toggle" => currentPattern \in Blinking

\* The inductive invariant.
IndicatorInv == TypeOK /\ ArgInv /\ FlashInv /\ CleanInv /\ CleanPatternIsDrawn

-----------------------------------------------------------------------------
LEMMA IndicatorInit == Init => IndicatorInv
<1> SUFFICES ASSUME Init PROVE IndicatorInv
  OBVIOUS
<1> USE DEF Init, Task, Pattern, Idle, Flash, Blinking, Alternating, Pulsing
<1>1. ledState \in BOOLEAN /\ led \in BOOLEAN /\ flashShown \in BOOLEAN /\ clean \in BOOLEAN
  BY Zenon
<1>2. TypeOK
  BY <1>1 DEF TypeOK, Location
<1>3. ArgInv /\ FlashInv
  BY DEF ArgInv, FlashInv
<1>4. CleanInv
  BY DEF CleanInv, Alone, InSet, InToggle, Quiet
<1>5. CleanPatternIsDrawn
  BY DEF CleanPatternIsDrawn, Quiet
<1> QED
  BY <1>2, <1>3, <1>4, <1>5 DEF IndicatorInv

\* A flag that is assigned a condition is a Boolean again.
LEMMA BooleanStep ==
  ASSUME TypeOK, [Next]_vars
  PROVE  /\ ledState' \in BOOLEAN /\ led' \in BOOLEAN
         /\ flashShown' \in BOOLEAN /\ clean' \in BOOLEAN
<1>1. CASE \E p \in Pattern : SetPattern(p)
  BY <1>1, Zenon DEF TypeOK, SetPattern, Enter, Alone
<1>2. CASE FlashEnds
  BY <1>2, Zenon DEF TypeOK, FlashEnds, Enter, Alone
<1>3. CASE Toggle
  BY <1>3, Zenon DEF TypeOK, Toggle, Alone
<1>4. CASE \E t \in Task : Runs(t)
  <2> SUFFICES ASSUME NEW t \in Task, Runs(t)
               PROVE  /\ ledState' \in BOOLEAN /\ led' \in BOOLEAN
                      /\ flashShown' \in BOOLEAN /\ clean' \in BOOLEAN
    BY <1>4
  <2>1. CASE SetCurrent(t) \/ ClearState(t) \/ Detach(t) \/ Attach(t) \/ DetachAgain(t)
    BY <2>1, Zenon DEF TypeOK, SetCurrent, ClearState, Detach, Attach, DetachAgain, history
  <2>2. CASE SolidColor(t)
    <3>1. /\ led' = (arg[t] \in Red)
          /\ flashShown' = (arg[t] \in Flash)
          /\ ledState' = ledState /\ clean' = clean
      BY <2>2 DEF SolidColor
    <3>2. (arg[t] \in Red) \in BOOLEAN /\ (arg[t] \in Flash) \in BOOLEAN
      OBVIOUS
    <3> QED
      BY <3>1, <3>2, Zenon DEF TypeOK
  <2>3. CASE ArmOneShot(t) \/ Flip(t) \/ PickPin(t) \/ WritePin(t)
    BY <2>3, Zenon DEF TypeOK, ArmOneShot, Flip, PickPin, WritePin, history
  <2> QED
    BY <2>1, <2>2, <2>3 DEF Runs
<1>5. CASE UNCHANGED vars
  BY <1>5, Zenon DEF TypeOK, vars, history
<1> QED
  BY <1>1, <1>2, <1>3, <1>4, <1>5 DEF Next

\* Every statement keeps the variables in their types.
LEMMA TypeStep == TypeOK /\ ArgInv /\ [Next]_vars => TypeOK'
<1> SUFFICES ASSUME TypeOK, ArgInv, [Next]_vars PROVE TypeOK'
  OBVIOUS
<1> DEFINE T ==
  /\ currentPattern \in Pattern
  /\ blinker \in {"off", "flash", "toggle"}
  /\ at \in [Task -> Location]
  /\ arg \in [Task -> Pattern]
  /\ pin \in [Task -> {"red", "none"}]
  /\ at["esp_timer"] # "arm"
<1>1. T'
  <2> USE DEF TypeOK, Goto, Location, Task, Pattern
  <2>1. CASE \E p \in Pattern : SetPattern(p)
    BY <2>1 DEF SetPattern, Enter
  <2>2. CASE FlashEnds
    BY <2>2 DEF FlashEnds, Enter, Idle
  <2>3. CASE Toggle
    BY <2>3 DEF Toggle
  <2>4. CASE \E t \in Task : Runs(t)
    <3> SUFFICES ASSUME NEW t \in Task, Runs(t) PROVE T'
      BY <2>4
    <3>1. CASE SetCurrent(t) \/ ClearState(t) \/ Detach(t)
      BY <3>1 DEF SetCurrent, ClearState, Detach
    <3>2. CASE Attach(t) \/ DetachAgain(t)
      BY <3>2 DEF Attach, DetachAgain
    <3>3. CASE SolidColor(t)
      BY <3>3 DEF SolidColor, ArgInv, Idle, Flash, Pulsing, Blinking, Alternating
    <3>4. CASE ArmOneShot(t) \/ Flip(t) \/ WritePin(t)
      BY <3>4 DEF ArmOneShot, Flip, WritePin
    <3>5. CASE PickPin(t)
      BY <3>5 DEF PickPin, PinToUse
    <3> QED
      BY <3>1, <3>2, <3>3, <3>4, <3>5 DEF Runs
  <2>5. CASE UNCHANGED vars
    BY <2>5 DEF vars, task
  <2> QED
    BY <2>1, <2>2, <2>3, <2>4, <2>5 DEF Next
<1>2. /\ ledState' \in BOOLEAN /\ led' \in BOOLEAN
      /\ flashShown' \in BOOLEAN /\ clean' \in BOOLEAN
  BY BooleanStep
<1> QED
  BY <1>1, <1>2, Zenon DEF TypeOK
-----------------------------------------------------------------------------
\* Only a setPattern of loopTask comes to blink, pulse or flash.
LEMMA ArgStep == TypeOK /\ ArgInv /\ [Next]_vars => ArgInv'
<1> SUFFICES ASSUME TypeOK, ArgInv, [Next]_vars PROVE ArgInv'
  OBVIOUS
<1> USE DEF TypeOK, ArgInv, Goto, Task
<1>1. CASE \E p \in Pattern : SetPattern(p)
  BY <1>1 DEF SetPattern, Enter
<1>2. CASE FlashEnds
  BY <1>2 DEF FlashEnds, Enter
<1>3. CASE Toggle
  BY <1>3 DEF Toggle
<1>4. CASE \E t \in Task : Runs(t)
  <2> SUFFICES ASSUME NEW t \in Task, Runs(t) PROVE ArgInv'
    BY <1>4
  <2>1. CASE SetCurrent(t) \/ ClearState(t) \/ Detach(t) \/ Attach(t) \/ DetachAgain(t)
    BY <2>1 DEF SetCurrent, ClearState, Detach, Attach, DetachAgain
  <2>2. CASE SolidColor(t)
    BY <2>2 DEF SolidColor, Idle, Flash, Pulsing, Blinking, Alternating, Pattern
  <2>3. CASE ArmOneShot(t) \/ Flip(t) \/ PickPin(t) \/ WritePin(t)
    BY <2>3 DEF ArmOneShot, Flip, PickPin, WritePin
  <2> QED
    BY <2>1, <2>2, <2>3 DEF Runs
<1>5. CASE UNCHANGED vars
  BY <1>5 DEF vars, task
<1> QED
  BY <1>1, <1>2, <1>3, <1>4, <1>5 DEF Next

\* The Ticker is only stopped by a setPattern, which sets the pin in its turn.
LEMMA FlashStep == TypeOK /\ ArgInv /\ FlashInv /\ [Next]_vars => FlashInv'
<1> SUFFICES ASSUME TypeOK, ArgInv, FlashInv, [Next]_vars PROVE FlashInv'
  OBVIOUS
<1> USE DEF TypeOK, ArgInv, FlashInv, Goto, Task, history
<1>1. CASE \E p \in Pattern : SetPattern(p)
  BY <1>1 DEF SetPattern, Enter
<1>2. CASE FlashEnds
  BY <1>2 DEF FlashEnds, Enter
<1>3. CASE Toggle
  BY <1>3 DEF Toggle
<1>4. CASE \E t \in Task : Runs(t)
  <2> SUFFICES ASSUME NEW t \in Task, Runs(t) PROVE FlashInv'
    BY <1>4
  <2>1. CASE SetCurrent(t)
    BY <2>1 DEF SetCurrent
  <2>2. CASE ClearState(t) \/ Detach(t)
    BY <2>2 DEF ClearState, Detach
  <2>3. CASE Attach(t)
    BY <2>3 DEF Attach, Idle, Blinking, Alternating
  <2>4. CASE DetachAgain(t)
    BY <2>4 DEF DetachAgain
  <2>5. CASE SolidColor(t)
    BY <2>5 DEF SolidColor, Idle, Flash, Pulsing, Blinking, Alternating, Pattern
  <2>6. CASE ArmOneShot(t) \/ Flip(t) \/ PickPin(t) \/ WritePin(t)
    BY <2>6 DEF ArmOneShot, Flip, PickPin, WritePin
  <2> QED
    BY <2>1, <2>2, <2>3, <2>4, <2>5, <2>6 DEF Runs
<1>5. CASE UNCHANGED vars
  BY <1>5 DEF vars, task
<1> QED
  BY <1>1, <1>2, <1>3, <1>4, <1>5 DEF Next
-----------------------------------------------------------------------------
\* What the next statement of an undisturbed task does to the facts of its stages.
LEMMA RunsClean ==
  ASSUME NEW t \in Task, Runs(t), TypeOK, ArgInv, CleanInv, CleanPatternIsDrawn, clean'
  PROVE  CleanInv' /\ CleanPatternIsDrawn'
<1> USE DEF Goto, history
<1>1. clean' = clean /\ at[t] # "idle"
  BY DEF Runs, SetCurrent, ClearState, Detach, Attach, DetachAgain, SolidColor,
         ArmOneShot, Flip, PickPin, WritePin
<1>2. Alone(t) /\ InSet(t) /\ InToggle(t)
  BY <1>1 DEF CleanInv
<1>3. \A u \in Task \ {t} : at[u] = "idle" /\ at'[u] = "idle"
  BY <1>2 DEF Alone, TypeOK, Runs, SetCurrent, ClearState, Detach, Attach, DetachAgain,
              SolidColor, ArmOneShot, Flip, PickPin, WritePin
<1>4. (\A u \in Task : at[u] # "idle" => Alone(u))'
  BY <1>3 DEF Alone
<1> DEFINE Drawn ==
  /\ blinker = "toggle" => currentPattern \in Blinking
  /\ currentPattern \in Red => led
  /\ currentPattern \in {"IDLE_UNLOCKED", "AUTH_SUCCESS", "AUTH_WAITING"} => ~led
  /\ currentPattern \in {"ERROR_GENERIC", "ERROR_ATECC"} => led = ledState
<1>5. InSet(t)' /\ InToggle(t)' /\ (at'[t] = "idle" => Drawn')
  <2> USE <1>2 DEF InSet, InToggle, TypeOK, Task
  <2>1. CASE SetCurrent(t)
    BY <2>1 DEF SetCurrent
  <2>2. CASE ClearState(t)
    BY <2>2 DEF ClearState
  <2>3. CASE Detach(t)
    BY <2>3 DEF Detach
  <2>4. CASE Attach(t)
    BY <2>4 DEF Attach, Blinking, Pulsing, Alternating
  <2>5. CASE DetachAgain(t)
    BY <2>5 DEF DetachAgain
  <2>6. CASE SolidColor(t)
    BY <2>6 DEF SolidColor, ArgInv, Idle, Flash, Pulsing, Blinking, Alternating, Red, Pattern
  <2>7. CASE ArmOneShot(t)
    BY <2>7 DEF ArmOneShot, ArgInv, Flash, Red, Alternating
  <2>8. CASE Flip(t)
    BY <2>8 DEF Flip
  <2>9. CASE PickPin(t)
    BY <2>9 DEF PickPin
  <2>10. CASE WritePin(t)
    BY <2>10 DEF WritePin, PinToUse, Blinking, Pulsing, Alternating, Red
  <2> QED
    BY <2>1, <2>2, <2>3, <2>4, <2>5, <2>6, <2>7, <2>8, <2>9, <2>10 DEF Runs
<1>6. (\A u \in Task : InSet(u) /\ InToggle(u))'
  BY <1>3, <1>5 DEF InSet, InToggle
<1>7. Quiet' => Drawn'
  BY <1>5 DEF Quiet
<1> QED
  BY <1>4, <1>6, <1>7 DEF CleanInv, CleanPatternIsDrawn

LEMMA CleanStep ==
  TypeOK /\ ArgInv /\ CleanInv /\ CleanPatternIsDrawn /\ [Next]_vars
    => CleanInv' /\ CleanPatternIsDrawn'
<1> SUFFICES ASSUME TypeOK, ArgInv, CleanInv, CleanPatternIsDrawn, [Next]_vars, clean'
             PROVE  CleanInv' /\ CleanPatternIsDrawn'
  BY DEF CleanInv, CleanPatternIsDrawn
\* A task that enters setPattern alone has done nothing yet.
<1>1. ASSUME NEW t \in Task, NEW p, Enter(t, p) PROVE CleanInv' /\ CleanPatternIsDrawn'
  <2>1. at' = [at EXCEPT ![t] = "set"] /\ \A u \in Task \ {t} : at[u] = "idle"
    BY <1>1 DEF Enter, Goto, Alone
  <2>2. at'[t] = "set" /\ \A u \in Task \ {t} : at'[u] = "idle"
    BY <2>1 DEF TypeOK
  <2> QED
    BY <2>2 DEF CleanInv, CleanPatternIsDrawn, Quiet, Alone, InSet, InToggle
<1>2. CASE \E p \in Pattern : SetPattern(p)
  BY <1>1, <1>2 DEF SetPattern, Task
<1>3. CASE FlashEnds
  BY <1>1, <1>3 DEF FlashEnds, Task
<1>4. CASE Toggle
  <2>1. clean /\ Quiet
    BY <1>4 DEF Toggle, Alone, Quiet, Task
  <2>2. /\ at'["esp_timer"] = "flip" /\ at'["loopTask"] = "idle"
        /\ currentPattern \in Blinking
    BY <1>4, <2>1 DEF Toggle, Goto, TypeOK, Quiet, CleanInv, Task
  <2>3. InToggle("esp_timer")'
    BY <1>4, <2>2 DEF Toggle, InToggle, Blinking, Pulsing, Alternating
  <2> QED
    BY <2>2, <2>3 DEF CleanInv, CleanPatternIsDrawn, Quiet, Alone, InSet, InToggle, Task
<1>5. CASE \E t \in Task : Runs(t)
  BY <1>5, RunsClean
<1>6. CASE UNCHANGED vars
  BY <1>6 DEF vars, task, history, CleanInv, CleanPatternIsDrawn, Quiet, Alone, InSet, InToggle
<1> QED
  BY <1>2, <1>3, <1>4, <1>5, <1>6 DEF Next

LEMMA IndicatorStep == IndicatorInv /\ [Next]_vars => IndicatorInv'
  BY TypeStep, ArgStep, FlashStep, CleanStep DEF IndicatorInv

LEMMA IndicatorHolds == Spec => []IndicatorInv
  BY IndicatorInit, IndicatorStep, PTL DEF Spec

-----------------------------------------------------------------------------
\* The indicator's variables keep their types and the esp_timer task never flashes.
THEOREM TypeCorrect == Spec => []TypeOK
<1>1. IndicatorInv => TypeOK
  BY DEF IndicatorInv
<1> QED
  BY IndicatorHolds, <1>1, PTL

\* However the two tasks interleave, a flash on the pin has a Ticker that will write
\* the pin, except under SYSTEM_BOOTING.
THEOREM FlashesAreTakenBack == Spec => []FlashIsTakenBack
<1>1. IndicatorInv => FlashIsTakenBack
  <2> SUFFICES ASSUME FlashInv, Quiet, flashShown
               PROVE  WritesRed \/ currentPattern = "SYSTEM_BOOTING"
    BY DEF IndicatorInv, FlashIsTakenBack
  <2>1. blinker = "flash" \/ (blinker = "toggle" /\ currentPattern \in Blinking)
    BY DEF FlashInv, Quiet, Task
  <2>2. currentPattern \in Blinking \ {"SYSTEM_BOOTING"}
          => PinToUse(currentPattern, TRUE) = "red"
    BY DEF Blinking, Alternating, PinToUse
  <2> QED
    BY <2>1, <2>2 DEF WritesRed
<1> QED
  BY IndicatorHolds, <1>1, PTL

\* A setPattern that no other task ran into is drawn on the pin, and stays drawn.
THEOREM CleanPatternsAreDrawn == Spec => []CleanPatternIsDrawn
<1>1. IndicatorInv => CleanPatternIsDrawn
  BY DEF IndicatorInv
<1> QED
  BY IndicatorHolds, <1>1, PTL
=============================================================================
