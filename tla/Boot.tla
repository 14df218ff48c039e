--------------------------------- MODULE Boot ---------------------------------
(***************************************************************************)
(* setup() of main.cpp and what it calls, initialisation by               *)
(* initialisation, under the task watchdog that setup() never resets; then *)
(* what loop() goes on doing to the WiFi link and the clock: connectWiFi   *)
(* (comms/mqtt_tls.cpp), syncNTPTime and isTimeSynced (security/totp.cpp). *)
(*                                                                         *)
(* What follows in Comms::loop() is a session that takes any time; Comms has *)
(* its steps, LockController what else happens in loop().                  *)
(* Time is counted in seconds.                                             *)
(***************************************************************************)
EXTENDS Totp

CONSTANTS
  WdtTimeout,   \* esp_task_wdt_init(10, true)
  JoinTimeout,  \* the wait of connectWiFi()
  ErrStep,      \* the clock is off by a multiple of this
  MaxErr,       \* bound: and by no more than this
  Times         \* the true times looked at, in seconds since 1970

ASSUME BootAssumption ==
  /\ WdtTimeout \in Nat /\ JoinTimeout \in Nat \ {0}
  /\ ErrStep \in Nat /\ MaxErr \in Nat
  /\ \A u \in Times : u \in Nat /\ u >= MaxErr + Window * TimeStep

VARIABLES
  pc,          \* the call loopTask is in
  state,       \* currentState, as far as setup() sets it
  ready,       \* what has been initialised
  fed,         \* seconds since the watchdog was reset
  waited,      \* seconds in the present wait
  link,        \* WiFi.status() == WL_CONNECTED
  timeSet,     \* NTPClient.isTimeSet()
  timeSynced,  \* time_synced
  err,         \* the lock's clock minus the true time
  cause        \* history: why the chip started

clock == <<timeSet, timeSynced, err>>
vars == <<pc, state, ready, fed, waited, link, clock, cause>>

\* The initialisations setup() does not go on without.
Required == {"secure", "ecdsa", "totp", "aes", "rfid", "finger", "lock", "comms"}
Parts == Required \cup {"timer"}

-----------------------------------------------------------------------------
Reset(why) ==
  /\ pc' = "secure"
  /\ state' = "BOOTING"
  /\ ready' = {}
  /\ fed' = 0
  /\ waited' = 0
  /\ link' = FALSE
  /\ timeSet' = FALSE
  /\ timeSynced' = FALSE
  /\ err' = 0
  /\ cause' = why

Init ==
  /\ pc = "secure"
  /\ state = "BOOTING"
  /\ ready = {}
  /\ fed = 0
  /\ waited = 0
  /\ link = FALSE
  /\ timeSet = FALSE
  /\ timeSynced = FALSE
  /\ err = 0
  /\ cause = "power"

\* Mutant: the watchdog bites a second late.
Awake_Late == fed <= WdtTimeout

\* The watchdog has not bitten.
Awake == fed < WdtTimeout

\* The panic handler restarts the chip; nobody can prevent it.
Panic ==
  /\ ~Awake
  /\ Reset("panic")

PowerCycle == Reset("power")

-----------------------------------------------------------------------------
(* setup().                                                                *)

\* A call to a chip takes up to a second.
Busy == fed' \in {fed, fed + 1}

\* init of the next part, which is `from', succeeds.
Done(from, to) ==
  /\ Awake
  /\ pc = from
  /\ pc' = to
  /\ ready' = ready \cup {from}
  /\ Busy
  /\ UNCHANGED <<state, link, cause>>

\* secure_element_init and ecdsa_init, aes_engine_init and the drivers' init.
SecureElementInit == Done("secure", "ecdsa") /\ UNCHANGED <<waited, clock>>
EcdsaInit ==
  /\ "secure" \in ready
  /\ Done("ecdsa", "totp")
  /\ UNCHANGED <<waited, clock>>
AesInit == Done("aes", "rfid") /\ UNCHANGED <<waited, clock>>
RfidInit == Done("rfid", "finger") /\ UNCHANGED <<waited, clock>>
FingerInit == Done("finger", "lock") /\ UNCHANGED <<waited, clock>>
LockInit == Done("lock", "comms") /\ UNCHANGED <<waited, clock>>

\* Mutant: a secret that cannot be read is only logged.
TotpInit_NoSecret ==
  /\ Awake
  /\ pc = "totp"
  /\ pc' = "aes"
  /\ ready' \in {ready, ready \cup {"totp"}}
  /\ Busy
  /\ timeSynced' = FALSE
  /\ UNCHANGED <<state, link, cause, waited, timeSet, err>>

\* The secret is read from the secure element; WiFi has not been started, so the
\* first synchronisation fails.
TotpInit ==
  /\ "secure" \in ready
  /\ Done("totp", "aes")
  /\ timeSynced' = FALSE
  /\ UNCHANGED <<waited, timeSet, err>>

\* Comms::init: the security modules are ready already; connect() calls loop().
CommsInit ==
  /\ {"secure", "ecdsa", "aes"} \subseteq ready
  /\ Done("comms", "join")
  /\ waited' = 0
  /\ UNCHANGED clock

\* The secure element, its secret, the reader's self-test or the sensor's password
\* fails; the other initialisations cannot.
SetupHangs ==
  /\ Awake
  /\ pc \in {"secure", "totp", "rfid", "finger"}
  /\ pc' = "hung"
  /\ state' = "ERROR_STATE"
  /\ Busy
  /\ waited' = 0
  /\ UNCHANGED <<ready, link, clock, cause>>

\* Mutant: the error loop forgets the watchdog.
HungLoop_Unfed ==
  /\ Awake
  /\ pc = "hung" /\ waited = 1
  /\ waited' = 0
  /\ UNCHANGED <<pc, state, ready, fed, link, clock, cause>>

\* delay(1000) and a reset of the watchdog, for ever.
HungLoop ==
  /\ Awake
  /\ pc = "hung" /\ waited = 1
  /\ waited' = 0
  /\ fed' = 0
  /\ UNCHANGED <<pc, state, ready, link, clock, cause>>

\* xTimerCreate may fail, which is logged only.
SetupEnds ==
  /\ Awake
  /\ pc = "timer"
  /\ ready' \in {ready, ready \cup {"timer"}}
  /\ state' = "IDLE"
  /\ pc' = "loop"
  /\ UNCHANGED <<fed, waited, link, clock, cause>>

-----------------------------------------------------------------------------
(* connectWiFi, from setup() or from loop().                               *)

\* Comms::loop() returns to loop(), or by connect() to setup().
Caller == IF state = "IDLE" THEN "loop" ELSE "timer"

\* loop() resets the watchdog and calls Comms::loop(), which looks at the link.
Loop ==
  /\ Awake
  /\ pc = "loop"
  /\ fed' = 0
  /\ waited' = 0
  /\ pc' = IF link THEN "session" ELSE "join"
  /\ UNCHANGED <<state, ready, link, clock, cause>>

JoinWaits ==
  /\ Awake
  /\ pc = "join"
  /\ ~link /\ waited < JoinTimeout
  /\ waited' = waited + 1
  /\ fed' = fed + 1
  /\ UNCHANGED <<pc, state, ready, link, clock, cause>>

WaitEnds ==
  /\ Awake
  /\ pc = "join"
  /\ link \/ waited >= JoinTimeout
  /\ pc' = "joined"
  /\ UNCHANGED <<state, ready, fed, waited, link, clock, cause>>

\* The link may be lost again before it is looked at.
JoinFails ==
  /\ Awake
  /\ pc = "joined"
  /\ ~link
  /\ pc' = Caller
  /\ UNCHANGED <<state, ready, fed, waited, link, clock, cause>>

\* Mutant: the time is asked for whenever WiFi has come up.
AskTime_Always ==
  /\ Awake
  /\ pc = "joined"
  /\ link
  /\ timeSynced' = timeSet
  /\ pc' = "sync"
  /\ UNCHANGED <<state, ready, fed, waited, link, timeSet, err, cause>>

\* isTimeSynced, and syncNTPTime only if the clock has never been set.
AskTime ==
  /\ Awake
  /\ pc = "joined"
  /\ link
  /\ timeSynced' = timeSet
  /\ pc' = IF timeSet THEN "session" ELSE "sync"
  /\ UNCHANGED <<state, ready, fed, waited, link, timeSet, err, cause>>

SyncSucceeds ==
  /\ Awake
  /\ pc = "sync"
  /\ link
  /\ timeSet' = TRUE
  /\ timeSynced' = TRUE
  /\ err' = 0
  /\ pc' = "session"
  /\ Busy
  /\ UNCHANGED <<state, ready, waited, link, cause>>

\* The link is lost, or no answer comes within a second.
SyncFails ==
  /\ Awake
  /\ pc = "sync"
  /\ timeSynced' = FALSE
  /\ pc' = "session"
  /\ Busy
  /\ UNCHANGED <<state, ready, waited, link, timeSet, err, cause>>

\* The client runs, or is connected and subscribes; how long is not known.
SessionWaits ==
  /\ Awake
  /\ pc = "session"
  /\ fed' = fed + 1
  /\ UNCHANGED <<pc, state, ready, waited, link, clock, cause>>

\* reconnectMQTT calls connectWiFi again.
SessionLosesLink ==
  /\ Awake
  /\ pc = "session"
  /\ ~link
  /\ waited' = 0
  /\ pc' = "join"
  /\ UNCHANGED <<state, ready, fed, link, clock, cause>>

SessionEnds ==
  /\ Awake
  /\ pc = "session"
  /\ pc' = Caller
  /\ UNCHANGED <<state, ready, fed, waited, link, clock, cause>>

\* STATUS_REQUEST reports isTimeSynced(); the client runs in loop() only.
StatusRequested ==
  /\ Awake
  /\ pc = "session" /\ state = "IDLE"
  /\ timeSynced' = timeSet
  /\ UNCHANGED <<pc, state, ready, fed, waited, link, timeSet, err, cause>>

-----------------------------------------------------------------------------
\* The link comes up once WiFi has been started, and goes down at any time.
LinkChanges ==
  /\ Awake
  /\ pc \in {"join", "joined", "sync", "session", "timer", "loop"}
  /\ link' = ~link
  /\ UNCHANGED <<pc, state, ready, fed, waited, clock, cause>>

\* A clock that was set goes wrong little by little.
Drift ==
  /\ Awake
  /\ timeSet
  /\ err' \in {err - ErrStep, err + ErrStep} \cap (-MaxErr..MaxErr)
  /\ UNCHANGED <<pc, state, ready, fed, waited, link, timeSet, timeSynced, cause>>

\* A second of delay(1000) goes by.
HungSecond ==
  /\ Awake
  /\ pc = "hung" /\ waited = 0
  /\ waited' = 1
  /\ fed' = fed + 1
  /\ UNCHANGED <<pc, state, ready, link, clock, cause>>

Setup ==
  \/ SecureElementInit \/ EcdsaInit \/ TotpInit \/ AesInit
  \/ RfidInit \/ FingerInit \/ LockInit \/ CommsInit
  \/ SetupHangs \/ HungLoop \/ HungSecond \/ SetupEnds

Network ==
  \/ Loop \/ JoinWaits \/ WaitEnds \/ JoinFails
  \/ AskTime \/ SyncSucceeds \/ SyncFails
  \/ SessionWaits \/ SessionLosesLink \/ SessionEnds \/ StatusRequested

Next == Panic \/ PowerCycle \/ Setup \/ Network \/ LinkChanges \/ Drift

Spec == Init /\ [][Next]_vars

-----------------------------------------------------------------------------
(* What is checked.                                                        *)

TypeOK ==
  /\ pc \in Parts \cup {"hung", "join", "joined", "sync", "session", "loop"}
  /\ state \in {"BOOTING", "IDLE", "ERROR_STATE"}
  /\ ready \subseteq Parts
  /\ fed \in 0..WdtTimeout
  /\ waited \in 0..JoinTimeout
  /\ link \in BOOLEAN
  /\ timeSet \in BOOLEAN
  /\ timeSynced \in BOOLEAN
  /\ err \in -MaxErr..MaxErr
  /\ cause \in {"power", "panic"}

\* Whatever listens to a person or to the broker runs with every chip, secret, pin
\* and handler it needs initialised in this boot: setup() goes on after each failure
\* it may go on after, and after no other.
ReadyForWork ==
  pc \in {"join", "joined", "sync", "session", "timer", "loop"} => Required \subseteq ready

\* time_synced, which three functions write, always says what NTPClient knows.
ClockFlagsAgree == timeSynced = timeSet

\* Once the clock was set, verifyTOTP is to a user what Tolerance says, for whatever
\* error the clock has grown since.
TotpTolerance == timeSet => \A u \in Times : Tolerance(u + err, u)

\* The error loop lasts until the power is cycled: the watchdog does not end it, nor
\* does anything else.
HangIsFinal == [][pc = "hung" /\ pc' # "hung" => cause' = "power"]_vars
=============================================================================
