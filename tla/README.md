# A TLA+ development of the ESP32 secure lock firmware

The repository is a door-lock firmware for the ESP32: an RFID reader, a
fingerprint sensor and signed, encrypted MQTT commands open a lock that is
meant to lock itself again after five seconds. This directory models the
firmware in TLA+, checks it with TLC and proves its main theorems with TLAPS.
Paths below are relative to `src/firmware/src/`. The files `drivers/drivers.h`
and `comms/ecdsa.cpp` are empty, so the driver enumerations are read off their
uses; the behaviour modelled is that of the `.cpp` files.

## 1. Inventory

| Component | State | Operations | What makes it correct |
| --- | --- | --- | --- |
| Application (`main.cpp`) | `currentState` | `setup`, `loop`, `handleCommand`, `unlockTimerCallback` | the lock opens only after an authorisation and is locked again; commands that are accepted are carried out |
| Lock actuator (`drivers/lock_control.cpp`) | `current_state`, the pin | `init`, `lock`, `unlock` | pin and state agree |
| Unlock timer (`main.cpp`, FreeRTOS) | handle, active, expiry, command queue | `xTimerStart`, `xTimerStop`, callback | the relock is never lost |
| Task watchdog (`main.cpp:133`) | time since the last reset | reset, panic | no call of the loop blocks for ever |
| Status indicator (`drivers/status_indicator.cpp`) | pattern, tickers, LED pins | `setPattern`, blink, pulse, end of a flash | the LED shows the state of the lock or the error |
| Connection manager (`comms/mqtt_tls.cpp`) | WiFi, MQTT session, `lastReconnectAttempt`, `currentStatus` | `init`, `connect`, `loop`, `reconnectMQTT`, `connectWiFi` | reconnection is retried, spaced, and ends subscribed |
| Command and status path (`comms/mqtt_tls.cpp`) | message buffers | `mqttCallbackInternal`, `publishStatus` | only verified, well-formed commands reach the application; statuses fit their buffers |
| AES engine (`security/aes_engine.cpp`) | none | `encryptPacket`, `decryptPacket`, PKCS#7 | decrypting an encrypted message returns it |
| Secure element (`security/ecdsa.cpp`) | `atecc_initialized` | init, read, verify, sign | nothing is used before it is initialised |
| Network time, TOTP (`security/totp.cpp`) | `time_synced`, secret | sync, `verifyTOTP` | codes of the window are accepted, when the time is known |
| Fingerprint sensor (`drivers/biometrics.cpp`) | template store, char buffers | match, enrol, delete | an enrolment stores a template once, at its end, or nothing |
| RFID reader (`drivers/mfrc522.cpp`) | none of its own | init, read, halt | its self-test is passed before it is used |
| Boot (`main.cpp` `setup`) | what has been initialised | each `init`, the error loops | nothing works half initialised; a failed device stays failed |

How they interact. `loopTask` runs `setup()` and then `loop()`: it resets the
watchdog, runs `Comms::loop()` (which may block in a connection attempt and may
call `handleCommand` from inside the MQTT client), then switches on
`currentState`. The FreeRTOS timer task runs `unlockTimerCallback`, the
esp_timer task runs the tickers of the status indicator. All three read and
write `currentState`, the lock state and the pattern with no lock between them.

What is hard: the callback's test and write of `currentState` around commands of
`loopTask`; timer commands that are queued, not executed; a relock that is only
requested by the callback and carried out by a loop that may be blocked; enrolment,
which blocks the loop with no limit; the watchdog's reset at any point; connection
losses whose recovery depends on `millis()`; two tasks inside `setPattern`; sensor
commands whose reply is lost; buffers that are exactly full; a clock that is set once; a
watchdog that also runs during `setup()`. `PROJECT.json` lists each hazard at its line
with the property that covers it, or says why none does.

## 2. Modules

| Module | Role |
| --- | --- |
| `DoorLock` | abstract specification: what a lock promises |
| `LockController` | the application, the actuator, the unlock timer, the watchdog and the visible pattern; its properties |
| `LockControllerClaims`, `StatusIndicatorClaims`, `BiometricsClaims`, `BootClaims` | what comments and log lines of the code say, stated as properties, which TLC refutes |
| `Comms` | the connection manager: `connect`, `loop`, `connectWiFi`, `reconnectMQTT`, with `millis()` at its width |
| `SecurePath`, `MCSecurePath` | `mqttCallbackInternal` and `publishStatus` over encryption, padding and signatures; the lengths checked |
| `StatusIndicator` | `setPattern` and the tickers, statement by statement, in two tasks |
| `Biometrics` | matching, enrolment and deletion, command by command, and the sensor |
| `TemplateStore`, `TextChannel` | abstract specifications: what the fingerprint reader and the secure path promise |
| `Totp` | the window of `verifyTOTP`, as operators |
| `Boot`, `MCBoot` | `setup()` initialisation by initialisation, WiFi and the clock; the times and codes checked |
| `LockControllerProofs`, `CommsProofs`, `StatusIndicatorProofs`, `SecurePathProofs`, `BiometricsProofs`, `BootProofs` | the theorems |

The components meet in `LockController`, which has the outcomes of the others as
choices: a message is accepted or not, `Comms::loop()` is quiet, drops the
connection, waits or delivers, an enrolment blocks and returns, `setup()` ends or
does not. The other modules say which of those outcomes the detailed code has.

### LockController

| Variable | Code |
| --- | --- |
| `currentState` | `SystemState currentState` (`main.cpp:24`) |
| `pc` | where `loopTask` is: a call it may block in, or the point between a test of shared state and the write that depends on it |
| `lock` | `LockControl::current_state`; the pin is written with it |
| `unlockTimer` | whether the handle is non-NULL (`main.cpp:178-186`) |
| `timerActive`, `timerLeft`, `timerQueue`, `callback` | the FreeRTOS timer service: what `xTimerIsTimerActive` reports, the time left, the commands not yet taken, the progress of the callback |
| `pattern`, `blinker`, `revert` | `currentPattern`, whether the one-shot of a flash is armed, and the pattern a fired one-shot has chosen and not yet set |
| `wdt` | seconds since `esp_task_wdt_reset` |
| `openFor`, `abandoned` | history only: how long the lock has been open since it was last unlocked, and whether an enrolment began while it was open |

Grain. A step ends where another task can observe or change what the code has
read. So UNLOCK and LOCK are two steps (`HandleUnlock`/`CommandUnlock`,
`HandleLock`/`CommandLock`), the callback is two (`CallbackChecks`,
`CallbackLocks`), the UNLOCKING case is two (`Unlock` opens the lock and asks the
timer to stop, `StartTimer`/`StartFails` starts it and sets the state), and the
end of a flash is two (`FlashFires` reads the lock, `FlashReverts` sets the
pattern). `setPattern` is one step here, and a handler that sets several patterns
in a row leaves the last one. A command that fails any check on the way to its
effect is `RejectMessage`. Timer calls have no block time: `Posted` drops a
command when the queue is full, as the code's calls do.

Time is counted in seconds. It passes only while `loopTask` is in a call it may
wait in (`Waits`), in the error loop of `setup()`, or in the delay that ends an
iteration (`Tick`; at most a second per iteration, which stands for the 10 to
1000 ms delays of the loop). The timer task works off what is due before the next
second (`NothingDue`). The length of a flash, 300 ms, is not measured: its end
may come at any later moment.

Environment. Messages, cards, fingers, sensor errors, connection losses and
power cycles may happen whenever the code looks for them; nothing makes them
happen. Whether a blocked call returns is never assumed.

### DoorLock and the refinement

`DoorLock` has a door, a permit, an age and a waiver. The bolt is drawn only by
`Open`, which uses up a permit; while the door is open and not waived, `Second`
lets it get older up to `MaxOpen` only; `Waive` and `Restart` are the two ways
out. `LockController` implements it under

- `door` = `lock`;
- `permit` = `Permit`, an accepted request that has not reached the bolt:
  `UNLOCKING` before the unlock, or already at the unlock while the stale
  callback has written `LOCKING`;
- `age` = `openFor`, 0 when waived;
- `waived` = an enrolment began while open (`abandoned`), or there is no timer.

The two waivers are what the code itself gives up: `main.cpp:185` and 295 say
"Degraded mode - lock won't auto-relock", "Manual locking required", and the
enrolment case is the first finding below. `MaxOpen` is two watchdog periods: the
iteration that opens the lock may block in its publication, and the next one in
`Comms::loop()`, before the switch locks.

### Comms

`pc` follows `loopTask` through `Comms::loop`; `client` is what the device believes
(`mqttClient.connected()`), `session` what the broker holds for the client id, `wifi`
and `broker` the path between them, all four of which can disagree. A reset, a
`disconnect()` over a dead path and a lost CONNACK leave the session at the broker;
it goes when the broker drops it (`SessionLost`), or the next CONNECT takes it over
with a clean one (`ConnectArrives`). A device may also boot into a session of its
previous life. `now`, `last` and
`waitStart` are values of `millis()` and wrap at `Wrap`. `gap`, `skipping` and
`skip` are history: the seconds since an attempt that has not succeeded, whether
`loop()` is putting an attempt off, and for how long. `ConnectArrives` to
`Announced` is `reconnectMQTT`: CONNECT reaches the broker, CONNACK comes back
(`BrokerAccepts`) or not (`ConnackLost`), then the subscription and the "connected" status;
`ServeFails` is the branch after a failed `mqttClient.loop()`.

Met while modelling: `mqtt_tls.cpp:362` says that setting the timer to the present
schedules an immediate attempt, but it delays the next one by a whole interval
(`RetryPrompt` has the bound that does hold). `lastReconnectAttempt = 0` (332) does
not force one either in the first five seconds after the chip has started. A failed
`subscribe()` leaves the client connected and deaf, with `MQTT_ERROR` as the only
trace (`DeafIsKnown`). A reconnection shows `IDLE_LOCKED` whatever the lock is (186).

### SecurePath

A payload is `[signature][IV][ciphertext]`; the model keeps its length, whether the
server made the signature over the rest, and the plaintext. Ciphertexts and
signatures are ideal, lengths, paddings and buffers are the code's. `rx` is the
progress of `mqttCallbackInternal`, `tx` that of `publishStatus`, which also runs
inside a handler (`rx = "callback"`). `MessageArrives` has the length checks,
`DecryptRefused`/`Decrypted`/`DecryptFails` those of `decryptPacket` and its padding,
and so on: one action per check, in the order of the code. What PubSubClient's own
buffer leaves for a payload is `MaxPayload` and `TopicRoom` (external).

`TextChannel` is what this machinery is for, without packets, paddings or buffers:
the application works on one whole text of the server's at a time, and of each
status it asks to publish the broker gets that text once or nothing. `SecurePath`
implements it under

- `ServerTexts` = the texts whose padding some signed packet encrypts, `DeviceTexts` =
  `Messages`;
- `handling` = the first `decryptedLen` bytes of `incomingBuffer`, read where they are,
  for as long as the handler runs: a reply that wrote into them would change it;
- `saying` = the text `publishStatus` was called with, while it runs;
- `said` = what the broker holds, with the padding removed.

The channel delivers any of the server's texts at any time and any number of times:
the code keeps no counter and no nonce, so a signed packet that comes again is
handled again.

### StatusIndicator

One step is one statement that touches a static or the pin; `at`, `arg` and `pin`
are the locals of the two tasks, which use the statics without a lock. `attach`,
`once` and `detach` of a Ticker are atomic, and `detach` does not wait for a
callback that has begun. The pins are those of `main.cpp:137`: red only, so green
and blue are -1, the pulser is never attached and `stepPulseLed` never runs.
`update()` is empty.

Met while modelling: `ERROR_MQTT` and `ERROR_NTP` choose pin -1 in every other toggle
(`status_indicator.cpp:41`), so with this pin they never go dark (run
`claim_alternating`). `CONFIG_MODE`, "Pulse Yellow (Green)" (195), ends in the default
case of `toggleSimpleLed` and is lit solid red. `IDLE_LOCKED` and `AUTH_FAIL` look alike,
as do `IDLE_UNLOCKED` and `AUTH_SUCCESS`. `SYSTEM_BOOTING` writes the blue pin only, -1
here: set while the red of an `AUTH_FAIL` is lit, it cancels the end of the flash and
red stays on until the next pattern. So `CleanPatternIsDrawn` claims nothing of the
alternating patterns, of `CONFIG_MODE` and of `SYSTEM_BOOTING`; it says that the solid
reds are lit, that patterns of another colour are dark and that red blinks follow
their phase. `FlashIsTakenBack` and `FlashDoesEnd` except `SYSTEM_BOOTING` by name.

### Biometrics

`step` is the sensor command that comes next. Each command has an action per answer the
driver tells apart; an answer that is lost leaves the sensor with the command obeyed or
not. The image buffer, the two character buffers and the templates belong to the sensor
and survive a restart of the chip, so what a later call finds there is what earlier
calls left. `first`, `second`, `lifted`, `before` and `endedAt` are history of one call.
The sensor's deletion command carries a location of 16 bits (`Location`):
`DELETE_FINGER` with id 65537, which `main.cpp:99` does not refuse, deletes slot 1 and
reports success for 65537 (run `claim_deleted_id`). `ResultIsTrue` is about ids the
sensor can be sent, and of those it speaks of the slot asked for. Replies that arrive
late and are taken for the answer to a later command are not modelled: what is left in
the serial buffer is the library's affair.

`TemplateStore` is the reader without its commands and buffers. A slot takes a finger
only by `Write`, after that finger was pressed, the sensor was empty, and the same
finger was pressed again for an enrolment of that slot; it is lost only by a `Write`
that goes wrong or a `Delete`, of which it does not say which slot was asked for (that
is `ResultIsTrue`'s affair); and `Recognise` names a slot that holds the finger just
pressed. `Biometrics` implements it under

- `templates` = `store`, `present` = the finger on the sensor;
- `pending` = the id of the enrolment under way, by its step;
- `presses` = the fingers whose images the call has converted or is about to, by its
  step; `lifted` = the history variable, once there is an image;
- `answer` = the matched slot, when the call returned `MATCH_SUCCESS`.

A step that only moves through the sensor's buffers is a stutter; a command that is
obeyed though its reply is lost is the `Write` or the `Delete` it did.

### Boot and Totp

`pc` is the call `setup()` is in, then where the network code of `loop()` is;
`ready` is the set of initialisations that succeeded, `fed` the seconds since the
watchdog was reset, `waited` those of the present wait. `timeSet` is NTPClient's
flag, `timeSynced` the firmware's copy, `err` the clock's error. Each call to a chip
takes up to a second (`Busy`); `xTimerCreate` and the drawing of the LED take none.
The MQTT session is a step that takes any time here (`SessionWaits`). `Totp` takes
the code of a time step as a parameter; 0 stands for an error as in the code.

Two things this shows of the firmware. The watchdog (10 s) is shorter than the wait
for WiFi (15 s), and `setup()` never resets it: without WiFi the device restarts for
ever, and the offline operation that `main.cpp:170-171` allows never happens (run
`claim_offline_boot`, which fails however quick the chips are). And `connectWiFi` asks
for the time only while `isTimeSynced()` is false, which it never is again: the clock
is set at most once per boot and its drift never corrected; `TotpTolerance` says how
much of it a user may have.

## 3. Runs

| Run | Question | Result |
| --- | --- | --- |
| `lock` | with the firmware's times (5 and 10 s): is the open lock in hand, its relock under way and its time bounded, is an authorisation kept, is the controller a `DoorLock`; does the automatic relock happen, does every blocking call end, are accepted remote commands carried out? | holds |
| `connection` | with a network and broker that come and go, and sessions left at the broker: are attempts spaced and prompt across wraps of `millis()`, is a deaf client known, and does the device end up subscribed? | holds |
| `secure_path` | at every length where a check turns, does any buffer overrun, does the handler get what was signed, the broker what was said, and is it all a `TextChannel`? | holds |
| `indicator` | with two tasks inside `setPattern`, is an undisturbed pattern drawn, and is a flash taken back? | holds |
| `biometrics` | with lost replies, failing commands and resets, is what the driver returns true, is every template earned, does an enrolment end, and is the driver a `TemplateStore`? | holds |
| `boot` | does anything work half initialised, is the error loop final, is the clock's flag true, and what error does the TOTP window tolerate? | holds |
| `claim_open_is_temporary` | `main.cpp:18`, 280: an open lock with a timer is locked by itself | refuted: an enrolment while open; the callback finds IDLE and drops the relock |
| `claim_callback_checks_state` | `main.cpp:350`: the callback locks only from `UNLOCKED_TEMP` | refuted: a command between test and write |
| `claim_error_halts` | `main.cpp:328`: ERROR_STATE halts the system | refuted: commands are still handled, enrolment ends in IDLE |
| `claim_alternating` | `status_indicator.cpp:187-189`: `ERROR_NTP` and `ERROR_MQTT` alternate | refuted: the second colour has no pin, red stays lit |
| `claim_deleted_id` | `biometrics.cpp:214`: a deletion reported of an id is of that id | refuted: the sensor is sent the lower 16 bits |
| `claim_offline_boot` | `main.cpp:170-171`: without WiFi `setup()` goes on | refuted: the watchdog ends the wait |

Safety properties of the controller: `SwitchCases` (the CONFIG_MODE and default cases of
the switch are dead), `OpenLockIsAttended` (an open lock is in a state that leads to
locking it, unless abandoned), `RelockIsComing` (the end of the open time is queued, or
running, or being acted on), `OpenTimeBounded`, `PermitKept` (an authorisation is lost
only to a callback that had decided before it, to an enrolment or to a restart: the
safety side of `RemoteUnlockServed`, for cards and fingers too), `DoorSafe` (the
refinement), the inductive invariant `Inv` and the type invariant. Its liveness:
`AutoRelock` (an open lock with a timer is locked in the end, by the loop or by a
restart, unless an enrolment abandons it or somebody is authorised again),
`LoopNeverStalls`, `RemoteUnlockServed`, `RemoteLockServed`. The last two say what the
races leave of an accepted command: LOCK always locks, UNLOCK always opens unless the
callback had already decided to lock.

`OpenTimeBounded` is the bound that holds, two watchdog periods. `config.h:82` says of
`UNLOCK_DURATION_MS` "How long the lock stays open"; the callback only requests the
relock, and a loop blocked in a publication or in the wait for WiFi locks later than
that. In ERROR_STATE `main.cpp:329` expects the error pattern on the indicator, but a
message or a reply that is handled there sets its own.

Each property comes with a mutant of the code that breaks it (for example: the
result of `xTimerStart` not looked at, the timer stopped after it was started, a
missing `break`, the watchdog fed during an enrolment).

Bounds of the controller. The only bound that differs from the program is the length of
the timer daemon's command queue, 2 instead of 10 (`TimerQueueLength`): at most one stop
and one start are posted per iteration, and 2 is the smallest length at which the queue
can be full at a stop, at a start, and with either as its last element; the theorems
hold for every length. `openFor` stops counting one above `MaxOpen`, where the bound
would be broken. How long a wait for WiFi lasts is `Comms`'s affair; here `reconnect`
may end at any time or never. All times are small integers; no symmetry is used.

Fairness of the controller. `loopTask` runs when it is not blocked and chooses some
outcome of `Comms::loop()` (weak fairness of its steps together); the timer and
esp_timer tasks run when they have work, the watchdog bites when its time is up (weak);
time goes on (strong fairness of `Tick`, whose enabling other tasks interrupt). No
fairness is assumed of `Return`: a publication, a connection attempt or an enrolment may
never come back, and then only the watchdog ends it. None is assumed of messages, cards
or fingers.

The other runs:

- `connection` counts in units of five seconds: interval 1, WiFi wait 2, watchdog 2,
  and `millis()` wraps at 8, the smallest width that `CommsAssumption` allows. The
  firmware's 2^32 ms is far wider; small is what makes wraps happen between any two
  decisions. Fairness: `loopTask` runs, a lost session is noticed by TCP or the
  keep-alive, the watchdog bites, time goes on; none of the broker, which may keep a
  session it has lost its device for. `Reconnects` needs WiFi and broker to stay and the
  device to restart no more; it allows the deaf client that `DeafIsKnown` is about.
- `secure_path` uses the firmware's 512-byte buffers and topics. The texts are an
  empty one, a whole block, the longest PubSubClient takes and the next longer (399,
  400), the first that `finalPayload` does not take (432) and the first that
  `outgoingBuffer` does not take (496); the packets have good and broken paddings (0,
  17, wrong inside, a text of padding bytes), bad lengths and foreign signatures.
- `indicator` has every pattern and no bound at all. Fairness: both tasks are
  scheduled and armed tickers fire. A flash ends once `loopTask` sets no more
  patterns, unless the last one is `SYSTEM_BOOTING`; a pattern that no other task ran
  into is drawn. That a disturbed one is drawn is not claimed, and not so.
- `biometrics` has two fingers and two slots, so that a wrong finger and a wrong slot
  exist, an id out of range and one whose lower bits name another slot (`Locations` is 4
  for 2^16). Fairness for `EnrollmentEnds`: the driver goes on, and the user puts the
  finger on and takes it off so that a poll sees it in the end; the code itself waits
  without limit, and `LoopNeverStalls` of `lock` has what the watchdog makes of that.
- `boot` has the firmware's 10 and 15 s; the clock's error grows in steps of 10 s to 70 s,
  beyond two time steps, at times at the ends and inside of four successive steps, one
  of whose codes is 0. No fairness: its properties are safety.

Reached cases are checked too: each action of every module fires in its runs, and
every property has a mutant that TLC refutes.

## 4. Proofs

`LockControllerProofs` proves, for all values of the constants that satisfy
`ConstantsAssumption` (positive durations, the unlock time shorter than the
watchdog's, as 5 < 10):

- `TypeCorrect`: `Spec => []TypeOK`;
- `InvHolds`: `Spec => []Inv`;
- `SwitchReached`, `LockAttended`, `RelockUnderWay`, `OpenTimeIsBounded`: the four
  invariants of `lock`;
- `ImplementsDoor`: `Spec => DoorSafe`, the refinement.

The invariants are not inductive by themselves. `OpenLockIsAttended` fails after
`BioCheck` from an arbitrary state unless one knows that the fingerprint check is
only reached with the lock closed or abandoned; `OpenTimeBounded` says nothing of
where the time went. `Inv` adds `LoopFinds` (what `loopTask` can find in
`currentState` and `lock` at each `pc`, whatever the callback has written) and
`TimeFound` (in `UNLOCKED_TEMP`, `openFor + timerLeft` does not exceed the unlock
time; after the switch the age is covered by the unlock time or the watchdog;
everywhere it is at most `WdtTimeout + wdt`). Each part has a lemma with one case
per action. The lemmas on the command queue (`PostedInQueue`, `TakingKeepsLast`,
`StartIsLast`) say what `xTimerStart`, `xTimerStop` and the daemon do to the last
command, which is what `RelockIsComing` speaks of. `DoorStep` maps each action to an
action of `DoorLock` or to a stutter. `PermitsAreKept` (`PermitKept`) needs from
`LoopFinds` that `loopTask` is never about to write another state over `UNLOCKING`:
not in `setup()`, not after an enrolment, not where LOCK was accepted, and not at the
fingerprint check, which is why the code looks at `currentState` again before it
(`BioGate`); `PermitStep` has the cases.

`CommsProofs` proves, for every interval, WiFi wait, watchdog and width of `millis()`
in `CommsAssumption` (wide enough that it cannot wrap round within the longest stretch
between two calls of `loop()`): `CommsTypeCorrect`, `RetryInvHolds`,
`AttemptsAreSpaced`, `RetryIsPrompt` and `DeafnessIsKnown`, which needs of `RetryInv`
that an attempt is made without a client (`AttemptNeedsNoClient`): a session the broker
kept is taken over before the client believes in it. `AttemptsSpaced` is about an
unsigned difference, which says nothing after a wrap; `RetryInv` adds that the true
age of the last failed attempt is never less than what the difference shows
(`GapRecorded`), and that during a run of decisions against an attempt the difference
grows with the run (`SkipBounded`), so a wrap cannot hide in it.

`SecurePathProofs` proves, for every set of texts and packets and every size of
PubSubClient's buffer: `UnpadUndoesPad` and `PadUndoesUnpad` (each is the inverse of the
other, on every text and on every block that the check accepts), `PathTypeCorrect`,
`BuffersNeverOverrun`, `HandlerGetsWhatWasSigned`, `BrokerGetsWhatWasSaid`, and
`ImplementsTextChannel`. The invariant `PathInv` adds that only signed packets are
decrypted and that `outgoing` is the padding of the present message. In `ChannelStep`
the two facts that carry the refinement are `DecryptedIsServerText` (what passed the
signature and the padding check is a server's text) and `UnpadUndoesPad`, for what the
broker reads; every other step is seen not to touch the bytes a handler has in hand.

`BiometricsProofs` proves, for every set of fingers, capacity and ids:
`SensorTypeCorrect`, `MatchesAreOfThisFinger`, `ResultsAreTrue`,
`EveryTemplateIsEarned`. The invariant `SensorInv` adds `CallInv`, which says in which
buffer each image of the call is at each step. `ImplementsTemplateStore` maps each
step of the driver, of the user and of the sensor to one of `TemplateStore`: a call's
end is `Recognise`, `Write`, `Delete` or `GiveUp`, and `CallInv` is what shows that a
model combined and stored is of the two presses `presses` names.

`StatusIndicatorProofs` proves `TypeCorrect`, `FlashesAreTakenBack` and
`CleanPatternsAreDrawn` for the two tasks inside `setPattern`. The module has no
constant and its run covers every state; the proof says why. `IndicatorInv` adds
`ArgInv` (the esp_timer task sets idle patterns only), `FlashInv` (a flash that no
Ticker will overwrite has a `setPattern` under way, or is shown under `SYSTEM_BOOTING`)
and `CleanInv`: for a call that ran undisturbed, what it has done at each of its
statements (`InSet`) and what a toggle that interrupts it can still write (`InToggle`).

`BootProofs` proves, for every watchdog and WiFi wait, every code function and every
error: `WindowTolerance` (a fact of arithmetic about the window), `BootTypeCorrect`,
`BootReadyForWork`, `BootClockFlagsAgree`, `BootTotpTolerance`, and, for a watchdog of
more than 7 s, `BootHangIsFinal`. The invariant `BootInv` adds `ReadyInv` (what is ready
when a call of `setup()` begins) and `SyncInv` (the time is asked for only while the
clock has not been set); `FedInv` counts how much of the watchdog the initialisations
can have used up.

Only model-checked: the liveness properties (`AutoRelock`, `LoopNeverStalls`,
`RemoteUnlockServed`, `RemoteLockServed`, `Reconnects`, `FlashDoesEnd`,
`EnrollmentEnds`), since fairness and `ENABLED` are beyond the prover, and the refuted
claims. Every safety property a passing run checks is proved.

## 5. Not modelled, and why

- Library code: the ciphers, SHA-256, HMAC, TLS, PubSubClient's parser, JSON, I2C, SPI
  and UART protocols, FreeRTOS and NTPClient inside. They are external, modelled by
  how the code uses them.
- `readCertDataFromSlot`, the mbedTLS hooks, `loadCertificates`' placeholders,
  `getStatus`, `getTemplateCount`: nothing calls them, or they change no state.
  Nothing calls `verifyTOTP` and `getCurrentTime` either; the window is in `Totp` all
  the same.
- `checkAndReadCard` beyond its outcomes: it keeps no state of its own.
- Logging, and the status patterns set along the way in `Comms`, `SecurePath` and
  `Biometrics`; `LockController` has the last one each handler leaves.
- A composition of lock and session: the broker's last lock status may disagree with
  the lock for as long as one cares to wait, since `publishStatus` drops what it cannot
  send; the code promises nothing that could be stated here.
- `drivers/drivers.h` and `comms/ecdsa.cpp` are empty files.

## 6. Plan

Done, in this order: `LockController` with `DoorLock`, `Comms`, `StatusIndicator`,
`SecurePath`, `Biometrics`, `Boot` with `Totp`; the proofs of their invariants and
action properties; the refinements of `TemplateStore` and `TextChannel`; the invariant
of `StatusIndicator`. What is left:

1. `LockController` with the detailed `Comms`, in place of the choices it makes now.
2. An abstract life cycle of the device (off, starting, working, hung) for `Boot` to
   implement, so that the one-step `setup()` of `LockController` has its justification.
