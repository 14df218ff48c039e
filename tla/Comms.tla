-------------------------------- MODULE Comms --------------------------------
(***************************************************************************)
(* The connection manager, comms/mqtt_tls.cpp: Comms::connect and          *)
(* Comms::loop, connectWiFi and reconnectMQTT, with millis() at its width. *)
(*                                                                         *)
(* loopTask is the only caller.  The WiFi network and the broker come and  *)
(* go, a dead link is noticed late, and any call that waits may be ended   *)
(* by the task watchdog.  The broker's session is not the device's: a      *)
(* reset or a socket given up leaves it at the broker, until the broker    *)
(* drops it or the next CONNECT takes it over.  Time is counted in         *)
(* seconds.                                                                *)
(***************************************************************************)
EXTENDS Integers

CONSTANTS
  Interval,      \* reconnectInterval
  WifiTimeout,   \* the wait of connectWiFi()
  WdtTimeout,    \* the task watchdog, reset when loop() begins
  Wrap           \* millis() counts 0 .. Wrap-1 and starts again

ASSUME CommsAssumption ==
  /\ Interval \in Nat \ {0}
  /\ WifiTimeout \in Nat \ {0}
  /\ WdtTimeout \in Nat \ {0}
  /\ Wrap \in Nat
  /\ Wrap > 2 * Interval + 2 * WdtTimeout + 1
  /\ Wrap > WifiTimeout

VARIABLES
  wifi,       \* WiFi.status() == WL_CONNECTED
  broker,     \* the broker can be reached and accepts this client
  session,    \* what the broker holds for the client id
  client,     \* mqttClient.connected(): what the device believes
  status,     \* currentStatus
  now,        \* millis()
  last,       \* lastReconnectAttempt
  pc,         \* where loopTask is
  caller,     \* who called connectWiFi
  waitStart,  \* startAttemptTime
  wdt,        \* seconds since the watchdog was reset
  gap,        \* history: seconds since an attempt that has not succeeded
  skipping,   \* history: the last decision of loop() was not to attempt
  skip        \* history: seconds since the first of those decisions

network == <<wifi, broker>>
link    == <<session, client>>
join    == <<caller, waitStart>>
history == <<gap, skipping, skip>>
vars == <<network, link, status, now, last, pc, join, wdt, history>>

Status == {"DISCONNECTED", "CONNECTING", "CONNECTED", "CONNECTION_FAILED", "MQTT_ERROR"}

Location ==
  {"setup", "away", "entry", "join", "wait", "joined", "client", "connect",
   "connack", "subscribe", "announce", "serve"}

Session == {"none", "open", "subscribed"}

\* Where loopTask waits for something outside, or is busy elsewhere.
Waits == {"setup", "away", "wait", "connect", "connack", "announce"}

\* Packets pass between the device and the broker.
Path == wifi /\ broker

\* No attempt is awaited: the last one succeeded, or none was made.
NoGap == Interval + 1

-----------------------------------------------------------------------------
\* Unsigned subtraction of two values of millis().
Elapsed(a, b) == IF a >= b THEN a - b ELSE a - b + Wrap

\* Mutant: the comparison is turned round, as if millis() never wrapped.
Due_Absolute == now > last + Interval

\* now - lastReconnectAttempt > reconnectInterval
Due == Elapsed(now, last) > Interval

\* The chip forgets its side of the connection; the broker keeps its own.
Reset ==
  /\ client' = FALSE
  /\ status' = "DISCONNECTED"
  /\ now' = 0
  /\ last' = 0
  /\ pc' = "setup"
  /\ caller' = "loop"
  /\ waitStart' = 0
  /\ wdt' = 0
  /\ gap' = NoGap
  /\ skipping' = FALSE
  /\ skip' = 0

Init ==
  /\ wifi \in BOOLEAN
  /\ broker \in BOOLEAN
  /\ session \in Session
  /\ client = FALSE
  /\ status = "DISCONNECTED"
  /\ now = 0
  /\ last = 0
  /\ pc = "setup"
  /\ caller = "loop"
  /\ waitStart = 0
  /\ wdt = 0
  /\ gap = NoGap
  /\ skipping = FALSE
  /\ skip = 0

-----------------------------------------------------------------------------
(* Comms::connect and the entry of Comms::loop.                            *)

\* connect(), called once by init(): lastReconnectAttempt = 0, then loop().
Connect ==
  /\ pc = "setup"
  /\ status # "CONNECTED"
  /\ last' = 0
  /\ pc' = "entry"
  /\ UNCHANGED <<network, link, status, now, join, wdt, history>>

\* loop() of main.cpp resets the watchdog and calls Comms::loop().
LoopCalled ==
  /\ pc = "away"
  /\ pc' = "entry"
  /\ wdt' = 0
  /\ UNCHANGED <<network, link, status, now, last, join, history>>

LoopJoins ==
  /\ pc = "entry"
  /\ pc' = "join"
  /\ caller' = "loop"
  /\ UNCHANGED <<network, link, status, now, last, waitStart, wdt, history>>

-----------------------------------------------------------------------------
(* connectWiFi, for either caller.                                         *)

\* connectWiFi returned true: loop() looks at the client, reconnectMQTT goes on.
JoinReturns ==
  IF caller = "loop"
    THEN pc' = "client" /\ UNCHANGED status
    ELSE pc' = "connect" /\ status' = "CONNECTING"

AlreadyJoined ==
  /\ pc = "join"
  /\ wifi
  /\ JoinReturns
  /\ UNCHANGED <<network, link, now, last, join, wdt, history>>

JoinWaits ==
  /\ pc = "join"
  /\ ~wifi
  /\ pc' = "wait"
  /\ waitStart' = now
  /\ UNCHANGED <<network, link, status, now, last, caller, wdt, history>>

\* The wait ends with the network there or after WifiTimeout; status() is then
\* read once more.
WaitEnds ==
  /\ pc = "wait"
  /\ wifi \/ Elapsed(now, waitStart) >= WifiTimeout
  /\ pc' = "joined"
  /\ UNCHANGED <<network, link, status, now, last, join, wdt, history>>

Joined ==
  /\ pc = "joined"
  /\ wifi
  /\ JoinReturns
  /\ UNCHANGED <<network, link, now, last, join, wdt, history>>

JoinFails ==
  /\ pc = "joined"
  /\ ~wifi
  /\ pc' = "away"
  /\ status' = IF caller = "attempt" THEN "CONNECTION_FAILED" ELSE status
  /\ skipping' = FALSE
  /\ skip' = 0
  /\ UNCHANGED <<network, link, now, last, join, wdt, gap>>

-----------------------------------------------------------------------------
(* The client is down: wait for the interval, then reconnectMQTT.          *)

\* mqttClient.connected()
Connected == client

\* Mutant: the time of the attempt is not recorded.
Attempt_Unrecorded ==
  /\ pc = "client"
  /\ ~Connected
  /\ Due
  /\ skipping' = FALSE
  /\ skip' = 0
  /\ IF client
       THEN last' = 0 /\ gap' = NoGap /\ pc' = "away" /\ UNCHANGED caller
       ELSE UNCHANGED last /\ gap' = 0 /\ pc' = "join" /\ caller' = "attempt"
  /\ UNCHANGED <<network, link, status, now, waitStart, wdt>>

\* lastReconnectAttempt = now, then reconnectMQTT(): a client that is connected
\* after all is left as it is, otherwise connectWiFi() comes first.
Attempt ==
  /\ pc = "client"
  /\ ~Connected
  /\ Due
  /\ skipping' = FALSE
  /\ skip' = 0
  /\ IF client
       THEN last' = 0 /\ gap' = NoGap /\ pc' = "away" /\ UNCHANGED caller
       ELSE last' = now /\ gap' = 0 /\ pc' = "join" /\ caller' = "attempt"
  /\ UNCHANGED <<network, link, status, now, waitStart, wdt>>

SkipAttempt ==
  /\ pc = "client"
  /\ ~Connected
  /\ ~Due
  /\ pc' = "away"
  /\ skipping' = TRUE
  /\ skip' = IF skipping THEN skip ELSE 0
  /\ UNCHANGED <<network, link, status, now, last, join, wdt, gap>>

\* CONNECT reaches the broker.  The session it still holds for this client id,
\* of a connection given up or of a life before a reset, is taken over by a clean
\* one.
ConnectArrives ==
  /\ pc = "connect"
  /\ Path
  /\ session' = "open"
  /\ pc' = "connack"
  /\ UNCHANGED <<network, client, status, now, last, join, wdt, history>>

\* connect() fails before the broker has heard of it.
BrokerRefuses ==
  /\ pc = "connect"
  /\ ~Path
  /\ status' = "CONNECTION_FAILED"
  /\ pc' = "away"
  /\ UNCHANGED <<network, link, now, last, join, wdt, history>>

\* Mutant: the subscription is taken to have survived at the broker.
BrokerAccepts_Subscribed ==
  /\ pc = "connack"
  /\ Path
  /\ client' = TRUE
  /\ status' = "CONNECTED"
  /\ pc' = "announce"
  /\ UNCHANGED <<network, session, now, last, join, wdt, history>>

\* CONNACK arrives and connect() returns true.
BrokerAccepts ==
  /\ pc = "connack"
  /\ Path
  /\ client' = TRUE
  /\ status' = "CONNECTED"
  /\ pc' = "subscribe"
  /\ UNCHANGED <<network, session, now, last, join, wdt, history>>

\* CONNACK is lost: connect() returns false, with a session open at the broker.
ConnackLost ==
  /\ pc = "connack"
  /\ session = "none" \/ ~Path
  /\ status' = "CONNECTION_FAILED"
  /\ pc' = "away"
  /\ UNCHANGED <<network, link, now, last, join, wdt, history>>

\* The SUBSCRIBE packet is written; a dead link swallows it.
Subscribed ==
  /\ pc = "subscribe"
  /\ client
  /\ session' = IF session = "open" THEN "subscribed" ELSE session
  /\ pc' = "announce"
  /\ UNCHANGED <<network, client, status, now, last, join, wdt, history>>

\* Mutant: the failure is logged and the status left at CONNECTED.
SubscribeFails_StaysConnected ==
  /\ pc = "subscribe"
  /\ pc' = "away"
  /\ UNCHANGED <<network, link, status, now, last, join, wdt, history>>

SubscribeFails ==
  /\ pc = "subscribe"
  /\ status' = "MQTT_ERROR"
  /\ pc' = "away"
  /\ UNCHANGED <<network, link, now, last, join, wdt, history>>

\* publishStatus("system", ...) returns and the attempt has succeeded.
Announced ==
  /\ pc = "announce"
  /\ last' = 0
  /\ gap' = NoGap
  /\ pc' = "away"
  /\ UNCHANGED <<network, link, status, now, join, wdt, skipping, skip>>

-----------------------------------------------------------------------------
(* The client is up: mqttClient.loop().                                    *)

ClientUp ==
  /\ pc = "client"
  /\ Connected
  /\ pc' = "serve"
  /\ skipping' = FALSE
  /\ skip' = 0
  /\ UNCHANGED <<network, link, status, now, last, join, wdt, gap>>

\* Nothing to read, or messages handled, or a dead link not noticed yet.
Served ==
  /\ pc = "serve"
  /\ client
  /\ pc' = "away"
  /\ UNCHANGED <<network, link, status, now, last, join, wdt, history>>

\* The keep-alive went unanswered or the socket is closed: disconnect().  Its
\* DISCONNECT has no way to a session the broker may still hold.
ServeFails ==
  /\ pc = "serve"
  /\ ~client \/ session = "none" \/ ~Path
  /\ status' = "MQTT_ERROR"
  /\ client' = FALSE
  /\ last' = now
  /\ pc' = "away"
  /\ UNCHANGED <<network, session, now, join, wdt, history>>

-----------------------------------------------------------------------------
(* The network, the clock and the watchdog.                                *)

WifiChanges ==
  /\ wifi' = ~wifi
  /\ UNCHANGED <<broker, link, status, now, last, pc, join, wdt, history>>

BrokerChanges ==
  /\ broker' = ~broker
  /\ UNCHANGED <<wifi, link, status, now, last, pc, join, wdt, history>>

\* The broker drops the session: with the path to it, before the device knows, or
\* because the device that left it there says no more.
SessionLost ==
  /\ session # "none"
  /\ ~Path \/ (~client /\ pc # "connack")
  /\ session' = "none"
  /\ UNCHANGED <<network, client, status, now, last, pc, join, wdt, history>>

\* The TCP stack reports a closed socket; the broker may not know of it.
LossNoticed ==
  /\ client
  /\ session = "none" \/ ~Path
  /\ client' = FALSE
  /\ UNCHANGED <<network, session, status, now, last, pc, join, wdt, history>>

Tick ==
  /\ pc \in Waits
  /\ wdt < WdtTimeout
  /\ now' = IF now = Wrap - 1 THEN 0 ELSE now + 1
  /\ wdt' = wdt + 1
  /\ gap' = IF gap < NoGap THEN gap + 1 ELSE gap
  /\ skip' = IF skipping THEN skip + 1 ELSE 0
  /\ UNCHANGED <<network, link, status, last, pc, join, skipping>>

Panic == wdt = WdtTimeout /\ Reset /\ UNCHANGED <<network, session>>
PowerCycle == Reset /\ UNCHANGED <<network, session>>

-----------------------------------------------------------------------------
LoopTask ==
  \/ Connect \/ LoopCalled \/ LoopJoins
  \/ AlreadyJoined \/ JoinWaits \/ WaitEnds \/ Joined \/ JoinFails
  \/ Attempt \/ SkipAttempt
  \/ ConnectArrives \/ BrokerRefuses \/ BrokerAccepts \/ ConnackLost
  \/ Subscribed \/ SubscribeFails \/ Announced
  \/ ClientUp \/ Served \/ ServeFails

Outside == WifiChanges \/ BrokerChanges \/ SessionLost \/ LossNoticed

Next == LoopTask \/ Outside \/ Tick \/ Panic \/ PowerCycle

\* loopTask runs when it can and time diverges; a lost session or a path that
\* stays down is noticed by TCP or by the keep-alive of the client.
Fairness ==
  /\ WF_vars(LoopTask)
  /\ WF_vars(LossNoticed)
  /\ WF_vars(Panic)
  /\ SF_vars(Tick)

Spec == Init /\ [][Next]_vars
FairSpec == Spec /\ Fairness

-----------------------------------------------------------------------------
(* What is checked.                                                        *)

\* Every variable in its type.
TypeOK ==
  /\ wifi \in BOOLEAN
  /\ broker \in BOOLEAN
  /\ session \in Session
  /\ client \in BOOLEAN
  /\ status \in Status
  /\ now \in 0..(Wrap - 1)
  /\ last \in 0..(Wrap - 1)
  /\ pc \in Location
  /\ caller \in {"loop", "attempt"}
  /\ waitStart \in 0..(Wrap - 1)
  /\ wdt \in 0..WdtTimeout
  /\ gap \in 0..NoGap
  /\ skipping \in BOOLEAN
  /\ skip \in Nat

\* The record of the last attempt is never older than the attempt, even when
\* millis() has wrapped since.
GapRecorded == gap <= Interval => Elapsed(now, last) <= gap

\* While loop() keeps deciding against an attempt, millis() cannot have wrapped
\* back into the interval: the decisions end Interval seconds after the first.
SkipBounded ==
  /\ ~skipping => skip = 0
  /\ skipping =>
       /\ skip <= Elapsed(now, last) /\ Elapsed(now, last) <= Interval + skip
       /\ skip <= Interval + wdt + (IF pc = "away" THEN 0 ELSE WdtTimeout)

\* Nothing has been attempted or skipped when setup() calls connect().
SetupIsFresh == pc = "setup" => gap = NoGap /\ ~skipping

\* An attempt is under way.
Attempting ==
  \/ pc \in {"connect", "connack"}
  \/ pc \in {"join", "wait", "joined"} /\ caller = "attempt"

\* loop() is not putting off an attempt while it makes one or has the client up.
AttemptNotSkipped ==
  Attempting \/ pc \in {"subscribe", "announce", "serve"} => ~skipping

\* An attempt is made without a client, whatever the broker still holds.
AttemptNeedsNoClient == Attempting => ~client

RetryInv ==
  /\ TypeOK /\ GapRecorded /\ SkipBounded /\ SetupIsFresh
  /\ AttemptNotSkipped /\ AttemptNeedsNoClient

\* Two attempts to reach the broker are more than Interval seconds apart unless
\* the first succeeded, across every wrap of millis() (mqtt_tls.cpp:345).
AttemptsSpaced ==
  [][pc = "client" /\ pc' = "join" => gap > Interval]_vars

\* With WiFi there and the client down, loop() puts off the next attempt for at
\* most Interval seconds: no wrap, reset or failure silences it for longer.
RetryPrompt ==
  [][pc = "client" /\ ~client /\ pc' = "away" => skip <= Interval]_vars

\* A device that believes in a session without a subscription receives no
\* command.  It is left in one only by a SUBSCRIBE that failed, and then its
\* status says so: not by taking over a session the broker still held.
DeafIsKnown ==
  client /\ session = "open" /\ pc # "subscribe" => status = "MQTT_ERROR"

\* A device that restarts no more, with its network and broker there for good,
\* ends up subscribed, whatever session a late loss, a lost CONNACK or a restart
\* left at the broker, unless the SUBSCRIBE itself failed.
Reconnects ==
  <>[](Path /\ pc # "setup") =>
    \/ <>[](client /\ session = "subscribed")
    \/ <>[](client /\ session = "open" /\ status = "MQTT_ERROR")
=============================================================================
