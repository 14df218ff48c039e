------------------------------ MODULE BootProofs ------------------------------
(***************************************************************************)
(* Proofs about Totp and Boot: the tolerance of the TOTP window at every   *)
(* time, and the boot sequence for every watchdog, every wait for WiFi,    *)
(* every code and every drift of the clock.                                *)
(***************************************************************************)
EXTENDS Boot, TLAPS

\* A time that is so many windows later is in a time step so much later.
LEMMA CounterShift ==
  ASSUME NEW t \in Nat, NEW i \in -1..1, t >= 30
  PROVE  Counter(t + i * TimeStep) = Counter(t) + i
<1>1. CASE i = -1
  BY <1>1 DEF Counter, TimeStep
<1>2. CASE i = 0
  BY <1>2 DEF Counter, TimeStep
<1>3. CASE i = 1
  BY <1>3 DEF Counter, TimeStep
<1> QED
  BY <1>1, <1>2, <1>3

\* A clock off by up to 30 s accepts every code but 0, one off by 60 s or more none.
THEOREM WindowTolerance ==
  ASSUME NEW t \in Nat, NEW u \in Nat, t >= 30
  PROVE  Tolerance(t, u)
<1> DEFINE c == Code(Counter(u))
<1>1. Counter(t) \in Int /\ Counter(u) \in Int
  BY DEF Counter, TimeStep
<1>2. ASSUME c # 0, t - u \in -30..30
      PROVE  Accepts(t, c)
  <2>1. Counter(u) - Counter(t) \in -1..1
    BY <1>2 DEF Counter, TimeStep
  <2> DEFINE i == Counter(u) - Counter(t)
  <2>2. i \in -1..1 /\ Counter(t) + i = Counter(u)
    BY <1>1, <2>1
  <2> HIDE DEF i
  <2>3. Counter(t + i * TimeStep) = Counter(u)
    BY <2>2, CounterShift
  <2>4. i \in Steps
    BY <2>2 DEF Steps, Window
  <2> QED
    BY <1>2, <2>3, <2>4, Zenon DEF Accepts
<1>3. ASSUME NoCoincidence(t, u), Accepts(t, c)
      PROVE  t - u \in -59..59
  <2>1. PICK i \in -1..1 : Code(Counter(t + i * TimeStep)) = c
    BY <1>3 DEF Accepts, Steps, Window
  <2>2. Counter(t) + i = Counter(u)
    <3>1. Code(Counter(t) + i) = Code(Counter(u))
      BY <2>1, CounterShift
    <3>2. i \in -Window..Window
      BY DEF Window
    <3> QED
      BY <1>3, <3>1, <3>2, Zenon DEF NoCoincidence
  <2> QED
    BY <2>2 DEF Counter, TimeStep
<1>4. ~Accepts(t, 0)
  BY Zenon DEF Accepts
<1> QED
  <2>1. -(Window * TimeStep)..(Window * TimeStep) = -30..30
    BY DEF Window, TimeStep
  <2>2. (1 - (Window + 1) * TimeStep)..((Window + 1) * TimeStep - 1) = -59..59
    BY DEF Window, TimeStep
  <2> QED
    BY <1>2, <1>3, <1>4, <2>1, <2>2, Zenon DEF Tolerance

-----------------------------------------------------------------------------
\* What has been initialised when a call of setup() begins.
ReadyInv ==
  /\ pc \in {"ecdsa", "totp", "aes", "rfid", "finger", "lock", "comms"} => "secure" \in ready
  /\ pc \in {"totp", "aes", "rfid", "finger", "lock", "comms"} => "ecdsa" \in ready
  /\ pc \in {"aes", "rfid", "finger", "lock", "comms"} => "totp" \in ready
  /\ pc \in {"rfid", "finger", "lock", "comms"} => "aes" \in ready
  /\ pc \in {"finger", "lock", "comms"} => "rfid" \in ready
  /\ pc \in {"lock", "comms"} => "finger" \in ready
  /\ pc = "comms" => "lock" \in ready

\* The time is asked for only while the clock has not been set.
SyncInv ==
  pc \in {"secure", "ecdsa", "totp", "aes", "rfid", "finger", "lock", "comms", "sync"} => ~timeSet

\* The inductive invariant.
BootInv ==
  TypeOK /\ ReadyInv /\ ReadyForWork /\ SyncInv /\ ClockFlagsAgree

LEMMA BootInit == Init => BootInv
<1> SUFFICES ASSUME Init PROVE BootInv
  OBVIOUS
<1>1. link \in BOOLEAN /\ timeSet \in BOOLEAN /\ timeSynced \in BOOLEAN
  BY Zenon DEF Init
<1>2. TypeOK
  BY <1>1, BootAssumption DEF Init, TypeOK, Parts, Required
<1>3. ReadyInv /\ ReadyForWork /\ SyncInv
  BY DEF Init, ReadyInv, ReadyForWork, SyncInv
<1>4. ClockFlagsAgree
  BY Zenon DEF Init, ClockFlagsAgree
<1> QED
  BY <1>2, <1>3, <1>4 DEF BootInv

LEMMA BootBooleans ==
  ASSUME TypeOK, [Next]_vars
  PROVE  link' \in BOOLEAN /\ timeSet' \in BOOLEAN /\ timeSynced' \in BOOLEAN
<1> USE DEF TypeOK, clock
<1>1. CASE Panic \/ PowerCycle \/ UNCHANGED vars
  BY <1>1, Zenon DEF Panic, PowerCycle, Reset, vars
<1>2. CASE Setup
  BY <1>2, Zenon
  DEF Setup, SecureElementInit, EcdsaInit, TotpInit, AesInit, RfidInit, FingerInit,
      LockInit, CommsInit, Done, SetupHangs, HungLoop, HungSecond, SetupEnds
<1>3. CASE Network
  BY <1>3, Zenon
  DEF Network, Loop, JoinWaits, WaitEnds, JoinFails, AskTime, SyncSucceeds, SyncFails,
      SessionWaits, SessionLosesLink, SessionEnds, StatusRequested
<1>4. CASE LinkChanges \/ Drift
  BY <1>4, Zenon DEF LinkChanges, Drift
<1> QED
  BY <1>1, <1>2, <1>3, <1>4 DEF Next

LEMMA BootTypeStep ==
  ASSUME BootInv, [Next]_vars
  PROVE  TypeOK'
<1>1. TypeOK
  BY DEF BootInv
<1>2. link' \in BOOLEAN /\ timeSet' \in BOOLEAN /\ timeSynced' \in BOOLEAN
  BY <1>1, BootBooleans
<1> DEFINE T == /\ pc \in Parts \cup {"hung", "join", "joined", "sync", "session", "loop"}
                /\ state \in {"BOOTING", "IDLE", "ERROR_STATE"}
                /\ ready \subseteq Parts
                /\ fed \in 0..WdtTimeout
                /\ waited \in 0..JoinTimeout
                /\ err \in -MaxErr..MaxErr
                /\ cause \in {"power", "panic"}
<1>3. T
  BY <1>1, Zenon DEF TypeOK
<1> USE BootAssumption DEF Parts, Required
<1>4. CASE Panic \/ PowerCycle
  <2>1. T'
    BY <1>4 DEF Panic, PowerCycle, Reset
  <2> QED
    BY <1>2, <2>1, Zenon DEF TypeOK
<1>5. CASE Setup
  <2>1. pc' \in Parts \cup {"hung", "join", "joined", "sync", "session", "loop"}
        /\ state' \in {"BOOTING", "IDLE", "ERROR_STATE"}
        /\ ready' \subseteq Parts
    BY <1>3, <1>5
    DEF Setup, SecureElementInit, EcdsaInit, TotpInit, AesInit, RfidInit, FingerInit,
        LockInit, CommsInit, Done, SetupHangs, HungLoop, HungSecond, SetupEnds
  <2>2. fed' \in 0..WdtTimeout
    BY <1>3, <1>5
    DEF Setup, Awake, Busy, SecureElementInit, EcdsaInit, TotpInit, AesInit, RfidInit,
        FingerInit, LockInit, CommsInit, Done, SetupHangs, HungLoop, HungSecond,
        SetupEnds
  <2>3. waited' \in 0..JoinTimeout
    BY <1>3, <1>5
    DEF Setup, SecureElementInit, EcdsaInit, TotpInit, AesInit, RfidInit, FingerInit,
        LockInit, CommsInit, Done, SetupHangs, HungLoop, HungSecond, SetupEnds
  <2>4. err' = err /\ cause' = cause
    BY <1>5
    DEF Setup, clock, SecureElementInit, EcdsaInit, TotpInit, AesInit, RfidInit,
        FingerInit, LockInit, CommsInit, Done, SetupHangs, HungLoop, HungSecond,
        SetupEnds
  <2>5. T'
    BY <1>3, <2>1, <2>2, <2>3, <2>4
  <2> QED
    BY <1>2, <2>5, Zenon DEF TypeOK
<1>6. CASE Network
  <2>1. pc' \in Parts \cup {"hung", "join", "joined", "sync", "session", "loop"}
    BY <1>3, <1>6
    DEF Caller, Network, Loop, JoinWaits, WaitEnds, JoinFails, AskTime, SyncSucceeds,
        SyncFails, SessionWaits, SessionLosesLink, SessionEnds, StatusRequested
  <2>2. state' = state /\ ready' = ready /\ cause' = cause
    BY <1>6
    DEF Network, Loop, JoinWaits, WaitEnds, JoinFails, AskTime, SyncSucceeds,
        SyncFails, SessionWaits, SessionLosesLink, SessionEnds, StatusRequested
  <2>3. fed' \in 0..WdtTimeout
    BY <1>3, <1>6
    DEF Awake, Busy, Network, Loop, JoinWaits, WaitEnds, JoinFails, AskTime,
        SyncSucceeds, SyncFails, SessionWaits, SessionLosesLink, SessionEnds,
        StatusRequested
  <2>4. waited' \in 0..JoinTimeout
    BY <1>3, <1>6
    DEF Network, Loop, JoinWaits, WaitEnds, JoinFails, AskTime, SyncSucceeds,
        SyncFails, SessionWaits, SessionLosesLink, SessionEnds, StatusRequested
  <2>5. err' \in -MaxErr..MaxErr
    BY <1>3, <1>6
    DEF clock, Network, Loop, JoinWaits, WaitEnds, JoinFails, AskTime, SyncSucceeds,
        SyncFails, SessionWaits, SessionLosesLink, SessionEnds, StatusRequested
  <2>6. T'
    BY <1>3, <2>1, <2>2, <2>3, <2>4, <2>5
  <2> QED
    BY <1>2, <2>6, Zenon DEF TypeOK
<1>7. CASE LinkChanges \/ Drift \/ UNCHANGED vars
  <2>1. UNCHANGED <<pc, state, ready, fed, waited, cause>>
    BY <1>7 DEF LinkChanges, Drift, vars
  <2>2. err' \in -MaxErr..MaxErr
    BY <1>3, <1>7 DEF LinkChanges, Drift, vars, clock
  <2>3. T'
    BY <1>3, <2>1, <2>2
  <2> QED
    BY <1>2, <2>3, Zenon DEF TypeOK
<1> QED
  BY <1>4, <1>5, <1>6, <1>7 DEF Next

LEMMA ReadyStep ==
  ASSUME BootInv, [Next]_vars
  PROVE  ReadyInv' /\ ReadyForWork'
<1>1. ReadyInv /\ ReadyForWork
  BY DEF BootInv
<1> USE DEF ReadyInv, ReadyForWork, Required
<1>2. CASE Panic \/ PowerCycle \/ UNCHANGED vars \/ LinkChanges \/ Drift
  BY <1>1, <1>2 DEF Panic, PowerCycle, Reset, vars, LinkChanges, Drift
<1>3. CASE Setup
  BY <1>1, <1>3
  DEF Setup, SecureElementInit, EcdsaInit, TotpInit, AesInit, RfidInit, FingerInit,
      LockInit, CommsInit, Done, SetupHangs, HungLoop, HungSecond, SetupEnds
<1>4. CASE Network
  BY <1>1, <1>4
  DEF Network, Caller, Loop, JoinWaits, WaitEnds, JoinFails, AskTime, SyncSucceeds,
        SyncFails, SessionWaits, SessionLosesLink, SessionEnds, StatusRequested
<1> QED
  BY <1>2, <1>3, <1>4 DEF Next

LEMMA SyncStep ==
  ASSUME BootInv, [Next]_vars
  PROVE  SyncInv' /\ ClockFlagsAgree'
<1>1. TypeOK /\ SyncInv /\ ClockFlagsAgree
  BY DEF BootInv
<1>2. CASE Panic \/ PowerCycle
  BY <1>2, Zenon DEF Panic, PowerCycle, Reset, SyncInv, ClockFlagsAgree
<1>3. CASE UNCHANGED vars \/ LinkChanges \/ Drift
  <2>1. UNCHANGED <<pc, timeSet, timeSynced>>
    BY <1>3, Zenon DEF LinkChanges, Drift, vars, clock
  <2> QED
    BY <1>1, <2>1, Zenon DEF SyncInv, ClockFlagsAgree
<1>4. CASE Setup
  <2>1. timeSet' = timeSet /\ timeSynced' \in {timeSynced, FALSE}
    BY <1>4, Zenon
    DEF Setup, clock, SecureElementInit, EcdsaInit, TotpInit, AesInit, RfidInit,
        FingerInit, LockInit, CommsInit, Done, SetupHangs, HungLoop, HungSecond,
        SetupEnds
  <2>2. timeSynced' = timeSynced \/ pc = "totp"
    BY <1>4
    DEF Setup, clock, SecureElementInit, EcdsaInit, TotpInit, AesInit, RfidInit,
        FingerInit, LockInit, CommsInit, Done, SetupHangs, HungLoop, HungSecond,
        SetupEnds
  <2>3. pc' \in {"secure", "ecdsa", "totp", "aes", "rfid", "finger", "lock", "comms", "sync"} =>
          pc \in {"secure", "ecdsa", "totp", "aes", "rfid", "finger", "lock", "comms"}
    BY <1>4
    DEF Setup, SecureElementInit, EcdsaInit, TotpInit, AesInit, RfidInit, FingerInit,
        LockInit, CommsInit, Done, SetupHangs, HungLoop, HungSecond, SetupEnds
  <2>4. pc = "totp" => ~timeSet
    BY <1>1 DEF SyncInv
  <2>5. timeSynced' = timeSet'
    BY <1>1, <2>1, <2>2, <2>4, Zenon DEF TypeOK, ClockFlagsAgree
  <2>6. SyncInv'
    BY <1>1, <2>1, <2>3 DEF SyncInv
  <2> QED
    BY <2>5, <2>6, Zenon DEF ClockFlagsAgree
<1>5. CASE Network
  <2>1. timeSynced' = timeSet'
    <3>1. CASE SyncFails
      <4>1. ~timeSet
        BY <1>1, <3>1 DEF SyncInv, SyncFails
      <4> QED
        BY <1>1, <3>1, <4>1, Zenon DEF TypeOK, SyncFails
    <3>2. CASE ~SyncFails
      BY <1>1, <1>5, <3>2, Zenon
      DEF ClockFlagsAgree, Network, clock, Loop, JoinWaits, WaitEnds, JoinFails,
          AskTime, SyncSucceeds, SessionWaits, SessionLosesLink, SessionEnds,
          StatusRequested
    <3> QED
      BY <3>1, <3>2
  <2>2. pc' \in {"secure", "ecdsa", "totp", "aes", "rfid", "finger", "lock", "comms", "sync"} =>
          pc' = "sync" /\ AskTime /\ ~timeSet
    BY <1>5
    DEF Network, Caller, Loop, JoinWaits, WaitEnds, JoinFails, AskTime, SyncSucceeds,
        SyncFails, SessionWaits, SessionLosesLink, SessionEnds, StatusRequested
  <2>3. AskTime => timeSet' = timeSet
    BY Zenon DEF AskTime
  <2>4. SyncInv'
    BY <2>2, <2>3, Zenon DEF SyncInv
  <2> QED
    BY <2>1, <2>4, Zenon DEF ClockFlagsAgree
<1> QED
  BY <1>2, <1>3, <1>4, <1>5 DEF Next

LEMMA BootInductive == Spec => []BootInv
<1>1. BootInv /\ [Next]_vars => BootInv'
  BY BootTypeStep, ReadyStep, SyncStep DEF BootInv
<1> QED
  BY BootInit, <1>1, PTL DEF Spec

\* Every variable of the boot sequence keeps its type, and the watchdog never counts
\* beyond its timeout.
THEOREM BootTypeCorrect == Spec => []TypeOK
<1>1. BootInv => TypeOK
  BY DEF BootInv
<1> QED
  BY BootInductive, <1>1, PTL

\* What listens to a person or to the broker has everything it needs.
THEOREM BootReadyForWork == Spec => []ReadyForWork
<1>1. BootInv => ReadyForWork
  BY DEF BootInv
<1> QED
  BY BootInductive, <1>1, PTL

\* time_synced is what NTPClient knows.
THEOREM BootClockFlagsAgree == Spec => []ClockFlagsAgree
<1>1. BootInv => ClockFlagsAgree
  BY DEF BootInv
<1> QED
  BY BootInductive, <1>1, PTL

\* The tolerance of verifyTOTP, for every code, time and error of the clock.
THEOREM BootTotpTolerance == Spec => []TotpTolerance
<1>1. BootInv => TotpTolerance
  <2> SUFFICES ASSUME BootInv, NEW u \in Times PROVE Tolerance(u + err, u)
    BY DEF TotpTolerance
  <2>1. u \in Nat /\ u + err \in Nat /\ u + err >= 30
    BY BootAssumption DEF BootInv, TypeOK, Window, TimeStep
  <2> QED
    BY <2>1, WindowTolerance
<1> QED
  BY BootInductive, <1>1, PTL
-----------------------------------------------------------------------------
\* How long the watchdog can have counted when a call of setup() begins.
FedInv ==
  /\ pc = "secure" => fed = 0
  /\ pc = "ecdsa" => fed <= 1
  /\ pc = "totp" => fed <= 2
  /\ pc = "aes" => fed <= 3
  /\ pc = "rfid" => fed <= 4
  /\ pc = "finger" => fed <= 5
  /\ pc = "hung" => waited \in {0, 1} /\ fed <= 6 + waited

LEMMA FedStep ==
  ASSUME TypeOK, FedInv, [Next]_vars
  PROVE  FedInv'
<1>1. fed \in Nat
  BY BootAssumption DEF TypeOK
<1> USE DEF FedInv
<1>2. CASE Panic \/ PowerCycle
  BY <1>2 DEF Panic, PowerCycle, Reset
<1>3. CASE LinkChanges \/ Drift \/ UNCHANGED vars
  <2>1. UNCHANGED <<pc, fed, waited>>
    BY <1>3 DEF LinkChanges, Drift, vars
  <2> QED
    BY <2>1
<1>4. CASE Setup
  BY <1>1, <1>4
  DEF Setup, Busy, SecureElementInit, EcdsaInit, TotpInit, AesInit, RfidInit,
      FingerInit, LockInit, CommsInit, Done, SetupHangs, HungLoop, HungSecond,
      SetupEnds
<1>5. CASE Network
  BY <1>5
  DEF Network, Caller, Loop, JoinWaits, WaitEnds, JoinFails, AskTime, SyncSucceeds,
        SyncFails, SessionWaits, SessionLosesLink, SessionEnds, StatusRequested
<1> QED
  BY <1>2, <1>3, <1>4, <1>5 DEF Next

\* A watchdog that leaves six initialisations and a second of the error loop their
\* time never ends the error loop.
THEOREM BootHangIsFinal ==
  ASSUME WdtTimeout > 7
  PROVE  Spec => HangIsFinal
<1>1. Init => FedInv
  BY DEF Init, FedInv
<1>2. ASSUME TypeOK, FedInv, [Next]_vars
      PROVE  [pc = "hung" /\ pc' # "hung" => cause' = "power"]_vars
  <2> SUFFICES ASSUME Next, pc = "hung", pc' # "hung" PROVE cause' = "power"
    BY <1>2
  <2>1. fed \in Nat /\ fed <= 7
    BY <1>2, BootAssumption DEF TypeOK, FedInv
  <2>2. ~Panic
    BY <2>1, BootAssumption DEF Panic, Awake
  <2>3. ~Setup
    BY DEF Setup, SecureElementInit, EcdsaInit, TotpInit, AesInit, RfidInit, FingerInit,
           LockInit, CommsInit, Done, SetupHangs, HungLoop, HungSecond, SetupEnds
  <2>4. ~Network /\ ~LinkChanges
    BY DEF Network, Loop, JoinWaits, WaitEnds, JoinFails, AskTime, SyncSucceeds,
           SyncFails, SessionWaits, SessionLosesLink, SessionEnds, StatusRequested,
           LinkChanges
  <2>5. ~Drift
    BY DEF Drift
  <2>6. PowerCycle
    BY <2>2, <2>3, <2>4, <2>5 DEF Next
  <2> QED
    BY <2>6 DEF PowerCycle, Reset
<1>3. TypeOK /\ FedInv /\ [Next]_vars => FedInv'
  BY FedStep
<1> QED
  BY <1>1, <1>2, <1>3, BootTypeCorrect, PTL DEF Spec, HangIsFinal
=============================================================================
