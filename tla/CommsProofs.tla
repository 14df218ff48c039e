----------------------------- MODULE CommsProofs -----------------------------
(***************************************************************************)
(* The retry timer of the connection manager for every interval, watchdog  *)
(* and width of millis(): attempts are spaced, and none is put off for     *)
(* longer than the interval.                                               *)
(***************************************************************************)
EXTENDS Comms, TLAPS

\* A difference of two values of millis() is a value of millis().
LEMMA ElapsedInRange ==
  ASSUME NEW a \in 0..(Wrap - 1), NEW b \in 0..(Wrap - 1)
  PROVE  Elapsed(a, b) \in 0..(Wrap - 1)
  BY CommsAssumption DEF Elapsed

\* Nothing has elapsed since now.
LEMMA ElapsedSinceNow ==
  ASSUME NEW a \in 0..(Wrap - 1)
  PROVE  Elapsed(a, a) = 0
  BY CommsAssumption DEF Elapsed

\* A second later one more has elapsed, unless the difference itself wraps.
LEMMA ElapsedTicks ==
  ASSUME NEW a \in 0..(Wrap - 1), NEW b \in 0..(Wrap - 1), NEW c,
         c = IF a = Wrap - 1 THEN 0 ELSE a + 1
  PROVE  /\ c \in 0..(Wrap - 1)
         /\ Elapsed(a, b) < Wrap - 1 => Elapsed(c, b) = Elapsed(a, b) + 1
         /\ Elapsed(a, b) = Wrap - 1 => Elapsed(c, b) = 0
  BY CommsAssumption DEF Elapsed

LEMMA TypeInit == Init => TypeOK
<1> SUFFICES ASSUME Init PROVE TypeOK
  OBVIOUS
<1>1. /\ wifi \in BOOLEAN /\ broker \in BOOLEAN /\ client \in BOOLEAN
      /\ skipping \in BOOLEAN
  BY Zenon DEF Init
<1>2. /\ now \in 0..(Wrap - 1) /\ last \in 0..(Wrap - 1)
      /\ waitStart \in 0..(Wrap - 1) /\ wdt \in 0..WdtTimeout
      /\ gap \in 0..NoGap /\ skip \in Nat
  BY CommsAssumption DEF Init, NoGap
<1>3. /\ session \in Session /\ status \in Status
      /\ pc \in Location /\ caller \in {"loop", "attempt"}
  BY DEF Init, Session, Status, Location
<1> QED
  BY <1>1, <1>2, <1>3, Zenon DEF TypeOK

\* A step keeps every variable in its type.
LEMMA TypeStep ==
  ASSUME TypeOK, [Next]_vars
  PROVE  TypeOK'
<1>1. ASSUME Reset, UNCHANGED <<network, session>>
      PROVE  TypeOK'
  <2>1. /\ wifi' \in BOOLEAN /\ broker' \in BOOLEAN /\ client' \in BOOLEAN
        /\ skipping' \in BOOLEAN
    BY <1>1, Zenon DEF Reset, TypeOK, network
  <2>2. /\ now' \in 0..(Wrap - 1) /\ last' \in 0..(Wrap - 1)
        /\ waitStart' \in 0..(Wrap - 1) /\ wdt' \in 0..WdtTimeout
        /\ gap' \in 0..NoGap /\ skip' \in Nat
    BY <1>1, CommsAssumption DEF Reset, NoGap
  <2>3. /\ session' \in Session /\ status' \in Status
        /\ pc' \in Location /\ caller' \in {"loop", "attempt"}
    BY <1>1 DEF Reset, TypeOK, Session, Status, Location
  <2> QED
    BY <2>1, <2>2, <2>3, Zenon DEF TypeOK
<1>2. CASE LoopTask
  <2>1. /\ wifi' \in BOOLEAN /\ broker' \in BOOLEAN /\ client' \in BOOLEAN
        /\ skipping' \in BOOLEAN
    BY <1>2, Zenon
    DEF TypeOK, LoopTask, network, link, history, join, Connect, LoopCalled,
        LoopJoins, AlreadyJoined, JoinWaits, WaitEnds, Joined, JoinFails, Attempt,
        SkipAttempt, ConnectArrives, ConnackLost, BrokerAccepts, BrokerRefuses,
        Subscribed, SubscribeFails, Announced, ClientUp, Served, ServeFails
  <2>2. /\ now' \in 0..(Wrap - 1) /\ last' \in 0..(Wrap - 1)
        /\ waitStart' \in 0..(Wrap - 1) /\ wdt' \in 0..WdtTimeout
        /\ gap' \in 0..NoGap /\ skip' \in Nat
    BY <1>2, CommsAssumption
    DEF TypeOK, LoopTask, history, join, NoGap, Connect, LoopCalled, LoopJoins,
        AlreadyJoined, JoinWaits, WaitEnds, Joined, JoinFails, Attempt, SkipAttempt,
        ConnectArrives, ConnackLost, BrokerAccepts, BrokerRefuses, Subscribed,
        SubscribeFails, Announced, ClientUp, Served, ServeFails
  <2>3. /\ session' \in Session /\ status' \in Status
        /\ pc' \in Location /\ caller' \in {"loop", "attempt"}
    BY <1>2
    DEF TypeOK, LoopTask, link, join, Session, Status, Location, Connect, LoopCalled,
        LoopJoins, AlreadyJoined, JoinWaits, WaitEnds, Joined, JoinFails, JoinReturns,
        Attempt, SkipAttempt, ConnectArrives, ConnackLost, BrokerAccepts,
        BrokerRefuses, Subscribed, SubscribeFails, Announced, ClientUp, Served,
        ServeFails
  <2> QED
    BY <2>1, <2>2, <2>3, Zenon DEF TypeOK
<1>3. CASE Outside
  <2>1. /\ wifi' \in BOOLEAN /\ broker' \in BOOLEAN /\ client' \in BOOLEAN
        /\ skipping' \in BOOLEAN
    BY <1>3, Zenon
    DEF TypeOK, Outside, network, link, history, WifiChanges, BrokerChanges,
        SessionLost, LossNoticed
  <2>2. /\ now' \in 0..(Wrap - 1) /\ last' \in 0..(Wrap - 1)
        /\ waitStart' \in 0..(Wrap - 1) /\ wdt' \in 0..WdtTimeout
        /\ gap' \in 0..NoGap /\ skip' \in Nat
    BY <1>3, Zenon
    DEF TypeOK, Outside, history, join, WifiChanges, BrokerChanges, SessionLost,
        LossNoticed
  <2>3. /\ session' \in Session /\ status' \in Status
        /\ pc' \in Location /\ caller' \in {"loop", "attempt"}
    BY <1>3
    DEF TypeOK, Outside, link, join, Session, WifiChanges, BrokerChanges, SessionLost,
        LossNoticed
  <2> QED
    BY <2>1, <2>2, <2>3, Zenon DEF TypeOK
<1>4. CASE Tick
  <2>1. /\ wifi' \in BOOLEAN /\ broker' \in BOOLEAN /\ client' \in BOOLEAN
        /\ skipping' \in BOOLEAN
    BY <1>4, Zenon DEF TypeOK, Tick, network, link
  <2>2. /\ now' \in 0..(Wrap - 1) /\ last' \in 0..(Wrap - 1)
        /\ waitStart' \in 0..(Wrap - 1) /\ wdt' \in 0..WdtTimeout
        /\ gap' \in 0..NoGap /\ skip' \in Nat
    BY <1>4, CommsAssumption DEF TypeOK, Tick, join, NoGap
  <2>3. /\ session' \in Session /\ status' \in Status
        /\ pc' \in Location /\ caller' \in {"loop", "attempt"}
    BY <1>4 DEF TypeOK, Tick, link, join
  <2> QED
    BY <2>1, <2>2, <2>3, Zenon DEF TypeOK
<1>5. CASE UNCHANGED vars
  BY <1>5, Zenon DEF TypeOK, vars, network, link, join, history
<1>6. CASE Panic \/ PowerCycle
  BY <1>1, <1>6, Zenon DEF Panic, PowerCycle
<1> QED
  BY <1>2, <1>3, <1>4, <1>5, <1>6 DEF Next

-----------------------------------------------------------------------------
LEMMA RetryInit == Init => RetryInv
<1> SUFFICES ASSUME Init PROVE RetryInv
  OBVIOUS
<1>1. TypeOK
  BY TypeInit
<1>2. GapRecorded /\ SkipBounded /\ SetupIsFresh /\ AttemptNotSkipped
      /\ AttemptNeedsNoClient
  BY CommsAssumption
  DEF Init, GapRecorded, SkipBounded, SetupIsFresh, AttemptNotSkipped,
      AttemptNeedsNoClient, Attempting, NoGap
<1> QED
  BY <1>1, <1>2 DEF RetryInv

\* A step keeps the record of the last attempt.
LEMMA GapStep ==
  ASSUME RetryInv, [Next]_vars
  PROVE  GapRecorded'
<1> USE DEF RetryInv
<1>1. CASE Tick
  <2> DEFINE e == Elapsed(now, last)
  <2>1. /\ e \in 0..(Wrap - 1)
        /\ e < Wrap - 1 => Elapsed(now', last) = e + 1
    BY <1>1, ElapsedInRange, ElapsedTicks DEF TypeOK, Tick
  <2>2. last' = last /\ gap \in 0..NoGap /\ gap' = IF gap < NoGap THEN gap + 1 ELSE gap
    BY <1>1 DEF TypeOK, Tick
  <2> HIDE DEF e
  <2>3. gap' <= Interval => gap <= Interval /\ gap' = gap + 1
    BY <2>2, CommsAssumption DEF NoGap
  <2>4. gap <= Interval => e <= gap
    BY DEF GapRecorded, e
  <2>5. gap' <= Interval => Elapsed(now', last) <= gap'
    BY <2>1, <2>2, <2>3, <2>4, CommsAssumption
  <2> QED
    BY <2>2, <2>5 DEF GapRecorded
<1>2. CASE Attempt
  <2>1. now' = now /\ last' = now /\ gap' = 0
    BY <1>2 DEF Attempt, Connected
  <2> QED
    BY <2>1, ElapsedSinceNow DEF TypeOK, GapRecorded
<1>3. CASE ServeFails
  <2>1. now' = now /\ last' = now /\ gap' = gap
    BY <1>3 DEF ServeFails, history
  <2> QED
    BY <2>1, ElapsedSinceNow DEF TypeOK, GapRecorded
<1>4. CASE Announced \/ Reset
  BY <1>4, CommsAssumption DEF Announced, Reset, GapRecorded, NoGap
<1>5. CASE Connect
  <2>1. gap = NoGap
    BY <1>5 DEF SetupIsFresh, Connect
  <2> QED
    BY <1>5, <2>1, CommsAssumption DEF Connect, history, GapRecorded, NoGap
<1>6. CASE now' = now /\ last' = last /\ gap' = gap
  BY <1>6 DEF GapRecorded
<1>7. LoopTask => \/ Attempt \/ ServeFails \/ Announced \/ Connect
                  \/ now' = now /\ last' = last /\ gap' = gap
  BY Zenon
  DEF LoopTask, history, LoopCalled, LoopJoins, AlreadyJoined, JoinWaits, WaitEnds,
      Joined, JoinFails, SkipAttempt, ConnectArrives, ConnackLost, BrokerAccepts,
      BrokerRefuses, Subscribed, SubscribeFails, ClientUp, Served
<1>8. Outside \/ UNCHANGED vars => now' = now /\ last' = last /\ gap' = gap
  BY Zenon
  DEF Outside, vars, history, WifiChanges, BrokerChanges, SessionLost, LossNoticed
<1> QED
  BY <1>1, <1>2, <1>3, <1>4, <1>5, <1>6, <1>7, <1>8 DEF Next, Panic, PowerCycle

\* A step keeps the bound on a run of decisions against an attempt.
LEMMA SkipStep ==
  ASSUME RetryInv, [Next]_vars
  PROVE  SkipBounded'
<1> USE DEF RetryInv
<1> DEFINE e == Elapsed(now, last)
           slack == IF pc = "away" THEN 0 ELSE WdtTimeout
<1>0. /\ e \in 0..(Wrap - 1)
      /\ wdt \in 0..WdtTimeout /\ skip \in Nat
      /\ slack \in Nat /\ slack <= WdtTimeout
      /\ skipping => skip <= Interval + wdt + slack /\ skip <= e /\ e <= Interval + skip
  BY ElapsedInRange, CommsAssumption DEF TypeOK, SkipBounded
<1>1. CASE Tick
  <2>1. CASE skipping
    <3>1. e < Wrap - 1
      BY <1>0, <1>1, <2>1, CommsAssumption DEF Tick
    <3>2. Elapsed(now', last') = e + 1 /\ skip' = skip + 1 /\ wdt' = wdt + 1 /\ pc' = pc
      BY <1>1, <2>1, <3>1, ElapsedTicks DEF Tick, TypeOK
    <3> HIDE DEF e, slack
    <3>3. /\ skip' <= Elapsed(now', last') /\ Elapsed(now', last') <= Interval + skip'
          /\ skip' <= Interval + wdt' + slack
      BY <1>0, <2>1, <3>2, CommsAssumption
    <3>4. skipping' = skipping
      BY <1>1 DEF Tick
    <3>5. slack = IF pc' = "away" THEN 0 ELSE WdtTimeout
      BY <3>2 DEF slack
    <3> QED
      BY <2>1, <3>3, <3>4, <3>5 DEF SkipBounded
  <2>2. CASE ~skipping
    BY <1>1, <2>2 DEF Tick, SkipBounded
  <2> QED
    BY <2>1, <2>2
<1>2. CASE SkipAttempt
  <2>1. /\ e <= Interval /\ skip' = (IF skipping THEN skip ELSE 0)
        /\ UNCHANGED <<now, last, wdt>> /\ skipping' /\ pc' = "away"
    BY <1>0, <1>2, CommsAssumption DEF SkipAttempt, Due
  <2> HIDE DEF e, slack
  <2>2. skip' <= e /\ e <= Interval + skip' /\ skip' <= Interval + wdt + 0
    BY <1>0, <2>1, CommsAssumption
  <2>3. e = Elapsed(now', last') /\ wdt' = wdt
    BY <2>1 DEF e
  <2>4. (IF pc' = "away" THEN 0 ELSE WdtTimeout) = 0
    BY <2>1
  <2> QED
    BY <2>1, <2>2, <2>3, <2>4 DEF SkipBounded
<1>3. CASE LoopCalled
  <2>1. wdt' = 0 /\ pc = "away" /\ pc' = "entry" /\ UNCHANGED <<now, last, skip, skipping>>
    BY <1>3 DEF LoopCalled, history
  <2>2. CASE skipping
    <3>1. skip <= Interval + WdtTimeout
      BY <1>0, <2>1, <2>2, CommsAssumption
    <3> QED
      BY <1>0, <2>1, <2>2, <3>1, CommsAssumption DEF SkipBounded
  <2>3. CASE ~skipping
    BY <2>1, <2>3 DEF SkipBounded
  <2> QED
    BY <2>2, <2>3
<1>4. CASE Attempt \/ JoinFails \/ ClientUp \/ Reset
  BY <1>4 DEF Attempt, Connected, JoinFails, ClientUp, Reset, SkipBounded
\* The other steps touch neither timer nor history, or have nothing to skip.
<1>5. CASE /\ UNCHANGED <<now, last, wdt, skipping, skip>>
           /\ pc' # "away" \/ pc' = pc \/ ~skipping
           /\ pc = "away" => pc' = "away"
  BY <1>0, <1>5, CommsAssumption DEF SkipBounded
<1>6. CASE ~skipping /\ UNCHANGED <<skipping, skip>>
  BY <1>6 DEF SkipBounded
<1>7. LoopTask => \/ Attempt \/ JoinFails \/ ClientUp \/ SkipAttempt \/ LoopCalled
                  \/ Connect \/ ServeFails \/ Announced \/ BrokerRefuses
                  \/ ConnackLost \/ SubscribeFails \/ Served
                  \/ /\ UNCHANGED <<now, last, wdt, skipping, skip>>
                     /\ pc # "away" /\ pc' # "away"
  BY DEF LoopTask, history, LoopJoins, AlreadyJoined, JoinWaits, WaitEnds, Joined,
         JoinReturns, ConnectArrives, BrokerAccepts, Subscribed
<1>8. Outside \/ UNCHANGED vars =>
        UNCHANGED <<now, last, wdt, skipping, skip>> /\ pc' = pc
  BY Zenon
  DEF Outside, vars, history, WifiChanges, BrokerChanges, SessionLost, LossNoticed
<1>9. Connect \/ ServeFails \/ Announced \/ BrokerRefuses \/ ConnackLost
        \/ SubscribeFails \/ Served
        => ~skipping /\ UNCHANGED <<skipping, skip>>
  BY DEF Connect, ServeFails, Announced, BrokerRefuses, ConnackLost, SubscribeFails,
         Served, history, SetupIsFresh, AttemptNotSkipped, Attempting
<1>10. LoopTask => SkipBounded'
  BY <1>2, <1>3, <1>4, <1>5, <1>6, <1>7, <1>9
<1>11. Outside \/ UNCHANGED vars => SkipBounded'
  BY <1>5, <1>8
<1> QED
  BY <1>1, <1>4, <1>10, <1>11 DEF Next, Panic, PowerCycle

LEMMA FreshStep ==
  ASSUME RetryInv, [Next]_vars
  PROVE  SetupIsFresh' /\ AttemptNotSkipped'
<1> USE DEF RetryInv
<1>1. CASE LoopTask
  <2>1. CASE Connect \/ LoopCalled \/ LoopJoins \/ SkipAttempt
    BY <1>1, <2>1
    DEF SetupIsFresh, AttemptNotSkipped, Attempting, history, join, Connect,
        LoopCalled, LoopJoins, SkipAttempt
  <2>2. CASE AlreadyJoined \/ JoinWaits \/ WaitEnds \/ Joined \/ JoinFails
    <3>1. caller \in {"loop", "attempt"}
      BY DEF TypeOK
    <3> QED
      BY <1>1, <2>2, <3>1
      DEF SetupIsFresh, AttemptNotSkipped, Attempting, history, join, AlreadyJoined,
          JoinWaits, WaitEnds, Joined, JoinFails, JoinReturns
  <2>3. CASE Attempt \/ ClientUp
    BY <1>1, <2>3 DEF SetupIsFresh, AttemptNotSkipped, Attempting, Attempt, Connected,
                      ClientUp
  <2>4. CASE \/ ConnectArrives \/ ConnackLost \/ BrokerAccepts \/ BrokerRefuses
             \/ Subscribed \/ SubscribeFails \/ Announced \/ Served \/ ServeFails
    BY <1>1, <2>4
    DEF SetupIsFresh, AttemptNotSkipped, Attempting, history, ConnectArrives,
        ConnackLost, BrokerAccepts, BrokerRefuses, Subscribed, SubscribeFails,
        Announced, Served, ServeFails
  <2> QED
    BY <1>1, <2>1, <2>2, <2>3, <2>4 DEF LoopTask
<1>2. CASE Outside \/ UNCHANGED vars
  <2>1. UNCHANGED <<pc, caller, gap, skipping>>
    BY <1>2, Zenon
    DEF Outside, vars, history, join, WifiChanges, BrokerChanges, SessionLost,
        LossNoticed
  <2> QED
    BY <2>1 DEF SetupIsFresh, AttemptNotSkipped, Attempting
<1>3. CASE Tick
  BY <1>3, CommsAssumption DEF Tick, join, SetupIsFresh, AttemptNotSkipped,
                               Attempting, NoGap
<1>4. CASE Reset
  BY <1>4 DEF Reset, SetupIsFresh, AttemptNotSkipped, Attempting
<1> QED
  BY <1>1, <1>2, <1>3, <1>4 DEF Next, Panic, PowerCycle

\* Only BrokerAccepts makes a client, and it ends the attempt.
LEMMA ClientStep ==
  ASSUME RetryInv, [Next]_vars
  PROVE  AttemptNeedsNoClient'
<1> USE DEF RetryInv, AttemptNeedsNoClient, Attempting
<1>1. CASE LoopTask
  <2>1. CASE Connect \/ LoopCalled \/ LoopJoins \/ Attempt \/ SkipAttempt
    BY <1>1, <2>1
    DEF link, history, join, Connect, LoopCalled, LoopJoins, Attempt, SkipAttempt,
        Connected
  <2>2. CASE AlreadyJoined \/ JoinWaits \/ WaitEnds \/ Joined \/ JoinFails
    BY <1>1, <2>2
    DEF TypeOK, link, join, AlreadyJoined, JoinWaits, WaitEnds, Joined, JoinFails,
        JoinReturns
  <2>3. CASE ConnectArrives \/ BrokerRefuses \/ BrokerAccepts \/ ConnackLost
    BY <1>1, <2>3
    DEF link, ConnectArrives, BrokerRefuses, BrokerAccepts, ConnackLost
  <2>4. CASE Subscribed \/ SubscribeFails \/ Announced \/ ClientUp \/ Served \/ ServeFails
    BY <1>1, <2>4
    DEF link, Subscribed, SubscribeFails, Announced, ClientUp, Served, ServeFails
  <2> QED
    BY <1>1, <2>1, <2>2, <2>3, <2>4 DEF LoopTask
<1>2. CASE Outside \/ Tick \/ UNCHANGED vars
  <2>1. UNCHANGED <<pc, caller>> /\ (client' = client \/ client' = FALSE)
    BY <1>2, Zenon
    DEF Outside, Tick, vars, link, join, WifiChanges, BrokerChanges, SessionLost,
        LossNoticed
  <2> QED
    BY <2>1
<1>3. CASE Reset
  BY <1>3 DEF Reset
<1> QED
  BY <1>1, <1>2, <1>3 DEF Next, Panic, PowerCycle

LEMMA RetryStep ==
  ASSUME RetryInv, [Next]_vars
  PROVE  RetryInv'
  BY TypeStep, GapStep, SkipStep, FreshStep, ClientStep DEF RetryInv

-----------------------------------------------------------------------------
\* Every variable keeps its type (comms/mqtt_tls.cpp's statics and loopTask).
THEOREM CommsTypeCorrect == Spec => []TypeOK
<1>1. Init => TypeOK
  BY TypeInit
<1>2. TypeOK /\ [Next]_vars => TypeOK'
  BY TypeStep
<1> QED
  BY <1>1, <1>2, PTL DEF Spec

\* The retry timer's record and the runs of decisions stay within their bounds.
THEOREM RetryInvHolds == Spec => []RetryInv
<1>1. RetryInv /\ [Next]_vars => RetryInv'
  BY RetryStep
<1> QED
  BY RetryInit, <1>1, PTL DEF Spec

\* Attempts to reach the broker are spaced, for every interval and every width of
\* millis() (mqtt_tls.cpp:345).
THEOREM AttemptsAreSpaced == Spec => AttemptsSpaced
<1>1. RetryInv /\ [Next]_vars
        => [pc = "client" /\ pc' = "join" => gap > Interval]_vars
  <2> SUFFICES ASSUME RetryInv, Next, pc = "client", pc' = "join"
               PROVE  gap > Interval
    OBVIOUS
  <2>1. Attempt
    BY DEF Next, LoopTask, Outside, Panic, PowerCycle, Reset, Tick, Waits, Connect,
           LoopCalled, LoopJoins, AlreadyJoined, JoinWaits, WaitEnds, Joined,
           JoinFails, SkipAttempt, ConnectArrives, ConnackLost, BrokerAccepts,
           BrokerRefuses, Subscribed, SubscribeFails, Announced, ClientUp, Served,
           ServeFails, WifiChanges, BrokerChanges, SessionLost, LossNoticed
  <2>2. Elapsed(now, last) > Interval /\ Elapsed(now, last) \in 0..(Wrap - 1)
    BY <2>1, ElapsedInRange DEF Attempt, Due, RetryInv, TypeOK
  <2> QED
    BY <2>2, CommsAssumption DEF RetryInv, TypeOK, GapRecorded, NoGap
<1> QED
  BY RetryInvHolds, <1>1, PTL DEF Spec, AttemptsSpaced

\* With WiFi there, no reset, success, failure or wrap of millis() puts an attempt
\* off for longer than the interval.
THEOREM RetryIsPrompt == Spec => RetryPrompt
<1>1. RetryInv /\ [Next]_vars
        => [pc = "client" /\ ~client /\ pc' = "away" => skip <= Interval]_vars
  <2> SUFFICES ASSUME RetryInv, Next, pc = "client", ~client, pc' = "away"
               PROVE  skip <= Interval
    OBVIOUS
  <2>1. SkipAttempt
    BY DEF Next, LoopTask, Outside, Panic, PowerCycle, Reset, Tick, Waits, Connect,
           LoopCalled, LoopJoins, AlreadyJoined, JoinWaits, WaitEnds, Joined,
           JoinFails, JoinReturns, Attempt, Connected, ConnectArrives, ConnackLost,
           BrokerAccepts, BrokerRefuses, Subscribed, SubscribeFails, Announced,
           ClientUp, Served, ServeFails, WifiChanges, BrokerChanges, SessionLost,
           LossNoticed
  <2>2. Elapsed(now, last) <= Interval /\ Elapsed(now, last) \in 0..(Wrap - 1)
    BY <2>1, ElapsedInRange, CommsAssumption DEF SkipAttempt, Due, RetryInv, TypeOK
  <2> QED
    BY <2>2, CommsAssumption DEF RetryInv, TypeOK, SkipBounded
<1> QED
  BY RetryInvHolds, <1>1, PTL DEF Spec, RetryPrompt

\* A step keeps the device from being deaf unknowingly.
LEMMA DeafStep ==
  ASSUME RetryInv, DeafIsKnown, [Next]_vars
  PROVE  DeafIsKnown'
<1>1. CASE LoopTask
  <2>1. CASE ConnectArrives
    BY <2>1 DEF ConnectArrives, RetryInv, AttemptNeedsNoClient, Attempting, DeafIsKnown
  <2>2. CASE BrokerAccepts \/ Subscribed \/ SubscribeFails \/ ServeFails
    BY <2>2 DEF BrokerAccepts, Subscribed, SubscribeFails, ServeFails, DeafIsKnown, link
  <2>3. CASE BrokerRefuses \/ ConnackLost \/ AlreadyJoined \/ Joined \/ JoinFails
    BY <2>3
    DEF BrokerRefuses, ConnackLost, AlreadyJoined, Joined, JoinFails, JoinReturns, link,
        RetryInv, AttemptNeedsNoClient, Attempting, TypeOK, DeafIsKnown
  <2>4. CASE \/ Connect \/ LoopCalled \/ LoopJoins \/ JoinWaits \/ WaitEnds
             \/ Attempt \/ SkipAttempt \/ Announced \/ ClientUp \/ Served
    BY <2>4
    DEF Connect, LoopCalled, LoopJoins, JoinWaits, WaitEnds, Attempt, SkipAttempt,
        Connected, Announced, ClientUp, Served, link, DeafIsKnown
  <2> QED
    BY <1>1, <2>1, <2>2, <2>3, <2>4 DEF LoopTask
<1>2. CASE Outside \/ Tick \/ UNCHANGED vars
  BY <1>2
  DEF Outside, Tick, DeafIsKnown, vars, link, WifiChanges, BrokerChanges, SessionLost,
      LossNoticed
<1>3. CASE Reset
  BY <1>3 DEF Reset, DeafIsKnown
<1> QED
  BY <1>1, <1>2, <1>3 DEF Next, Panic, PowerCycle

\* A client in a session without a subscription had its SUBSCRIBE fail, and the
\* status shows it, whatever session a late loss, a lost CONNACK or a restart had
\* left at the broker (mqtt_tls.cpp:158-195).
THEOREM DeafnessIsKnown == Spec => []DeafIsKnown
<1>1. Init => DeafIsKnown
  BY DEF Init, DeafIsKnown
<1>2. RetryInv /\ DeafIsKnown /\ [Next]_vars => DeafIsKnown'
  BY DeafStep
<1> QED
  BY RetryInvHolds, <1>1, <1>2, PTL DEF Spec
=============================================================================
