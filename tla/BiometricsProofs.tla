--------------------------- MODULE BiometricsProofs ---------------------------
(***************************************************************************)
(* Proofs about Biometrics for every set of fingers, every capacity and    *)
(* every id: what a match, an enrolment and a deletion answer is true of   *)
(* the finger and of the templates.                                        *)
(***************************************************************************)
EXTENDS Biometrics, Sequences, TLAPS

\* Where the finger of each image of the call is, at each step.
CallInv ==
  /\ step # "idle" => result = "none" /\ store = before
  /\ step \in {"matchConvert", "convert1"} => image = first
  /\ step = "matchSearch" => buf[1] = first
  /\ step \in {"matchConvert", "matchSearch"} => first \in Fingers
  /\ step \in {"convert1", "lift", "place2", "convert2", "combine", "store"} => first \in Fingers
  /\ step \in {"convert1", "lift"} /\ present = None => lifted
  /\ step \in {"lift", "place2", "convert2", "combine", "store"} => buf[1] = first
  /\ step \in {"place2", "convert2", "combine", "store"} => lifted
  /\ step = "convert2" => image = second
  /\ step \in {"combine", "store"} => buf[2] = second
  /\ step = "store" => buf[1] = buf[2]

\* The inductive invariant.
SensorInv == TypeOK /\ CallInv /\ MatchIsOfThisFinger /\ ResultIsTrue

LEMMA SensorInit == Init => SensorInv
<1> SUFFICES ASSUME Init PROVE SensorInv
  OBVIOUS
<1>1. lifted \in BOOLEAN
  BY Zenon DEF Init
<1>2. TypeOK
  BY <1>1, SensorAssumption DEF Init, TypeOK, Prints, Slots, EnrollSteps, Results
<1>3. CallInv /\ MatchIsOfThisFinger /\ ResultIsTrue
  BY DEF Init, CallInv, MatchIsOfThisFinger, ResultIsTrue
<1> QED
  BY <1>2, <1>3 DEF SensorInv

\* What the sensor commands leave in the sensor is of the right type.
LEMMA SensorTypes ==
  ASSUME TypeOK
  PROVE  /\ \A n \in 1..2 : Converted(n) \in [1..2 -> Prints]
         /\ [n \in 1..2 |-> None] \in [1..2 -> Prints]
         /\ \A loc : Emptied(loc) \in [Slots -> Prints]
         /\ Stored \in [Slots -> Prints]
<1>1. \A n \in 1..2 : Converted(n) \in [1..2 -> Prints]
  BY DEF TypeOK, Converted
<1>2. [n \in 1..2 |-> None] \in [1..2 -> Prints]
  BY DEF Prints
<1>3. \A loc : Emptied(loc) \in [Slots -> Prints]
  <2> SUFFICES ASSUME NEW loc PROVE Emptied(loc) \in [Slots -> Prints]
    OBVIOUS
  <2> QED
    BY DEF TypeOK, Emptied, Prints
<1>4. Stored \in [Slots -> Prints]
  <2>1. buf[1] \in Prints /\ store \in [Slots -> Prints]
    BY DEF TypeOK
  <2> QED
    BY <2>1 DEF Stored
<1> QED
  BY <1>1, <1>2, <1>3, <1>4

LEMMA SensorTypeStep ==
  ASSUME SensorInv, [Next]_vars
  PROVE  TypeOK'
<1>1. TypeOK
  BY DEF SensorInv
<1> USE DEF TypeOK
<1>2. CASE FingerPlaced \/ FingerLifted \/ UNCHANGED vars
  <2>1. lifted' \in BOOLEAN
    BY <1>1, <1>2, Zenon DEF FingerPlaced, FingerLifted, vars, history
  <2>2. present' \in Prints
    BY <1>1, <1>2 DEF FingerPlaced, FingerLifted, vars, Prints
  <2>3. UNCHANGED <<sensorVars, callVars, first, second, before>>
    BY <1>2, Zenon DEF FingerPlaced, FingerLifted, vars, history
  <2> QED
    BY <1>1, <2>1, <2>2, <2>3 DEF sensorVars, callVars
<1>3. CASE Match
  <2>1. lifted' \in BOOLEAN
    BY <1>1, <1>3, Zenon
    DEF Match, history, MatchCaptures, Called, MatchFindsNoFinger, MatchGetsNoImage,
        MatchConverts, MatchDoesNotConvert, MatchFinds, MatchFindsNothing
  <2>2. present' \in Prints /\ image' \in Prints /\ buf' \in [1..2 -> Prints] /\ store' = store
    BY <1>1, <1>3, SensorTypes
    DEF Match, sensorVars, MatchCaptures, Called, ImageTaken, ImageDoubtful,
        MatchFindsNoFinger, MatchGetsNoImage, MatchConverts, MatchDoesNotConvert, MatchFinds,
        MatchFindsNothing, Prints
  <2> QED
    BY <1>1, <1>3, <2>1, <2>2
    DEF Match, history, sensorVars, MatchCaptures, Called, Return, MatchFindsNoFinger,
        MatchGetsNoImage, MatchConverts, MatchDoesNotConvert, MatchFinds, MatchFindsNothing,
        Prints, EnrollSteps, Results, Slots
<1>4. CASE EnrollCalled
  <2>1. lifted' \in BOOLEAN
    BY <1>4, Zenon DEF EnrollCalled, Called
  <2>2. id' \in Slots
    BY <1>4, SensorAssumption DEF EnrollCalled, Called, Slots
  <2> QED
    BY <1>1, <1>4, <2>1, <2>2, SensorAssumption
    DEF EnrollCalled, Called, sensorVars, Prints, EnrollSteps, Results, Slots
<1>5. CASE Enroll /\ ~EnrollCalled
  <2>1. lifted' \in BOOLEAN
    BY <1>1, <1>5, Zenon
    DEF Enroll, EnrollStep, history, Place1, LiftAwaited, LiftSeen, Place2, PlaceFails,
        Convert1, Convert2, ConvertFails, Combine, CombineFails, Store, StoreFails, EnrollFails
  <2>2. present' \in Prints /\ image' \in Prints /\ buf' \in [1..2 -> Prints]
        /\ store' \in [Slots -> Prints]
    BY <1>1, <1>5, SensorTypes
    DEF Enroll, EnrollStep, sensorVars, Place1, LiftAwaited, LiftSeen, Place2, PlaceFails,
        Convert1, Convert2, ConvertFails, Combine, CombineFails, Store, StoreFails,
        EnrollFails, Moves, ImageTaken, ImageDoubtful, Prints
  <2>3. id' = id /\ matched' = matched /\ before' = before
    BY <1>5
    DEF Enroll, EnrollStep, callVars, history, Place1, LiftAwaited, LiftSeen, Place2,
        PlaceFails, Convert1, Convert2, ConvertFails, Combine, CombineFails, Store,
        StoreFails, EnrollFails, Moves
  <2>4. first' \in Prints /\ second' \in Prints
    BY <1>1, <1>5
    DEF Enroll, EnrollStep, history, Place1, LiftAwaited, LiftSeen, Place2, PlaceFails,
        Convert1, Convert2, ConvertFails, Combine, CombineFails, Store, StoreFails,
        EnrollFails, ImageTaken, Prints
  <2>5. /\ step \in EnrollSteps
        /\ step' \in EnrollSteps \cup {"idle"}
        /\ result' \in Results
        /\ endedAt' \in EnrollSteps \cup {"idle", "matchConvert", "matchSearch"}
    BY <1>1, <1>5
    DEF Enroll, EnrollStep, callVars, Place1, LiftAwaited, LiftSeen, Place2, PlaceFails,
        Convert1, Convert2, ConvertFails, Combine, CombineFails, Store, StoreFails,
        EnrollFails, Return, Moves, EnrollSteps, Results
  <2> QED
    BY <1>1, <2>1, <2>2, <2>3, <2>4, <2>5
<1>6. CASE Deletes \/ DeleteFails
  <2>1. lifted' \in BOOLEAN
    BY <1>6, Zenon DEF Deletes, DeleteFails, DeleteCalled, Called
  <2> QED
    BY <1>1, <1>6, <2>1, SensorTypes, SensorAssumption
    DEF Deletes, DeleteFails, DeleteCalled, Called, Prints, EnrollSteps, Results
<1>7. CASE Restart
  <2>1. lifted' \in BOOLEAN
    BY <1>1, <1>7, Zenon DEF Restart, history
  <2>2. store' \in [Slots -> Prints]
    BY <1>1, <1>7, SensorTypes DEF Restart
  <2>3. image' \in Prints /\ buf' \in [1..2 -> Prints]
    BY <1>1, <1>7, SensorTypes DEF Restart, Prints
  <2> QED
    BY <1>1, <1>7, <2>1, <2>2, <2>3 DEF Restart, history, EnrollSteps, Results, Prints
<1> QED
  BY <1>2, <1>3, <1>4, <1>5, <1>6, <1>7 DEF Next

LEMMA CallStep ==
  ASSUME SensorInv, [Next]_vars
  PROVE  CallInv'
<1>1. TypeOK /\ CallInv
  BY DEF SensorInv
<1>2. CASE UNCHANGED vars
  BY <1>1, <1>2, Zenon DEF CallInv, vars, sensorVars, callVars, history
<1>3. CASE FingerPlaced
  BY <1>1, <1>3, SensorAssumption
  DEF TypeOK, CallInv, FingerPlaced, sensorVars, callVars, history
<1>4. CASE FingerLifted
  <2>1. lifted' /\ UNCHANGED <<sensorVars, callVars, first, second, before>>
    BY <1>4, Zenon DEF FingerLifted
  <2> QED
    BY <1>1, <2>1 DEF CallInv, sensorVars, callVars
<1>5. CASE Match
  <2>1. step' # "idle" =>
          /\ step' \in {"matchConvert", "matchSearch"}
          /\ result' = "none" /\ store' = before'
          /\ first' \in Fingers
          /\ step' = "matchConvert" => image' = first'
          /\ step' = "matchSearch" => buf'[1] = first'
    BY <1>1, <1>5, SensorAssumption
    DEF TypeOK, CallInv, Match, history, sensorVars, MatchCaptures, Called, Return,
        ImageTaken, MatchFindsNoFinger, MatchGetsNoImage, MatchConverts, Converted,
        MatchDoesNotConvert, MatchFinds, MatchFindsNothing, Prints
  <2> QED
    BY <2>1 DEF CallInv
<1>6. CASE EnrollCalled
  BY <1>1, <1>6 DEF CallInv, EnrollCalled, Called, sensorVars
<1>7. CASE Place1 \/ Convert1 \/ LiftAwaited
  <2>1. CASE Place1
    BY <1>1, <2>1, SensorAssumption DEF TypeOK, CallInv, Place1, Moves, ImageTaken, Prints
  <2>2. CASE Convert1
    <3>1. buf'[1] = image
      BY <1>1, <2>2 DEF TypeOK, Convert1, Converted
    <3>2. /\ step = "convert1" /\ step' = "lift"
          /\ UNCHANGED <<present, store, result, before, image, first, second, lifted>>
      BY <2>2, Zenon DEF Convert1, Moves
    <3> QED
      BY <1>1, <3>1, <3>2 DEF CallInv
  <2>3. CASE LiftAwaited
    <3>1. step = "lift" /\ UNCHANGED <<present, buf, store, callVars, history>>
      BY <2>3, Zenon DEF LiftAwaited
    <3> QED
      BY <1>1, <3>1 DEF CallInv, callVars, history
  <2> QED
    BY <1>7, <2>1, <2>2, <2>3
<1>8. CASE LiftSeen \/ Place2
  <2>1. CASE LiftSeen
    <3>1. /\ step = "lift" /\ step' = "place2" /\ present = None
          /\ UNCHANGED <<present, store, result, before, image, buf, first, second, lifted>>
      BY <2>1, Zenon DEF LiftSeen, Moves
    <3>2. lifted
      BY <1>1, <3>1, Zenon DEF CallInv
    <3> QED
      BY <1>1, <3>1, <3>2 DEF CallInv
  <2>2. CASE Place2
    <3>1. /\ step = "place2" /\ step' = "convert2" /\ second' = present /\ image' = present
          /\ UNCHANGED <<present, store, result, before, buf, first, lifted>>
      BY <2>2, Zenon DEF Place2, Moves, ImageTaken
    <3> QED
      BY <1>1, <3>1 DEF CallInv
  <2> QED
    BY <1>8, <2>1, <2>2
<1>9. CASE Convert2 \/ Combine
  <2>1. CASE Convert2
    <3>1. buf'[1] = buf[1] /\ buf'[2] = image
      BY <1>1, <2>1 DEF TypeOK, Convert2, Converted
    <3>2. /\ step = "convert2" /\ step' = "combine"
          /\ UNCHANGED <<present, store, result, before, image, first, second, lifted>>
      BY <2>1, Zenon DEF Convert2, Moves
    <3> QED
      BY <1>1, <3>1, <3>2 DEF CallInv
  <2>2. CASE Combine
    <3>1. /\ step = "combine" /\ step' = "store" /\ buf[1] = buf[2]
          /\ UNCHANGED <<present, store, result, before, image, buf, first, second, lifted>>
      BY <2>2, Zenon DEF Combine, Moves
    <3> QED
      BY <1>1, <3>1 DEF CallInv
  <2> QED
    BY <1>9, <2>1, <2>2
<1>10. CASE PlaceFails \/ ConvertFails \/ CombineFails \/ Store \/ StoreFails
            \/ Deletes \/ DeleteFails \/ Restart
  <2>1. step' = "idle"
    BY <1>10
    DEF PlaceFails, ConvertFails, CombineFails, Store, StoreFails, EnrollFails, Return,
        Deletes, DeleteFails, DeleteCalled, Called, Restart
  <2> QED
    BY <2>1 DEF CallInv
<1> QED
  BY <1>2, <1>3, <1>4, <1>5, <1>6, <1>7, <1>8, <1>9, <1>10 DEF Next, Enroll, EnrollStep

\* Only an enrolment's last command and a deletion change the store; and what a call
\* returned stands until the next call.
LEMMA MatchStep ==
  ASSUME SensorInv, [Next]_vars
  PROVE  MatchIsOfThisFinger'
<1>1. TypeOK /\ CallInv /\ MatchIsOfThisFinger
  BY DEF SensorInv
<1> SUFFICES ASSUME result' = "MATCH_SUCCESS"
             PROVE  first' \in Fingers /\ matched' \in Slots /\ store'[matched'] = first'
  BY DEF MatchIsOfThisFinger
<1>2. CASE MatchFinds
  BY <1>1, <1>2 DEF CallInv, MatchFinds, sensorVars, history
<1>3. CASE ~MatchFinds
  <2>1. result = "MATCH_SUCCESS" /\ UNCHANGED <<first, matched, store>>
    <3>1. CASE FingerPlaced \/ FingerLifted \/ UNCHANGED vars
      BY <3>1 DEF FingerPlaced, FingerLifted, vars, sensorVars, callVars, history
    <3>2. CASE Match
      BY <1>1, <1>3, <3>2
      DEF CallInv, Match, MatchCaptures, Called, Return, MatchFindsNoFinger,
          MatchGetsNoImage, MatchConverts, MatchDoesNotConvert, MatchFindsNothing
    <3>3. CASE Enroll
      BY <1>1, <3>3
      DEF CallInv, Enroll, EnrollStep, callVars, EnrollCalled, Place1, LiftAwaited, LiftSeen,
          Place2, PlaceFails, Convert1, Convert2, ConvertFails, Combine, CombineFails, Store,
          StoreFails, EnrollFails, Called, Return, Moves
    <3>4. CASE Deletes \/ DeleteFails \/ Restart
      BY <3>4 DEF Deletes, DeleteFails, Restart
    <3> QED
      BY <3>1, <3>2, <3>3, <3>4 DEF Next
  <2> QED
    BY <1>1, <2>1 DEF MatchIsOfThisFinger
<1> QED
  BY <1>2, <1>3

\* An id that fits into 16 bits is its own location.
LEMMA LocationOfSmallId ==
  ASSUME NEW i \in Nat, i < Locations
  PROVE  Location(i) = i
<1>1. Locations \in Nat
  BY SensorAssumption
<1>2. i % Locations = i
  BY <1>1
<1> QED
  BY <1>2 DEF Location

LEMMA ResultStep ==
  ASSUME SensorInv, [Next]_vars
  PROVE  ResultIsTrue'
<1>1. TypeOK /\ CallInv /\ ResultIsTrue
  BY DEF SensorInv
<1>2. CASE FingerPlaced \/ FingerLifted \/ UNCHANGED vars
  <2>1. UNCHANGED <<step, result, id, first, store, before, endedAt>>
    BY <1>2 DEF FingerPlaced, FingerLifted, vars, sensorVars, callVars, history
  <2> QED
    BY <1>1, <2>1, Zenon DEF ResultIsTrue
<1>3. CASE Match \/ Restart
  <2>1. step' = "idle" => result' \in {"none", "NO_FINGER", "SENSOR_ERROR", "MATCH_FAIL",
                                      "MATCH_SUCCESS"}
    BY <1>3
    DEF Match, Restart, MatchCaptures, Called, Return, MatchFindsNoFinger,
        MatchGetsNoImage, MatchConverts, MatchDoesNotConvert, MatchFinds, MatchFindsNothing
  <2> QED
    BY <2>1 DEF ResultIsTrue
<1>4. CASE Enroll /\ ~Store /\ ~StoreFails
  <2>1. step' = "idle" =>
          step # "idle" /\ result' = "ENROLL_FAIL" /\ store' = store /\ before' = before
    BY <1>4
    DEF Enroll, EnrollStep, callVars, sensorVars, history, EnrollCalled, Place1, LiftAwaited,
        LiftSeen, Place2, PlaceFails, Convert1, Convert2, ConvertFails, Combine,
        CombineFails, EnrollFails, Called, Return, Moves
  <2> QED
    BY <1>1, <2>1 DEF CallInv, ResultIsTrue
<1>5. CASE Store
  <2>1. store' = [before EXCEPT ![id] = first] /\ first \in Fingers
    BY <1>1, <1>5 DEF CallInv, Store, Stored
  <2> QED
    BY <1>5, <2>1, SensorAssumption DEF ResultIsTrue, Store, Return, history
<1>6. CASE StoreFails
  <2>1. Stored = [before EXCEPT ![id] = first] /\ store = before
    BY <1>1, <1>6 DEF CallInv, StoreFails, Stored
  <2>2. Emptied(id) = [before EXCEPT ![id] = None]
    BY <1>1, <2>1 DEF TypeOK, Emptied
  <2>3. store' = before \/ \E t \in {None, first} : store' = [before EXCEPT ![id] = t]
    BY <1>6, <2>1, <2>2 DEF StoreFails
  <2>4. /\ result' = "ENROLL_FAIL" /\ endedAt' = "store"
        /\ UNCHANGED <<id, first, before>>
    BY <1>6 DEF StoreFails, EnrollFails, Return, history
  <2> QED
    BY <2>3, <2>4 DEF ResultIsTrue
<1>7. CASE Deletes \/ DeleteFails
  <2>0. \A i \in Ids : i \in Nat
    BY SensorAssumption
  <2>1. /\ before' = store /\ id' \in Nat
        /\ \/ /\ result' = "DELETE_SUCCESS"
              /\ store' = Emptied(Location(id')) /\ Location(id') \in Slots
           \/ result' = "DELETE_FAIL" /\ store' = store
           \/ result' = "SENSOR_ERROR"
    BY <1>7, <2>0 DEF Deletes, DeleteFails, DeleteCalled, Called
  <2>2. id' < Locations => Location(id') = id'
    BY <2>1, LocationOfSmallId
  <2>3. Emptied(id') = [store EXCEPT ![id'] = None]
    BY <1>1 DEF TypeOK, Emptied
  <2> QED
    BY <2>1, <2>2, <2>3 DEF ResultIsTrue
<1> QED
  BY <1>2, <1>3, <1>4, <1>5, <1>6, <1>7 DEF Next

LEMMA SensorInductive == Spec => []SensorInv
<1>1. SensorInv /\ [Next]_vars => SensorInv'
  BY SensorTypeStep, CallStep, MatchStep, ResultStep DEF SensorInv
<1> QED
  BY SensorInit, <1>1, PTL DEF Spec

\* Every variable of the fingerprint driver keeps its type.
THEOREM SensorTypeCorrect == Spec => []TypeOK
<1>1. SensorInv => TypeOK
  BY DEF SensorInv
<1> QED
  BY SensorInductive, <1>1, PTL

\* getFingerprintMatch succeeds only with a template of the finger it has just seen.
THEOREM MatchesAreOfThisFinger == Spec => []MatchIsOfThisFinger
<1>1. SensorInv => MatchIsOfThisFinger
  BY DEF SensorInv
<1> QED
  BY SensorInductive, <1>1, PTL

\* What enrollFingerprint returns, and deleteFingerprint of an id of 16 bits, is true
\* of the template asked for.
THEOREM ResultsAreTrue == Spec => []ResultIsTrue
<1>1. SensorInv => ResultIsTrue
  BY DEF SensorInv
<1> QED
  BY SensorInductive, <1>1, PTL

\* A template comes from two presentations of one finger and from nothing else.
THEOREM EveryTemplateIsEarned == Spec => TemplatesAreEarned
<1> DEFINE A == \A i \in Slots : store'[i] \notin {None, store[i]} =>
                  /\ step = "store" /\ i = id
                  /\ first = store'[i] /\ second = store'[i]
                  /\ lifted
<1>1. SensorInv /\ [Next]_vars => [A]_vars
  <2> SUFFICES ASSUME SensorInv, Next, NEW i \in Slots, store'[i] \notin {None, store[i]}
               PROVE  /\ step = "store" /\ i = id
                      /\ first = store'[i] /\ second = store'[i]
                      /\ lifted
    BY DEF vars
  <2>1. TypeOK /\ CallInv
    BY DEF SensorInv
  <2>2. \A loc : Emptied(loc)[i] \in {None, store[i]}
    BY DEF Emptied
  <2>3. step = "store" /\ store' = Stored
    <3>1. CASE FingerPlaced \/ FingerLifted \/ Match
      BY <3>1
      DEF FingerPlaced, FingerLifted, Match, sensorVars, MatchCaptures, MatchFindsNoFinger,
          MatchGetsNoImage, MatchConverts, MatchDoesNotConvert, MatchFinds, MatchFindsNothing
    <3>2. CASE Enroll
      BY <2>2, <3>2
      DEF Enroll, EnrollStep, sensorVars, EnrollCalled, Place1, LiftAwaited, LiftSeen, Place2,
          PlaceFails, Convert1, Convert2, ConvertFails, Combine, CombineFails, Store,
          StoreFails, Moves
    <3>3. CASE Deletes \/ DeleteFails
      BY <2>2, <3>3 DEF Deletes, DeleteFails
    <3>4. CASE Restart
      BY <3>4 DEF Restart
    <3> QED
      BY <3>1, <3>2, <3>3, <3>4 DEF Next
  <2>4. i = id /\ store'[i] = buf[1]
    BY <2>1, <2>3 DEF TypeOK, Stored
  <2>5. buf[1] = first /\ buf[2] = second /\ buf[1] = buf[2]
    BY <2>1, <2>3 DEF CallInv
  <2>6. lifted
    BY <2>1, <2>3, Zenon DEF CallInv
  <2> QED
    BY <2>3, <2>4, <2>5, <2>6
<1> QED
  BY SensorInductive, <1>1, PTL DEF Spec, TemplatesAreEarned
-----------------------------------------------------------------------------
(* The driver implements TemplateStore.                                    *)

LEMMA ReaderInit == Init => Reader!Init
<1> SUFFICES ASSUME Init PROVE Reader!Init
  OBVIOUS
<1>1. Pending = {} /\ Presses = <<>> /\ Answer = {}
  BY DEF Init, Pending, Presses, Answer, EnrollSteps
<1>2. LiftedSince = FALSE
  BY <1>1, Zenon DEF LiftedSince
<1> QED
  BY <1>1, <1>2 DEF Init, Reader!Init

\* Between two calls nothing is pending; without a match there is no answer.
LEMMA ReaderReturns ==
  /\ step' = "idle" => Pending' = {} /\ Presses' = <<>> /\ LiftedSince' = FALSE
  /\ result' # "MATCH_SUCCESS" => Answer' = {}
<1>1. step' = "idle" => Pending' = {} /\ Presses' = <<>>
  BY DEF Pending, Presses, EnrollSteps
<1>2. step' = "idle" => LiftedSince' = FALSE
  BY <1>1, Zenon DEF LiftedSince
<1> QED
  BY <1>1, <1>2 DEF Answer

\* A call that returns without a match and without a template gives up.
LEMMA ReaderGivesUp ==
  ASSUME step' = "idle", result' # "MATCH_SUCCESS", store' = store, present' = present
  PROVE  Reader!GiveUp
  BY ReaderReturns DEF Reader!GiveUp, Reader!Over

\* The steps of the user, and of a match.
LEMMA ReaderMatchStep ==
  ASSUME SensorInv, FingerPlaced \/ FingerLifted \/ Match
  PROVE  [Reader!Next]_(Reader!vars)
<1>1. TypeOK /\ CallInv
  BY DEF SensorInv
<1>2. CASE FingerPlaced
  <2>1. UNCHANGED <<store, Pending, Presses, LiftedSince, Answer>>
    BY <1>2 DEF FingerPlaced, sensorVars, callVars, history, Pending, Presses, LiftedSince, Answer
  <2> QED
    BY <1>2, <2>1 DEF FingerPlaced, Reader!Put, Reader!Next
<1>3. CASE FingerLifted
  <2>1. UNCHANGED <<store, Pending, Presses, Answer>>
    BY <1>3 DEF FingerLifted, sensorVars, callVars, Pending, Presses, Answer
  <2>2. LiftedSince' = (Presses # <<>>)
    BY <1>3, <2>1, Zenon DEF FingerLifted, LiftedSince
  <2> QED
    BY <1>3, <2>1, <2>2 DEF FingerLifted, Reader!Lift, Reader!Next
<1>4. CASE MatchCaptures
  <2>1. /\ Pending = {} /\ Pending' = {}
        /\ Presses = <<>> /\ Presses' = <<present>>
        /\ Answer' = {}
    BY <1>4 DEF MatchCaptures, Called, Pending, Presses, Answer, EnrollSteps
  <2>2. LiftedSince' = FALSE
    BY <1>4, Zenon DEF MatchCaptures, Called, LiftedSince
  <2> QED
    BY <1>4, <2>1, <2>2 DEF MatchCaptures, ImageTaken, Reader!Press, Reader!Next
<1>5. CASE MatchFindsNoFinger \/ MatchGetsNoImage \/ MatchDoesNotConvert \/ MatchFindsNothing
  <2>1. step' = "idle" /\ result' # "MATCH_SUCCESS" /\ store' = store /\ present' = present
    BY <1>5 DEF MatchFindsNoFinger, MatchGetsNoImage, MatchDoesNotConvert, MatchFindsNothing,
                Return, sensorVars
  <2> QED
    BY <2>1, ReaderGivesUp DEF Reader!Next
<1>6. CASE MatchConverts
  <2>1. UNCHANGED <<store, present, Pending, Presses, Answer>>
    BY <1>6 DEF MatchConverts, history, Pending, Presses, Answer, EnrollSteps
  <2>2. LiftedSince' = LiftedSince
    BY <1>6, <2>1 DEF MatchConverts, history, LiftedSince
  <2> QED
    BY <2>1, <2>2 DEF Reader!vars
<1>7. CASE MatchFinds
  <2>1. Pending = {} /\ Presses = <<first>>
    BY <1>7 DEF MatchFinds, Pending, Presses, EnrollSteps
  <2>2. PICK i \in Slots : store[i] = buf[1] /\ matched' = i
    BY <1>7 DEF MatchFinds
  <2>3. store[i] = first
    BY <1>1, <1>7, <2>2 DEF CallInv, MatchFinds
  <2>4. step' = "idle" /\ Answer' = {i} /\ store' = store /\ present' = present
    BY <1>7, <2>2 DEF MatchFinds, Return, sensorVars, Answer
  <2>5. Reader!Over
    BY <2>4, ReaderReturns DEF Reader!Over
  <2> QED
    BY <2>1, <2>3, <2>4, <2>5 DEF Reader!Recognise, Reader!Next
<1> QED
  BY <1>2, <1>3, <1>4, <1>5, <1>6, <1>7 DEF Match
\* The last command of an enrolment writes its slot, leaves it empty, or gives up.
LEMMA ReaderStores ==
  ASSUME SensorInv, step = "store", step' = "idle", result' # "MATCH_SUCCESS",
         store' \in {store, Emptied(id), Stored}, present' = present
  PROVE  [Reader!Next]_(Reader!vars)
<1>1. TypeOK /\ CallInv
  BY DEF SensorInv
<1>2. CASE store' = store
  BY <1>2, ReaderGivesUp DEF Reader!Next
<1>3. CASE store' \in {Emptied(id), Stored}
  <2>1. id \in Pending /\ Presses = <<first, second>>
    BY DEF Pending, Presses, EnrollSteps
  <2>2. first = second /\ buf[1] = first
    BY <1>1 DEF CallInv
  <2>3. store' = [store EXCEPT ![id] = None] \/ store' = [store EXCEPT ![id] = first]
    BY <1>1, <1>3, <2>2 DEF TypeOK, Emptied, Stored
  <2>4. Reader!Over /\ Answer' = {}
    BY ReaderReturns DEF Reader!Over
  <2>5. Len(Presses) = 2 /\ Presses[1] = first /\ Presses[2] = second
    BY <2>1
  <2> QED
    BY <2>1, <2>2, <2>3, <2>4, <2>5 DEF Reader!Write, Reader!Next
<1> QED
  BY <1>2, <1>3

\* The steps of an enrolment.
LEMMA ReaderEnrollStep ==
  ASSUME SensorInv, Enroll
  PROVE  [Reader!Next]_(Reader!vars)
<1>1. TypeOK /\ CallInv
  BY DEF SensorInv
<1>2. CASE EnrollCalled
  <2>1. Pending = {} /\ Presses = <<>> /\ Presses' = <<>> /\ Answer' = {}
    BY <1>2 DEF EnrollCalled, Called, Pending, Presses, Answer, EnrollSteps
  <2>2. Pending' = {id'} /\ id' \in Slots
    BY <1>2, SensorAssumption DEF EnrollCalled, Called, Pending, EnrollSteps, Slots
  <2>3. LiftedSince' = LiftedSince
    BY <2>1, Zenon DEF LiftedSince
  <2> QED
    BY <1>2, <2>1, <2>2, <2>3 DEF EnrollCalled, sensorVars, Reader!Begin, Reader!Next
<1>3. CASE Place1
  <2>1. Presses = <<>> /\ Presses' = <<present>> /\ Pending' = Pending
    BY <1>3 DEF Place1, Moves, Presses, Pending, EnrollSteps
  <2>2. Answer' = {}
    BY <1>1, <1>3 DEF Place1, Moves, CallInv, Answer
  <2>3. LiftedSince' = FALSE
    BY <1>3, Zenon DEF Place1, LiftedSince
  <2> QED
    BY <1>3, <2>1, <2>2, <2>3 DEF Place1, Moves, ImageTaken, Reader!Press, Reader!Next
<1>4. CASE Place2
  <2>1. /\ Presses = <<first>> /\ Presses' = <<first, present>>
        /\ Pending' = Pending /\ Pending # {}
    BY <1>4 DEF Place2, Moves, Presses, Pending, EnrollSteps
  <2>2. Answer' = Answer
    BY <1>4 DEF Place2, Moves, Answer
  <2>3. lifted /\ lifted'
    BY <1>1, <1>4, Zenon DEF Place2, Moves, CallInv
  <2>4. LiftedSince /\ LiftedSince' = LiftedSince
    BY <2>1, <2>3 DEF LiftedSince
  <2> QED
    BY <1>4, <2>1, <2>2, <2>4 DEF Place2, Moves, ImageTaken, Reader!PressAgain, Reader!Next
<1>5. CASE LiftAwaited \/ Convert1 \/ LiftSeen \/ Convert2 \/ Combine
  <2>1. UNCHANGED <<store, present, Pending, Presses, Answer>>
    BY <1>5 DEF LiftAwaited, Convert1, LiftSeen, Convert2, Combine, Moves, callVars, history,
                Pending, Presses, Answer, EnrollSteps
  <2>2. lifted' = lifted
    BY <1>5 DEF LiftAwaited, Convert1, LiftSeen, Convert2, Combine, history
  <2>3. LiftedSince' = LiftedSince
    BY <2>1, <2>2 DEF LiftedSince
  <2> QED
    BY <2>1, <2>3 DEF Reader!vars
<1>6. CASE PlaceFails \/ ConvertFails \/ CombineFails
  <2>1. step' = "idle" /\ result' # "MATCH_SUCCESS" /\ store' = store /\ present' = present
    BY <1>6 DEF PlaceFails, ConvertFails, CombineFails, EnrollFails, Return, sensorVars
  <2> QED
    BY <2>1, ReaderGivesUp DEF Reader!Next
<1>7. CASE Store \/ StoreFails
  BY <1>7, ReaderStores DEF Store, StoreFails, EnrollFails, Return
<1> QED
  BY <1>2, <1>3, <1>4, <1>5, <1>6, <1>7 DEF Enroll, EnrollStep

\* A deletion empties the slot its lower bits name, or none.
LEMMA ReaderDeleteStep ==
  ASSUME SensorInv, Deletes \/ DeleteFails
  PROVE  [Reader!Next]_(Reader!vars)
<1>1. TypeOK
  BY DEF SensorInv
<1>2. PICK i \in Ids : DeleteCalled(i) /\ store' \in {store, Emptied(Location(i))}
  BY DEF Deletes, DeleteFails
<1>3. /\ step = "idle" /\ step' = "idle" /\ present' = present
      /\ result' # "MATCH_SUCCESS"
  BY <1>2 DEF DeleteCalled, Called, Deletes, DeleteFails
<1>4. CASE store' = store
  BY <1>3, <1>4, ReaderGivesUp DEF Reader!Next
<1>5. CASE Location(i) \notin Slots /\ store' = Emptied(Location(i))
  <2>1. store' = store
    BY <1>1, <1>5 DEF TypeOK, Emptied
  <2> QED
    BY <1>3, <2>1, ReaderGivesUp DEF Reader!Next
<1>6. CASE Location(i) \in Slots /\ store' = Emptied(Location(i))
  <2>1. store' = [store EXCEPT ![Location(i)] = None]
    BY <1>1, <1>6 DEF TypeOK, Emptied
  <2>2. Pending = {} /\ Presses = <<>>
    BY <1>3 DEF Pending, Presses, EnrollSteps
  <2>3. LiftedSince = FALSE
    BY <2>2, Zenon DEF LiftedSince
  <2>4. Pending' = {} /\ Presses' = <<>> /\ LiftedSince' = FALSE /\ Answer' = {}
    BY <1>3, ReaderReturns
  <2> QED
    BY <1>3, <1>6, <2>1, <2>2, <2>3, <2>4 DEF Reader!Delete, Reader!Next
<1> QED
  BY <1>2, <1>4, <1>5, <1>6

LEMMA ReaderStep == SensorInv /\ [Next]_vars => [Reader!Next]_(Reader!vars)
<1> SUFFICES ASSUME SensorInv, [Next]_vars PROVE [Reader!Next]_(Reader!vars)
  OBVIOUS
<1>1. CASE Restart
  <2>1. /\ step' = "idle" /\ result' # "MATCH_SUCCESS" /\ present' = present
        /\ (store' = store) \/ (step = "store" /\ store' = Stored)
    BY <1>1 DEF Restart
  <2> QED
    BY <2>1, ReaderStores, ReaderGivesUp DEF Reader!Next
<1>2. CASE UNCHANGED vars
  <2>1. UNCHANGED <<store, present, Pending, Presses, Answer>>
    BY <1>2 DEF vars, sensorVars, callVars, history, Pending, Presses, Answer
  <2>2. LiftedSince' = LiftedSince
    BY <1>2, <2>1 DEF vars, history, LiftedSince
  <2> QED
    BY <2>1, <2>2 DEF Reader!vars
<1> QED
  BY <1>1, <1>2, ReaderMatchStep, ReaderEnrollStep, ReaderDeleteStep DEF Next

\* Whatever is lost or reset, the driver and the sensor do what TemplateStore allows.
THEOREM ImplementsTemplateStore == Spec => ReaderSafe
  BY SensorInductive, ReaderInit, ReaderStep, PTL DEF Spec, ReaderSafe, Reader!Spec
=============================================================================
