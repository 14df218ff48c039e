------------------------------ MODULE Biometrics ------------------------------
(***************************************************************************)
(* The fingerprint driver (drivers/biometrics.cpp) and its callers in      *)
(* main.cpp, one action per sensor command with each answer the driver     *)
(* tells apart, the lost one included: the sensor may have obeyed a        *)
(* command whose reply is lost.                                            *)
(*                                                                         *)
(* The sensor (external) has an image buffer, two character buffers and a  *)
(* store of templates; of an image or a template the model keeps the       *)
(* finger it shows.  A restart of the ESP32 leaves the sensor as it is,    *)
(* unless that loses power too.                                            *)
(***************************************************************************)
EXTENDS Integers

CONSTANTS
  Fingers,
  None,       \* no finger, no image, no template
  Capacity,   \* finger.capacity
  Locations,  \* 2^16: the sensor's commands carry a location of 16 bits
  Ids         \* the "id" a command from the server may have, missing ones aside

ASSUME SensorAssumption ==
  /\ None \notin Fingers
  /\ Capacity \in Nat /\ Locations \in Nat
  /\ 0 < Capacity /\ Capacity <= Locations
  /\ Ids \subseteq Nat

Slots == 0..(Capacity - 1)
Prints == Fingers \cup {None}
EnrollSteps == {"place1", "convert1", "lift", "place2", "convert2", "combine", "store"}
Results == {"none", "NO_FINGER", "SENSOR_ERROR", "MATCH_FAIL", "MATCH_SUCCESS",
            "ENROLL_FAIL", "ENROLL_STEP2_OK", "DELETE_FAIL", "DELETE_SUCCESS"}

VARIABLES
  present,  \* the finger on the sensor
  image,    \* image buffer
  buf,      \* CharBuffer1 and CharBuffer2
  store,    \* the templates, kept in flash
  step,     \* the command the driver is about to send, or idle
  id,       \* the argument of the call
  result,   \* what the last call returned
  matched,  \* matchedId
  \* History of the call: the fingers whose image it took, whether the sensor was
  \* left empty since the first, the templates before it, and its last command.
  first, second, lifted, before, endedAt

sensorVars == <<image, buf, store>>
callVars == <<step, id, result, matched, endedAt>>
history == <<first, second, lifted, before>>
vars == <<present, sensorVars, callVars, history>>

-----------------------------------------------------------------------------
Init ==
  /\ present = None
  /\ image = None
  /\ buf = [n \in 1..2 |-> None]
  /\ store = [i \in Slots |-> None]
  /\ step = "idle"
  /\ id = 0
  /\ result = "none"
  /\ matched = None
  /\ first = None /\ second = None
  /\ lifted = FALSE
  /\ before = store
  /\ endedAt = "idle"

FingerPlaced ==
  /\ present = None
  /\ present' \in Fingers
  /\ UNCHANGED <<sensorVars, callVars, history>>

FingerLifted ==
  /\ present # None
  /\ present' = None
  /\ lifted' = TRUE
  /\ UNCHANGED <<sensorVars, callVars, first, second, before>>

-----------------------------------------------------------------------------
(* Sensor commands.                                                        *)

\* getImage answers OK.
ImageTaken ==
  /\ present # None
  /\ image' = present

\* getImage answers with an error, or its reply is lost.
ImageDoubtful == image' \in {image, present, None}

\* image2Tz(n) has been obeyed.
Converted(n) == [buf EXCEPT ![n] = image]

Emptied(loc) == [i \in Slots |-> IF i = loc THEN None ELSE store[i]]
Stored == [store EXCEPT ![id] = buf[1]]

Called(i) ==
  /\ step = "idle"
  /\ id' = i
  /\ matched' = None
  /\ before' = store
  /\ second' = None
  /\ lifted' = FALSE
  /\ endedAt' = "idle"

Return(r) ==
  /\ step' = "idle"
  /\ result' = r
  /\ endedAt' = step

-----------------------------------------------------------------------------
(* getFingerprintMatch, from loop() in IDLE.                               *)

MatchCaptures ==
  /\ Called(0)
  /\ ImageTaken
  /\ first' = present
  /\ result' = "none"
  /\ step' = "matchConvert"
  /\ UNCHANGED <<present, buf, store>>

MatchFindsNoFinger ==
  /\ step = "idle"
  /\ present = None
  /\ Return("NO_FINGER")
  /\ UNCHANGED <<present, sensorVars, id, matched, history>>

MatchGetsNoImage ==
  /\ step = "idle"
  /\ ImageDoubtful
  /\ Return("SENSOR_ERROR")
  /\ UNCHANGED <<present, buf, store, id, matched, history>>

\* Mutant: a messy image is only logged.
MatchConverts_Messy ==
  /\ step = "matchConvert"
  /\ image # None
  /\ buf' \in {buf, Converted(1)}
  /\ step' = "matchSearch"
  /\ UNCHANGED <<present, image, store, id, result, matched, endedAt, history>>

MatchConverts ==
  /\ step = "matchConvert"
  /\ image # None
  /\ buf' = Converted(1)
  /\ step' = "matchSearch"
  /\ UNCHANGED <<present, image, store, id, result, matched, endedAt, history>>

\* Messy or without features; or another answer, or none.
MatchDoesNotConvert ==
  /\ step = "matchConvert"
  /\ \/ buf' = buf /\ Return("MATCH_FAIL")
     \/ buf' \in {buf, Converted(1)} /\ Return("SENSOR_ERROR")
  /\ UNCHANGED <<present, image, store, id, matched, history>>

MatchFinds ==
  /\ step = "matchSearch"
  /\ \E i \in Slots : store[i] # None /\ store[i] = buf[1] /\ matched' = i
  /\ Return("MATCH_SUCCESS")
  /\ UNCHANGED <<present, sensorVars, id, history>>

\* The sensor may also fail to recognise a finger.
MatchFindsNothing ==
  /\ step = "matchSearch"
  /\ Return("MATCH_FAIL") \/ Return("SENSOR_ERROR")
  /\ UNCHANGED <<present, sensorVars, id, matched, history>>

-----------------------------------------------------------------------------
(* enrollFingerprint, from the ENROLL_FINGER command.                      *)

\* Mutant: the capacity itself is let through.
EnrollCalled_OffByOne ==
  /\ \E i \in Ids : i <= Capacity /\ Called(i)
  /\ first' = None
  /\ result' = "none"
  /\ step' = "place1"
  /\ UNCHANGED <<present, sensorVars>>

\* With an id that is out of range nothing is called.
EnrollCalled ==
  /\ \E i \in Ids : i < Capacity /\ Called(i)
  /\ first' = None
  /\ result' = "none"
  /\ step' = "place1"
  /\ UNCHANGED <<present, sensorVars>>

EnrollFails == Return("ENROLL_FAIL") /\ UNCHANGED <<present, id, matched, history>>

Moves(from, to) ==
  /\ step = from
  /\ step' = to
  /\ UNCHANGED <<present, store, id, result, matched, endedAt, before>>

\* While there is no finger, getImage is sent again.
Place1 ==
  /\ Moves("place1", "convert1")
  /\ ImageTaken
  /\ first' = present
  /\ lifted' = FALSE
  /\ UNCHANGED <<buf, second>>

PlaceFails ==
  /\ step \in {"place1", "place2"}
  /\ ImageDoubtful
  /\ EnrollFails
  /\ UNCHANGED <<buf, store>>

Convert1 ==
  /\ Moves("convert1", "lift")
  /\ image # None
  /\ buf' = Converted(1)
  /\ UNCHANGED <<image, first, second, lifted>>

ConvertFails ==
  /\ \/ step = "convert1" /\ buf' \in {buf, Converted(1)}
     \/ step = "convert2" /\ buf' \in {buf, Converted(2)}
  /\ EnrollFails
  /\ UNCHANGED <<image, store>>

\* The loop goes on until the sensor sees no finger, whatever else it answers.
LiftAwaited ==
  /\ step = "lift"
  /\ ImageTaken \/ ImageDoubtful
  /\ UNCHANGED <<present, buf, store, callVars, history>>

\* Mutant: the loop ends with any answer that is not an image.
LiftSeen_AnyAnswer ==
  /\ Moves("lift", "place2")
  /\ UNCHANGED <<image, buf, first, second, lifted>>

LiftSeen ==
  /\ Moves("lift", "place2")
  /\ present = None
  /\ UNCHANGED <<image, buf, first, second, lifted>>

Place2 ==
  /\ Moves("place2", "convert2")
  /\ ImageTaken
  /\ second' = present
  /\ UNCHANGED <<buf, first, lifted>>

Convert2 ==
  /\ Moves("convert2", "combine")
  /\ image # None
  /\ buf' = Converted(2)
  /\ UNCHANGED <<image, first, second, lifted>>

Combine ==
  /\ Moves("combine", "store")
  /\ buf[1] = buf[2]
  /\ UNCHANGED <<image, buf, first, second, lifted>>

\* Mutant: a mismatch is not looked for, the last template read is stored.
CombineFails_Ignored ==
  /\ Moves("combine", "store")
  /\ UNCHANGED <<sensorVars, first, second, lifted>>

\* Mutant: after a mismatch the enrolment starts over.
CombineFails_StartsOver ==
  /\ Moves("combine", "place1")
  /\ UNCHANGED <<sensorVars, history>>

\* The prints differ, or seem to; or another answer, or none.
CombineFails ==
  /\ step = "combine"
  /\ EnrollFails
  /\ UNCHANGED sensorVars

\* Mutant: a reply that does not come is taken for an OK.
Store_Unanswered ==
  /\ step = "store"
  /\ store' \in {store, Stored}
  /\ Return("ENROLL_STEP2_OK")
  /\ UNCHANGED <<present, image, buf, id, matched, history>>

Store ==
  /\ step = "store"
  /\ store' = Stored
  /\ Return("ENROLL_STEP2_OK")
  /\ UNCHANGED <<present, image, buf, id, matched, history>>

\* A refusal, a flash that could be erased but not written, or a lost reply.
StoreFails ==
  /\ step = "store"
  /\ store' \in {store, Emptied(id), Stored}
  /\ EnrollFails
  /\ UNCHANGED <<image, buf>>

-----------------------------------------------------------------------------
(* deleteFingerprint, from the DELETE_FINGER command: one sensor command.  *)

\* deleteModel sends the lower 16 bits of an id that was only checked for its sign.
Location(i) == i % Locations

DeleteCalled(i) ==
  /\ Called(i)
  /\ first' = None
  /\ UNCHANGED <<present, image, buf, step>>

Deletes ==
  \E i \in Ids :
    /\ DeleteCalled(i)
    /\ Location(i) \in Slots
    /\ store' = Emptied(Location(i))
    /\ result' = "DELETE_SUCCESS"

\* The sensor refuses; or another answer, or none.
DeleteFails ==
  \E i \in Ids :
    /\ DeleteCalled(i)
    /\ \/ store' = store /\ result' = "DELETE_FAIL"
       \/ store' \in {store, Emptied(Location(i))} /\ result' = "SENSOR_ERROR"

-----------------------------------------------------------------------------
\* A reset in the middle of anything; a command on its way may still be obeyed.
Restart ==
  /\ step' = "idle"
  /\ result' = "none"
  /\ matched' = None
  /\ endedAt' = "idle"
  /\ store' \in {store} \cup (IF step = "store" THEN {Stored} ELSE {})
  /\ \/ UNCHANGED <<image, buf>>
     \/ image' = None /\ buf' = [n \in 1..2 |-> None]
  /\ UNCHANGED <<present, id, history>>

Match ==
  \/ MatchCaptures \/ MatchFindsNoFinger \/ MatchGetsNoImage
  \/ MatchConverts \/ MatchDoesNotConvert \/ MatchFinds \/ MatchFindsNothing

\* What ends the step it is taken in, when the sensor is asked once.
EnrollStep ==
  \/ Convert1 \/ Convert2 \/ ConvertFails
  \/ Combine \/ CombineFails \/ Store \/ StoreFails

Enroll ==
  \/ EnrollCalled \/ Place1 \/ LiftAwaited \/ LiftSeen \/ Place2 \/ PlaceFails
  \/ EnrollStep

Next ==
  \/ FingerPlaced \/ FingerLifted \/ Restart
  \/ Match \/ Enroll \/ Deletes \/ DeleteFails

Spec == Init /\ [][Next]_vars

\* The driver goes on while the sensor answers or times out, and the user puts the
\* finger on and takes it off so that a poll every 100 ms sees it in the end.
FairSpec ==
  /\ Spec
  /\ WF_vars(EnrollStep)
  /\ WF_vars(FingerPlaced) /\ WF_vars(FingerLifted)
  /\ SF_vars(Place1) /\ SF_vars(LiftSeen) /\ SF_vars(Place2)

-----------------------------------------------------------------------------
(* What is checked.                                                        *)

TypeOK ==
  /\ present \in Prints
  /\ image \in Prints
  /\ buf \in [1..2 -> Prints]
  /\ store \in [Slots -> Prints]
  /\ step \in EnrollSteps \cup {"idle", "matchConvert", "matchSearch"}
  /\ id \in Nat
  /\ step \in EnrollSteps => id \in Slots
  /\ result \in Results
  /\ matched \in Slots \cup {None}
  /\ first \in Prints /\ second \in Prints
  /\ lifted \in BOOLEAN
  /\ before \in [Slots -> Prints]
  /\ endedAt \in EnrollSteps \cup {"idle", "matchConvert", "matchSearch"}

\* A match names a template of the finger whose image this very call took, whatever
\* earlier calls, failures and resets have left in the sensor's buffers.
MatchIsOfThisFinger ==
  result = "MATCH_SUCCESS" =>
    /\ first \in Fingers
    /\ matched \in Slots
    /\ store[matched] = first

\* What a call returns is what became of the template of the id asked for: a success
\* is one, and of an enrolment nothing but the last command can change it.  A deletion
\* is held to this when the sensor can be sent its id, that is below Locations.
ResultIsTrue ==
  step = "idle" =>
    /\ result = "ENROLL_STEP2_OK" =>
         first # None /\ store = [before EXCEPT ![id] = first]
    /\ result = "ENROLL_FAIL" =>
         \/ store = before
         \/ endedAt = "store" /\ \E t \in {None, first} : store = [before EXCEPT ![id] = t]
    /\ result = "DELETE_SUCCESS" /\ id < Locations =>
         id \in Slots /\ store = [before EXCEPT ![id] = None]
    /\ result = "DELETE_FAIL" => store = before

\* A new template is of a finger that was presented twice in one enrolment, with
\* the sensor left empty in between, and goes to the slot the server named.
TemplatesAreEarned ==
  [][\A i \in Slots : store'[i] \notin {None, store[i]} =>
       /\ step = "store" /\ i = id
       /\ first = store'[i] /\ second = store'[i]
       /\ lifted]_vars

\* Of an enrolment or a match: its slot, the fingers whose image it took, whether
\* the sensor has been empty since, and the slot a match named.
Pending == IF step \in EnrollSteps THEN {id} ELSE {}
Presses ==
  IF step \in {"idle", "place1"} THEN <<>>
  ELSE IF step \in {"convert2", "combine", "store"} THEN <<first, second>> ELSE <<first>>
LiftedSince == lifted /\ Presses # <<>>
Answer == IF result = "MATCH_SUCCESS" THEN {matched} ELSE {}

Reader == INSTANCE TemplateStore WITH
  templates <- store, pending <- Pending, presses <- Presses,
  lifted <- LiftedSince, answer <- Answer

\* The driver keeps the promises of the fingerprint reader through every lost reply,
\* failed command and reset: no slot is written or named but by them, and none is
\* emptied but by an enrolment of that slot or by a deletion.
ReaderSafe == Reader!Spec

\* With a user who cooperates every enrolment comes to an end.
EnrollmentEnds == (step \in EnrollSteps) ~> (step = "idle")
=============================================================================
