---------------------------- MODULE TemplateStore ----------------------------
(***************************************************************************)
(* What the fingerprint reader promises, whatever it says to its sensor: a *)
(* template is of a finger that was pressed twice on an enrolment of that  *)
(* slot, with the sensor seen empty in between; a slot is lost only to its *)
(* own enrolment or to a deletion, of which the reader does not say which  *)
(* slot it was asked for; and an answer names a slot that holds the finger *)
(* pressed for it.                                                         *)
(***************************************************************************)
EXTENDS Integers, Sequences

CONSTANTS
  Fingers,
  None,      \* no finger, no template
  Slots      \* places for templates

VARIABLES
  templates, \* the finger each slot recognises
  present,   \* the finger on the sensor
  pending,   \* the slot of the enrolment under way, if there is one
  presses,   \* the fingers pressed since this enrolment or match began
  lifted,    \* the sensor has been empty since the first of them
  answer     \* the slot the last match named, if it named one

vars == <<templates, present, pending, presses, lifted, answer>>

Init ==
  /\ templates = [i \in Slots |-> None]
  /\ present = None
  /\ pending = {}
  /\ presses = <<>>
  /\ lifted = FALSE
  /\ answer = {}

Put ==
  /\ present = None
  /\ present' \in Fingers
  /\ UNCHANGED <<templates, pending, presses, lifted, answer>>

Lift ==
  /\ present # None
  /\ present' = None
  /\ lifted' = (presses # <<>>)
  /\ UNCHANGED <<templates, pending, presses, answer>>

Begin ==
  /\ pending = {} /\ presses = <<>>
  /\ \E i \in Slots : pending' = {i}
  /\ answer' = {}
  /\ UNCHANGED <<templates, present, presses, lifted>>

\* The finger on the sensor is pressed for a match, or for an enrolment's first time.
Press ==
  /\ present # None
  /\ presses = <<>>
  /\ presses' = <<present>>
  /\ lifted' = FALSE
  /\ answer' = {}
  /\ UNCHANGED <<templates, present, pending>>

PressAgain ==
  /\ present # None
  /\ pending # {} /\ lifted
  /\ Len(presses) = 1
  /\ presses' = Append(presses, present)
  /\ UNCHANGED <<templates, present, pending, lifted, answer>>

\* What was under way is over.
Over == pending' = {} /\ presses' = <<>> /\ lifted' = FALSE

GiveUp ==
  /\ Over
  /\ answer' = {}
  /\ UNCHANGED <<templates, present>>

\* The pending slot takes the finger, or is lost.
Write ==
  \E i \in pending :
    /\ Len(presses) = 2 /\ presses[1] = presses[2]
    /\ \E t \in {presses[1], None} : templates' = [templates EXCEPT ![i] = t]
    /\ Over
    /\ answer' = {}
    /\ UNCHANGED present

Delete ==
  /\ pending = {} /\ presses = <<>>
  /\ \E i \in Slots : templates' = [templates EXCEPT ![i] = None]
  /\ answer' = {}
  /\ UNCHANGED <<present, pending, presses, lifted>>

Recognise ==
  /\ pending = {} /\ Len(presses) = 1
  /\ \E i \in Slots : templates[i] = presses[1] /\ answer' = {i}
  /\ Over
  /\ UNCHANGED <<templates, present>>

Next ==
  \/ Put \/ Lift \/ Begin \/ Press \/ PressAgain
  \/ GiveUp \/ Write \/ Delete \/ Recognise

Spec == Init /\ [][Next]_vars
=============================================================================
