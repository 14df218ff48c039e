----------------------------- MODULE TextChannel -----------------------------
(***************************************************************************)
(* What the secure path promises to the two ends it connects: a handler is *)
(* given one whole text of the server's at a time and keeps it until it    *)
(* returns, and of each text the device asks to publish, the broker gets   *)
(* that text once or nothing.                                              *)
(***************************************************************************)
CONSTANTS
  ServerTexts,  \* what the server has signed
  DeviceTexts   \* what the device may ask to publish

VARIABLES
  handling,  \* the text a handler is working on, if one is
  saying,    \* the text that is being published, if one is
  said       \* the last text the broker was given, if it was given one

vars == <<handling, saying, said>>

Init == handling = {} /\ saying = {} /\ said = {}

\* Nothing arrives while something is being published.
Take ==
  /\ handling = {} /\ saying = {}
  /\ \E m \in ServerTexts : handling' = {m}
  /\ UNCHANGED <<saying, said>>

\* The handler returns, when its replies have been dealt with.
Finish ==
  /\ saying = {}
  /\ handling' = {}
  /\ UNCHANGED <<saying, said>>

Ask ==
  /\ saying = {}
  /\ \E m \in DeviceTexts : saying' = {m}
  /\ UNCHANGED <<handling, said>>

Say ==
  /\ saying # {}
  /\ said' = saying
  /\ saying' = {}
  /\ UNCHANGED handling

Fail ==
  /\ saying' = {}
  /\ UNCHANGED <<handling, said>>

Next == Take \/ Finish \/ Ask \/ Say \/ Fail

Spec == Init /\ [][Next]_vars
=============================================================================
