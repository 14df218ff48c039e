------------------------ MODULE StatusIndicatorClaims ------------------------
(***************************************************************************)
(* What the comments of drivers/status_indicator.cpp claim and the code    *)
(* does not do.                                                            *)
(***************************************************************************)
EXTENDS StatusIndicator

\* "Alternating Blinking" (status_indicator.cpp:187; "Red / Blue" and "Red / Yellow
\* (Green)", lines 188-189, "Alternate Red/Blue", line 38): red is lit in one phase of
\* ERROR_NTP and ERROR_MQTT only, when no other task ran into their setPattern.
AlternatingAlternates ==
  clean /\ Quiet /\ currentPattern \in Alternating => led = ledState
=============================================================================
