-------------------------- MODULE BiometricsClaims --------------------------
(***************************************************************************)
(* What a log line of drivers/biometrics.cpp says of a deletion, and what  *)
(* the code does instead.                                                  *)
(***************************************************************************)
EXTENDS Biometrics

\* "Fingerprint ID #%d deleted" (biometrics.cpp:214), said of the id asked for: no
\* other template is lost.  Of an id beyond 16 bits the sensor is sent the lower ones.
DeletedIsTheIdAsked ==
  step = "idle" /\ result = "DELETE_SUCCESS" =>
    \A i \in Slots \ {id} : store[i] = before[i]
=============================================================================
