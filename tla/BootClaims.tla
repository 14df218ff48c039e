------------------------------ MODULE BootClaims ------------------------------
(***************************************************************************)
(* What a comment of setup() says of a boot without WiFi, and what the     *)
(* code does instead.                                                      *)
(***************************************************************************)
EXTENDS MCBoot

\* "System might work offline? [...] allow continuing but MQTT won't work"
\* (main.cpp:170-171): a boot that waits for WiFi goes on when the wait is over, with
\* or without it, unless the power goes.  The wait of connectWiFi() is longer than the
\* watchdog that setup() never resets.
OfflineBootGoesOn ==
  [][pc = "join" /\ state = "BOOTING" /\ pc' # "join"
       => pc' = "joined" \/ cause' = "power"]_vars
=============================================================================
