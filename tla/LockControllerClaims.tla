------------------------ MODULE LockControllerClaims ------------------------
(***************************************************************************)
(* What comments of the firmware say of the controller, word for word as   *)
(* strong as they say it, and what the code does instead.                  *)
(***************************************************************************)
EXTENDS LockController

\* "State while lock is open temporarily" (main.cpp:18), "Start the timer to
\* automatically relock" (main.cpp:280): with a timer, an open lock is in a state
\* that ends by locking it, or its timer still runs.  The callback that finds
\* another state than UNLOCKED_TEMP, as ENROLL_FINGER leaves it, drops the relock.
OpenIsTemporary ==
  lock = "UNLOCKED" /\ unlockTimer =>
    \/ currentState \in Attending \cup {"CONFIG_MODE"}
    \/ timerActive \/ timerQueue # <<>> \/ callback # "none"

\* "Ensure we are still in the temporary unlocked state before locking"
\* (main.cpp:350): the callback writes LOCKING only over UNLOCKED_TEMP.  Between
\* its test and its write loopTask may have handled a command.
CallbackLocksOnlyTemp ==
  [][callback = "locking" /\ callback' = "none" /\ pc' # "setup"
       => currentState = "UNLOCKED_TEMP"]_vars

\* "ERROR_STATE. System Halted." (main.cpp:328): only a restart ends it.  The
\* command handler still runs, and ENROLL_FINGER ends in IDLE.
ErrorHalts ==
  [][currentState = "ERROR_STATE" => currentState' \in {"ERROR_STATE", "BOOTING"}]_vars
=============================================================================
