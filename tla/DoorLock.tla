------------------------------ MODULE DoorLock ------------------------------
(***************************************************************************)
(* What the lock promises, whatever runs behind it: the bolt is drawn only *)
(* on a permit, each permit draws it once, and an open lock is locked      *)
(* again, or the device restarts, within MaxOpen seconds unless the        *)
(* automatic relock was given up.                                          *)
(***************************************************************************)
EXTENDS Integers

CONSTANT MaxOpen  \* the longest, in seconds, a lock stays open that is not waived

VARIABLES
  door,    \* "LOCKED" or "UNLOCKED"
  permit,  \* someone has been authorised and the bolt not yet drawn
  age,     \* seconds since the open lock was last unlocked
  waived   \* nobody promises to lock the open lock again

vars == <<door, permit, age, waived>>

Init ==
  /\ door = "LOCKED"
  /\ permit = FALSE
  /\ age = 0
  /\ waived \in BOOLEAN

Authorise ==
  /\ ~permit
  /\ permit' = TRUE
  /\ UNCHANGED <<door, age, waived>>

\* A permit that another request overtakes is lost.
Withdraw ==
  /\ permit
  /\ permit' = FALSE
  /\ UNCHANGED <<door, age, waived>>

Open ==
  /\ permit
  /\ permit' = FALSE
  /\ door' = "UNLOCKED"
  /\ age' = 0
  /\ waived' \in BOOLEAN

Close ==
  /\ door' = "LOCKED"
  /\ age' = 0
  /\ waived' \in BOOLEAN
  /\ UNCHANGED permit

\* The relock is given up: the age of this opening is no longer counted.
Waive ==
  /\ permit' = FALSE
  /\ age' = 0
  /\ waived' \in BOOLEAN
  /\ door = "UNLOCKED" => waived'
  /\ UNCHANGED door

Second ==
  /\ door = "UNLOCKED" /\ ~waived
  /\ age < MaxOpen
  /\ age' = age + 1
  /\ UNCHANGED <<door, permit, waived>>

Restart ==
  /\ door' = "LOCKED"
  /\ permit' = FALSE
  /\ age' = 0
  /\ waived' \in BOOLEAN

Next ==
  Authorise \/ Withdraw \/ Open \/ Close \/ Waive \/ Second \/ Restart

Spec == Init /\ [][Next]_vars
=============================================================================
