-------------------------------- MODULE MCBoot --------------------------------
(***************************************************************************)
(* Boot with the times of the firmware, and codes of which some are 0.     *)
(***************************************************************************)
EXTENDS Boot

MCCode(n) == IF n % 4 = 0 THEN 0 ELSE n

\* In four successive time steps, at their ends and inside.
MCTimes == {1000 * TimeStep + t : t \in {0, 1, 14, 29, 30, 45, 59, 60, 89, 90, 119}}
=============================================================================
