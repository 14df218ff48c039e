--------------------------------- MODULE Totp ---------------------------------
(***************************************************************************)
(* The time window of verifyTOTP (security/totp.cpp).  The code of a time  *)
(* step is a parameter: HMAC and truncation are library code.  Nothing in  *)
(* the firmware calls verifyTOTP, which is offered for a keypad.           *)
(***************************************************************************)
EXTENDS Integers

CONSTANT Code(_)   \* the code of a time step; 0 also stands for an error

TimeStep == 30     \* TOTP_TIME_STEP, in seconds
Window   == 1      \* TOTP_WINDOW

\* Mutant: the loop stops before the last step of the window.
Steps_Short == -Window..(Window - 1)

Steps == -Window..Window

\* The time step a code is made from.
Counter(t) == t \div TimeStep

\* At time t on the lock's clock the code c is found in the window.
Accepts(t, c) ==
  \E i \in Steps :
    /\ Code(Counter(t + i * TimeStep)) # 0
    /\ Code(Counter(t + i * TimeStep)) = c

\* The code of time u is not by chance also that of another step near time t.
NoCoincidence(t, u) ==
  \A i \in -Window..Window :
    Code(Counter(t) + i) = Code(Counter(u)) => Counter(t) + i = Counter(u)

\* What a user can rely on, when the lock's clock shows t at the true time u: a
\* clock that is off by no more than the window does no harm, one that is off by a
\* further step refuses every code, and a code of 0 is refused always.
Tolerance(t, u) ==
  LET c == Code(Counter(u)) IN
  /\ (c # 0 /\ t - u \in -(Window * TimeStep)..(Window * TimeStep)) => Accepts(t, c)
  /\ (NoCoincidence(t, u) /\ Accepts(t, c)) =>
       t - u \in (1 - (Window + 1) * TimeStep)..((Window + 1) * TimeStep - 1)
  /\ ~Accepts(t, 0)
=============================================================================
