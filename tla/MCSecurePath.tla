---------------------------- MODULE MCSecurePath ----------------------------
(***************************************************************************)
(* SecurePath with the lengths at which the code changes its mind.         *)
(***************************************************************************)
EXTENDS SecurePath

\* n times the byte b.
Text(n, b) == [i \in 1..n |-> b]

\* Empty, a whole block; the last text PubSubClient takes and the next, the first
\* one finalPayload does not take, and the first one outgoingBuffer does not take.
MCMessages == {Text(n, 7) : n \in {0, 16, 399, 400, 432, 496}}

\* A payload the server made of n bytes of plaintext.
Made(plain, signed) ==
  [length |-> SigLen + Block + Len(plain), signed |-> signed, plain |-> plain]

\* Commands; a text of padding bytes; a signature that is not the server's;
\* padding of 0, of 17, and broken inside; no blocks, and a length that is none.
MCPackets ==
  {Made(Pad(Text(n, 7)), TRUE) : n \in {1, 16, 399}}
    \cup {Made(Pad(Text(16, 16)), TRUE), Made(Pad(Text(20, 7)), FALSE)}
    \cup {Made(Text(16, b), TRUE) : b \in {0, 17}}
    \cup {Made([Text(32, 4) EXCEPT ![30] = 9], TRUE)}
    \cup {Made(Text(17, 1), TRUE)}
    \cup {[length |-> n, signed |-> TRUE, plain |-> <<>>] : n \in {80}}
=============================================================================
