--------------------------- MODULE SecurePathProofs ---------------------------
(***************************************************************************)
(* Proofs about SecurePath for every set of messages and packets: the      *)
(* padding is undone by the unpadding and by nothing else, no buffer       *)
(* overruns, the handler gets what was signed, the broker what was said.   *)
(***************************************************************************)
EXTENDS SecurePath, TLAPS

\* A padded text is whole blocks, and longer than the text by 1 to 16 bytes.
LEMMA PaddedLengthProperties ==
  ASSUME NEW n \in Nat
  PROVE  /\ PaddedLength(n) \in Nat
         /\ PaddedLength(n) % Block = 0
         /\ PaddedLength(n) - n \in 1..Block
  BY DEF PaddedLength, Block

\* The length of a text is found again from its padding.
LEMMA PaddedLengthInverse ==
  ASSUME NEW n \in Nat, NEW v \in 1..Block, n % Block = 0, n # 0
  PROVE  n - v \in Nat /\ PaddedLength(n - v) = n
  BY DEF PaddedLength, Block

\* A length is a natural number.
LEMMA LenIsNat == ASSUME NEW s \in Seq(Byte) PROVE Len(s) \in Nat
  OBVIOUS

\* Padding a sequence of bytes makes a sequence of bytes of the padded length.
LEMMA PadType ==
  ASSUME NEW s \in Seq(Byte)
  PROVE  /\ Pad(s) \in Seq(Byte)
         /\ Len(Pad(s)) = PaddedLength(Len(s))
<1> DEFINE n == Len(s)
           p == PaddedLength(n)
<1>1. n \in Nat /\ p \in Nat /\ p - n \in 1..Block
  BY PaddedLengthProperties
<1>2. \A i \in 1..p : (IF i <= n THEN s[i] ELSE p - n) \in Byte
  <2>1. \A i \in 1..n : s[i] \in Byte
    OBVIOUS
  <2> HIDE DEF n, p
  <2>2. p - n \in Byte
    BY <1>1 DEF Byte, Block
  <2> QED
    BY <1>1, <2>1, <2>2
<1> HIDE DEF n, p
<1>3. [i \in 1..p |-> IF i <= n THEN s[i] ELSE p - n] \in [1..p -> Byte]
  BY <1>2
<1>4. Pad(s) = [i \in 1..p |-> IF i <= n THEN s[i] ELSE p - n]
  BY DEF Pad, n, p
<1> QED
  BY <1>1, <1>3, <1>4 DEF p, n

\* Unpadding accepts every padded text and gives the text back.
THEOREM UnpadUndoesPad ==
  ASSUME NEW s \in Seq(Byte)
  PROVE  LET t == Pad(s) IN
         /\ PaddingIsValid(t, Len(t))
         /\ UnpaddedLength(t, Len(t)) = Len(s)
         /\ s = [i \in 1..UnpaddedLength(t, Len(t)) |-> t[i]]
<1> DEFINE n == Len(s)
           p == PaddedLength(n)
           t == Pad(s)
<1>1. n \in Nat /\ p \in Nat /\ p - n \in 1..Block /\ p % Block = 0
  BY PaddedLengthProperties
<1>2. Len(t) = p
  BY PadType
<1>3. \A i \in 1..p : t[i] = IF i <= n THEN s[i] ELSE p - n
  BY DEF Pad
<1>4. s = [i \in 1..n |-> s[i]]
  OBVIOUS
<1> HIDE DEF n, p, t
<1>5. t[p] = p - n
  BY <1>1, <1>3
<1>6. \A i \in (p - t[p] + 1)..(p - 1) : t[i] = t[p]
  BY <1>1, <1>3, <1>5
<1>7. PaddingIsValid(t, p)
  <2>1. p # 0 /\ t[p] \in 1..Block
    BY <1>1, <1>5
  <2> QED
    BY <1>1, <1>6, <2>1, Zenon DEF PaddingIsValid
<1>8. UnpaddedLength(t, p) = n
  BY <1>1, <1>5 DEF UnpaddedLength
<1>9. \A i \in 1..n : t[i] = s[i]
  <2>1. n <= p
    BY <1>1
  <2> QED
    BY <1>1, <1>3, <2>1
<1>10. s = [i \in 1..n |-> t[i]]
  BY <1>4, <1>9
<1> QED
  BY <1>2, <1>7, <1>8, <1>10 DEF t, n

\* Bytes with a valid padding are the padding of their prefix: nothing else is
\* ever taken for a padded text.
THEOREM PadUndoesUnpad ==
  ASSUME NEW t \in Seq(Byte), PaddingIsValid(t, Len(t))
  PROVE  LET k == UnpaddedLength(t, Len(t)) IN
         /\ k \in Nat /\ k < Len(t)
         /\ t = Pad([i \in 1..k |-> t[i]])
<1> DEFINE n == Len(t)
           v == t[n]
           k == n - v
           s == [i \in 1..k |-> t[i]]
<1>1. n \in Nat /\ n # 0 /\ n % Block = 0 /\ v \in 1..Block
      /\ \A i \in (k + 1)..(n - 1) : t[i] = v
  BY DEF PaddingIsValid
<1>2. t = [i \in 1..n |-> t[i]]
  OBVIOUS
<1>3. t[n] = v
  OBVIOUS
<1> HIDE DEF n, v
<1>4. k \in Nat /\ PaddedLength(k) = n /\ k < n /\ n - k = v
  BY <1>1, PaddedLengthInverse DEF Block
<1> HIDE DEF k
<1>5. Len(s) = k
  BY <1>4
<1>6. Pad(s) = [i \in 1..n |-> IF i <= k THEN s[i] ELSE v]
  BY <1>4, <1>5 DEF Pad
<1>7. \A i \in 1..n : t[i] = IF i <= k THEN s[i] ELSE v
  BY <1>1, <1>3, <1>4
<1>8. t = Pad(s)
  BY <1>2, <1>6, <1>7
<1> QED
  BY <1>4, <1>8 DEF UnpaddedLength, k, v, n

-----------------------------------------------------------------------------
\* What publishStatus encrypts is the padding of its argument.
OutgoingIsPad ==
  tx \in {"sign", "frame", "send"} => message # <<>> /\ outgoing = Pad(message)

\* Only what the server signed is decrypted.
SignedInv == rx \in {"decrypt", "callback"} => packet.signed

\* The inductive invariant.
PathInv == TypeOK /\ BuffersFit /\ CommandIsWhole /\ SignedInv /\ OutgoingIsPad

\* publishStatus works on a sequence of bytes.
LEMMA MessageType == ASSUME TypeOK PROVE message \in Seq(Byte)
<1>1. <<>> \in Seq(Byte)
  OBVIOUS
<1>2. message \in Messages \/ message = <<>>
  BY Zenon DEF TypeOK
<1> QED
  BY <1>1, <1>2, PathAssumption, Zenon

LEMMA PathInit == Init => PathInv
<1> SUFFICES ASSUME Init PROVE PathInv
  OBVIOUS
<1>1. TypeOK
  <2>1. incoming \in [1..BufLen -> Byte]
    BY DEF Init, Byte
  <2>2. connected \in BOOLEAN
    BY Zenon DEF Init
  <2>3. /\ packet \in Packets \cup {None} /\ decryptedLen \in Nat
        /\ message \in Messages \cup {<<>>} /\ outgoing \in Seq(Byte) /\ encryptedLen \in Nat
    BY DEF Init
  <2> QED
    BY <2>1, <2>2, <2>3 DEF Init, TypeOK
<1>2. BuffersFit /\ CommandIsWhole /\ SignedInv /\ OutgoingIsPad
  BY DEF Init, BuffersFit, CommandIsWhole, SignedInv, OutgoingIsPad
<1> QED
  BY <1>1, <1>2 DEF PathInv

LEMMA PathTypeStep ==
  ASSUME PathInv, [Next]_vars
  PROVE  TypeOK'
<1> USE DEF PathInv
<1>1. TypeOK
  OBVIOUS
<1>2. CASE ConnectionChanges \/ UNCHANGED vars
  <2>1. connected' \in BOOLEAN
    BY <1>1, <1>2, Zenon DEF TypeOK, ConnectionChanges, vars
  <2>2. UNCHANGED <<rxVars, txVars>>
    BY <1>2, Zenon DEF ConnectionChanges, vars
  <2> QED
    BY <1>1, <2>1, <2>2 DEF TypeOK, rxVars, txVars
<1>3. CASE Receive /\ ~Decrypted /\ ~DecryptFails
  <2>1. connected' \in BOOLEAN
    BY <1>1, <1>3, Zenon
    DEF TypeOK, Receive, MessageArrives, Verified, NotVerified, DecryptRefused,
        CallbackReturns
  <2> QED
    BY <1>1, <1>3, <2>1
    DEF TypeOK, Receive, txVars, RxReturns, MessageArrives, Verified, NotVerified,
        DecryptRefused, CallbackReturns, None, MinLen
<1>4. CASE Decrypted
  <2>1. packet \in Packets /\ packet.plain \in Seq(Byte)
    BY <1>1, <1>4, PathAssumption DEF TypeOK, Decrypted, DecryptPossible, None, MinLen, SigLen, Block
  <2>2. incoming' \in [1..BufLen -> Byte]
    BY <1>1, <1>4, <2>1 DEF TypeOK, Decrypted, Copied
  <2>3. decryptedLen' \in Nat
    <3> DEFINE n == Len(packet.plain)
               v == incoming'[n]
    <3>1. n \in Nat /\ n # 0 /\ n % Block = 0 /\ v \in 1..Block
      BY <1>4, <2>1, LenIsNat, Zenon DEF Decrypted, PaddingIsValid
    <3>2. decryptedLen' = n - v
      BY <1>4, Zenon DEF Decrypted, UnpaddedLength
    <3> HIDE DEF n, v
    <3> QED
      BY <3>1, <3>2, PaddedLengthInverse
  <2> QED
    BY <1>1, <1>4, <2>2, <2>3 DEF TypeOK, Decrypted, DecryptPossible, txVars
<1>5. CASE DecryptFails
  <2>1. incoming' \in [1..BufLen -> Byte]
    BY <1>1, <1>5 DEF TypeOK, DecryptFails, Cleared, Byte
  <2> QED
    BY <1>1, <1>5, <2>1 DEF TypeOK, DecryptFails, DecryptPossible, RxReturns, txVars, None
<1>6. CASE Publish
  <2>1. Pad(message) \in Seq(Byte) /\ Len(message) \in Nat /\ PaddedLength(Len(message)) \in Nat
    <3>1. message \in Seq(Byte)
      BY <1>1, MessageType DEF PathInv
    <3> QED
      BY <3>1, PadType, PaddedLengthProperties
  <2>2. connected' = connected
    BY <1>6, Zenon
    DEF Publish, PublishCalled, Encrypt, EncryptFails, Sign, SignFails, Frame, FrameFails,
        Send, SendFails
  <2>3. outgoing' \in {outgoing, <<>>, Pad(message)}
    BY <1>6
    DEF Publish, PublishCalled, Encrypt, EncryptFails, Sign, SignFails, Frame, FrameFails,
        Send, SendFails
  <2>4. outgoing' \in Seq(Byte)
    <3>1. <<>> \in Seq(Byte) /\ outgoing \in Seq(Byte)
      BY <1>1 DEF TypeOK
    <3> QED
      BY <2>1, <2>3, <3>1, Zenon
  <2> QED
    BY <1>1, <1>6, <2>1, <2>2, <2>4
    DEF TypeOK, Publish, rxVars, TxReturns, PublishCalled, Encrypt, EncryptFails, Sign,
        SignFails, Frame, FrameFails, Send, SendFails, Block
<1> QED
  BY <1>2, <1>3, <1>4, <1>5, <1>6 DEF Next

\* What decryptPacket leaves: as many bytes as were encrypted, without the padding.
LEMMA DecryptedFacts ==
  ASSUME TypeOK, Decrypted
  PROVE  LET t == packet.plain IN
         /\ packet' = packet
         /\ t \in Seq(Byte)
         /\ Len(t) <= BufLen
         /\ PaddingIsValid(t, Len(t))
         /\ decryptedLen' = UnpaddedLength(t, Len(t))
         /\ \A i \in 1..Len(t) : incoming'[i] = t[i]
<1> DEFINE t == packet.plain
           n == Len(t)
<1>1. t \in Seq(Byte)
  BY PathAssumption DEF TypeOK, Decrypted, DecryptPossible, None, MinLen, SigLen, Block
<1>2. n \in Nat /\ n <= BufLen
  BY <1>1, LenIsNat DEF Decrypted, DecryptPossible
<1>3. incoming' = Copied(incoming, t)
  BY DEF Decrypted
<1>4. \A i \in 1..n : incoming'[i] = t[i]
  <2> SUFFICES ASSUME NEW i \in 1..n PROVE incoming'[i] = t[i]
    OBVIOUS
  <2> HIDE DEF t
  <2>1. i \in 1..BufLen /\ i <= n
    BY <1>2 DEF BufLen
  <2>2. incoming'[i] = IF i <= n THEN t[i] ELSE incoming[i]
    BY <1>3, <2>1 DEF Copied
  <2> QED
    BY <2>1, <2>2
<1>5. PaddingIsValid(incoming', n) /\ decryptedLen' = UnpaddedLength(incoming', n)
  BY DEF Decrypted
<1>6. n # 0 /\ n % Block = 0 /\ incoming'[n] \in 1..Block
      /\ \A i \in (n - incoming'[n] + 1)..(n - 1) : incoming'[i] = incoming'[n]
  BY <1>5 DEF PaddingIsValid
<1>7. incoming'[n] = t[n]
  <2> HIDE DEF n
  <2> QED
    BY <1>2, <1>4, <1>6
<1>8. n - t[n] + 1 \in 1..n /\ t[n] \in 1..Block
  <2>1. n - incoming'[n] \in Nat /\ incoming'[n] \in 1..Block
    <3> HIDE DEF n
    <3> QED
      BY <1>2, <1>6, PaddedLengthInverse
  <2> HIDE DEF n
  <2> QED
    BY <1>2, <1>7, <2>1 DEF Block
<1>9. \A i \in (n - t[n] + 1)..(n - 1) : t[i] = t[n]
  <2> HIDE DEF n
  <2> SUFFICES ASSUME NEW i \in (n - t[n] + 1)..(n - 1) PROVE t[i] = t[n]
    OBVIOUS
  <2>1. i \in 1..n
    <3> HIDE DEF t
    <3> QED
      BY <1>2, <1>8 DEF Block
  <2>2. incoming'[i] = incoming'[n]
    BY <1>6, <1>7
  <2> QED
    BY <1>4, <1>7, <2>1, <2>2
<1>10. PaddingIsValid(t, n)
  BY <1>6, <1>8, <1>9, Zenon DEF PaddingIsValid
<1>11. decryptedLen' = UnpaddedLength(t, n)
  BY <1>5, <1>7 DEF UnpaddedLength
<1>12. packet' = packet
  BY DEF Decrypted
<1> QED
  BY <1>1, <1>2, <1>4, <1>10, <1>11, <1>12

LEMMA BuffersStep ==
  ASSUME PathInv, [Next]_vars
  PROVE  BuffersFit'
<1>1. TypeOK /\ BuffersFit
  BY DEF PathInv
<1>2. CASE ConnectionChanges \/ UNCHANGED vars
  <2>1. UNCHANGED <<rxVars, txVars>>
    BY <1>2, Zenon DEF ConnectionChanges, vars
  <2> QED
    BY <1>1, <2>1 DEF BuffersFit, rxVars, txVars
<1>3. CASE Receive /\ ~Decrypted
  <2>1. rx' # "callback" /\ UNCHANGED txVars
    BY <1>3
    DEF Receive, RxReturns, MessageArrives, Verified, NotVerified, DecryptRefused,
        DecryptFails, CallbackReturns
  <2> QED
    BY <1>1, <2>1 DEF BuffersFit, txVars
<1>4. CASE Decrypted
  <2>1. UNCHANGED txVars
    BY <1>4 DEF Decrypted
  <2>2. decryptedLen' < Len(packet'.plain) /\ Len(packet'.plain) <= BufLen
    BY <1>1, <1>4, DecryptedFacts, PadUndoesUnpad
  <2> QED
    BY <1>1, <2>1, <2>2 DEF BuffersFit, txVars
<1>5. CASE Publish
  <2>1. Len(Pad(message)) = PaddedLength(Len(message))
    BY <1>1, MessageType, PadType
  <2>2. UNCHANGED rxVars
    BY <1>5
    DEF Publish, PublishCalled, Encrypt, EncryptFails, Sign, SignFails, Frame, FrameFails,
        Send, SendFails
  <2>3. rx' = "callback" => decryptedLen' < Len(packet'.plain) /\ Len(packet'.plain) <= BufLen
    BY <1>1, <2>2 DEF BuffersFit, rxVars
  <2>4. tx' \in {"sign", "frame", "send"} =>
          encryptedLen' = Block + Len(outgoing') /\ encryptedLen' <= BufLen
    BY <1>1, <1>5, <2>1
    DEF BuffersFit, Publish, TxReturns, PublishCalled, Encrypt, EncryptFails, Sign,
        SignFails, Frame, FrameFails, Send, SendFails
  <2>5. tx' = "send" => SigLen + encryptedLen' <= BufLen
    BY <1>1, <1>5
    DEF BuffersFit, Publish, TxReturns, PublishCalled, Encrypt, EncryptFails, Sign,
        SignFails, Frame, FrameFails, Send, SendFails
  <2> QED
    BY <2>3, <2>4, <2>5 DEF BuffersFit
<1> QED
  BY <1>2, <1>3, <1>4, <1>5 DEF Next

LEMMA CommandStep ==
  ASSUME PathInv, [Next]_vars
  PROVE  CommandIsWhole'
<1>1. TypeOK /\ CommandIsWhole
  BY DEF PathInv
<1>2. CASE ConnectionChanges \/ Publish \/ UNCHANGED vars
  <2>1. UNCHANGED rxVars
    BY <1>2
    DEF ConnectionChanges, vars, Publish, PublishCalled, Encrypt, EncryptFails, Sign,
        SignFails, Frame, FrameFails, Send, SendFails
  <2> QED
    BY <1>1, <2>1, Zenon DEF CommandIsWhole, rxVars
<1>3. CASE Receive /\ ~Decrypted
  <2>1. rx' # "callback"
    BY <1>3
    DEF Receive, RxReturns, MessageArrives, Verified, NotVerified, DecryptRefused,
        DecryptFails, CallbackReturns
  <2> QED
    BY <2>1 DEF CommandIsWhole
<1>4. CASE Decrypted
  <2> DEFINE t == packet.plain
             k == decryptedLen'
  <2>1. k \in Nat /\ k < Len(t) /\ t = Pad([i \in 1..k |-> t[i]])
    BY <1>1, <1>4, DecryptedFacts, PadUndoesUnpad
  <2>2. [i \in 1..k |-> t[i]] = [i \in 1..k |-> incoming'[i]]
    <3>1. Len(t) \in Nat /\ \A i \in 1..Len(t) : incoming'[i] = t[i]
      BY <1>1, <1>4, DecryptedFacts, LenIsNat
    <3> HIDE DEF t, k
    <3>2. \A i \in 1..k : t[i] = incoming'[i]
      <4> SUFFICES ASSUME NEW i \in 1..k PROVE t[i] = incoming'[i]
        OBVIOUS
      <4>1. k \in Nat /\ k < Len(t)
        BY <2>1
      <4>2. i \in 1..Len(t)
        BY <3>1, <4>1
      <4> QED
        BY <3>1, <4>2
    <3> QED
      BY <3>2, Zenon
  <2>3. packet' = packet
    BY <1>4 DEF Decrypted
  <2>4. packet.signed
    BY <1>1, <1>4 DEF PathInv, SignedInv, Decrypted, DecryptPossible
  <2> QED
    BY <2>1, <2>2, <2>3, <2>4, Zenon DEF CommandIsWhole
<1> QED
  BY <1>2, <1>3, <1>4 DEF Next

\* Nothing is decrypted before its signature was found valid.
LEMMA SignedStep ==
  ASSUME PathInv, [Next]_vars
  PROVE  SignedInv'
<1>1. SignedInv
  BY DEF PathInv
<1>2. CASE ConnectionChanges \/ Publish \/ UNCHANGED vars
  <2>1. UNCHANGED rxVars
    BY <1>2
    DEF ConnectionChanges, vars, Publish, PublishCalled, Encrypt, EncryptFails, Sign,
        SignFails, Frame, FrameFails, Send, SendFails
  <2> QED
    BY <1>1, <2>1, Zenon DEF SignedInv, rxVars
<1>3. CASE Receive /\ ~Verified
  <2>1. rx' \in {"decrypt", "callback"} => rx \in {"decrypt", "callback"} /\ packet' = packet
    BY <1>3
    DEF Receive, RxReturns, MessageArrives, NotVerified, DecryptRefused,
        DecryptPossible, Decrypted, DecryptFails, CallbackReturns
  <2> QED
    BY <1>1, <2>1, Zenon DEF SignedInv
<1>4. CASE Verified
  BY <1>4, Zenon DEF SignedInv, Verified
<1> QED
  BY <1>2, <1>3, <1>4 DEF Next

LEMMA OutgoingStep ==
  ASSUME PathInv, [Next]_vars
  PROVE  OutgoingIsPad'
<1>1. OutgoingIsPad
  BY DEF PathInv
<1>2. CASE ConnectionChanges \/ Receive \/ UNCHANGED vars
  <2>1. UNCHANGED txVars
    BY <1>2
    DEF ConnectionChanges, vars, Receive, MessageArrives, Verified, NotVerified,
        DecryptRefused, Decrypted, DecryptFails, CallbackReturns
  <2> QED
    BY <1>1, <2>1, Zenon DEF OutgoingIsPad, txVars
<1>3. CASE Publish
  BY <1>1, <1>3
  DEF OutgoingIsPad, Publish, TxReturns, PublishCalled, Encrypt, EncryptFails, Sign,
      SignFails, Frame, FrameFails, Send, SendFails
<1> QED
  BY <1>2, <1>3 DEF Next

LEMMA PathInductive == Spec => []PathInv
<1>1. PathInv /\ [Next]_vars => PathInv'
  BY PathTypeStep, BuffersStep, CommandStep, SignedStep, OutgoingStep DEF PathInv
<1> QED
  BY PathInit, <1>1, PTL DEF Spec

\* Every variable of the secure path keeps its type, for every set of texts and
\* packets and every size of PubSubClient's buffer.
THEOREM PathTypeCorrect == Spec => []TypeOK
<1>1. PathInv => TypeOK
  BY DEF PathInv
<1> QED
  BY PathInductive, <1>1, PTL

\* outgoingBuffer, incomingBuffer and finalPayload are never overrun, whatever
\* arrives and whatever is published.
THEOREM BuffersNeverOverrun == Spec => []BuffersFit
<1>1. PathInv => BuffersFit
  BY DEF PathInv
<1> QED
  BY PathInductive, <1>1, PTL

\* commandCallback is given exactly the text that was padded, encrypted and signed
\* by the server.
THEOREM HandlerGetsWhatWasSigned == Spec => []CommandIsWhole
<1>1. PathInv => CommandIsWhole
  BY DEF PathInv
<1> QED
  BY PathInductive, <1>1, PTL

\* Whatever publishStatus hands to the broker, this code would accept, and read as
\* the text it was called with.
THEOREM BrokerGetsWhatWasSaid == Spec => PublishedDecodes
<1> DEFINE A == published' # published => DecodesTo(published', message)
<1>1. PathInv /\ [Next]_vars => [A]_vars
  <2> SUFFICES ASSUME PathInv, Next, published' # published
               PROVE  DecodesTo(published', message)
    BY DEF vars
  <2>1. Send
    BY DEF Next, ConnectionChanges, Receive, MessageArrives, Verified, NotVerified,
       DecryptRefused, Decrypted, DecryptFails, CallbackReturns, Publish, PublishCalled,
       Encrypt, EncryptFails, Sign, SignFails, Frame, FrameFails, SendFails
  <2>2. message \in Seq(Byte) /\ message # <<>>
    BY <2>1, MessageType DEF PathInv, OutgoingIsPad, Send
  <2>3. outgoing = Pad(message) /\ encryptedLen = Block + Len(outgoing)
        /\ SigLen + encryptedLen <= BufLen
    BY <2>1 DEF PathInv, OutgoingIsPad, BuffersFit, Send
  <2>4. published'.length = SigLen + encryptedLen /\ published'.signed = TRUE
        /\ published'.plain = outgoing
    BY <2>1 DEF Send
  <2>5. Len(outgoing) \in Nat /\ Len(outgoing) >= Block
    <3>1. Len(outgoing) = PaddedLength(Len(message)) /\ Len(message) \in Nat
      BY <2>2, <2>3, PadType, LenIsNat
    <3>2. PaddedLength(Len(message)) >= Block /\ PaddedLength(Len(message)) \in Nat
      <4> DEFINE n == Len(message)
      <4>1. n \in Nat
        BY <3>1
      <4> HIDE DEF n
      <4>2. PaddedLength(n) >= Block /\ PaddedLength(n) \in Nat
        BY <4>1 DEF PaddedLength, Block
      <4> QED
        BY <4>2 DEF n
    <3> QED
      BY <3>1, <3>2
  <2>6. published'.length \in MinLen..BufLen
        /\ published'.length = SigLen + Block + Len(published'.plain)
    <3> DEFINE n == Len(outgoing)
    <3>1. n \in Nat /\ n >= 16 /\ SigLen + (16 + n) <= 512 /\ encryptedLen = 16 + n
      BY <2>3, <2>5 DEF Block, BufLen
    <3>2. published'.length = 64 + (16 + n) /\ Len(published'.plain) = n
      BY <2>4, <3>1 DEF SigLen
    <3> HIDE DEF n
    <3> QED
      BY <3>1, <3>2 DEF MinLen, SigLen, Block, BufLen
  <2>7. /\ PaddingIsValid(outgoing, Len(outgoing))
        /\ message = [i \in 1..UnpaddedLength(outgoing, Len(outgoing)) |-> outgoing[i]]
    BY <2>2, <2>3, UnpadUndoesPad
  <2> QED
    BY <2>4, <2>6, <2>7 DEF DecodesTo
<1> QED
  BY PathInductive, <1>1, PTL DEF Spec, PublishedDecodes
-----------------------------------------------------------------------------
(* The path implements TextChannel.                                        *)

LEMMA ChannelInit == Init => Channel!Init
  BY DEF Init, Channel!Init, Handling, Saying, Said

\* What is decrypted under the server's signature is a text of the server's.
LEMMA DecryptedIsServerText ==
  ASSUME PathInv, Decrypted
  PROVE  Prefix(incoming', decryptedLen') \in ServerTexts
<1> DEFINE t == packet.plain
           n == Len(t)
           k == decryptedLen'
           m == Prefix(t, k)
<1>1. TypeOK /\ CommandIsWhole'
  <2>1. [Next]_vars
    BY DEF Next, Receive
  <2> QED
    BY <2>1, CommandStep DEF PathInv
<1>2. /\ packet' = packet /\ t \in Seq(Byte) /\ n \in Nat
      /\ PaddingIsValid(t, n) /\ k = UnpaddedLength(t, n)
  BY <1>1, DecryptedFacts, LenIsNat
<1>3. t = Pad(Prefix(incoming', k))
  BY <1>1, <1>2 DEF CommandIsWhole, Decrypted, Prefix
<1>4. Prefix(incoming', k) = m
  <2>1. k \in Nat /\ k < n
    BY <1>2, PadUndoesUnpad
  <2>2. \A i \in 1..n : incoming'[i] = t[i]
    BY <1>1, DecryptedFacts
  <2> HIDE DEF t, n, k
  <2>3. \A i \in 1..k : incoming'[i] = t[i]
    <3> SUFFICES ASSUME NEW i \in 1..k PROVE incoming'[i] = t[i]
      OBVIOUS
    <3>1. i \in 1..n
      BY <1>2, <2>1
    <3> QED
      BY <2>2, <3>1
  <2> QED
    BY <2>3, Zenon DEF Prefix, m
<1>5. packet \in Packets /\ packet.signed
  BY <1>1 DEF PathInv, SignedInv, TypeOK, Decrypted, DecryptPossible, None, MinLen, SigLen, Block
<1>6. t[n] \in 1..Block /\ k = n - t[n]
  BY <1>2, Zenon DEF PaddingIsValid, UnpaddedLength
<1> HIDE DEF k
<1>7. m \in {Prefix(t, n - v) : v \in 1..Block} /\ t = Pad(m)
  BY <1>3, <1>4, <1>6
<1> HIDE DEF m
<1>8. m \in ServerTexts
  BY <1>5, <1>7 DEF ServerTexts
<1> QED
  BY <1>4, <1>8 DEF k

LEMMA ChannelStep == PathInv /\ [Next]_vars => [Channel!Next]_(Channel!vars)
<1> SUFFICES ASSUME PathInv, [Next]_vars PROVE [Channel!Next]_(Channel!vars)
  OBVIOUS
<1>1. TypeOK
  BY DEF PathInv
<1>2. CASE ConnectionChanges \/ UNCHANGED vars
  BY <1>2 DEF ConnectionChanges, vars, rxVars, txVars, Handling, Saying, Said, Channel!vars
<1>3. CASE MessageArrives \/ Verified \/ NotVerified \/ DecryptRefused \/ DecryptFails
  BY <1>3 DEF MessageArrives, Verified, NotVerified, DecryptRefused, DecryptFails,
              DecryptPossible, RxReturns, txVars, Handling, Saying, Said, Channel!vars
<1>4. CASE Decrypted
  <2>1. /\ Handling = {} /\ Handling' = {Prefix(incoming', decryptedLen')}
        /\ Saying = {} /\ Saying' = {}
        /\ Said' = Said
    BY <1>1, <1>4 DEF TypeOK, Decrypted, DecryptPossible, txVars, Handling, Saying, Said
  <2>2. Prefix(incoming', decryptedLen') \in ServerTexts
    BY <1>4, DecryptedIsServerText
  <2> QED
    BY <2>1, <2>2 DEF Channel!Take, Channel!Next
<1>5. CASE CallbackReturns
  <2>1. Handling' = {} /\ Saying = {} /\ Saying' = {} /\ Said' = Said
    BY <1>5 DEF CallbackReturns, RxReturns, txVars, Handling, Saying, Said
  <2> QED
    BY <2>1 DEF Channel!Finish, Channel!Next
<1>6. CASE Publish /\ ~Send
  <2>1. Handling' = Handling /\ Said' = Said
    BY <1>6
    DEF Publish, rxVars, PublishCalled, Encrypt, EncryptFails, Sign, SignFails, Frame,
        FrameFails, SendFails, Handling, Said
  <2>2. CASE PublishCalled
    BY <2>1, <2>2 DEF PublishCalled, Saying, Channel!Ask, Channel!Next
  <2>3. CASE Encrypt \/ Sign \/ Frame
    BY <2>1, <2>3 DEF Encrypt, Sign, Frame, Saying, Channel!vars
  <2>4. CASE EncryptFails \/ SignFails \/ FrameFails \/ SendFails
    BY <2>1, <2>4 DEF EncryptFails, SignFails, FrameFails, SendFails, TxReturns, Saying,
                      Channel!Fail, Channel!Next
  <2> QED
    BY <1>6, <2>2, <2>3, <2>4 DEF Publish
<1>7. CASE Send
  <2> DEFINE n == Len(outgoing)
  <2>1. message \in Seq(Byte) /\ outgoing = Pad(message)
    BY <1>1, <1>7, MessageType DEF PathInv, OutgoingIsPad, Send
  <2>2. message = Prefix(outgoing, UnpaddedLength(outgoing, n))
    BY <2>1, UnpadUndoesPad DEF Prefix
  <2>3. published'.plain = outgoing /\ published' # None
    <3>1. published'.signed = TRUE /\ published'.plain = outgoing
      BY <1>7 DEF Send
    <3> QED
      BY <3>1 DEF None
  <2>4. Said' = {message}
    BY <2>2, <2>3 DEF Said
  <2>5. Saying = {message} /\ Saying' = {} /\ Handling' = Handling
    BY <1>7 DEF Send, TxReturns, rxVars, Saying, Handling
  <2> QED
    BY <2>4, <2>5 DEF Channel!Say, Channel!Next
<1> QED
  BY <1>2, <1>3, <1>4, <1>5, <1>6, <1>7 DEF Next, Receive, Publish

\* For every set of texts and packets, the device talks to its server as TextChannel
\* allows, replies from inside a handler included.
THEOREM ImplementsTextChannel == Spec => ChannelSafe
  BY PathInductive, ChannelInit, ChannelStep, PTL DEF Spec, ChannelSafe, Channel!Spec
=============================================================================
