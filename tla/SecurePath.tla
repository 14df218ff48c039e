------------------------------ MODULE SecurePath ------------------------------
(***************************************************************************)
(* The secure command and status path: mqttCallbackInternal and            *)
(* publishStatus of comms/mqtt_tls.cpp over encryptPacket, decryptPacket   *)
(* and their padding (security/aes_engine.cpp) and verifySignature and     *)
(* signData (security/ecdsa.cpp), with the lengths of the firmware.        *)
(*                                                                         *)
(* A payload is [signature][IV][ciphertext].  Encryption is ideal: of a    *)
(* ciphertext the model keeps the plaintext it was made from, and of a     *)
(* signature whether the peer made it over this IV and ciphertext.  All    *)
(* code runs in loopTask; a reply is published inside the command handler. *)
(***************************************************************************)
EXTENDS Integers, Sequences

CONSTANTS
  Messages,    \* the texts given to publishStatus
  Packets,     \* the payloads the broker may deliver
  MaxPayload,  \* longest payload PubSubClient hands over from its buffer
  TopicRoom    \* what topic and MQTT header take of that buffer

Block   == 16   \* AES block, and the IV
SigLen  == 64   \* P256 signature
BufLen  == 512  \* MQTT_MSG_BUFFER_SIZE
MinLen  == SigLen + Block + Block

Byte == 0..255

ASSUME PathAssumption ==
  /\ MaxPayload \in 0..BufLen
  /\ TopicRoom \in Nat
  /\ \A m \in Messages : m \in Seq(Byte)
  /\ \A p \in Packets :
       /\ p.length \in 0..MaxPayload
       /\ p.signed \in BOOLEAN
       /\ p.plain \in Seq(Byte)
       /\ Len(p.plain) =
            IF p.length > SigLen + Block THEN p.length - SigLen - Block ELSE 0

VARIABLES
  connected,     \* mqttClient.connected()
  rx,            \* where mqttCallbackInternal is
  packet,        \* the payload it was called with
  incoming,      \* incomingBuffer
  decryptedLen,  \* decrypted_len
  tx,            \* where publishStatus is
  message,       \* its argument
  outgoing,      \* plaintext of the packet in outgoingBuffer, or none
  encryptedLen,  \* encrypted_len
  published      \* the last payload handed to the broker, or none

rxVars == <<rx, packet, incoming, decryptedLen>>
txVars == <<tx, message, outgoing, encryptedLen>>
vars == <<connected, rxVars, txVars, published>>

None == [length |-> 0, signed |-> FALSE, plain |-> <<>>]

-----------------------------------------------------------------------------
(* PKCS#7 padding.                                                         *)

\* Mutant: a text of whole blocks is not padded.
PaddedLength_NoFullBlock(n) == n + ((Block - (n % Block)) % Block)

PaddedLength(n) == n + (Block - (n % Block))

Pad(s) ==
  [i \in 1..PaddedLength(Len(s)) |->
     IF i <= Len(s) THEN s[i] ELSE PaddedLength(Len(s)) - Len(s)]

\* Mutant: only the last byte of the padding is looked at.
PaddingIsValid_LastByte(b, n) ==
  /\ n # 0
  /\ n % Block = 0
  /\ b[n] \in 1..Block

\* pkcs7_unpad of the first n bytes of b returns true.
PaddingIsValid(b, n) ==
  /\ n # 0
  /\ n % Block = 0
  /\ b[n] \in 1..Block
  /\ \A i \in (n - b[n] + 1)..(n - 1) : b[i] = b[n]

\* What it then leaves in data_len.
UnpaddedLength(b, n) == n - b[n]

\* memcpy of s to the start of a buffer.
Copied(b, s) == [i \in 1..BufLen |-> IF i <= Len(s) THEN s[i] ELSE b[i]]

Cleared(b, n) == [i \in 1..BufLen |-> IF i <= n THEN 0 ELSE b[i]]

-----------------------------------------------------------------------------
Init ==
  /\ connected = FALSE
  /\ rx = "idle"
  /\ packet = None
  /\ incoming = [i \in 1..BufLen |-> 0]
  /\ decryptedLen = 0
  /\ tx = "idle"
  /\ message = <<>>
  /\ outgoing = <<>>
  /\ encryptedLen = 0
  /\ published = None

\* The client connects, or the connection is found lost.
ConnectionChanges ==
  /\ connected' = ~connected
  /\ UNCHANGED <<rxVars, txVars, published>>

-----------------------------------------------------------------------------
(* mqttCallbackInternal.                                                   *)

\* Mutant: a payload without a block of ciphertext is let through.
MessageArrives_TooShort ==
  /\ connected
  /\ rx = "idle" /\ tx = "idle"
  /\ \E p \in Packets : p.length \in (SigLen + Block)..BufLen /\ packet' = p
  /\ rx' = "verify"
  /\ UNCHANGED <<connected, incoming, decryptedLen, txVars, published>>

\* A payload of a length that is refused at once changes nothing.
MessageArrives ==
  /\ connected
  /\ rx = "idle" /\ tx = "idle"
  /\ \E p \in Packets : p.length \in MinLen..BufLen /\ packet' = p
  /\ rx' = "verify"
  /\ UNCHANGED <<connected, incoming, decryptedLen, txVars, published>>

\* mqttCallbackInternal returns; its locals are gone.
RxReturns ==
  /\ rx' = "idle"
  /\ packet' = None
  /\ decryptedLen' = 0

\* The server's public key was read and the chip found the signature valid.
Verified ==
  /\ rx = "verify"
  /\ packet.signed
  /\ rx' = "decrypt"
  /\ UNCHANGED <<connected, packet, incoming, decryptedLen, txVars, published>>

\* The signature is invalid, or the hash, the key or the chip failed.
NotVerified ==
  /\ rx = "verify"
  /\ RxReturns
  /\ UNCHANGED <<connected, incoming, txVars, published>>

\* The ciphertext is not whole blocks or does not fit, or no key could be set:
\* nothing has been written yet.
DecryptRefused ==
  /\ rx = "decrypt"
  /\ RxReturns
  /\ UNCHANGED <<connected, incoming, txVars, published>>

DecryptPossible ==
  /\ rx = "decrypt"
  /\ (packet.length - SigLen) % Block = 0
  /\ Len(packet.plain) <= BufLen

Decrypted ==
  /\ DecryptPossible
  /\ incoming' = Copied(incoming, packet.plain)
  /\ PaddingIsValid(incoming', Len(packet.plain))
  /\ decryptedLen' = UnpaddedLength(incoming', Len(packet.plain))
  /\ rx' = "callback"
  /\ UNCHANGED <<connected, packet, txVars, published>>

\* The cipher failed or the padding is wrong: the bytes written are cleared.
DecryptFails ==
  /\ DecryptPossible
  /\ incoming' = Cleared(incoming, Len(packet.plain))
  /\ RxReturns
  /\ UNCHANGED <<connected, txVars, published>>

\* commandCallback(incomingBuffer, decrypted_len) returns.
CallbackReturns ==
  /\ rx = "callback"
  /\ tx = "idle"
  /\ RxReturns
  /\ UNCHANGED <<connected, incoming, txVars, published>>

-----------------------------------------------------------------------------
(* publishStatus, from loop() or from the command handler.                 *)

\* publishStatus returns; its locals are gone, outgoingBuffer stays.
TxReturns ==
  /\ tx' = "idle"
  /\ message' = <<>>
  /\ encryptedLen' = 0

PublishCalled ==
  /\ connected
  /\ tx = "idle"
  /\ rx \in {"idle", "callback"}
  /\ tx' = "encrypt"
  /\ message' \in Messages
  /\ UNCHANGED <<connected, rxVars, outgoing, encryptedLen, published>>

\* Mutant: the size that is checked leaves out the padding.
Encrypt_UnpaddedCheck ==
  /\ tx = "encrypt"
  /\ message # <<>>
  /\ Block + Len(message) <= BufLen
  /\ outgoing' = Pad(message)
  /\ encryptedLen' = Block + PaddedLength(Len(message))
  /\ tx' = "sign"
  /\ UNCHANGED <<connected, rxVars, message, published>>

\* Mutant: commands and statuses share one buffer.
Encrypt_SharedBuffer ==
  /\ tx = "encrypt"
  /\ message # <<>>
  /\ Block + PaddedLength(Len(message)) <= BufLen
  /\ outgoing' = Pad(message)
  /\ incoming' = Copied(incoming, Pad(message))
  /\ encryptedLen' = Block + PaddedLength(Len(message))
  /\ tx' = "sign"
  /\ UNCHANGED <<connected, rx, packet, decryptedLen, message, published>>

Encrypt ==
  /\ tx = "encrypt"
  /\ message # <<>>
  /\ Block + PaddedLength(Len(message)) <= BufLen
  /\ outgoing' = Pad(message)
  /\ encryptedLen' = Block + PaddedLength(Len(message))
  /\ tx' = "sign"
  /\ UNCHANGED <<connected, rxVars, message, published>>

\* An empty text, one too long for the buffer, no memory, or the cipher failed:
\* outgoingBuffer is as it was, or holds no packet any more.
EncryptFails ==
  /\ tx = "encrypt"
  /\ outgoing' \in {outgoing, <<>>}
  /\ TxReturns
  /\ UNCHANGED <<connected, rxVars, published>>

Sign ==
  /\ tx = "sign"
  /\ tx' = "frame"
  /\ UNCHANGED <<connected, rxVars, message, outgoing, encryptedLen, published>>

SignFails ==
  /\ tx = "sign"
  /\ TxReturns
  /\ UNCHANGED <<connected, rxVars, outgoing, published>>

\* The signature and the encrypted packet are put together in finalPayload.
Frame ==
  /\ tx = "frame"
  /\ SigLen + encryptedLen <= BufLen
  /\ tx' = "send"
  /\ UNCHANGED <<connected, rxVars, message, outgoing, encryptedLen, published>>

FrameFails ==
  /\ tx = "frame"
  /\ SigLen + encryptedLen > BufLen
  /\ TxReturns
  /\ UNCHANGED <<connected, rxVars, outgoing, published>>

\* PubSubClient takes the payload if it fits beside its header and topic.
Send ==
  /\ tx = "send"
  /\ connected
  /\ SigLen + encryptedLen + TopicRoom <= BufLen
  /\ published' = [length |-> SigLen + encryptedLen, signed |-> TRUE, plain |-> outgoing]
  /\ TxReturns
  /\ UNCHANGED <<connected, rxVars, outgoing>>

SendFails ==
  /\ tx = "send"
  /\ TxReturns
  /\ UNCHANGED <<connected, rxVars, outgoing, published>>

-----------------------------------------------------------------------------
Receive ==
  \/ MessageArrives \/ Verified \/ NotVerified
  \/ DecryptRefused \/ Decrypted \/ DecryptFails \/ CallbackReturns
Publish ==
  \/ PublishCalled \/ Encrypt \/ EncryptFails \/ Sign \/ SignFails
  \/ Frame \/ FrameFails \/ Send \/ SendFails

Next == ConnectionChanges \/ Receive \/ Publish

Spec == Init /\ [][Next]_vars

-----------------------------------------------------------------------------
(* What is checked.                                                        *)

\* Every variable in its type, and what has been computed so far.
TypeOK ==
  /\ connected \in BOOLEAN
  /\ rx \in {"idle", "verify", "decrypt", "callback"}
  /\ packet \in Packets \cup {None}
  /\ incoming \in [1..BufLen -> Byte]
  /\ decryptedLen \in Nat
  /\ tx \in {"idle", "encrypt", "sign", "frame", "send"}
  /\ message \in Messages \cup {<<>>}
  /\ outgoing \in Seq(Byte)
  /\ encryptedLen \in Nat
  /\ rx \in {"verify", "decrypt", "callback"} => packet.length >= MinLen
  /\ rx \in {"verify", "decrypt"} => tx = "idle"
  /\ tx # "idle" => message \in Messages

\* No buffer is ever written or read past its end, whatever arrives and whatever
\* is published: outgoingBuffer (aes_engine.cpp:69), incomingBuffer (:142) and
\* finalPayload (mqtt_tls.cpp:412).
BuffersFit ==
  /\ tx \in {"sign", "frame", "send"} => encryptedLen = Block + Len(outgoing)
  /\ tx \in {"sign", "frame", "send"} => encryptedLen <= BufLen
  /\ tx = "send" => SigLen + encryptedLen <= BufLen
  /\ rx = "callback" => decryptedLen < Len(packet.plain) /\ Len(packet.plain) <= BufLen

\* The handler works on exactly the text the peer encrypted and signed, also after
\* a longer message, a message that failed halfway, and the reply it publishes.
CommandIsWhole ==
  rx = "callback" =>
    /\ packet.signed
    /\ packet.plain = Pad([i \in 1..decryptedLen |-> incoming[i]])

\* p passes every check this code makes of what it receives, and decrypts to m.
DecodesTo(p, m) ==
  LET n == Len(p.plain) IN
  /\ p.signed
  /\ p.length \in MinLen..BufLen
  /\ p.length = SigLen + Block + n
  /\ PaddingIsValid(p.plain, n)
  /\ m = [i \in 1..UnpaddedLength(p.plain, n) |-> p.plain[i]]

\* What reaches the broker could be received by this code itself, and is the text
\* publishStatus was called with, for every length and also inside a handler.
PublishedDecodes ==
  [][published' # published => DecodesTo(published', message)]_vars

Prefix(b, n) == [i \in 1..n |-> b[i]]

\* The texts whose padding the server has encrypted and signed.
ServerTexts ==
  UNION {{m \in {Prefix(p.plain, Len(p.plain) - k) : k \in 1..Block} : p.plain = Pad(m)} :
           p \in {q \in Packets : q.signed}}

\* What the handler works on, what publishStatus was called with, and what the
\* broker holds, padding removed.
Handling == IF rx = "callback" THEN {Prefix(incoming, decryptedLen)} ELSE {}
Saying == IF tx = "idle" THEN {} ELSE {message}
Said ==
  IF published = None THEN {}
  ELSE {Prefix(published.plain, UnpaddedLength(published.plain, Len(published.plain)))}

Channel == INSTANCE TextChannel WITH
  DeviceTexts <- Messages, handling <- Handling, saying <- Saying, said <- Said

\* Two directions over packets, buffers and paddings behave as a channel of texts:
\* a reply published inside a handler leaves the handler's text alone, and no other
\* text than the one asked for ever reaches the broker.
ChannelSafe == Channel!Spec
=============================================================================
