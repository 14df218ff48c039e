\* PubSubClient's buffer of 512 bytes holds its header of 7 bytes and the topics
\* "lock/01/command" (15 bytes) and "lock/01/status/lock" (19 bytes).
SPECIFICATION Spec
CONSTANTS
  Messages <- MCMessages
  Packets <- MCPackets
  MaxPayload = 490
  TopicRoom = 26
INVARIANTS
  TypeOK
  BuffersFit
  CommandIsWhole
PROPERTIES
  PublishedDecodes
  ChannelSafe
