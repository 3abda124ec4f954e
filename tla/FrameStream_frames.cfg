SPECIFICATION FairSpec
CONSTANTS
  m1 = m1
  m2 = m2
  m3 = m3
  Messages <- Three
  Size <- ThreeSent
  Prefix = 2
  Block = 2
  MaxPayload = 4
  Unchecked <- Large
  Receivers = {"read_frame", "decodeFrames"}
  NoOne = NoOne
INVARIANTS
  TypeOK
  StreamIsFrames
  InSendOrder
  NothingHeldBack
PROPERTIES
  EncodedArrives
CHECK_DEADLOCK FALSE
