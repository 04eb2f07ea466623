SPECIFICATION FairSpec
CONSTANTS
  COAP_RESPONSE_TIMEOUT = 1
  COAP_MAX_RETRANSMIT = 3
  NoMid = 0
  MidPool = {1, 2, 3}
  LocPool = {a, b, c, d}
  NoLoc = NoLoc
  UpdateAfter = 1
  MaxLag = 0
  MaxLife = 2
  MaxAnswers = 2
  MaxTrouble = 2
INVARIANTS
  PendingIsServed
  SameRegistration
PROPERTY
  Recovers
CHECK_DEADLOCK FALSE
