SPECIFICATION FairSpec
CONSTANTS
  COAP_RESPONSE_TIMEOUT = 1
  COAP_MAX_RETRANSMIT = 1
  NoMid = 0
  MidPool = {1, 2}
  LocPool = {a, b, c}
  NoLoc = NoLoc
  UpdateAfter = 1
  MaxLag = 0
  MaxLife = 1
  MaxAnswers = 2
  MaxTrouble = 1
PROPERTY
  TransactionEnds
CHECK_DEADLOCK FALSE
