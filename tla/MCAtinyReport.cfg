SPECIFICATION FairSpec
CONSTANTS
  COAP_RESPONSE_TIMEOUT = 1
  COAP_MAX_RETRANSMIT = 0
  NoMid = 0
  Report = {1, 2, 3}
  MAX_BUFFER_REPORT_CNT = 2
  MaxLag = 0
  MaxUnderWay = 1
  Followed = {1}
INVARIANTS
  EachInOnePlace
PROPERTIES
  ImplementsReports
  CancelConcludesReports
  SuccessIsAcknowledged
  SentConcluded
  ObservedDrains
CHECK_DEADLOCK FALSE
