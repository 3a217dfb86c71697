CONSTANTS
  c1 = c1
  c2 = c2
  Calls <- MC_Calls
  TokenLengths <- MC_TokenLengths
SPECIFICATION FairSpec
INVARIANTS
  TypeOK
  CheckContract
  RateLimitIsRecognised
  NilMeansExpectedResponse
PROPERTIES
  LegacyCallsReturn
CHECK_DEADLOCK FALSE
