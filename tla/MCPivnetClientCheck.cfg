CONSTANTS
  c1 = c1
  c2 = c2
  Calls <- MC_Calls
  TokenLengths <- MC_TokenLengths
SPECIFICATION Spec
INVARIANTS
  CheckComesBack
CHECK_DEADLOCK FALSE
