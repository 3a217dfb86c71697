CONSTANTS
  f1 = f1
  f2 = f2
  o1 = o1
  Fetchers <- MC_Fetchers
  Others <- MC_Others
  MaxCalls <- MC_MaxCalls
SPECIFICATION Spec
INVARIANTS
  RedirectBecomesLink
CHECK_DEADLOCK FALSE
