CONSTANTS
  alice = alice
  bob = bob
  g1 = g1
  m1 = m1
  r1 = r1
  nil = nil
  nothing = nothing
  Clients <- MC_Clients
  Groups <- MC_Groups
  Members <- MC_Members
  Releases <- MC_Releases
  Texts <- MC_Texts
  Empty <- MC_Empty
  Nil <- MC_Nil
  Nothing <- nothing
  MaxCalls <- MC_MaxCalls
SPECIFICATION Spec
SYMMETRY Symmetry
INVARIANTS
  TypeOK
PROPERTIES
  TextsAreNeverBlanked
  GrantsAccess
CHECK_DEADLOCK FALSE
