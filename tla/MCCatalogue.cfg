CONSTANTS
  alice = alice
  bob = bob
  f1 = f1
  r1 = r1
  r2 = r2
  g1 = g1
  d1 = d1
  u1 = u1
  k1 = k1
  k2 = k2
  empty = empty
  nothing = nothing
  Clients <- MC_Clients
  Files <- MC_Files
  Releases <- MC_Releases
  FileGroups <- MC_FileGroups
  DependencySpecifiers <- MC_DependencySpecifiers
  UpgradePathSpecifiers <- MC_UpgradePathSpecifiers
  Existing <- MC_Existing
  Keys <- MC_Keys
  Empty <- empty
  Nothing <- nothing
  MaxCalls <- MC_MaxCalls
SPECIFICATION Spec
SYMMETRY Symmetry
INVARIANTS
  TypeOK
  SubmitsWhatIsSet
PROPERTIES
  GroupFilesChangeOnlyWhenAsked
  KeysAreFixed
  RelationsChangeOnlyWhenAsked
  OneEffectPerCall
  AvailabilityOnlyAsAsked
  StaysConfirmed
CHECK_DEADLOCK FALSE
