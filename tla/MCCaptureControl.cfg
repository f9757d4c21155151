CONSTANTS
  c1 = c1
  c2 = c2
  u1 = u1
  u2 = u2
  m1 = m1
  m2 = m2
  a1 = a1
  None = None
  NoClient = NoClient
  Clients <- MCClients
  Units <- MCUnits
  Modules <- MCModules
  AWGs <- MCAWGs
  AllUnits <- MCAllUnits
  UnitToModule <- MCUnitToModule
  Calls <- MCCalls
SPECIFICATION Spec
INVARIANTS
  CleanWhenFree
  MaskAsAsked
  ModulesAsConstructed
PROPERTIES
  StartsListed
  ModulesReadWhole
  WaveStartsAsked
