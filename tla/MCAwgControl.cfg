CONSTANTS
  c1 = c1
  c2 = c2
  a1 = a1
  a2 = a2
  Clients <- MCClients
  AWGs <- MCAWGs
  Ops <- MCStartOps
  ArgLists <- MCArgLists
  NoClient = NoClient
SPECIFICATION FaultySpec
INVARIANTS
  NoLostUpdate
  CleanWhenFree
  StartsOnlyListedUnlessAborted
  StartDelivers
