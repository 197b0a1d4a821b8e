SPECIFICATION Safety
CONSTANTS
  c1 = c1
  c2 = c2
  Clients = {c1, c2}
  Mappings <- TwoPorts
  Uses <- TwoPortsUses
  Omissions <- Lacking
  Words = TRUE
  LeftBehind <- SecondCaller
  MaxCalls = 3
  Nothing = Nothing
INVARIANT TypeOK
INVARIANT OwnerIsRight
PROPERTY AtomicOperations
