SPECIFICATION Safety
CONSTANTS
  c1 = c1
  c2 = c2
  Clients = {c1, c2}
  Mappings <- OnePort
  Uses <- OnePortUses
  Omissions <- Complete
  Words = FALSE
  LeftBehind = {}
  MaxCalls = 2
  Nothing = Nothing
INVARIANT FindReportsEnabled
