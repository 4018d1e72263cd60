SPECIFICATION UpdatesSpec
CONSTANTS
  r1 = r1
  c1 = c1
  c2 = c2
  None = None
  Malformed = Malformed
  NotFinite = NotFinite
  Requests <- MCRequests
  Listed <- MCListed
  Placements <- MCPlacements
  Modifications <- TwoEdits
  Ltps <- MCLtps
  Delays <- OneDelay
  Injectable <- NoInjections
  EmitHistory = TRUE
  MaxOrders = 1
  MaxHistory = 5
  MaxCount = 0
  MaxScheduled = 2
  Clients <- MCClients
  Early <- FirstClient
  Leavers <- NoClients
VIEW WithoutResponse
INVARIANTS
  LastFrameIsCurrent
