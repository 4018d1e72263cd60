SPECIFICATION FairUpdatesSpec
CONSTANTS
  r1 = r1
  c1 = c1
  c2 = c2
  None = None
  Malformed = Malformed
  NotFinite = NotFinite
  Requests <- MCRequests
  Listed <- MCListed
  Placements <- MCPlacements
  Modifications <- WholeEdits
  Ltps <- MCLtps
  Delays <- SomeDelays
  Injectable <- NoInjections
  EmitHistory = TRUE
  MaxOrders = 1
  MaxHistory = 3
  MaxCount = 0
  MaxScheduled = 2
  Clients <- MCClients
  Early <- MCClients
  Leavers <- FirstClient
VIEW WithoutResponse
INVARIANTS
  UpdatesTypeOK
  CurrentStateIsSent
  FilledIsAnnouncedOnly
PROPERTY
  CancelIsAnnounced
