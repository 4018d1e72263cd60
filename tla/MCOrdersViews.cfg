SPECIFICATION Spec
CONSTANTS
  r1 = r1
  r2 = r2
  None = None
  Malformed = Malformed
  NotFinite = NotFinite
  Requests <- MCRequests
  Listed <- MCListed
  Placements <- MCPlacements
  Modifications <- MCModifications
  Ltps <- MCLtps
  Delays <- MCDelays
  Injectable <- NoInjections
  EmitHistory = TRUE
  MaxOrders = 1
  MaxHistory = 3
  MaxCount = 1
  MaxScheduled = 1
SYMMETRY Symmetry
INVARIANT
  ViewsAgree
