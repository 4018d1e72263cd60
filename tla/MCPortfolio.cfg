SPECIFICATION Spec
CONSTANTS
  r1 = r1
  None = None
  Malformed = Malformed
  NotFinite = NotFinite
  Requests <- MCRequests
  Listed <- MCListed
  LotSize <- MCLotSize
  Cent = 2
  Placements <- MCPlacements
  Modifications <- MCModifications
  Ltps <- MCLtps
  Delays <- MCDelays
  Injectable <- MCInjectable
  EmitHistory = TRUE
  MaxOrders = 2
  MaxHistory = 3
  MaxCount = 0
  MaxScheduled = 1
VIEW WithoutResponse
INVARIANTS
  PositionsMatchTrades
  PnlIsMarkToMarket
PROPERTY
  PositionsOnlyGrow
