SPECIFICATION Spec
SYMMETRY Symmetry
CONSTANTS
  c1 = c1
  c2 = c2
  None = None
  Tokens = {1, 2, 3, 4}
  Grain = 2
  Instrument <- MCInstrument
  Seeds <- MCSeeds
  Draw <- MCDraw
  Now = 61
  Unit = 4
  MaxWord = 63
  MaxShort = 40
  MaxSteps = 3
  Connections <- MCConnections
  Subscriptions <- MCSubscriptions
  Requested <- MCRequested
  MaxDays = 2
INVARIANTS
  TypeOK
  PriceStaysInBand
  Reproducible
  DayRangeIsExact
  OiRange
  BookStraddlesLast
  QuoteAgreesWithStream
  ShownStaysWithinDay
PROPERTIES
  FramesFollowSpec
  OverflowLastsUntilReset
