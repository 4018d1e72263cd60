SPECIFICATION HeartbeatSpec
CONSTANTS
  Known <- MCKnown
  Unknown <- MCUnknown
  Messages <- MCMessages
  None = None
  Heartbeat = Heartbeat
  Malformed = Malformed
\* A connection ends for good.
CHECK_DEADLOCK FALSE
PROPERTY
  NeverSilent
