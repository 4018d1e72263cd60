SPECIFICATION Spec
CONSTANTS
  ApiKeys <- MCApiKeys
  LIMITS <- MCLimits
  Enabled = TRUE
  None = None
  MaxTime = 1
  MaxRequests = 2
VIEW WithoutAnswer
INVARIANT
  TypeOK
PROPERTY
  ImplementsThrottle
