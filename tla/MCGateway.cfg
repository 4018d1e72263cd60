SPECIFICATION Spec
CONSTANTS
  r1 = r1
  r2 = r2
  s1 = s1
  s2 = s2
  None = None
  Text = Text
  Chars = {"a", "b", ":"}
  Forever = Forever
  Endpoints = {"user.margins", "quote"}
  Slots <- MCSlots
  Calls <- MCCalls
  Headers <- MCHeaders
  LatencyBodies <- MCLatencyBodies
  ErrorBodies <- MCErrorBodies
  Auths <- MCAuths
  Latencies <- MCLatencies
  Sockets <- MCSockets
  Names <- MCNames
  Params <- MCParams
SYMMETRY Symmetry
VIEW WithoutAnswer
INVARIANTS
  TypeOK
  LatencyStaysValid
  DoorsAgree
PROPERTIES
  LatencyAnswerIsHonest
  ImplementsErrorBudget
  DisconnectDropsItsTargets
