SPECIFICATION FairSpec
CONSTANTS
  Caller = {c1,c2}
  Index = {p1}
  Repo = {r1,r2}
  Digest = {d1}
  Origins <- TwoOrigins
  TTL = 2
  FetchMax = 2
  TokenTTL = 1
  R1 = r1
  Loads <- SomeLoads
  None = None
INVARIANTS BoundedStaleness RedirectIsDigest FlightInv
PROPERTIES EveryRequestEnds
