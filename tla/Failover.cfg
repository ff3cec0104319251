SPECIFICATION FairSpec
CONSTANTS
  Conns = {c1, c2}
  h1 = h1
  h2 = h2
  Endpoints <- TwoEndpoints
  Cooldown = 2
  None = None
INVARIANTS TypeOK AlwaysTries
PROPERTIES HealthyEndpointFound
