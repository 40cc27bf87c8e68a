CONSTANTS
  Endpoint = {e1, e2, e3}
  NoEndpoint = NoEndpoint
  Name = {n1, n2}
  NoName = NoName
  Report = {r1, r2}
  NoReport = NoReport
  MAX_CACHE_SIZE = 2
  DAMAGE_PERIOD = 1
  MSG_CLOSEST_PLAYERS = 2
SYMMETRY Symmetry
SPECIFICATION Spec
INVARIANTS TypeOK LookupSound SlotsAccounted LatestOwnsName
PROPERTY ImplementsDirectory
