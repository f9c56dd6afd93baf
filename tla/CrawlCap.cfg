SPECIFICATION DiscoverySpec
CONSTANTS
  root = root
  rootSlash = rootSlash
  a = a
  b = b
  c = c
  d = d
  e = e
  away = away
  own = own
  more = more
  foreign = foreign
  Pages <- MCPages
  Maps <- MCMaps
  Root = rootSlash
  Home <- MCHome
  Under <- MCUnder
  Excluded = {}
  Clean <- MCClean
  Place <- MCPlace
  Policies <- MCPolicies
  Sites <- MCSites
  Own <- MCOwn
INVARIANT CapIsSaid
CHECK_DEADLOCK FALSE
