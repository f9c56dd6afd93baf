SPECIFICATION ServiceSpec
CONSTANTS
  MaxPassages = 1
  MaxPoints = 1
  Sentences <- MCSentences
  MaxSentences = 2
  Chunks = {p1, p2, p3}
  MaxParts = 2
  MaxRead = 2
  MaxEvidence = 2
  root = root
  rootSlash = rootSlash
  a = a
  b = b
  c = c
  d = d
  e = e
  away = away
  own = own
  more = more
  foreign = foreign
  Pages <- MCPages
  Maps <- MCMaps
  Root = rootSlash
  Home <- MCHome
  Under <- MCUnder
  Excluded = {}
  Clean <- MCClean
  Place <- MCPlace
  Policies <- MCPolicies
  Sites <- MCSites
  Own <- MCOwn
INVARIANTS ShownIsSupported OutageIsNotSilence ReportIsHonest FindsWhatIsThere
PROPERTIES StreamsEnd DiscoveryEnds
