SPECIFICATION Spec
CONSTANTS
  d1 = d1
  d2 = d2
  d3 = d3
  ann = ann
  bob = bob
  Docs = {d1}
  Readers = {ann, bob}
  Match <- MCMatch
  Name <- MCName
  Twins = {}
  Unreadable = {}
  Unversioned = {}
  MaxVersion = 2
  MaxEdits = 2
  Shortlist = 2
  Budget = 1
  Rrf = 60
  Local = FALSE
INVARIANT PassagesWereHeld
PROPERTY ShowsWhatIsOpen
SYMMETRY MCSymmetry
CONSTRAINT ChannelsAnswer
