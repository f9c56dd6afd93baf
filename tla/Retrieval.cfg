SPECIFICATION Spec
CONSTANTS
  d1 = d1
  d2 = d2
  d3 = d3
  ann = ann
  bob = bob
  Docs = {d1, d2, d3}
  Readers = {ann}
  Match <- MCMatch
  Name <- MCName
  Twins = {d2, d3}
  Unreadable = {}
  Unversioned = {}
  MaxVersion = 1
  MaxEdits = 1
  Shortlist = 2
  Budget = 1
  Rrf = 60
  Local = FALSE
INVARIANTS LateAnswersStayOut SilenceIsComplete AgreementStands
CONSTRAINT Undisturbed
