SPECIFICATION Spec
CONSTANTS
  Documents <- MCDocuments
  Scopes <- MCScopes
  Rules <- MCRules
  NoRole = NoRole
  Knobs = {reranker}
  Editors = {e1, e2}
  Questions = {q1}
  MaxVersion = 2
  MaxRequests = 2
  api = api
  Api = Api
  Terms <- MCTerms
  Word <- MCWord
  Passes = {d1, d2}
  figures = figures
  prices = prices
  k1 = k1
  k2 = k2
  Keys = {k1, k2}
  NoKey = NoKey
  Sources <- MCSources
  NoSource = NoSource
  Ttl <- MCTtl
  Permitted <- MCPermitted
  Limit = 1
  Readers = {r1, r2}
  MaxHandlers = 2
  ThreadIds = {t1, t2}
  Writers = {w1, w2, w3}
  Complaints = {f1}
  Cases = {c1, c2}
  NoThread = NoThread
  NoCase = NoCase
  MaxTurns = 2
  p1 = p1
  p2 = p2
  p3 = p3
  DocIds <- MCDocIds
  Place <- MCPlace
  Titles <- MCTitles
  Generic = {}
  Spelled <- MCSpelled
  Pages <- MCPages
  NoSection = NoSection
  NoText = NoText
  Chips = 2
  Visitors = {v1, v2}
  MaxCrawls = 1
INVARIANTS DecisionsStand QuestionsUseWhatIsAgreed HeldUnderTheSource TranscriptIsWhole ResultsAreComplete OffersSpanTheCorpus
CHECK_DEADLOCK FALSE
