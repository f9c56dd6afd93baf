SPECIFICATION Spec
CONSTANTS
  page = page
  site = site
  list = list
  query = query
  except = except
  Docs = {page, file}
  Uploads = {file}
  Rules <- MCRules
  CrawlRules = {site}
  Exclusions = {except}
  Proposing = {query}
  Root <- MCRoot
  Claims <- MCClaims
  AutoAccept = TRUE
  Given = {site, query}
  Runs = {m1}
  Loads = {l1}
  MaxEdits = 3
  NoDoc = NoDoc
INVARIANTS TypeOK PinsHold MembersAreVouchedFor PublishedIsKnown
PROPERTIES DiffIsExact RerunIsQuiet RemovedStaysOut
