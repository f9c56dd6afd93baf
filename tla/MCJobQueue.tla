---------------------------- MODULE MCJobQueue ----------------------------
(***************************************************************************)
(* Two instances of JobQueue for TLC. In both, two asks with different     *)
(* payloads share a key.                                                   *)
(***************************************************************************)
EXTENDS JobQueue

Ask(kind, target, payload) == [key |-> <<kind, target>>, payload |-> payload]

\* Two crawl rules of one knowledgebase: which site to plan is in the payload,
\* the key names the knowledgebase only. The blog turns out to have no pages, so
\* that only the plan of the docs is followed by a load.
Plan(site) == Ask("crawl_plan", "kb", site)
Load(site) == Ask("crawl_load", "kb", site)

CrawlOffered == {Plan("docs"), Plan("blog")}
CrawlAsks == CrawlOffered \cup {Load("docs")}
CrawlFollowUps == [q \in CrawlAsks |-> IF q = Plan("docs") THEN {Load("docs")} ELSE {}]

\* Two knowledgebases with a connector each, both refreshed: the re-index of a
\* connector is enqueued without an id, so all of them share one key.
Connectors == {"dms", "wiki"}
Refresh(connector) == Ask("refresh", connector, connector)
Index(connector) == Ask("index", "", connector)

RefreshOffered == {Refresh(connector) : connector \in Connectors}
RefreshAsks == RefreshOffered \cup {Index(connector) : connector \in Connectors}
RefreshFollowUps ==
  [q \in RefreshAsks |-> IF q \in RefreshOffered THEN {Index(q.payload)} ELSE {}]
=============================================================================
