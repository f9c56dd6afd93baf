-------------------------------- MODULE Crawl --------------------------------
(***************************************************************************)
(* HttpCrawler.discover (adapters/crawl/http_crawler.py): what pages does  *)
(* a site have, under the address somebody gave? The robots rules come     *)
(* first. Then the sitemaps the site declares and the ones they point at;  *)
(* and if these list nothing under the address, the links of its pages,    *)
(* nearest first. What is found is filtered, sorted shallow first and cut  *)
(* at a number of pages.                                                   *)
(*                                                                         *)
(* A step is one request. The site does not change meanwhile; any request  *)
(* may fail, and which ones do is part of the site. An address is a model  *)
(* value; Clean gives it without its fragment and trailing slash.          *)
(***************************************************************************)
EXTENDS Places, Functions

CONSTANTS
  Pages, Maps,   \* addresses of pages, and of sitemaps (.xml)
  Root,          \* the address given
  Home,          \* the addresses on its host
  Under,         \* the clean addresses that begin with it
  Excluded,      \* the clean addresses include and exclude leave out
  Clean,         \* Clean[p]: p without fragment and trailing slash
  Place,         \* Place[p]: of a clean address in the order (depth, text)
  Own,           \* the sitemaps looked for beside those it declares
  Policies,      \* [pages, depth]: CrawlPolicy.max_pages and max_depth
  Sites          \* [robots, barred, broken, declared, lists, links]

ASSUME CrawlAssumption ==
  /\ Root \in Pages /\ Clean \in [Pages -> Pages] /\ \A p \in Pages : Clean[Clean[p]] = Clean[p]
  /\ Under \subseteq Home /\ Home \subseteq Pages \cup Maps
  /\ Pages \cap Maps = {} /\ Own \in Seq(Maps)
  /\ Place \in [Pages -> Nat] /\ \A p, q \in Pages : Place[p] = Place[q] => p = q
  /\ Policies \subseteq [pages : Nat \ {0}, depth : Nat]
  /\ \A s \in Sites :
       /\ s.robots \in {"rules", "absent", "refused", "unreachable"}
       /\ s.barred \subseteq Pages \cup Maps /\ s.broken \subseteq Pages \cup Maps
       /\ s.declared \in Seq(Maps)
       /\ s.lists \in [Maps -> Seq(Pages \cup Maps)] /\ s.links \in [Pages -> Seq(Pages)]

VARIABLES
  site,      \* the site
  policy,    \* the limits the job brings
  stage,     \* where discover is
  queue,     \* sitemaps to read, or [page, depth] to follow
  seen,      \* sitemaps read, or pages found
  found,     \* the pages, as they were found
  short,     \* the stage ended on its bound and not for want of work
  result     \* Discovery: urls, source, robots_allowed, capped

discovery == <<site, policy, stage, queue, seen, found, short, result>>

-----------------------------------------------------------------------------
\* _robots_for: 401 and 403 bar the whole host; any other failure bars nothing.
Barred ==
  CASE site.robots = "rules" -> site.barred
    [] site.robots = "refused" -> Home
    [] OTHER -> {}

\* fetch: barred addresses are not asked for, and a request may fail.
Reads(address) == address \notin Barred \cup site.broken

\* The places of s at which something stands for the first time.
Firsts(s) == {i \in DOMAIN s : \A j \in DOMAIN s : j < i => s[j] # s[i]}

\* _sitemap_candidates, without repetition.
Candidates == LET all == site.declared \o Own IN At(all, Firsts(all))

\* _filter, of one page.
Wanted(p) == p \in Under \ Excluded /\ p \notin Barred

\* _filter and the cap: each page once, shallow pages first.
Sorted(pages) ==
  LET kept == {p \in pages : Wanted(p)}
      places == Ordered({Place[p] : p \in kept})
  IN [k \in DOMAIN places |-> CHOOSE p \in kept : Place[p] = places[k]]
Filtered == Sorted({Clean[p] : p \in Range(found)})

NoPages == [urls |-> <<>>, source |-> "sitemap", allowed |-> TRUE, capped |-> FALSE]

DiscoveryInit ==
  /\ site \in Sites /\ policy \in Policies
  /\ stage = "idle" /\ queue = <<>> /\ seen = {} /\ found = <<>> /\ short = FALSE
  /\ result = NoPages

-----------------------------------------------------------------------------
Start ==
  /\ stage = "idle"
  /\ IF Root \in Barred
     THEN stage' = "done" /\ result' = [NoPages EXCEPT !.allowed = FALSE] /\ UNCHANGED queue
     ELSE stage' = "sitemaps" /\ queue' = Candidates /\ UNCHANGED result
  /\ UNCHANGED <<site, policy, seen, found, short>>

\* (mutant) A sitemap that was read is read again.
FollowsAgain(m) == m \in Home

\* A sitemap is read once, and one on another host is another site's.
Follows(m) == m \notin seen /\ m \in Home

ReadSitemap ==
  /\ stage = "sitemaps" /\ queue # <<>> /\ Len(found) < 4 * policy.pages
  /\ LET m == Head(queue)
         listed == IF Follows(m) /\ Reads(m) THEN site.lists[m] ELSE <<>>
     IN /\ queue' = Tail(queue) \o At(listed, {i \in DOMAIN listed : listed[i] \in Maps})
        /\ found' = found \o At(listed, {i \in DOMAIN listed : listed[i] \in Pages /\ Clean[listed[i]] \in Under})
        /\ seen' = seen \cup {m}
  /\ UNCHANGED <<site, policy, stage, short, result>>

Concluded(source) ==
  [urls |-> SubSeq(Filtered, 1, IF Len(Filtered) > policy.pages THEN policy.pages ELSE Len(Filtered)),
   source |-> source, allowed |-> TRUE, capped |-> Len(Filtered) > policy.pages]

\* The sitemaps are an answer if they list a page that is wanted.
SitemapsEnd ==
  /\ stage = "sitemaps" /\ (queue = <<>> \/ Len(found) >= 4 * policy.pages)
  /\ short' = (queue # <<>>)
  /\ IF Filtered # <<>>
     THEN /\ stage' = "done" /\ result' = Concluded("sitemap")
          /\ UNCHANGED <<queue, seen, found>>
     ELSE /\ stage' = "links" /\ queue' = <<[page |-> Root, depth |-> 0]>>
          /\ seen' = {Root} /\ found' = <<Root>>
          /\ UNCHANGED result
  /\ UNCHANGED <<site, policy>>

\* (mutant) The page found last is followed first.
Stacked(rest, new) == new \o rest

\* Nearest first.
Queued(rest, new) == rest \o new

FollowLinks ==
  /\ stage = "links" /\ queue # <<>> /\ Len(found) < policy.pages
  /\ LET from == Head(queue)
         links == IF from.depth < policy.depth /\ Reads(from.page)
                  THEN [i \in DOMAIN site.links[from.page] |-> Clean[site.links[from.page][i]]] ELSE <<>>
         new == At(links, {i \in Firsts(links) : links[i] \notin seen})
     IN /\ queue' = Queued(Tail(queue), [i \in DOMAIN new |-> [page |-> new[i], depth |-> from.depth + 1]])
        /\ found' = found \o new
        /\ seen' = seen \cup Range(new)
  /\ UNCHANGED <<site, policy, stage, short, result>>

LinksEnd ==
  /\ stage = "links" /\ (queue = <<>> \/ Len(found) >= policy.pages)
  /\ short' = (short \/ queue # <<>>)
  /\ stage' = "done" /\ result' = Concluded("links")
  /\ UNCHANGED <<site, policy, queue, seen, found>>

DiscoveryNext == Start \/ ReadSitemap \/ SitemapsEnd \/ FollowLinks \/ LinksEnd

\* The crawler runs in the worker that started it, one request after another,
\* and every request has a timeout.
DiscoverySpec == DiscoveryInit /\ [][DiscoveryNext]_discovery /\ WF_discovery(DiscoveryNext)

-----------------------------------------------------------------------------
(* What the site has, by definition                                        *)

\* The sitemaps of the site: the candidates, and what these list if they can be read.
Complete(K) ==
  /\ Range(Candidates) \cap Home \subseteq K
  /\ \A m \in K : Reads(m) => Range(site.lists[m]) \cap Maps \cap Home \subseteq K
Known == {m \in Maps : \A K \in SUBSET Maps : Complete(K) => m \in K}

Declared ==
  {Clean[p] : p \in Pages \cap UNION {Range(site.lists[m]) : m \in {k \in Known : Reads(k)}}}

\* The pages no more than n links away.
Near[n \in Nat] ==
  IF n = 0 THEN {Root}
  ELSE Near[n - 1] \cup
       UNION {{Clean[p] : p \in Range(site.links[q])} : q \in {r \in Near[n - 1] : Reads(r)}}

Linked == {Clean[p] : p \in Near[policy.depth]}

Whole == IF \E p \in Declared : Wanted(p) THEN Sorted(Declared) ELSE Sorted(Linked)

\* Whatever the site is like - sitemaps that point at each other or at
\* another host, requests that fail, links in circles - a discovery that did
\* not end on its bounds has exactly the pages the definition gives, each
\* once, or the shallowest of them and says that it was capped; and one that
\* did has only pages that are wanted, and is no longer than the cap.
FindsWhatIsThere ==
  stage = "done" /\ result.allowed =>
    /\ ~short => /\ result.urls = SubSeq(Whole, 1, IF Len(Whole) > policy.pages THEN policy.pages ELSE Len(Whole))
                 /\ result.capped <=> Len(Whole) > policy.pages
    /\ \A i \in DOMAIN result.urls :
         /\ Wanted(result.urls[i])
         /\ \A j \in DOMAIN result.urls : i < j => Place[result.urls[i]] < Place[result.urls[j]]
    /\ Len(result.urls) <= policy.pages

\* A discovery that was begun ends, on a site whose sitemaps or links go in
\* circles too.
DiscoveryEnds == stage # "idle" ~> stage = "done"

\* "A crawl ... that hits its cap stops and says so; it never silently
\* truncates" (docs/design/07, CNT-COL-14).
CapIsSaid ==
  stage = "done" /\ result.allowed /\ Len(result.urls) < Len(Whole) => result.capped

DiscoveryType ==
  /\ stage \in {"idle", "sitemaps", "links", "done"}
  /\ found \in Seq(Pages) /\ short \in BOOLEAN
  /\ result.urls \in Seq(Pages) /\ result.capped \in BOOLEAN /\ result.allowed \in BOOLEAN
  /\ IF stage \in {"idle", "sitemaps"} THEN queue \in Seq(Maps) /\ seen \subseteq Maps ELSE TRUE
=============================================================================
