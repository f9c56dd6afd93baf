------------------------------- MODULE MCCrawl -------------------------------
(* An instance of Crawl for TLC: six pages under the root, the root in      *)
(* another spelling, and a page of another host; two sitemaps of the site   *)
(* and one of another host; sites that differ in what they link and list,   *)
(* in what they bar and in which requests fail.                             *)
EXTENDS Crawl

CONSTANTS root, rootSlash, a, b, c, d, e, away, own, more, foreign

MCPages == {root, rootSlash, a, b, c, d, e, away}
MCOwn == <<own>>
MCMaps == {own, more, foreign}
MCUnder == {root, a, b, c, d, e}
MCHome == MCUnder \cup {rootSlash, own, more}
MCClean == [p \in MCPages |-> IF p = rootSlash THEN root ELSE p]
MCPlace == [p \in MCPages |-> CASE p = root -> 0 [] p = a -> 1 [] p = b -> 2 [] p = c -> 3
                                [] p = d -> 4 [] p = e -> 5 [] p = rootSlash -> 6 [] OTHER -> 7]
MCPolicies == {[pages |-> 2, depth |-> 3], [pages |-> 8, depth |-> 1], [pages |-> 8, depth |-> 3]}

Links(ofRoot, ofA, ofB, ofC, ofD) ==
  [p \in MCPages |-> CASE p \in {root, rootSlash} -> ofRoot [] p = a -> ofA [] p = b -> ofB
                       [] p = c -> ofC [] p = d -> ofD [] p = away -> <<b>> [] OTHER -> <<>>]

MCLinks ==
  {Links(ofRoot, ofA, ofB, ofC, ofD) :
     ofRoot \in {<<>>, <<a, b>>, <<away, a, a>>}, ofA \in {<<c>>, <<b, rootSlash>>},
     ofB \in {<<>>, <<d>>}, ofC \in {<<d>>}, ofD \in {<<>>, <<e, a>>}}

MCLists ==
  {[m \in MCMaps |-> CASE m = own -> ofOwn [] m = more -> ofMore [] OTHER -> <<b>>] :
     ofOwn \in {<<>>, <<more>>, <<b, rootSlash, more>>, <<foreign, away>>,
               <<a, b, c, a, b, c, a, b, more, root>>},
     ofMore \in {<<>>, <<c, own>>, <<own>>}}

Site(robots, broken, lists, links) ==
  [robots |-> robots, barred |-> {b}, broken |-> broken, declared |-> <<more>>,
   lists |-> lists, links |-> links]

MCSites ==
  {Site(robots, broken, lists, links) :
     robots \in {"rules", "absent"}, broken \in {{}, {own}, {a}}, lists \in MCLists, links \in MCLinks}
  \cup {Site(robots, {}, [m \in MCMaps |-> <<>>], Links(<<a>>, <<b>>, <<c>>, <<>>, <<>>)) :
          robots \in {"refused", "unreachable"}}
=============================================================================
