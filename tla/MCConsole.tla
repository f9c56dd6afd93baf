------------------------------ MODULE MCConsole ------------------------------
(* An instance of Console for TLC: three documents, two scopes, the rules   *)
(* that tell a deny, an allow and both apart; two spellings of one word;    *)
(* two sources, one of which holds its figures longer; three pages in two   *)
(* sections or in none, with two chips for them.                            *)
EXTENDS Console

CONSTANTS api, Api, figures, prices, k1, k2, p1, p2, p3

Document(space, path, labels, type, updated, rank) ==
  [space |-> space, path |-> path, title |-> path, labels |-> labels,
   type |-> type, updated |-> updated, rank |-> rank]

Policies == [roots |-> {[kind |-> "space", value |-> "S"]}, include |-> {}, exclude |-> {},
             labelsAny |-> {}, labelsNone |-> {}, types |-> {}, after |-> 0, before |-> 0, ceiling |-> 2]

MCDocuments ==
  { Document("S", "a", {}, "policy", 2, 1),
    Document("S", "b", {"hr"}, Unknown, 0, 1),
    Document("T", "c", {"hr"}, "guide", 1, 2) }

MCScopes ==
  { Policies,
    [Policies EXCEPT !.roots = @ \cup {[kind |-> "label", value |-> "hr"]}, !.exclude = {{"b"}}],
    [Policies EXCEPT !.roots = {[kind |-> "path", value |-> {"a", "b", "c"}]},
                     !.types = {"guide"}, !.after = 1, !.ceiling = 1] }

Rule(effect, space, label) == [effect |-> effect, space |-> space, label |-> label]
MCRules ==
  { {}, {Rule("allow", "S", Unknown), Rule("deny", Unknown, "hr")}, {Rule("allow", "S", "hr")} }

MCTerms == {api, Api}
MCWord == [t \in MCTerms |-> api]

MCSources == {figures, prices}
MCTtl == [s \in MCSources |-> IF s = figures THEN 1 ELSE 0]
MCPermitted == [s \in MCSources |-> IF s = figures THEN {k1, k2} ELSE {k1}]

MCDocIds == {p1, p2, p3}
MCPlace == [d \in MCDocIds |-> CASE d = p1 -> 1 [] d = p2 -> 2 [] d = p3 -> 3]
MCTitles == {"fees", "rates"}
MCSpelled == [t \in MCTitles |-> IF t = "fees" THEN 1 ELSE 2]
Page(title, section, size, chunks, body) ==
  [title |-> title, section |-> section, size |-> size, chunks |-> chunks, text |-> body]
MCPages ==
  { Page("rates", "loans", 0, 2, "one"),
    Page("rates", "cards", 0, 1, "two"),
    Page("fees", NoSection, 2, 0, "one") }
=============================================================================
