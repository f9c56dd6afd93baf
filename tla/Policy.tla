------------------------------- MODULE Policy --------------------------------
(***************************************************************************)
(* What a connector and a role may see of the documents an index holds     *)
(* (domain/scope.py, domain/role_rules.py). A document is a record; a      *)
(* pattern is the set of the paths and titles it matches; a root is a      *)
(* kind and what it names.                                                 *)
(***************************************************************************)
EXTENDS Naturals, FiniteSets, Sequences, SequencesExt

\* A value the source does not give: no path, no type, no date.
Unknown == "unknown"

\* SourceRoot.matches.
RootMatches(root, d) ==
  \/ root.kind = "space" /\ d.space = root.value
  \/ root.kind = "path"  /\ d.path # Unknown /\ d.path \in root.value
  \/ root.kind = "label" /\ root.value \in d.labels

\* _pattern_matches: a pattern may address the path or the title.
PatternMatches(pattern, d) == (pattern \cap {d.path, d.title}) \ {Unknown} # {}

\* evaluate: what is looked at, in the order it is looked at.
Checks(scope, d) ==
  << <<"no_matching_root", \A root \in scope.roots : ~RootMatches(root, d)>>,
     <<"include", scope.include # {} /\ \A p \in scope.include : ~PatternMatches(p, d)>>,
     <<"exclude", \E p \in scope.exclude : PatternMatches(p, d)>>,
     <<"labels_any", scope.labelsAny # {} /\ scope.labelsAny \cap d.labels = {}>>,
     <<"labels_none", scope.labelsNone \cap d.labels # {}>>,
     <<"doc_type", scope.types # {} /\ d.type # Unknown /\ d.type \notin scope.types>>,
     <<"too_old", d.updated # 0 /\ scope.after # 0 /\ d.updated < scope.after>>,
     <<"too_new", d.updated # 0 /\ scope.before # 0 /\ d.updated > scope.before>>,
     <<"sensitivity", d.rank > scope.ceiling>> >>

Evaluate(scope, d) ==
  LET first == SelectInSeq(Checks(scope, d), LAMBDA check : check[2])
  IN IF first = 0 THEN "in_scope" ELSE Checks(scope, d)[first][1]

Corpus(scope, docs) == {d \in docs : Evaluate(scope, d) = "in_scope"}

\* diff: what an edit of the scope adds, removes and leaves.
Diff(old, new, docs) ==
  LET was == Corpus(old, docs)
      now == Corpus(new, docs)
  IN [added |-> Cardinality(now \ was), removed |-> Cardinality(was \ now),
      unchanged |-> Cardinality(now \cap was)]

-----------------------------------------------------------------------------
\* RoleRule.matches: a rule with a space and a label asks for both, and a rule
\* with neither matches nothing.
RuleMatches(rule, d) ==
  /\ rule.space # Unknown => d.space = rule.space
  /\ rule.label # Unknown => rule.label \in d.labels
  /\ rule.space # Unknown \/ rule.label # Unknown

Matching(rules, effect, d) == {r \in rules : r.effect = effect /\ RuleMatches(r, d)}

\* (mutant) An allow outweighs a deny.
AllowWins(rules, d) ==
  \/ Matching(rules, "allow", d) # {}
  \/ Matching(rules, "deny", d) = {} /\ \A r \in rules : r.effect = "deny"

\* decide: a deny wins, an allow list is exhaustive, no rules do not narrow.
Allowed(rules, d) ==
  /\ Matching(rules, "deny", d) = {}
  /\ Matching(rules, "allow", d) # {} \/ \A r \in rules : r.effect = "deny"
=============================================================================
