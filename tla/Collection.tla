---------------------------- MODULE Collection ----------------------------
(***************************************************************************)
(* A knowledgebase of AskContent: its source rules, its member table and   *)
(* everyone who writes to that table.                                      *)
(*                                                                         *)
(*   - people add and delete rules, pin documents in or out and upload     *)
(*     files (handlers of api/extra.py, one transaction each);             *)
(*   - materialise reads the rules, evaluates one after the other, reads   *)
(*     the table and writes the difference: one READ COMMITTED             *)
(*     transaction, so others commit between any two of its statements;    *)
(*   - a crawl plans a site (one transaction), then loads it page by page: *)
(*     fetch, commit the member row, publish to the store and the index    *)
(*     (services/crawl_planner.py, services/publish.py).                   *)
(*                                                                         *)
(* A document is a name, a rule is an id with what it finds; titles, dates *)
(* and hashes are left out. Evaluations stay below their caps.             *)
(***************************************************************************)
EXTENDS Naturals, FiniteSets

CONSTANTS
  Docs,         \* document ids: urls, index ids and upload:<id>
  Uploads,      \* the ids of uploads
  Rules,        \* ids a rule can get; a new rule never gets an old id
  CrawlRules, Exclusions, Proposing,   \* kind, effect and enumerable of a rule
  Root,         \* Root[r]: config.root of a crawl rule
  Claims,       \* Claims[r]: what a rule finds where the index (or site) has it
  AutoAccept,   \* collection.auto_accept_enumerable
  Given,        \* the rules the collection has to begin with
  Runs,         \* materialisations that can be under way at once
  Loads,        \* crawl loads that can be under way at once
  MaxEdits,     \* bound: what people do in a behaviour, and index changes
  NoDoc

ASSUME DocAssumption == Uploads \subseteq Docs /\ NoDoc \notin Docs

ASSUME RuleAssumption ==
  /\ CrawlRules \subseteq Rules /\ Exclusions \subseteq Rules /\ Proposing \subseteq Rules
  /\ CrawlRules \cap Proposing = {}
  /\ Claims \in [Rules -> SUBSET (Docs \ Uploads)]
  /\ Given \subseteq Rules
  /\ AutoAccept \in BOOLEAN
  /\ MaxEdits \in Nat

VARIABLES
  rules,      \* askcontent_collection_rule: the ids that are there
  used,       \* ids given out so far
  indexed,    \* the documents the index holds
  row,        \* askcontent_collection_member
  upload,     \* askcontent_upload.status
  mat,        \* each materialise in progress
  load,       \* each load in progress
  published,  \* what the publisher has put in the store and the index
  fetched,    \* history: pages a load has fetched and committed
  vouched,    \* history: documents pinned in, or not modified says their site
  loose,      \* history: pins a crawl wrote over, or a run may have overtaken
  stale,      \* history: materialisations others have committed under
  edits

sources == <<rules, used, indexed>>
crawl == <<load, published, fetched>>
vars == <<sources, row, upload, mat, crawl, vouched, loose, stale, edits>>

States == {"none", "planned", "failed", "proposed", "member", "removed"}
Pins == {"none", "in", "out"}
Row == [state : States, pin : Pins, by : SUBSET Rules, crawled : BOOLEAN]

\* No row in the table.
NoRow == [state |-> "none", pin |-> "none", by |-> {}, crawled |-> FALSE]

Exists(d) == row[d].state # "none"

Idle == [step |-> "idle", left |-> {}, found |-> [d \in Docs |-> {}], out |-> {},
         remove |-> {}]
Run == [step : {"idle", "evaluating", "compared"},
        left : SUBSET Rules,              \* rules read and not evaluated yet
        found : [Docs -> SUBSET Rules],   \* include: who contributed a document
        out : SUBSET Docs,                \* exclude
        remove : SUBSET Docs]             \* what the diff removes

Resting == [step |-> "idle", pending |-> {}, doc |-> NoDoc]
Load ==
  [step : {"idle", "page"}, pending : SUBSET Docs, doc : {NoDoc}]
    \cup [step : {"publish"}, pending : SUBSET Docs, doc : Docs]

TypeOK ==
  /\ rules \in SUBSET Rules /\ used \in SUBSET Rules /\ indexed \in SUBSET Docs
  /\ row \in [Docs -> Row]
  /\ upload \in [Uploads -> {"absent", "pending", "accepted", "deleted"}]
  /\ mat \in [Runs -> Run]
  /\ load \in [Loads -> Load]
  /\ published \in SUBSET Docs /\ fetched \in SUBSET Docs
  /\ vouched \in SUBSET Docs /\ loose \in SUBSET Docs /\ stale \in SUBSET Runs
  /\ edits \in Nat

Init ==
  /\ rules = Given /\ used = Given
  /\ indexed = UNION {Claims[r] : r \in Rules \ CrawlRules}
  /\ row = [d \in Docs |-> NoRow]
  /\ upload = [u \in Uploads |-> "absent"]
  /\ mat = [m \in Runs |-> Idle]
  /\ load = [l \in Loads |-> Resting]
  /\ published = {} /\ fetched = {} /\ vouched = {} /\ loose = {} /\ stale = {}
  /\ edits = 0

\* Whoever commits a change overtakes the materialisations under way.
Overtake == stale' = stale \cup {m \in Runs : mat[m].step # "idle"}

Edit == edits < MaxEdits /\ edits' = edits + 1

-----------------------------------------------------------------------------
(* What people do                                                          *)

AddRule(r) ==
  /\ Edit
  /\ r \notin used
  /\ rules' = rules \cup {r} /\ used' = used \cup {r}
  /\ Overtake
  /\ UNCHANGED <<indexed, row, upload, mat, crawl, vouched, loose>>

\* Membership is untouched.
DeleteRule(r) ==
  /\ Edit
  /\ r \in rules
  /\ rules' = rules \ {r}
  /\ Overtake
  /\ UNCHANGED <<used, indexed, row, upload, mat, crawl, vouched, loose>>

\* The pin itself written as the row's state.
DecidedRaw(p, old) == IF p = "none" THEN old ELSE p

\* What a pin makes of the row.
Decided(p, old) ==
  CASE p = "in" -> "member" [] p = "out" -> "removed"
    [] OTHER -> IF old = "none" THEN "removed" ELSE old

\* A materialisation has already decided to remove the document, or a load
\* has it among its pages.
Racing(d) ==
  \/ \E m \in Runs : d \in mat[m].remove
  \/ \E l \in Loads : d \in load[l].pending

\* The database makes the ids of uploads: nobody has one before.
Pin(d, p) ==
  /\ Edit
  /\ d \in Uploads => upload[d] # "absent"
  /\ row' = [row EXCEPT ![d].pin = p, ![d].state = Decided(p, @)]
  /\ vouched' = IF p = "in" THEN vouched \cup {d} ELSE vouched
  /\ loose' = IF p # "none" /\ Racing(d) THEN loose \cup {d} ELSE loose \ {d}
  /\ Overtake
  /\ UNCHANGED <<sources, upload, mat, crawl>>

\* A member row of an accepted upload, ON CONFLICT DO NOTHING.
Uploaded(u) ==
  row' = [row EXCEPT ![u] = IF Exists(u) THEN @ ELSE [NoRow EXCEPT !.state = "member"]]

\* A file comes in: it waits where it may duplicate something in the index and
\* no reason was given, or is accepted at once.
UploadFile(u, verdict) ==
  /\ Edit
  /\ upload[u] = "absent"
  /\ upload' = [upload EXCEPT ![u] = verdict]
  /\ IF verdict = "accepted" THEN Uploaded(u) ELSE UNCHANGED row
  /\ Overtake
  /\ UNCHANGED <<sources, mat, crawl, vouched, loose>>

AcceptUpload(u) ==
  /\ Edit
  /\ upload[u] \in {"pending", "accepted"}
  /\ upload' = [upload EXCEPT ![u] = "accepted"]
  /\ Uploaded(u)
  /\ Overtake
  /\ UNCHANGED <<sources, mat, crawl, vouched, loose>>

DeleteUpload(u) ==
  /\ Edit
  /\ upload[u] \in {"pending", "accepted"}
  /\ upload' = [upload EXCEPT ![u] = "deleted"]
  /\ row' = [row EXCEPT ![u] = NoRow]
  /\ loose' = loose \ {u}
  /\ Overtake
  /\ UNCHANGED <<sources, mat, crawl, vouched>>

\* A document appears in, or disappears from, the index.
IndexMoves(d) ==
  /\ Edit
  /\ d \in Docs \ (Uploads \cup published)
  /\ indexed' = IF d \in indexed THEN indexed \ {d} ELSE indexed \cup {d}
  /\ Overtake
  /\ UNCHANGED <<rules, used, row, upload, mat, crawl, vouched, loose>>

-----------------------------------------------------------------------------
(* materialise                                                             *)

\* _evaluate: a crawl rule's candidates are the rows it has contributed to.
Hits(r) ==
  IF r \in CrawlRules
  THEN {d \in Docs : row[d].state \notin {"none", "removed"} /\ r \in row[d].by}
  ELSE Claims[r] \cap indexed

\* Who contributes a document: exclude always beats include.
Contributors(d) ==
  IF \E x \in rules \cap Exclusions : d \in Hits(x)
  THEN {}
  ELSE {r \in rules \ Exclusions : d \in Hits(r)}

\* The rules are read once; who comes or goes later does not count.
ReadRules(m) ==
  /\ mat[m].step = "idle"
  /\ mat' = [mat EXCEPT ![m] = [Idle EXCEPT !.step = "evaluating", !.left = rules]]
  /\ UNCHANGED <<sources, row, upload, crawl, vouched, loose, stale, edits>>

\* What a rule finds goes to include or to exclude.
Accumulate(run, r) ==
  IF r \in Exclusions
  THEN [run EXCEPT !.left = @ \ {r}, !.out = @ \cup Hits(r)]
  ELSE [run EXCEPT !.left = @ \ {r},
                   !.found = [d \in Docs |-> IF d \in Hits(r) THEN @[d] \cup {r} ELSE @[d]]]

\* _evaluate of the next rule, on the rows and the index as they are now. The
\* order only says which commits come before which rule.
Evaluate(m, r) ==
  /\ mat[m].step = "evaluating" /\ r \in mat[m].left
  /\ mat' = [mat EXCEPT ![m] = Accumulate(@, r)]
  /\ UNCHANGED <<sources, row, upload, crawl, vouched, loose, stale, edits>>

\* The candidates of a run: exclude always beats include.
Candidates(run) == [d \in Docs |-> IF d \in run.out THEN {} ELSE run.found[d]]

\* A removal that forgets who pinned what.
RemovesPinned(d, found) == found[d] = {} /\ row[d].state = "member"

\* Every member that no rule finds any more goes, unless it is pinned in.
Removes(d, found) ==
  found[d] = {} /\ row[d].state = "member" /\ row[d].pin # "in"

Compare(m) ==
  /\ mat[m].step = "evaluating" /\ mat[m].left = {}
  /\ mat' = [mat EXCEPT ![m] =
       [Idle EXCEPT !.step = "compared",
                    !.found = Candidates(mat[m]),
                    !.remove = {d \in Docs : Removes(d, Candidates(mat[m]))}]]
  /\ UNCHANGED <<sources, row, upload, crawl, vouched, loose, stale, edits>>

\* Any enumerable contributor is enough to be accepted.
AnyEnumerable(by) ==
  IF AutoAccept /\ by \ Proposing # {} THEN "member" ELSE "proposed"

\* enumerable_only: accepted without a person only if every contributor is
\* enumerable.
Accepted(by) ==
  IF AutoAccept /\ by \cap Proposing = {} THEN "member" ELSE "proposed"

\* ON CONFLICT that also writes state = EXCLUDED.state.
UpsertState(old, by) ==
  IF old.state = "none" THEN [NoRow EXCEPT !.state = Accepted(by), !.by = by]
  ELSE [old EXCEPT !.by = by, !.state = Accepted(by)]

\* ON CONFLICT DO NOTHING.
UpsertNothing(old, by) ==
  IF old.state = "none" THEN [NoRow EXCEPT !.state = Accepted(by), !.by = by] ELSE old

\* INSERT of a candidate; ON CONFLICT it leaves the state alone.
Upsert(old, by) ==
  IF old.state = "none" THEN [NoRow EXCEPT !.state = Accepted(by), !.by = by]
  ELSE [old EXCEPT !.by = by]

Apply(m) ==
  /\ mat[m].step = "compared"
  /\ row' = [d \in Docs |->
       IF mat[m].found[d] # {} THEN Upsert(row[d], mat[m].found[d])
       ELSE IF d \in mat[m].remove /\ Exists(d) THEN [row[d] EXCEPT !.state = "removed"]
       ELSE row[d]]
  /\ mat' = [mat EXCEPT ![m] = Idle]
  /\ stale' = (stale \cup {n \in Runs : mat[n].step # "idle"}) \ {m}
  /\ UNCHANGED <<sources, upload, crawl, vouched, loose, edits>>

\* A dry run reports the diff, or the process dies: nothing is written.
Report(m) ==
  /\ mat[m].step = "compared"
  /\ mat' = [mat EXCEPT ![m] = Idle]
  /\ stale' = stale \ {m}
  /\ UNCHANGED <<sources, row, upload, crawl, vouched, loose, edits>>

-----------------------------------------------------------------------------
(* crawl_planner.plan, load and _store; publish                            *)

\* One row for each page, before a page is fetched.
Planned(old, r) ==
  [old EXCEPT !.state = IF @ = "member" THEN "member" ELSE "planned",
              !.by = @ \cup {r}, !.crawled = (@ \/ old.state = "none")]

\* The job for a root plans what the site has just now. The rule is found by
\* its root, or added again when it is gone; two rules with that root raise.
Plan(r, urls) ==
  LET here == {q \in rules \cap CrawlRules : Root[q] = Root[r]} IN
  /\ r \in CrawlRules
  /\ here = {r} \/ (here = {} /\ r \notin used)
  /\ urls \subseteq Claims[r]
  /\ rules' = rules \cup {r} /\ used' = used \cup {r}
  /\ row' = [d \in Docs |-> IF d \in urls THEN Planned(row[d], r) ELSE row[d]]
  /\ loose' = loose \cup {d \in urls : row[d].pin = "out"}
  /\ Overtake
  /\ UNCHANGED <<indexed, upload, mat, crawl, vouched, edits>>

\* The pages to load are read once, at the start.
LoadStart(l) ==
  LET pages == {d \in Docs : row[d].crawled /\ row[d].state \in {"planned", "failed"}} IN
  /\ load[l].step = "idle"
  /\ pages # {}
  /\ load' = [load EXCEPT ![l] = [step |-> "page", pending |-> pages, doc |-> NoDoc]]
  /\ UNCHANGED <<sources, row, upload, mat, published, fetched, vouched, loose, stale, edits>>

\* The fetch fails, or the parser refuses the page.
FetchFails(l, d) ==
  /\ load[l].step = "page" /\ d \in load[l].pending
  /\ load' = [load EXCEPT ![l].pending = @ \ {d}]
  /\ row' = [row EXCEPT ![d].state = "failed"]
  /\ Overtake
  /\ UNCHANGED <<sources, upload, mat, published, fetched, vouched, loose, edits>>

\* 304: the row is a member's now, and nothing is published. The fetch names no
\* version, so only a site that answers so unasked gets here.
Unchanged(l, d) ==
  /\ load[l].step = "page" /\ d \in load[l].pending
  /\ load' = [load EXCEPT ![l].pending = @ \ {d}]
  /\ row' = [row EXCEPT ![d].state = "member"]
  /\ vouched' = vouched \cup {d}
  /\ Overtake
  /\ UNCHANGED <<sources, upload, mat, published, fetched, loose, edits>>

\* Published before the member row is written.
PublishFirst(l, d) ==
  /\ load[l].step = "page" /\ d \in load[l].pending
  /\ load' = [load EXCEPT ![l] = [step |-> "publish", pending |-> @.pending \ {d}, doc |-> d]]
  /\ published' = published \cup {d}
  /\ Overtake
  /\ UNCHANGED <<sources, row, upload, mat, fetched, vouched, loose, edits>>

\* Fetched and parsed: the member row is committed first.
Store(l, d) ==
  /\ load[l].step = "page" /\ d \in load[l].pending
  /\ load' = [load EXCEPT ![l] = [step |-> "publish", pending |-> @.pending \ {d}, doc |-> d]]
  /\ row' = [row EXCEPT ![d].state = "member"]
  /\ fetched' = fetched \cup {d}
  /\ Overtake
  /\ UNCHANGED <<sources, upload, mat, published, vouched, loose, edits>>

\* Then the page goes to the store and to the index, in one transaction.
Publish(l) ==
  /\ load[l].step = "publish"
  /\ published' = published \cup {load[l].doc}
  /\ indexed' = indexed \cup {load[l].doc}
  /\ load' = [load EXCEPT ![l].step = "page", ![l].doc = NoDoc]
  /\ Overtake
  /\ UNCHANGED <<rules, used, row, upload, mat, fetched, vouched, loose, edits>>

\* The load ends: all pages done, stopped, out of time, or its process died.
\* Publishing that raises ends it too, and the job.
LoadEnds(l) ==
  /\ load[l].step # "idle"
  /\ load' = [load EXCEPT ![l] = Resting]
  /\ UNCHANGED <<sources, row, upload, mat, published, fetched, vouched, loose, stale, edits>>

-----------------------------------------------------------------------------

Next ==
  \/ \E r \in Rules : AddRule(r) \/ DeleteRule(r)
  \/ \E d \in Docs, p \in Pins : Pin(d, p)
  \/ \E u \in Uploads, verdict \in {"pending", "accepted"} : UploadFile(u, verdict)
  \/ \E u \in Uploads : AcceptUpload(u) \/ DeleteUpload(u)
  \/ \E d \in Docs : IndexMoves(d)
  \/ \E m \in Runs : ReadRules(m) \/ Compare(m) \/ Apply(m) \/ Report(m)
  \/ \E m \in Runs, r \in Rules : Evaluate(m, r)
  \/ \E r \in CrawlRules : \E urls \in SUBSET Claims[r] : Plan(r, urls)
  \/ \E l \in Loads : LoadStart(l) \/ Publish(l) \/ LoadEnds(l)
  \/ \E l \in Loads, d \in Docs : FetchFails(l, d) \/ Unchanged(l, d) \/ Store(l, d)

Spec == Init /\ [][Next]_vars

-----------------------------------------------------------------------------
(* Properties                                                              *)

\* A pin decides, whatever rules, crawls and materialisations do, except where
\* a crawl plans the page again, or a run that had read the table before the
\* pin writes after it. Those are all the ways a pin is lost.
PinsHold ==
  \A d \in Docs \ loose :
    /\ row[d].pin = "in" => row[d].state = "member"
    /\ row[d].pin = "out" => row[d].state = "removed"

\* Nothing is a member by accident: it was fetched, or its site says it has not
\* changed, or it was pinned in, or uploaded and accepted, or found by a rule
\* that enumerates and the collection accepts what those find. A page a crawl
\* has only planned, and a document only a query proposes, never get there
\* through a materialisation.
MembersAreVouchedFor ==
  \A d \in Docs : row[d].state = "member" =>
    \/ d \in fetched \cup vouched
    \/ d \in Uploads /\ upload[d] = "accepted"
    \/ AutoAccept /\ \E r \in used \ (Exclusions \cup Proposing \cup CrawlRules) : d \in Claims[r]

\* "the reverse order would leave a document in the index that nothing in the
\* collection accounts for": what is published has a row the crawl planned, and
\* the row was written as fetched before, wherever a load stops or dies.
PublishedIsKnown ==
  \A d \in published : Exists(d) /\ row[d].crawled /\ d \in fetched

\* What the rules select, as CNT-COL-05 defines it.
Selected(d) ==
  /\ \E r \in rules \ Exclusions : d \in Hits(r)
  /\ \A x \in rules \cap Exclusions : d \notin Hits(x)

\* A materialisation nobody commits under takes in what the rules select and
\* the table does not have, and drops those members, and only those, that no
\* rule selects and nobody pinned in: a document two rules claim stays when one
\* of them goes (CNT-COL-08). What a query finds too waits for a person
\* (CNT-COL-10).
DiffIsExact ==
  [][\A m \in Runs : (Apply(m) /\ m \notin stale) =>
       \A d \in Docs :
         /\ (~Exists(d) /\ row'[d].state # "none") <=> (~Exists(d) /\ Selected(d))
         /\ (row[d].state = "member" /\ row'[d].state # "member")
              <=> (row[d].state = "member" /\ ~Selected(d) /\ row[d].pin # "in")
         /\ (~Exists(d) /\ row'[d].state = "member") =>
              AutoAccept /\ \A r \in rules \cap Proposing : d \notin Hits(r)]_vars

\* Materialising again straight away would change nothing.
Settled ==
  \A d \in Docs :
    /\ Selected(d) => Exists(d) /\ Contributors(d) = row[d].by
    /\ ~Removes(d, [e \in Docs |-> Contributors(e)])

RerunIsQuiet ==
  [][\A m \in Runs : (Apply(m) /\ m \notin stale) => Settled']_vars

\* A document that was removed comes back when somebody pins it in or when a
\* crawl plans or loads it: a materialisation never brings one back, not even
\* when the rule that found it is there again.
RemovedStaysOut ==
  [][\A d \in Docs :
       (row[d].state = "removed" /\ row'[d].state \notin {"none", "removed"}) =>
         \/ row'[d].pin = "in"
         \/ row'[d].state = "planned"
         \/ \E l \in Loads : d \in load[l].pending]_vars
=============================================================================
