------------------------------- MODULE Refresh -------------------------------
(***************************************************************************)
(* How an edit at the source reaches the index of AskContent:              *)
(*                                                                         *)
(*   - collection.refresh (check_for_updates, services/enrichment.py)      *)
(*     fetches a batch of members, compares what it reads with the hashes  *)
(*     in their rows, writes the new hashes and commits; then the worker   *)
(*     asks for connector.index, if anything moved and the job names a     *)
(*     connector.                                                          *)
(*   - collection.enrich (enrich_collection) writes the same rows, with    *)
(*     the content hash and without the structure hash.                    *)
(*   - connector.index reads the documents one by one and commits once, at *)
(*     the end; where it fails all is rolled back and it is run again      *)
(*     (module Indexing has its detail).                                   *)
(*                                                                         *)
(* The hashes in the rows are the only memory of what the index was told.  *)
(* Two workers can run any two of these jobs at once.                      *)
(***************************************************************************)
EXTENDS Naturals, FiniteSets

CONSTANTS
  Docs,        \* the members of the collection
  Uploads,     \* those that were uploaded: the repository does not hold them
  Bodies,      \* what the source can hold: [words, shape]
  Original,    \* what it holds, and the index knows, at first
  Null,        \* no hash
  Broken,      \* a body the parser refuses
  Gone,        \* nothing the repository can resolve
  Runs,        \* refresh and enrich jobs that can be under way at once
  Batch,       \* bound: the limit a job may be called with (500 in the code)
  MaxEdits,    \* bound: edits at the source
  MaxEvents    \* bound: enrich jobs, and jobs that fail (fewer than attempts)

ASSUME SourceAssumption ==
  /\ Uploads \subseteq Docs
  /\ Bodies = {[words |-> b.words, shape |-> b.shape] : b \in Bodies} /\ Original \in Bodies
  /\ \A b \in Bodies : b.words # Null /\ b.shape # Null
  /\ Broken \notin Bodies /\ Gone \notin Bodies /\ Broken # Gone
  /\ Batch \in Nat \ {0} /\ MaxEdits \in Nat /\ MaxEvents \in Nat
  /\ IsFiniteSet(Docs)

VARIABLES
  page,     \* what the source holds
  row,      \* askcontent_collection_member: [words, shape], the two hashes
  age,      \* the order of last_checked_at: 0 is the longest unchecked
  queue,    \* the queued collection.refresh: "none", "plain", "wired"
  run,      \* the jobs under way
  asked,    \* a connector.index is queued
  todo,     \* what the connector.index that runs has still to read
  taken,    \* what that run has read and parsed, not committed yet
  index,    \* what the index was built from
  lost,     \* history: documents an index run is not told of, see Excuses
  budget    \* [edits, events] left, and the limit its jobs are called with

vars == <<page, row, age, queue, run, asked, todo, taken, index, lost, budget>>

-----------------------------------------------------------------------------
Blank == [words |-> Null, shape |-> Null]
Hashes == [words : {b.words : b \in Bodies} \cup {Null}, shape : {b.shape : b \in Bodies} \cup {Null}]
Held == Docs \ Uploads

\* (mutant) The words alone decide.
MovedByWords(old, new) == old.words \notin {Null, new.words}

\* compare: the verdict is CHANGED or REORDERED, and there was a hash before.
Moved(old, new) ==
  /\ old.words # Null
  /\ \/ old.words # new.words
     \/ Null \notin {old.shape, new.shape} /\ old.shape # new.shape

\* _describe: the hashes of what is read, none of a body that does not parse,
\* nothing at all where the metadata does not resolve.
Described(d) ==
  CASE page[d] \in Bodies -> page[d]
    [] page[d] = Broken -> Blank
    [] OTHER -> Gone

\* A job: the payload's connector, the members to come and their rows as the
\* first SELECT read them, the member it has fetched and what it got, the
\* updates it has not committed, the changed_docs of its report.
Idle == [kind |-> "none", wired |-> FALSE, left |-> {}, seen |-> [d \in Docs |-> Blank],
         at |-> {}, got |-> Gone, new |-> [d \in {} |-> Gone], moved |-> {}, told |-> FALSE]
Wrote(r) == DOMAIN run[r].new

\* (mutant) ORDER BY last_checked_at DESC.
IsNewest(B) ==
  /\ Cardinality(B) = IF Cardinality(Docs) < budget.batch THEN Cardinality(Docs) ELSE budget.batch
  /\ \A d \in B, e \in Docs \ B : age[d] >= age[e]

\* A batch is the members with the oldest last_checked_at, ties in any order.
IsBatch(B) ==
  /\ Cardinality(B) = IF Cardinality(Docs) < budget.batch THEN Cardinality(Docs) ELSE budget.batch
  /\ \A d \in B, e \in Docs \ B : age[d] <= age[e]

\* last_checked_at = now(): one instant for all the members of a commit.
Aged(checked) ==
  LET stamp == [d \in Docs |-> IF d \in checked THEN Cardinality(Docs) ELSE age[d]]
  IN [d \in Docs |-> Cardinality({c \in Docs : stamp[c] < stamp[d]})]

Differs(hashes, body) ==
  hashes.words # Null /\ (hashes.words # body.words \/ hashes.shape \notin {Null, body.shape})

\* No document read.
Nothing == [d \in {} |-> Original]

\* What the index holds of a document once the run that has read it commits.
Coming(d) == IF d \in DOMAIN taken THEN taken[d] ELSE index[d]

Init ==
  /\ page = [d \in Docs |-> IF d \in Uploads THEN Gone ELSE Original]
  /\ row \in {f \in [Docs -> {Blank, Original}] : \A d \in Uploads : f[d] = Blank}
  /\ age = [d \in Docs |-> 0]
  /\ queue = {} /\ run = [r \in Runs |-> Idle]
  /\ asked = FALSE /\ todo = {} /\ taken = Nothing
  /\ index = [d \in Held |-> Original]
  /\ lost = {}
  /\ \E batch \in 1..Batch : budget = [edits |-> MaxEdits, events |-> MaxEvents, batch |-> batch]

-----------------------------------------------------------------------------
(* The source, and those who ask for jobs                                  *)

Edit(d, p) ==
  /\ budget.edits > 0 /\ page[d] # p
  /\ page' = [page EXCEPT ![d] = p]
  /\ budget' = [budget EXCEPT !.edits = @ - 1]
  /\ UNCHANGED <<row, age, queue, run, asked, todo, taken, index, lost>>

\* enqueue_job: a request joins the one that is queued, whatever its payload.
Ask(payload) ==
  /\ queue = {}
  /\ queue' = {payload}
  /\ UNCHANGED <<page, row, age, run, asked, todo, taken, index, lost, budget>>

-----------------------------------------------------------------------------
(* A job of the worker                                                     *)

Begin(r, kind, payload, B) ==
  /\ run[r].kind = "none" /\ IsBatch(B)
  /\ run' = [run EXCEPT ![r] =
       [Idle EXCEPT !.kind = kind, !.wired = (payload = "wired"),
                    !.seen = [d \in Docs |-> IF d \in B THEN row[d] ELSE Blank],
                    !.left = IF kind = "enrich" THEN B \ Uploads ELSE B]]

Claim(r) == \E payload \in queue, B \in SUBSET Docs :
  /\ Begin(r, "refresh", payload, B)
  /\ queue' = queue \ {payload}
  /\ UNCHANGED <<page, row, age, asked, todo, taken, index, lost, budget>>

\* Every materialise enqueues one.
ClaimEnrich(r) == \E B \in SUBSET Docs :
  /\ budget.events > 0
  /\ Begin(r, "enrich", "plain", B)
  /\ budget' = [budget EXCEPT !.events = @ - 1]
  /\ UNCHANGED <<page, row, age, queue, asked, todo, taken, index, lost>>

\* _describe. An exception in it reads like a missing document, or like a
\* body that does not parse: Broken and Gone stand for both.
Fetch(r) == \E d \in run[r].left :
  /\ run[r].at = {}
  /\ run' = [run EXCEPT ![r].at = {d}, ![r].got = Described(d), ![r].left = @ \ {d}]
  /\ UNCHANGED <<page, row, age, queue, asked, todo, taken, index, lost, budget>>

\* The UPDATE waits for the row while another job has updated it.
Locked(r, d) == \E s \in Runs \ {r} : d \in Wrote(s)

Update(r) == \E d \in run[r].at :
  LET got == run[r].got IN
  /\ ~Locked(r, d)
  /\ run' = [run EXCEPT
       ![r].at = {}, ![r].got = Gone,
       ![r].new = [e \in {d} \cup DOMAIN @ |-> IF e = d THEN got ELSE @[e]],
       ![r].moved = IF /\ run[r].kind = "refresh" /\ got # Gone
                       /\ Moved(run[r].seen[d], got)
                    THEN @ \cup {d} ELSE @]
  /\ UNCHANGED <<page, row, age, queue, asked, todo, taken, index, lost, budget>>

Finished(r) == run[r].kind # "none" /\ run[r].left = {} /\ run[r].at = {} /\ ~run[r].told
Read(r) == {d \in Wrote(r) : run[r].new[d] # Gone}

\* (mutant) Only what could be read counts as checked.
CheckedRead(r) == Read(r)

\* Both jobs set last_checked_at of everything they visited.
Checked(r) == Wrote(r)

\* Excuses: the ways the new hash of a document gets into its row without an
\* index run being asked for. There was no hash to compare with; the job has
\* no connector; another job wrote the row since this one read it.
Excuses(r, d) ==
  \/ run[r].seen[d].words = Null
  \/ run[r].seen[d].shape = Null /\ d \notin run[r].moved
  \/ ~run[r].wired
  \/ row[d] # run[r].seen[d]

CommitRefresh(r) ==
  /\ run[r].kind = "refresh" /\ Finished(r)
  /\ row' = [d \in Docs |-> IF d \in Read(r) THEN run[r].new[d] ELSE row[d]]
  /\ age' = Aged(Checked(r))
  /\ lost' = lost \cup {d \in Read(r) \ Uploads : Excuses(r, d) /\ Differs(run[r].new[d], Coming(d))}
  /\ run' = [run EXCEPT ![r] =
       IF run[r].moved # {} /\ run[r].wired
       THEN [Idle EXCEPT !.kind = "refresh", !.moved = run[r].moved, !.told = TRUE]
       ELSE Idle]
  /\ UNCHANGED <<page, queue, asked, todo, taken, index, budget>>

\* The content hash only; what enrichment learns, no index run is told.
CommitEnrich(r) ==
  /\ run[r].kind = "enrich" /\ Finished(r)
  /\ row' = [d \in Docs |-> IF d \in Read(r) THEN [row[d] EXCEPT !.words = run[r].new[d].words] ELSE row[d]]
  /\ age' = Aged(Checked(r))
  /\ lost' = lost \cup {d \in Read(r) \ Uploads : row'[d] # row[d] /\ Differs(row'[d], Coming(d))}
  /\ run' = [run EXCEPT ![r] = Idle]
  /\ UNCHANGED <<page, queue, asked, todo, taken, index, budget>>

\* The worker enqueues connector.index, a transaction of its own.
Follow(r) ==
  /\ run[r].told
  /\ asked' = TRUE
  /\ run' = [run EXCEPT ![r] = Idle]
  /\ UNCHANGED <<page, row, age, queue, todo, taken, index, lost, budget>>

\* The job fails and is retried: before its commit nothing happened, after it
\* the retry compares with the hashes that the first attempt wrote.
Fails(r) ==
  /\ budget.events > 0
  /\ run[r].kind # "none"
  /\ lost' = lost \cup {d \in run[r].moved : run[r].told /\ d \notin Uploads /\ Differs(row[d], Coming(d))}
  /\ queue' = IF run[r].kind = "enrich" THEN queue
              ELSE queue \cup {IF run[r].wired \/ run[r].told THEN "wired" ELSE "plain"}
  /\ run' = [run EXCEPT ![r] = Idle]
  /\ budget' = [budget EXCEPT !.events = @ - 1]
  /\ UNCHANGED <<page, row, age, asked, todo, taken, index>>

\* Two jobs wait for each other's rows, and the database fails one of them.
Victim(r) ==
  /\ \E d \in run[r].at, s \in Runs \ {r} : d \in Wrote(s) /\ \E e \in run[s].at : e \in Wrote(r)
  /\ queue' = IF run[r].kind = "enrich" THEN queue
              ELSE queue \cup {IF run[r].wired THEN "wired" ELSE "plain"}
  /\ run' = [run EXCEPT ![r] = Idle]
  /\ UNCHANGED <<page, row, age, asked, todo, taken, index, lost, budget>>

-----------------------------------------------------------------------------
(* connector.index                                                         *)

\* A run is under way. Nothing tells one that read nothing it could parse.
Indexes == todo # {} \/ DOMAIN taken # {}

\* (mutant) The uploads are read too.
IndexStartAll ==
  /\ asked /\ ~Indexes
  /\ asked' = FALSE /\ todo' = Docs
  /\ UNCHANGED <<page, row, age, queue, run, taken, index, lost, budget>>

IndexStart ==
  /\ asked /\ ~Indexes
  /\ asked' = FALSE /\ todo' = Held
  /\ UNCHANGED <<page, row, age, queue, run, taken, index, lost, budget>>

\* Another excuse: the index reads something else than the row says. What does
\* not parse, or is gone, leaves what the index has.
IndexRead(d) ==
  /\ d \in todo
  /\ todo' = todo \ {d}
  /\ taken' = IF page[d] \in Bodies
              THEN [e \in {d} \cup DOMAIN taken |-> IF e = d THEN page[d] ELSE taken[e]]
              ELSE taken
  /\ UNCHANGED <<page, row, age, queue, run, asked, index, budget>>
  /\ lost' = IF Differs(row[d], Coming(d)') THEN lost \cup {d} ELSE lost \ {d}

IndexCommit ==
  /\ todo = {} /\ Indexes
  /\ index' = [d \in Held |-> Coming(d)]
  /\ taken' = Nothing
  /\ UNCHANGED <<page, row, age, queue, run, asked, todo, lost, budget>>

\* The run fails, at a document or at its commit, and is queued again.
IndexFails ==
  /\ budget.events > 0 /\ Indexes
  /\ todo' = {} /\ taken' = Nothing /\ asked' = TRUE
  /\ budget' = [budget EXCEPT !.events = @ - 1]
  /\ UNCHANGED <<page, row, age, queue, run, index, lost>>

-----------------------------------------------------------------------------

Job(r) ==
  \/ Claim(r) \/ Fetch(r) \/ Update(r) \/ CommitRefresh(r) \/ CommitEnrich(r)
  \/ Follow(r) \/ Victim(r)
Indexer == IndexStart \/ IndexCommit \/ \E d \in Held : IndexRead(d)
People ==
  \/ \E d \in Held, p \in Bodies \cup {Broken, Gone} : Edit(d, p)
  \/ \E payload \in {"plain", "wired"} : Ask(payload)

Next ==
  \/ People \/ Indexer \/ IndexFails
  \/ \E r \in Runs : Job(r) \/ ClaimEnrich(r) \/ Fails(r)

\* The workers go on; nobody has to edit, to ask or to fail.
Fairness == WF_vars(Indexer) /\ \A r \in Runs : WF_vars(Job(r))

Spec == Init /\ [][Next]_vars /\ Fairness

-----------------------------------------------------------------------------
Job0 == [kind : {"none", "refresh", "enrich"}, wired : BOOLEAN, left : SUBSET Docs,
         seen : [Docs -> Hashes], at : SUBSET Docs, got : Hashes \cup {Gone},
         new : UNION {[S -> Hashes \cup {Gone}] : S \in SUBSET Docs},
         moved : SUBSET Docs, told : BOOLEAN]

\* Every variable has its type; a job that waits to tell the index is a
\* refresh that has committed, and rows are updated by one job at a time.
TypeOK ==
  /\ page \in [Docs -> Bodies \cup {Broken, Gone}] /\ row \in [Docs -> Hashes]
  /\ age \in [Docs -> Nat]
  /\ queue \subseteq {"plain", "wired"} /\ run \in [Runs -> Job0]
  /\ asked \in BOOLEAN /\ todo \subseteq Held
  /\ taken \in UNION {[S -> Bodies] : S \in SUBSET Held}
  /\ index \in [Held -> Bodies] /\ lost \subseteq Held
  /\ budget \in [edits : Nat, events : Nat, batch : Nat]

\* What the hashes say has changed reaches the index: if a row has the hashes
\* of what the source holds, so that no later refresh will see a change, and
\* the index was built from something else, then an index run is to come, or
\* one that has read just that is to commit, or the document was lost in one of
\* the ways the code has for it.
ChangesReachTheIndex ==
  \A d \in Held :
    page[d] \in Bodies /\ row[d] = page[d] /\ index[d] # page[d] =>
      \/ asked \/ d \in todo \/ d \in lost
      \/ d \in DOMAIN taken /\ taken[d] = page[d]
      \/ \E r \in Runs : run[r].told /\ d \in run[r].moved

\* The batch goes round: while refreshes with a batch smaller than the
\* collection keep committing, every member is checked again and again,
\* those that cannot be read (and the uploads) too.
EveryMemberIsChecked ==
  ([]<><<\E r \in Runs : CommitRefresh(r)>>_vars) =>
    \A d \in Docs : []<>(\A e \in Docs : age[e] <= age[d])

\* When the edits have ended and refreshes with a connector keep committing,
\* the index comes to agree with the source, or the document was lost.
IndexConverges ==
  ([]<><<\E r \in Runs : run[r].wired /\ CommitRefresh(r)>>_vars) =>
    <>[](\A d \in Held : page[d] \in Bodies => index[d] = page[d] \/ d \in lost)
=============================================================================
