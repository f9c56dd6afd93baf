------------------------ MODULE CollectionProofs ------------------------
(***************************************************************************)
(* Proofs about Collection for every set of documents, rules, runs and     *)
(* loads.                                                                  *)
(***************************************************************************)
EXTENDS Collection, TLAPS

-----------------------------------------------------------------------------
(* Type correctness                                                        *)

\* What each operator makes of a row is a row.
LEMMA PinsMakeRows ==
  ASSUME NEW p \in Pins, NEW s \in States
  PROVE  Decided(p, s) \in States
BY DEF Decided, States, Pins

LEMMA UpsertsMakeRows ==
  ASSUME NEW old \in Row, NEW by \in SUBSET Rules
  PROVE  Upsert(old, by) \in Row
<1>1. Accepted(by) \in {"member", "proposed"}
  BY DEF Accepted
<1>2. QED
  BY <1>1 DEF Upsert, NoRow, Row, States, Pins

LEMMA PlansMakeRows ==
  ASSUME NEW old \in Row, NEW r \in Rules
  PROVE  Planned(old, r) \in Row
<1>1. (old.crawled \/ old.state = "none") \in BOOLEAN /\ old.by \cup {r} \in SUBSET Rules
  BY DEF Row
<1>2. QED
  BY <1>1 DEF Planned, Row, States, Pins

LEMMA StatesMakeRows ==
  ASSUME NEW old \in Row, NEW s \in States
  PROVE  [old EXCEPT !.state = s] \in Row
BY DEF Row

LEMMA NoRowIsARow == NoRow \in Row
BY DEF NoRow, Row, States, Pins

\* A rule finds documents, and evaluating one keeps a run a run.
LEMMA HitsAreDocs ==
  ASSUME NEW r \in Rules
  PROVE  Hits(r) \in SUBSET Docs
BY RuleAssumption DEF Hits

LEMMA RunsAccumulate ==
  ASSUME NEW run \in Run, NEW r \in Rules
  PROVE  /\ Accumulate(run, r) \in Run
         /\ Accumulate(run, r).step = run.step /\ Accumulate(run, r).remove = run.remove
         /\ Accumulate(run, r).left = run.left \ {r}
         /\ Accumulate(run, r).out =
              IF r \in Exclusions THEN run.out \cup Hits(r) ELSE run.out
         /\ \A d \in Docs : Accumulate(run, r).found[d] =
              IF r \notin Exclusions /\ d \in Hits(r) THEN run.found[d] \cup {r}
              ELSE run.found[d]
<1>1. CASE r \in Exclusions
  BY <1>1, HitsAreDocs DEF Accumulate, Run
<1>2. CASE r \notin Exclusions
  <2> DEFINE more == [d \in Docs |-> IF d \in Hits(r) THEN run.found[d] \cup {r} ELSE run.found[d]]
  <2>1. more \in [Docs -> SUBSET Rules]
    BY DEF Run
  <2>2. \A d \in Docs : more[d] = IF d \in Hits(r) THEN run.found[d] \cup {r} ELSE run.found[d]
    OBVIOUS
  <2>3. Accumulate(run, r) = [run EXCEPT !.left = run.left \ {r}, !.found = more]
    BY <1>2 DEF Accumulate
  <2> HIDE DEF more
  <2>4. QED
    BY <1>2, <2>1, <2>2, <2>3 DEF Run
<1>3. QED
  BY <1>1, <1>2

LEMMA InitTypeOK == Init => TypeOK
<1> SUFFICES ASSUME Init PROVE TypeOK
  OBVIOUS
<1>1. rules \in SUBSET Rules /\ used \in SUBSET Rules /\ indexed \in SUBSET Docs
  BY RuleAssumption DEF Init
<1>2. row \in [Docs -> Row]
  BY NoRowIsARow DEF Init
<1>3. mat \in [Runs -> Run] /\ load \in [Loads -> Load]
  BY DEF Init, Idle, Run, Resting, Load
<1>4. QED
  BY <1>1, <1>2, <1>3, RuleAssumption DEF Init, TypeOK

\* Every action keeps the types.
LEMMA NextTypeOK == TypeOK /\ [Next]_vars => TypeOK'
<1> SUFFICES ASSUME TypeOK, [Next]_vars PROVE TypeOK'
  OBVIOUS
<1> USE DEF TypeOK, sources, crawl
<1>a. Overtake => stale' \in SUBSET Runs
  BY DEF Overtake
<1>b. Edit => edits' \in Nat
  BY DEF Edit
<1>c. \A d \in Docs : row[d] \in Row /\ row[d].state \in States /\ row[d].by \in SUBSET Rules
  BY DEF Row
<1>d. Uploads \subseteq Docs
  BY DocAssumption
<1>e. ASSUME NEW u \in Uploads, Uploaded(u) PROVE row' \in [Docs -> Row]
  <2>1. [NoRow EXCEPT !.state = "member"] \in Row
    BY NoRowIsARow, StatesMakeRows DEF States
  <2>2. QED
    BY <1>e, <1>d, <2>1 DEF Uploaded
<1>1. ASSUME NEW r \in Rules, AddRule(r) \/ DeleteRule(r) PROVE TypeOK'
  BY <1>1, <1>a, <1>b DEF AddRule, DeleteRule
<1>2. ASSUME NEW d \in Docs, NEW p \in Pins, Pin(d, p) PROVE TypeOK'
  <2>1. Decided(p, row[d].state) \in States
    BY <1>c, PinsMakeRows
  <2>2. row' = [row EXCEPT ![d] = [row[d] EXCEPT !.pin = p, !.state = Decided(p, row[d].state)]]
    BY <1>2 DEF Pin
  <2>3. [row[d] EXCEPT !.pin = p, !.state = Decided(p, row[d].state)] \in Row
    BY <1>c, <2>1 DEF Row
  <2>4. row' \in [Docs -> Row]
    BY <2>2, <2>3
  <2>5. QED
    BY <1>2, <2>4, <1>a, <1>b DEF Pin
<1>3. ASSUME NEW u \in Uploads, NEW verdict \in {"pending", "accepted"}, UploadFile(u, verdict)
      PROVE TypeOK'
  BY <1>3, <1>a, <1>b, <1>e DEF UploadFile
<1>4. ASSUME NEW u \in Uploads, AcceptUpload(u) PROVE TypeOK'
  BY <1>4, <1>a, <1>b, <1>e DEF AcceptUpload
<1>5. ASSUME NEW u \in Uploads, DeleteUpload(u) PROVE TypeOK'
  <2>1. row' \in [Docs -> Row]
    BY <1>5 DEF DeleteUpload, NoRow, Row, States, Pins
  <2>2. QED
    BY <1>5, <2>1, <1>a, <1>b DEF DeleteUpload
<1>6. ASSUME NEW d \in Docs, IndexMoves(d) PROVE TypeOK'
  BY <1>6, <1>a, <1>b DEF IndexMoves
<1>7. ASSUME NEW m \in Runs, NEW r \in Rules, Evaluate(m, r) PROVE TypeOK'
  <2>1. Accumulate(mat[m], r) \in Run
    BY RunsAccumulate
  <2>2. mat' \in [Runs -> Run]
    BY <1>7, <2>1 DEF Evaluate
  <2>3. QED
    BY <1>7, <2>2 DEF Evaluate
<1>18. ASSUME NEW m \in Runs, ReadRules(m) PROVE TypeOK'
  <2>1. [Idle EXCEPT !.step = "evaluating", !.left = rules] \in Run
    BY DEF Idle, Run
  <2>2. QED
    BY <1>18, <2>1 DEF ReadRules
<1>8. ASSUME NEW m \in Runs, Compare(m) PROVE TypeOK'
  <2> DEFINE found == Candidates(mat[m])
             remove == {d \in Docs : Removes(d, found)}
  <2>1. found \in [Docs -> SUBSET Rules] /\ remove \in SUBSET Docs
    BY DEF Candidates, Run
  <2>2. mat' = [mat EXCEPT ![m] =
                  [Idle EXCEPT !.step = "compared", !.found = found, !.remove = remove]]
    BY <1>8 DEF Compare
  <2> HIDE DEF found, remove
  <2>3. [Idle EXCEPT !.step = "compared", !.found = found, !.remove = remove] \in Run
    BY <2>1 DEF Idle, Run
  <2>4. mat' \in [Runs -> Run]
    BY <2>2, <2>3
  <2>5. QED
    BY <1>8, <2>4 DEF Compare
<1>9. Idle \in Run
  BY DEF Idle, Run
<1>10. ASSUME NEW m \in Runs, Apply(m) PROVE TypeOK'
  <2>1. mat[m].found \in [Docs -> SUBSET Rules]
    BY DEF Run
  <2>2. \A d \in Docs : Upsert(row[d], mat[m].found[d]) \in Row
    BY <1>c, <2>1, UpsertsMakeRows
  <2>3. \A d \in Docs : [row[d] EXCEPT !.state = "removed"] \in Row
    BY <1>c, StatesMakeRows DEF States
  <2>4. row' \in [Docs -> Row]
    BY <1>10, <2>2, <2>3 DEF Apply
  <2>5. QED
    BY <1>9, <1>10, <2>4 DEF Apply
<1>11. ASSUME NEW m \in Runs, Report(m) PROVE TypeOK'
  BY <1>9, <1>11 DEF Report
<1>12. ASSUME NEW r \in CrawlRules, NEW urls \in SUBSET Claims[r], Plan(r, urls) PROVE TypeOK'
  <2>1. r \in Rules
    BY RuleAssumption
  <2>2. \A d \in Docs : Planned(row[d], r) \in Row
    BY <1>c, <2>1, PlansMakeRows
  <2>3. row' \in [Docs -> Row]
    BY <1>12, <2>2 DEF Plan
  <2>4. urls \subseteq Docs
    BY <2>1, RuleAssumption
  <2>5. QED
    BY <1>12, <2>1, <2>3, <2>4, <1>a DEF Plan
<1>13. ASSUME NEW l \in Loads, LoadStart(l) PROVE TypeOK'
  BY <1>13 DEF LoadStart, Load
<1>14. ASSUME NEW l \in Loads, Publish(l) \/ LoadEnds(l) PROVE TypeOK'
  <2>1. CASE Publish(l)
    <3>1. load[l].doc \in Docs
      BY <2>1 DEF Publish, Load
    <3>2. load[l] \in Load /\ load[l].step = "publish"
      BY <2>1 DEF Publish
    <3>3. [load[l] EXCEPT !.step = "page", !.doc = NoDoc] \in Load
      BY <3>2 DEF Load
    <3>4. load' = [load EXCEPT ![l] = [load[l] EXCEPT !.step = "page", !.doc = NoDoc]]
      BY <2>1 DEF Publish
    <3>5. load' \in [Loads -> Load]
      BY <3>3, <3>4
    <3>6. QED
      BY <2>1, <3>1, <3>5, <1>a DEF Publish
  <2>2. CASE LoadEnds(l)
    BY <1>14, <2>2 DEF LoadEnds, Load, Resting
  <2>3. QED
    BY <1>14, <2>1, <2>2
<1>15. ASSUME NEW l \in Loads, NEW d \in Docs, FetchFails(l, d) \/ Unchanged(l, d) \/ Store(l, d)
       PROVE  TypeOK'
  <2>1. [row[d] EXCEPT !.state = "failed"] \in Row /\ [row[d] EXCEPT !.state = "member"] \in Row
    BY <1>c, StatesMakeRows DEF States
  <2>2. row' \in [Docs -> Row]
    BY <1>15, <2>1 DEF FetchFails, Unchanged, Store
  <2>3. [step |-> "publish", pending |-> load[l].pending \ {d}, doc |-> d] \in Load
    BY DEF Load
  <2>4. [load[l] EXCEPT !.pending = load[l].pending \ {d}] \in Load
    BY DEF Load
  <2>5. load' \in [Loads -> Load]
    BY <1>15, <2>3, <2>4 DEF FetchFails, Unchanged, Store
  <2>6. QED
    BY <1>15, <1>a, <2>2, <2>5 DEF FetchFails, Unchanged, Store
<1>16. CASE UNCHANGED vars
  BY <1>16 DEF vars
<1>17. QED
  BY <1>1, <1>2, <1>3, <1>4, <1>5, <1>6, <1>7, <1>8, <1>10, <1>11, <1>12, <1>13, <1>14, <1>15,
     <1>16, <1>18 DEF Next

\* The table, the runs and the loads only ever hold what the schema and the
\* code can put there.
THEOREM TypeCorrect == Spec => []TypeOK
<1>1. QED
  BY InitTypeOK, NextTypeOK, PTL DEF Spec

-----------------------------------------------------------------------------
(* Who accounts for members and published pages                            *)

\* A rule is named by a row only if it was given out and finds the document;
\* a crawled page has a row and is no upload.
RowInv ==
  /\ rules \subseteq used
  /\ \A d \in Docs : \A r \in row[d].by : r \in used /\ d \in Claims[r]
  /\ \A d \in Docs : row[d].crawled => Exists(d) /\ d \notin Uploads

\* What a materialisation carries is still true when it writes.
FoundInv ==
  \A m \in Runs :
    /\ mat[m].left \subseteq used
    /\ \A d \in Docs : \A r \in mat[m].found[d] :
         /\ r \in used \ Exclusions /\ d \in Claims[r]
         /\ r \in CrawlRules => Exists(d)

\* A load has pages of the crawl only, and publishes what it committed.
LoadInv ==
  \A l \in Loads :
    /\ \A d \in load[l].pending : row[d].crawled
    /\ load[l].step = "publish" => row[load[l].doc].crawled /\ load[l].doc \in fetched

Accounts == RowInv /\ FoundInv /\ LoadInv /\ PublishedIsKnown /\ MembersAreVouchedFor

LEMMA InitAccounts == Init => Accounts
<1> SUFFICES ASSUME Init PROVE Accounts
  OBVIOUS
<1>1. \A d \in Docs : row[d] = NoRow
  BY DEF Init
<1>2. RowInv
  BY <1>1 DEF Init, RowInv, NoRow
<1>3. FoundInv
  BY DEF Init, FoundInv, Idle
<1>4. LoadInv
  BY DEF Init, LoadInv, Resting
<1>5. PublishedIsKnown /\ MembersAreVouchedFor
  BY <1>1 DEF Init, PublishedIsKnown, MembersAreVouchedFor, NoRow
<1>6. QED
  BY <1>2, <1>3, <1>4, <1>5 DEF Accounts

\* What a rule that is evaluated finds.
LEMMA HitsAreKnown ==
  ASSUME TypeOK, RowInv, NEW r \in Rules, NEW d \in Hits(r)
  PROVE  /\ d \in Docs /\ d \in Claims[r]
         /\ r \in CrawlRules => Exists(d)
<1>1. CASE r \in CrawlRules
  BY <1>1 DEF Hits, RowInv, Exists
<1>2. CASE r \notin CrawlRules
  BY <1>2, RuleAssumption DEF Hits
<1>3. QED
  BY <1>1, <1>2

\* An action that writes to the table leaves every account in order when it
\* keeps the rows of crawled and of crawl-claimed pages, moves no page from one
\* load to another and makes only members that are vouched for.
LEMMA StepAccounts == TypeOK /\ Accounts /\ [Next]_vars => Accounts'
<1> SUFFICES ASSUME TypeOK, Accounts, [Next]_vars PROVE Accounts'
  OBVIOUS
<1> USE DEF Accounts, sources, crawl
<1>a. Uploads \subseteq Docs
  BY DocAssumption
<1>b. \A r \in Rules : Claims[r] \subseteq Docs \ Uploads
  BY RuleAssumption
<1>c. \A d \in Docs : row[d] \in Row /\ row[d].by \in SUBSET Rules /\ row[d].state \in States
  BY DEF TypeOK, Row
<1>1. ASSUME NEW r \in Rules, AddRule(r) \/ DeleteRule(r) PROVE Accounts'
  BY <1>1 DEF AddRule, DeleteRule, RowInv, FoundInv, LoadInv, PublishedIsKnown,
     MembersAreVouchedFor, Exists
<1>2. ASSUME NEW d \in Docs, NEW p \in Pins, Pin(d, p) PROVE Accounts'
  <2>1. /\ row'[d].by = row[d].by /\ row'[d].crawled = row[d].crawled
        /\ row'[d].state # "none"
        /\ row'[d].state = "member" => row[d].state = "member" \/ p = "in"
    BY <1>2, <1>c DEF Pin, Decided, TypeOK, Row, Pins
  <2>2. \A e \in Docs \ {d} : row'[e] = row[e]
    BY <1>2 DEF Pin, TypeOK
  <2>3. UNCHANGED <<rules, used, mat, load, published, fetched, upload>>
    BY <1>2 DEF Pin
  <2>4. vouched \subseteq vouched' /\ (p = "in" => d \in vouched')
    BY <1>2 DEF Pin
  <2>5. RowInv' /\ FoundInv'
    BY <2>1, <2>2, <2>3 DEF RowInv, FoundInv, Exists
  <2>6. LoadInv' /\ PublishedIsKnown'
    BY <2>1, <2>2, <2>3 DEF LoadInv, PublishedIsKnown, Exists, TypeOK, Load
  <2>7. MembersAreVouchedFor'
    BY <2>1, <2>2, <2>3, <2>4 DEF MembersAreVouchedFor
  <2>8. QED
    BY <2>5, <2>6, <2>7
<1>d. ASSUME NEW u \in Uploads, Uploaded(u), upload' = [upload EXCEPT ![u] = "accepted"],
             UNCHANGED <<sources, mat, crawl, vouched>>
      PROVE Accounts'
  <2>1. row'[u] = IF Exists(u) THEN row[u] ELSE [NoRow EXCEPT !.state = "member"]
    BY <1>d, <1>a DEF Uploaded, TypeOK
  <2>2. \A e \in Docs \ {u} : row'[e] = row[e]
    BY <1>d DEF Uploaded, TypeOK
  <2>3. upload'[u] = "accepted" /\ \A v \in Uploads \ {u} : upload'[v] = upload[v]
    BY <1>d DEF TypeOK
  <2>4. RowInv'
    BY <1>d, <2>1, <2>2 DEF RowInv, Exists, NoRow
  <2>5. FoundInv'
    BY <1>d, <2>1, <2>2 DEF FoundInv, Exists, NoRow
  <2>6. LoadInv' /\ PublishedIsKnown'
    BY <1>d, <2>1, <2>2 DEF LoadInv, PublishedIsKnown, Exists, NoRow, RowInv, TypeOK, Load
  <2>7. MembersAreVouchedFor'
    BY <1>d, <2>1, <2>2, <2>3 DEF MembersAreVouchedFor
  <2>8. QED
    BY <2>4, <2>5, <2>6, <2>7
<1>3. ASSUME NEW u \in Uploads, NEW verdict \in {"pending", "accepted"}, UploadFile(u, verdict)
      PROVE Accounts'
  <2>1. CASE verdict = "accepted"
    BY <1>3, <1>d, <2>1 DEF UploadFile
  <2>2. CASE verdict = "pending"
    <3>1. UNCHANGED <<row, rules, used, mat, load, published, fetched, vouched>>
      BY <1>3, <2>2 DEF UploadFile
    <3>2. \A v \in Uploads : upload[v] = "accepted" => upload'[v] = "accepted"
      BY <1>3 DEF UploadFile, TypeOK
    <3>3. QED
      BY <3>1, <3>2 DEF RowInv, FoundInv, LoadInv, PublishedIsKnown, MembersAreVouchedFor, Exists
  <2>3. QED
    BY <2>1, <2>2
<1>4. ASSUME NEW u \in Uploads, AcceptUpload(u) PROVE Accounts'
  BY <1>4, <1>d DEF AcceptUpload
<1>5. ASSUME NEW u \in Uploads, DeleteUpload(u) PROVE Accounts'
  <2>1. row'[u] = NoRow /\ \A e \in Docs \ {u} : row'[e] = row[e]
    BY <1>5, <1>a DEF DeleteUpload, TypeOK
  <2>2. \A v \in Uploads \ {u} : upload'[v] = upload[v]
    BY <1>5 DEF DeleteUpload, TypeOK
  <2>3. UNCHANGED <<rules, used, mat, load, published, fetched, vouched>>
    BY <1>5 DEF DeleteUpload
  <2>4. ~row[u].crawled
    BY <1>a DEF RowInv
  <2>5. RowInv'
    BY <2>1, <2>3 DEF RowInv, Exists, NoRow
  <2>6. FoundInv'
    <3>1. \A m \in Runs, d \in Docs : mat[m].found[d] \subseteq Rules
      BY DEF TypeOK, Run
    <3>2. QED
      BY <1>b, <2>1, <2>3, <3>1 DEF FoundInv, Exists
  <2>7. LoadInv' /\ PublishedIsKnown'
    BY <2>1, <2>3, <2>4 DEF LoadInv, PublishedIsKnown, Exists, TypeOK, Load
  <2>8. MembersAreVouchedFor'
    BY <2>1, <2>2, <2>3 DEF MembersAreVouchedFor, NoRow
  <2>9. QED
    BY <2>5, <2>6, <2>7, <2>8
<1>6. ASSUME NEW d \in Docs, IndexMoves(d) PROVE Accounts'
  BY <1>6 DEF IndexMoves, RowInv, FoundInv, LoadInv, PublishedIsKnown, MembersAreVouchedFor, Exists
<1>e. ASSUME UNCHANGED <<rules, used, row, upload, load, published, fetched, vouched>>, FoundInv'
      PROVE Accounts'
  BY <1>e DEF RowInv, LoadInv, PublishedIsKnown, MembersAreVouchedFor, Exists
<1>h. ASSUME NEW m \in Runs, NEW new \in Run, mat' = [mat EXCEPT ![m] = new],
             UNCHANGED <<rules, used, row, upload, load, published, fetched, vouched>>,
             new.left \subseteq used,
             \A d \in Docs : \A r \in new.found[d] :
               /\ r \in used \ Exclusions /\ d \in Claims[r]
               /\ r \in CrawlRules => Exists(d)
      PROVE Accounts'
  <2>1. \A n \in Runs : mat'[n] = IF n = m THEN new ELSE mat[n]
    BY <1>h DEF TypeOK
  <2>2. FoundInv'
    BY <1>h, <2>1 DEF FoundInv, Exists
  <2>3. QED
    BY <1>e, <1>h, <2>2
<1>7. ASSUME NEW m \in Runs, NEW r \in Rules, Evaluate(m, r) PROVE Accounts'
  <2> DEFINE new == Accumulate(mat[m], r)
  <2>1. mat[m] \in Run /\ r \in mat[m].left
    BY <1>7 DEF Evaluate, TypeOK
  <2>2. /\ new \in Run /\ new.left = mat[m].left \ {r}
        /\ \A d \in Docs : new.found[d] = IF r \notin Exclusions /\ d \in Hits(r)
                                        THEN mat[m].found[d] \cup {r} ELSE mat[m].found[d]
    BY <2>1, RunsAccumulate
  <2>3. mat' = [mat EXCEPT ![m] = new]
        /\ UNCHANGED <<rules, used, row, upload, load, published, fetched, vouched>>
    BY <1>7 DEF Evaluate
  <2> HIDE DEF new
  <2>4. new.left \subseteq used
    BY <2>2 DEF FoundInv
  <2>5. ASSUME NEW d \in Docs, NEW s \in new.found[d]
        PROVE  /\ s \in used \ Exclusions /\ d \in Claims[s]
               /\ s \in CrawlRules => Exists(d)
    <3>1. CASE s \in mat[m].found[d]
      BY <3>1 DEF FoundInv
    <3>2. CASE s = r /\ r \notin Exclusions /\ d \in Hits(r)
      BY <2>1, <3>2, HitsAreKnown DEF FoundInv
    <3>3. QED
      BY <2>2, <2>5, <3>1, <3>2
  <2>6. QED
    BY <1>h, <2>2, <2>3, <2>4, <2>5
<1>18. ASSUME NEW m \in Runs, ReadRules(m) PROVE Accounts'
  <2> DEFINE new == [Idle EXCEPT !.step = "evaluating", !.left = rules]
  <2>1. new \in Run /\ new.left = rules /\ \A d \in Docs : new.found[d] = {}
    BY DEF Idle, Run, TypeOK
  <2>2. mat' = [mat EXCEPT ![m] = new]
        /\ UNCHANGED <<rules, used, row, upload, load, published, fetched, vouched>>
    BY <1>18 DEF ReadRules
  <2> HIDE DEF new
  <2>3. new.left \subseteq used
    BY <2>1 DEF RowInv
  <2>4. QED
    BY <1>h, <2>1, <2>2, <2>3
<1>8. ASSUME NEW m \in Runs, Compare(m) PROVE Accounts'
  <2> DEFINE found == Candidates(mat[m])
             remove == {d \in Docs : Removes(d, found)}
             new == [Idle EXCEPT !.step = "compared", !.found = found, !.remove = remove]
  <2>a. /\ found \in [Docs -> SUBSET Rules] /\ remove \in SUBSET Docs
        /\ \A d \in Docs : found[d] \subseteq mat[m].found[d]
    BY DEF Candidates, Run, TypeOK
  <2>1. new \in Run /\ new.left = {} /\ \A d \in Docs : new.found[d] \subseteq mat[m].found[d]
    <3> HIDE DEF found, remove
    <3>1. QED
      BY <2>a DEF Idle, Run
  <2>2. mat' = [mat EXCEPT ![m] = new]
        /\ UNCHANGED <<rules, used, row, upload, load, published, fetched, vouched>>
    BY <1>8 DEF Compare
  <2> HIDE DEF new
  <2>3. QED
    BY <1>h, <2>1, <2>2 DEF FoundInv
<1>f. ASSUME NEW m \in Runs, mat' = [mat EXCEPT ![m] = Idle]
      PROVE \A n \in Runs : /\ mat'[n].left \subseteq mat[n].left
                           /\ \A d \in Docs : mat'[n].found[d] \subseteq mat[n].found[d]
  BY <1>f DEF TypeOK, Idle
<1>9. ASSUME NEW m \in Runs, Report(m) PROVE Accounts'
  <2>1. FoundInv'
    BY <1>9, <1>f DEF Report, FoundInv, Exists
  <2>2. QED
    BY <1>9, <1>e, <2>1 DEF Report
<1>10. ASSUME NEW m \in Runs, Apply(m) PROVE Accounts'
  <2> DEFINE found == mat[m].found
  <2>1. UNCHANGED <<rules, used, upload, load, published, fetched, vouched>>
    BY <1>10 DEF Apply
  <2>2. ASSUME NEW d \in Docs, found[d] # {}, ~Exists(d)
        PROVE  /\ row'[d] = [NoRow EXCEPT !.state = Accepted(found[d]), !.by = found[d]]
               /\ row'[d].state = "member" =>
                    AutoAccept /\ \E r \in used \ (Exclusions \cup Proposing \cup CrawlRules) : d \in Claims[r]
    <3>1. row'[d] = [NoRow EXCEPT !.state = Accepted(found[d]), !.by = found[d]]
      BY <1>10, <2>2 DEF Apply, Upsert, Exists
    <3>2. row'[d].state = Accepted(found[d])
      BY <3>1 DEF NoRow
    <3>3. PICK r : r \in found[d]
      BY <2>2
    <3>4. r \in used \ Exclusions /\ r \notin CrawlRules /\ d \in Claims[r]
      BY <2>2, <3>3 DEF FoundInv
    <3>5. QED
      BY <3>1, <3>2, <3>3, <3>4 DEF Accepted
  <2>3. ASSUME NEW d \in Docs, found[d] # {}, Exists(d)
        PROVE  row'[d] = [row[d] EXCEPT !.by = found[d]]
    BY <1>10, <2>3 DEF Apply, Upsert, Exists
  <2>4. ASSUME NEW d \in Docs, found[d] = {}
        PROVE  row'[d] \in {row[d], [row[d] EXCEPT !.state = "removed"]} /\ (Exists(d) \/ row'[d] = row[d])
    BY <1>10, <2>4 DEF Apply
  <2>5. ASSUME NEW d \in Docs
        PROVE  /\ row'[d].by = row[d].by \/ row'[d].by = found[d]
               /\ row'[d].crawled = row[d].crawled \/ (~Exists(d) /\ row'[d].crawled = FALSE)
               /\ Exists(d) => row'[d].state # "none"
    <3>1. CASE found[d] # {} /\ ~Exists(d)
      BY <2>2, <3>1 DEF NoRow
    <3>2. CASE found[d] # {} /\ Exists(d)
      BY <2>3, <3>2, <1>c DEF Row, Exists
    <3>3. CASE found[d] = {}
      BY <2>4, <3>3, <1>c DEF Row, Exists
    <3>4. QED
      BY <3>1, <3>2, <3>3
  <2>6. \A d \in Docs : row[d].crawled => row'[d].crawled
    BY <2>5 DEF RowInv
  <2>7. RowInv'
    <3>1. \A d \in Docs : \A r \in found[d] : r \in used /\ d \in Claims[r]
      BY DEF FoundInv
    <3>2. \A d \in Docs : row'[d].crawled => row[d].crawled
      BY <2>5 DEF TypeOK, Row
    <3>3. QED
      BY <2>1, <2>5, <3>1, <3>2 DEF RowInv, Exists
  <2>8. FoundInv'
    <3>1. \A n \in Runs : /\ mat'[n].left \subseteq mat[n].left
                         /\ \A d \in Docs : mat'[n].found[d] \subseteq mat[n].found[d]
      BY <1>10, <1>f DEF Apply
    <3>2. QED
      BY <2>1, <2>5, <3>1 DEF FoundInv, Exists
  <2>9. LoadInv'
    BY <2>1, <2>6 DEF LoadInv, TypeOK, Load
  <2>10. PublishedIsKnown'
    BY <2>1, <2>5, <2>6 DEF PublishedIsKnown, Exists, TypeOK
  <2>11. MembersAreVouchedFor'
    <3> SUFFICES ASSUME NEW d \in Docs, row'[d].state = "member"
                 PROVE \/ d \in fetched \cup vouched
                       \/ d \in Uploads /\ upload[d] = "accepted"
                       \/ AutoAccept /\ \E r \in used \ (Exclusions \cup Proposing \cup CrawlRules) : d \in Claims[r]
      BY <2>1 DEF MembersAreVouchedFor
    <3>1. CASE found[d] # {} /\ ~Exists(d)
      BY <2>2, <3>1
    <3>2. CASE found[d] # {} /\ Exists(d)
      <4>1. row[d].state = "member"
        BY <2>3, <3>2, <1>c DEF Row
      <4>2. QED
        BY <4>1 DEF MembersAreVouchedFor
    <3>3. CASE found[d] = {}
      <4>1. row[d].state = "member"
        BY <2>4, <3>3, <1>c DEF Row
      <4>2. QED
        BY <4>1 DEF MembersAreVouchedFor
    <3>4. QED
      BY <3>1, <3>2, <3>3
  <2>12. QED
    BY <2>7, <2>8, <2>9, <2>10, <2>11
<1>11. ASSUME NEW r \in CrawlRules, NEW urls \in SUBSET Claims[r], Plan(r, urls) PROVE Accounts'
  <2>1. r \in Rules /\ urls \subseteq Docs \ Uploads
    BY <1>b, RuleAssumption
  <2>2. rules' = rules \cup {r} /\ used' = used \cup {r}
        /\ UNCHANGED <<mat, upload, load, published, fetched, vouched>>
    BY <1>11 DEF Plan
  <2>3. ASSUME NEW d \in urls
        PROVE  /\ row'[d].by = row[d].by \cup {r}
               /\ row'[d].state # "none"
               /\ row[d].crawled => row'[d].crawled
               /\ row'[d].state = "member" => row[d].state = "member"
    BY <1>11, <1>c, <2>1, <2>3 DEF Plan, Planned, Row
  <2>4. \A d \in Docs \ urls : row'[d] = row[d]
    BY <1>11 DEF Plan
  <2>5. RowInv'
    BY <2>1, <2>2, <2>3, <2>4 DEF RowInv, Exists
  <2>6. FoundInv'
    BY <2>2, <2>3, <2>4 DEF FoundInv, Exists
  <2>7. LoadInv' /\ PublishedIsKnown'
    BY <2>2, <2>3, <2>4 DEF LoadInv, PublishedIsKnown, Exists, TypeOK, Load
  <2>8. MembersAreVouchedFor'
    BY <2>2, <2>3, <2>4 DEF MembersAreVouchedFor
  <2>9. QED
    BY <2>5, <2>6, <2>7, <2>8
<1>g. ASSUME UNCHANGED <<rules, used, row, upload, mat, vouched>>, fetched' = fetched,
             LoadInv', PublishedIsKnown'
      PROVE Accounts'
  BY <1>g DEF RowInv, FoundInv, MembersAreVouchedFor, Exists
<1>12. ASSUME NEW l \in Loads, LoadStart(l) PROVE Accounts'
  <2>1. PublishedIsKnown'
    BY <1>12 DEF LoadStart, PublishedIsKnown, Exists
  <2>2. LoadInv'
    BY <1>12 DEF LoadStart, LoadInv, TypeOK
  <2>3. QED
    BY <1>12, <1>g, <2>1, <2>2 DEF LoadStart
<1>13. ASSUME NEW l \in Loads, Publish(l) PROVE Accounts'
  <2>1. load[l].doc \in Docs
    BY <1>13 DEF Publish, TypeOK, Load
  <2>2. PublishedIsKnown'
    BY <1>13, <2>1 DEF Publish, PublishedIsKnown, Exists, LoadInv, RowInv
  <2>3. LoadInv'
    BY <1>13 DEF Publish, LoadInv, TypeOK, Load
  <2>4. QED
    BY <1>13, <1>g, <2>2, <2>3 DEF Publish
<1>14. ASSUME NEW l \in Loads, LoadEnds(l) PROVE Accounts'
  <2>1. PublishedIsKnown'
    BY <1>14 DEF LoadEnds, PublishedIsKnown, Exists
  <2>2. LoadInv'
    BY <1>14 DEF LoadEnds, LoadInv, TypeOK, Resting
  <2>3. QED
    BY <1>14, <1>g, <2>1, <2>2 DEF LoadEnds
<1>15. ASSUME NEW l \in Loads, NEW d \in Docs, FetchFails(l, d) \/ Unchanged(l, d) \/ Store(l, d)
       PROVE  Accounts'
  <2>1. /\ row'[d].by = row[d].by /\ row'[d].crawled = row[d].crawled
        /\ row'[d].state \in {"failed", "member"}
        /\ row'[d].state = "member" => d \in fetched' \cup vouched'
    BY <1>15, <1>c DEF FetchFails, Unchanged, Store, TypeOK, Row
  <2>2. \A e \in Docs \ {d} : row'[e] = row[e]
    BY <1>15 DEF FetchFails, Unchanged, Store, TypeOK
  <2>3. row[d].crawled /\ fetched \subseteq fetched' /\ vouched \subseteq vouched'
        /\ UNCHANGED <<rules, used, mat, upload, published>>
    BY <1>15 DEF FetchFails, Unchanged, Store, LoadInv
  <2>4. \A k \in Loads : /\ load'[k].pending \subseteq load[k].pending
                         /\ load'[k].step = "publish" =>
                              \/ load[k].step = "publish" /\ load'[k].doc = load[k].doc
                              \/ load'[k].doc = d /\ d \in fetched'
    BY <1>15 DEF FetchFails, Unchanged, Store, TypeOK, Load
  <2>5. RowInv' /\ FoundInv'
    BY <2>1, <2>2, <2>3 DEF RowInv, FoundInv, Exists
  <2>a. \A e \in Docs : row[e].crawled => row'[e].crawled
    BY <2>1, <2>2
  <2>b. \A k \in Loads : /\ load[k].pending \subseteq Docs
                         /\ load[k].step = "publish" => load[k].doc \in Docs
    BY DEF TypeOK, Load
  <2>6. LoadInv'
    BY <2>1, <2>3, <2>4, <2>a, <2>b DEF LoadInv
  <2>7. PublishedIsKnown'
    BY <2>1, <2>2, <2>3 DEF PublishedIsKnown, Exists, TypeOK
  <2>8. MembersAreVouchedFor'
    BY <2>1, <2>2, <2>3 DEF MembersAreVouchedFor
  <2>9. QED
    BY <2>5, <2>6, <2>7, <2>8
<1>16. CASE UNCHANGED vars
  BY <1>16 DEF vars, RowInv, FoundInv, LoadInv, PublishedIsKnown, MembersAreVouchedFor, Exists
<1>17. QED
  BY <1>1, <1>2, <1>3, <1>4, <1>5, <1>6, <1>7, <1>8, <1>9, <1>10, <1>11, <1>12, <1>13, <1>14,
     <1>15, <1>16, <1>18 DEF Next

THEOREM AccountsHold == Spec => []Accounts
<1>1. QED
  BY InitAccounts, StepAccounts, TypeCorrect, PTL DEF Spec

\* Whatever the index holds because a crawl put it there, the collection has a
\* fetched row of that crawl for.
THEOREM PublishedIsKnownHolds == Spec => []PublishedIsKnown
<1>1. Accounts => PublishedIsKnown
  BY DEF Accounts
<1>2. QED
  BY <1>1, AccountsHold, PTL

\* No planned page and no mere proposal becomes a member by materialising.
THEOREM MembersAreVouchedForHolds == Spec => []MembersAreVouchedFor
<1>1. Accounts => MembersAreVouchedFor
  BY DEF Accounts
<1>2. QED
  BY <1>1, AccountsHold, PTL

-----------------------------------------------------------------------------
(* What happens to a pin                                                   *)

\* A run that will write over a pin has made it loose already.
PinInv ==
  /\ PinsHold
  /\ \A m \in Runs : \A d \in mat[m].remove : row[d].pin = "in" => d \in loose
  /\ \A l \in Loads : \A d \in load[l].pending : row[d].pin # "none" => d \in loose

LEMMA InitPinInv == Init => PinInv
BY DEF Init, PinInv, PinsHold, NoRow, Idle, Resting

LEMMA StepPinInv == TypeOK /\ PinInv /\ [Next]_vars => PinInv'
<1> SUFFICES ASSUME TypeOK, PinInv, [Next]_vars PROVE PinInv'
  OBVIOUS
<1> USE DEF PinInv, sources, crawl
<1>a. \A d \in Docs : row[d] \in Row
  BY DEF TypeOK
<1>b. /\ \A m \in Runs : mat[m] \in Run /\ mat[m].remove \subseteq Docs
      /\ \A l \in Loads : load[l] \in Load /\ load[l].pending \subseteq Docs
  BY DEF TypeOK, Run, Load
<1>c. Uploads \subseteq Docs
  BY DocAssumption
<1>1. ASSUME UNCHANGED <<row, mat, load, loose>> PROVE PinInv'
  BY <1>1 DEF PinsHold
<1>2. ASSUME NEW d \in Docs, NEW p \in Pins, Pin(d, p) PROVE PinInv'
  <2>1. row'[d].pin = p /\ (p = "in" => row'[d].state = "member")
        /\ (p = "out" => row'[d].state = "removed")
    BY <1>2, <1>a DEF Pin, Decided, TypeOK, Row
  <2>2. \A e \in Docs \ {d} : row'[e] = row[e] /\ (e \in loose' <=> e \in loose)
    BY <1>2 DEF Pin, TypeOK
  <2>3. p # "none" /\ Racing(d) => d \in loose'
    BY <1>2 DEF Pin
  <2>4. UNCHANGED <<mat, load>>
    BY <1>2 DEF Pin
  <2>5. PinsHold'
    BY <2>1, <2>2 DEF PinsHold
  <2>6. \A m \in Runs : \A e \in mat[m].remove : row'[e].pin = "in" => e \in loose'
    BY <1>b, <2>1, <2>2, <2>3 DEF Racing
  <2>7. \A l \in Loads : \A e \in load[l].pending : row'[e].pin # "none" => e \in loose'
    BY <1>b, <2>1, <2>2, <2>3 DEF Racing
  <2>8. QED
    BY <2>4, <2>5, <2>6, <2>7
<1>3. ASSUME NEW u \in Uploads, UNCHANGED <<mat, load>>, loose' \in {loose, loose \ {u}},
             \A e \in Docs \ {u} : row'[e] = row[e],
             (row'[u] = row[u] /\ loose' = loose) \/ row'[u].pin = "none"
      PROVE PinInv'
  BY <1>3, <1>b, <1>c DEF PinsHold
<1>4. ASSUME NEW u \in Uploads, Uploaded(u), UNCHANGED <<mat, load, loose>> PROVE PinInv'
  <2>1. row'[u] = IF Exists(u) THEN row[u] ELSE [NoRow EXCEPT !.state = "member"]
    BY <1>4, <1>c DEF Uploaded, TypeOK
  <2>2. \A e \in Docs \ {u} : row'[e] = row[e]
    BY <1>4 DEF Uploaded, TypeOK
  <2>3. row'[u] = row[u] \/ row'[u].pin = "none"
    BY <2>1 DEF NoRow
  <2>4. QED
    BY <1>3, <1>4, <2>2, <2>3
<1>5. ASSUME NEW u \in Uploads, NEW verdict \in {"pending", "accepted"}, UploadFile(u, verdict)
      PROVE PinInv'
  <2>1. CASE verdict = "accepted"
    BY <1>4, <1>5, <2>1 DEF UploadFile
  <2>2. CASE verdict # "accepted"
    BY <1>1, <1>5, <2>2 DEF UploadFile
  <2>3. QED
    BY <2>1, <2>2
<1>6. ASSUME NEW u \in Uploads, AcceptUpload(u) PROVE PinInv'
  BY <1>4, <1>6 DEF AcceptUpload
<1>7. ASSUME NEW u \in Uploads, DeleteUpload(u) PROVE PinInv'
  <2>1. row'[u].pin = "none" /\ \A e \in Docs \ {u} : row'[e] = row[e]
    BY <1>7, <1>c DEF DeleteUpload, TypeOK, NoRow
  <2>2. QED
    BY <1>3, <1>7, <2>1 DEF DeleteUpload
<1>8. ASSUME NEW m \in Runs, ReadRules(m) \/ Report(m) \/ \E r \in Rules : Evaluate(m, r)
      PROVE  PinInv'
  <2>1. \A n \in Runs : mat'[n].remove \subseteq mat[n].remove
    <3>1. CASE ReadRules(m) \/ Report(m)
      <4> DEFINE begun == [Idle EXCEPT !.step = "evaluating", !.left = rules]
      <4>a. Idle.remove = {} /\ begun.remove = {}
        BY DEF Idle
      <4>b. mat' = [mat EXCEPT ![m] = Idle] \/ mat' = [mat EXCEPT ![m] = begun]
        BY <3>1 DEF ReadRules, Report
      <4> HIDE DEF begun
      <4>1. mat'[m].remove = {} /\ \A n \in Runs \ {m} : mat'[n] = mat[n]
        BY <4>a, <4>b DEF TypeOK
      <4>2. QED
        BY <4>1
    <3>2. ASSUME NEW r \in Rules, Evaluate(m, r)
          PROVE  \A n \in Runs : mat'[n].remove \subseteq mat[n].remove
      <4>1. Accumulate(mat[m], r).remove = mat[m].remove
        BY <1>b, RunsAccumulate
      <4>2. \A n \in Runs : mat'[n] = IF n = m THEN Accumulate(mat[m], r) ELSE mat[n]
        BY <3>2 DEF Evaluate, TypeOK
      <4>3. QED
        BY <4>1, <4>2
    <3>3. QED
      BY <1>8, <3>1, <3>2
  <2>2. UNCHANGED <<row, load, loose>>
    BY <1>8 DEF ReadRules, Evaluate, Report
  <2>3. QED
    BY <2>1, <2>2 DEF PinsHold
<1>9. ASSUME NEW m \in Runs, Compare(m) PROVE PinInv'
  <2>1. \A n \in Runs : mat'[n].remove =
          IF n = m THEN {d \in Docs : Removes(d, Candidates(mat[m]))} ELSE mat[n].remove
    BY <1>9, <1>b DEF Compare, TypeOK, Idle
  <2>2. UNCHANGED <<row, load, loose>>
    BY <1>9 DEF Compare
  <2>3. QED
    BY <2>1, <2>2 DEF PinsHold, Removes
<1>10. ASSUME NEW m \in Runs, Apply(m) PROVE PinInv'
  <2> DEFINE found == mat[m].found
  <2>1. ASSUME NEW d \in Docs
        PROVE  \/ row'[d].pin = "none"
               \/ row'[d].pin = row[d].pin /\ row'[d].state = row[d].state
               \/ row'[d].pin = row[d].pin /\ d \in mat[m].remove /\ row'[d].state = "removed"
    <3>1. CASE found[d] # {} /\ ~Exists(d)
      BY <1>10, <3>1 DEF Apply, Upsert, NoRow, Exists
    <3>2. CASE found[d] # {} /\ Exists(d)
      BY <1>10, <1>a, <3>2 DEF Apply, Upsert, Row, Exists
    <3>3. CASE found[d] = {}
      BY <1>10, <1>a, <3>3 DEF Apply, Row
    <3>4. QED
      BY <3>1, <3>2, <3>3
  <2>2. \A n \in Runs : mat'[n].remove \subseteq mat[n].remove
    BY <1>10 DEF Apply, Idle, TypeOK
  <2>3. UNCHANGED <<load, loose>>
    BY <1>10 DEF Apply
  <2>4. PinsHold'
    BY <2>1, <2>3 DEF PinsHold
  <2>5. QED
    BY <1>b, <2>1, <2>2, <2>3, <2>4
<1>11. ASSUME NEW r \in CrawlRules, NEW urls \in SUBSET Claims[r], Plan(r, urls) PROVE PinInv'
  <2>1. ASSUME NEW d \in Docs
        PROVE  /\ row'[d].pin = row[d].pin
               /\ row'[d].state = row[d].state \/ row[d].state # "member"
               /\ row'[d].state = row[d].state \/ d \in urls
    <3>1. CASE d \in urls
      BY <1>11, <1>a, <3>1 DEF Plan, Planned, Row
    <3>2. CASE d \notin urls
      BY <1>11, <3>2 DEF Plan
    <3>3. QED
      BY <3>1, <3>2
  <2>2. loose \subseteq loose' /\ \A d \in urls : row[d].pin = "out" => d \in loose'
    BY <1>11 DEF Plan
  <2>3. UNCHANGED <<mat, load>>
    BY <1>11 DEF Plan
  <2>4. PinsHold'
    BY <2>1, <2>2, <1>a DEF PinsHold, Row, Pins
  <2>5. QED
    BY <1>b, <2>1, <2>2, <2>3, <2>4
<1>12. ASSUME NEW l \in Loads, LoadStart(l) PROVE PinInv'
  <2>1. \A k \in Loads : load'[k].pending =
          IF k = l THEN {d \in Docs : row[d].crawled /\ row[d].state \in {"planned", "failed"}}
          ELSE load[k].pending
    BY <1>12 DEF LoadStart, TypeOK
  <2>2. UNCHANGED <<row, mat, loose>>
    BY <1>12 DEF LoadStart
  <2>3. \A d \in Docs : row[d].state \in {"planned", "failed"} /\ row[d].pin # "none" => d \in loose
    BY <1>a DEF PinsHold, Row, Pins
  <2>4. QED
    BY <2>1, <2>2, <2>3 DEF PinsHold
<1>13. ASSUME NEW l \in Loads, Publish(l) \/ LoadEnds(l) PROVE PinInv'
  <2>1. \A k \in Loads : load'[k].pending \subseteq load[k].pending
    BY <1>13, <1>b DEF Publish, LoadEnds, Resting, TypeOK, Load
  <2>2. UNCHANGED <<row, mat, loose>>
    BY <1>13 DEF Publish, LoadEnds
  <2>3. QED
    BY <2>1, <2>2 DEF PinsHold
<1>14. ASSUME NEW l \in Loads, NEW d \in Docs, FetchFails(l, d) \/ Unchanged(l, d) \/ Store(l, d)
       PROVE  PinInv'
  <2>1. \A k \in Loads : load'[k].pending \subseteq load[k].pending
    BY <1>14, <1>b DEF FetchFails, Unchanged, Store, TypeOK, Load
  <2>2. row'[d].pin = row[d].pin /\ \A e \in Docs \ {d} : row'[e] = row[e]
    BY <1>14, <1>a DEF FetchFails, Unchanged, Store, TypeOK, Row
  <2>3. UNCHANGED <<mat, loose>> /\ (row[d].pin # "none" => d \in loose)
    BY <1>14 DEF FetchFails, Unchanged, Store
  <2>4. QED
    BY <1>b, <2>1, <2>2, <2>3 DEF PinsHold
<1>15. QED
  <2>1. ASSUME NEW r \in Rules, AddRule(r) \/ DeleteRule(r) PROVE PinInv'
    BY <1>1, <2>1 DEF AddRule, DeleteRule
  <2>2. ASSUME NEW d \in Docs, IndexMoves(d) PROVE PinInv'
    BY <1>1, <2>2 DEF IndexMoves
  <2>3. CASE UNCHANGED vars
    BY <1>1, <2>3 DEF vars
  <2>4. QED
    BY <1>2, <1>5, <1>6, <1>7, <1>8, <1>9, <1>10, <1>11, <1>12, <1>13, <1>14, <2>1, <2>2, <2>3
       DEF Next

\* A pin is lost in no other way than those PinsHold names: a crawl that plans
\* the page again, or a run that had read the table before.
THEOREM PinsHoldHolds == Spec => []PinsHold
<1>1. PinInv => PinsHold
  BY DEF PinInv
<1>2. QED
  BY <1>1, InitPinInv, StepPinInv, TypeCorrect, PTL DEF Spec

-----------------------------------------------------------------------------
(* What a materialisation that nobody commits under does                   *)

\* What such a run has read is still what the table says: the rules it has
\* evaluated contribute what they find, and the diff is the one of now.
QuietRun(m) ==
  /\ mat[m].step = "evaluating" =>
       /\ mat[m].left \subseteq rules
       /\ \A d \in Docs :
            /\ mat[m].found[d] = {r \in (rules \ mat[m].left) \ Exclusions : d \in Hits(r)}
            /\ d \in mat[m].out <=> \E x \in (rules \ mat[m].left) \cap Exclusions : d \in Hits(x)
  /\ mat[m].step = "compared" =>
       /\ \A d \in Docs : mat[m].found[d] = Contributors(d)
       /\ mat[m].remove = {d \in Docs : Removes(d, mat[m].found)}

QuietInv == \A m \in Runs \ stale : QuietRun(m)

LEMMA InitQuietInv == Init => QuietInv
BY DEF Init, QuietInv, QuietRun, Idle

LEMMA StepQuietInv == TypeOK /\ QuietInv /\ [Next]_vars => QuietInv'
<1> SUFFICES ASSUME TypeOK, QuietInv, [Next]_vars PROVE QuietInv'
  OBVIOUS
<1> USE DEF sources, crawl
<1>1. ASSUME Overtake, UNCHANGED mat PROVE QuietInv'
  <2>1. \A m \in Runs \ stale' : mat'[m].step = "idle"
    BY <1>1 DEF Overtake
  <2>2. QED
    BY <2>1 DEF QuietInv, QuietRun
<1>a. ASSUME UNCHANGED <<rules, indexed, row>>
      PROVE  /\ \A d \in Docs : Contributors(d)' = Contributors(d)
             /\ \A r \in Rules : Hits(r)' = Hits(r)
             /\ rules \subseteq Rules
  BY <1>a DEF Contributors, Hits, TypeOK
<1>2. ASSUME UNCHANGED <<rules, indexed, row>>, NEW m \in Runs, mat'[m] = mat[m], QuietRun(m)
      PROVE  QuietRun(m)'
  <2>1. \A d \in Docs : Removes(d, mat[m].found)' = Removes(d, mat[m].found)
    BY <1>2 DEF Removes
  <2>2. {d \in Docs : Removes(d, mat[m].found)}' = {d \in Docs : Removes(d, mat[m].found)}
    BY <2>1
  <2>3. CASE mat[m].step = "evaluating"
    <3>1. mat'[m].left \subseteq rules'
      BY <1>2, <2>3 DEF QuietRun
    <3>2. ASSUME NEW d \in Docs
          PROVE  /\ mat'[m].found[d] = {r \in (rules' \ mat'[m].left) \ Exclusions : d \in Hits(r)'}
                 /\ d \in mat'[m].out <=> \E x \in (rules' \ mat'[m].left) \cap Exclusions : d \in Hits(x)'
      BY <1>2, <1>a, <2>3 DEF QuietRun
    <3>3. QED
      BY <1>2, <2>3, <3>1, <3>2 DEF QuietRun
  <2>4. CASE mat[m].step = "compared"
    BY <1>2, <1>a, <2>2, <2>4 DEF QuietRun
  <2>5. QED
    BY <1>2, <2>3, <2>4 DEF QuietRun
<1>3. ASSUME UNCHANGED <<rules, indexed, row>>, NEW m \in Runs, \A n \in Runs \ {m} : mat'[n] = mat[n],
             \A n \in Runs \ {m} : n \in stale' <=> n \in stale,
             m \notin stale' => QuietRun(m)'
      PROVE  QuietInv'
  BY <1>2, <1>3 DEF QuietInv
<1>4. ASSUME NEW m \in Runs, NEW r \in Rules, Evaluate(m, r) PROVE QuietInv'
  <2> DEFINE new == Accumulate(mat[m], r)
  <2>1. UNCHANGED <<rules, indexed, row, stale>> /\ mat[m].step = "evaluating" /\ r \in mat[m].left
    BY <1>4 DEF Evaluate
  <2>2. mat'[m] = new /\ \A n \in Runs \ {m} : mat'[n] = mat[n]
    BY <1>4 DEF Evaluate, TypeOK
  <2>3. mat[m] \in Run
    BY DEF TypeOK
  <2>4. /\ new.step = "evaluating" /\ new.left = mat[m].left \ {r}
        /\ new.out = IF r \in Exclusions THEN mat[m].out \cup Hits(r) ELSE mat[m].out
        /\ \A d \in Docs : new.found[d] = IF r \notin Exclusions /\ d \in Hits(r)
                                        THEN mat[m].found[d] \cup {r} ELSE mat[m].found[d]
    BY <2>1, <2>3, RunsAccumulate
  <2> HIDE DEF new
  <2>5. ASSUME m \notin stale PROVE QuietRun(m)'
    <3>1. mat[m].left \subseteq rules
      BY <2>1, <2>5 DEF QuietInv, QuietRun
    <3>2. rules \ new.left = (rules \ mat[m].left) \cup {r}
      BY <2>1, <2>4, <3>1
    <3>3. ASSUME NEW d \in Docs
          PROVE  /\ new.found[d] = {s \in (rules \ new.left) \ Exclusions : d \in Hits(s)}
                 /\ d \in new.out <=> \E x \in (rules \ new.left) \cap Exclusions : d \in Hits(x)
      <4>1. /\ mat[m].found[d] = {s \in (rules \ mat[m].left) \ Exclusions : d \in Hits(s)}
            /\ d \in mat[m].out <=> \E x \in (rules \ mat[m].left) \cap Exclusions : d \in Hits(x)
        BY <2>1, <2>5 DEF QuietInv, QuietRun
      <4>2. CASE r \in Exclusions
        BY <2>4, <3>2, <4>1, <4>2
      <4>3. CASE r \notin Exclusions
        <5>1. new.found[d] = {s \in (rules \ new.left) \ Exclusions : d \in Hits(s)}
          BY <2>4, <3>2, <4>1, <4>3
        <5>2. QED
          BY <2>4, <3>2, <4>1, <4>3, <5>1
      <4>4. QED
        BY <4>2, <4>3
    <3>4. ASSUME NEW d \in Docs
          PROVE  /\ new.found[d] = {s \in (rules' \ new.left) \ Exclusions : d \in Hits(s)'}
                 /\ d \in new.out <=> \E x \in (rules' \ new.left) \cap Exclusions : d \in Hits(x)'
      BY <1>a, <2>1, <3>3
    <3>5. new.left \subseteq rules'
      BY <2>1, <2>4, <3>1
    <3>6. QED
      BY <2>2, <2>4, <3>4, <3>5 DEF QuietRun
  <2>6. QED
    BY <1>3, <2>1, <2>2, <2>5
<1>19. ASSUME NEW m \in Runs, ReadRules(m) PROVE QuietInv'
  <2>1. /\ mat'[m].step = "evaluating" /\ mat'[m].left = rules /\ mat'[m].out = {}
        /\ \A d \in Docs : mat'[m].found[d] = {}
    BY <1>19 DEF ReadRules, TypeOK, Idle
  <2>2. \A n \in Runs \ {m} : mat'[n] = mat[n]
    BY <1>19 DEF ReadRules, TypeOK
  <2>3. UNCHANGED <<rules, indexed, row, stale>>
    BY <1>19 DEF ReadRules
  <2>4. rules' \ mat'[m].left = {}
    BY <2>1, <2>3
  <2>5. QuietRun(m)'
    BY <2>1, <2>3, <2>4 DEF QuietRun
  <2>6. QED
    BY <1>3, <2>2, <2>3, <2>5
<1>5. ASSUME NEW m \in Runs, Compare(m) PROVE QuietInv'
  <2> DEFINE found == Candidates(mat[m])
             remove == {d \in Docs : Removes(d, found)}
  <2>1. UNCHANGED <<rules, indexed, row, stale>> /\ mat[m].step = "evaluating" /\ mat[m].left = {}
    BY <1>5 DEF Compare
  <2>2. /\ mat'[m].step = "compared" /\ mat'[m].found = found /\ mat'[m].remove = remove
        /\ \A n \in Runs \ {m} : mat'[n] = mat[n]
    BY <1>5 DEF Compare, TypeOK, Idle
  <2>3. ASSUME m \notin stale, NEW d \in Docs PROVE found[d] = Contributors(d)
    <3>1. /\ mat[m].found[d] = {r \in rules \ Exclusions : d \in Hits(r)}
          /\ d \in mat[m].out <=> \E x \in rules \cap Exclusions : d \in Hits(x)
      BY <2>1, <2>3 DEF QuietInv, QuietRun
    <3>2. QED
      BY <3>1 DEF Candidates, Contributors
  <2>4. {d \in Docs : Removes(d, mat[m].found)}' = remove
    BY <2>1, <2>2 DEF Removes
  <2>5. \A d \in Docs : Contributors(d)' = Contributors(d)
    BY <1>a, <2>1
  <2> HIDE DEF found, remove
  <2>6. m \notin stale => QuietRun(m)'
    BY <2>2, <2>3, <2>4, <2>5 DEF QuietRun
  <2>7. QED
    BY <1>3, <2>1, <2>2, <2>6
<1>6. ASSUME NEW m \in Runs, Apply(m) PROVE QuietInv'
  <2>1. mat'[m].step = "idle" /\ \A n \in Runs \ {m} : mat'[n] = mat[n]
    BY <1>6 DEF Apply, TypeOK, Idle
  <2>2. \A n \in Runs \ {m} : n \notin stale' => mat[n].step = "idle"
    BY <1>6 DEF Apply
  <2>3. QED
    BY <2>1, <2>2 DEF QuietInv, QuietRun
<1>7. ASSUME NEW m \in Runs, Report(m) PROVE QuietInv'
  <2>1. mat'[m].step = "idle" /\ \A n \in Runs \ {m} : mat'[n] = mat[n]
    BY <1>7 DEF Report, TypeOK, Idle
  <2>2. UNCHANGED <<rules, indexed, row>> /\ stale' = stale \ {m}
    BY <1>7 DEF Report
  <2>3. QuietRun(m)'
    BY <2>1 DEF QuietRun
  <2>4. QED
    BY <1>3, <2>1, <2>2, <2>3
<1>b. ASSUME UNCHANGED <<rules, indexed, row, mat, stale>> PROVE QuietInv'
  BY <1>2, <1>b DEF QuietInv
<1>8. ASSUME NEW l \in Loads, LoadStart(l) \/ LoadEnds(l) PROVE QuietInv'
  BY <1>b, <1>8 DEF LoadStart, LoadEnds
<1>9. CASE UNCHANGED vars
  BY <1>b, <1>9 DEF vars
<1>10. ASSUME NEW r \in Rules, AddRule(r) \/ DeleteRule(r) PROVE QuietInv'
  BY <1>1, <1>10 DEF AddRule, DeleteRule
<1>11. ASSUME NEW d \in Docs, NEW p \in Pins, Pin(d, p) PROVE QuietInv'
  BY <1>1, <1>11 DEF Pin
<1>12. ASSUME NEW u \in Uploads, NEW verdict \in {"pending", "accepted"},
              UploadFile(u, verdict)
       PROVE QuietInv'
  BY <1>1, <1>12 DEF UploadFile
<1>13. ASSUME NEW d \in Docs, IndexMoves(d) PROVE QuietInv'
  BY <1>1, <1>13 DEF IndexMoves
<1>14. ASSUME NEW r \in CrawlRules, NEW urls \in SUBSET Claims[r], Plan(r, urls) PROVE QuietInv'
  BY <1>1, <1>14 DEF Plan
<1>15. ASSUME NEW l \in Loads, NEW d \in Docs, FetchFails(l, d) \/ Unchanged(l, d) \/ Store(l, d)
       PROVE QuietInv'
  BY <1>1, <1>15 DEF FetchFails, Unchanged, Store
<1>16. ASSUME NEW l \in Loads, Publish(l) PROVE QuietInv'
  BY <1>1, <1>16 DEF Publish
<1>17. ASSUME NEW u \in Uploads, AcceptUpload(u) \/ DeleteUpload(u) PROVE QuietInv'
  BY <1>1, <1>17 DEF AcceptUpload, DeleteUpload
<1>18. QED
  BY <1>4, <1>5, <1>6, <1>7, <1>8, <1>9, <1>10, <1>11, <1>12, <1>13, <1>14, <1>15, <1>16, <1>17,
     <1>19 DEF Next

\* Contributors is empty exactly where the rules select nothing.
LEMMA SelectedHasContributors ==
  ASSUME NEW d \in Docs
  PROVE  Selected(d) <=> Contributors(d) # {}
BY DEF Selected, Contributors

\* The row of a document after a run that nobody committed under.
LEMMA QuietApply ==
  ASSUME TypeOK, QuietInv, NEW m \in Runs, Apply(m), m \notin stale, NEW d \in Docs
  PROVE  /\ Contributors(d) # {} => row'[d] = Upsert(row[d], Contributors(d))
         /\ Contributors(d) = {} /\ row[d].state = "member" /\ row[d].pin # "in" =>
              row'[d] = [row[d] EXCEPT !.state = "removed"]
         /\ Contributors(d) = {} /\ ~(row[d].state = "member" /\ row[d].pin # "in") =>
              row'[d] = row[d]
         /\ Contributors(d) \in SUBSET Rules /\ row[d] \in Row
<1>1. mat[m].found[d] = Contributors(d)
  BY DEF QuietInv, QuietRun, Apply
<1>2. d \in mat[m].remove <=>
        Contributors(d) = {} /\ row[d].state = "member" /\ row[d].pin # "in"
  BY <1>1 DEF QuietInv, QuietRun, Apply, Removes
<1>3. Contributors(d) \in SUBSET Rules /\ row[d] \in Row
  BY DEF Contributors, TypeOK
<1>4. QED
  BY <1>1, <1>2, <1>3 DEF Apply, Exists

LEMMA StepIsExact ==
  ASSUME TypeOK, QuietInv, NEW m \in Runs, Apply(m), m \notin stale, NEW d \in Docs
  PROVE  /\ (~Exists(d) /\ row'[d].state # "none") <=> (~Exists(d) /\ Selected(d))
         /\ (row[d].state = "member" /\ row'[d].state # "member")
              <=> (row[d].state = "member" /\ ~Selected(d) /\ row[d].pin # "in")
         /\ (~Exists(d) /\ row'[d].state = "member") =>
              AutoAccept /\ \A r \in rules \cap Proposing : d \notin Hits(r)
<1>1. CASE Contributors(d) # {} /\ ~Exists(d)
  <2>1. row'[d].state = Accepted(Contributors(d))
    BY <1>1, QuietApply DEF Upsert, Exists, NoRow
  <2>2. \A r \in rules \cap Proposing : d \in Hits(r) => r \in Contributors(d) \cap Proposing
    BY <1>1 DEF Contributors
  <2>3. QED
    BY <1>1, <2>1, <2>2, SelectedHasContributors DEF Accepted, Exists
<1>2. CASE Contributors(d) # {} /\ Exists(d)
  <2>1. row'[d].state = row[d].state
    BY <1>2, QuietApply DEF Upsert, Exists, Row
  <2>2. QED
    BY <1>2, <2>1, SelectedHasContributors DEF Exists
<1>3. CASE Contributors(d) = {}
  <2>1. row[d].state = "member" /\ row[d].pin # "in" => row'[d].state = "removed"
    BY <1>3, QuietApply DEF Row
  <2>2. ~(row[d].state = "member" /\ row[d].pin # "in") => row'[d].state = row[d].state
    BY <1>3, QuietApply
  <2>3. QED
    BY <1>3, <2>1, <2>2, SelectedHasContributors DEF Exists
<1>4. QED
  BY <1>1, <1>2, <1>3

LEMMA ExactStep == TypeOK /\ QuietInv /\ [Next]_vars =>
  [\A m \in Runs : (Apply(m) /\ m \notin stale) =>
       \A d \in Docs :
         /\ (~Exists(d) /\ row'[d].state # "none") <=> (~Exists(d) /\ Selected(d))
         /\ (row[d].state = "member" /\ row'[d].state # "member")
              <=> (row[d].state = "member" /\ ~Selected(d) /\ row[d].pin # "in")
         /\ (~Exists(d) /\ row'[d].state = "member") =>
              AutoAccept /\ \A r \in rules \cap Proposing : d \notin Hits(r)]_vars
BY StepIsExact

\* A materialisation does what its diff says, and its diff is what the rules
\* and the pins call for, as long as nobody commits under it.
THEOREM DiffIsExactHolds == Spec => DiffIsExact
<1>1. QED
  BY InitQuietInv, StepQuietInv, TypeCorrect, ExactStep, PTL DEF Spec, DiffIsExact

-----------------------------------------------------------------------------
(* Materialising again                                                     *)

\* After a run that nobody committed under, every document has the same
\* contributors as before, and its row names them; where no rule of the crawl's
\* kind excludes, for such a rule would lose its hits with the rows it removes.
LEMMA ContributorsStay ==
  ASSUME TypeOK, QuietInv, NEW m \in Runs, Apply(m), m \notin stale, NEW d \in Docs,
         CrawlRules \cap Exclusions = {}
  PROVE  /\ Contributors(d)' = Contributors(d)
         /\ Contributors(d) # {} => row'[d].by = Contributors(d) /\ row'[d].state # "none"
         /\ Contributors(d) = {} => ~(row'[d].state = "member" /\ row'[d].pin # "in")
<1>1. UNCHANGED <<rules, indexed>>
  BY DEF Apply, sources
<1>2. \A r \in Rules \ CrawlRules : Hits(r)' = Hits(r)
  BY <1>1 DEF Hits
<1>3. rules \subseteq Rules
  BY DEF TypeOK
<1>4. (\E x \in rules \cap Exclusions : d \in Hits(x))' <=> \E x \in rules \cap Exclusions : d \in Hits(x)
  BY <1>1, <1>2, <1>3
<1>5. CASE \E x \in rules \cap Exclusions : d \in Hits(x)
  <2>1. Contributors(d) = {} /\ Contributors(d)' = {}
    BY <1>4, <1>5 DEF Contributors
  <2>2. ~(row'[d].state = "member" /\ row'[d].pin # "in")
    BY <2>1, QuietApply DEF Row
  <2>3. QED
    BY <2>1, <2>2
<1>6. CASE ~ \E x \in rules \cap Exclusions : d \in Hits(x)
  <2>1. /\ Contributors(d) = {r \in rules \ Exclusions : d \in Hits(r)}
        /\ Contributors(d)' = {r \in rules \ Exclusions : d \in Hits(r)'}
    BY <1>1, <1>4, <1>6 DEF Contributors
  <2>2. \A r \in CrawlRules : d \in Hits(r) <=> (row[d].state \notin {"none", "removed"} /\ r \in row[d].by)
    BY DEF Hits
  <2>3. \A r \in CrawlRules : d \in Hits(r)' <=> (row'[d].state \notin {"none", "removed"} /\ r \in row'[d].by)
    BY DEF Hits
  <2>4. CASE Contributors(d) = {}
    <3>1. row'[d].by = row[d].by /\ (row'[d].state = row[d].state \/ row'[d].state = "removed")
      BY <2>4, QuietApply DEF Row
    <3>2. \A r \in rules : d \in Hits(r)' => d \in Hits(r)
      BY <1>2, <1>3, <2>2, <2>3, <3>1
    <3>3. Contributors(d)' = {}
      BY <2>1, <2>4, <3>2
    <3>4. ~(row'[d].state = "member" /\ row'[d].pin # "in")
      BY <2>4, QuietApply DEF Row
    <3>5. QED
      BY <2>4, <3>3, <3>4
  <2>5. CASE Contributors(d) # {} /\ Exists(d)
    <3>1. row'[d].by = Contributors(d) /\ row'[d].state = row[d].state
      BY <2>5, QuietApply DEF Upsert, Exists, Row
    <3>2. ASSUME NEW r \in rules \ Exclusions PROVE d \in Hits(r)' <=> d \in Hits(r)
      <4>1. CASE r \notin CrawlRules
        BY <1>2, <1>3, <4>1
      <4>2. CASE r \in CrawlRules
        <5>1. r \in Contributors(d) <=> d \in Hits(r)
          BY <2>1
        <5>2. QED
          BY <2>2, <2>3, <3>1, <4>2, <5>1
      <4>3. QED
        BY <4>1, <4>2
    <3>3. QED
      BY <2>1, <2>5, <3>1, <3>2 DEF Exists
  <2>6. CASE Contributors(d) # {} /\ ~Exists(d)
    <3>1. row'[d].by = Contributors(d) /\ row'[d].state \in {"member", "proposed"}
      BY <2>6, QuietApply DEF Upsert, Accepted, Exists, NoRow
    <3>2. ASSUME NEW r \in rules \ Exclusions PROVE d \in Hits(r)' <=> d \in Hits(r)
      <4>1. CASE r \notin CrawlRules
        BY <1>2, <1>3, <4>1
      <4>2. CASE r \in CrawlRules
        <5>1. d \notin Hits(r)
          BY <2>2, <2>6, <4>2 DEF Exists
        <5>2. r \notin row'[d].by
          BY <2>1, <3>1, <5>1
        <5>3. QED
          BY <2>3, <4>2, <5>1, <5>2
      <4>3. QED
        BY <4>1, <4>2
    <3>3. QED
      BY <2>1, <2>6, <3>1, <3>2
  <2>7. QED
    BY <2>4, <2>5, <2>6
<1>7. QED
  BY <1>5, <1>6

LEMMA SettledStep ==
  ASSUME CrawlRules \cap Exclusions = {}
  PROVE  TypeOK /\ QuietInv /\ [Next]_vars =>
           [\A m \in Runs : (Apply(m) /\ m \notin stale) => Settled']_vars
<1> SUFFICES ASSUME TypeOK, QuietInv, NEW m \in Runs, Apply(m), m \notin stale PROVE Settled'
  OBVIOUS
<1> DEFINE again == [e \in Docs |-> Contributors(e)]
<1>1. ASSUME NEW d \in Docs
      PROVE  /\ Selected(d)' => Exists(d)' /\ Contributors(d)' = row'[d].by
             /\ ~Removes(d, again)'
  <2>1. Selected(d)' <=> Contributors(d)' # {}
    BY DEF Selected, Contributors
  <2>2. again'[d] = Contributors(d)'
    OBVIOUS
  <2>3. Removes(d, again)' <=> (Contributors(d)' = {} /\ row'[d].state = "member" /\ row'[d].pin # "in")
    BY <2>2 DEF Removes
  <2>4. QED
    BY <2>1, <2>3, ContributorsStay DEF Exists
<1>2. QED
  BY <1>1 DEF Settled

\* Materialising is idempotent: the diff a second run would find is empty.
THEOREM RerunIsQuietHolds ==
  ASSUME CrawlRules \cap Exclusions = {}
  PROVE  Spec => RerunIsQuiet
<1>1. QED
  BY InitQuietInv, StepQuietInv, TypeCorrect, SettledStep, PTL DEF Spec, RerunIsQuiet

-----------------------------------------------------------------------------
(* What was removed                                                        *)

\* One document in one step. Only a pin, a plan and a page of a load take a row
\* out of "removed".
RemovedStays(d) ==
  (row[d].state = "removed" /\ row'[d].state \notin {"none", "removed"}) =>
    \/ row'[d].pin = "in"
    \/ row'[d].state = "planned"
    \/ \E l \in Loads : d \in load[l].pending

LEMMA StepRemovedStays == TypeOK /\ [Next]_vars => [\A d \in Docs : RemovedStays(d)]_vars
<1> SUFFICES ASSUME TypeOK, Next, NEW d \in Docs, row[d].state = "removed" PROVE RemovedStays(d)
  BY DEF RemovedStays
<1> USE DEF TypeOK, sources
<1>1. row \in [Docs -> Row] /\ row[d] \in Row
  OBVIOUS
<1>2. UNCHANGED row => RemovedStays(d)
  BY DEF RemovedStays
<1>3. ASSUME NEW r \in Rules, AddRule(r) \/ DeleteRule(r) PROVE RemovedStays(d)
  BY <1>2, <1>3 DEF AddRule, DeleteRule
<1>4. ASSUME NEW e \in Docs, NEW p \in Pins, Pin(e, p) PROVE RemovedStays(d)
  <2>1. CASE e # d
    <3>1. row'[d] = row[d]
      BY <1>1, <1>4, <2>1 DEF Pin
    <3>2. QED
      BY <3>1 DEF RemovedStays
  <2>2. CASE e = d
    <3>1. row'[d].pin = p /\ row'[d].state = Decided(p, "removed")
      BY <1>1, <1>4, <2>2 DEF Pin, Row
    <3>2. p # "in" => Decided(p, "removed") = "removed"
      BY DEF Decided
    <3>3. QED
      BY <3>1, <3>2 DEF RemovedStays
  <2>3. QED
    BY <2>1, <2>2
<1>5. ASSUME NEW u \in Uploads, Uploaded(u) PROVE RemovedStays(d)
  <2>1. row'[d] = row[d]
    BY <1>1, <1>5 DEF Uploaded, Exists
  <2>2. QED
    BY <2>1 DEF RemovedStays
<1>6. ASSUME NEW u \in Uploads, NEW verdict \in {"pending", "accepted"}, UploadFile(u, verdict)
      PROVE  RemovedStays(d)
  BY <1>2, <1>5, <1>6 DEF UploadFile
<1>7. ASSUME NEW u \in Uploads, AcceptUpload(u) \/ DeleteUpload(u) PROVE RemovedStays(d)
  <2>1. CASE AcceptUpload(u)
    BY <1>5, <2>1 DEF AcceptUpload
  <2>2. CASE DeleteUpload(u)
    <3>1. row'[d] = row[d] \/ row'[d].state = "none"
      BY <1>1, <2>2 DEF DeleteUpload, NoRow
    <3>2. QED
      BY <3>1 DEF RemovedStays
  <2>3. QED
    BY <1>7, <2>1, <2>2
<1>8. ASSUME NEW m \in Runs,
             \/ ReadRules(m) \/ Compare(m) \/ Apply(m) \/ Report(m)
             \/ \E r \in Rules : Evaluate(m, r)
      PROVE  RemovedStays(d)
  <2>1. CASE Apply(m)
    <3>1. row'[d] = Upsert(row[d], mat[m].found[d]) \/ row'[d] = row[d]
            \/ row'[d] = [row[d] EXCEPT !.state = "removed"]
      BY <2>1 DEF Apply
    <3>2. Upsert(row[d], mat[m].found[d]).state = "removed"
      BY <1>1 DEF Upsert, Row
    <3>3. QED
      BY <1>1, <3>1, <3>2 DEF RemovedStays, Row
  <2>2. QED
    BY <1>2, <1>8, <2>1 DEF ReadRules, Evaluate, Compare, Report
<1>9. ASSUME NEW r \in CrawlRules, NEW urls \in SUBSET Claims[r], Plan(r, urls)
      PROVE  RemovedStays(d)
  <2>1. row'[d] = row[d] \/ row'[d] = Planned(row[d], r)
    BY <1>9 DEF Plan
  <2>2. Planned(row[d], r).state = "planned"
    BY <1>1 DEF Planned, Row
  <2>3. QED
    BY <2>1, <2>2 DEF RemovedStays
<1>10. ASSUME NEW l \in Loads, LoadStart(l) \/ Publish(l) \/ LoadEnds(l) PROVE RemovedStays(d)
  BY <1>2, <1>10 DEF LoadStart, Publish, LoadEnds
<1>11. ASSUME NEW l \in Loads, NEW e \in Docs, FetchFails(l, e) \/ Unchanged(l, e) \/ Store(l, e)
       PROVE  RemovedStays(d)
  <2>1. CASE e # d
    <3>1. row'[d] = row[d]
      BY <1>1, <1>11, <2>1 DEF FetchFails, Unchanged, Store
    <3>2. QED
      BY <3>1 DEF RemovedStays
  <2>2. CASE e = d
    <3>1. d \in load[l].pending
      BY <1>11, <2>2 DEF FetchFails, Unchanged, Store
    <3>2. QED
      BY <3>1 DEF RemovedStays
  <2>3. QED
    BY <2>1, <2>2
<1>12. ASSUME NEW e \in Docs, IndexMoves(e) PROVE RemovedStays(d)
  BY <1>2, <1>12 DEF IndexMoves
<1>13. QED
  BY <1>3, <1>4, <1>6, <1>7, <1>8, <1>9, <1>10, <1>11, <1>12 DEF Next

\* A materialisation never brings back what was removed.
THEOREM RemovedStaysOutHolds == Spec => RemovedStaysOut
<1>1. TypeOK /\ [Next]_vars =>
        [\A d \in Docs :
           (row[d].state = "removed" /\ row'[d].state \notin {"none", "removed"}) =>
             \/ row'[d].pin = "in"
             \/ row'[d].state = "planned"
             \/ \E l \in Loads : d \in load[l].pending]_vars
  BY StepRemovedStays DEF RemovedStays
<1>2. QED
  BY <1>1, TypeCorrect, PTL DEF Spec, RemovedStaysOut
=============================================================================
