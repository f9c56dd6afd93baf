---------------------------- MODULE RefreshProofs ----------------------------
(***************************************************************************)
(* What is proved of Refresh, for any members, bodies, jobs and bounds:    *)
(* its type invariant, that a change whose hashes are in its row reaches   *)
(* the index or was lost in one of the ways the code has for it, and that  *)
(* a member that waits to be checked keeps its turn.                       *)
(***************************************************************************)
EXTENDS Refresh, FiniteSetTheorems, TLAPS

\* A job's changed_docs has every member it read and found moved, until it
\* has committed; afterwards the job holds nothing else.
JobOK(r) ==
  /\ run[r].kind = "none" => run[r] = Idle
  /\ run[r].told => run[r].left = {} /\ run[r].at = {}
  /\ run[r].kind = "refresh" /\ ~run[r].told =>
       \A d \in Wrote(r) : run[r].new[d] # Gone /\ Moved(run[r].seen[d], run[r].new[d]) => d \in run[r].moved

\* The hashes in a row are what the index was built from, or will be once the
\* run that is under way commits, or an index run is to come, or the document
\* was lost.
RowReachesTheIndex(d) ==
  row[d] \in Bodies /\ Coming(d) # row[d] =>
    \/ asked \/ d \in todo \/ d \in lost
    \/ \E r \in Runs : run[r].told /\ d \in run[r].moved

IInv ==
  /\ TypeOK
  /\ \A r \in Runs : JobOK(r)
  /\ \A d \in Held : RowReachesTheIndex(d)

-----------------------------------------------------------------------------
(* The operators                                                           *)

LEMMA BodiesAreHashes == Bodies \subseteq Hashes /\ Blank \in Hashes
<1>1. ASSUME NEW b \in Bodies PROVE b \in Hashes
  <2>1. b = [words |-> b.words, shape |-> b.shape]
    BY SourceAssumption
  <2> QED
    BY <2>1 DEF Hashes
<1> QED
  BY <1>1 DEF Blank, Hashes

\* A body is its two hashes, and neither is missing.
LEMMA BodiesByHashes ==
  ASSUME NEW b \in Bodies
  PROVE  /\ b.words # Null /\ b.shape # Null
         /\ b = [words |-> b.words, shape |-> b.shape]
  BY SourceAssumption

\* What differs from a body by its hashes is not that body, and the reverse.
LEMMA DiffersIsUnequal ==
  ASSUME NEW a \in Bodies, NEW b \in Bodies, a # b
  PROVE  Differs(a, b)
  BY BodiesByHashes DEF Differs

\* Two bodies that compare finds unmoved are one.
LEMMA UnmovedIsEqual ==
  ASSUME NEW h \in Hashes, NEW b \in Bodies, h.words # Null, h.shape # Null, ~Moved(h, b)
  PROVE  h = b
  BY BodiesByHashes DEF Moved, Hashes

LEMMA DescribedType ==
  ASSUME TypeOK, NEW d \in Docs
  PROVE  Described(d) \in Hashes \cup {Gone}
  BY BodiesAreHashes DEF Described

LEMMA AgedType ==
  ASSUME TypeOK, NEW S \in SUBSET Docs
  PROVE  Aged(S) \in [Docs -> Nat]
<1> DEFINE stamp == [d \in Docs |-> IF d \in S THEN Cardinality(Docs) ELSE age[d]]
           below(d) == {c \in Docs : stamp[c] < stamp[d]}
<1>1. IsFiniteSet(Docs)
  BY SourceAssumption
<1>2. ASSUME NEW d \in Docs PROVE Cardinality(below(d)) \in Nat
  <2>1. IsFiniteSet(below(d))
    BY <1>1, FS_Subset
  <2> QED
    BY <2>1, FS_CardinalityType
<1> HIDE DEF below
<1>3. Aged(S) = [d \in Docs |-> Cardinality(below(d))]
  BY Zenon DEF Aged, below
<1> QED
  BY <1>2, <1>3

\* A job in progress, field by field.
LEMMA JobType ==
  ASSUME TypeOK, NEW r \in Runs
  PROVE  /\ run[r].kind \in {"none", "refresh", "enrich"} /\ run[r].wired \in BOOLEAN
         /\ run[r].left \in SUBSET Docs /\ run[r].seen \in [Docs -> Hashes]
         /\ run[r].at \in SUBSET Docs /\ run[r].got \in Hashes \cup {Gone}
         /\ Wrote(r) \in SUBSET Docs
         /\ run[r].new \in [Wrote(r) -> Hashes \cup {Gone}]
         /\ run[r].moved \in SUBSET Docs /\ run[r].told \in BOOLEAN
<1>1. run[r] \in Job0
  BY DEF TypeOK
<1>2. PICK S \in SUBSET Docs : run[r].new \in [S -> Hashes \cup {Gone}]
  BY <1>1 DEF Job0
<1> QED
  BY <1>1, <1>2 DEF Job0, Wrote

\* And the reverse: its fields make it a job.
LEMMA JobFrom ==
  ASSUME NEW k \in {"none", "refresh", "enrich"}, NEW w \in BOOLEAN, NEW l \in SUBSET Docs,
         NEW s \in [Docs -> Hashes], NEW a \in SUBSET Docs, NEW g \in Hashes \cup {Gone},
         NEW W \in SUBSET Docs, NEW n \in [W -> Hashes \cup {Gone}],
         NEW m \in SUBSET Docs, NEW t \in BOOLEAN
  PROVE  [kind |-> k, wired |-> w, left |-> l, seen |-> s, at |-> a, got |-> g,
          new |-> n, moved |-> m, told |-> t] \in Job0
<1>1. n \in UNION {[S -> Hashes \cup {Gone}] : S \in SUBSET Docs}
  OBVIOUS
<1> QED
  BY <1>1 DEF Job0

LEMMA IdleType == Idle \in Job0
<1> DEFINE n == [d \in {} |-> Gone]
<1>1. n \in [{} -> Hashes \cup {Gone}]
  OBVIOUS
<1>2. [d \in Docs |-> Blank] \in [Docs -> Hashes]
  BY BodiesAreHashes
<1> HIDE DEF n
<1>3. [kind |-> "none", wired |-> FALSE, left |-> {}, seen |-> [d \in Docs |-> Blank],
       at |-> {}, got |-> Gone, new |-> n, moved |-> {}, told |-> FALSE] \in Job0
  BY <1>1, <1>2, JobFrom
<1> QED
  BY <1>3 DEF Idle, n

-----------------------------------------------------------------------------
(* The type invariant                                                      *)

\* What a run of the index has read, and what the index will hold by it, are
\* bodies.
LEMMA NothingType == Nothing \in UNION {[S -> Bodies] : S \in SUBSET Held}
<1>1. Nothing \in [{} -> Bodies] /\ {} \in SUBSET Held
  BY DEF Nothing
<1> QED
  BY <1>1

LEMMA TakenType ==
  ASSUME TypeOK
  PROVE  /\ DOMAIN taken \subseteq Held /\ \A d \in DOMAIN taken : taken[d] \in Bodies
         /\ \A d \in Held : Coming(d) \in Bodies
<1>1. PICK S \in SUBSET Held : taken \in [S -> Bodies]
  BY DEF TypeOK
<1> QED
  BY <1>1 DEF Coming, TypeOK

LEMMA InitType == Init => TypeOK
<1>1. SUFFICES ASSUME Init PROVE TypeOK
  OBVIOUS
<1>2. row \in [Docs -> Hashes]
  BY <1>1, BodiesAreHashes, SourceAssumption DEF Init
<1>3. run \in [Runs -> Job0]
  BY <1>1, IdleType DEF Init
<1>4. budget \in [edits : Nat, events : Nat, batch : Nat]
  BY <1>1, SourceAssumption DEF Init
<1> QED
  BY <1>1, <1>2, <1>3, <1>4, NothingType, SourceAssumption DEF Init, TypeOK, Held

\* Only these steps write run; each writes a job of the right shape.
LEMMA RunType ==
  ASSUME TypeOK, NEW r \in Runs,
         Claim(r) \/ ClaimEnrich(r) \/ Fetch(r) \/ Update(r) \/ CommitRefresh(r)
  PROVE  run' \in [Runs -> Job0]
<1>1. ASSUME NEW kind \in {"refresh", "enrich"}, NEW payload, NEW B \in SUBSET Docs,
             Begin(r, kind, payload, B)
      PROVE  run' \in [Runs -> Job0]
  <2> DEFINE seen == [d \in Docs |-> IF d \in B THEN row[d] ELSE Blank]
             left == IF kind = "enrich" THEN B \ Uploads ELSE B
  <2>1. seen \in [Docs -> Hashes] /\ left \in SUBSET Docs
    BY BodiesAreHashes DEF TypeOK
  <2>2. [Idle EXCEPT !.kind = kind, !.wired = (payload = "wired"), !.seen = seen, !.left = left] \in Job0
    <3> HIDE DEF seen, left
    <3> QED
      BY <2>1, IdleType DEF Job0
  <2> QED
    BY <1>1, <2>2 DEF TypeOK, Begin
<1>2. CASE Claim(r) \/ ClaimEnrich(r)
  BY <1>1, <1>2 DEF Claim, ClaimEnrich
<1>3. CASE Fetch(r)
  <2>1. PICK d \in run[r].left :
          run' = [run EXCEPT ![r].at = {d}, ![r].got = Described(d), ![r].left = @ \ {d}]
    BY <1>3 DEF Fetch
  <2>2. d \in Docs /\ Described(d) \in Hashes \cup {Gone}
    BY JobType, DescribedType
  <2>3. run[r] \in Job0
    BY DEF TypeOK
  <2>4. [run[r] EXCEPT !.at = {d}, !.got = Described(d), !.left = @ \ {d}] \in Job0
    BY <2>2, <2>3 DEF Job0
  <2> QED
    BY <2>1, <2>4 DEF TypeOK
<1>4. CASE Update(r)
  <2>1. PICK d \in run[r].at :
          run' = [run EXCEPT
            ![r].at = {}, ![r].got = Gone,
            ![r].new = [e \in {d} \cup DOMAIN @ |-> IF e = d THEN run[r].got ELSE @[e]],
            ![r].moved = IF /\ run[r].kind = "refresh" /\ run[r].got # Gone
                            /\ Moved(run[r].seen[d], run[r].got)
                         THEN @ \cup {d} ELSE @]
    BY <1>4 DEF Update
  <2> DEFINE new == [e \in {d} \cup Wrote(r) |-> IF e = d THEN run[r].got ELSE run[r].new[e]]
             moved == IF /\ run[r].kind = "refresh" /\ run[r].got # Gone
                         /\ Moved(run[r].seen[d], run[r].got)
                      THEN run[r].moved \cup {d} ELSE run[r].moved
  <2>2. d \in Docs /\ {d} \cup Wrote(r) \in SUBSET Docs /\ moved \in SUBSET Docs
    BY JobType
  <2>3. new \in [{d} \cup Wrote(r) -> Hashes \cup {Gone}]
    BY JobType
  <2>4. run[r] \in Job0
    BY DEF TypeOK
  <2>5. new \in UNION {[S -> Hashes \cup {Gone}] : S \in SUBSET Docs}
    BY <2>2, <2>3
  <2>6. [run[r] EXCEPT !.at = {}, !.got = Gone, !.new = new, !.moved = moved] \in Job0
    <3> HIDE DEF new, moved
    <3> QED
      BY <2>2, <2>4, <2>5 DEF Job0
  <2> QED
    BY <2>1, <2>6 DEF TypeOK, Wrote
<1>5. CASE CommitRefresh(r)
  <2>1. [Idle EXCEPT !.kind = "refresh", !.moved = run[r].moved, !.told = TRUE] \in Job0
    BY IdleType, JobType DEF Job0
  <2> QED
    BY <1>5, <2>1, IdleType DEF CommitRefresh, TypeOK
<1> QED
  BY <1>2, <1>3, <1>4, <1>5

LEMMA StepType == TypeOK /\ [Next]_vars => TypeOK'
<1> SUFFICES ASSUME TypeOK, [Next]_vars PROVE TypeOK'
  OBVIOUS
<1> USE DEF TypeOK
<1>1. ASSUME NEW d \in Held, NEW p \in Bodies \cup {Broken, Gone}, Edit(d, p) PROVE TypeOK'
  BY <1>1 DEF Edit, Held
<1>2. ASSUME NEW payload \in {"plain", "wired"}, Ask(payload) PROVE TypeOK'
  BY <1>2 DEF Ask
<1>3. CASE IndexStart
  BY <1>3 DEF IndexStart
<1>4. ASSUME NEW d \in Held, IndexRead(d) PROVE TypeOK'
  <2> DEFINE more == [e \in {d} \cup DOMAIN taken |-> IF e = d THEN page[d] ELSE taken[e]]
  <2>1. taken' \in {taken, more} /\ (taken' = more => page[d] \in Bodies)
    BY <1>4 DEF IndexRead
  <2>2. page[d] \in Bodies => more \in [{d} \cup DOMAIN taken -> Bodies]
    BY TakenType
  <2>3. {d} \cup DOMAIN taken \in SUBSET Held
    BY TakenType
  <2> HIDE DEF more
  <2>4. taken' \in UNION {[S -> Bodies] : S \in SUBSET Held}
    BY <2>1, <2>2, <2>3
  <2> QED
    BY <1>4, <2>4 DEF IndexRead
<1>15. CASE IndexCommit
  <2>1. \A d \in Held : Coming(d) \in Bodies
    BY TakenType
  <2>2. index' \in [Held -> Bodies]
    BY <1>15, <2>1 DEF IndexCommit
  <2> QED
    BY <1>15, <2>2, NothingType DEF IndexCommit
<1>16. CASE IndexFails
  BY <1>16, NothingType DEF IndexFails
<1>5. ASSUME NEW r \in Runs, Claim(r) PROVE TypeOK'
  <2>1. run' \in [Runs -> Job0]
    BY <1>5, RunType
  <2> QED
    BY <1>5, <2>1 DEF Claim
<1>6. ASSUME NEW r \in Runs, ClaimEnrich(r) PROVE TypeOK'
  <2>1. run' \in [Runs -> Job0]
    BY <1>6, RunType
  <2> QED
    BY <1>6, <2>1 DEF ClaimEnrich
<1>7. ASSUME NEW r \in Runs, Fetch(r) PROVE TypeOK'
  <2>1. run' \in [Runs -> Job0]
    BY <1>7, RunType
  <2> QED
    BY <1>7, <2>1 DEF Fetch
<1>8. ASSUME NEW r \in Runs, Update(r) PROVE TypeOK'
  <2>1. run' \in [Runs -> Job0]
    BY <1>8, RunType
  <2> QED
    BY <1>8, <2>1 DEF Update
<1>9. ASSUME NEW r \in Runs, CommitRefresh(r) PROVE TypeOK'
  <2>1. run' \in [Runs -> Job0]
    BY <1>9, RunType
  <2>2. row' \in [Docs -> Hashes]
    BY <1>9, JobType DEF CommitRefresh, Read
  <2>3. age' \in [Docs -> Nat]
    BY <1>9, JobType, AgedType DEF CommitRefresh, Checked
  <2>4. lost' \subseteq Held
    BY <1>9, JobType DEF CommitRefresh, Read, Held
  <2> QED
    BY <1>9, <2>1, <2>2, <2>3, <2>4 DEF CommitRefresh
<1>10. ASSUME NEW r \in Runs, CommitEnrich(r) PROVE TypeOK'
  <2>1. run' \in [Runs -> Job0]
    BY <1>10, IdleType DEF CommitEnrich
  <2>2. ASSUME NEW d \in Read(r) PROVE [row[d] EXCEPT !.words = run[r].new[d].words] \in Hashes
    <3>1. d \in Docs /\ run[r].new[d] \in Hashes
      BY JobType DEF Read
    <3>2. row[d] \in Hashes
      BY <3>1
    <3> QED
      BY <3>1, <3>2 DEF Hashes
  <2>3. row' \in [Docs -> Hashes]
    BY <1>10, <2>2, JobType DEF CommitEnrich, Read
  <2>4. age' \in [Docs -> Nat]
    BY <1>10, JobType, AgedType DEF CommitEnrich, Checked
  <2>5. lost' \subseteq Held
    BY <1>10, JobType DEF CommitEnrich, Read, Held
  <2> QED
    BY <1>10, <2>1, <2>3, <2>4, <2>5 DEF CommitEnrich
<1>11. ASSUME NEW r \in Runs, Follow(r) PROVE TypeOK'
  BY <1>11, IdleType DEF Follow
<1>12. ASSUME NEW r \in Runs, Fails(r) PROVE TypeOK'
  <2>1. lost' \subseteq Held
    BY <1>12, JobType DEF Fails, Held
  <2>2. run' \in [Runs -> Job0]
    BY <1>12, IdleType DEF Fails
  <2> QED
    BY <1>12, <2>1, <2>2 DEF Fails
<1>13. ASSUME NEW r \in Runs, Victim(r) PROVE TypeOK'
  BY <1>13, IdleType DEF Victim
<1>14. CASE UNCHANGED vars
  BY <1>14 DEF vars
<1> QED
  BY <1>1, <1>2, <1>3, <1>4, <1>5, <1>6, <1>7, <1>8, <1>9, <1>10, <1>11, <1>12, <1>13, <1>14, <1>15, <1>16
     DEF Next, People, Indexer, Job

\* Rows hold hashes, runs are jobs, what is lost is a document of the source,
\* for any members, bodies, batches and jobs at once.
THEOREM TypeCorrect == Spec => []TypeOK
<1> QED
  BY InitType, StepType, PTL DEF Spec

-----------------------------------------------------------------------------
(* Changes reach the index                                                 *)

LEMMA InitInv == Init => IInv
<1>1. SUFFICES ASSUME Init PROVE IInv
  OBVIOUS
<1>2. \A d \in Held : row[d] \in {Blank, Original} /\ Coming(d) = Original
  BY <1>1 DEF Init, Held, Coming, Nothing
<1>3. Blank \notin Bodies
  BY SourceAssumption DEF Blank
<1>4. \A r \in Runs : JobOK(r)
  BY <1>1 DEF Init, JobOK, Idle
<1> QED
  BY <1>1, <1>2, <1>3, <1>4, InitType DEF IInv, RowReachesTheIndex

\* A step that writes one job keeps what is known of the others.
LEMMA OtherJobs ==
  ASSUME NEW r \in Runs, \A s \in Runs \ {r} : run'[s] = run[s],
         \A s \in Runs : JobOK(s), JobOK(r)'
  PROVE  \A s \in Runs : JobOK(s)'
<1> SUFFICES ASSUME NEW s \in Runs, s # r PROVE JobOK(s)'
  OBVIOUS
<1>1. run'[s] = run[s]
  OBVIOUS
<1> QED
  BY <1>1 DEF JobOK, Wrote, Idle

\* An idle job is as it should be.
LEMMA IdleOK ==
  ASSUME NEW r \in Runs, run \in [Runs -> Job0], run' = [run EXCEPT ![r] = Idle]
  PROVE  JobOK(r)'
<1>1. run'[r] = Idle
  OBVIOUS
<1>2. Idle.kind = "none" /\ Idle' = Idle /\ ~Idle.told
  BY DEF Idle
<1> QED
  BY <1>1, <1>2 DEF JobOK

LEMMA StepJobs ==
  ASSUME IInv, [Next]_vars
  PROVE  \A r \in Runs : JobOK(r)'
<1>t. TypeOK /\ run \in [Runs -> Job0] /\ \A r \in Runs : JobOK(r)
  BY DEF IInv, TypeOK
<1>u. ASSUME UNCHANGED run PROVE \A r \in Runs : JobOK(r)'
  BY <1>t, <1>u DEF JobOK, Wrote, Idle
<1>1. ASSUME NEW r \in Runs, NEW kind \in {"refresh", "enrich"}, NEW payload, NEW B, Begin(r, kind, payload, B)
      PROVE  \A s \in Runs : JobOK(s)'
  <2> DEFINE job == [Idle EXCEPT !.kind = kind, !.wired = (payload = "wired"),
                                 !.seen = [d \in Docs |-> IF d \in B THEN row[d] ELSE Blank],
                                 !.left = IF kind = "enrich" THEN B \ Uploads ELSE B]
  <2>1. run' = [run EXCEPT ![r] = job]
    BY <1>1 DEF Begin
  <2>2. job.kind # "none" /\ DOMAIN job.new = {} /\ ~job.told
    BY DEF Idle
  <2>3. run'[r] = job
    BY <2>1, <1>t
  <2> HIDE DEF job
  <2>4. JobOK(r)'
    BY <2>2, <2>3 DEF JobOK, Wrote
  <2> QED
    BY <2>1, <2>4, <1>t, OtherJobs
<1>2. ASSUME NEW r \in Runs, Claim(r) \/ ClaimEnrich(r) PROVE \A s \in Runs : JobOK(s)'
  BY <1>1, <1>2 DEF Claim, ClaimEnrich
<1>3. ASSUME NEW r \in Runs, Fetch(r) PROVE \A s \in Runs : JobOK(s)'
  <2>1. PICK d \in run[r].left :
          run' = [run EXCEPT ![r] = [run[r] EXCEPT !.at = {d}, !.got = Described(d), !.left = @ \ {d}]]
    BY <1>3 DEF Fetch
  <2>2. run[r].kind # "none"
    BY <2>1, <1>t DEF JobOK, Idle
  <2>3. /\ run'[r].kind = run[r].kind /\ run'[r].told = run[r].told /\ run'[r].new = run[r].new
        /\ run'[r].seen = run[r].seen /\ run'[r].moved = run[r].moved
    BY <2>1, <1>t DEF Job0
  <2>4. JobOK(r)'
    BY <2>2, <2>3, <1>t DEF JobOK, Wrote
  <2> QED
    BY <2>1, <2>4, <1>t, OtherJobs
<1>4. ASSUME NEW r \in Runs, Update(r) PROVE \A s \in Runs : JobOK(s)'
  <2> DEFINE got == run[r].got
             new(d) == [e \in {d} \cup Wrote(r) |-> IF e = d THEN got ELSE run[r].new[e]]
             moved(d) == IF run[r].kind = "refresh" /\ got # Gone /\ Moved(run[r].seen[d], got)
                         THEN run[r].moved \cup {d} ELSE run[r].moved
  <2>0. PICK d \in run[r].at :
          run' = [run EXCEPT
            ![r].at = {}, ![r].got = Gone,
            ![r].new = [e \in {d} \cup DOMAIN @ |-> IF e = d THEN run[r].got ELSE @[e]],
            ![r].moved = IF /\ run[r].kind = "refresh" /\ run[r].got # Gone
                            /\ Moved(run[r].seen[d], run[r].got)
                         THEN @ \cup {d} ELSE @]
    BY <1>4 DEF Update
  <2>1. \A s \in Runs \ {r} : run'[s] = run[s]
    BY <2>0, <1>t
  <2>2. run[r].kind # "none"
    <3>1. Idle.at = {}
      BY DEF Idle
    <3>2. run[r] # Idle
      BY <2>0, <3>1
    <3> QED
      BY <3>2, <1>t DEF JobOK
  <2>3. /\ run'[r].kind = run[r].kind /\ run'[r].told = run[r].told
        /\ run'[r].seen = run[r].seen /\ run'[r].new = new(d) /\ run'[r].moved = moved(d)
    BY <2>0, <1>t DEF Job0, Wrote
  <2>4. JobOK(r)'
    <3>0. ~run[r].told
      BY <2>0, <1>t DEF JobOK
    <3>1. SUFFICES ASSUME run[r].kind = "refresh", ~run[r].told,
                          NEW e \in {d} \cup Wrote(r), new(d)[e] # Gone, Moved(run[r].seen[e], new(d)[e])
                   PROVE  e \in moved(d)
      BY <2>2, <2>3, <3>0 DEF JobOK, Wrote
    <3>2. CASE e = d
      BY <3>1, <3>2
    <3>3. CASE e # d
      BY <3>1, <3>3, <1>t DEF JobOK
    <3> QED
      BY <3>2, <3>3
  <2> HIDE DEF new, moved
  <2> QED
    BY <2>1, <2>4, <1>t, OtherJobs
<1>5. ASSUME NEW r \in Runs, CommitRefresh(r) PROVE \A s \in Runs : JobOK(s)'
  <2> DEFINE job == [Idle EXCEPT !.kind = "refresh", !.moved = run[r].moved, !.told = TRUE]
  <2>1. CASE run' = [run EXCEPT ![r] = Idle]
    BY <2>1, <1>t, IdleOK, OtherJobs
  <2>2. CASE run' = [run EXCEPT ![r] = job]
    <3>1. job.kind = "refresh" /\ job.told /\ job.left = {} /\ job.at = {}
      BY DEF Idle
    <3>2. run'[r] = job
      BY <2>2, <1>t
    <3> HIDE DEF job
    <3>3. JobOK(r)'
      BY <3>1, <3>2 DEF JobOK
    <3> QED
      BY <2>2, <3>3, <1>t, OtherJobs
  <2> QED
    BY <1>5, <2>1, <2>2 DEF CommitRefresh
<1>6. ASSUME NEW r \in Runs, CommitEnrich(r) \/ Follow(r) \/ Fails(r) \/ Victim(r)
      PROVE  \A s \in Runs : JobOK(s)'
  <2>1. run' = [run EXCEPT ![r] = Idle]
    BY <1>6 DEF CommitEnrich, Follow, Fails, Victim
  <2> QED
    BY <2>1, <1>t, IdleOK, OtherJobs
<1>7. CASE People \/ Indexer \/ IndexFails \/ UNCHANGED vars
  BY <1>7, <1>u DEF People, Indexer, Edit, Ask, IndexStart, IndexRead, IndexCommit, IndexFails, vars
<1> QED
  BY <1>2, <1>3, <1>4, <1>5, <1>6, <1>7 DEF Next, Job

LEMMA StepRows ==
  ASSUME IInv, [Next]_vars, NEW d \in Held
  PROVE  RowReachesTheIndex(d)'
<1>t. TypeOK /\ TypeOK' /\ d \in Docs /\ d \notin Uploads
  BY StepType DEF IInv, Held
<1>c. Coming(d) \in Bodies
  BY <1>t, TakenType
<1>i. RowReachesTheIndex(d)
  BY DEF IInv
<1> DEFINE Served == asked \/ d \in todo \/ d \in lost
<1>s. SUFFICES ASSUME row'[d] \in Bodies, Coming(d)' # row'[d]
               PROVE  Served' \/ \E r \in Runs : run'[r].told /\ d \in run'[r].moved
  BY DEF RowReachesTheIndex
\* What was true of the document before the step still is, if the step
\* leaves its row, its index and what is on the way to it alone.
<1>u. ASSUME row'[d] = row[d], Coming(d)' = Coming(d), Served => Served',
             \A r \in Runs : run[r].told /\ d \in run[r].moved =>
                Served' \/ (run'[r].told /\ d \in run'[r].moved)
      PROVE  Served' \/ \E r \in Runs : run'[r].told /\ d \in run'[r].moved
  BY <1>i, <1>s, <1>u DEF RowReachesTheIndex
<1>k. ASSUME UNCHANGED <<taken, index>> PROVE Coming(d)' = Coming(d)
  BY <1>k DEF Coming
<1>1. CASE People \/ UNCHANGED vars
  BY <1>1, <1>k, <1>u DEF People, Edit, Ask, vars
<1>2. CASE IndexStart
  BY <1>2, <1>k, <1>u DEF IndexStart, Held
<1>10. CASE IndexCommit
  <2>1. Coming(d)' = index'[d]
    BY <1>10 DEF IndexCommit, Coming, Nothing
  <2>2. index'[d] = Coming(d)
    BY <1>10 DEF IndexCommit
  <2> QED
    BY <1>10, <1>u, <2>1, <2>2 DEF IndexCommit
<1>11. CASE IndexFails
  BY <1>11 DEF IndexFails
<1>3. ASSUME NEW e \in Held, IndexRead(e)
      PROVE  Served' \/ \E r \in Runs : run'[r].told /\ d \in run'[r].moved
  <2>1. CASE e = d
    <3>1. Coming(d)' \in Bodies
      <4>1. TypeOK' => Coming(d)' \in Bodies
        BY <1>3 DEF IndexRead, Coming, TypeOK
      <4> QED
        BY <4>1, <1>t
    <3>2. row'[d] = row[d] /\ Differs(row[d], Coming(d)')
      BY <3>1, <1>s, <1>3, DiffersIsUnequal DEF IndexRead
    <3> QED
      BY <2>1, <3>2, <1>3 DEF IndexRead
  <2>2. CASE e # d
    <3>1. Coming(d)' = Coming(d)
      BY <2>2, <1>3 DEF IndexRead, Coming
    <3>2. row' = row /\ run' = run /\ (Served => Served')
      BY <2>2, <1>3 DEF IndexRead
    <3> QED
      BY <3>1, <3>2, <1>u
  <2> QED
    BY <2>1, <2>2
<1>4. ASSUME NEW r \in Runs, Claim(r) \/ ClaimEnrich(r) \/ Fetch(r) \/ Update(r)
      PROVE  Served' \/ \E s \in Runs : run'[s].told /\ d \in run'[s].moved
  <2>1. ASSUME NEW s \in Runs, run[s].told /\ d \in run[s].moved
        PROVE  run'[s].told /\ d \in run'[s].moved
    <3>1. CASE s # r
      <4>1. run'[s] = run[s]
        <5>1. CASE Claim(r) \/ ClaimEnrich(r)
          <6>1. ASSUME NEW kind, NEW payload, NEW B, Begin(r, kind, payload, B)
                PROVE  run'[s] = run[s]
            BY <3>1, <6>1 DEF Begin
          <6> QED
            BY <5>1, <6>1 DEF Claim, ClaimEnrich
        <5>2. CASE Fetch(r)
          BY <3>1, <5>2, <1>t DEF Fetch, TypeOK
        <5>3. CASE Update(r)
          BY <3>1, <5>3, <1>t DEF Update, TypeOK
        <5> QED
          BY <1>4, <5>1, <5>2, <5>3
      <4> QED
        BY <2>1, <4>1
    <3>2. CASE s = r
      <4>1. run[r].kind # "none" /\ run[r].left = {} /\ run[r].at = {}
        BY <2>1, <3>2 DEF Idle, IInv, JobOK
      <4> QED
        BY <4>1, <1>4 DEF Claim, ClaimEnrich, Begin, Fetch, Update
    <3> QED
      BY <3>1, <3>2
  <2>2. UNCHANGED <<row, taken, index, asked, todo, lost>>
    BY <1>4 DEF Claim, ClaimEnrich, Fetch, Update
  <2> QED
    BY <2>1, <2>2, <1>k, <1>u
<1>5. ASSUME NEW r \in Runs, CommitRefresh(r)
      PROVE  Served' \/ \E s \in Runs : run'[s].told /\ d \in run'[s].moved
  <2> DEFINE job == [Idle EXCEPT !.kind = "refresh", !.moved = run[r].moved, !.told = TRUE]
  <2>0. /\ run[r].kind = "refresh" /\ ~run[r].told
        /\ row' = [e \in Docs |-> IF e \in Read(r) THEN run[r].new[e] ELSE row[e]]
        /\ lost' = lost \cup {e \in Read(r) \ Uploads : Excuses(r, e) /\ Differs(run[r].new[e], Coming(e))}
        /\ run' = [run EXCEPT ![r] = IF run[r].moved # {} /\ run[r].wired THEN job ELSE Idle]
        /\ UNCHANGED <<asked, todo, taken, index>>
    BY <1>5 DEF CommitRefresh, Finished
  <2>1. ASSUME NEW s \in Runs, run[s].told /\ d \in run[s].moved
        PROVE  run'[s].told /\ d \in run'[s].moved
    BY <2>0, <2>1, <1>t DEF TypeOK
  <2>2. CASE row'[d] = row[d]
    BY <2>0, <2>1, <2>2, <1>k, <1>u
  <2>3. CASE row'[d] # row[d]
    <3>1. d \in Read(r) /\ row'[d] = run[r].new[d] /\ run[r].new[d] \in Bodies
      BY <2>0, <2>3, <1>s, <1>t DEF TypeOK
    <3>2. Differs(run[r].new[d], Coming(d))
      BY <3>1, <2>0, <1>c, <1>k, <1>s, DiffersIsUnequal
    <3>3. CASE Excuses(r, d)
      BY <2>0, <3>1, <3>2, <3>3, <1>t
    <3>4. CASE ~Excuses(r, d)
      <4>1. /\ run[r].wired /\ row[d] = run[r].seen[d] /\ run[r].seen[d].words # Null
            /\ run[r].seen[d].shape # Null \/ d \in run[r].moved
        BY <3>4 DEF Excuses
      <4>2. d \in run[r].moved
        <5>1. SUFFICES ASSUME ~Moved(run[r].seen[d], run[r].new[d]) PROVE d \in run[r].moved
          BY <2>0, <3>1 DEF IInv, JobOK, Read
        <5>2. run[r].seen[d] \in Hashes
          BY <1>t, JobType
        <5>3. run[r].seen[d].shape = Null \/ run[r].seen[d] = run[r].new[d]
          BY <5>1, <5>2, <4>1, <3>1, UnmovedIsEqual
        <5> QED
          BY <5>3, <4>1, <3>1, <2>3
      <4>3. job.told /\ job.moved = run[r].moved
        BY DEF Idle
      <4>4. run'[r] = job
        <5> HIDE DEF job
        <5> QED
          BY <2>0, <4>1, <4>2, <1>t DEF TypeOK
      <4> QED
        BY <4>2, <4>3, <4>4
    <3> QED
      BY <3>3, <3>4
  <2> QED
    BY <2>2, <2>3
<1>6. ASSUME NEW r \in Runs, CommitEnrich(r)
      PROVE  Served' \/ \E s \in Runs : run'[s].told /\ d \in run'[s].moved
  <2>0. /\ run[r].kind = "enrich" /\ ~run[r].told
        /\ row' = [e \in Docs |-> IF e \in Read(r) THEN [row[e] EXCEPT !.words = run[r].new[e].words] ELSE row[e]]
        /\ lost' = lost \cup {e \in Read(r) \ Uploads : row'[e] # row[e] /\ Differs(row'[e], Coming(e))}
        /\ run' = [run EXCEPT ![r] = Idle]
        /\ UNCHANGED <<asked, todo, taken, index>>
    BY <1>6 DEF CommitEnrich, Finished
  <2>1. ASSUME NEW s \in Runs, run[s].told /\ d \in run[s].moved
        PROVE  run'[s].told /\ d \in run'[s].moved
    BY <2>0, <2>1, <1>t DEF TypeOK
  <2>2. CASE row'[d] = row[d]
    BY <2>0, <2>1, <2>2, <1>k, <1>u
  <2>3. CASE row'[d] # row[d]
    <3>1. d \in Read(r)
      BY <2>0, <2>3, <1>t DEF TypeOK
    <3>2. Differs(row'[d], Coming(d))
      BY <2>0, <1>c, <1>k, <1>s, DiffersIsUnequal
    <3> QED
      BY <2>0, <2>3, <3>1, <3>2, <1>t
  <2> QED
    BY <2>2, <2>3
<1>7. ASSUME NEW r \in Runs, Follow(r)
      PROVE  Served' \/ \E s \in Runs : run'[s].told /\ d \in run'[s].moved
  BY <1>7 DEF Follow
<1>8. ASSUME NEW r \in Runs, Fails(r)
      PROVE  Served' \/ \E s \in Runs : run'[s].told /\ d \in run'[s].moved
  <2>0. /\ lost' = lost \cup {e \in run[r].moved : run[r].told /\ e \notin Uploads /\ Differs(row[e], Coming(e))}
        /\ run' = [run EXCEPT ![r] = Idle]
        /\ UNCHANGED <<row, asked, todo, taken, index>>
    BY <1>8 DEF Fails
  <2>2. Differs(row[d], Coming(d))
    BY <2>0, <1>c, <1>k, <1>s, DiffersIsUnequal
  <2>3. ASSUME NEW s \in Runs, run[s].told /\ d \in run[s].moved
        PROVE  Served' \/ (run'[s].told /\ d \in run'[s].moved)
    <3>1. CASE s = r
      BY <3>1, <2>0, <2>2, <2>3, <1>t
    <3>2. CASE s # r
      BY <3>2, <2>0, <2>3, <1>t DEF TypeOK
    <3> QED
      BY <3>1, <3>2
  <2> QED
    BY <2>0, <2>3, <1>k, <1>u
<1>9. ASSUME NEW r \in Runs, Victim(r)
      PROVE  Served' \/ \E s \in Runs : run'[s].told /\ d \in run'[s].moved
  <2>0. /\ run' = [run EXCEPT ![r] = Idle] /\ \E e \in run[r].at : TRUE
        /\ UNCHANGED <<row, asked, todo, taken, index, lost>>
    BY <1>9 DEF Victim
  <2>1. ~run[r].told
    BY <2>0 DEF IInv, JobOK
  <2>2. ASSUME NEW s \in Runs, run[s].told /\ d \in run[s].moved
        PROVE  run'[s].told /\ d \in run'[s].moved
    BY <2>0, <2>1, <2>2, <1>t DEF TypeOK
  <2> QED
    BY <2>0, <2>2, <1>k, <1>u
<1> QED
  BY <1>1, <1>2, <1>3, <1>4, <1>5, <1>6, <1>7, <1>8, <1>9, <1>10, <1>11 DEF Next, Job, Indexer

\* The inductive invariant: changed_docs, and every row that says something
\* else than the index.
THEOREM RowsReachTheIndex == Spec => []IInv
<1>1. IInv /\ [Next]_vars => IInv'
  BY StepType, StepJobs, StepRows DEF IInv, Held
<1> QED
  BY <1>1, InitInv, PTL DEF Spec

\* A change whose hashes are in its row reaches the index, or was lost in one
\* of the ways of Excuses, CommitEnrich, Fails and IndexRead: for any edits,
\* jobs, failures and interleavings of them.
THEOREM ChangesReachTheIndexHolds == Spec => []ChangesReachTheIndex
<1>1. IInv => ChangesReachTheIndex
  <2> SUFFICES ASSUME IInv, NEW d \in Held, page[d] \in Bodies, row[d] = page[d], index[d] # page[d]
               PROVE  \/ asked \/ d \in todo \/ d \in lost
                      \/ d \in DOMAIN taken /\ taken[d] = page[d]
                      \/ \E r \in Runs : run[r].told /\ d \in run[r].moved
    BY DEF ChangesReachTheIndex
  <2> QED
    BY DEF IInv, RowReachesTheIndex, Coming
<1> QED
  BY <1>1, RowsReachTheIndex, PTL

-----------------------------------------------------------------------------
(* The batch goes round                                                    *)

\* The members that are checked no later than d.
Before(d) == {e \in Docs : age[e] <= age[d]}

Commits(r) == CommitRefresh(r) \/ CommitEnrich(r)

\* Ages are ranks: the stamp of a commit is later than any age.
AgesInv == \A d \in Docs : age[d] < Cardinality(Docs)

\* While a member waits, nobody gets before it, and whoever is checked goes
\* behind it.
TurnsAreKept ==
  \A d \in Docs :
    \/ \E r \in Runs : Commits(r) /\ d \in Checked(r)
    \/ /\ Before(d)' \subseteq Before(d)
       /\ \A r \in Runs : Commits(r) => Checked(r) \cap Before(d)' = {}

\* A new stamp puts the members that have it behind all the others, and
\* leaves the others as they were to each other.
LEMMA AgedOrders ==
  ASSUME TypeOK, AgesInv, NEW S \in SUBSET Docs
  PROVE  /\ \A d \in Docs : Aged(S)[d] < Cardinality(Docs)
         /\ \A d \in Docs \ S, e \in Docs : Aged(S)[e] <= Aged(S)[d] => e \notin S /\ age[e] <= age[d]
<1> DEFINE n == Cardinality(Docs)
           stamp == [d \in Docs |-> IF d \in S THEN n ELSE age[d]]
           below(d) == {c \in Docs : stamp[c] < stamp[d]}
<1>1. IsFiniteSet(Docs) /\ n \in Nat BY SourceAssumption, FS_CardinalityType
<1>2. age \in [Docs -> Nat] /\ \A d \in Docs : age[d] < n BY DEF TypeOK, AgesInv
<1> HIDE DEF n
<1>3. \A d \in Docs : stamp[d] \in Nat /\ stamp[d] = IF d \in S THEN n ELSE age[d] BY <1>1, <1>2
<1> HIDE DEF stamp
<1>4. \A d \in Docs : d \notin below(d) /\ below(d) \subseteq Docs BY <1>3
<1>5. \A d \in Docs : Aged(S)[d] = Cardinality(below(d)) BY Zenon DEF Aged, below, stamp, n
<1>6. ASSUME NEW d \in Docs
      PROVE  IsFiniteSet(below(d)) /\ Cardinality(below(d)) \in Nat /\ Cardinality(below(d)) < n
  <2>1. below(d) \in SUBSET Docs /\ below(d) # Docs BY <1>4
  <2> HIDE DEF below
  <2>2. IsFiniteSet(below(d)) /\ Cardinality(below(d)) <= n /\ Cardinality(below(d)) # n
    BY <1>1, <2>1, FS_Subset DEF n
  <2> QED BY <1>1, <2>2, FS_CardinalityType
<1>7. ASSUME NEW d \in Docs, NEW e \in Docs, stamp[d] < stamp[e]
      PROVE  Cardinality(below(d)) < Cardinality(below(e))
  <2>1. below(d) \subseteq below(e) /\ d \in below(e) /\ d \notin below(d) BY <1>3, <1>7
  <2> HIDE DEF below
  <2>2. Cardinality(below(d)) <= Cardinality(below(e)) /\ Cardinality(below(d)) # Cardinality(below(e))
    BY <1>6, <2>1, FS_Subset
  <2> QED BY <1>6, <2>2
<1>8. ASSUME NEW d \in Docs \ S, NEW e \in Docs, Aged(S)[e] <= Aged(S)[d]
      PROVE  e \notin S /\ age[e] <= age[d]
  <2> HIDE DEF below
  <2>1. ~(stamp[d] < stamp[e]) BY <1>5, <1>6, <1>7, <1>8
  <2> QED BY <1>1, <1>2, <1>3, <2>1
<1> HIDE DEF below
<1>9. \A d \in Docs : Aged(S)[d] < n BY <1>5, <1>6
<1> QED BY <1>8, <1>9 DEF n

LEMMA AgesInit == Init => AgesInv
<1> SUFFICES ASSUME Init, NEW d \in Docs PROVE age[d] < Cardinality(Docs) BY DEF AgesInv
<1>1. IsFiniteSet(Docs) /\ Cardinality(Docs) \in Nat BY SourceAssumption, FS_CardinalityType
<1>2. Cardinality(Docs) # 0 BY <1>1, FS_EmptySet
<1>3. age[d] = 0 BY DEF Init
<1> QED BY <1>1, <1>2, <1>3

\* What a job has updated are members.
LEMMA CheckedType ==
  ASSUME TypeOK, NEW r \in Runs
  PROVE  Checked(r) \in SUBSET Docs
<1>1. run[r] \in Job0 BY DEF TypeOK
<1>2. run[r].new \in UNION {[S -> Hashes \cup {Gone}] : S \in SUBSET Docs} BY <1>1 DEF Job0
<1> QED BY <1>2 DEF Checked, Wrote

\* The ages change with a commit, and with nothing else.
LEMMA AgesChange ==
  ASSUME Next
  PROVE  UNCHANGED age \/ \E r \in Runs : Commits(r) /\ age' = Aged(Checked(r))
<1>1. ASSUME NEW r \in Runs, CommitRefresh(r) PROVE Commits(r) /\ age' = Aged(Checked(r))
  BY <1>1 DEF CommitRefresh, Commits
<1>2. ASSUME NEW r \in Runs, CommitEnrich(r) PROVE Commits(r) /\ age' = Aged(Checked(r))
  BY <1>2 DEF CommitEnrich, Commits
<1>3. People \/ Indexer \/ IndexFails => UNCHANGED age
  BY DEF People, Indexer, Edit, Ask, IndexStart, IndexRead, IndexCommit, IndexFails
<1>4. ASSUME NEW r \in Runs, Claim(r) \/ Fetch(r) \/ Update(r) \/ Follow(r) \/ Victim(r) \/ ClaimEnrich(r) \/ Fails(r)
      PROVE  UNCHANGED age
  BY <1>4 DEF Claim, Fetch, Update, Follow, Victim, ClaimEnrich, Fails
<1> QED BY <1>1, <1>2, <1>3, <1>4 DEF Next, Job

\* A job that commits has what it wrote no longer, so one step is the commit
\* of one job.
LEMMA OneCommits ==
  ASSUME TypeOK, NEW r \in Runs, NEW s \in Runs, Commits(r), Commits(s)
  PROVE  r = s
<1>1. ASSUME NEW q \in Runs, Commits(q)
      PROVE  /\ run[q].kind # "none" /\ ~run[q].told /\ run'[q] # run[q]
             /\ \A p \in Runs \ {q} : run'[p] = run[p]
  <2>1. CASE CommitRefresh(q)
    <3>1. run[q].kind # "none" /\ ~run[q].told BY <2>1 DEF CommitRefresh, Finished
    <3>2. PICK x : run' = [run EXCEPT ![q] = x] /\ (x.told \/ x.kind = "none")
      <4>1. Idle.kind = "none" BY DEF Idle
      <4>2. [Idle EXCEPT !.kind = "refresh", !.moved = run[q].moved, !.told = TRUE].told BY DEF Idle
      <4> QED BY <2>1, <4>1, <4>2 DEF CommitRefresh
    <3>3. run'[q] = x /\ \A p \in Runs \ {q} : run'[p] = run[p] BY <3>2 DEF TypeOK
    <3> QED BY <3>1, <3>2, <3>3
  <2>2. CASE CommitEnrich(q)
    <3>1. run[q].kind # "none" /\ ~run[q].told BY <2>2 DEF CommitEnrich, Finished
    <3>2. run' = [run EXCEPT ![q] = Idle] /\ Idle.kind = "none" BY <2>2 DEF CommitEnrich, Idle
    <3>3. run'[q] = Idle /\ \A p \in Runs \ {q} : run'[p] = run[p] BY <3>2 DEF TypeOK
    <3> QED BY <3>1, <3>2, <3>3
  <2> QED BY <1>1, <2>1, <2>2 DEF Commits
<1> QED BY <1>1

\* The safety part of EveryMemberIsChecked: with any jobs under way at once,
\* whatever they fail to read, a member that has not been checked has no more
\* members before it than it had, and whoever is checked is behind it
\* afterwards. A batch is taken from the front, so its turn comes.
THEOREM TurnsAreKeptAlways == Spec => [][TurnsAreKept]_vars
<1>1. TypeOK /\ AgesInv /\ [Next]_vars => AgesInv'
  <2> SUFFICES ASSUME TypeOK, AgesInv, [Next]_vars PROVE AgesInv' OBVIOUS
  <2>1. CASE UNCHANGED age BY <2>1 DEF AgesInv
  <2>2. ASSUME NEW r \in Runs, age' = Aged(Checked(r)) PROVE AgesInv'
    BY <2>2, CheckedType, AgedOrders DEF AgesInv
  <2> QED BY <2>1, <2>2, AgesChange DEF vars
<1>2. ASSUME TypeOK, TypeOK', AgesInv, Next, NEW d \in Docs,
             \A r \in Runs : Commits(r) => d \notin Checked(r)
      PROVE  /\ Before(d)' \subseteq Before(d)
             /\ \A r \in Runs : Commits(r) => Checked(r) \cap Before(d)' = {}
  <2>1. ASSUME NEW r \in Runs, Commits(r), age' = Aged(Checked(r))
        PROVE  Before(d)' \subseteq Before(d) /\ Checked(r) \cap Before(d)' = {}
    <3>1. Checked(r) \in SUBSET Docs /\ d \in Docs \ Checked(r) BY <1>2, <2>1, CheckedType
    <3>2. \A e \in Docs : age'[e] <= age'[d] => e \notin Checked(r) /\ age[e] <= age[d]
      BY <1>2, <2>1, <3>1, AgedOrders
    <3> QED BY <3>2 DEF Before
  <2>2. CASE \E r \in Runs : Commits(r)
    <3>1. PICK r \in Runs : Commits(r) BY <2>2
    <3>2. age' = Aged(Checked(r)) BY <3>1 DEF Commits, CommitRefresh, CommitEnrich
    <3>3. \A s \in Runs : Commits(s) => s = r BY <1>2, <3>1, OneCommits
    <3> QED BY <2>1, <3>1, <3>2, <3>3
  <2>3. CASE ~\E r \in Runs : Commits(r)
    <3>1. UNCHANGED age BY <1>2, <2>3, AgesChange
    <3> QED BY <2>3, <3>1 DEF Before
  <2> QED BY <2>2, <2>3
<1>3. TypeOK /\ TypeOK' /\ AgesInv /\ [Next]_vars => [TurnsAreKept]_vars
  <2> SUFFICES ASSUME TypeOK, TypeOK', AgesInv, Next PROVE TurnsAreKept OBVIOUS
  <2> QED BY <1>2 DEF TurnsAreKept
<1> QED BY <1>1, <1>3, AgesInit, TypeCorrect, PTL DEF Spec
=============================================================================
