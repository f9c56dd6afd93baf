-------------------------- MODULE RetrievalProofs --------------------------
(***************************************************************************)
(* Proofs about Retrieval, for any documents, readers, rankings and bounds.*)
(*                                                                         *)
(* A step of a question replaces its record by another one, and most of    *)
(* what matters is what every such record satisfies: QType, QSound (what   *)
(* may be cited) and QHeld (where its texts come from). One lemma per      *)
(* action shows the new record satisfies them and that the question goes   *)
(* on as it was (Goes) or ends (Ends); type correctness, the invariants    *)
(* and the implementation of Evidence follow from those two. QWhole is     *)
(* what a question nothing has overtaken has at each step.                 *)
(*                                                                         *)
(* Last, agreement: first what a place weighs (Product is a multiple       *)
(* of every divisor, so that Part falls), how the fusion and the reranking *)
(* place what they rank, and QAgrees: while a question has candidates,     *)
(* their order is the fusion of what the channels it uses have found.      *)
(***************************************************************************)
EXTENDS Retrieval, TLAPS, FiniteSetTheorems, WellFoundedInduction

Ended == {"idle", "done"}
Resolving == {"batch", "resolve"}
Recovering == {"prime", "fill", "load", "fetch", "put", "rank"}

\* What a question holds, given what its reader could have opened.
QSound(q, seen) ==
  /\ q.step # "search" => \A ch \in Channels : q.thread[ch] # "out"
  /\ q.step = "search" => q.used = {}
  /\ q.used \subseteq Channels \ q.said
  /\ q.todo \subseteq Found(q.hits, q.used)
  /\ \A d \in Docs : q.version[d] # 0 => d \in Found(q.hits, q.used) /\ d \in seen \ q.denied
  /\ q.step \in Resolving => \A d \in Docs : q.text[d] = 0
  /\ q.step \in Recovering => \A d \in q.todo : q.version[d] # 0
  /\ q.step # "done" => \A d \in Docs : q.text[d] # 0 => q.version[d] # 0
  /\ q.cited \subseteq Found(q.hits, q.used)
  /\ q.step # "done" => q.cited = {}
  /\ q.step \in Ended => q.denied = {} /\ \A d \in Docs : q.version[d] = 0

\* Its texts were held since the versions it resolved.
QHeld(q) ==
  \A d \in Docs \ Unversioned :
    /\ q.version[d] <= ecm[d].version
    /\ q.version[d] # 0 /\ q.text[d] # 0 => q.text[d] \in past[d][q.version[d]]

CacheHeld ==
  \A d \in Docs \ Unversioned : \A v \in Versions :
    cache[d][v] # 0 => v <= ecm[d].version /\ cache[d][v] \in past[d][v]

PastHeld ==
  \A d \in Docs : \A v \in Versions : v <= ecm[d].version => Texts(d) \subseteq past[d][v]

\* What r may open now it could have opened since it asked.
SightHeld == \A r \in Readers : Asking(r) => Open(r) \subseteq sight[r]

Inv ==
  /\ TypeOK /\ SightHeld
  /\ \A r \in Readers : QSound(ask[r], sight[r]) /\ QHeld(ask[r])
  /\ CacheHeld /\ PastHeld

\* r's question goes on, or ends and cites what it may.
Goes(r, q) ==
  q.step \notin Ended /\ q.denied = ask[r].denied /\ q.cited = ask[r].cited
Ends(r, q) ==
  q.step \in Ended /\ q.denied = {} /\ q.cited \subseteq sight[r] \ ask[r].denied

\* The record is replaced by one that holds what a question holds.
Turns(r) ==
  \E q \in Questions :
    /\ ask' = [ask EXCEPT ![r] = q]
    /\ QSound(q, sight[r]) /\ QHeld(q)
    /\ Goes(r, q) \/ Ends(r, q)

-----------------------------------------------------------------------------
(* Numbers                                                                 *)

\* A place in a finite set of documents is a number.
LEMMA StandingIsNat ==
  ASSUME NEW S \in SUBSET Docs, NEW ahead, NEW d
  PROVE Standing(S, ahead, d) \in Nat
<1>1. IsFiniteSet(Docs) BY RetrievalAssumption
<1>2. IsFiniteSet({e \in S : <<e, d>> \in ahead}) BY <1>1, FS_Subset
<1> QED BY <1>2, FS_CardinalityType DEF Standing

\* The fusion ranks every document with a number.
LEMMA FusionRankType ==
  ASSUME NEW hits \in [Channels -> SUBSET Docs], NEW used \in SUBSET Channels
  PROVE FusionRank(hits, used) \in [Docs -> Nat]
<1>1. Found(hits, used) \in SUBSET Docs BY DEF Found
<1>2. \A ahead : \A d \in Docs : (IF d \in Found(hits, used) THEN Standing(Found(hits, used), ahead, d) ELSE 0) \in Nat
  BY <1>1, StandingIsNat
<1> QED BY <1>2 DEF FusionRank

\* A ranking of a shortlist ranks every document with a number, and what is
\* assembled from it is in the pool.
LEMMA ShortlistType ==
  ASSUME NEW q, NEW S \in Shortlisted(Pool(q)), NEW ranked \in Rankings(S),
         NEW rank, NEW above
  PROVE /\ S \subseteq Pool(q)
        /\ [d \in Docs |-> IF d \in S THEN ranked[d] ELSE 0] \in [Docs -> Nat]
        /\ Assembled(rank, ranked, above) \subseteq Pool(q)
<1>1. S \subseteq Pool(q) /\ S \subseteq Docs BY DEF Shortlisted, Pool
<1>2. Cardinality(S) \in Nat BY <1>1, RetrievalAssumption, FS_Subset, FS_CardinalityType
<1>3. ranked \in [S -> 1..Cardinality(S)] BY DEF Rankings
<1>4. \A d \in S : ranked[d] \in Nat BY <1>2, <1>3
<1>5. Assembled(rank, ranked, above) \subseteq DOMAIN ranked BY DEF Assembled
<1> QED BY <1>1, <1>3, <1>4, <1>5

-----------------------------------------------------------------------------
(* Records                                                                 *)

\* What the lemmas below need of the question of r.
LEMMA QuestionOf ==
  ASSUME Inv, NEW r \in Readers
  PROVE ask[r] \in Questions /\ QSound(ask[r], sight[r]) /\ QHeld(ask[r])
BY DEF Inv, TypeOK

\* A fresh question holds.
LEMMA RestingHolds ==
  ASSUME TypeOK, NEW seen
  PROVE Resting \in Questions /\ QSound(Resting, seen) /\ QHeld(Resting)
<1>1. Resting \in Questions BY RetrievalAssumption DEF Resting, Questions, Nowhere, Channels, Steps
<1>2. QSound(Resting, seen) BY DEF Resting, QSound, Nowhere, Channels, Ended, Resolving, Recovering
<1>3. \A d \in Docs : ecm[d].version \in Nat BY RetrievalAssumption DEF TypeOK, Versions
<1>4. QHeld(Resting) BY <1>3 DEF QHeld, Resting, Nowhere
<1> QED BY <1>1, <1>2, <1>4

\* A question that returns holds.
LEMMA FinishedHolds ==
  ASSUME TypeOK, NEW seen, NEW q \in Questions,
         \A ch \in Channels : q.thread[ch] # "out",
         q.used \subseteq Channels \ q.said, q.cited \subseteq Found(q.hits, q.used)
  PROVE /\ Finished(q) \in Questions /\ QSound(Finished(q), seen) /\ QHeld(Finished(q))
        /\ Finished(q).step = "done" /\ Finished(q).denied = {} /\ Finished(q).cited = q.cited
<1>1. Finished(q) \in Questions
  <2>1. Nowhere \in [Docs -> 0..MaxVersion] /\ Nowhere \in [Docs -> Nat] /\ "done" \in Steps
    BY RetrievalAssumption DEF Nowhere, Steps
  <2> HIDE DEF Nowhere, Steps
  <2> QED BY <2>1 DEF Finished, Questions
<1>2. /\ Finished(q).step = "done" /\ Finished(q).denied = {} /\ Finished(q).todo = {}
      /\ Finished(q).version = Nowhere /\ Finished(q).cited = q.cited
      /\ Finished(q).thread = q.thread /\ Finished(q).used = q.used
      /\ Finished(q).said = q.said /\ Finished(q).hits = q.hits
  BY DEF Finished, Questions
<1>3. QSound(Finished(q), seen) BY <1>2 DEF QSound, Nowhere, Ended, Resolving, Recovering
<1>4. \A d \in Docs : ecm[d].version \in Nat BY RetrievalAssumption DEF TypeOK, Versions
<1>5. QHeld(Finished(q)) BY <1>2, <1>4 DEF QHeld, Nowhere
<1> QED BY <1>1, <1>2, <1>3, <1>5

\* The question that returns has ended.
LEMMA FinishedTurns ==
  ASSUME Inv, NEW r \in Readers, NEW q \in Questions,
         \A ch \in Channels : q.thread[ch] # "out",
         q.used \subseteq Channels \ q.said, q.cited \subseteq Found(q.hits, q.used),
         q.cited \subseteq sight[r] \ ask[r].denied, Go(r, Finished(q))
  PROVE Turns(r)
<1>1. TypeOK BY DEF Inv
<1>2. /\ Finished(q) \in Questions /\ QSound(Finished(q), sight[r]) /\ QHeld(Finished(q))
      /\ Finished(q).step = "done" /\ Finished(q).denied = {} /\ Finished(q).cited = q.cited
  BY <1>1, FinishedHolds
<1>3. Ends(r, Finished(q)) BY <1>2 DEF Ends, Ended
<1> QED BY <1>2, <1>3 DEF Turns, Go

-----------------------------------------------------------------------------
(* The candidates                                                          *)

LEMMA IndexAnswersTurns ==
  ASSUME Inv, NEW r \in Readers, IndexAnswers(r)
  PROVE Turns(r)
<1> DEFINE q == ask[r]
<1>1. q \in Questions /\ QSound(q, sight[r]) /\ QHeld(q) BY QuestionOf
<1>2. PICK hits \in SUBSET Matched("pgp"), reranked \in BOOLEAN :
        Go(r, [q EXCEPT !.thread["pgp"] = "back", !.hits["pgp"] = hits, !.reranked = reranked])
  BY DEF IndexAnswers
<1> DEFINE n == [q EXCEPT !.thread["pgp"] = "back", !.hits["pgp"] = hits, !.reranked = reranked]
<1>3. q.step = "search" /\ q.used = {}
  BY <1>1 DEF IndexAnswers, QSound, Channels
<1>4. hits \subseteq Docs BY DEF Matched
<1>5. n \in Questions BY <1>1, <1>4 DEF Questions, Channels
<1>6. /\ n.step = q.step /\ n.denied = q.denied /\ n.used = q.used /\ n.said = q.said
      /\ n.todo = q.todo /\ n.version = q.version /\ n.text = q.text /\ n.cited = q.cited
  BY <1>1 DEF Questions
<1>7. QSound(n, sight[r])
  BY <1>1, <1>3, <1>6 DEF QSound, Found, Ended, Resolving, Recovering
<1>8. QHeld(n) BY <1>1, <1>6 DEF QHeld
<1>9. Goes(r, n) BY <1>3, <1>6 DEF Goes, Ended
<1> HIDE DEF n
<1> QED BY <1>2, <1>5, <1>7, <1>8, <1>9 DEF Turns, Go, n

LEMMA StoreAnswersTurns ==
  ASSUME Inv, NEW r \in Readers, StoreAnswers(r)
  PROVE Turns(r)
<1> DEFINE q == ask[r]
<1> DEFINE n == [q EXCEPT !.thread["ecm"] = "back",
                          !.hits["ecm"] = {d \in Matched("ecm") : ecm[d].there}]
<1>1. q \in Questions /\ QSound(q, sight[r]) /\ QHeld(q) BY QuestionOf
<1>2. Go(r, n) BY DEF StoreAnswers
<1>3. q.step = "search" /\ q.used = {}
  BY <1>1 DEF StoreAnswers, QSound, Channels
<1>4. {d \in Matched("ecm") : ecm[d].there} \subseteq Docs BY DEF Matched
<1>5. n \in Questions BY <1>1, <1>4 DEF Questions, Channels
<1>6. /\ n.step = q.step /\ n.denied = q.denied /\ n.used = q.used /\ n.said = q.said
      /\ n.todo = q.todo /\ n.version = q.version /\ n.text = q.text /\ n.cited = q.cited
  BY <1>1 DEF Questions
<1>7. QSound(n, sight[r])
  BY <1>1, <1>3, <1>6 DEF QSound, Found, Ended, Resolving, Recovering
<1>8. QHeld(n) BY <1>1, <1>6 DEF QHeld
<1>9. Goes(r, n) BY <1>3, <1>6 DEF Goes, Ended
<1> HIDE DEF n
<1> QED BY <1>2, <1>5, <1>7, <1>8, <1>9 DEF Turns, Go

LEMMA BreaksTurns ==
  ASSUME Inv, NEW r \in Readers, NEW ch \in Channels, Breaks(r, ch)
  PROVE Turns(r)
<1> DEFINE q == ask[r]
<1>1. q \in Questions /\ QSound(q, sight[r]) /\ QHeld(q) BY QuestionOf
<1>2. PICK reranked \in BOOLEAN :
        Go(r, [q EXCEPT !.thread[ch] = "failed", !.reranked = reranked])
  BY <1>1 DEF Breaks, Questions
<1> DEFINE n == [q EXCEPT !.thread[ch] = "failed", !.reranked = reranked]
<1>3. q.step = "search" /\ q.used = {}
  BY <1>1 DEF Breaks, QSound
<1>4. n \in Questions BY <1>1 DEF Questions
<1>5. /\ n.step = q.step /\ n.denied = q.denied /\ n.used = q.used /\ n.said = q.said
      /\ n.todo = q.todo /\ n.version = q.version /\ n.text = q.text /\ n.cited = q.cited
  BY <1>1 DEF Questions
<1>6. QSound(n, sight[r])
  BY <1>1, <1>3, <1>5 DEF QSound, Found, Ended, Resolving, Recovering
<1>7. QHeld(n) BY <1>1, <1>5 DEF QHeld
<1>8. Goes(r, n) BY <1>3, <1>5 DEF Goes, Ended
<1> HIDE DEF n
<1> QED BY <1>2, <1>4, <1>6, <1>7, <1>8 DEF Turns, Go, n

LEMMA JoinTurns ==
  ASSUME Inv, NEW r \in Readers, Join(r)
  PROVE Turns(r)
<1> DEFINE q == ask[r]
<1>1. q \in Questions /\ QSound(q, sight[r]) /\ QHeld(q) BY QuestionOf
<1>2. q.step = "search" BY DEF Join, Joined
<1> DEFINE failed(late) == late \cup {ch \in Channels : q.thread[ch] = "failed"}
           used(late) == {ch \in Channels \ failed(late) : q.hits[ch] # {}}
           m(late) == [q EXCEPT !.thread = Resting.thread, !.said = failed(late), !.used = used(late)]
           n(late) == [m(late) EXCEPT !.step = "batch", !.rank = FusionRank(q.hits, used(late)),
                                      !.todo = Found(q.hits, used(late))]
<1>3. PICK late \in SUBSET Channels :
        Go(r, IF used(late) = {} THEN Finished(m(late)) ELSE n(late))
  BY DEF Join
<1>4. Resting.thread \in [Channels -> {"off"}] BY DEF Resting
<1>5. m(late) \in Questions BY <1>1, <1>4 DEF Questions
<1>6. /\ m(late).thread = Resting.thread /\ m(late).said = failed(late) /\ m(late).used = used(late)
      /\ m(late).hits = q.hits /\ m(late).version = q.version /\ m(late).text = q.text
      /\ m(late).denied = q.denied /\ m(late).cited = q.cited
  BY <1>1 DEF Questions
<1>7. \A d \in Docs : q.version[d] = 0 /\ q.text[d] = 0
  <2>1. \A d \in Docs : q.version[d] = 0 BY <1>1, <1>2 DEF QSound, Found
  <2> QED BY <1>1, <1>2, <2>1 DEF QSound
<1>8. q.cited = {} BY <1>1, <1>2 DEF QSound
<1>9. CASE used(late) = {}
  <2>1. Go(r, Finished(m(late))) BY <1>3, <1>9
  <2>2. /\ \A ch \in Channels : m(late).thread[ch] # "out"
        /\ m(late).used \subseteq Channels \ m(late).said
        /\ m(late).cited \subseteq Found(m(late).hits, m(late).used)
        /\ m(late).cited \subseteq sight[r] \ ask[r].denied
    BY <1>4, <1>6, <1>8
  <2> HIDE DEF m
  <2> QED BY <1>5, <2>1, <2>2, FinishedTurns
<1>10. CASE used(late) # {}
  <2>1. Go(r, n(late)) BY <1>3, <1>10
  <2>2. FusionRank(q.hits, used(late)) \in [Docs -> Nat] /\ Found(q.hits, used(late)) \subseteq Docs
    BY <1>1, FusionRankType DEF Questions, Found
  <2> HIDE DEF m
  <2>3. n(late) \in Questions BY <1>5, <2>2 DEF Questions, Steps
  <2>4. /\ n(late).step = "batch" /\ n(late).todo = Found(q.hits, used(late))
        /\ n(late).thread = Resting.thread /\ n(late).said = failed(late) /\ n(late).used = used(late)
        /\ n(late).hits = q.hits /\ n(late).version = q.version /\ n(late).text = q.text
        /\ n(late).denied = q.denied /\ n(late).cited = {}
    BY <1>5, <1>6, <1>8 DEF Questions
  <2>5. /\ \A ch \in Channels : n(late).thread[ch] # "out"
        /\ n(late).used \subseteq Channels \ n(late).said
        /\ n(late).todo = Found(n(late).hits, n(late).used)
        /\ \A d \in Docs : n(late).version[d] = 0 /\ n(late).text[d] = 0
    BY <1>4, <1>7, <2>4
  <2>8. QSound(n(late), sight[r])
    <3> HIDE DEF n
    <3> QED BY <2>4, <2>5 DEF QSound, Ended, Resolving, Recovering
  <2>6. QHeld(n(late)) BY <1>1, <2>4 DEF QHeld
  <2>7. Goes(r, n(late)) BY <1>8, <2>4 DEF Goes, Ended
  <2> HIDE DEF n
  <2> QED BY <2>1, <2>3, <2>8, <2>6, <2>7 DEF Turns, Go
<1> QED BY <1>9, <1>10

-----------------------------------------------------------------------------
(* Resolution                                                              *)

\* Resolution is over: nothing is left, or what is left has a version.
LEMMA ResolvedTurns ==
  ASSUME Inv, NEW r \in Readers, NEW q \in Questions, QSound(q, sight[r]), QHeld(q),
         q.step \in Resolving, q.denied = ask[r].denied, ask[r].cited = {}, Go(r, Resolved(q))
  PROVE Turns(r)
<1> DEFINE left == {d \in Docs : q.version[d] # 0}
           n == [q EXCEPT !.todo = left, !.step = "prime"]
<1>1. q.cited = {} /\ \A ch \in Channels : q.thread[ch] # "out"
  BY DEF QSound, Resolving
<1>2. CASE left = {}
  <2>1. Go(r, Finished(q)) BY <1>2 DEF Resolved
  <2> QED BY <1>1, <2>1, FinishedTurns DEF QSound
<1>3. CASE left # {}
  <2>1. Go(r, n) BY <1>3 DEF Resolved
  <2>2. n \in Questions BY DEF Questions, Steps
  <2>3. /\ n.step = "prime" /\ n.todo = left /\ n.denied = q.denied /\ n.used = q.used
        /\ n.said = q.said /\ n.hits = q.hits /\ n.thread = q.thread
        /\ n.version = q.version /\ n.text = q.text /\ n.cited = q.cited
    BY DEF Questions
  <2> HIDE DEF n
  <2>4. \A d \in left : d \in Found(q.hits, q.used) /\ q.version[d] # 0 BY DEF QSound
  <2>5. QSound(n, sight[r])
    BY <1>1, <2>3, <2>4 DEF QSound, Ended, Resolving, Recovering
  <2>6. QHeld(n) BY <2>3 DEF QHeld
  <2>7. Goes(r, n) BY <1>1, <2>3 DEF Goes, Ended
  <2> QED BY <2>1, <2>2, <2>5, <2>6, <2>7 DEF Turns, Go
<1> QED BY <1>2, <1>3

\* A document is resolved to a version the store has, that its reader sees.
LEMMA ResolutionHolds ==
  ASSUME Inv, NEW r \in Readers, NEW d \in Docs, Asking(r)
  PROVE /\ Resolution(r, d) \in 0..MaxVersion
        /\ Resolution(r, d) <= ecm[d].version
        /\ Resolution(r, d) # 0 => d \in sight[r] \ ask[r].denied
<1>1. ecm[d].version \in 1..MaxVersion /\ MaxVersion \in Nat
  BY RetrievalAssumption DEF Inv, TypeOK, Versions
<1>2. Passes(r, d) => d \in sight[r] \ ask[r].denied BY DEF Inv, SightHeld, Passes
<1> QED BY <1>1, <1>2 DEF Resolution

LEMMA BatchTurns ==
  ASSUME Inv, NEW r \in Readers, Batch(r)
  PROVE Turns(r)
<1> DEFINE q == ask[r]
           version == [d \in Docs |-> IF d \in q.todo THEN Resolution(r, d) ELSE 0]
           n == [q EXCEPT !.version = version]
<1>1. q \in Questions /\ QSound(q, sight[r]) /\ QHeld(q) BY QuestionOf
<1>2. q.step = "batch" /\ Asking(r) /\ Go(r, Resolved(n)) BY DEF Batch, Asking
<1>3. \A d \in Docs : /\ Resolution(r, d) \in 0..MaxVersion
                      /\ Resolution(r, d) <= ecm[d].version
                      /\ Resolution(r, d) # 0 => d \in sight[r] \ q.denied
  BY <1>2, ResolutionHolds
<1>4. MaxVersion \in Nat /\ \A d \in Docs : ecm[d].version \in Nat
  BY RetrievalAssumption DEF Inv, TypeOK, Versions
<1>5. version \in [Docs -> 0..MaxVersion] BY <1>3, <1>4
<1>6. n \in Questions BY <1>1, <1>5 DEF Questions
<1>7. /\ n.step = "batch" /\ n.todo = q.todo /\ n.denied = q.denied /\ n.used = q.used
      /\ n.said = q.said /\ n.hits = q.hits /\ n.thread = q.thread
      /\ n.version = version /\ n.text = q.text /\ n.cited = q.cited
  BY <1>1, <1>2 DEF Questions
<1> HIDE DEF n
<1>8. \A d \in Docs : version[d] # 0 => d \in Found(q.hits, q.used) /\ d \in sight[r] \ q.denied
  BY <1>1, <1>3 DEF QSound
<1>9. \A d \in Docs : version[d] <= ecm[d].version BY <1>3, <1>4
<1>10. \A d \in Docs : q.text[d] = 0 BY <1>1, <1>2 DEF QSound, Resolving
<1> HIDE DEF version
<1>11. QSound(n, sight[r])
  BY <1>1, <1>2, <1>7, <1>8, <1>10 DEF QSound, Ended, Resolving, Recovering
<1>12. QHeld(n) BY <1>7, <1>9, <1>10 DEF QHeld
<1>13. q.cited = {} BY <1>1, <1>2 DEF QSound
<1> QED BY <1>2, <1>6, <1>7, <1>11, <1>12, <1>13, ResolvedTurns DEF Resolving

LEMMA BatchFailsTurns ==
  ASSUME Inv, NEW r \in Readers, BatchFails(r)
  PROVE Turns(r)
<1> DEFINE q == ask[r]
           n == [q EXCEPT !.step = "resolve"]
<1>1. q \in Questions /\ QSound(q, sight[r]) /\ QHeld(q) BY QuestionOf
<1>2. q.step = "batch" /\ Go(r, n) BY DEF BatchFails
<1>3. n \in Questions BY <1>1 DEF Questions, Steps
<1>4. /\ n.step = "resolve" /\ n.todo = q.todo /\ n.denied = q.denied /\ n.used = q.used
      /\ n.said = q.said /\ n.hits = q.hits /\ n.thread = q.thread
      /\ n.version = q.version /\ n.text = q.text /\ n.cited = q.cited
  BY <1>1 DEF Questions
<1> HIDE DEF n
<1>5. QSound(n, sight[r])
  BY <1>1, <1>2, <1>4 DEF QSound, Ended, Resolving, Recovering
<1>6. QHeld(n) BY <1>1, <1>4 DEF QHeld
<1>7. Goes(r, n) BY <1>4 DEF Goes, Ended
<1> QED BY <1>2, <1>3, <1>5, <1>6, <1>7 DEF Turns, Go

\* On to the next candidate, or to the end of resolution.
LEMMA OnwardTurns ==
  ASSUME Inv, NEW r \in Readers, NEW q \in Questions, QSound(q, sight[r]), QHeld(q),
         NEW d \in Docs, q.step = "resolve", q.denied = ask[r].denied, ask[r].cited = {},
         Go(r, Onward(q, d))
  PROVE Turns(r)
<1> DEFINE n == [q EXCEPT !.todo = @ \ {d}]
<1>1. CASE q.todo = {d}
  BY <1>1, ResolvedTurns DEF Onward, Resolving
<1>2. CASE q.todo # {d}
  <2>1. Go(r, n) BY <1>2 DEF Onward
  <2>2. n \in Questions BY DEF Questions
  <2>3. /\ n.step = "resolve" /\ n.todo = q.todo \ {d} /\ n.denied = q.denied /\ n.used = q.used
        /\ n.said = q.said /\ n.hits = q.hits /\ n.thread = q.thread
        /\ n.version = q.version /\ n.text = q.text /\ n.cited = q.cited
    BY DEF Questions
  <2> HIDE DEF n
  <2>4. QSound(n, sight[r])
    BY <2>3 DEF QSound, Ended, Resolving, Recovering
  <2>5. QHeld(n) BY <2>3 DEF QHeld
  <2>6. n.cited = {} BY <2>3 DEF QSound
  <2>7. Goes(r, n) BY <2>3, <2>6 DEF Goes, Ended
  <2> QED BY <2>1, <2>2, <2>4, <2>5, <2>7 DEF Turns, Go
<1> QED BY <1>1, <1>2

LEMMA ResolveTurns ==
  ASSUME Inv, NEW r \in Readers, NEW d \in Docs, Resolve(r, d)
  PROVE Turns(r)
<1> DEFINE q == ask[r]
           n == [q EXCEPT !.version[d] = Resolution(r, d)]
<1>1. q \in Questions /\ QSound(q, sight[r]) /\ QHeld(q) BY QuestionOf
<1>2. q.step = "resolve" /\ d \in q.todo /\ Asking(r) /\ Go(r, Onward(n, d))
  BY DEF Resolve, First, Asking
<1>3. /\ Resolution(r, d) \in 0..MaxVersion
      /\ Resolution(r, d) <= ecm[d].version
      /\ Resolution(r, d) # 0 => d \in sight[r] \ q.denied
  BY <1>2, ResolutionHolds
<1>4. n \in Questions BY <1>1, <1>3 DEF Questions
<1>5. /\ n.step = "resolve" /\ n.todo = q.todo /\ n.denied = q.denied /\ n.used = q.used
      /\ n.said = q.said /\ n.hits = q.hits /\ n.thread = q.thread
      /\ n.version = [q.version EXCEPT ![d] = Resolution(r, d)]
      /\ n.text = q.text /\ n.cited = q.cited
  BY <1>1, <1>2 DEF Questions
<1> HIDE DEF n
<1>6. \A e \in Docs : n.version[e] = IF e = d THEN Resolution(r, d) ELSE q.version[e]
  BY <1>1, <1>5 DEF Questions
<1>7. \A e \in Docs : q.text[e] = 0 BY <1>1, <1>2 DEF QSound, Resolving
<1>8. d \in Found(q.hits, q.used) BY <1>1, <1>2 DEF QSound
<1>9. \A e \in Docs : n.version[e] # 0 =>
        e \in Found(q.hits, q.used) /\ e \in sight[r] \ q.denied
  BY <1>1, <1>3, <1>6, <1>8 DEF QSound
<1>10. QSound(n, sight[r])
  BY <1>1, <1>2, <1>5, <1>7, <1>9 DEF QSound, Ended, Resolving, Recovering
<1>11. QHeld(n) BY <1>1, <1>3, <1>5, <1>6, <1>7 DEF QHeld
<1>12. q.cited = {} BY <1>1, <1>2 DEF QSound
<1> QED BY <1>2, <1>4, <1>5, <1>10, <1>11, <1>12, OnwardTurns

LEMMA UnresolvedTurns ==
  ASSUME Inv, NEW r \in Readers, NEW d \in Docs, Unresolved(r, d)
  PROVE Turns(r)
<1> DEFINE q == ask[r]
           n == [q EXCEPT !.lost = @ \cup {d}]
<1>1. q \in Questions /\ QSound(q, sight[r]) /\ QHeld(q) BY QuestionOf
<1>2. q.step = "resolve" /\ Go(r, Onward(n, d)) BY DEF Unresolved
<1>3. n \in Questions BY <1>1 DEF Questions
<1>4. /\ n.step = "resolve" /\ n.todo = q.todo /\ n.denied = q.denied /\ n.used = q.used
      /\ n.said = q.said /\ n.hits = q.hits /\ n.thread = q.thread
      /\ n.version = q.version /\ n.text = q.text /\ n.cited = q.cited
  BY <1>1, <1>2 DEF Questions
<1> HIDE DEF n
<1>5. QSound(n, sight[r])
  BY <1>1, <1>2, <1>4 DEF QSound, Ended, Resolving, Recovering
<1>6. QHeld(n) BY <1>1, <1>4 DEF QHeld
<1>7. q.cited = {} BY <1>1, <1>2 DEF QSound
<1> QED BY <1>2, <1>3, <1>4, <1>5, <1>6, <1>7, OnwardTurns

-----------------------------------------------------------------------------
(* Passages                                                                *)

\* What can be read of a document now has been there since its version.
LEMMA TextsHeld ==
  ASSUME Inv, NEW q \in Questions, QHeld(q), NEW d \in Docs, q.version[d] # 0
  PROVE /\ chunks[d] \in 0..MaxVersion
        /\ d \notin Unversioned /\ chunks[d] # 0 => chunks[d] \in past[d][q.version[d]]
        /\ ecm[d].version \in 1..MaxVersion
        /\ d \notin Unversioned /\ ecm[d].there => ecm[d].version \in past[d][q.version[d]]
        /\ Cached(q, d) \in 0..MaxVersion
        /\ d \notin Unversioned /\ Cached(q, d) # 0 => Cached(q, d) \in past[d][q.version[d]]
<1>1. /\ MaxVersion \in Nat /\ chunks[d] \in 0..MaxVersion
      /\ ecm[d].version \in 1..MaxVersion /\ q.version[d] \in 1..MaxVersion
  <2>1. MaxVersion \in Nat BY RetrievalAssumption
  <2>2. chunks[d] \in 0..MaxVersion /\ ecm[d].version \in 1..MaxVersion
    BY DEF Inv, TypeOK, Versions
  <2>3. q.version[d] \in 0..MaxVersion BY DEF Questions
  <2> QED BY <2>1, <2>2, <2>3
<1>2. d \notin Unversioned => Texts(d) \subseteq past[d][q.version[d]]
  BY <1>1 DEF Inv, PastHeld, QHeld, Versions
<1>3. Key(q, d) \in 0..MaxVersion BY <1>1 DEF Key
<1>4. Cached(q, d) \in 0..MaxVersion BY <1>1, <1>3 DEF Inv, TypeOK, Cached
<1>5. d \notin Unversioned /\ Cached(q, d) # 0 => Cached(q, d) \in past[d][q.version[d]]
  BY <1>1 DEF Cached, Key, Inv, CacheHeld, Versions
<1> QED BY <1>1, <1>2, <1>4, <1>5 DEF Texts

LEMMA PrimeTurns ==
  ASSUME Inv, NEW r \in Readers, Prime(r)
  PROVE Turns(r)
<1> DEFINE q == ask[r]
           text == [d \in Docs |-> IF d \in q.todo /\ Cached(q, d) = 0 THEN chunks[d] ELSE 0]
           n == [q EXCEPT !.step = "fill", !.text = text]
<1>1. q \in Questions /\ QSound(q, sight[r]) /\ QHeld(q) BY QuestionOf
<1>2. q.step = "prime" /\ Go(r, n) BY DEF Prime
<1>3. /\ MaxVersion \in Nat
      /\ \A d \in Docs : chunks[d] \in 0..MaxVersion
  BY RetrievalAssumption DEF Inv, TypeOK
<1>4. text \in [Docs -> 0..MaxVersion] BY <1>3
<1>5. n \in Questions BY <1>1, <1>4 DEF Questions, Steps
<1>6. /\ n.step = "fill" /\ n.todo = q.todo /\ n.denied = q.denied /\ n.used = q.used
      /\ n.said = q.said /\ n.hits = q.hits /\ n.thread = q.thread
      /\ n.version = q.version /\ n.text = text /\ n.cited = q.cited
  BY <1>1 DEF Questions
<1> HIDE DEF n
<1>7. \A d \in Docs : text[d] # 0 => d \in q.todo /\ text[d] = chunks[d] OBVIOUS
<1>8. \A d \in q.todo : q.version[d] # 0 BY <1>1, <1>2 DEF QSound, Recovering
<1> HIDE DEF text
<1>9. QSound(n, sight[r])
  BY <1>1, <1>2, <1>6, <1>7, <1>8 DEF QSound, Ended, Resolving, Recovering
<1>10. QHeld(n) BY <1>1, <1>6, <1>7, <1>8, TextsHeld DEF QHeld
<1>11. Goes(r, n) BY <1>6 DEF Goes, Ended
<1> QED BY <1>2, <1>5, <1>9, <1>10, <1>11 DEF Turns, Go

LEMMA FillTurns ==
  ASSUME Inv, NEW r \in Readers, Fill(r)
  PROVE Turns(r)
<1> DEFINE q == ask[r]
           n == [q EXCEPT !.step = "load", !.text = Nowhere]
<1>1. q \in Questions /\ QSound(q, sight[r]) /\ QHeld(q) BY QuestionOf
<1>2. q.step = "fill" /\ Go(r, n) BY DEF Fill
<1>3. Nowhere \in [Docs -> 0..MaxVersion] BY RetrievalAssumption DEF Nowhere
<1>4. n \in Questions BY <1>1, <1>3 DEF Questions, Steps
<1>5. /\ n.step = "load" /\ n.todo = q.todo /\ n.denied = q.denied /\ n.used = q.used
      /\ n.said = q.said /\ n.hits = q.hits /\ n.thread = q.thread
      /\ n.version = q.version /\ n.text = Nowhere /\ n.cited = q.cited
  BY <1>1 DEF Questions
<1> HIDE DEF n
<1>6. \A d \in Docs : Nowhere[d] = 0 BY DEF Nowhere
<1>7. QSound(n, sight[r])
  BY <1>1, <1>2, <1>5, <1>6 DEF QSound, Ended, Resolving, Recovering
<1>8. QHeld(n) BY <1>1, <1>5, <1>6 DEF QHeld
<1>9. Goes(r, n) BY <1>5 DEF Goes, Ended
<1> QED BY <1>2, <1>4, <1>7, <1>8, <1>9 DEF Turns, Go

Loading == {"load", "fetch", "put"}

\* A document is done with: its text, or none, is taken.
LEMMA LoadedHolds ==
  ASSUME Inv, NEW r \in Readers, ask[r].step \in Loading, NEW d \in ask[r].todo,
         NEW text \in 0..MaxVersion,
         d \notin Unversioned /\ text # 0 => text \in past[d][ask[r].version[d]]
  PROVE LET n == Loaded(ask[r], d, text)
        IN n \in Questions /\ QSound(n, sight[r]) /\ QHeld(n) /\ Goes(r, n)
<1> DEFINE q == ask[r]
           taken == IF d \in Unreadable THEN 0 ELSE text
           step == IF q.todo = {d} THEN "rank" ELSE "load"
           n == Loaded(q, d, text)
<1>1. q \in Questions /\ QSound(q, sight[r]) /\ QHeld(q) BY QuestionOf
<1>2. d \in Docs /\ taken \in 0..MaxVersion BY <1>1, RetrievalAssumption DEF Questions
<1>3. step \in Steps /\ step \in Recovering BY DEF Steps, Recovering
<1>4. n = [q EXCEPT !.text[d] = taken, !.todo = @ \ {d}, !.step = step] BY DEF Loaded
<1> HIDE DEF n, taken, step
<1>5. n \in Questions BY <1>1, <1>2, <1>3, <1>4 DEF Questions
<1>6. /\ n.step = step /\ n.todo = q.todo \ {d} /\ n.denied = q.denied /\ n.used = q.used
      /\ n.said = q.said /\ n.hits = q.hits /\ n.thread = q.thread
      /\ n.version = q.version /\ n.text = [q.text EXCEPT ![d] = taken] /\ n.cited = q.cited
  BY <1>1, <1>4 DEF Questions
<1>7. \A e \in Docs : n.text[e] = IF e = d THEN taken ELSE q.text[e]
  BY <1>1, <1>6 DEF Questions
<1>8. q.version[d] # 0 BY <1>1 DEF QSound, Recovering, Loading
<1>9. \A e \in Docs : q.text[e] # 0 => q.version[e] # 0
  BY <1>1 DEF QSound, Loading
<1>10. QSound(n, sight[r])
  <2>1. /\ \A ch \in Channels : n.thread[ch] # "out"
        /\ n.used \subseteq Channels \ n.said
        /\ n.todo \subseteq Found(n.hits, n.used)
        /\ \A e \in Docs : n.version[e] # 0 => e \in Found(n.hits, n.used) /\ e \in sight[r] \ n.denied
        /\ \A e \in n.todo : n.version[e] # 0
        /\ n.cited = {}
    BY <1>1, <1>6 DEF QSound, Recovering, Loading
  <2>2. \A e \in Docs : n.text[e] # 0 => n.version[e] # 0 BY <1>6, <1>7, <1>8, <1>9
  <2> QED BY <1>3, <1>6, <2>1, <2>2 DEF QSound, Ended, Resolving, Recovering
<1>11. d \notin Unversioned /\ taken # 0 => taken \in past[d][q.version[d]] BY DEF taken
<1>12. QHeld(n) BY <1>1, <1>6, <1>7, <1>11 DEF QHeld
<1>13. Goes(r, n) BY <1>3, <1>6 DEF Goes, Ended, Recovering
<1> QED BY <1>5, <1>10, <1>12, <1>13 DEF n

LEMMA LoadCachedTurns ==
  ASSUME Inv, NEW r \in Readers, NEW d \in Docs, LoadCached(r, d)
  PROVE Turns(r)
<1> DEFINE q == ask[r]
           n == Loaded(q, d, Cached(q, d))
<1>1. q \in Questions /\ QSound(q, sight[r]) /\ QHeld(q) BY QuestionOf
<1>2. q.step = "load" /\ d \in q.todo /\ Go(r, n) BY DEF LoadCached, First
<1>3. q.version[d] # 0 BY <1>1, <1>2 DEF QSound, Recovering
<1>4. n \in Questions /\ QSound(n, sight[r]) /\ QHeld(n) /\ Goes(r, n)
  BY <1>1, <1>2, <1>3, TextsHeld, LoadedHolds DEF Loading
<1> HIDE DEF n
<1> QED BY <1>2, <1>4 DEF Turns, Go

\* A text is read before it is written to the cache, or the store is asked.
LEMMA ReadHolds ==
  ASSUME Inv, NEW r \in Readers, ask[r].step \in Loading, NEW d \in ask[r].todo,
         NEW text \in 0..MaxVersion,
         d \notin Unversioned /\ text # 0 => text \in past[d][ask[r].version[d]],
         Go(r, [ask[r] EXCEPT !.step = "put", !.text[d] = text])
  PROVE Turns(r)
<1> DEFINE q == ask[r]
           n == [q EXCEPT !.step = "put", !.text[d] = text]
<1>1. q \in Questions /\ QSound(q, sight[r]) /\ QHeld(q) BY QuestionOf
<1>2. d \in Docs BY <1>1 DEF Questions
<1>3. n \in Questions BY <1>1, <1>2 DEF Questions, Steps
<1>4. /\ n.step = "put" /\ n.todo = q.todo /\ n.denied = q.denied /\ n.used = q.used
      /\ n.said = q.said /\ n.hits = q.hits /\ n.thread = q.thread
      /\ n.version = q.version /\ n.text = [q.text EXCEPT ![d] = text] /\ n.cited = q.cited
  BY <1>1 DEF Questions
<1>5. Go(r, n) OBVIOUS
<1> HIDE DEF n
<1>6. \A e \in Docs : n.text[e] = IF e = d THEN text ELSE q.text[e]
  BY <1>1, <1>4 DEF Questions
<1>7. q.version[d] # 0 BY <1>1 DEF QSound, Recovering, Loading
<1>8. \A e \in Docs : n.text[e] # 0 => n.version[e] # 0
  BY <1>1, <1>4, <1>6, <1>7 DEF QSound, Loading
<1>9. QSound(n, sight[r])
  BY <1>1, <1>4, <1>8 DEF QSound, Ended, Resolving, Recovering, Loading
<1>10. QHeld(n) BY <1>1, <1>4, <1>6 DEF QHeld
<1>11. Goes(r, n) BY <1>4 DEF Goes, Ended
<1> QED BY <1>3, <1>5, <1>9, <1>10, <1>11 DEF Turns, Go

LEMMA LoadStoredTurns ==
  ASSUME Inv, NEW r \in Readers, NEW d \in Docs, LoadStored(r, d)
  PROVE Turns(r)
<1> DEFINE q == ask[r]
           n == [q EXCEPT !.step = "fetch"]
<1>1. q \in Questions /\ QSound(q, sight[r]) /\ QHeld(q) BY QuestionOf
<1>2. q.step = "load" /\ d \in q.todo BY DEF LoadStored, First
<1>3. q.version[d] # 0 BY <1>1, <1>2 DEF QSound, Recovering
<1>4. CASE chunks[d] # 0
  <2>1. Go(r, [q EXCEPT !.step = "put", !.text[d] = chunks[d]]) BY <1>4 DEF LoadStored
  <2>2. /\ chunks[d] \in 0..MaxVersion
        /\ d \notin Unversioned /\ chunks[d] # 0 => chunks[d] \in past[d][q.version[d]]
    BY <1>1, <1>3, TextsHeld
  <2> QED BY <1>2, <2>1, <2>2, ReadHolds DEF Loading
<1>5. CASE chunks[d] = 0
  <2>1. Go(r, n) BY <1>5 DEF LoadStored
  <2>2. n \in Questions BY <1>1 DEF Questions, Steps
  <2>3. /\ n.step = "fetch" /\ n.todo = q.todo /\ n.denied = q.denied /\ n.used = q.used
        /\ n.said = q.said /\ n.hits = q.hits /\ n.thread = q.thread
        /\ n.version = q.version /\ n.text = q.text /\ n.cited = q.cited
    BY <1>1 DEF Questions
  <2> HIDE DEF n
  <2>4. QSound(n, sight[r])
    BY <1>1, <1>2, <2>3 DEF QSound, Ended, Resolving, Recovering
  <2>5. QHeld(n) BY <1>1, <2>3 DEF QHeld
  <2>6. Goes(r, n) BY <2>3 DEF Goes, Ended
  <2> QED BY <2>1, <2>2, <2>4, <2>5, <2>6 DEF Turns, Go
<1> QED BY <1>4, <1>5

LEMMA FetchTurns ==
  ASSUME Inv, NEW r \in Readers, NEW d \in Docs, Fetch(r, d)
  PROVE Turns(r)
<1> DEFINE q == ask[r]
<1>1. q \in Questions /\ QSound(q, sight[r]) /\ QHeld(q) BY QuestionOf
<1>2. /\ q.step = "fetch" /\ d \in q.todo /\ ecm[d].there
      /\ Go(r, [q EXCEPT !.step = "put", !.text[d] = ecm[d].version])
  BY DEF Fetch, First
<1>3. q.version[d] # 0 BY <1>1, <1>2 DEF QSound, Recovering
<1>4. /\ ecm[d].version \in 1..MaxVersion
      /\ d \notin Unversioned => ecm[d].version \in past[d][q.version[d]]
  BY <1>1, <1>2, <1>3, TextsHeld
<1>5. ecm[d].version \in 0..MaxVersion BY <1>4, RetrievalAssumption
<1> QED BY <1>2, <1>4, <1>5, ReadHolds DEF Loading

LEMMA UnfetchedTurns ==
  ASSUME Inv, NEW r \in Readers, NEW d \in Docs, Unfetched(r, d)
  PROVE Turns(r)
<1> DEFINE q == ask[r]
           m == Loaded(q, d, 0)
           n == [m EXCEPT !.lost = @ \cup {d}]
<1>1. q.step = "fetch" /\ d \in q.todo /\ Go(r, n) BY DEF Unfetched, First
<1>2. 0 \in 0..MaxVersion BY RetrievalAssumption
<1>3. m \in Questions /\ QSound(m, sight[r]) /\ QHeld(m) /\ Goes(r, m)
  BY <1>1, <1>2, LoadedHolds DEF Loading
<1> HIDE DEF m
<1>4. n \in Questions BY <1>3 DEF Questions
<1>5. /\ n.step = m.step /\ n.todo = m.todo /\ n.denied = m.denied /\ n.used = m.used
      /\ n.said = m.said /\ n.hits = m.hits /\ n.thread = m.thread
      /\ n.version = m.version /\ n.text = m.text /\ n.cited = m.cited
  BY <1>3 DEF Questions
<1> HIDE DEF n
<1>6. QSound(n, sight[r]) BY <1>3, <1>5 DEF QSound
<1>7. QHeld(n) BY <1>3, <1>5 DEF QHeld
<1>8. Goes(r, n) BY <1>3, <1>5 DEF Goes
<1> QED BY <1>1, <1>4, <1>6, <1>7, <1>8 DEF Turns, Go

LEMMA PutTurns ==
  ASSUME Inv, NEW r \in Readers, NEW d \in Docs, Put(r, d)
  PROVE Turns(r)
<1> DEFINE q == ask[r]
           n == Loaded(q, d, q.text[d])
<1>1. q \in Questions /\ QSound(q, sight[r]) /\ QHeld(q) BY QuestionOf
<1>2. q.step = "put" /\ d \in q.todo /\ Go(r, n) BY DEF Put, First
<1>3. q.version[d] # 0 BY <1>1, <1>2 DEF QSound, Recovering
<1>4. /\ q.text[d] \in 0..MaxVersion
      /\ d \notin Unversioned /\ q.text[d] # 0 => q.text[d] \in past[d][q.version[d]]
  BY <1>1, <1>3 DEF Questions, QHeld
<1>5. n \in Questions /\ QSound(n, sight[r]) /\ QHeld(n) /\ Goes(r, n)
  BY <1>2, <1>4, LoadedHolds DEF Loading
<1> HIDE DEF n
<1> QED BY <1>2, <1>5 DEF Turns, Go

-----------------------------------------------------------------------------
(* Citing                                                                  *)

\* What is cited was ranked, so recovered, so resolved: its reader may see it.
LEMMA CiteTurns ==
  ASSUME Inv, NEW r \in Readers, NEW by \in {"pgp", "local"}, NEW more \in SUBSET {"reranker"},
         Cite(r, by, more)
  PROVE Turns(r)
<1> DEFINE q == ask[r]
           place(S, ranked) == [d \in Docs |-> IF d \in S THEN ranked[d] ELSE 0]
           n(S, ranked, above) ==
             [q EXCEPT !.said = @ \cup more, !.by = by, !.ranked = place(S, ranked),
                       !.cited = Assembled(q.rank, ranked, above)]
<1>1. q \in Questions /\ QSound(q, sight[r]) /\ QHeld(q) BY QuestionOf
<1>2. q.step = "rank" BY DEF Cite
<1>3. PICK S \in Shortlisted(Pool(q)) : \E ranked \in Rankings(S) : \E above \in 0..Cardinality(S) :
        Go(r, Finished(n(S, ranked, above)))
  BY DEF Cite
<1>4. PICK ranked \in Rankings(S), above \in 0..Cardinality(S) : Go(r, Finished(n(S, ranked, above)))
  BY <1>3
<1> DEFINE cited == Assembled(q.rank, ranked, above)
           m == n(S, ranked, above)
<1>5. place(S, ranked) \in [Docs -> Nat] /\ cited \subseteq Pool(q) BY ShortlistType
<1>6. \A d \in Pool(q) : d \in Docs /\ d \in Found(q.hits, q.used) /\ d \in sight[r] \ q.denied
  BY <1>1, <1>2 DEF QSound, Pool
<1> HIDE DEF place, cited
<1>7. m \in Questions BY <1>1, <1>5, <1>6 DEF Questions, cited
<1>8. /\ m.thread = q.thread /\ m.hits = q.hits /\ m.used = q.used /\ m.denied = q.denied
      /\ m.said = q.said \cup more /\ m.cited = cited
  BY <1>1 DEF Questions, cited
<1>9. Go(r, Finished(m)) BY <1>4
<1> HIDE DEF m
<1>10. m.used \subseteq Channels \ m.said BY <1>1, <1>8 DEF QSound, Channels
<1>11. \A ch \in Channels : m.thread[ch] # "out" BY <1>1, <1>2, <1>8 DEF QSound
<1>12. m.cited \subseteq Found(m.hits, m.used) /\ m.cited \subseteq sight[r] \ ask[r].denied
  BY <1>5, <1>6, <1>8
<1> QED BY <1>7, <1>9, <1>10, <1>11, <1>12, FinishedTurns

LEMMA RefuseTurns ==
  ASSUME Inv, NEW r \in Readers, Refuse(r)
  PROVE Turns(r)
<1>1. ask[r] \in Questions /\ QSound(ask[r], sight[r]) BY QuestionOf
<1>2. ask[r].step = "rank" /\ Go(r, Finished(ask[r])) BY DEF Refuse
<1>3. ask[r].cited = {} /\ \A ch \in Channels : ask[r].thread[ch] # "out"
  BY <1>1, <1>2 DEF QSound
<1> QED BY <1>1, <1>2, <1>3, FinishedTurns DEF QSound

LEMMA RaisesTurns ==
  ASSUME Inv, NEW r \in Readers, Raises(r)
  PROVE Turns(r)
<1>1. Resting \in Questions /\ QSound(Resting, sight[r]) /\ QHeld(Resting)
  BY RestingHolds DEF Inv
<1>2. Ends(r, Resting) BY DEF Ends, Ended, Resting
<1> QED BY <1>1, <1>2 DEF Raises, Turns, Go

\* Whatever a question does after it was asked, its record turns.
Working(r) == IndexAnswers(r) \/ StoreAnswers(r) \/ Breaks(r, "pgp") \/ Breaks(r, "ecm") \/ Retrieve(r)

LEMMA WorkingTurns ==
  ASSUME Inv, NEW r \in Readers, Working(r)
  PROVE Turns(r)
<1>1. CASE IndexAnswers(r) \/ StoreAnswers(r) \/ Breaks(r, "pgp") \/ Breaks(r, "ecm")
  BY <1>1, IndexAnswersTurns, StoreAnswersTurns, BreaksTurns DEF Channels
<1>2. CASE Join(r) \/ Batch(r) \/ BatchFails(r) \/ Prime(r) \/ Fill(r) \/ Refuse(r) \/ Raises(r)
  BY <1>2, JoinTurns, BatchTurns, BatchFailsTurns, PrimeTurns, FillTurns, RefuseTurns, RaisesTurns
<1>3. CASE \E d \in Docs : Resolve(r, d) \/ Unresolved(r, d) \/ LoadCached(r, d) \/ LoadStored(r, d)
                           \/ Fetch(r, d) \/ Unfetched(r, d) \/ Put(r, d)
  BY <1>3, ResolveTurns, UnresolvedTurns, LoadCachedTurns, LoadStoredTurns, FetchTurns,
     UnfetchedTurns, PutTurns
<1>4. CASE IndexRanks(r) \/ Reranks(r) \/ RerankFails(r)
  BY <1>4, CiteTurns DEF IndexRanks, Reranks, RerankFails
<1> QED BY <1>1, <1>2, <1>3, <1>4 DEF Working, Retrieve

-----------------------------------------------------------------------------
(* The cache                                                               *)

\* What is written to the cache was held since the version in its key.
LEMMA CacheWritten ==
  ASSUME Inv, NEW r \in Readers, Working(r)
  PROVE /\ UNCHANGED <<world, history, edits>>
        /\ cache' \in [Docs -> [0..MaxVersion -> 0..MaxVersion]]
        /\ \A d \in Docs \ Unversioned : \A v \in Versions :
             cache'[d][v] # 0 => v <= ecm[d].version /\ cache'[d][v] \in past[d][v]
<1> DEFINE q == ask[r]
<1>1. q \in Questions /\ QSound(q, sight[r]) /\ QHeld(q) BY QuestionOf
<1>2. cache \in [Docs -> [0..MaxVersion -> 0..MaxVersion]] BY DEF Inv, TypeOK
<1>3. MaxVersion \in Nat BY RetrievalAssumption
<1>4. \A d \in Docs : Key(q, d) \in 0..MaxVersion BY <1>1, <1>3 DEF Key, Questions
<1>5. CASE Fill(r)
  <2>1. cache' = [d \in Docs |-> IF q.text[d] = 0 THEN cache[d]
                                 ELSE [cache[d] EXCEPT ![Key(q, d)] = q.text[d]]]
    BY <1>5 DEF Fill
  <2>2. UNCHANGED <<world, history, edits>> /\ q.step = "fill" BY <1>5 DEF Fill
  <2>3. \A d \in Docs : q.text[d] \in 0..MaxVersion BY <1>1 DEF Questions
  <2>4. cache' \in [Docs -> [0..MaxVersion -> 0..MaxVersion]] BY <1>2, <1>4, <2>1, <2>3
  <2>5. ASSUME NEW d \in Docs \ Unversioned, NEW v \in Versions, cache'[d][v] # 0
        PROVE v <= ecm[d].version /\ cache'[d][v] \in past[d][v]
    <3>1. CASE q.text[d] = 0 BY <1>2, <2>1, <2>5, <3>1 DEF Inv, CacheHeld
    <3>2. CASE q.text[d] # 0
      <4>1. Key(q, d) = q.version[d] /\ q.version[d] # 0
        BY <1>1, <2>2, <3>2 DEF Key, QSound
      <4>2. cache'[d][v] = IF v = q.version[d] THEN q.text[d] ELSE cache[d][v]
        BY <1>2, <1>3, <2>1, <3>2, <4>1 DEF Versions
      <4> QED BY <1>1, <2>5, <3>2, <4>1, <4>2 DEF Inv, CacheHeld, QHeld
    <3> QED BY <3>1, <3>2
  <2> QED BY <2>2, <2>4, <2>5
<1>6. ASSUME NEW d \in Docs, Put(r, d)
      PROVE /\ UNCHANGED <<world, history, edits>>
            /\ cache' \in [Docs -> [0..MaxVersion -> 0..MaxVersion]]
            /\ \A e \in Docs \ Unversioned : \A v \in Versions :
                 cache'[e][v] # 0 => v <= ecm[e].version /\ cache'[e][v] \in past[e][v]
  <2>1. cache' = [cache EXCEPT ![d] = [cache[d] EXCEPT ![Key(q, d)] = q.text[d]]]
    BY <1>6 DEF Put
  <2>2. UNCHANGED <<world, history, edits>> /\ q.step = "put" /\ d \in q.todo
    BY <1>6 DEF Put, First
  <2>3. q.text[d] \in 0..MaxVersion BY <1>1 DEF Questions
  <2>4. cache' \in [Docs -> [0..MaxVersion -> 0..MaxVersion]] BY <1>2, <1>4, <2>1, <2>3
  <2>5. ASSUME NEW e \in Docs \ Unversioned, NEW v \in Versions, cache'[e][v] # 0
        PROVE v <= ecm[e].version /\ cache'[e][v] \in past[e][v]
    <3>1. CASE e # d BY <1>2, <2>1, <2>5, <3>1 DEF Inv, CacheHeld
    <3>2. CASE e = d
      <4>1. Key(q, d) = q.version[d] /\ q.version[d] # 0
        BY <1>1, <2>2, <3>2 DEF Key, QSound, Recovering
      <4>2. cache[d] \in [0..MaxVersion -> 0..MaxVersion] /\ v \in 0..MaxVersion
        <5>1. cache[d] \in [0..MaxVersion -> 0..MaxVersion] BY <1>2
        <5>2. v \in 0..MaxVersion BY <1>3 DEF Versions
        <5> QED BY <5>1, <5>2
      <4>3. cache'[d] = [cache[d] EXCEPT ![q.version[d]] = q.text[d]] BY <1>2, <2>1, <4>1
      <4>4. cache'[d][v] = IF v = q.version[d] THEN q.text[d] ELSE cache[d][v] BY <4>2, <4>3
      <4> QED BY <1>1, <2>5, <3>2, <4>1, <4>4 DEF Inv, CacheHeld, QHeld
    <3> QED BY <3>1, <3>2
  <2> QED BY <2>2, <2>4, <2>5
<1>7. CASE UNCHANGED <<world, cache, history, edits>>
  BY <1>2, <1>7 DEF Inv, CacheHeld
<1>8. Fill(r) \/ (\E d \in Docs : Put(r, d)) \/ UNCHANGED <<world, cache, history, edits>>
  BY DEF Working, Retrieve, IndexAnswers, StoreAnswers, Breaks, Join, Batch, BatchFails, Prime,
         Resolve, Unresolved, LoadCached, LoadStored, Fetch, Unfetched, Refuse, IndexRanks,
         Reranks, RerankFails, Cite, Raises, Alone
<1> QED BY <1>5, <1>6, <1>7, <1>8

-----------------------------------------------------------------------------
(* The invariant                                                           *)

\* It holds at the start.
LEMMA InvInit == Init => Inv
<1> SUFFICES ASSUME Init PROVE Inv OBVIOUS
<1>1. MaxVersion \in Nat \ {0} /\ MaxEdits \in Nat BY RetrievalAssumption
<1>2. \A r \in Readers : ask[r] = Resting BY DEF Init
<1>3. TypeOK
  <2>1. ecm \in [Docs -> [version : Versions, readers : SUBSET Readers, fit : BOOLEAN, there : BOOLEAN]]
    BY <1>1 DEF Init, Versions
  <2>2. Resting \in Questions
    BY RetrievalAssumption DEF Resting, Questions, Nowhere, Channels, Steps
  <2>3. ask \in [Readers -> Questions] BY <2>2 DEF Init
  <2>4. chunks \in [Docs -> 0..MaxVersion] BY <1>1 DEF Init
  <2>5. rules \in [active : BOOLEAN, denied : SUBSET Docs] BY DEF Init
  <2>6. cache \in [Docs -> [0..MaxVersion -> 0..MaxVersion]] BY <1>1 DEF Init
  <2>7. past \in [Docs -> [Versions -> SUBSET Versions]] BY <1>1 DEF Init, Versions
  <2>8. sight \in [Readers -> SUBSET Docs] /\ calm \in [Readers -> BOOLEAN] /\ edits \in Nat
    BY <1>1 DEF Init
  <2> QED BY <2>1, <2>3, <2>4, <2>5, <2>6, <2>7, <2>8 DEF TypeOK
<1>4. SightHeld BY <1>2 DEF SightHeld, Asking, Resting
<1>5. \A r \in Readers : QSound(ask[r], sight[r]) /\ QHeld(ask[r])
  BY <1>2, <1>3, RestingHolds
<1>6. CacheHeld BY <1>1 DEF Init, CacheHeld, Versions
<1>7. PastHeld
  <2>1. ASSUME NEW d \in Docs, NEW v \in Versions, v <= ecm[d].version
        PROVE Texts(d) \subseteq past[d][v]
    <3>1. v = 1 /\ past[d][v] = {1} BY <1>1, <2>1 DEF Init, Versions
    <3>2. Texts(d) \subseteq {1} BY <2>1 DEF Init, Texts
    <3> QED BY <3>1, <3>2
  <2> QED BY <2>1 DEF PastHeld
<1> QED BY <1>3, <1>4, <1>5, <1>6, <1>7 DEF Inv

\* What a question does after it was asked keeps it.
LEMMA WorkingInv ==
  ASSUME Inv, NEW r \in Readers, Working(r)
  PROVE Inv'
<1>1. PICK q \in Questions :
        /\ ask' = [ask EXCEPT ![r] = q]
        /\ QSound(q, sight[r]) /\ QHeld(q)
        /\ Goes(r, q) \/ Ends(r, q)
  BY WorkingTurns DEF Turns
<1>2. /\ UNCHANGED <<world, history, edits>>
      /\ cache' \in [Docs -> [0..MaxVersion -> 0..MaxVersion]]
      /\ \A d \in Docs \ Unversioned : \A v \in Versions :
           cache'[d][v] # 0 => v <= ecm[d].version /\ cache'[d][v] \in past[d][v]
  BY CacheWritten
<1>3. /\ ecm' = ecm /\ chunks' = chunks /\ rules' = rules /\ sight' = sight
      /\ past' = past /\ calm' = calm /\ edits' = edits
  BY <1>2 DEF world, history
<1>4. ask \in [Readers -> Questions] BY DEF Inv, TypeOK
<1>5. TypeOK' BY <1>1, <1>2, <1>3, <1>4 DEF Inv, TypeOK
<1>6. \A s \in Readers : ask'[s] = IF s = r THEN q ELSE ask[s] BY <1>1, <1>4
<1>7. \A s \in Readers : QSound(ask'[s], sight'[s]) /\ QHeld(ask'[s])
  BY <1>1, <1>3, <1>6 DEF Inv
<1>8. (\A s \in Readers : QHeld(ask[s]))'
  BY <1>3, <1>7 DEF QHeld
<1>9. SightHeld'
  <2>1. Asking(r)
    BY QuestionOf DEF Working, Retrieve, IndexAnswers, StoreAnswers, Breaks, Join, Joined, Batch,
         BatchFails, Prime, Fill, Resolve, Unresolved, LoadCached, LoadStored, Fetch, Unfetched,
         Put, Refuse, IndexRanks, Reranks, RerankFails, Cite, Raises, Asking, QSound, Channels
  <2>2. \A s \in Readers : Asking(s)' => Asking(s) BY <1>6, <2>1 DEF Asking
  <2>3. \A s \in Readers : Open(s)' = Open(s) BY <1>3 DEF Open
  <2> QED BY <1>3, <2>2, <2>3 DEF Inv, SightHeld
<1>10. CacheHeld' BY <1>2, <1>3 DEF CacheHeld
<1>11. PastHeld' BY <1>3 DEF Inv, PastHeld, Texts
<1>12. (\A s \in Readers : QSound(ask[s], sight[s]))' BY <1>7
<1> QED BY <1>5, <1>8, <1>9, <1>10, <1>11, <1>12 DEF Inv

\* So does asking.
LEMMA AskInv ==
  ASSUME Inv, NEW r \in Readers, Ask(r)
  PROVE Inv'
<1> DEFINE q == IF rules.active
                THEN [Resting EXCEPT !.step = "search", !.denied = rules.denied,
                                     !.thread = [ch \in Channels |-> "out"]]
                ELSE Finished(Resting)
<1>1. TypeOK BY DEF Inv
<1>2. /\ ecm' = ecm /\ chunks' = chunks /\ rules' = rules /\ cache' = cache
      /\ past' = past /\ edits' = edits
      /\ ask' = [ask EXCEPT ![r] = q]
      /\ sight' = [sight EXCEPT ![r] = IF rules.active THEN Open(r) ELSE {}]
      /\ calm' = [calm EXCEPT ![r] = TRUE]
  BY DEF Ask, Go, world
<1>3. q \in Questions /\ \A seen : QSound(q, seen) /\ QHeld(q)
  <2>1. CASE rules.active
    <3>1. Resting \in Questions BY <1>1, RestingHolds
    <3>2. rules.denied \subseteq Docs BY <1>1 DEF TypeOK
    <3>3. q \in Questions BY <2>1, <3>1, <3>2 DEF Questions, Steps
    <3>4. /\ q.step = "search" /\ q.used = {} /\ q.todo = {} /\ q.cited = {}
          /\ q.version = Nowhere /\ q.text = Nowhere
      BY <2>1 DEF Resting
    <3> HIDE DEF q
    <3>5. \A d \in Docs : Nowhere[d] = 0 BY DEF Nowhere
    <3>6. \A seen : QSound(q, seen)
      BY <3>4, <3>5 DEF QSound, Ended, Resolving, Recovering
    <3>7. \A d \in Docs : ecm[d].version \in Nat BY <1>1, RetrievalAssumption DEF TypeOK, Versions
    <3>8. QHeld(q) BY <3>4, <3>5, <3>7 DEF QHeld
    <3> QED BY <3>3, <3>6, <3>8
  <2>2. CASE ~rules.active
    <3>1. Resting \in Questions BY <1>1, RestingHolds
    <3>2. /\ \A ch \in Channels : Resting.thread[ch] # "out"
          /\ Resting.used \subseteq Channels \ Resting.said
          /\ Resting.cited \subseteq Found(Resting.hits, Resting.used)
      BY DEF Resting
    <3>3. \A seen : QSound(Finished(Resting), seen) /\ QHeld(Finished(Resting))
      BY <1>1, <3>1, <3>2, FinishedHolds
    <3>4. Finished(Resting) \in Questions BY <1>1, <3>1, <3>2, FinishedHolds
    <3> QED BY <2>2, <3>3, <3>4
  <2> QED BY <2>1, <2>2
<1> HIDE DEF q
<1>4. Open(r) \subseteq Docs BY DEF Open
<1>5. TypeOK' BY <1>1, <1>2, <1>3, <1>4 DEF TypeOK
<1>6. \A s \in Readers : /\ ask'[s] = IF s = r THEN q ELSE ask[s]
                         /\ s # r => sight'[s] = sight[s]
  BY <1>1, <1>2 DEF TypeOK
<1>7. \A s \in Readers : QSound(ask'[s], sight'[s]) /\ QHeld(ask'[s])
  BY <1>3, <1>6 DEF Inv
<1>8. (\A s \in Readers : QSound(ask[s], sight[s]))' BY <1>7
<1>9. (\A s \in Readers : QHeld(ask[s]))' BY <1>2, <1>7 DEF QHeld
<1>10. SightHeld'
  <2>1. ASSUME NEW s \in Readers, Asking(s)' PROVE Open(s)' \subseteq sight'[s]
    <3>1. Open(s)' = Open(s) BY <1>2 DEF Open
    <3>2. CASE s # r BY <1>6, <2>1, <3>1, <3>2 DEF Inv, SightHeld, Asking
    <3>3. CASE s = r
      <4>1. rules.active BY <1>6, <2>1, <3>3 DEF q, Asking, Finished, Resting
      <4> QED BY <1>1, <1>2, <3>1, <3>3, <4>1 DEF TypeOK
    <3> QED BY <3>2, <3>3
  <2> QED BY <2>1 DEF SightHeld
<1>11. CacheHeld' BY <1>2 DEF Inv, CacheHeld
<1>12. PastHeld' BY <1>2 DEF Inv, PastHeld, Texts
<1> QED BY <1>5, <1>8, <1>9, <1>10, <1>11, <1>12 DEF Inv

\* What happens meanwhile keeps it, whatever it is that happens.
LEMMA HappensInv ==
  ASSUME Inv, Happens,
         ecm' \in [Docs -> [version : Versions, readers : SUBSET Readers, fit : BOOLEAN, there : BOOLEAN]],
         chunks' \in [Docs -> 0..MaxVersion],
         rules' \in [active : BOOLEAN, denied : SUBSET Docs],
         \A d \in Docs : ecm[d].version <= ecm'[d].version
  PROVE Inv'
<1>1. TypeOK BY DEF Inv
<1>2. /\ cache' = cache /\ ask' = ask /\ calm' = [r \in Readers |-> FALSE] /\ edits' = edits - 1 /\ edits > 0
      /\ sight' = [r \in Readers |-> IF Asking(r) THEN sight[r] \cup Open(r)' ELSE {}]
      /\ past' = [d \in Docs |-> [v \in Versions |->
           IF v <= ecm'[d].version THEN past[d][v] \cup Texts(d)' ELSE {}]]
  BY DEF Happens
<1>3. MaxVersion \in Nat BY RetrievalAssumption
<1>4. \A d \in Docs : Texts(d)' \subseteq Versions
  BY <1>3 DEF Texts, Versions
<1>5. \A r \in Readers : Open(r)' \subseteq Docs BY DEF Open
<1>6. TypeOK'
  <2>1. sight' \in [Readers -> SUBSET Docs] BY <1>1, <1>2, <1>5 DEF TypeOK
  <2>2. past' \in [Docs -> [Versions -> SUBSET Versions]] BY <1>1, <1>2, <1>4 DEF TypeOK
  <2>3. calm' \in [Readers -> BOOLEAN] /\ edits' \in Nat BY <1>1, <1>2 DEF TypeOK
  <2> QED BY <1>1, <1>2, <2>1, <2>2, <2>3 DEF TypeOK
<1>7. SightHeld'
  <2>1. \A r \in Readers : Asking(r)' = Asking(r) BY <1>2 DEF Asking
  <2>2. \A r \in Readers : Asking(r)' => Open(r)' \subseteq sight'[r] BY <1>2, <2>1
  <2> QED BY <2>2 DEF SightHeld
<1>8. \A r \in Readers : QSound(ask[r], sight'[r])
  <2> SUFFICES ASSUME NEW r \in Readers PROVE QSound(ask[r], sight'[r]) OBVIOUS
  <2>1. QSound(ask[r], sight[r]) BY DEF Inv
  <2>2. CASE Asking(r)
    <3>1. sight[r] \subseteq sight'[r] BY <1>2, <2>2
    <3> QED BY <2>1, <3>1 DEF QSound
  <2>3. CASE ~Asking(r)
    <3>1. \A d \in Docs : ask[r].version[d] = 0 BY <2>1, <2>3 DEF QSound, Asking, Ended
    <3> QED BY <2>1, <3>1 DEF QSound
  <2> QED BY <2>2, <2>3
<1>9. (\A r \in Readers : QSound(ask[r], sight[r]))' BY <1>2, <1>8
<1>0. Versions \subseteq Nat /\ \A d \in Docs : ecm[d].version \in Nat /\ ecm'[d].version \in Nat
  <2>1. Versions \subseteq Nat BY <1>3 DEF Versions
  <2>2. \A d \in Docs : ecm[d].version \in Versions BY <1>1 DEF TypeOK
  <2>3. \A d \in Docs : ecm'[d].version \in Versions OBVIOUS
  <2> QED BY <2>1, <2>2, <2>3
<1>10. \A d \in Docs : \A v \in Versions :
         v <= ecm[d].version => past[d][v] \subseteq past'[d][v] /\ v <= ecm'[d].version
  <2>1. ASSUME NEW d \in Docs, NEW v \in Versions, v <= ecm[d].version
        PROVE past[d][v] \subseteq past'[d][v] /\ v <= ecm'[d].version
    <3>1. v \in Nat /\ ecm[d].version \in Nat /\ ecm'[d].version \in Nat
      BY <1>0
    <3>2. v <= ecm'[d].version BY <2>1, <3>1
    <3> QED BY <1>2, <3>2
  <2> QED BY <2>1
<1>11. (\A r \in Readers : QHeld(ask[r]))'
  <2>1. ASSUME NEW r \in Readers, NEW d \in Docs \ Unversioned
        PROVE /\ ask[r].version[d] <= ecm'[d].version
              /\ ask[r].version[d] # 0 /\ ask[r].text[d] # 0
                   => ask[r].text[d] \in past'[d][ask[r].version[d]]
    <3>1. /\ ask[r].version[d] <= ecm[d].version
          /\ ask[r].version[d] # 0 /\ ask[r].text[d] # 0
               => ask[r].text[d] \in past[d][ask[r].version[d]]
      BY DEF Inv, QHeld
    <3>2. ask[r].version[d] \in 0..MaxVersion BY <1>1 DEF TypeOK, Questions
    <3>3. ecm[d].version \in Nat /\ ecm'[d].version \in Nat
      BY <1>0
    <3>4. ask[r].version[d] # 0 => ask[r].version[d] \in Versions BY <1>3, <3>2 DEF Versions
    <3> QED BY <1>3, <1>10, <3>1, <3>2, <3>3, <3>4
  <2> QED BY <1>2, <2>1 DEF QHeld
<1>12. CacheHeld' BY <1>2, <1>10 DEF Inv, CacheHeld
<1>13. PastHeld' BY <1>2 DEF PastHeld
<1> QED BY <1>6, <1>7, <1>9, <1>11, <1>12, <1>13 DEF Inv

LEMMA WorldInv ==
  ASSUME Inv, World
  PROVE Inv' /\ Happens /\ rules' \in [active : BOOLEAN, denied : SUBSET Docs]
<1> DEFINE Documents == [Docs -> [version : Versions, readers : SUBSET Readers, fit : BOOLEAN, there : BOOLEAN]]
           Later == \A d \in Docs : ecm[d].version <= ecm'[d].version
<1>1. /\ ecm \in Documents /\ chunks \in [Docs -> 0..MaxVersion]
      /\ rules \in [active : BOOLEAN, denied : SUBSET Docs]
  BY DEF Inv, TypeOK
<1>2. MaxVersion \in Nat BY RetrievalAssumption
<1>3. \A d \in Docs : ecm[d].version \in Nat BY <1>1, <1>2 DEF Versions
<1>4. CASE \E d \in Docs : Edit(d)
  <2>1. PICK d \in Docs : Edit(d) BY <1>4
  <2>2. /\ ecm' = [ecm EXCEPT ![d].version = ecm[d].version + 1] /\ ecm[d].version < MaxVersion
        /\ chunks' = chunks /\ rules' = rules /\ Happens
    BY <2>1 DEF Edit
  <2>3. ecm[d].version + 1 \in Versions BY <1>2, <1>3, <2>2 DEF Versions
  <2>4. ecm' \in Documents BY <1>1, <2>2, <2>3
  <2>5. Later BY <1>1, <1>3, <2>2
  <2> QED BY <1>1, <2>2, <2>4, <2>5, HappensInv
<1>5. CASE \E d \in Docs, r \in Readers : Regrant(d, r)
  <2>1. PICK d \in Docs, r \in Readers : Regrant(d, r) BY <1>5
  <2> DEFINE granted == IF r \in ecm[d].readers THEN ecm[d].readers \ {r} ELSE ecm[d].readers \cup {r}
  <2>2. /\ ecm' = [ecm EXCEPT ![d].readers = granted]
        /\ chunks' = chunks /\ rules' = rules /\ Happens
    BY <2>1 DEF Regrant
  <2>3. granted \subseteq Readers BY <1>1
  <2> HIDE DEF granted
  <2>4. ecm' \in Documents BY <1>1, <2>2, <2>3
  <2>5. Later BY <1>1, <1>3, <2>2
  <2> QED BY <1>1, <2>2, <2>4, <2>5, HappensInv
<1>6. CASE \E d \in Docs : Refit(d)
  <2>1. PICK d \in Docs : Refit(d) BY <1>6
  <2>2. /\ ecm' = [ecm EXCEPT ![d].fit = ~ecm[d].fit]
        /\ chunks' = chunks /\ rules' = rules /\ Happens
    BY <2>1 DEF Refit
  <2>3. ecm' \in Documents BY <1>1, <2>2
  <2>4. Later BY <1>1, <1>3, <2>2
  <2> QED BY <1>1, <2>2, <2>3, <2>4, HappensInv
<1>7. CASE \E d \in Docs : Remove(d)
  <2>1. PICK d \in Docs : Remove(d) BY <1>7
  <2>2. /\ ecm' = [ecm EXCEPT ![d].there = ~ecm[d].there]
        /\ chunks' = chunks /\ rules' = rules /\ Happens
    BY <2>1 DEF Remove
  <2>3. ecm' \in Documents BY <1>1, <2>2
  <2>4. Later BY <1>1, <1>3, <2>2
  <2> QED BY <1>1, <2>2, <2>3, <2>4, HappensInv
<1>8. CASE \E d \in Docs : Index(d)
  <2>1. PICK d \in Docs : Index(d) BY <1>8
  <2>2. PICK v \in 0..ecm[d].version : chunks' = [chunks EXCEPT ![d] = v]
    BY <2>1 DEF Index
  <2>3. ecm' = ecm /\ rules' = rules /\ Happens BY <2>1 DEF Index
  <2>4. ecm[d].version <= MaxVersion BY <1>1, <1>2 DEF Versions
  <2>5. v \in 0..MaxVersion BY <1>2, <1>3, <2>4
  <2>6. chunks' \in [Docs -> 0..MaxVersion] BY <1>1, <2>2, <2>5
  <2>7. Later BY <1>3, <2>3
  <2> QED BY <1>1, <2>3, <2>6, <2>7, HappensInv
<1>9. CASE (\E d \in Docs : Rule(d)) \/ Pause
  <2>1. ecm' = ecm /\ chunks' = chunks /\ Happens BY <1>9 DEF Rule, Pause
  <2>2. rules' \in [active : BOOLEAN, denied : SUBSET Docs]
    <3>1. CASE Pause BY <1>1, <3>1 DEF Pause
    <3>2. CASE \E d \in Docs : Rule(d)
      <4>1. PICK d \in Docs : Rule(d) BY <3>2
      <4> DEFINE denied == IF d \in rules.denied THEN rules.denied \ {d} ELSE rules.denied \cup {d}
      <4>2. denied \subseteq Docs BY <1>1
      <4>3. rules' = [rules EXCEPT !.denied = denied] BY <4>1 DEF Rule
      <4> HIDE DEF denied
      <4> QED BY <1>1, <4>2, <4>3
    <3> QED BY <1>9, <3>1, <3>2
  <2>3. Later BY <1>3, <2>1
  <2> QED BY <1>1, <2>1, <2>2, <2>3, HappensInv
<1> QED BY <1>4, <1>5, <1>6, <1>7, <1>8, <1>9 DEF World

LEMMA InvNext == Inv /\ [Next]_vars => Inv'
<1> SUFFICES ASSUME Inv, [Next]_vars PROVE Inv' OBVIOUS
<1>1. CASE World BY <1>1, WorldInv
<1>2. CASE \E r \in Readers : Ask(r) BY <1>2, AskInv
<1>3. CASE \E r \in Readers : Working(r) BY <1>3, WorkingInv
<1>4. CASE UNCHANGED vars
  BY <1>4 DEF vars, world, history, Inv, TypeOK, SightHeld, Asking, Open, CacheHeld, PastHeld,
              Texts, QHeld
<1> QED BY <1>1, <1>2, <1>3, <1>4 DEF Next, Working

-----------------------------------------------------------------------------
(* The theorems                                                            *)

\* The invariant holds of every behaviour.
THEOREM Invariance == Spec => []Inv
BY InvInit, InvNext, PTL DEF Spec

\* Every variable has its type.
THEOREM TypeCorrect == Spec => []TypeOK
BY Invariance, PTL DEF Inv

\* Every passage that a question holds is of a text the index or the store had
\* since the version that the question resolved, through the shared cache and
\* all the interleavings of its readers and writers.
THEOREM PassagesHeld == Spec => []PassagesWereHeld
<1>1. Inv => PassagesWereHeld
  BY DEF Inv, PassagesWereHeld, QHeld, QSound, Asking
<1> QED BY <1>1, Invariance, PTL

\* Every citation was found by a channel the reader is not told was unavailable.
THEOREM LateStaysOut == Spec => []LateAnswersStayOut
<1>1. Inv => LateAnswersStayOut
  BY DEF Inv, LateAnswersStayOut, QSound, Found
<1> QED BY <1>1, Invariance, PTL

-----------------------------------------------------------------------------
(* Retrieval implements Evidence                                           *)

\* The first state is a first state of Evidence.
LEMMA EvidenceInit == Init => E!Init
<1> SUFFICES ASSUME Init PROVE E!Init OBVIOUS
<1>1. \A r \in Readers : ask[r] = Resting BY DEF Init
<1>2. \A r \in Readers : Open(r) \subseteq Docs BY DEF Open
<1>3. \A r \in Readers : ~Asking(r) /\ ask[r].denied = {} /\ ask[r].cited = {}
  BY <1>1 DEF Asking, Resting
<1>4. rules.denied \subseteq Docs BY DEF Init
<1>5. [r \in Readers |-> Open(r)] \in [Readers -> SUBSET Docs] BY <1>2
<1>6. [r \in Readers |-> Asking(r)] = [r \in Readers |-> FALSE] BY <1>3 DEF Asking
<1>7. [r \in Readers |-> IF Asking(r) THEN sight[r] \ ask[r].denied ELSE {}]
        = [r \in Readers |-> {}]
  BY <1>3
<1>8. /\ [r \in Readers |-> ask[r].denied] = [r \in Readers |-> {}]
      /\ [r \in Readers |-> ask[r].cited] = [r \in Readers |-> {}]
  BY <1>3
<1> QED BY <1>4, <1>5, <1>6, <1>7, <1>8 DEF E!Init

\* A question that works on does nothing a reader sees, and one that ends answers.
LEMMA WorkingAnswers ==
  ASSUME Inv, NEW r \in Readers, Working(r)
  PROVE E!Answer(r) \/ UNCHANGED E!vars
<1>1. PICK q \in Questions :
        /\ ask' = [ask EXCEPT ![r] = q]
        /\ Goes(r, q) \/ Ends(r, q)
  BY WorkingTurns DEF Turns
<1>2. ecm' = ecm /\ rules' = rules /\ sight' = sight
  BY CacheWritten DEF world, history
<1>3. ask \in [Readers -> Questions] BY DEF Inv, TypeOK
<1>4. \A s \in Readers : ask'[s] = IF s = r THEN q ELSE ask[s] BY <1>1, <1>3
<1>5. \A s \in Readers : Open(s)' = Open(s) BY <1>2 DEF Open
<1>6. Asking(r)
  BY QuestionOf DEF Working, Retrieve, IndexAnswers, StoreAnswers, Breaks, Join, Joined, Batch,
       BatchFails, Prime, Fill, Resolve, Unresolved, LoadCached, LoadStored, Fetch, Unfetched,
       Put, Refuse, IndexRanks, Reranks, RerankFails, Cite, Raises, Asking, QSound, Channels
<1>7. \A s \in Readers : s # r => Asking(s)' = Asking(s) BY <1>4 DEF Asking
<1>8. CASE Goes(r, q)
  <2>1. Asking(r)' BY <1>4, <1>8 DEF Goes, Asking, Ended
  <2>2. \A s \in Readers : /\ Asking(s)' = Asking(s)
                           /\ ask'[s].denied = ask[s].denied /\ ask'[s].cited = ask[s].cited
    BY <1>4, <1>6, <1>7, <1>8, <2>1 DEF Goes, Asking
  <2>3. UNCHANGED E!vars BY <1>2, <1>5, <2>2 DEF E!vars
  <2> QED BY <2>3
<1>9. CASE Ends(r, q)
  <2>1. ~Asking(r)' BY <1>4, <1>9 DEF Ends, Asking, Ended
  <2>2. ask'[r].denied = {} /\ ask'[r].cited \subseteq sight[r] \ ask[r].denied
    BY <1>4, <1>9 DEF Ends
  <2>3. \A s \in Readers : s # r => ask'[s] = ask[s] BY <1>4
  <2> DEFINE asking == [s \in Readers |-> Asking(s)]
             sees == [s \in Readers |-> IF Asking(s) THEN sight[s] \ ask[s].denied ELSE {}]
             keeps == [s \in Readers |-> ask[s].denied]
             cites == [s \in Readers |-> ask[s].cited]
  <2>4. [s \in Readers |-> Asking(s)]' = [asking EXCEPT ![r] = FALSE]
    BY <1>7, <2>1 DEF Asking
  <2>5. [s \in Readers |-> IF Asking(s) THEN sight[s] \ ask[s].denied ELSE {}]' = [sees EXCEPT ![r] = {}]
    BY <1>2, <1>7, <2>1, <2>3
  <2>6. [s \in Readers |-> ask[s].denied]' = [keeps EXCEPT ![r] = {}] BY <2>2, <2>3
  <2>7. [s \in Readers |-> ask[s].cited]' = [cites EXCEPT ![r] = ask'[r].cited] BY <2>3
  <2>8. asking[r] /\ ask'[r].cited \in SUBSET sees[r] BY <1>6, <2>2
  <2>9. [s \in Readers |-> Open(s)]' = [s \in Readers |-> Open(s)] BY <1>5
  <2>10. E!Answer(r) BY <1>2, <2>4, <2>5, <2>6, <2>7, <2>8, <2>9 DEF E!Answer
  <2> QED BY <2>10
<1> QED BY <1>1, <1>8, <1>9

\* A question asked is taken up, or turned away when the connector is paused.
LEMMA AskAnswers ==
  ASSUME Inv, NEW r \in Readers, Ask(r)
  PROVE E!Ask(r) \/ E!TurnAway(r)
<1> DEFINE q == IF rules.active
                THEN [Resting EXCEPT !.step = "search", !.denied = rules.denied,
                                     !.thread = [ch \in Channels |-> "out"]]
                ELSE Finished(Resting)
           asking == [s \in Readers |-> Asking(s)]
           sees == [s \in Readers |-> IF Asking(s) THEN sight[s] \ ask[s].denied ELSE {}]
           keeps == [s \in Readers |-> ask[s].denied]
           cites == [s \in Readers |-> ask[s].cited]
<1>1. /\ ecm' = ecm /\ rules' = rules /\ ~Asking(r)
      /\ ask' = [ask EXCEPT ![r] = q]
      /\ sight' = [sight EXCEPT ![r] = IF rules.active THEN Open(r) ELSE {}]
  BY DEF Ask, Go, world
<1>2. ask \in [Readers -> Questions] /\ sight \in [Readers -> SUBSET Docs] BY DEF Inv, TypeOK
<1>3. ask[r].denied = {} BY <1>1, QuestionOf DEF QSound, Asking, Ended
<1>4. /\ q.cited = {}
      /\ rules.active => q.step = "search" /\ q.denied = rules.denied
      /\ ~rules.active => q.step = "done" /\ q.denied = {}
  BY DEF Resting, Finished
<1> HIDE DEF q
<1>5. ask'[r] = q /\ \A s \in Readers : s # r => ask'[s] = ask[s] /\ sight'[s] = sight[s]
  BY <1>1, <1>2
<1>6. \A s \in Readers : s # r => Asking(s)' = Asking(s) BY <1>5 DEF Asking
<1>7. [s \in Readers |-> Open(s)]' = [s \in Readers |-> Open(s)] BY <1>1 DEF Open
<1>8. [s \in Readers |-> ask[s].cited]' = [cites EXCEPT ![r] = {}] BY <1>4, <1>5
<1>9. CASE rules.active
  <2>1. Asking(r)' BY <1>4, <1>5, <1>9 DEF Asking
  <2>2. [s \in Readers |-> Asking(s)]' = [asking EXCEPT ![r] = TRUE] BY <1>6, <2>1 DEF Asking
  <2>3. [s \in Readers |-> ask[s].denied]' = [keeps EXCEPT ![r] = rules.denied]
    BY <1>4, <1>5, <1>9
  <2>4. sight'[r] = Open(r) BY <1>1, <1>2, <1>9
  <2>5. [s \in Readers |-> IF Asking(s) THEN sight[s] \ ask[s].denied ELSE {}]'
          = [sees EXCEPT ![r] = Open(r) \ rules.denied]
    BY <1>4, <1>5, <1>6, <1>9, <2>1, <2>4
  <2>6. [s \in Readers |-> Open(s)][r] = Open(r) OBVIOUS
  <2>7. ~asking[r] BY <1>1
  <2>8. E!Ask(r) BY <1>1, <1>7, <1>8, <2>2, <2>3, <2>5, <2>6, <2>7 DEF E!Ask
  <2> QED BY <2>8
<1>10. CASE ~rules.active
  <2>1. ~Asking(r)' BY <1>4, <1>5, <1>10 DEF Asking
  <2>2. [s \in Readers |-> Asking(s)]' = asking BY <1>1, <1>6, <2>1 DEF Asking
  <2>3. [s \in Readers |-> ask[s].denied]' = keeps BY <1>3, <1>4, <1>5, <1>10
  <2>4. [s \in Readers |-> IF Asking(s) THEN sight[s] \ ask[s].denied ELSE {}]' = sees
    BY <1>1, <1>5, <1>6, <2>1
  <2>5. ~asking[r] BY <1>1
  <2>6. E!TurnAway(r) BY <1>1, <1>7, <1>8, <2>2, <2>3, <2>4, <2>5 DEF E!TurnAway
  <2> QED BY <2>6
<1> QED BY <1>9, <1>10

\* Whatever happens meanwhile only adds to what a question may be shown.
LEMMA WorldChanges ==
  ASSUME Inv, World
  PROVE E!Change
<1>1. /\ ask' = ask /\ rules'.denied \subseteq Docs
      /\ sight' = [s \in Readers |-> IF Asking(s) THEN sight[s] \cup Open(s)' ELSE {}]
  BY WorldInv DEF Happens
<1> DEFINE asking == [s \in Readers |-> Asking(s)]
           sees == [s \in Readers |-> IF Asking(s) THEN sight[s] \ ask[s].denied ELSE {}]
           keeps == [s \in Readers |-> ask[s].denied]
           opens == [s \in Readers |-> Open(s)']
<1>2. [s \in Readers |-> Open(s)]' = opens /\ opens \in [Readers -> SUBSET Docs] BY DEF Open
<1>3. \A s \in Readers : Asking(s)' = Asking(s) BY <1>1 DEF Asking
<1>4. [s \in Readers |-> Asking(s)]' = asking BY <1>3
<1>5. /\ [s \in Readers |-> ask[s].denied]' = keeps
      /\ [s \in Readers |-> ask[s].cited]' = [s \in Readers |-> ask[s].cited]
  BY <1>1
<1>6. \A s \in Readers : Asking(s) => sight'[s] = sight[s] \cup Open(s)' BY <1>1
<1>7. [s \in Readers |-> IF Asking(s) THEN sight[s] \ ask[s].denied ELSE {}]'
        = [s \in Readers |-> IF asking[s] THEN sees[s] \cup (opens[s] \ keeps[s]) ELSE {}]
  <2>1. \A s \in Readers :
          (IF Asking(s)' THEN sight'[s] \ ask'[s].denied ELSE {})
            = IF asking[s] THEN sees[s] \cup (opens[s] \ keeps[s]) ELSE {}
    BY <1>1, <1>3, <1>6
  <2> QED BY <2>1
<1> QED BY <1>1, <1>2, <1>4, <1>5, <1>7 DEF E!Change

\* A step of Retrieval is a step of Evidence or nothing a reader sees.
LEMMA StepAnswers ==
  ASSUME Inv, [Next]_vars
  PROVE [E!Next]_(E!vars)
<1>1. CASE World BY <1>1, WorldChanges DEF E!Next
<1>2. ASSUME NEW r \in Readers, Ask(r) PROVE E!Next BY <1>2, AskAnswers DEF E!Next
<1>3. ASSUME NEW r \in Readers, Working(r) PROVE [E!Next]_(E!vars)
  BY <1>3, WorkingAnswers DEF E!Next
<1>4. CASE UNCHANGED vars
  <2>1. UNCHANGED <<ecm, rules, ask, sight>> BY <1>4 DEF vars, world, history
  <2>2. \A s \in Readers : Open(s)' = Open(s) /\ Asking(s)' = Asking(s) BY <2>1 DEF Open, Asking
  <2> QED BY <2>1, <2>2 DEF E!vars
<1> QED BY <1>1, <1>2, <1>3, <1>4 DEF Next, Working

\* A question is shown only what was open to its reader while it was answered
\* and not kept from it when it was asked, whatever is searched, cached, edited
\* and revoked in between.
THEOREM Implements == Spec => ShowsWhatIsOpen
BY EvidenceInit, StepAnswers, Invariance, PTL DEF Spec, ShowsWhatIsOpen, E!Spec
-----------------------------------------------------------------------------
(* Silence                                                                 *)

\* Nothing was unavailable to the question, and the store lost none of it.
Quiet(q) == q.said \cap Channels = {} /\ q.lost = {}

There == {d \in Matched("ecm") : ecm[d].there}
Reach(r) == Open(r) \ rules.denied

\* What a question that nothing has overtaken has so far, and what is still to
\* come: the store's answer is what it has; what is fused is all of both
\* answers; what is resolved is what r reaches of that; and what is done with
\* has its text, if the parser can read it.
QWhole(r, q) ==
  LET found == Found(q.hits, q.used) IN
  /\ q.step \notin Ended => q.denied = rules.denied
  /\ q.thread["ecm"] = "back" => q.step = "search" /\ q.hits["ecm"] = There
  /\ q.step = "search" => \A ch \in Channels : q.thread[ch] # "off"
  /\ q.step = "put" => \A d \in Docs : First(q, d) => q.text[d] # 0
  /\ Quiet(q) =>
       /\ q.step \notin {"idle", "search"} => found = q.hits["pgp"] \cup There
       /\ q.step = "batch" => found \subseteq q.todo
       /\ q.step = "resolve" => \A d \in found \ q.todo : q.version[d] # 0 <=> d \in Reach(r)
       /\ q.step \in Recovering => \A d \in found : q.version[d] # 0 <=> d \in Reach(r)
       /\ q.step \in {"prime", "fill"} => \A d \in Docs : q.version[d] # 0 => d \in q.todo
       /\ q.step \in Loading \cup {"rank"} =>
            \A d \in Docs \ q.todo : q.text[d] # 0 <=> q.version[d] # 0 /\ d \notin Unreadable
       /\ q.step = "rank" => q.todo = {}
       /\ q.step = "done" => Pool(q) = (found \cap Reach(r)) \ Unreadable

WholeInv == \A r \in Readers : calm[r] /\ rules.active => QWhole(r, ask[r])

\* r's question is replaced by one that has what it should have so far.
WholeTurn(r) == \E n : Go(r, n) /\ QWhole(r, n)

LEMMA FinishedWhole ==
  ASSUME NEW r \in Readers, NEW q \in Questions, q.thread["ecm"] # "back",
         Quiet(q) => /\ Found(q.hits, q.used) = q.hits["pgp"] \cup There
                     /\ Pool(q) = (Found(q.hits, q.used) \cap Reach(r)) \ Unreadable
  PROVE QWhole(r, Finished(q))
<1> DEFINE n == Finished(q)
<1>1. /\ n.step = "done" /\ n.hits = q.hits /\ n.used = q.used /\ n.text = q.text
      /\ n.thread = q.thread /\ n.said = q.said /\ n.lost = q.lost
  BY DEF Finished, Questions
<1> HIDE DEF n
<1>2. Pool(n) = Pool(q) /\ (Quiet(n) <=> Quiet(q)) BY <1>1 DEF Pool, Quiet
<1>3. QWhole(r, n) BY <1>1, <1>2 DEF QWhole, Ended, Recovering, Loading
<1> QED BY <1>3 DEF n

LEMMA IndexGoes ==
  ASSUME NEW r \in Readers, IndexAnswers(r)
  PROVE \E hits \in SUBSET Matched("pgp"), reranked \in BOOLEAN :
          Go(r, [ask[r] EXCEPT !.thread["pgp"] = "back", !.hits["pgp"] = hits, !.reranked = reranked])
BY DEF IndexAnswers

LEMMA ChannelGoes ==
  ASSUME NEW r \in Readers, ask[r] \in Questions, NEW ch \in Channels, Breaks(r, ch)
  PROVE \E reranked \in BOOLEAN :
          Go(r, [ask[r] EXCEPT !.thread[ch] = "failed", !.reranked = reranked])
BY DEF Breaks, Questions

LEMMA IndexAnswersWhole ==
  ASSUME Inv, NEW r \in Readers, QWhole(r, ask[r]), IndexAnswers(r)
  PROVE WholeTurn(r)
<1> DEFINE q == ask[r]
<1>1. q \in Questions /\ QSound(q, sight[r]) BY QuestionOf
<1>2. q.step = "search" BY <1>1 DEF QSound, IndexAnswers, Channels
<1>3. PICK hits \in SUBSET Matched("pgp"), reranked \in BOOLEAN :
        Go(r, [q EXCEPT !.thread["pgp"] = "back", !.hits["pgp"] = hits, !.reranked = reranked])
  BY IndexGoes
<1> DEFINE n == [q EXCEPT !.thread["pgp"] = "back", !.hits["pgp"] = hits, !.reranked = reranked]
<1>4. /\ n.step = q.step /\ n.denied = q.denied
      /\ n.thread = [q.thread EXCEPT !["pgp"] = "back"] /\ n.hits = [q.hits EXCEPT !["pgp"] = hits]
  BY <1>1 DEF Questions
<1>5. Go(r, n) BY <1>3
<1> HIDE DEF n
<1>6. n.thread["ecm"] = q.thread["ecm"] /\ n.hits["ecm"] = q.hits["ecm"] /\ n.thread["pgp"] = "back"
  BY <1>1, <1>4 DEF Questions, Channels
<1>7. /\ \A ch \in Channels : n.thread[ch] # "off"
      /\ n.thread["ecm"] = "back" => n.hits["ecm"] = There
  BY <1>2, <1>6 DEF QWhole, Channels
<1>8. QWhole(r, n) BY <1>2, <1>4, <1>7 DEF QWhole, Ended, Recovering, Loading
<1> QED BY <1>5, <1>8 DEF WholeTurn

LEMMA StoreAnswersWhole ==
  ASSUME Inv, NEW r \in Readers, QWhole(r, ask[r]), StoreAnswers(r)
  PROVE WholeTurn(r)
<1> DEFINE q == ask[r]
           n == [q EXCEPT !.thread["ecm"] = "back",
                          !.hits["ecm"] = {d \in Matched("ecm") : ecm[d].there}]
<1>1. q \in Questions /\ QSound(q, sight[r]) BY QuestionOf
<1>2. q.step = "search" BY <1>1 DEF QSound, StoreAnswers, Channels
<1>3. Go(r, n) BY DEF StoreAnswers
<1>4. /\ n.step = q.step /\ n.denied = q.denied
      /\ n.thread = [q.thread EXCEPT !["ecm"] = "back"] /\ n.hits = [q.hits EXCEPT !["ecm"] = There]
  BY <1>1 DEF Questions, There
<1> HIDE DEF n
<1>5. n.thread["pgp"] = q.thread["pgp"] /\ n.hits["ecm"] = There /\ n.thread["ecm"] = "back"
  BY <1>1, <1>4 DEF Questions, Channels
<1>6. \A ch \in Channels : n.thread[ch] # "off"
  BY <1>2, <1>5 DEF QWhole, Channels
<1>7. QWhole(r, n) BY <1>2, <1>4, <1>5, <1>6 DEF QWhole, Ended, Recovering, Loading
<1> QED BY <1>3, <1>7 DEF WholeTurn

LEMMA BreaksWhole ==
  ASSUME Inv, NEW r \in Readers, QWhole(r, ask[r]), NEW ch \in Channels, Breaks(r, ch)
  PROVE WholeTurn(r)
<1> DEFINE q == ask[r]
<1>1. q \in Questions /\ QSound(q, sight[r]) BY QuestionOf
<1>2. q.step = "search" BY <1>1 DEF QSound, Breaks
<1>3. PICK reranked \in BOOLEAN :
        Go(r, [q EXCEPT !.thread[ch] = "failed", !.reranked = reranked])
  BY <1>1, ChannelGoes
<1> DEFINE n == [q EXCEPT !.thread[ch] = "failed", !.reranked = reranked]
<1>4. /\ n.step = q.step /\ n.denied = q.denied /\ n.hits = q.hits
      /\ n.thread = [q.thread EXCEPT ![ch] = "failed"]
  BY <1>1 DEF Questions
<1>5. Go(r, n) BY <1>3
<1> HIDE DEF n
<1>6. \A c \in Channels : n.thread[c] = IF c = ch THEN "failed" ELSE q.thread[c]
  BY <1>1, <1>4 DEF Questions
<1>7. /\ \A c \in Channels : n.thread[c] # "off"
      /\ n.thread["ecm"] = "back" => n.hits["ecm"] = There
  BY <1>2, <1>4, <1>6 DEF QWhole, Channels
<1>8. QWhole(r, n) BY <1>2, <1>4, <1>7 DEF QWhole, Ended, Recovering, Loading
<1> QED BY <1>5, <1>8 DEF WholeTurn

LEMMA JoinWhole ==
  ASSUME Inv, NEW r \in Readers, QWhole(r, ask[r]), Join(r)
  PROVE WholeTurn(r)
<1> DEFINE q == ask[r]
<1>1. q \in Questions /\ QSound(q, sight[r]) BY QuestionOf
<1>2. q.step = "search" /\ \A ch \in Channels : q.thread[ch] # "out" BY DEF Join, Joined
<1> DEFINE failed(late) == late \cup {ch \in Channels : q.thread[ch] = "failed"}
           used(late) == {ch \in Channels \ failed(late) : q.hits[ch] # {}}
           m(late) == [q EXCEPT !.thread = Resting.thread, !.said = failed(late), !.used = used(late)]
           n(late) == [m(late) EXCEPT !.step = "batch", !.rank = FusionRank(q.hits, used(late)),
                                      !.todo = Found(q.hits, used(late))]
<1>3. PICK late \in SUBSET Channels :
        Go(r, IF used(late) = {} THEN Finished(m(late)) ELSE n(late))
  BY DEF Join
<1>4. Resting.thread \in [Channels -> {"off"}] BY DEF Resting
<1>5. m(late) \in Questions BY <1>1, <1>4 DEF Questions
<1>6. /\ m(late).thread = Resting.thread /\ m(late).said = failed(late) /\ m(late).used = used(late)
      /\ m(late).hits = q.hits /\ m(late).text = q.text /\ m(late).lost = q.lost
      /\ m(late).denied = q.denied
  BY <1>1 DEF Questions
<1>7. failed(late) = {} => Found(q.hits, used(late)) = q.hits["pgp"] \cup There
  <2> SUFFICES ASSUME failed(late) = {} PROVE Found(q.hits, used(late)) = q.hits["pgp"] \cup There
    OBVIOUS
  <2>1. \A ch \in Channels : q.thread[ch] = "back" BY <1>1, <1>2 DEF QWhole, Questions
  <2>2. q.hits["ecm"] = There BY <2>1 DEF QWhole, Channels
  <2>3. Found(q.hits, used(late)) = q.hits["pgp"] \cup q.hits["ecm"] BY DEF Found, Channels
  <2> QED BY <2>2, <2>3
<1>8. Quiet(m(late)) => failed(late) = {} BY <1>6 DEF Quiet
<1>9. CASE used(late) = {}
  <2>1. Go(r, Finished(m(late))) BY <1>3, <1>9
  <2>2. \A d \in Docs : q.text[d] = 0
    <3>1. \A d \in Docs : q.version[d] = 0 BY <1>1, <1>2 DEF QSound, Found
    <3> QED BY <1>1, <1>2, <3>1 DEF QSound
  <2>3. Pool(m(late)) = {} BY <1>6, <2>2 DEF Pool
  <2>4. Found(q.hits, used(late)) = {} BY <1>9 DEF Found
  <2>5. m(late).thread["ecm"] # "back" BY <1>4, <1>6 DEF Channels
  <2> HIDE DEF m, used, failed
  <2>6. QWhole(r, Finished(m(late)))
    BY <1>5, <1>6, <1>7, <1>8, <2>3, <2>4, <2>5, FinishedWhole
  <2> QED BY <2>1, <2>6 DEF WholeTurn
<1>10. CASE used(late) # {}
  <2>1. Go(r, n(late)) BY <1>3, <1>10
  <2> HIDE DEF m
  <2>2. /\ n(late).step = "batch" /\ n(late).todo = Found(q.hits, used(late))
        /\ n(late).thread = m(late).thread /\ n(late).said = failed(late)
        /\ n(late).used = used(late) /\ n(late).hits = q.hits /\ n(late).denied = q.denied
    BY <1>5, <1>6 DEF Questions
  <2> HIDE DEF n, used
  <2>3. Quiet(n(late)) => failed(late) = {} BY <2>2 DEF Quiet
  <2> HIDE DEF failed
  <2>4. n(late).thread["ecm"] # "back" /\ q.denied = rules.denied
    BY <1>2, <1>4, <1>6, <2>2 DEF Channels, QWhole, Ended
  <2>5. QWhole(r, n(late))
    BY <1>7, <2>2, <2>3, <2>4 DEF QWhole, Ended, Recovering, Loading
  <2> QED BY <2>1, <2>5 DEF WholeTurn
<1> QED BY <1>9, <1>10

\* A document is resolved if its reader reaches it.
LEMMA ResolutionReaches ==
  ASSUME Inv, NEW r \in Readers, NEW d \in Docs, ask[r].denied = rules.denied
  PROVE Resolution(r, d) # 0 <=> d \in Reach(r)
<1>1. ecm[d].version # 0
  BY RetrievalAssumption DEF Inv, TypeOK, Versions
<1> QED BY <1>1 DEF Resolution, Passes, Reach

LEMMA ResolvedWhole ==
  ASSUME NEW r \in Readers, NEW q \in Questions, q.thread["ecm"] # "back",
         q.denied = rules.denied, \A d \in Docs : q.text[d] = 0,
         \A d \in Docs : q.version[d] # 0 => d \in Found(q.hits, q.used),
         Quiet(q) => /\ Found(q.hits, q.used) = q.hits["pgp"] \cup There
                     /\ \A d \in Found(q.hits, q.used) : q.version[d] # 0 <=> d \in Reach(r),
         Go(r, Resolved(q))
  PROVE WholeTurn(r)
<1> DEFINE left == {d \in Docs : q.version[d] # 0}
           n == [q EXCEPT !.todo = left, !.step = "prime"]
<1>1. CASE left = {}
  <2>1. Go(r, Finished(q)) BY <1>1 DEF Resolved
  <2>2. Pool(q) = {} BY DEF Pool
  <2>3. Found(q.hits, q.used) \subseteq Docs BY DEF Found, Questions
  <2>4. Quiet(q) => Found(q.hits, q.used) \cap Reach(r) = {} BY <1>1, <2>3
  <2>5. QWhole(r, Finished(q)) BY <2>2, <2>4, FinishedWhole
  <2> QED BY <2>1, <2>5 DEF WholeTurn
<1>2. CASE left # {}
  <2>1. Go(r, n) BY <1>2 DEF Resolved
  <2>2. /\ n.step = "prime" /\ n.todo = left /\ n.denied = q.denied /\ n.used = q.used
        /\ n.said = q.said /\ n.lost = q.lost /\ n.hits = q.hits /\ n.thread = q.thread
        /\ n.version = q.version
    BY DEF Questions
  <2> HIDE DEF n
  <2>3. Quiet(n) <=> Quiet(q) BY <2>2 DEF Quiet
  <2>4. QWhole(r, n) BY <2>2, <2>3 DEF QWhole, Ended, Recovering, Loading
  <2> QED BY <2>1, <2>4 DEF WholeTurn
<1> QED BY <1>1, <1>2

\* What is resolved has nothing of the search left in it.
LEMMA ResolvingHas ==
  ASSUME Inv, NEW r \in Readers, QWhole(r, ask[r]), ask[r].step \in Resolving
  PROVE /\ ask[r] \in Questions /\ ask[r].denied = rules.denied
        /\ ask[r].thread["ecm"] # "back"
        /\ \A d \in Docs : ask[r].text[d] = 0
        /\ \A d \in Docs : ask[r].version[d] # 0 => d \in Found(ask[r].hits, ask[r].used)
        /\ Found(ask[r].hits, ask[r].used) \subseteq Docs
        /\ Quiet(ask[r]) =>
             Found(ask[r].hits, ask[r].used) = ask[r].hits["pgp"] \cup There
<1>1. ask[r] \in Questions /\ QSound(ask[r], sight[r]) BY QuestionOf
<1>2. Found(ask[r].hits, ask[r].used) \subseteq Docs BY <1>1 DEF Found, Questions
<1>3. ask[r].step \notin Ended /\ ask[r].step \notin {"idle", "search"} BY DEF Resolving, Ended
<1>4. ask[r].denied = rules.denied BY <1>3 DEF QWhole
<1>5. Quiet(ask[r]) => Found(ask[r].hits, ask[r].used) = ask[r].hits["pgp"] \cup There
  BY <1>3 DEF QWhole
<1>6. /\ \A d \in Docs : ask[r].text[d] = 0
      /\ \A d \in Docs : ask[r].version[d] # 0 => d \in Found(ask[r].hits, ask[r].used)
  BY <1>1 DEF QSound
<1>7. ask[r].thread["ecm"] # "back" BY <1>3 DEF QWhole
<1> QED BY <1>1, <1>2, <1>4, <1>5, <1>6, <1>7

LEMMA BatchWhole ==
  ASSUME Inv, NEW r \in Readers, QWhole(r, ask[r]), Batch(r) \/ BatchFails(r)
  PROVE WholeTurn(r)
<1> DEFINE q == ask[r]
<1>1. q.step = "batch" BY DEF Batch, BatchFails
<1>2. /\ q \in Questions /\ q.denied = rules.denied /\ \A d \in Docs : q.text[d] = 0
      /\ q.thread["ecm"] # "back"
      /\ \A d \in Docs : q.version[d] # 0 => d \in Found(q.hits, q.used)
      /\ Quiet(q) => Found(q.hits, q.used) = q.hits["pgp"] \cup There
      /\ Found(q.hits, q.used) \subseteq Docs
  BY <1>1, ResolvingHas DEF Resolving
<1>3. Quiet(q) => Found(q.hits, q.used) \subseteq q.todo BY <1>1 DEF QWhole
<1>4. CASE Batch(r)
  <2> DEFINE version == [d \in Docs |-> IF d \in q.todo THEN Resolution(r, d) ELSE 0]
             n == [q EXCEPT !.version = version]
  <2>1. Go(r, Resolved(n)) BY <1>4 DEF Batch
  <2>2. /\ n.denied = q.denied /\ n.used = q.used /\ n.said = q.said /\ n.lost = q.lost
        /\ n.hits = q.hits /\ n.thread = q.thread /\ n.text = q.text /\ n.version = version
    BY <1>2 DEF Questions
  <2>3. q.todo \subseteq Found(q.hits, q.used) BY QuestionOf DEF QSound
  <2>4. \A d \in Docs : version[d] # 0 <=> d \in q.todo /\ d \in Reach(r)
    BY <1>2, ResolutionReaches
  <2>5. \A d \in Docs : Resolution(r, d) \in 0..MaxVersion
    BY <1>1, ResolutionHolds DEF Asking
  <2>6. n \in Questions BY <1>2, <2>5, RetrievalAssumption DEF Questions
  <2> HIDE DEF n, version
  <2>7. Quiet(n) <=> Quiet(q) BY <2>2 DEF Quiet
  <2>8. Quiet(q) => \A d \in Found(q.hits, q.used) : version[d] # 0 <=> d \in Reach(r)
    BY <1>2, <1>3, <2>4
  <2>9. \A d \in Docs : version[d] # 0 => d \in Found(q.hits, q.used) BY <2>3, <2>4
  <2> QED BY <1>2, <2>1, <2>2, <2>6, <2>7, <2>8, <2>9, ResolvedWhole
<1>5. CASE BatchFails(r)
  <2> DEFINE n == [q EXCEPT !.step = "resolve"]
  <2>1. Go(r, n) BY <1>5 DEF BatchFails
  <2>2. /\ n.step = "resolve" /\ n.todo = q.todo /\ n.denied = q.denied /\ n.used = q.used
        /\ n.said = q.said /\ n.lost = q.lost /\ n.hits = q.hits /\ n.thread = q.thread
    BY <1>2 DEF Questions
  <2> HIDE DEF n
  <2>3. Quiet(n) <=> Quiet(q) BY <2>2 DEF Quiet
  <2>4. QWhole(r, n) BY <1>2, <1>3, <2>2, <2>3 DEF QWhole, Ended, Recovering, Loading
  <2> QED BY <2>1, <2>4 DEF WholeTurn
<1> QED BY <1>4, <1>5

LEMMA OnwardWhole ==
  ASSUME NEW r \in Readers, NEW q \in Questions, NEW d \in Docs, q.step = "resolve",
         q.thread["ecm"] # "back", q.denied = rules.denied, \A e \in Docs : q.text[e] = 0,
         \A e \in Docs : q.version[e] # 0 => e \in Found(q.hits, q.used),
         Quiet(q) => /\ Found(q.hits, q.used) = q.hits["pgp"] \cup There
                     /\ \A e \in Found(q.hits, q.used) :
                          e \notin q.todo \ {d} => (q.version[e] # 0 <=> e \in Reach(r)),
         Go(r, Onward(q, d))
  PROVE WholeTurn(r)
<1>1. CASE q.todo = {d}
  <2>1. Go(r, Resolved(q)) BY <1>1 DEF Onward
  <2>2. Quiet(q) => \A e \in Found(q.hits, q.used) : q.version[e] # 0 <=> e \in Reach(r)
    BY <1>1
  <2> QED BY <2>1, <2>2, ResolvedWhole
<1>2. CASE q.todo # {d}
  <2> DEFINE n == [q EXCEPT !.todo = @ \ {d}]
  <2>1. Go(r, n) BY <1>2 DEF Onward
  <2>2. /\ n.step = "resolve" /\ n.todo = q.todo \ {d} /\ n.denied = q.denied /\ n.used = q.used
        /\ n.said = q.said /\ n.lost = q.lost /\ n.hits = q.hits /\ n.thread = q.thread
        /\ n.version = q.version
    BY DEF Questions
  <2> HIDE DEF n
  <2>3. Quiet(n) <=> Quiet(q) BY <2>2 DEF Quiet
  <2>4. QWhole(r, n) BY <2>2, <2>3 DEF QWhole, Ended, Recovering, Loading
  <2> QED BY <2>1, <2>4 DEF WholeTurn
<1> QED BY <1>1, <1>2

LEMMA ResolveWhole ==
  ASSUME Inv, NEW r \in Readers, QWhole(r, ask[r]),
         NEW d \in Docs, Resolve(r, d)
  PROVE WholeTurn(r)
<1> DEFINE q == ask[r]
           n == [q EXCEPT !.version[d] = Resolution(r, d)]
<1>1. q.step = "resolve" /\ d \in q.todo /\ Go(r, Onward(n, d)) BY DEF Resolve, First
<1>2. /\ q \in Questions /\ q.denied = rules.denied /\ \A e \in Docs : q.text[e] = 0
      /\ q.thread["ecm"] # "back"
      /\ \A e \in Docs : q.version[e] # 0 => e \in Found(q.hits, q.used)
      /\ Quiet(q) => Found(q.hits, q.used) = q.hits["pgp"] \cup There
      /\ Found(q.hits, q.used) \subseteq Docs
  BY <1>1, ResolvingHas DEF Resolving
<1>3. Quiet(q) => \A e \in Found(q.hits, q.used) \ q.todo : q.version[e] # 0 <=> e \in Reach(r)
  BY <1>1 DEF QWhole
<1>4. Resolution(r, d) \in 0..MaxVersion /\ (Resolution(r, d) # 0 <=> d \in Reach(r))
  BY <1>1, <1>2, ResolutionHolds, ResolutionReaches DEF Asking
<1>5. n \in Questions BY <1>2, <1>4 DEF Questions
<1>6. /\ n.step = q.step /\ n.todo = q.todo /\ n.denied = q.denied /\ n.used = q.used
      /\ n.said = q.said /\ n.lost = q.lost /\ n.hits = q.hits /\ n.thread = q.thread
      /\ n.text = q.text /\ n.version = [q.version EXCEPT ![d] = Resolution(r, d)]
  BY <1>2 DEF Questions
<1> HIDE DEF n
<1>7. \A e \in Docs : n.version[e] = IF e = d THEN Resolution(r, d) ELSE q.version[e]
  BY <1>2, <1>6 DEF Questions
<1>8. q.todo \subseteq Found(q.hits, q.used) BY QuestionOf DEF QSound
<1>9. \A e \in Docs : n.version[e] # 0 => e \in Found(q.hits, q.used)
  BY <1>1, <1>2, <1>7, <1>8
<1>10. Quiet(n) <=> Quiet(q) BY <1>6 DEF Quiet
<1>11. Quiet(q) => \A e \in Found(q.hits, q.used) :
                    e \notin q.todo \ {d} => (n.version[e] # 0 <=> e \in Reach(r))
  BY <1>2, <1>3, <1>4, <1>7
<1> QED BY <1>1, <1>2, <1>5, <1>6, <1>9, <1>10, <1>11, OnwardWhole

LEMMA UnresolvedWhole ==
  ASSUME Inv, NEW r \in Readers, QWhole(r, ask[r]),
         NEW d \in Docs, Unresolved(r, d)
  PROVE WholeTurn(r)
<1> DEFINE q == ask[r]
           n == [q EXCEPT !.lost = @ \cup {d}]
<1>1. q.step = "resolve" /\ Go(r, Onward(n, d)) BY DEF Unresolved
<1>2. /\ q \in Questions /\ q.denied = rules.denied /\ \A e \in Docs : q.text[e] = 0
      /\ q.thread["ecm"] # "back"
      /\ \A e \in Docs : q.version[e] # 0 => e \in Found(q.hits, q.used)
  BY <1>1, ResolvingHas DEF Resolving
<1>3. n \in Questions BY <1>2 DEF Questions
<1>4. /\ n.step = q.step /\ n.denied = q.denied /\ n.used = q.used /\ n.hits = q.hits
      /\ n.thread = q.thread /\ n.text = q.text /\ n.version = q.version
      /\ n.lost = q.lost \cup {d}
  BY <1>2 DEF Questions
<1> HIDE DEF n
<1>5. ~Quiet(n) BY <1>4 DEF Quiet
<1> QED BY <1>1, <1>2, <1>3, <1>4, <1>5, OnwardWhole

LEMMA PrimeWhole ==
  ASSUME Inv, NEW r \in Readers, QWhole(r, ask[r]), Prime(r) \/ Fill(r)
  PROVE WholeTurn(r)
<1> DEFINE q == ask[r]
<1>1. q \in Questions BY QuestionOf
<1>2. CASE Prime(r)
  <2> DEFINE text == [d \in Docs |-> IF d \in q.todo /\ Cached(q, d) = 0 THEN chunks[d] ELSE 0]
             n == [q EXCEPT !.step = "fill", !.text = text]
  <2>1. q.step = "prime" /\ Go(r, n) BY <1>2 DEF Prime
  <2>2. /\ n.step = "fill" /\ n.todo = q.todo /\ n.denied = q.denied /\ n.used = q.used
        /\ n.said = q.said /\ n.lost = q.lost /\ n.hits = q.hits /\ n.thread = q.thread
        /\ n.version = q.version
    BY <1>1 DEF Questions
  <2> HIDE DEF n, text
  <2>3. Quiet(n) <=> Quiet(q) BY <2>2 DEF Quiet
  <2>4. QWhole(r, n) BY <2>1, <2>2, <2>3 DEF QWhole, Ended, Recovering, Loading
  <2> QED BY <2>1, <2>4 DEF WholeTurn
<1>3. CASE Fill(r)
  <2> DEFINE n == [q EXCEPT !.step = "load", !.text = Nowhere]
  <2>1. q.step = "fill" /\ Go(r, n) BY <1>3 DEF Fill
  <2>2. /\ n.step = "load" /\ n.todo = q.todo /\ n.denied = q.denied /\ n.used = q.used
        /\ n.said = q.said /\ n.lost = q.lost /\ n.hits = q.hits /\ n.thread = q.thread
        /\ n.version = q.version /\ n.text = Nowhere
    BY <1>1 DEF Questions
  <2> HIDE DEF n
  <2>3. Quiet(n) <=> Quiet(q) BY <2>2 DEF Quiet
  <2>4. \A d \in Docs : n.text[d] = 0 BY <2>2 DEF Nowhere
  <2>5. QWhole(r, n) BY <2>1, <2>2, <2>3, <2>4 DEF QWhole, Ended, Recovering, Loading
  <2> QED BY <2>1, <2>5 DEF WholeTurn
<1> QED BY <1>2, <1>3

\* A document is done with: its text is taken, if the parser can read it.
LEMMA LoadedWhole ==
  ASSUME Inv, NEW r \in Readers, QWhole(r, ask[r]), ask[r].step \in Loading,
         NEW d \in ask[r].todo, NEW text \in 0..MaxVersion, text # 0
  PROVE QWhole(r, Loaded(ask[r], d, text))
<1> DEFINE q == ask[r]
           taken == IF d \in Unreadable THEN 0 ELSE text
           step == IF q.todo = {d} THEN "rank" ELSE "load"
           n == Loaded(q, d, text)
<1>1. q \in Questions /\ QSound(q, sight[r]) BY QuestionOf
<1>2. /\ n.step = step /\ n.todo = q.todo \ {d} /\ n.denied = q.denied /\ n.used = q.used
      /\ n.said = q.said /\ n.lost = q.lost /\ n.hits = q.hits /\ n.thread = q.thread
      /\ n.version = q.version /\ n.text = [q.text EXCEPT ![d] = taken]
  BY <1>1 DEF Questions, Loaded
<1> HIDE DEF n
<1>3. Quiet(n) <=> Quiet(q) BY <1>2 DEF Quiet
<1>4. d \in Docs /\ \A e \in Docs : n.text[e] = IF e = d THEN taken ELSE q.text[e]
  BY <1>1, <1>2 DEF Questions
<1>5. q.version[d] # 0 BY <1>1 DEF QSound, Recovering, Loading
<1>6. Quiet(q) => \A e \in Docs \ n.todo :
                    n.text[e] # 0 <=> n.version[e] # 0 /\ e \notin Unreadable
  BY <1>2, <1>4, <1>5 DEF QWhole
<1>7. step \in {"load", "rank"} /\ (step = "rank" => n.todo = {}) BY <1>2
<1>8. QWhole(r, n)
  <2> HIDE DEF step
  <2> QED BY <1>2, <1>3, <1>6, <1>7 DEF QWhole, Ended, Recovering, Loading
<1> QED BY <1>8 DEF n

\* A passage that is read, to be put into the cache, is one.
LEMMA ReadWhole ==
  ASSUME Inv, NEW r \in Readers, QWhole(r, ask[r]), ask[r].step \in Loading, NEW d \in Docs,
         First(ask[r], d), NEW text \in 0..MaxVersion, text # 0,
         Go(r, [ask[r] EXCEPT !.step = "put", !.text[d] = text])
  PROVE WholeTurn(r)
<1> DEFINE q == ask[r]
           n == [q EXCEPT !.step = "put", !.text[d] = text]
<1>1. q \in Questions BY QuestionOf
<1>2. /\ n.step = "put" /\ n.todo = q.todo /\ n.denied = q.denied /\ n.used = q.used
      /\ n.said = q.said /\ n.lost = q.lost /\ n.hits = q.hits /\ n.thread = q.thread
      /\ n.version = q.version /\ n.rank = q.rank /\ n.text = [q.text EXCEPT ![d] = text]
  BY <1>1 DEF Questions
<1>3. Go(r, n) OBVIOUS
<1> HIDE DEF n
<1>4. Quiet(n) <=> Quiet(q) BY <1>2 DEF Quiet
<1>5. \A e \in Docs : n.text[e] = IF e = d THEN text ELSE q.text[e]
  BY <1>1, <1>2 DEF Questions
<1>6. d \in q.todo BY DEF First
<1>7. \A e \in Docs : First(n, e) => e = d
  <2> SUFFICES ASSUME NEW e \in Docs, First(n, e), e # d PROVE FALSE OBVIOUS
  <2>1. q.rank[d] < q.rank[e] /\ q.rank[e] < q.rank[d] BY <1>2 DEF First
  <2>2. q.rank[d] \in Nat /\ q.rank[e] \in Nat BY <1>1 DEF Questions
  <2> QED BY <2>1, <2>2
<1>8. Quiet(q) => \A e \in Docs \ n.todo :
                    n.text[e] # 0 <=> n.version[e] # 0 /\ e \notin Unreadable
  BY <1>2, <1>5, <1>6 DEF QWhole
<1>9. \A e \in Docs : First(n, e) => n.text[e] # 0 BY <1>5, <1>7
<1>10. QWhole(r, n) BY <1>2, <1>4, <1>8, <1>9 DEF QWhole, Ended, Recovering, Loading
<1> QED BY <1>3, <1>10 DEF WholeTurn

LEMMA LoadWhole ==
  ASSUME Inv, NEW r \in Readers, QWhole(r, ask[r]), NEW d \in Docs,
         LoadCached(r, d) \/ LoadStored(r, d)
  PROVE WholeTurn(r)
<1> DEFINE q == ask[r]
<1>1. q \in Questions /\ QSound(q, sight[r]) /\ QHeld(q) BY QuestionOf
<1>2. q.step = "load" /\ d \in q.todo /\ First(q, d) BY DEF LoadCached, LoadStored, First
<1>3. q.version[d] # 0 BY <1>1, <1>2 DEF QSound, Recovering
<1>4. CASE LoadCached(r, d)
  <2>1. Cached(q, d) # 0 /\ Go(r, Loaded(q, d, Cached(q, d))) BY <1>4 DEF LoadCached
  <2>2. Cached(q, d) \in 0..MaxVersion BY <1>1, <1>3, TextsHeld
  <2>3. QWhole(r, Loaded(q, d, Cached(q, d))) BY <1>2, <2>1, <2>2, LoadedWhole DEF Loading
  <2> QED BY <2>1, <2>3 DEF WholeTurn
<1>5. CASE LoadStored(r, d) /\ chunks[d] # 0
  <2>1. Go(r, [q EXCEPT !.step = "put", !.text[d] = chunks[d]]) BY <1>5 DEF LoadStored
  <2>2. chunks[d] \in 0..MaxVersion BY <1>1, <1>3, TextsHeld
  <2> QED BY <1>2, <1>5, <2>1, <2>2, ReadWhole DEF Loading
<1>6. CASE LoadStored(r, d) /\ chunks[d] = 0
  <2> DEFINE n == [q EXCEPT !.step = "fetch"]
  <2>1. Go(r, n) BY <1>6 DEF LoadStored
  <2>2. /\ n.step = "fetch" /\ n.todo = q.todo /\ n.denied = q.denied /\ n.used = q.used
        /\ n.said = q.said /\ n.lost = q.lost /\ n.hits = q.hits /\ n.thread = q.thread
        /\ n.version = q.version /\ n.text = q.text
    BY <1>1 DEF Questions
  <2> HIDE DEF n
  <2>3. Quiet(n) <=> Quiet(q) BY <2>2 DEF Quiet
  <2>4. QWhole(r, n) BY <1>2, <2>2, <2>3 DEF QWhole, Ended, Recovering, Loading
  <2> QED BY <2>1, <2>4 DEF WholeTurn
<1> QED BY <1>4, <1>5, <1>6

LEMMA FetchWhole ==
  ASSUME Inv, NEW r \in Readers, QWhole(r, ask[r]), NEW d \in Docs, Fetch(r, d)
  PROVE WholeTurn(r)
<1> DEFINE q == ask[r]
<1>1. /\ q.step = "fetch" /\ First(q, d)
      /\ Go(r, [q EXCEPT !.step = "put", !.text[d] = ecm[d].version])
  BY DEF Fetch
<1>2. ecm[d].version \in 1..MaxVersion /\ MaxVersion \in Nat
  BY RetrievalAssumption DEF Inv, TypeOK, Versions
<1>3. ecm[d].version \in 0..MaxVersion /\ ecm[d].version # 0 BY <1>2
<1> QED BY <1>1, <1>3, ReadWhole DEF Loading

LEMMA UnfetchedWhole ==
  ASSUME Inv, NEW r \in Readers, QWhole(r, ask[r]), NEW d \in Docs, Unfetched(r, d)
  PROVE WholeTurn(r)
<1> DEFINE q == ask[r]
           m == Loaded(q, d, 0)
           n == [m EXCEPT !.lost = @ \cup {d}]
<1>1. q \in Questions BY QuestionOf
<1>2. q.step = "fetch" /\ d \in q.todo /\ Go(r, n) BY DEF Unfetched, First
<1>3. 0 \in 0..MaxVersion BY RetrievalAssumption
<1>4. m \in Questions BY <1>2, <1>3, LoadedHolds DEF Loading
<1>5. /\ m.step \in {"rank", "load"} /\ m.denied = q.denied /\ m.thread = q.thread
  BY <1>1 DEF Loaded, Questions
<1> HIDE DEF m
<1>6. n.step = m.step /\ n.denied = m.denied /\ n.thread = m.thread /\ d \in n.lost
  BY <1>4 DEF Questions
<1> HIDE DEF n
<1>7. ~Quiet(n) BY <1>6 DEF Quiet
<1>8. q.denied = rules.denied /\ q.thread["ecm"] # "back" BY <1>2 DEF QWhole, Ended
<1>9. QWhole(r, n) BY <1>5, <1>6, <1>7, <1>8 DEF QWhole, Ended
<1> QED BY <1>2, <1>9 DEF WholeTurn

LEMMA PutWhole ==
  ASSUME Inv, NEW r \in Readers, QWhole(r, ask[r]), NEW d \in Docs, Put(r, d)
  PROVE WholeTurn(r)
<1> DEFINE q == ask[r]
<1>1. q \in Questions BY QuestionOf
<1>2. q.step = "put" /\ First(q, d) /\ Go(r, Loaded(q, d, q.text[d])) BY DEF Put
<1>3. q.text[d] \in 0..MaxVersion /\ q.text[d] # 0 BY <1>1, <1>2 DEF Questions, QWhole
<1>4. QWhole(r, Loaded(q, d, q.text[d])) BY <1>2, <1>3, LoadedWhole DEF Loading, First
<1> QED BY <1>2, <1>4 DEF WholeTurn

\* What a question has when it is ready to rank is all that it should.
LEMMA RankHas ==
  ASSUME Inv, NEW r \in Readers, QWhole(r, ask[r]), ask[r].step = "rank", Quiet(ask[r])
  PROVE /\ Found(ask[r].hits, ask[r].used) = ask[r].hits["pgp"] \cup There
        /\ Pool(ask[r]) = (Found(ask[r].hits, ask[r].used) \cap Reach(r)) \ Unreadable
<1> DEFINE q == ask[r]
           found == Found(q.hits, q.used)
<1>1. q \in Questions /\ QSound(q, sight[r]) BY QuestionOf
<1>2. found \subseteq Docs BY <1>1 DEF Found, Questions
<1>3. q.todo = {} /\ found = q.hits["pgp"] \cup There
      /\ \A d \in found : q.version[d] # 0 <=> d \in Reach(r)
  BY DEF QWhole, Recovering
<1>4. \A d \in Docs : q.text[d] # 0 <=> q.version[d] # 0 /\ d \notin Unreadable
  BY <1>3 DEF QWhole, Loading
<1>5. \A d \in Docs : q.version[d] # 0 => d \in found BY <1>1 DEF QSound
<1> HIDE DEF found
<1>6. \A d \in Docs : d \in Pool(q) <=> d \in (found \cap Reach(r)) \ Unreadable
  BY <1>3, <1>4, <1>5 DEF Pool
<1>7. Pool(q) \subseteq Docs BY DEF Pool
<1>8. Pool(q) = (found \cap Reach(r)) \ Unreadable BY <1>2, <1>6, <1>7
<1> QED BY <1>3, <1>8 DEF found

LEMMA CiteWhole ==
  ASSUME Inv, NEW r \in Readers, QWhole(r, ask[r]),
         NEW by \in {"pgp", "local"}, NEW more \in SUBSET {"reranker"}, Cite(r, by, more)
  PROVE WholeTurn(r)
<1> DEFINE q == ask[r]
           place(S, ranked) == [d \in Docs |-> IF d \in S THEN ranked[d] ELSE 0]
           n(S, ranked, above) ==
             [q EXCEPT !.said = @ \cup more, !.by = by, !.ranked = place(S, ranked),
                       !.cited = Assembled(q.rank, ranked, above)]
<1>1. q \in Questions BY QuestionOf
<1>2. q.step = "rank" BY DEF Cite
<1>3. PICK S \in Shortlisted(Pool(q)) : \E ranked \in Rankings(S) : \E above \in 0..Cardinality(S) :
        Go(r, Finished(n(S, ranked, above)))
  BY DEF Cite
<1>4. PICK ranked \in Rankings(S), above \in 0..Cardinality(S) : Go(r, Finished(n(S, ranked, above)))
  BY <1>3
<1> DEFINE cited == Assembled(q.rank, ranked, above)
           m == n(S, ranked, above)
<1>5. place(S, ranked) \in [Docs -> Nat] /\ cited \subseteq Pool(q) BY ShortlistType
<1>6. Pool(q) \subseteq Docs BY DEF Pool
<1> HIDE DEF place, cited
<1>7. m \in Questions BY <1>1, <1>5, <1>6 DEF Questions, cited
<1>8. /\ m.thread = q.thread /\ m.hits = q.hits /\ m.used = q.used /\ m.lost = q.lost
      /\ m.said = q.said \cup more /\ m.text = q.text
  BY <1>1 DEF Questions, cited
<1>9. Go(r, Finished(m)) BY <1>4
<1> HIDE DEF m
<1>10. Quiet(m) => Quiet(q) BY <1>8 DEF Quiet
<1>11. Pool(m) = Pool(q) BY <1>8 DEF Pool
<1>12. q.thread["ecm"] # "back" BY <1>2 DEF QWhole
<1>13. QWhole(r, Finished(m))
  BY <1>2, <1>7, <1>8, <1>10, <1>11, <1>12, RankHas, FinishedWhole
<1> QED BY <1>9, <1>13 DEF WholeTurn

LEMMA RefuseWhole ==
  ASSUME Inv, NEW r \in Readers, QWhole(r, ask[r]), Refuse(r)
  PROVE WholeTurn(r)
<1>1. ask[r] \in Questions BY QuestionOf
<1>2. ask[r].step = "rank" /\ Go(r, Finished(ask[r])) BY DEF Refuse
<1>3. ask[r].thread["ecm"] # "back" BY <1>2 DEF QWhole
<1>4. QWhole(r, Finished(ask[r])) BY <1>1, <1>2, <1>3, RankHas, FinishedWhole
<1> QED BY <1>2, <1>4 DEF WholeTurn

\* A question that nobody asks has nothing to be said of.
LEMMA RestingWhole ==
  ASSUME NEW r \in Readers
  PROVE QWhole(r, Resting)
<1>1. Resting.step = "idle" /\ Resting.thread["ecm"] # "back"
  BY DEF Resting, Channels
<1> QED BY <1>1 DEF QWhole, Ended, Recovering, Loading

LEMMA RaisesWhole ==
  ASSUME NEW r \in Readers, Raises(r)
  PROVE WholeTurn(r)
BY RestingWhole DEF Raises, WholeTurn

LEMMA WorkingWhole ==
  ASSUME Inv, NEW r \in Readers, QWhole(r, ask[r]), Working(r)
  PROVE WholeTurn(r)
<1>1. CASE IndexAnswers(r) \/ StoreAnswers(r) \/ Breaks(r, "pgp") \/ Breaks(r, "ecm")
  BY <1>1, IndexAnswersWhole, StoreAnswersWhole, BreaksWhole DEF Channels
<1>2. CASE Join(r) \/ Batch(r) \/ BatchFails(r) \/ Prime(r) \/ Fill(r) \/ Refuse(r) \/ Raises(r)
  BY <1>2, JoinWhole, BatchWhole, PrimeWhole, RefuseWhole, RaisesWhole
<1>3. CASE \E d \in Docs : Resolve(r, d) \/ Unresolved(r, d) \/ LoadCached(r, d) \/ LoadStored(r, d)
                           \/ Fetch(r, d) \/ Unfetched(r, d) \/ Put(r, d)
  BY <1>3, ResolveWhole, UnresolvedWhole, LoadWhole, FetchWhole, UnfetchedWhole, PutWhole
<1>4. CASE IndexRanks(r) \/ Reranks(r) \/ RerankFails(r)
  BY <1>4, CiteWhole DEF IndexRanks, Reranks, RerankFails
<1> QED BY <1>1, <1>2, <1>3, <1>4 DEF Working, Retrieve

\* What a question should have is a matter of the store, the connector and the
\* role, which only the world changes.
LEMMA WholeStays ==
  ASSUME NEW r \in Readers, ecm' = ecm, rules' = rules, ask'[r] = ask[r], QWhole(r, ask[r])
  PROVE QWhole(r, ask[r])'
BY DEF QWhole, Quiet, There, Reach, Open, Found, First, Pool

LEMMA StepWhole == Inv /\ WholeInv /\ [Next]_vars => WholeInv'
<1> SUFFICES ASSUME Inv, WholeInv, [Next]_vars PROVE WholeInv' OBVIOUS
<1>1. ask \in [Readers -> Questions] /\ calm \in [Readers -> BOOLEAN] BY DEF Inv, TypeOK
<1>2. CASE World
  <2>1. Happens
    BY <1>2 DEF World, Edit, Refit, Remove, Index, Rule, Regrant, Pause
  <2> QED BY <2>1 DEF Happens, WholeInv
<1>3. ASSUME NEW r \in Readers, Ask(r) PROVE WholeInv'
  <2> DEFINE q == [Resting EXCEPT !.step = "search", !.denied = rules.denied,
                                  !.thread = [ch \in Channels |-> "out"]]
  <2>1. /\ ecm' = ecm /\ rules' = rules /\ calm' = [calm EXCEPT ![r] = TRUE]
        /\ rules.active => ask' = [ask EXCEPT ![r] = q]
    BY <1>3 DEF Ask, Go, world
  <2>2. q.step = "search" /\ q.denied = rules.denied /\ \A ch \in Channels : q.thread[ch] = "out"
    BY DEF Resting
  <2> HIDE DEF q
  <2>3. QWhole(r, q)
    BY <2>2 DEF QWhole, Ended, Recovering, Loading, Channels
  <2>4. ASSUME NEW s \in Readers, calm'[s], rules'.active PROVE QWhole(s, ask[s])'
    <3>1. CASE s = r
      <4>1. ask'[s] = q BY <1>1, <2>1, <2>4, <3>1
      <4>2. QWhole(s, ask'[s]) BY <2>3, <3>1, <4>1
      <4> QED BY <2>1, <4>2, <4>1 DEF QWhole, Quiet, There, Reach, Open, Found, First, Pool
    <3>2. CASE s # r
      <4>1. ask'[s] = ask[s] /\ calm[s] BY <1>1, <2>1, <2>4, <3>2
      <4> QED BY <2>1, <2>4, <4>1, WholeStays DEF WholeInv
    <3> QED BY <3>1, <3>2
  <2> QED BY <2>4 DEF WholeInv
<1>4. ASSUME NEW r \in Readers, Working(r) PROVE WholeInv'
  <2>1. /\ ecm' = ecm /\ rules' = rules /\ calm' = calm
    BY <1>4, CacheWritten DEF world, history
  <2>2. PICK n \in Questions : ask' = [ask EXCEPT ![r] = n] BY <1>4, WorkingTurns DEF Turns
  <2>3. ASSUME NEW s \in Readers, calm'[s], rules'.active PROVE QWhole(s, ask[s])'
    <3>1. CASE s = r
      <4>1. QWhole(r, ask[r]) BY <2>1, <2>3, <3>1 DEF WholeInv
      <4>2. PICK m : Go(r, m) /\ QWhole(r, m) BY <1>4, <4>1, WorkingWhole DEF WholeTurn
      <4>3. ask'[s] = m BY <1>1, <3>1, <4>2 DEF Go
      <4>4. QWhole(s, ask'[s]) BY <3>1, <4>2, <4>3
      <4> QED BY <2>1, <4>4 DEF QWhole, Quiet, There, Reach, Open, Found, First, Pool
    <3>2. CASE s # r
      <4>1. ask'[s] = ask[s] /\ calm[s] BY <1>1, <2>1, <2>2, <2>3, <3>2
      <4> QED BY <2>1, <2>3, <4>1, WholeStays DEF WholeInv
    <3> QED BY <3>1, <3>2
  <2> QED BY <2>3 DEF WholeInv
<1>5. CASE UNCHANGED vars
  BY <1>5, WholeStays DEF vars, world, history, WholeInv
<1> QED BY <1>2, <1>3, <1>4, <1>5 DEF Next, Working

\* An outage does not narrow the search in silence.
THEOREM SilenceIsCompleteHolds == Spec => []SilenceIsComplete
<1>1. Init => WholeInv BY DEF Init, WholeInv
<1>2. Inv /\ WholeInv => SilenceIsComplete
  <2> SUFFICES ASSUME Inv, WholeInv, NEW r \in Readers, Done(r), calm[r], rules.active,
                      ask[r].said \cap Channels = {}, ask[r].lost = {}
               PROVE  Pool(ask[r]) = ((ask[r].hits["pgp"] \cup Matched("ecm")) \cap Open(r))
                                       \ (rules.denied \cup Unreadable)
    BY DEF SilenceIsComplete
  <2>1. QWhole(r, ask[r]) /\ Quiet(ask[r]) /\ ask[r].step = "done"
    BY DEF WholeInv, Quiet, Done
  <2>2. Found(ask[r].hits, ask[r].used) = ask[r].hits["pgp"] \cup There
        /\ Pool(ask[r]) = (Found(ask[r].hits, ask[r].used) \cap Reach(r)) \ Unreadable
    BY <2>1 DEF QWhole
  <2>3. There \cap Open(r) = Matched("ecm") \cap Open(r) BY DEF There, Open
  <2> QED BY <2>2, <2>3 DEF Reach
<1> QED BY <1>1, <1>2, StepWhole, Invariance, PTL DEF Spec
-----------------------------------------------------------------------------
(* Natural numbers                                                         *)

\* A set of natural numbers has a smallest one.
LEMMA Smallest ==
  ASSUME NEW T, T \subseteq Nat, T # {}
  PROVE \E n \in T : \A m \in T : n <= m
<1> DEFINE less == {ss \in Nat \X Nat : ss[1] < ss[2]}
<1>1. OpToRel(<, Nat) = less BY DEF OpToRel
<1>2. IsWellFoundedOn(less, Nat) BY <1>1, NatLessThanWellFounded
<1>3. \A m, n \in Nat : m < n => <<m, n>> \in less OBVIOUS
<1> HIDE DEF less
<1>4. PICK n \in T : \A m \in T : ~(<<m, n>> \in less) BY <1>2, WFMin
<1>5. \A m \in T : ~(m < n) BY <1>3, <1>4
<1>6. \A m \in T : n <= m BY <1>5
<1> QED BY <1>6

\* What is true of 0, and of n + 1 if of n, is true of every number.
LEMMA Induction ==
  ASSUME NEW holds \in [Nat -> BOOLEAN], holds[0], \A n \in Nat : holds[n] => holds[n + 1]
  PROVE \A n \in Nat : holds[n]
<1> DEFINE T == {n \in Nat : ~holds[n]}
<1> SUFFICES ASSUME T # {} PROVE FALSE OBVIOUS
<1>1. T \subseteq Nat OBVIOUS
<1> HIDE DEF T
<1>2. PICK n \in T : \A m \in T : n <= m BY <1>1, Smallest
<1>3. n \in Nat /\ ~holds[n] BY <1>2 DEF T
<1>4. n # 0 BY <1>3
<1>5. n - 1 \in Nat /\ ~(n <= n - 1) /\ (n - 1) + 1 = n BY <1>3, <1>4
<1>6. holds[n - 1] BY <1>2, <1>5 DEF T
<1> QED BY <1>3, <1>5, <1>6

\* f starts with a and goes on with step.
Runs(f, V, a, step) ==
  f \in [Nat -> V] /\ f[0] = a /\ \A n \in Nat : f[n + 1] = step[<<n, f[n]>>]

\* A step from each number to the next defines a function of all of them.
LEMMA Recursion ==
  ASSUME NEW V, NEW a \in V, NEW step \in [Nat \X V -> V]
  PROVE \E f : Runs(f, V, a, step)
<1> DEFINE Begins(n, f) == /\ f \in [0..n -> V] /\ f[0] = a
                           /\ \A k \in 1..n : f[k] = step[<<k - 1, f[k - 1]>>]
           begun == [n \in Nat |-> \E f : Begins(n, f)]
<1>1. \A n \in Nat : \E f : Begins(n, f)
  <2>1. Begins(0, [k \in 0..0 |-> a]) OBVIOUS
  <2>2. ASSUME NEW n \in Nat, NEW f, Begins(n, f) PROVE \E g : Begins(n + 1, g)
    <3> DEFINE g == [k \in 0..(n + 1) |-> IF k = n + 1 THEN step[<<n, f[n]>>] ELSE f[k]]
    <3>1. \A k \in 0..n : f[k] \in V BY <2>2
    <3>2. f[n] \in V /\ step[<<n, f[n]>>] \in V BY <3>1
    <3>3. \A k \in 0..(n + 1) : k # n + 1 => k \in 0..n OBVIOUS
    <3>4. g \in [0..(n + 1) -> V] BY <3>1, <3>2, <3>3
    <3>5. ASSUME NEW k \in 1..(n + 1) PROVE g[k] = step[<<k - 1, g[k - 1]>>]
      <4>1. k - 1 \in 0..(n + 1) /\ k - 1 # n + 1 /\ k \in 0..(n + 1) OBVIOUS
      <4>2. g[k - 1] = f[k - 1] BY <4>1
      <4>3. CASE k = n + 1 BY <4>1, <4>2, <4>3
      <4>4. CASE k # n + 1
        <5>1. k \in 1..n BY <4>4
        <5>2. f[k] = step[<<k - 1, f[k - 1]>>] BY <2>2, <5>1
        <5>3. g[k] = f[k] BY <4>1, <4>4
        <5> QED BY <4>2, <5>2, <5>3
      <4> QED BY <4>3, <4>4
    <3>6. g[0] = a BY <2>2
    <3>7. Begins(n + 1, g) BY <3>4, <3>5, <3>6
    <3> QED BY <3>7
  <2> HIDE DEF Begins
  <2>3. begun[0] BY <2>1
  <2>4. \A n \in Nat : begun[n] => begun[n + 1] BY <2>2
  <2>5. begun \in [Nat -> BOOLEAN] OBVIOUS
  <2>6. \A n \in Nat : begun[n]
    <3> HIDE DEF begun
    <3> QED BY <2>3, <2>4, <2>5, Induction
  <2> QED BY <2>6
<1>2. ASSUME NEW n \in Nat, NEW m \in Nat, NEW f, NEW g, Begins(n, f), Begins(m, g)
      PROVE \A k \in Nat : k <= n /\ k <= m => f[k] = g[k]
  <2> DEFINE same == [k \in Nat |-> k <= n /\ k <= m => f[k] = g[k]]
  <2>1. same[0] BY <1>2
  <2>2. ASSUME NEW k \in Nat, same[k] PROVE same[k + 1]
    <3> SUFFICES ASSUME k + 1 <= n, k + 1 <= m PROVE f[k + 1] = g[k + 1]
      <4>1. k + 1 \in Nat OBVIOUS
      <4> QED BY <4>1
    <3>1. k <= n /\ k <= m /\ k + 1 \in 1..n /\ k + 1 \in 1..m /\ (k + 1) - 1 = k OBVIOUS
    <3>2. f[k] = g[k] BY <2>2, <3>1
    <3> QED BY <1>2, <3>1, <3>2
  <2>3. same \in [Nat -> BOOLEAN] OBVIOUS
  <2>4. \A k \in Nat : same[k]
    <3> HIDE DEF same
    <3> QED BY <2>1, <2>2, <2>3, Induction
  <2> QED BY <2>4
<1> DEFINE some(n) == CHOOSE f : Begins(n, f)
           F == [n \in Nat |-> some(n)[n]]
<1>3. \A n \in Nat : Begins(n, some(n)) BY <1>1
<1> HIDE DEF some
<1>4. ASSUME NEW n \in Nat, NEW f, Begins(n, f), NEW k \in 0..n PROVE F[k] = f[k]
  <2>1. k \in Nat /\ k <= n /\ k <= k OBVIOUS
  <2>2. Begins(k, some(k)) BY <1>3, <2>1
  <2> HIDE DEF Begins
  <2>3. some(k)[k] = f[k] BY <1>2, <1>4, <2>1, <2>2
  <2> QED BY <2>1, <2>3
<1>5. F = [n \in Nat |-> F[n]] OBVIOUS
<1> HIDE DEF F
<1>6. ASSUME NEW n \in Nat PROVE F[n] \in V /\ F[0] = a /\ F[n + 1] = step[<<n, F[n]>>]
  <2>1. n + 1 \in Nat /\ {0, n, n + 1} \subseteq 0..(n + 1) /\ n + 1 \in 1..(n + 1)
        /\ (n + 1) - 1 = n
    OBVIOUS
  <2>2. PICK f : Begins(n + 1, f) BY <1>1, <2>1
  <2>3. F[0] = f[0] /\ F[n] = f[n] /\ F[n + 1] = f[n + 1]
    <3> HIDE DEF Begins
    <3> QED BY <1>4, <2>1, <2>2
  <2>4. f[n + 1] = step[<<(n + 1) - 1, f[(n + 1) - 1]>>] BY <2>1, <2>2
  <2> QED BY <2>1, <2>2, <2>3, <2>4
<1>7. F \in [Nat -> V] BY <1>5, <1>6
<1> QED BY <1>6, <1>7 DEF Runs

\* Product is what its definition says.
LEMMA ProductDef ==
  /\ Product[0] = 1
  /\ \A n \in Nat : Product[n + 1] = (Rrf + n + 1) * Product[n]
<1> DEFINE step == [x \in Nat \X Nat |-> (Rrf + x[1] + 1) * x[2]]
           Def(f) == f = [n \in Nat |-> IF n = 0 THEN 1 ELSE (Rrf + n) * f[n - 1]]
<1>1. \A n, m \in Nat : (Rrf + n + 1) * m \in Nat BY RetrievalAssumption
<1>2. step \in [Nat \X Nat -> Nat] /\ 1 \in Nat BY <1>1
<1>3. \A n, m \in Nat : step[<<n, m>>] = (Rrf + n + 1) * m OBVIOUS
<1> HIDE DEF step
<1>4. \E f : Runs(f, Nat, 1, step) BY <1>2, Recursion
<1>8. PICK f \in [Nat -> Nat] : f[0] = 1 /\ \A n \in Nat : f[n + 1] = step[<<n, f[n]>>]
  BY <1>4 DEF Runs
<1>5. Def(f)
  <2>1. ASSUME NEW n \in Nat, n # 0 PROVE f[n] = (Rrf + n) * f[n - 1]
    <3>1. n - 1 \in Nat /\ (n - 1) + 1 = n /\ Rrf + (n - 1) + 1 = Rrf + n BY <2>1, RetrievalAssumption
    <3>2. f[n - 1] \in Nat BY <3>1
    <3>3. f[(n - 1) + 1] = step[<<n - 1, f[n - 1]>>] BY <1>8, <3>1
    <3>4. f[n] = (Rrf + (n - 1) + 1) * f[n - 1] BY <1>3, <3>1, <3>2, <3>3
    <3> QED BY <3>1, <3>4
  <2> QED BY <2>1, <1>8
<1>6. Def(Product)
  <2>1. Product = CHOOSE g : Def(g) BY DEF Product
  <2> HIDE DEF Def
  <2> QED BY <1>5, <2>1
<1>7. ASSUME NEW n \in Nat PROVE Product[n + 1] = (Rrf + n + 1) * Product[n]
  <2>1. n + 1 \in Nat /\ n + 1 # 0 /\ (n + 1) - 1 = n OBVIOUS
  <2>2. Product[n + 1] = (Rrf + (n + 1)) * Product[(n + 1) - 1] BY <1>6, <2>1
  <2>3. Rrf + (n + 1) = Rrf + n + 1 BY RetrievalAssumption
  <2> QED BY <2>1, <2>2, <2>3
<1> QED BY <1>6, <1>7

\* It is a multiple of what each of the first n places divides by.
LEMMA ProductIsMultiple ==
  ASSUME NEW n \in Nat
  PROVE /\ Product[n] \in Nat \ {0}
        /\ \A k \in 1..n : \E b \in Nat : Product[n] = (Rrf + k) * b
<1> DEFINE holds == [i \in Nat |-> /\ Product[i] \in Nat \ {0}
                                   /\ \A k \in 1..i : \E b \in Nat : Product[i] = (Rrf + k) * b]
<1>1. holds[0] BY ProductDef
<1>2. ASSUME NEW i \in Nat, holds[i] PROVE holds[i + 1]
  <2> DEFINE p == Product[i]
             s == Product[i + 1]
  <2>1. p \in Nat \ {0} /\ \A k \in 1..i : \E b \in Nat : p = (Rrf + k) * b BY <1>2
  <2>2. s = (Rrf + i + 1) * p BY ProductDef
  <2>3. (s \in Nat \ {0} /\ \A k \in 1..(i + 1) : \E b \in Nat : s = (Rrf + k) * b) => holds[i + 1]
    OBVIOUS
  <2> HIDE DEF p, s
  <2>4. Rrf + i + 1 \in Nat /\ Rrf + i + 1 > 0 BY RetrievalAssumption
  <2>5. s \in Nat \ {0} BY <2>1, <2>2, <2>4
  <2>6. ASSUME NEW k \in 1..(i + 1) PROVE \E b \in Nat : s = (Rrf + k) * b
    <3>1. CASE k = i + 1
      <4>1. s = (Rrf + k) * p BY <2>2, <3>1, RetrievalAssumption
      <4> QED BY <4>1, <2>1
    <3>2. CASE k # i + 1
      <4> DEFINE c == Rrf + i + 1
                 x == Rrf + k
      <4>1. k \in 1..i BY <3>2
      <4>2. PICK b \in Nat : p = x * b BY <2>1, <4>1
      <4>3. c \in Nat /\ x \in Nat BY <2>4, RetrievalAssumption
      <4>4. s = c * (x * b) BY <2>2, <4>2
      <4> HIDE DEF c, x
      <4>5. c * (x * b) = x * (c * b) /\ c * b \in Nat BY <4>3
      <4> QED BY <4>4, <4>5 DEF x
    <3> QED BY <3>1, <3>2
  <2> HIDE DEF holds
  <2> QED BY <2>3, <2>5, <2>6
<1>3. holds \in [Nat -> BOOLEAN] OBVIOUS
<1>4. \A i \in Nat : holds[i]
  <2> HIDE DEF holds
  <2> QED BY <1>1, <1>2, <1>3, Induction
<1> QED BY <1>4

\* An earlier place weighs more, and every place weighs something.
LEMMA PartFalls ==
  ASSUME NEW n \in 1..Size, NEW m \in 1..Size, n < m, Size \in Nat
  PROVE Part(n) > Part(m)
<1> DEFINE x == Rrf + n
           y == Rrf + m
<1>1. PICK a \in Nat, b \in Nat : Product[Size] = x * a /\ Product[Size] = y * b
  BY ProductIsMultiple
<1>2. Product[Size] \in Nat \ {0} BY ProductIsMultiple
<1>3. x \in Nat \ {0} /\ y \in Nat \ {0} /\ x < y BY RetrievalAssumption
<1>4. Part(n) = (x * a) \div x /\ Part(m) = (y * b) \div y BY <1>1 DEF Part
<1>5. x * a = y * b /\ x * a # 0 BY <1>1, <1>2
<1> HIDE DEF x, y
<1>6. \A i \in Nat, j \in Nat \ {0} : (j * i) \div j = i OBVIOUS
<1>7. Part(n) = a /\ Part(m) = b BY <1>3, <1>4, <1>6
<1>8. a # 0 /\ b # 0 BY <1>3, <1>5
<1>9. x * b < y * b BY <1>3, <1>8
<1>10. CASE a <= b
  <2>1. x * a <= x * b BY <1>3, <1>10
  <2> QED BY <1>3, <1>5, <1>9, <2>1
<1> QED BY <1>7, <1>10

LEMMA PartType ==
  ASSUME NEW n \in 1..Size, Size \in Nat
  PROVE Part(n) \in Nat /\ Part(n) > 0
<1>1. PICK a \in Nat : Product[Size] = (Rrf + n) * a BY ProductIsMultiple
<1>2. Product[Size] \in Nat \ {0} BY ProductIsMultiple
<1>3. Rrf + n \in Nat \ {0} BY RetrievalAssumption
<1>4. \A i \in Nat, j \in Nat \ {0} : (j * i) \div j = i OBVIOUS
<1>5. Part(n) = a BY <1>1, <1>3, <1>4 DEF Part
<1>6. a # 0 BY <1>1, <1>2, <1>3
<1> QED BY <1>5, <1>6

-----------------------------------------------------------------------------
(* Places                                                                  *)

\* A part of a set of documents that lacks one of them has fewer.
LEMMA Fewer ==
  ASSUME NEW B \in SUBSET Docs, NEW A \in SUBSET B, NEW x \in B, x \notin A
  PROVE /\ Cardinality(A) \in Nat /\ Cardinality(B) \in Nat /\ Size \in Nat
        /\ Cardinality(A) < Cardinality(B) /\ Cardinality(B) <= Size
<1>1. IsFiniteSet(Docs) BY RetrievalAssumption
<1>2. IsFiniteSet(B) /\ Cardinality(B) <= Cardinality(Docs) BY <1>1, FS_Subset
<1>3. IsFiniteSet(A) /\ Cardinality(A) <= Cardinality(B) /\ (Cardinality(B) = Cardinality(A) => B = A)
  BY <1>2, FS_Subset
<1>4. Cardinality(A) \in Nat /\ Cardinality(B) \in Nat /\ Cardinality(Docs) \in Nat
  BY <1>1, <1>2, <1>3, FS_CardinalityType
<1>5. A # B OBVIOUS
<1> QED BY <1>2, <1>3, <1>4, <1>5 DEF Size

\* What stands where nothing is ahead of itself has a place among the documents.
LEMMA PlaceType ==
  ASSUME NEW S \in SUBSET Docs, NEW ahead, NEW d \in S, <<d, d>> \notin ahead
  PROVE Standing(S, ahead, d) \in 1..Size /\ Size \in Nat
<1> DEFINE A == {e \in S : <<e, d>> \in ahead}
<1>1. A \in SUBSET S /\ d \notin A OBVIOUS
<1>3. Standing(S, ahead, d) = Cardinality(A) + 1 BY DEF Standing
<1> HIDE DEF A
<1>2. Cardinality(A) \in Nat /\ Size \in Nat /\ Cardinality(A) < Size
  <2>1. /\ Cardinality(A) \in Nat /\ Cardinality(S) \in Nat /\ Size \in Nat
        /\ Cardinality(A) < Cardinality(S) /\ Cardinality(S) <= Size
    BY <1>1, Fewer
  <2> QED BY <2>1
<1> QED BY <1>2, <1>3

\* What is ahead of another, with all that is ahead of it, has a place before it.
LEMMA AheadStandsBefore ==
  ASSUME NEW S \in SUBSET Docs, NEW ahead, NEW d \in S, NEW e \in S,
         <<d, e>> \in ahead, <<d, d>> \notin ahead,
         \A x \in S : <<x, d>> \in ahead => <<x, e>> \in ahead
  PROVE Standing(S, ahead, d) < Standing(S, ahead, e)
<1> DEFINE A == {x \in S : <<x, d>> \in ahead}
           B == {x \in S : <<x, e>> \in ahead}
<1>1. B \in SUBSET Docs /\ A \in SUBSET B /\ d \in B /\ d \notin A OBVIOUS
<1>2. Cardinality(A) \in Nat /\ Cardinality(B) \in Nat /\ Cardinality(A) < Cardinality(B)
  BY <1>1, Fewer
<1>3. Standing(S, ahead, d) = Cardinality(A) + 1 /\ Standing(S, ahead, e) = Cardinality(B) + 1
  BY DEF Standing
<1> QED BY <1>2, <1>3

\* What a channel matches better it puts before.
LEMMA BetterIsBefore ==
  ASSUME NEW hits \in [Channels -> SUBSET Docs], NEW ch \in Channels, NEW d \in hits[ch]
  PROVE /\ Position(hits, ch, d) \in 1..Size /\ Size \in Nat
        /\ \A e \in hits[ch] : Match[ch][d] < Match[ch][e] =>
             Position(hits, ch, e) \in 1..Size /\ Position(hits, ch, d) < Position(hits, ch, e)
<1>1. \A x \in Docs : Match[ch][x] \in Nat BY RetrievalAssumption
<1> DEFINE A(y) == {x \in hits[ch] : Match[ch][x] <= Match[ch][y]}
<1>2. \A y : Position(hits, ch, y) = Cardinality(A(y)) BY DEF Position
<1>3. ASSUME NEW y \in hits[ch] PROVE Position(hits, ch, y) \in 1..Size /\ Size \in Nat
  <2>1. y \in Docs /\ y \in A(y) /\ {} \in SUBSET A(y) /\ A(y) \in SUBSET Docs BY <1>1
  <2>2. Cardinality({}) < Cardinality(A(y)) /\ Cardinality(A(y)) <= Size /\ Size \in Nat
        /\ Cardinality(A(y)) \in Nat
    <3> HIDE DEF A
    <3> QED BY <2>1, Fewer
  <2>3. Cardinality({}) = 0 BY FS_EmptySet
  <2> HIDE DEF A
  <2> QED BY <1>2, <2>2, <2>3
<1>4. ASSUME NEW e \in hits[ch], Match[ch][d] < Match[ch][e]
      PROVE Position(hits, ch, d) < Position(hits, ch, e)
  <2>1. d \in Docs /\ e \in Docs OBVIOUS
  <2>2. e \in A(e) /\ e \notin A(d) /\ A(e) \in SUBSET Docs BY <1>1, <1>4, <2>1
  <2>3. A(d) \in SUBSET A(e)
    <3>1. ASSUME NEW x \in A(d) PROVE x \in A(e)
      <4>1. x \in hits[ch] /\ x \in Docs /\ Match[ch][x] <= Match[ch][d] OBVIOUS
      <4> QED BY <1>1, <1>4, <2>1, <4>1
    <3> QED BY <3>1
  <2>4. Cardinality(A(d)) < Cardinality(A(e))
    <3> HIDE DEF A
    <3> QED BY <2>2, <2>3, Fewer
  <2> HIDE DEF A
  <2> QED BY <1>2, <2>4
<1> QED BY <1>3, <1>4

-----------------------------------------------------------------------------
(* Fusion                                                                  *)

\* What a channel gives a document.
Given(hits, used, ch, d) ==
  IF ch \in used /\ d \in hits[ch] THEN Part(Position(hits, ch, d)) ELSE 0

\* Of two documents, the channels put the first before the second wherever they
\* found the second.
Preferred(hits, used, d, e) ==
  \A ch \in used : e \in hits[ch] => d \in hits[ch] /\ Match[ch][d] < Match[ch][e]

LEMMA GivenType ==
  ASSUME NEW hits \in [Channels -> SUBSET Docs], NEW used, NEW ch \in Channels, NEW d \in Docs
  PROVE Given(hits, used, ch, d) \in Nat
<1>1. CASE d \in hits[ch]
  <2>1. Position(hits, ch, d) \in 1..Size /\ Size \in Nat BY <1>1, BetterIsBefore
  <2>2. Part(Position(hits, ch, d)) \in Nat BY <2>1, PartType
  <2> QED BY <2>2 DEF Given
<1>2. CASE d \notin hits[ch] BY <1>2 DEF Given
<1> QED BY <1>1, <1>2

LEMMA GivenPreferred ==
  ASSUME NEW hits \in [Channels -> SUBSET Docs], NEW used \in SUBSET Channels, NEW ch \in Channels,
         NEW d \in Docs, NEW e \in Docs, Preferred(hits, used, d, e)
  PROVE /\ Given(hits, used, ch, e) <= Given(hits, used, ch, d)
        /\ ch \in used /\ e \in hits[ch] => Given(hits, used, ch, e) < Given(hits, used, ch, d)
<1>1. CASE ch \in used /\ e \in hits[ch]
  <2>1. d \in hits[ch] /\ Match[ch][d] < Match[ch][e] BY <1>1 DEF Preferred
  <2>2. /\ Position(hits, ch, d) \in 1..Size /\ Position(hits, ch, e) \in 1..Size /\ Size \in Nat
        /\ Position(hits, ch, d) < Position(hits, ch, e)
    BY <1>1, <2>1, BetterIsBefore
  <2>3. Part(Position(hits, ch, d)) > Part(Position(hits, ch, e)) BY <2>2, PartFalls
  <2>4. /\ Given(hits, used, ch, d) = Part(Position(hits, ch, d))
        /\ Given(hits, used, ch, e) = Part(Position(hits, ch, e))
    BY <1>1, <2>1 DEF Given
  <2>5. Given(hits, used, ch, d) \in Nat /\ Given(hits, used, ch, e) \in Nat BY GivenType
  <2> QED BY <2>3, <2>4, <2>5
<1>2. CASE ~(ch \in used /\ e \in hits[ch])
  <2>1. Given(hits, used, ch, e) = 0 BY <1>2 DEF Given
  <2>2. Given(hits, used, ch, d) \in Nat BY GivenType
  <2> QED BY <1>2, <2>1, <2>2
<1> QED BY <1>1, <1>2

\* Every document scores a number, and the preferred one scores more.
LEMMA ScoreType ==
  ASSUME NEW hits \in [Channels -> SUBSET Docs], NEW used, NEW d \in Docs
  PROVE /\ Score(hits, used, d) \in Nat
        /\ Score(hits, used, d) = Given(hits, used, "pgp", d) + Given(hits, used, "ecm", d)
<1>1. "pgp" \in Channels /\ "ecm" \in Channels BY DEF Channels
<1>2. Given(hits, used, "pgp", d) \in Nat /\ Given(hits, used, "ecm", d) \in Nat
  BY <1>1, GivenType
<1>3. Score(hits, used, d) = Given(hits, used, "pgp", d) + Given(hits, used, "ecm", d)
  BY DEF Score, Given
<1> QED BY <1>2, <1>3

LEMMA ScorePreferred ==
  ASSUME NEW hits \in [Channels -> SUBSET Docs], NEW used \in SUBSET Channels,
         NEW d \in Docs, NEW e \in Found(hits, used), Preferred(hits, used, d, e)
  PROVE d \in Found(hits, used) /\ Score(hits, used, e) < Score(hits, used, d)
<1>1. PICK ch \in used : e \in hits[ch] BY DEF Found
<1>2. ch \in Channels /\ e \in Docs BY <1>1
<1>3. d \in Found(hits, used) BY <1>1 DEF Preferred, Found
<1> DEFINE g(c, x) == Given(hits, used, c, x)
<1>4. /\ g("pgp", e) <= g("pgp", d) /\ g("ecm", e) <= g("ecm", d) /\ g(ch, e) < g(ch, d)
      /\ g("pgp", e) \in Nat /\ g("pgp", d) \in Nat /\ g("ecm", e) \in Nat /\ g("ecm", d) \in Nat
  <2>1. "pgp" \in Channels /\ "ecm" \in Channels BY DEF Channels
  <2> QED BY <1>1, <1>2, <2>1, GivenPreferred, GivenType
<1>5. Score(hits, used, e) = g("pgp", e) + g("ecm", e) /\ Score(hits, used, d) = g("pgp", d) + g("ecm", d)
  BY <1>2, ScoreType
<1>6. ch = "pgp" \/ ch = "ecm" BY <1>2 DEF Channels
<1> HIDE DEF g
<1>7. Score(hits, used, e) < Score(hits, used, d) BY <1>4, <1>5, <1>6
<1> QED BY <1>3, <1>7

\* The fusion gives what was found a place among the documents, and puts what
\* the channels prefer first.
LEMMA FusionPreferred ==
  ASSUME NEW hits \in [Channels -> SUBSET Docs], NEW used \in SUBSET Channels
  PROVE /\ \A d \in Found(hits, used) : FusionRank(hits, used)[d] \in 1..Size
        /\ \A d \in Docs : \A e \in Found(hits, used) :
             Preferred(hits, used, d, e) => FusionRank(hits, used)[d] < FusionRank(hits, used)[e]
<1> DEFINE found == Found(hits, used)
           score == [d \in found |-> Score(hits, used, d)]
           ahead == {p \in found \X found :
                       \/ score[p[1]] > score[p[2]]
                       \/ score[p[1]] = score[p[2]] /\ Name[p[1]] < Name[p[2]]}
<1>1. found \in SUBSET Docs BY DEF Found
<1>2. \A d \in found : FusionRank(hits, used)[d] = Standing(found, ahead, d)
  BY <1>1 DEF FusionRank
<1> HIDE DEF found
<1>3. \A d \in found : score[d] = Score(hits, used, d) /\ score[d] \in Nat /\ Name[d] \in Nat
  BY <1>1, ScoreType, RetrievalAssumption
<1> HIDE DEF score
<1>4. \A d, e \in found : <<d, e>> \in ahead <=> \/ score[d] > score[e]
                                                 \/ score[d] = score[e] /\ Name[d] < Name[e]
  OBVIOUS
<1> HIDE DEF ahead
<1>5. \A d \in found : <<d, d>> \notin ahead BY <1>3, <1>4
<1>6. ASSUME NEW d \in found PROVE FusionRank(hits, used)[d] \in 1..Size
  BY <1>1, <1>2, <1>5, PlaceType
<1>7. ASSUME NEW d \in Docs, NEW e \in found, Preferred(hits, used, d, e)
      PROVE FusionRank(hits, used)[d] < FusionRank(hits, used)[e]
  <2>1. d \in found /\ Score(hits, used, e) < Score(hits, used, d) BY <1>7, ScorePreferred DEF found
  <2>2. score[d] > score[e] BY <1>3, <2>1
  <2>3. <<d, e>> \in ahead BY <1>4, <2>1, <2>2
  <2>4. ASSUME NEW x \in found, <<x, d>> \in ahead PROVE <<x, e>> \in ahead
    BY <1>3, <1>4, <2>1, <2>2, <2>4
  <2>5. Standing(found, ahead, d) < Standing(found, ahead, e)
    BY <1>1, <1>5, <2>1, <2>3, <2>4, AheadStandsBefore
  <2> QED BY <1>2, <2>1, <2>5
<1> QED BY <1>6, <1>7 DEF found

-----------------------------------------------------------------------------
(* Citing by agreement                                                     *)

\* Of the documents in a finite set, one has none of them ahead of it.
LEMMA FirstOf ==
  ASSUME NEW A \in SUBSET Docs, A # {}, NEW ahead,
         \A x \in A : <<x, x>> \notin ahead,
         \A x, y, z \in A : <<x, y>> \in ahead /\ <<y, z>> \in ahead => <<x, z>> \in ahead
  PROVE \E x \in A : \A y \in A : <<y, x>> \notin ahead
<1> DEFINE T == {Standing(A, ahead, x) : x \in A}
<1>1. T \subseteq Nat BY StandingIsNat
<1>2. T # {} OBVIOUS
<1>3. PICK n \in T : \A m \in T : n <= m
  <2> HIDE DEF T
  <2> QED BY <1>1, <1>2, Smallest
<1>4. PICK x \in A : n = Standing(A, ahead, x) OBVIOUS
<1>5. ASSUME NEW y \in A, <<y, x>> \in ahead PROVE FALSE
  <2>1. Standing(A, ahead, y) < Standing(A, ahead, x) BY <1>5, AheadStandsBefore
  <2>2. Standing(A, ahead, x) <= Standing(A, ahead, y) BY <1>3, <1>4
  <2> QED BY <2>1, <2>2, StandingIsNat
<1> QED BY <1>5

\* Where the fused order and the reranker agree they stand: the one that both
\* put first is cited if the other is, or a copy of it is.
LEMMA AssembledAgrees ==
  ASSUME NEW S \in SUBSET Docs, NEW ranked \in Rankings(S), NEW rank, NEW above \in Nat,
         \A x \in S : rank[x] \in 1..Size,
         NEW d \in S, NEW e \in Assembled(rank, ranked, above),
         ranked[d] < ranked[e], rank[d] < rank[e]
  PROVE \/ d \in Assembled(rank, ranked, above)
        \/ d \in Twins /\ Twins \cap Assembled(rank, ranked, above) # {}
<1> DEFINE weight == [x \in S |-> Part(ranked[x]) + Part(rank[x])]
           ahead == {p \in S \X S :
                       \/ weight[p[1]] > weight[p[2]]
                       \/ weight[p[1]] = weight[p[2]] /\ ranked[p[1]] < ranked[p[2]]}
           clear == {x \in S : ranked[x] <= above}
           first == {x \in clear : x \in Twins => \A y \in clear \cap Twins : <<y, x>> \notin ahead}
           cited == {x \in first : Standing(first, ahead, x) <= Budget}
<1>1. Assembled(rank, ranked, above) = cited
  <2>1. DOMAIN ranked = S BY DEF Rankings
  <2> QED BY <2>1 DEF Assembled
<1>2. Size \in Nat /\ \A x \in S : ranked[x] \in 1..Size
  <2>1. IsFiniteSet(Docs) BY RetrievalAssumption
  <2>2. Cardinality(S) <= Size /\ Cardinality(S) \in Nat /\ Size \in Nat
    BY <2>1, FS_Subset, FS_CardinalityType DEF Size
  <2> QED BY <2>2 DEF Rankings
<1>3. e \in S /\ e \in clear /\ e \in first /\ Standing(first, ahead, e) <= Budget BY <1>1
<1>4. \A x \in S : Part(ranked[x]) \in Nat /\ Part(rank[x]) \in Nat BY <1>2, PartType
<1>5. \A x \in S : weight[x] \in Nat /\ weight[x] = Part(ranked[x]) + Part(rank[x]) BY <1>4
<1>6. weight[d] > weight[e]
  <2>1. Part(ranked[d]) > Part(ranked[e]) /\ Part(rank[d]) > Part(rank[e]) BY <1>2, <1>3, PartFalls
  <2> HIDE DEF weight
  <2> QED BY <1>3, <1>4, <1>5, <2>1
<1> HIDE DEF weight
<1>7. \A x, y \in S : <<x, y>> \in ahead <=> \/ weight[x] > weight[y]
                                             \/ weight[x] = weight[y] /\ ranked[x] < ranked[y]
  OBVIOUS
<1>8. <<d, e>> \in ahead BY <1>3, <1>6, <1>7
<1>9. \A x \in S : <<x, x>> \notin ahead BY <1>2, <1>5, <1>7
<1>10. \A x, y, z \in S : <<x, y>> \in ahead /\ <<y, z>> \in ahead => <<x, z>> \in ahead
  BY <1>2, <1>5, <1>7
<1>11. d \in clear
  <2>1. ranked[e] <= above /\ ranked[d] \in Nat /\ ranked[e] \in Nat BY <1>2, <1>3
  <2> QED BY <2>1
<1>12. clear \in SUBSET S /\ first \in SUBSET clear /\ first \in SUBSET Docs OBVIOUS
<1> HIDE DEF ahead
<1>13. ASSUME NEW x \in first, <<x, e>> \in ahead PROVE x \in cited
  <2>1. Standing(first, ahead, x) < Standing(first, ahead, e)
    <3>1. \A y \in first : <<y, x>> \in ahead => <<y, e>> \in ahead BY <1>3, <1>10, <1>12, <1>13
    <3> HIDE DEF first
    <3> QED BY <1>3, <1>9, <1>12, <1>13, <3>1, AheadStandsBefore
  <2>2. Standing(first, ahead, x) \in Nat /\ Standing(first, ahead, e) \in Nat
    BY <1>12, StandingIsNat
  <2>3. Budget \in Nat BY RetrievalAssumption
  <2> QED BY <1>3, <2>1, <2>2, <2>3
<1>14. CASE d \in first BY <1>1, <1>8, <1>13, <1>14
<1>15. CASE d \notin first
  <2> DEFINE A == {x \in clear \cap Twins : <<x, d>> \in ahead}
  <2>1. d \in Twins /\ A # {} BY <1>11, <1>15
  <2>2. A \in SUBSET S /\ A \in SUBSET Docs OBVIOUS
  <2>3. PICK x \in A : \A y \in A : <<y, x>> \notin ahead
    <3> HIDE DEF A
    <3>1. \A y \in A : <<y, y>> \notin ahead BY <1>9, <2>2
    <3>2. \A u, v, w \in A : <<u, v>> \in ahead /\ <<v, w>> \in ahead => <<u, w>> \in ahead
      BY <1>10, <2>2
    <3> QED BY <2>1, <2>2, <3>1, <3>2, FirstOf
  <2>4. x \in clear /\ x \in Twins /\ x \in S /\ <<x, d>> \in ahead OBVIOUS
  <2>5. ASSUME NEW y \in clear \cap Twins, <<y, x>> \in ahead PROVE FALSE
    <3>1. <<y, d>> \in ahead BY <1>10, <1>12, <2>4, <2>5
    <3> QED BY <2>3, <2>5, <3>1
  <2>6. x \in first BY <2>4, <2>5
  <2>7. <<x, e>> \in ahead BY <1>3, <1>8, <1>10, <2>4
  <2>8. x \in cited BY <1>13, <2>6, <2>7
  <2> QED BY <1>1, <2>1, <2>4, <2>8
<1> QED BY <1>14, <1>15

Fused == Resolving \cup Recovering

\* What AgreementStands says of one question.
Agreed(q) ==
  \A d, e \in Docs :
    (/\ q.ranked[d] # 0 /\ q.ranked[d] < q.ranked[e]
     /\ \A ch \in q.used : e \in q.hits[ch] => d \in q.hits[ch] /\ Match[ch][d] < Match[ch][e]
     /\ e \in q.cited)
    => d \in q.cited \/ (d \in Twins /\ Twins \cap q.cited # {})

\* While a question has candidates their order is that of the fusion.
QAgrees(q) ==
  /\ q.step \in Fused => q.rank = FusionRank(q.hits, q.used)
  /\ Agreed(q)
AgreesInv == \A r \in Readers : QAgrees(ask[r])

\* r's question is replaced by one that agrees.
AgreesTurn(r) == \E n : Go(r, n) /\ QAgrees(n)

\* It cites nothing yet, and has the candidates that it had or none.
Keeps(q, n) ==
  /\ n.cited = {}
  /\ n.step \in Fused => q.step \in Fused /\ n.rank = q.rank /\ n.hits = q.hits /\ n.used = q.used

LEMMA KeepsAgrees ==
  ASSUME NEW q, QAgrees(q), NEW n, Keeps(q, n)
  PROVE QAgrees(n)
BY DEF QAgrees, Agreed, Keeps

LEMMA FinishedKeeps ==
  ASSUME NEW q \in Questions, q.cited = {}, NEW p
  PROVE Keeps(p, Finished(q))
<1>1. Finished(q).step = "done" /\ Finished(q).cited = {} BY DEF Finished, Questions
<1> QED BY <1>1 DEF Keeps, Fused, Resolving, Recovering

LEMMA ResolvedKeeps ==
  ASSUME NEW q \in Questions, q.cited = {}, q.step \in Fused
  PROVE Keeps(q, Resolved(q))
<1> DEFINE left == {d \in Docs : q.version[d] # 0}
           n == [q EXCEPT !.todo = left, !.step = "prime"]
<1>1. n.cited = {} /\ n.rank = q.rank /\ n.hits = q.hits /\ n.used = q.used BY DEF Questions
<1>2. Keeps(q, n) BY <1>1 DEF Keeps
<1> QED BY <1>2, FinishedKeeps DEF Resolved

LEMMA OnwardKeeps ==
  ASSUME NEW q \in Questions, q.cited = {}, q.step \in Fused, NEW d
  PROVE Keeps(q, Onward(q, d))
<1> DEFINE n == [q EXCEPT !.todo = @ \ {d}]
<1>1. n.cited = {} /\ n.rank = q.rank /\ n.hits = q.hits /\ n.used = q.used BY DEF Questions
<1>2. Keeps(q, n) BY <1>1 DEF Keeps
<1> QED BY <1>2, ResolvedKeeps DEF Onward

LEMMA LoadedKeeps ==
  ASSUME NEW q \in Questions, q.cited = {}, q.step \in Fused, NEW d, NEW text
  PROVE Keeps(q, Loaded(q, d, text))
<1> DEFINE n == Loaded(q, d, text)
<1>1. n.cited = {} /\ n.rank = q.rank /\ n.hits = q.hits /\ n.used = q.used
  BY DEF Questions, Loaded
<1> QED BY <1>1 DEF Keeps

\* A question that works cites nothing yet.
LEMMA NotYetCited ==
  ASSUME Inv, NEW r \in Readers, ask[r].step # "done"
  PROVE ask[r] \in Questions /\ ask[r].cited = {}
<1>1. ask[r] \in Questions /\ QSound(ask[r], sight[r]) BY QuestionOf
<1> QED BY <1>1 DEF QSound

LEMMA ChannelKeeps ==
  ASSUME Inv, NEW r \in Readers,
         IndexAnswers(r) \/ StoreAnswers(r) \/ \E ch \in Channels : Breaks(r, ch)
  PROVE \E n : Go(r, n) /\ Keeps(ask[r], n)
<1> DEFINE q == ask[r]
<1>1. q \in Questions /\ QSound(q, sight[r]) BY QuestionOf
<1>2. q.step = "search" /\ q.cited = {}
  <2>1. \E ch \in Channels : q.thread[ch] = "out"
    BY DEF IndexAnswers, StoreAnswers, Breaks, Channels
  <2> QED BY <1>1, <2>1 DEF QSound
<1>3. \A n : n.step = "search" /\ n.cited = {} => Keeps(q, n)
  BY DEF Keeps, Fused, Resolving, Recovering
<1>4. CASE IndexAnswers(r)
  <2>1. PICK hits \in SUBSET Matched("pgp"), reranked \in BOOLEAN :
          Go(r, [q EXCEPT !.thread["pgp"] = "back", !.hits["pgp"] = hits, !.reranked = reranked])
    BY <1>4, IndexGoes
  <2> DEFINE n == [q EXCEPT !.thread["pgp"] = "back", !.hits["pgp"] = hits, !.reranked = reranked]
  <2>2. n.step = "search" /\ n.cited = {} BY <1>1, <1>2 DEF Questions
  <2> QED BY <1>3, <2>1, <2>2
<1>5. CASE StoreAnswers(r)
  <2> DEFINE n == [q EXCEPT !.thread["ecm"] = "back",
                            !.hits["ecm"] = {d \in Matched("ecm") : ecm[d].there}]
  <2>1. Go(r, n) BY <1>5 DEF StoreAnswers
  <2>2. n.step = "search" /\ n.cited = {} BY <1>1, <1>2 DEF Questions
  <2> QED BY <1>3, <2>1, <2>2
<1>6. ASSUME NEW ch \in Channels, Breaks(r, ch) PROVE \E n : Go(r, n) /\ Keeps(q, n)
  <2>1. PICK reranked \in BOOLEAN : Go(r, [q EXCEPT !.thread[ch] = "failed", !.reranked = reranked])
    BY <1>1, <1>6, ChannelGoes
  <2> DEFINE n == [q EXCEPT !.thread[ch] = "failed", !.reranked = reranked]
  <2>2. n.step = "search" /\ n.cited = {} BY <1>1, <1>2 DEF Questions
  <2> QED BY <1>3, <2>1, <2>2
<1> QED BY <1>4, <1>5, <1>6

\* The fusion is over what the channels that are used have found.
LEMMA JoinAgrees ==
  ASSUME Inv, NEW r \in Readers, Join(r)
  PROVE AgreesTurn(r)
<1> DEFINE q == ask[r]
           failed(late) == late \cup {ch \in Channels : q.thread[ch] = "failed"}
           used(late) == {ch \in Channels \ failed(late) : q.hits[ch] # {}}
           m(late) == [q EXCEPT !.thread = Resting.thread, !.said = failed(late), !.used = used(late)]
           n(late) == [m(late) EXCEPT !.step = "batch", !.rank = FusionRank(q.hits, used(late)),
                                      !.todo = Found(q.hits, used(late))]
<1>1. q.step = "search" BY DEF Join, Joined
<1>2. q \in Questions /\ q.cited = {} BY <1>1, NotYetCited
<1>3. PICK late \in SUBSET Channels :
        Go(r, IF used(late) = {} THEN Finished(m(late)) ELSE n(late))
  BY DEF Join
<1>4. Resting.thread \in [Channels -> {"off"}] BY DEF Resting
<1>5. m(late) \in Questions BY <1>2, <1>4 DEF Questions
<1>6. m(late).used = used(late) /\ m(late).hits = q.hits /\ m(late).cited = {} BY <1>2 DEF Questions
<1> HIDE DEF m
<1>7. CASE used(late) = {}
  <2>1. Keeps(q, Finished(m(late))) BY <1>5, <1>6, FinishedKeeps
  <2>2. Finished(m(late)).cited = {} /\ Finished(m(late)).step = "done"
    BY <1>5, <1>6 DEF Finished, Questions
  <2>3. QAgrees(Finished(m(late))) BY <2>2 DEF QAgrees, Agreed, Fused, Resolving, Recovering
  <2> QED BY <1>3, <1>7, <2>3 DEF AgreesTurn
<1>8. CASE used(late) # {}
  <2>1. /\ n(late).rank = FusionRank(q.hits, used(late)) /\ n(late).cited = {}
        /\ n(late).hits = q.hits /\ n(late).used = used(late)
    BY <1>5, <1>6 DEF Questions
  <2>2. Go(r, n(late)) BY <1>3, <1>8
  <2> HIDE DEF n
  <2>3. QAgrees(n(late)) BY <2>1 DEF QAgrees, Agreed
  <2> QED BY <2>2, <2>3 DEF AgreesTurn
<1> QED BY <1>7, <1>8

LEMMA ResolvingKeeps ==
  ASSUME Inv, NEW r \in Readers,
         Batch(r) \/ BatchFails(r) \/ \E d \in Docs : Resolve(r, d) \/ Unresolved(r, d)
  PROVE \E n : Go(r, n) /\ Keeps(ask[r], n)
<1> DEFINE q == ask[r]
<1>1. q.step \in Resolving BY DEF Batch, BatchFails, Resolve, Unresolved, Resolving
<1>2. q \in Questions /\ q.cited = {} BY <1>1, NotYetCited DEF Resolving
<1>3. q.step \in Fused BY <1>1 DEF Fused
<1>4. ASSUME NEW m \in Questions, m.cited = {}, m.step = q.step,
             m.rank = q.rank, m.hits = q.hits, m.used = q.used
      PROVE \A n : Keeps(m, n) => Keeps(q, n)
  BY <1>4 DEF Keeps
<1>5. \A d \in Docs : Resolution(r, d) \in 0..MaxVersion
  BY <1>1, ResolutionHolds DEF Asking, Resolving
<1>6. MaxVersion \in Nat BY RetrievalAssumption
<1>7. CASE Batch(r)
  <2> DEFINE m == [q EXCEPT !.version = [d \in Docs |-> IF d \in q.todo THEN Resolution(r, d) ELSE 0]]
  <2>1. Go(r, Resolved(m)) BY <1>7 DEF Batch
  <2>2. [d \in Docs |-> IF d \in q.todo THEN Resolution(r, d) ELSE 0] \in [Docs -> 0..MaxVersion]
    BY <1>5, <1>6
  <2>3. m \in Questions BY <1>2, <2>2 DEF Questions
  <2>4. m.cited = {} /\ m.step = q.step /\ m.rank = q.rank /\ m.hits = q.hits /\ m.used = q.used
    BY <1>2 DEF Questions
  <2> HIDE DEF m
  <2>5. Keeps(m, Resolved(m)) BY <1>3, <2>3, <2>4, ResolvedKeeps
  <2> QED BY <1>4, <2>1, <2>3, <2>4, <2>5
<1>8. CASE BatchFails(r)
  <2> DEFINE n == [q EXCEPT !.step = "resolve"]
  <2>1. Go(r, n) BY <1>8 DEF BatchFails
  <2>2. n.cited = {} /\ n.rank = q.rank /\ n.hits = q.hits /\ n.used = q.used
    BY <1>2 DEF Questions
  <2> HIDE DEF n
  <2> QED BY <1>3, <2>1, <2>2 DEF Keeps
<1>9. ASSUME NEW d \in Docs, Resolve(r, d) PROVE \E n : Go(r, n) /\ Keeps(q, n)
  <2> DEFINE m == [q EXCEPT !.version[d] = Resolution(r, d)]
  <2>1. Go(r, Onward(m, d)) BY <1>9 DEF Resolve
  <2>2. m \in Questions BY <1>2, <1>5 DEF Questions
  <2>3. m.cited = {} /\ m.step = q.step /\ m.rank = q.rank /\ m.hits = q.hits /\ m.used = q.used
    BY <1>2 DEF Questions
  <2> HIDE DEF m
  <2>4. Keeps(m, Onward(m, d)) BY <1>3, <2>2, <2>3, OnwardKeeps
  <2> QED BY <1>4, <2>1, <2>2, <2>3, <2>4
<1>10. ASSUME NEW d \in Docs, Unresolved(r, d) PROVE \E n : Go(r, n) /\ Keeps(q, n)
  <2> DEFINE m == [q EXCEPT !.lost = @ \cup {d}]
  <2>1. Go(r, Onward(m, d)) BY <1>10 DEF Unresolved
  <2>2. m \in Questions BY <1>2 DEF Questions
  <2>3. m.cited = {} /\ m.step = q.step /\ m.rank = q.rank /\ m.hits = q.hits /\ m.used = q.used
    BY <1>2 DEF Questions
  <2> HIDE DEF m
  <2>4. Keeps(m, Onward(m, d)) BY <1>3, <2>2, <2>3, OnwardKeeps
  <2> QED BY <1>4, <2>1, <2>2, <2>3, <2>4
<1> QED BY <1>7, <1>8, <1>9, <1>10

LEMMA RecoveringKeeps ==
  ASSUME Inv, NEW r \in Readers,
         Prime(r) \/ Fill(r) \/ Refuse(r) \/
         \E d \in Docs : LoadCached(r, d) \/ LoadStored(r, d) \/ Fetch(r, d) \/ Unfetched(r, d) \/ Put(r, d)
  PROVE \E n : Go(r, n) /\ Keeps(ask[r], n)
<1> DEFINE q == ask[r]
<1>1. q.step \in Recovering
  BY DEF Prime, Fill, Refuse, LoadCached, LoadStored, Fetch, Unfetched, Put, Recovering
<1>2. q \in Questions /\ q.cited = {} BY <1>1, NotYetCited DEF Recovering
<1>3. q.step \in Fused BY <1>1 DEF Fused
<1>4. CASE Prime(r)
  <2> DEFINE n == [q EXCEPT !.step = "fill",
       !.text = [d \in Docs |-> IF d \in q.todo /\ Cached(q, d) = 0 THEN chunks[d] ELSE 0]]
  <2>1. Go(r, n) BY <1>4 DEF Prime
  <2>2. n.cited = {} /\ n.rank = q.rank /\ n.hits = q.hits /\ n.used = q.used
    BY <1>2 DEF Questions
  <2> HIDE DEF n
  <2> QED BY <1>3, <2>1, <2>2 DEF Keeps
<1>5. CASE Fill(r)
  <2> DEFINE n == [q EXCEPT !.step = "load", !.text = Nowhere]
  <2>1. Go(r, n) BY <1>5 DEF Fill
  <2>2. n.cited = {} /\ n.rank = q.rank /\ n.hits = q.hits /\ n.used = q.used
    BY <1>2 DEF Questions
  <2> HIDE DEF n
  <2> QED BY <1>3, <2>1, <2>2 DEF Keeps
<1>6. CASE Refuse(r) BY <1>2, <1>6, FinishedKeeps DEF Refuse
<1>7. ASSUME NEW d \in Docs, LoadCached(r, d) \/ Put(r, d) PROVE \E n : Go(r, n) /\ Keeps(q, n)
  BY <1>2, <1>3, <1>7, LoadedKeeps DEF LoadCached, Put
<1>8. ASSUME NEW d \in Docs, LoadStored(r, d) PROVE \E n : Go(r, n) /\ Keeps(q, n)
  <2> DEFINE n == IF chunks[d] = 0 THEN [q EXCEPT !.step = "fetch"]
                  ELSE [q EXCEPT !.step = "put", !.text[d] = chunks[d]]
  <2>1. Go(r, n) BY <1>8 DEF LoadStored
  <2>2. n.cited = {} /\ n.rank = q.rank /\ n.hits = q.hits /\ n.used = q.used
    BY <1>2 DEF Questions
  <2> HIDE DEF n
  <2> QED BY <1>3, <2>1, <2>2 DEF Keeps
<1>9. ASSUME NEW d \in Docs, Fetch(r, d) PROVE \E n : Go(r, n) /\ Keeps(q, n)
  <2> DEFINE n == [q EXCEPT !.step = "put", !.text[d] = ecm[d].version]
  <2>1. Go(r, n) BY <1>9 DEF Fetch
  <2>2. n.cited = {} /\ n.rank = q.rank /\ n.hits = q.hits /\ n.used = q.used
    BY <1>2 DEF Questions
  <2> HIDE DEF n
  <2> QED BY <1>3, <2>1, <2>2 DEF Keeps
<1>10. ASSUME NEW d \in Docs, Unfetched(r, d) PROVE \E n : Go(r, n) /\ Keeps(q, n)
  <2> DEFINE m == Loaded(q, d, 0)
             n == [m EXCEPT !.lost = @ \cup {d}]
  <2>1. Go(r, n) BY <1>10 DEF Unfetched
  <2>2. n.cited = {} /\ n.rank = q.rank /\ n.hits = q.hits /\ n.used = q.used
    BY <1>2 DEF Questions, Loaded
  <2> HIDE DEF n
  <2> QED BY <1>3, <2>1, <2>2 DEF Keeps
<1> QED BY <1>4, <1>5, <1>6, <1>7, <1>8, <1>9, <1>10

\* What is cited was ranked among what was found, in the fused order.
LEMMA CiteAgrees ==
  ASSUME Inv, NEW r \in Readers, QAgrees(ask[r]),
         NEW by \in {"pgp", "local"}, NEW more \in SUBSET {"reranker"}, Cite(r, by, more)
  PROVE AgreesTurn(r)
<1> DEFINE q == ask[r]
           place(S, ranked) == [d \in Docs |-> IF d \in S THEN ranked[d] ELSE 0]
           m(S, ranked, above) ==
             [q EXCEPT !.said = @ \cup more, !.by = by, !.ranked = place(S, ranked),
                       !.cited = Assembled(q.rank, ranked, above)]
<1>1. q \in Questions /\ QSound(q, sight[r]) BY QuestionOf
<1>2. q.step = "rank" BY DEF Cite
<1>3. PICK S \in Shortlisted(Pool(q)) : \E ranked \in Rankings(S) : \E above \in 0..Cardinality(S) :
        Go(r, Finished(m(S, ranked, above)))
  BY DEF Cite
<1>4. PICK ranked \in Rankings(S), above \in 0..Cardinality(S) : Go(r, Finished(m(S, ranked, above)))
  BY <1>3
<1> DEFINE cited == Assembled(q.rank, ranked, above)
           n == Finished(m(S, ranked, above))
<1>5. S \subseteq Pool(q) /\ Pool(q) \subseteq Docs /\ above \in Nat
  BY DEF Shortlisted, Pool
<1>6. /\ n.step = "done" /\ n.hits = q.hits /\ n.used = q.used
      /\ n.ranked = place(S, ranked) /\ n.cited = cited
  <2> HIDE DEF place, cited
  <2> QED BY <1>1 DEF Questions, Finished, cited
<1>7. q.rank = FusionRank(q.hits, q.used) BY <1>2 DEF QAgrees, Fused, Recovering
<1>8. \A d \in S : d \in Found(q.hits, q.used) BY <1>1, <1>2, <1>5 DEF QSound, Pool
<1>9. q.hits \in [Channels -> SUBSET Docs] /\ q.used \in SUBSET Channels BY <1>1 DEF Questions
<1>10. cited \subseteq S BY DEF Assembled, Rankings
<1> HIDE DEF n, cited, m
<1>11. ASSUME NEW d \in Docs, NEW e \in Docs, n.ranked[d] # 0, n.ranked[d] < n.ranked[e],
              Preferred(n.hits, n.used, d, e), e \in n.cited
       PROVE d \in n.cited \/ (d \in Twins /\ Twins \cap n.cited # {})
  <2>1. d \in S /\ e \in S BY <1>6, <1>10, <1>11
  <2>2. ranked[d] < ranked[e] BY <1>6, <1>11, <2>1
  <2>3. /\ \A x \in S : q.rank[x] \in 1..Size
        /\ q.rank[d] < q.rank[e]
    BY <1>6, <1>7, <1>8, <1>9, <1>11, <2>1, FusionPreferred
  <2>4. e \in Assembled(q.rank, ranked, above) BY <1>6, <1>11 DEF cited
  <2>5. S \in SUBSET Docs BY <1>5
  <2> QED BY <1>5, <1>6, <2>1, <2>2, <2>3, <2>4, <2>5, AssembledAgrees DEF cited
<1>12. Agreed(n) BY <1>11 DEF Agreed, Preferred
<1>13. QAgrees(n) BY <1>6, <1>12 DEF QAgrees, Fused, Resolving, Recovering
<1> QED BY <1>4, <1>13 DEF AgreesTurn, n

LEMMA RestingAgrees ==
  /\ QAgrees(Resting) /\ QAgrees(Finished(Resting))
  /\ QAgrees([Resting EXCEPT !.step = "search", !.denied = rules.denied,
                             !.thread = [ch \in Channels |-> "out"]])
BY DEF QAgrees, Agreed, Resting, Finished, Fused, Resolving, Recovering

LEMMA WorkingAgrees ==
  ASSUME Inv, NEW r \in Readers, QAgrees(ask[r]), Working(r)
  PROVE AgreesTurn(r)
<1>1. ASSUME \E n : Go(r, n) /\ Keeps(ask[r], n) PROVE AgreesTurn(r)
  BY <1>1, KeepsAgrees DEF AgreesTurn
<1>2. CASE IndexAnswers(r) \/ StoreAnswers(r) \/ Breaks(r, "pgp") \/ Breaks(r, "ecm")
  BY <1>1, <1>2, ChannelKeeps DEF Channels
<1>3. CASE Join(r) \/ Raises(r) BY <1>3, JoinAgrees, RestingAgrees DEF Raises, AgreesTurn
<1>4. CASE Batch(r) \/ BatchFails(r) \/ \E d \in Docs : Resolve(r, d) \/ Unresolved(r, d)
  BY <1>1, <1>4, ResolvingKeeps
<1>5. CASE Prime(r) \/ Fill(r) \/ Refuse(r) \/
         \E d \in Docs : LoadCached(r, d) \/ LoadStored(r, d) \/ Fetch(r, d) \/ Unfetched(r, d) \/ Put(r, d)
  BY <1>1, <1>5, RecoveringKeeps
<1>6. CASE IndexRanks(r) \/ Reranks(r) \/ RerankFails(r)
  BY <1>6, CiteAgrees DEF IndexRanks, Reranks, RerankFails
<1> QED BY <1>2, <1>3, <1>4, <1>5, <1>6 DEF Working, Retrieve

LEMMA StepAgrees == Inv /\ AgreesInv /\ [Next]_vars => AgreesInv'
<1> SUFFICES ASSUME Inv, AgreesInv, [Next]_vars PROVE AgreesInv' OBVIOUS
<1>1. ask \in [Readers -> Questions] BY DEF Inv, TypeOK
<1>2. ASSUME NEW r \in Readers, NEW n, Go(r, n), QAgrees(n) PROVE AgreesInv'
  <2>1. \A s \in Readers : ask'[s] = IF s = r THEN n ELSE ask[s] BY <1>1, <1>2 DEF Go
  <2>2. \A s \in Readers : QAgrees(ask'[s]) BY <1>2, <2>1 DEF AgreesInv
  <2> QED BY <2>2 DEF AgreesInv, QAgrees, Agreed
<1>3. CASE UNCHANGED ask
  <2>1. \A s \in Readers : QAgrees(ask'[s]) BY <1>3 DEF AgreesInv
  <2> QED BY <2>1 DEF AgreesInv, QAgrees, Agreed
<1>4. CASE World BY <1>3, <1>4 DEF World, Edit, Refit, Remove, Index, Rule, Regrant, Pause, Happens
<1>5. ASSUME NEW r \in Readers, Ask(r) PROVE AgreesInv'
  BY <1>2, <1>5, RestingAgrees DEF Ask
<1>6. ASSUME NEW r \in Readers, Working(r) PROVE AgreesInv'
  BY <1>2, <1>6, WorkingAgrees DEF AgreesTurn, AgreesInv
<1>7. CASE UNCHANGED vars BY <1>3, <1>7 DEF vars
<1> QED BY <1>4, <1>5, <1>6, <1>7 DEF Next, Working

\* What the channels and the reranker agree on stands: whatever they rank and
\* whatever the budget is, the two orders are added so that the passage both put
\* first is cited if the other is, or a copy of it is (_reciprocal_rank_fusion,
\* _assemble).
THEOREM AgreementStandsHolds == Spec => []AgreementStands
<1>1. Init => AgreesInv BY RestingAgrees DEF Init, AgreesInv
<1>2. AgreesInv => AgreementStands BY DEF AgreesInv, QAgrees, Agreed, AgreementStands
<1> QED BY <1>1, <1>2, StepAgrees, Invariance, PTL DEF Spec
=============================================================================
