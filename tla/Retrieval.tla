----------------------------- MODULE Retrieval -----------------------------
(***************************************************************************)
(* RetrievalService.retrieve and the passage cache under it                *)
(* (services/retrieval.py, services/passages.py).                          *)
(*                                                                         *)
(* A question is put to two channels at once: the index ("pgp") and the    *)
(* store's own search ("ecm"). Each is waited for only so long, but leaving *)
(* the pool waits for both. Candidates are fused by rank, resolved         *)
(* against the store (is it there, may this reader open it, is it in scope *)
(* and not archived, does the role reach it), their passages are recovered *)
(* through a cache all questions share, ranked and cited.                  *)
(*                                                                         *)
(* Meanwhile documents are edited, closed, opened, removed and indexed,    *)
(* and the role and the connector are edited. A text is the number of the  *)
(* version it was written in; a document has one passage.                  *)
(***************************************************************************)
EXTENDS Naturals, FiniteSets

CONSTANTS
  Docs,
  Readers,      \* who asks; each has one question at a time
  Match,        \* Match[ch][d]: where ch ranks d for the question, 0 for not at all
  Twins,        \* documents that hold the same passage
  Unreadable,   \* documents the parser refuses
  Unversioned,  \* documents the store has no version for
  MaxVersion,   \* bound: versions of a document
  MaxEdits,     \* bound: what happens to documents, rights, roles and the index
  Shortlist,    \* rerank_shortlist
  Budget,       \* context_budget_chunks
  Rrf,          \* rrf_constant
  Local,        \* the connector names a reranker of its own
  Name          \* Name[d]: the order of the identifiers

Channels == {"pgp", "ecm"}
Versions == 1..MaxVersion
Size == Cardinality(Docs)

ASSUME RetrievalAssumption ==
  /\ IsFiniteSet(Docs)
  /\ Match \in [Channels -> [Docs -> Nat]]
  /\ Twins \subseteq Docs /\ Unreadable \subseteq Docs /\ Unversioned \subseteq Docs
  /\ MaxVersion \in Nat \ {0} /\ MaxEdits \in Nat
  /\ Shortlist \in Nat /\ Budget \in Nat /\ Rrf \in Nat /\ Local \in BOOLEAN
  /\ Name \in [Docs -> Nat]

VARIABLES
  ecm,      \* the store's document: [version, readers, fit, there]
  chunks,   \* the version our own index has cut up, 0 for none
  rules,    \* [active, denied]: the connector, and what the role may not reach
  cache,    \* PassageService._cache: cache[d][key] is the text under the key, 0 for none
  ask,      \* ask[r]: the question of r
  sight,    \* history: what r could have opened since r asked, while r is asking
  past,     \* history: past[d][v]: texts the index or the store had since v
  calm,     \* history: nothing has happened since r asked
  edits     \* what may still happen

world == <<ecm, chunks, rules>>
history == <<sight, past, calm>>
vars == <<world, cache, ask, history, edits>>

-----------------------------------------------------------------------------

\* 1 / (rrf_constant + place), in units that make it a whole number: Product[n]
\* is a multiple of rrf_constant + place for each of the first n places.
Product[n \in Nat] == IF n = 0 THEN 1 ELSE (Rrf + n) * Product[n - 1]
Part(place) == Product[Size] \div (Rrf + place)

\* Where d stands in S when what `ahead` puts first comes first.
Standing(S, ahead, d) == Cardinality({e \in S : <<e, d>> \in ahead}) + 1

\* _reciprocal_rank_fusion of the channels used; identifiers break ties.
Found(hits, used) == UNION {hits[ch] : ch \in used}
Position(hits, ch, d) == Cardinality({e \in hits[ch] : Match[ch][e] <= Match[ch][d]})
Score(hits, used, d) ==
  LET part(ch) == IF ch \in used /\ d \in hits[ch] THEN Part(Position(hits, ch, d)) ELSE 0
  IN part("pgp") + part("ecm")
FusionRank(hits, used) ==
  LET found == Found(hits, used)
      score == [d \in found |-> Score(hits, used, d)]
      ahead == {p \in found \X found :
                  \/ score[p[1]] > score[p[2]]
                  \/ score[p[1]] = score[p[2]] /\ Name[p[1]] < Name[p[2]]}
  IN [d \in Docs |-> IF d \in found THEN Standing(found, ahead, d) ELSE 0]

Nowhere == [d \in Docs |-> 0]

Resting ==
  [step |-> "idle", denied |-> {}, thread |-> [ch \in Channels |-> "off"],
   hits |-> [ch \in Channels |-> {}], reranked |-> FALSE,
   used |-> {}, said |-> {}, rank |-> Nowhere, todo |-> {},
   version |-> Nowhere, text |-> Nowhere, lost |-> {},
   ranked |-> Nowhere, cited |-> {}, by |-> "none"]

Steps == {"idle", "search", "batch", "resolve", "prime", "fill",
          "load", "fetch", "put", "rank", "done"}

Asking(r) == ask[r].step \notin {"idle", "done"}
Done(r) == ask[r].step = "done"

\* retrieve returns: its locals are gone.
Finished(q) ==
  [q EXCEPT !.step = "done", !.denied = {}, !.reranked = FALSE, !.rank = Nowhere,
            !.todo = {}, !.version = Nowhere]

\* What the store lets r read and the connector's scope and ages let through.
Open(r) == {d \in Docs : ecm[d].there /\ r \in ecm[d].readers /\ ecm[d].fit}

\* The texts that a passage of d could be made of now.
Texts(d) == ({chunks[d]} \ {0}) \cup (IF ecm[d].there THEN {ecm[d].version} ELSE {})

Questions ==
  [step : Steps, denied : SUBSET Docs, thread : [Channels -> {"off", "out", "back", "failed"}],
   hits : [Channels -> SUBSET Docs], reranked : BOOLEAN,
   used : SUBSET Channels, said : SUBSET (Channels \cup {"reranker"}),
   rank : [Docs -> Nat], todo : SUBSET Docs,
   version : [Docs -> 0..MaxVersion], text : [Docs -> 0..MaxVersion], lost : SUBSET Docs,
   ranked : [Docs -> Nat], cited : SUBSET Docs, by : {"none", "pgp", "local"}]

\* Every variable has its type: ranks are numbers, versions and texts are of the store's.
TypeOK ==
  /\ ecm \in [Docs -> [version : Versions, readers : SUBSET Readers, fit : BOOLEAN, there : BOOLEAN]]
  /\ chunks \in [Docs -> 0..MaxVersion]
  /\ rules \in [active : BOOLEAN, denied : SUBSET Docs]
  /\ cache \in [Docs -> [0..MaxVersion -> 0..MaxVersion]]
  /\ ask \in [Readers -> Questions]
  /\ sight \in [Readers -> SUBSET Docs]
  /\ past \in [Docs -> [Versions -> SUBSET Versions]]
  /\ calm \in [Readers -> BOOLEAN]
  /\ edits \in Nat

Init ==
  /\ ecm = [d \in Docs |-> [version |-> 1, readers |-> Readers, fit |-> TRUE, there |-> TRUE]]
  /\ chunks \in [Docs -> {0, 1}]
  /\ \A d \in Unreadable : chunks[d] = 0
  /\ rules = [active |-> TRUE, denied |-> {}]
  /\ cache = [d \in Docs |-> [v \in 0..MaxVersion |-> 0]]
  /\ ask = [r \in Readers |-> Resting]
  /\ sight = [r \in Readers |-> {}]
  /\ past = [d \in Docs |-> [v \in Versions |-> IF v = 1 THEN {1} ELSE {}]]
  /\ calm = [r \in Readers |-> FALSE]
  /\ edits = MaxEdits

-----------------------------------------------------------------------------
(* What happens meanwhile                                                  *)

Happens ==
  /\ edits > 0 /\ edits' = edits - 1
  /\ sight' = [r \in Readers |-> IF Asking(r) THEN sight[r] \cup Open(r)' ELSE {}]
  /\ past' = [d \in Docs |-> [v \in Versions |->
       IF v <= ecm'[d].version THEN past[d][v] \cup Texts(d)' ELSE {}]]
  /\ calm' = [r \in Readers |-> FALSE]
  /\ UNCHANGED <<cache, ask>>

\* An author saves another version.
Edit(d) ==
  /\ ecm[d].there /\ ecm[d].version < MaxVersion
  /\ ecm' = [ecm EXCEPT ![d].version = @ + 1]
  /\ UNCHANGED <<chunks, rules>>
  /\ Happens

\* The owner closes the document to a reader, or opens it.
Regrant(d, r) ==
  /\ ecm' = [ecm EXCEPT ![d].readers = IF r \in @ THEN @ \ {r} ELSE @ \cup {r}]
  /\ UNCHANGED <<chunks, rules>>
  /\ Happens

\* It leaves the connector's scope, expires, or comes back.
Refit(d) ==
  /\ ecm' = [ecm EXCEPT ![d].fit = ~@]
  /\ UNCHANGED <<chunks, rules>>
  /\ Happens

\* It is taken away or restored; the index goes on finding it.
Remove(d) ==
  /\ ecm' = [ecm EXCEPT ![d].there = ~@]
  /\ UNCHANGED <<chunks, rules>>
  /\ Happens

\* An index run commits what it had fetched, now or before an edit, or drops it.
Index(d) ==
  /\ d \notin Unreadable
  /\ \E v \in 0..ecm[d].version : v # chunks[d] /\ chunks' = [chunks EXCEPT ![d] = v]
  /\ UNCHANGED <<ecm, rules>>
  /\ Happens

\* The role is edited, the connector is paused or made active.
Rule(d) ==
  /\ rules' = [rules EXCEPT !.denied = IF d \in @ THEN @ \ {d} ELSE @ \cup {d}]
  /\ UNCHANGED <<ecm, chunks>>
  /\ Happens
Pause ==
  /\ rules' = [rules EXCEPT !.active = ~@]
  /\ UNCHANGED <<ecm, chunks>>
  /\ Happens

-----------------------------------------------------------------------------
(* retrieve: the candidates                                                *)

Go(r, question) == ask' = [ask EXCEPT ![r] = question]
Alone == UNCHANGED <<world, cache, history, edits>>

\* The connector and the role's rules are read once.
Ask(r) ==
  /\ ~Asking(r)
  /\ Go(r, IF rules.active
           THEN [Resting EXCEPT !.step = "search", !.denied = rules.denied,
                                !.thread = [ch \in Channels |-> "out"]]
           ELSE Finished(Resting))
  /\ sight' = [sight EXCEPT ![r] = IF rules.active THEN Open(r) ELSE {}]
  /\ calm' = [calm EXCEPT ![r] = TRUE]
  /\ UNCHANGED <<world, cache, past, edits>>

Matched(ch) == {d \in Docs : Match[ch][d] # 0}

\* The index's thread comes back. It filters by metadata of its own, which may
\* lag, and the first page says whether the index reranked it.
IndexAnswers(r) ==
  LET q == ask[r] IN
  /\ q.thread["pgp"] = "out"
  /\ \E hits \in SUBSET Matched("pgp") : \E reranked \in BOOLEAN :
       /\ reranked => hits # {}
       /\ Go(r, [q EXCEPT !.thread["pgp"] = "back", !.hits["pgp"] = hits, !.reranked = reranked])
  /\ Alone

\* The store's comes back with what it has, open to this reader or not.
StoreAnswers(r) ==
  LET q == ask[r] IN
  /\ q.thread["ecm"] = "out"
  /\ Go(r, [q EXCEPT !.thread["ecm"] = "back",
                     !.hits["ecm"] = {d \in Matched("ecm") : ecm[d].there}])
  /\ Alone

\* Mutant: a channel's error is taken for an answer of no documents.
BreaksQuietly(r, ch) ==
  LET q == ask[r] IN
  /\ q.thread[ch] = "out"
  /\ \E reranked \in IF ch = "pgp" THEN BOOLEAN ELSE {q.reranked} :
       Go(r, [q EXCEPT !.thread[ch] = "back", !.reranked = reranked])
  /\ Alone

\* A channel is unavailable; the index may have reranked a first page before.
Breaks(r, ch) ==
  LET q == ask[r] IN
  /\ q.thread[ch] = "out"
  /\ \E reranked \in IF ch = "pgp" THEN BOOLEAN ELSE {q.reranked} :
       Go(r, [q EXCEPT !.thread[ch] = "failed", !.reranked = reranked])
  /\ Alone

\* Both threads have ended. A channel whose answer came after the wait for it
\* had timed out is said to be unavailable, like one that failed.
Joined(r) == ask[r].step = "search" /\ \A ch \in Channels : ask[r].thread[ch] # "out"

\* Mutant: the answers are read when the pool is left, the late ones too.
JoinLate(r) ==
  /\ Joined(r)
  /\ \E late \in SUBSET Channels :
       LET q == ask[r]
           failed == late \cup {ch \in Channels : q.thread[ch] = "failed"}
           used == {ch \in Channels : q.hits[ch] # {}}
           next == [q EXCEPT !.thread = Resting.thread, !.said = failed, !.used = used] IN
       Go(r, IF used = {} THEN Finished(next)
             ELSE [next EXCEPT !.step = "batch",
                               !.rank = FusionRank(q.hits, used), !.todo = Found(q.hits, used)])
  /\ Alone

Join(r) ==
  /\ Joined(r)
  /\ \E late \in SUBSET Channels :
       LET q == ask[r]
           failed == late \cup {ch \in Channels : q.thread[ch] = "failed"}
           used == {ch \in Channels \ failed : q.hits[ch] # {}}
           next == [q EXCEPT !.thread = Resting.thread, !.said = failed, !.used = used] IN
       Go(r, IF used = {} THEN Finished(next)
             ELSE [next EXCEPT !.step = "batch",
                               !.rank = FusionRank(q.hits, used), !.todo = Found(q.hits, used)])
  /\ Alone

\* In the fused order.
First(q, d) == d \in q.todo /\ \A e \in q.todo \ {d} : q.rank[d] < q.rank[e]

-----------------------------------------------------------------------------
(* retrieve: resolution                                                    *)

\* Mutant: the permission gate is left to the search that found the document.
PassesUnchecked(r, d) == ecm[d].there /\ ecm[d].fit /\ d \notin ask[r].denied

\* The two gates, asked of the store and never of the index, and the role.
Passes(r, d) == d \in Open(r) /\ d \notin ask[r].denied
Resolution(r, d) == IF Passes(r, d) THEN ecm[d].version ELSE 0

\* What is left to load; nothing is a refusal.
Resolved(q) ==
  LET left == {d \in Docs : q.version[d] # 0} IN
  IF left = {} THEN Finished(q) ELSE [q EXCEPT !.todo = left, !.step = "prime"]

Batch(r) ==
  LET q == ask[r] IN
  /\ q.step = "batch"
  /\ Go(r, Resolved([q EXCEPT !.version =
             [d \in Docs |-> IF d \in q.todo THEN Resolution(r, d) ELSE 0]]))
  /\ Alone

\* The batch failed: one document at a time.
BatchFails(r) ==
  /\ ask[r].step = "batch"
  /\ Go(r, [ask[r] EXCEPT !.step = "resolve"])
  /\ Alone

Onward(q, d) == IF q.todo = {d} THEN Resolved(q) ELSE [q EXCEPT !.todo = @ \ {d}]

Resolve(r, d) ==
  LET q == ask[r] IN
  /\ q.step = "resolve" /\ First(q, d)
  /\ Go(r, Onward([q EXCEPT !.version[d] = Resolution(r, d)], d))
  /\ Alone

\* The store is unavailable: the candidate is dropped.
Unresolved(r, d) ==
  LET q == ask[r] IN
  /\ q.step = "resolve" /\ First(q, d)
  /\ Go(r, Onward([q EXCEPT !.lost = @ \cup {d}], d))
  /\ Alone

-----------------------------------------------------------------------------
(* retrieve: passages. Other questions run between a look and a write.     *)

\* Mutant: no document has a version.
KeyOfDocument(q, d) == 0

\* doc_id|version|*|CHUNKER_VERSION, with "content-hash" for no version.
Key(q, d) == IF d \in Unversioned THEN 0 ELSE q.version[d]
Cached(q, d) == cache[d][Key(q, d)]

\* prime: what our own index has of the candidates the cache lacks, in one query.
Prime(r) ==
  LET q == ask[r] IN
  /\ q.step = "prime"
  /\ Go(r, [q EXCEPT !.step = "fill",
       !.text = [d \in Docs |-> IF d \in q.todo /\ Cached(q, d) = 0 THEN chunks[d] ELSE 0]])
  /\ Alone

Fill(r) ==
  LET q == ask[r] IN
  /\ q.step = "fill"
  /\ cache' = [d \in Docs |-> IF q.text[d] = 0 THEN cache[d]
                              ELSE [cache[d] EXCEPT ![Key(q, d)] = q.text[d]]]
  /\ Go(r, [q EXCEPT !.step = "load", !.text = Nowhere])
  /\ UNCHANGED <<world, history, edits>>

\* The document is done with; a parse that was refused gives it no passage.
Loaded(q, d, text) ==
  [q EXCEPT !.text[d] = IF d \in Unreadable THEN 0 ELSE text, !.todo = @ \ {d},
            !.step = IF q.todo = {d} THEN "rank" ELSE "load"]

LoadCached(r, d) ==
  LET q == ask[r] IN
  /\ q.step = "load" /\ First(q, d) /\ Cached(q, d) # 0
  /\ Go(r, Loaded(q, d, Cached(q, d)))
  /\ Alone

\* From our own index, or else from the store as it is when it is fetched.
LoadStored(r, d) ==
  LET q == ask[r] IN
  /\ q.step = "load" /\ First(q, d) /\ Cached(q, d) = 0
  /\ Go(r, IF chunks[d] = 0 THEN [q EXCEPT !.step = "fetch"]
           ELSE [q EXCEPT !.step = "put", !.text[d] = chunks[d]])
  /\ Alone

Fetch(r, d) ==
  LET q == ask[r] IN
  /\ q.step = "fetch" /\ First(q, d)
  /\ ecm[d].there /\ r \in ecm[d].readers
  /\ Go(r, [q EXCEPT !.step = "put", !.text[d] = ecm[d].version])
  /\ Alone

\* The fetch is refused or the store is unavailable.
Unfetched(r, d) ==
  LET q == ask[r] IN
  /\ q.step = "fetch" /\ First(q, d)
  /\ Go(r, [Loaded(q, d, 0) EXCEPT !.lost = @ \cup {d}])
  /\ Alone

Put(r, d) ==
  LET q == ask[r] IN
  /\ q.step = "put" /\ First(q, d)
  /\ cache' = [cache EXCEPT ![d][Key(q, d)] = q.text[d]]
  /\ Go(r, Loaded(q, d, q.text[d]))
  /\ UNCHANGED <<world, history, edits>>

-----------------------------------------------------------------------------
(* retrieve: ranking and citing                                            *)

Pool(q) == {d \in Docs : q.text[d] # 0}

\* Any order of a shortlist of the pool; the best `above` of it clear the floor.
Rankings(S) == {f \in [S -> 1..Cardinality(S)] : \A d, e \in S : f[d] = f[e] => d = e}
Shortlisted(pool) ==
  {S \in SUBSET pool : Cardinality(S) = IF Cardinality(pool) < Shortlist
                                        THEN Cardinality(pool) ELSE Shortlist}

\* Mutant: the two ranks are added as scores, the higher the better.
AssembledByScore(rank, ranked, above) ==
  LET S == DOMAIN ranked
      weight == [d \in S |-> ranked[d] + rank[d]]
      ahead == {p \in S \X S :
                  \/ weight[p[1]] > weight[p[2]]
                  \/ weight[p[1]] = weight[p[2]] /\ ranked[p[1]] < ranked[p[2]]}
      clear == {d \in S : ranked[d] <= above}
      first == {d \in clear : d \in Twins => \A e \in clear \cap Twins : <<e, d>> \notin ahead}
  IN {d \in first : Standing(first, ahead, d) <= Budget}

\* _assemble: the two orders are added by rank, and the reranker's breaks ties;
\* a copy of what is cited is not cited again, and Budget is what there is room for.
Assembled(rank, ranked, above) ==
  LET S == DOMAIN ranked
      weight == [d \in S |-> Part(ranked[d]) + Part(rank[d])]
      ahead == {p \in S \X S :
                  \/ weight[p[1]] > weight[p[2]]
                  \/ weight[p[1]] = weight[p[2]] /\ ranked[p[1]] < ranked[p[2]]}
      clear == {d \in S : ranked[d] <= above}
      first == {d \in clear : d \in Twins => \A e \in clear \cap Twins : <<e, d>> \notin ahead}
  IN {d \in first : Standing(first, ahead, d) <= Budget}

Cite(r, by, more) ==
  LET q == ask[r] IN
  /\ q.step = "rank"
  /\ \E S \in Shortlisted(Pool(q)) : \E ranked \in Rankings(S) : \E above \in 0..Cardinality(S) :
       Go(r, Finished([q EXCEPT !.said = @ \cup more, !.by = by,
                                !.ranked = [d \in Docs |-> IF d \in S THEN ranked[d] ELSE 0],
                                !.cited = Assembled(q.rank, ranked, above)]))
  /\ Alone

\* No passage could be recovered.
Refuse(r) ==
  /\ ask[r].step = "rank" /\ Pool(ask[r]) = {}
  /\ Go(r, Finished(ask[r]))
  /\ Alone

Reads(r) == Pool(ask[r]) # {} /\ (~ask[r].reranked \/ Local)
IndexRanks(r) == Pool(ask[r]) # {} /\ ask[r].reranked /\ ~Local /\ Cite(r, "pgp", {})
Reranks(r) == Reads(r) /\ Cite(r, "local", {})
RerankFails(r) == Reads(r) /\ Cite(r, "local", {"reranker"})

\* Anything else that is raised ends the question.
Raises(r) ==
  /\ ask[r].step \notin {"idle", "search", "done"} \/ Joined(r)
  /\ Go(r, Resting)
  /\ Alone

-----------------------------------------------------------------------------

Retrieve(r) ==
  \/ Join(r) \/ Batch(r) \/ BatchFails(r) \/ Prime(r) \/ Fill(r)
  \/ \E d \in Docs : Resolve(r, d) \/ Unresolved(r, d) \/ LoadCached(r, d) \/ LoadStored(r, d)
                     \/ Fetch(r, d) \/ Unfetched(r, d) \/ Put(r, d)
  \/ Refuse(r) \/ IndexRanks(r) \/ Reranks(r) \/ RerankFails(r) \/ Raises(r)

World ==
  \/ \E d \in Docs : Edit(d) \/ Refit(d) \/ Remove(d) \/ Index(d) \/ Rule(d)
  \/ \E d \in Docs, r \in Readers : Regrant(d, r)
  \/ Pause

Next ==
  \/ World
  \/ \E r \in Readers :
       Ask(r) \/ IndexAnswers(r) \/ StoreAnswers(r) \/ Breaks(r, "pgp") \/ Breaks(r, "ecm")
       \/ Retrieve(r)

Spec == Init /\ [][Next]_vars

-----------------------------------------------------------------------------
(* Properties                                                              *)

\* The question is shown what was open to its reader, as Evidence promises,
\* through batches, single resolutions, shared cached passages and whatever
\* the owners and the administrators do in between: "an access revoked
\* mid-conversation must take effect on the next answer".
E == INSTANCE Evidence WITH
       open <- [r \in Readers |-> Open(r)], barred <- rules.denied,
       asking <- [r \in Readers |-> Asking(r)],
       sight <- [r \in Readers |-> IF Asking(r) THEN sight[r] \ ask[r].denied ELSE {}],
       kept <- [r \in Readers |-> ask[r].denied],
       shown <- [r \in Readers |-> ask[r].cited]
ShowsWhatIsOpen == E!Spec

\* A passage comes, through the cache and whatever is indexed, from a text the
\* index or the store had since the document took the version that is shown.
\* (Of a document without a version nothing of the kind holds.)
PassagesWereHeld ==
  \A r \in Readers : \A d \in Docs \ Unversioned :
    Asking(r) /\ ask[r].text[d] # 0 => ask[r].text[d] \in past[d][ask[r].version[d]]

\* What a late or failed thread brings is not in the evidence: every citation
\* was found by a channel that the reader is not told was unavailable.
LateAnswersStayOut ==
  \A r \in Readers : \A d \in ask[r].cited :
    \E ch \in Channels \ ask[r].said : d \in ask[r].hits[ch]

\* A question of an active connector that was told of nothing unavailable, lost
\* nothing to the store and was not overtaken has recovered everything the
\* channels match that the gates let through and the parser can read: an outage
\* does not narrow the search in silence, whichever way resolution goes.
SilenceIsComplete ==
  \A r \in Readers : LET q == ask[r] IN
    (Done(r) /\ calm[r] /\ rules.active /\ q.said \cap Channels = {} /\ q.lost = {}) =>
      Pool(q) = ((q.hits["pgp"] \cup Matched("ecm")) \cap Open(r)) \ (rules.denied \cup Unreadable)

\* Where channels and reranker agree they stand: of two passages that were
\* ranked, the one that every channel which found the other found too, and put
\* first, and that the reranker put first, is cited if the other is, or a copy is.
AgreementStands ==
  \A r \in Readers : LET q == ask[r] IN
    \A d, e \in Docs :
      (/\ q.ranked[d] # 0 /\ q.ranked[d] < q.ranked[e]
       /\ \A ch \in q.used : e \in q.hits[ch] =>
            d \in q.hits[ch] /\ Match[ch][d] < Match[ch][e]
       /\ e \in q.cited)
      => d \in q.cited \/ (d \in Twins /\ Twins \cap q.cited # {})

=============================================================================
