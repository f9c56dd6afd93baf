------------------------------- MODULE Starters ------------------------------
(***************************************************************************)
(* What an empty chat offers (api/extra.py chat_starters and               *)
(* _cached_openers, domain/starters.py, services/suggesting.py): a request *)
(* reads how much is indexed of each document, then the documents, chooses *)
(* a few, and asks a model for questions about them.  What the model wrote *)
(* is kept in the process under the titles it was written for; a model     *)
(* that fails writes nothing, and nothing is kept in the same way.         *)
(*                                                                         *)
(* The connector's scope plays no part: scope_population lists everything  *)
(* its knowledgebase has.                                                  *)
(***************************************************************************)
EXTENDS Naturals, FiniteSets

CONSTANTS
  DocIds,     \* documents of the knowledgebase
  Place,      \* the order the index lists them in
  Titles,     \* what documents are called
  Generic,    \* titles that are not offered: blank, "home", "overview", too long
  Spelled,    \* the alphabetical order of titles, in lower case
  Pages,      \* what a document may be: title, section, size, chunks, text
  NoSection,  \* a document whose path and space give none
  NoText,     \* a document that is not indexed
  Chips,      \* starters that are offered (6 in the code)
  Visitors,   \* requests for starters
  MaxCrawls   \* bound on the documents that are crawled again

ASSUME StartersAssumption ==
  /\ IsFiniteSet(DocIds) /\ Place \in [DocIds -> Nat] /\ Spelled \in [Titles -> Nat] /\ Generic \subseteq Titles
  /\ \A d, e \in DocIds : Place[d] = Place[e] => d = e
  /\ \A p \in Pages : p.title \in Titles /\ p.size \in Nat /\ p.chunks \in Nat
  /\ Chips \in Nat \ {0} /\ MaxCrawls \in Nat

VARIABLES
  listing,    \* the documents, as the indexes have them
  openers,    \* _OPENERS[slug]: a signature and what was written for it
  offering,   \* where each request has got, and what it read
  crawls      \* documents that were crawled again

offers == <<listing, openers, offering, crawls>>

-----------------------------------------------------------------------------
(* Which documents: domain/starters.py.                                    *)

\* choose.substance: chunks where our index has the document, else its size.
Substance(v, d) == IF d \in DOMAIN v.weights THEN v.weights[d] ELSE v.seen[d].size

Eligible(v) == {d \in DOMAIN v.seen : v.seen[d].title \notin Generic}

\* The sort of choose: biggest first, then by title, and stable.
Before(v, d, e) ==
  \/ Substance(v, d) > Substance(v, e)
  \/ /\ Substance(v, d) = Substance(v, e)
     /\ \/ Spelled[v.seen[d].title] < Spelled[v.seen[e].title]
        \/ Spelled[v.seen[d].title] = Spelled[v.seen[e].title] /\ Place[d] < Place[e]

First(v, n, S) == {d \in S : Cardinality({e \in S : Before(v, e, d)}) < n}

\* The two passes of choose: the first document of each section and every
\* document without one, then the others while there is room.  (Largest is
\* the choice without sections.)
Heads(v) ==
  {d \in Eligible(v) :
     \/ v.seen[d].section = NoSection
     \/ \A e \in Eligible(v) : v.seen[e].section = v.seen[d].section => ~Before(v, e, d)}
Largest(v) == First(v, Chips, Eligible(v))
Chosen(v) ==
  LET heads == First(v, Chips, Heads(v))
  IN heads \cup First(v, Chips - Cardinality(heads), Eligible(v) \ heads)

-----------------------------------------------------------------------------
TitlesOf(v, ds) == {v.seen[d].title : d \in ds}

\* The signature: the titles, each as often as it was chosen.
Signature(v, ds) == [t \in Titles |-> Cardinality({d \in ds : v.seen[d].title = t})]
Unsigned == [t \in Titles |-> 0]
NotAsked == [pc |-> "idle", weights |-> [d \in {} |-> 0], seen |-> [d \in {} |-> 0],
             picked |-> {}, passages |-> {}, questions |-> {}]
NoOpeners == [signature |-> Unsigned, questions |-> {}]

StartersInit ==
  /\ listing \in UNION {[ds -> Pages] : ds \in SUBSET DocIds}
  /\ openers = NoOpeners
  /\ offering = [v \in Visitors |-> NotAsked]
  /\ crawls = 0

\* A document comes, changes or goes, in one index and then the other; to a
\* request that is between two reads they are one change.
CrawlAgain(d, page) ==
  /\ crawls < MaxCrawls /\ crawls' = crawls + 1
  /\ listing' = [e \in DOMAIN listing \cup {d} |-> IF e = d THEN page ELSE listing[e]]
  /\ UNCHANGED <<openers, offering>>
Withdraw(d) ==
  /\ crawls < MaxCrawls /\ crawls' = crawls + 1
  /\ d \in DOMAIN listing
  /\ listing' = [e \in DOMAIN listing \ {d} |-> listing[e]]
  /\ UNCHANGED <<openers, offering>>

\* chat_starters: the chunks of each document, as our index has them.
Weigh(v) ==
  /\ offering[v].pc = "idle"
  /\ offering' = [offering EXCEPT
       ![v] = [NotAsked EXCEPT !.pc = "weighed",
                 !.weights = [d \in {e \in DOMAIN listing : listing[e].chunks > 0} |-> listing[d].chunks]]]
  /\ UNCHANGED <<listing, openers, crawls>>

\* _cached_openers: what is kept counts if it was written for these titles.
Written(signature) == signature # Unsigned /\ openers.signature = signature

\* scope_population: every document the knowledgebase lists, whatever the
\* connector's scope says of it.
Population == listing

\* The documents are listed and chosen; then the cache answers, or nothing
\* was chosen and nothing is written, or the request goes on.
Pick(v) ==
  LET read == [offering[v] EXCEPT !.seen = Population]
      picked == Chosen(read)
      held == Written(Signature(read, picked))
  IN /\ offering[v].pc = "weighed"
     /\ offering' = [offering EXCEPT
          ![v] = [read EXCEPT !.picked = picked,
                    !.pc = IF held \/ picked = {} THEN "offered" ELSE "picked",
                    !.questions = IF held THEN openers.questions ELSE {}]]
     /\ UNCHANGED <<listing, openers, crawls>>

\* The first passage of each, as our index has it now.
ReadPassages(v) ==
  LET text(d) == IF d \in DOMAIN listing /\ listing[d].chunks > 0 THEN listing[d].text ELSE NoText
  IN /\ offering[v].pc = "picked"
     /\ offering' = [offering EXCEPT
          ![v].pc = "read",
          ![v].passages = {[title |-> offering[v].seen[d].title, text |-> text(d)] : d \in offering[v].picked}]
     /\ UNCHANGED <<listing, openers, crawls>>

\* openers: the model asks about some of the passages, and keep drops what is
\* about none of them, so a question is the passage it is about; there may be
\* no model, or it may fail, and then there is no question.
MayAsk(passages) == SUBSET passages

\* What it wrote is kept and offered, nothing too.
WriteOpeners(v, questions) ==
  /\ offering[v].pc = "read"
  /\ openers' = [signature |-> Signature(offering[v], offering[v].picked), questions |-> questions]
  /\ offering' = [offering EXCEPT ![v].pc = "offered", ![v].questions = questions]
  /\ UNCHANGED <<listing, crawls>>

Starting(v) ==
  \/ Weigh(v) \/ Pick(v) \/ ReadPassages(v)
  \/ \E questions \in MayAsk(offering[v].passages) : WriteOpeners(v, questions)
StartersNext ==
  \/ \E d \in DocIds : Withdraw(d) \/ \E page \in Pages : CrawlAgain(d, page)
  \/ \E v \in Visitors : Starting(v)

-----------------------------------------------------------------------------
\* "They span the corpus" (domain/starters.py): a request that was answered
\* chose as many documents as there are chips, no section twice while another
\* that it read has none, and the bigger of a section first; and the questions
\* it got, which another request may have had written when the documents were
\* others, are about documents with the titles it chose.
OffersSpanTheCorpus ==
  \A v \in Visitors : offering[v].pc = "offered" =>
    LET o == offering[v]
        section(d) == o.seen[d].section
        left == Eligible(o) \ o.picked
    IN /\ \/ Cardinality(o.picked) = Chips
          \/ o.picked = Eligible(o) /\ Cardinality(o.picked) < Chips
       /\ \A d, e \in o.picked : d # e /\ section(d) = section(e) /\ section(d) # NoSection =>
            \A f \in left : section(f) # NoSection /\ \E g \in o.picked : section(g) = section(f)
       /\ \A d \in o.picked, e \in left : section(d) = section(e) => Before(o, d, e)
       /\ \A q \in o.questions : q.title \in TitlesOf(o, o.picked)
=============================================================================
