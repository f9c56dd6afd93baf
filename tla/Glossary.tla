------------------------------ MODULE Glossary -------------------------------
(***************************************************************************)
(* The glossary of a connector (api/extra.py, services/glossary_service):  *)
(* terms a pass over the corpus proposes, terms a person types, and the    *)
(* judgement a person gives of either. A question is expanded with the     *)
(* terms that were agreed to. Two spellings of one word are two rows, and  *)
(* the pass takes them for one term.                                       *)
(***************************************************************************)
EXTENDS Naturals, FiniteSets

CONSTANTS
  Terms,      \* spellings
  Word,       \* the word a spelling is one of: Word[t] = Word[u] iff upper(t) = upper(u)
  Passes      \* discovery requests

ASSUME GlossaryAssumption == IsFiniteSet(Terms) /\ Terms = DOMAIN Word

VARIABLES
  terms,      \* askcontent_glossary_term: spelling -> [status, source, proposed]
  judged,     \* what a person last said of each spelling since it has its row
  passes      \* where each discovery has got: the words it found to exist

glossary == <<terms, judged, passes>>

Statuses == {"proposed", "confirmed", "rejected"}
NoTerms == [t \in {} |-> [status |-> "proposed", source |-> "discovered"]]
Waiting == [pc |-> "idle", found |-> {}, known |-> {}]

GlossaryInit ==
  /\ terms = NoTerms
  /\ judged = [t \in Terms |-> "nothing"]
  /\ passes = [p \in Passes |-> Waiting]

\* _glossary_for: what a question is expanded with.
InUse == {t \in DOMAIN terms : terms[t].status = "confirmed" \/ terms[t].source = "human"}

With(t, status, source) ==
  [u \in DOMAIN terms \cup {t} |->
     IF u = t THEN [status |-> status, source |-> source] ELSE terms[u]]

Says(t, judgement) == judged' = [judged EXCEPT ![t] = judgement]

-----------------------------------------------------------------------------
\* create_term: typed by a person, so already reviewed. A row that exists is
\* confirmed and keeps its source.
CreateTerm(t) ==
  /\ terms' = With(t, "confirmed", IF t \in DOMAIN terms THEN terms[t].source ELSE "human")
  /\ Says(t, "agreed")
  /\ UNCHANGED passes

\* review_term: what a judgement may be.
Judgements == {"confirmed", "rejected"}

\* The row becomes a person's when it is confirmed, and stays what
\* it was when it is rejected. It is named by its id: one that is gone is none.
ReviewTerm(t, status) ==
  /\ t \in DOMAIN terms
  /\ terms' = With(t, status, IF status = "confirmed" THEN "human" ELSE terms[t].source)
  /\ Says(t, IF status = "confirmed" THEN "agreed"
             ELSE IF judged[t] = "nothing" THEN "refused" ELSE "withdrawn")
  /\ UNCHANGED passes

DeleteTerm(t) ==
  /\ t \in DOMAIN terms
  /\ terms' = [u \in DOMAIN terms \ {t} |-> terms[u]]
  /\ Says(t, "nothing")
  /\ UNCHANGED passes

-----------------------------------------------------------------------------
\* discover_for: the corpus proposes some terms, and the words that have a row
\* are read.
Discover(p) ==
  /\ passes[p].pc = "idle"
  /\ \E found \in SUBSET Terms \ {{}} :
       passes' = [passes EXCEPT ![p] =
         [pc |-> "found", found |-> found, known |-> {Word[t] : t \in DOMAIN terms}]]
  /\ UNCHANGED <<terms, judged>>

Proposed(p) == {t \in passes[p].found : Word[t] \notin passes[p].known}

\* A term whose word was known has its measures refreshed, and its judgement
\* left alone; the others are inserted, ON CONFLICT DO NOTHING.
Added(p) ==
  [t \in DOMAIN terms \cup Proposed(p) |->
     IF t \in DOMAIN terms THEN terms[t] ELSE [status |-> "proposed", source |-> "discovered"]]

Propose(p) ==
  /\ passes[p].pc = "found"
  /\ terms' = Added(p)
  /\ passes' = [passes EXCEPT ![p] = Waiting]
  /\ UNCHANGED judged

GlossaryNext ==
  \/ \E t \in Terms :
       CreateTerm(t) \/ DeleteTerm(t) \/ \E s \in Judgements : ReviewTerm(t, s)
  \/ \E p \in Passes : Discover(p) \/ Propose(p)

-----------------------------------------------------------------------------
GlossaryType ==
  /\ DOMAIN terms \subseteq Terms
  /\ \A t \in DOMAIN terms : terms[t].status \in Statuses /\ terms[t].source \in {"human", "discovered"}
  /\ judged \in [Terms -> {"nothing", "agreed", "refused", "withdrawn"}]
  /\ passes \in [Passes -> [pc : {"idle", "found"}, found : SUBSET Terms, known : SUBSET {Word[t] : t \in Terms}]]

\* "Expanding on its guesses would put words into questions nobody agreed to"
\* and "a confirmation or a rejection survives every future run": whatever is
\* discovered meanwhile, a term a person agreed to is in use, and one that
\* nobody ever agreed to, or that was refused when it was proposed, is not.
WordsAsJudged ==
  \A t \in Terms :
    /\ judged[t] = "agreed" => t \in InUse
    /\ judged[t] \in {"nothing", "refused"} => t \notin InUse
=============================================================================
