------------------------------- MODULE Console -------------------------------
(***************************************************************************)
(* The console: the connector's row, roles and questions (Connector), its  *)
(* glossary (Glossary), its live figures (LiveContext), what an empty chat *)
(* offers (Starters), and what is kept of conversations and test runs      *)
(* (Threads). They keep their rows in different tables and share no state  *)
(* but the thread a complaint names, so what one does shows nothing new    *)
(* about another: a behaviour takes the requests of one area only, and the *)
(* others are as they were made. That, and the number of requests to the   *)
(* connector that are served at one time, are bounds, named area and Busy. *)
(***************************************************************************)
EXTENDS Connector, Glossary, LiveContext, Threads, Starters

CONSTANT MaxRequests   \* requests to the connector that are served at one time

VARIABLE area

vars == <<area, connector, glossary, live, records, offers>>

Init ==
  /\ area \in {"connector", "glossary", "live", "talk", "tests", "offers"}
  /\ ConnectorInit /\ GlossaryInit /\ LiveInit /\ ThreadsInit /\ StartersInit
  /\ area # "connector" => row = Blank /\ role = {}
  /\ area # "live" => source = NoSource
  /\ area # "offers" => DOMAIN listing = {}

Busy ==
  Cardinality({e \in Editors : editing'[e].pc # "idle"})
    + Cardinality({q \in Questions : asking'[q].pc # "idle"}) <= MaxRequests

Configuring ==
  area = "connector" /\ ConnectorNext /\ Busy /\ UNCHANGED <<area, glossary, live, records, offers>>
Wording == area = "glossary" /\ GlossaryNext /\ UNCHANGED <<area, connector, live, records, offers>>
Reading == area = "live" /\ LiveNext /\ UNCHANGED <<area, connector, glossary, records, offers>>
Talking == area = "talk" /\ TalkNext /\ UNCHANGED <<area, connector, glossary, live, offers>>
Testing == area = "tests" /\ TestNext /\ UNCHANGED <<area, connector, glossary, live, offers>>
Offering == area = "offers" /\ StartersNext /\ UNCHANGED <<area, connector, glossary, live, records>>

Next == Configuring \/ Wording \/ Reading \/ Talking \/ Testing \/ Offering

Spec == Init /\ [][Next]_vars

TypeOK == ConnectorType /\ GlossaryType /\ LiveType /\ RecordsType

\* What a question is asked with is what the people who own the connector have
\* agreed to: their scope, their rules for the role, their terms.
QuestionsUseWhatIsAgreed == QuestionsAreNarrowed /\ WordsAsJudged
=============================================================================
