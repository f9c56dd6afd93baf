------------------------------- MODULE Threads -------------------------------
(***************************************************************************)
(* What the console keeps of conversations (api/extra.py,                  *)
(* services/evaluation.py): threads and the turns recorded in them, the    *)
(* complaints readers make, the test cases made of them, and the runs of   *)
(* the test suite.                                                         *)
(*                                                                         *)
(* A turn is recorded by one statement that takes the ordinal and writes   *)
(* the row; under READ COMMITTED two of them may take the same one, and    *)
(* the second fails on the unique constraint.                              *)
(***************************************************************************)
EXTENDS Naturals, FiniteSets

CONSTANTS
  ThreadIds, Writers,   \* conversations, and requests that record a turn
  Complaints, Cases,    \* ids that feedback and test cases may be given
  NoThread, NoCase,
  MaxTurns              \* bound on the turns of a thread

ASSUME ThreadsAssumption ==
  /\ IsFiniteSet(Writers) /\ IsFiniteSet(Cases) /\ MaxTurns \in Nat
  /\ NoThread \notin ThreadIds /\ NoCase \notin Cases

VARIABLES
  thread,     \* askcontent_chat_thread: a thread is new, untitled, titled or gone
  turns,      \* askcontent_chat_turn: the ordinals of a thread's turns
  recording,  \* where each request that records a turn has got
  feedback,   \* askcontent_answer_feedback: complaint -> [thread, case]
  cases,      \* askcontent_eval_case: a case is new, there or gone
  suite       \* a run of the test suite, and the rows it leaves

records == <<thread, turns, recording, feedback, cases, suite>>

-----------------------------------------------------------------------------
Quiet == [pc |-> "idle", thread |-> NoThread, ordinal |-> 0, raced |-> FALSE]
NoResults == [c \in {} |-> [case |-> NoCase, outcome |-> "passed"]]
NoSuite == [pc |-> "none", loaded |-> {}, results |-> NoResults,
            finished |-> FALSE, rows |-> NoResults, total |-> 0, passed |-> 0, failed |-> 0]

ThreadsInit ==
  /\ thread = [t \in ThreadIds |-> "new"] /\ turns = [t \in ThreadIds |-> {}]
  /\ recording = [w \in Writers |-> Quiet]
  /\ feedback = [c \in {} |-> [thread |-> NoThread, case |-> NoCase]]
  /\ cases = [c \in Cases |-> "new"] /\ suite = NoSuite

Present == {t \in ThreadIds : thread[t] \in {"untitled", "titled"}}
Kept == {c \in Cases : cases[c] = "there"}

CreateThread(t, title) ==
  /\ thread[t] = "new"
  /\ thread' = [thread EXCEPT ![t] = IF title THEN "titled" ELSE "untitled"]
  /\ UNCHANGED <<turns, recording, feedback, cases, suite>>

\* delete_thread, delete_threads: the turns go with the thread, and what was
\* said of it loses its thread.
DeleteThreads(gone) ==
  /\ gone # {} /\ gone \subseteq Present
  /\ thread' = [t \in ThreadIds |-> IF t \in gone THEN "gone" ELSE thread[t]]
  /\ turns' = [t \in ThreadIds |-> IF t \in gone THEN {} ELSE turns[t]]
  /\ feedback' = [c \in DOMAIN feedback |->
       [feedback[c] EXCEPT !.thread = IF @ \in gone THEN NoThread ELSE @]]
  /\ UNCHANGED <<recording, cases, suite>>

-----------------------------------------------------------------------------
\* (mutant) One more than the turns that are recorded or being recorded.
Queued(t) == Cardinality(turns[t]) + Cardinality({w \in Writers : recording[w].thread = t}) + 1

\* coalesce(max(ordinal), 0) + 1, as the snapshot of the statement has it.
Following(t) == CHOOSE o \in {1} \cup {p + 1 : p \in turns[t]} : \A p \in turns[t] : p < o

\* append_turn: the thread is there, and the statement takes an ordinal.
AppendTurn(w, t) ==
  /\ recording[w].pc = "idle" /\ t \in Present
  /\ Cardinality(turns[t]) < MaxTurns
  /\ recording' = [recording EXCEPT ![w] =
       [pc |-> "writes", thread |-> t, ordinal |-> Following(t), raced |-> FALSE]]
  /\ UNCHANGED <<thread, turns, feedback, cases, suite>>

\* It writes the turn, and the thread's title when it has none, and commits.
Record(w) ==
  LET t == recording[w].thread
      o == recording[w].ordinal
  IN /\ recording[w].pc = "writes" /\ t \in Present /\ o \notin turns[t]
     /\ turns' = [turns EXCEPT ![t] = @ \cup {o}]
     /\ thread' = [thread EXCEPT ![t] = "titled"]
     /\ recording' = [v \in Writers |->
          IF v = w THEN [recording[w] EXCEPT !.pc = "recorded"]
          ELSE [recording[v] EXCEPT !.raced = @ \/ (recording[v].pc = "writes" /\ recording[v].thread = t)]]
     /\ UNCHANGED <<feedback, cases, suite>>

\* Or it fails: its ordinal was taken, or its thread is gone.
Lose(w) ==
  /\ recording[w].pc = "writes"
  /\ recording[w].thread \notin Present \/ recording[w].ordinal \in turns[recording[w].thread]
  /\ recording' = [recording EXCEPT ![w].pc = "lost"]
  /\ UNCHANGED <<thread, turns, feedback, cases, suite>>

Replied(w) ==
  /\ recording[w].pc \in {"recorded", "lost"}
  /\ recording' = [recording EXCEPT ![w] = Quiet]
  /\ UNCHANGED <<thread, turns, feedback, cases, suite>>

-----------------------------------------------------------------------------
\* create_feedback: of a thread that is there, or of none.
Complain(c, t) ==
  /\ c \notin DOMAIN feedback /\ t \in Present \cup {NoThread}
  /\ feedback' = [d \in DOMAIN feedback \cup {c} |->
       IF d = c THEN [thread |-> t, case |-> NoCase] ELSE feedback[d]]
  /\ UNCHANGED <<thread, turns, recording, cases, suite>>

\* create_case: the case, and the complaint it was made of, in one transaction.
CreateCase(c, from) ==
  /\ cases[c] = "new" /\ from \subseteq DOMAIN feedback /\ Cardinality(from) <= 1
  /\ cases' = [cases EXCEPT ![c] = "there"]
  /\ feedback' = [d \in DOMAIN feedback |-> [feedback[d] EXCEPT !.case = IF d \in from THEN c ELSE @]]
  /\ UNCHANGED <<thread, turns, recording, suite>>

\* delete_case: the results of the case stay and lose it; the complaint that
\* was promoted to it does not come back.
DeleteCase(c) ==
  /\ cases[c] = "there"
  /\ cases' = [cases EXCEPT ![c] = "gone"]
  /\ suite' = [suite EXCEPT
       !.rows = [d \in DOMAIN @ |-> IF @[d].case = c THEN [case |-> NoCase, outcome |-> @[d].outcome] ELSE @[d]]]
  /\ UNCHANGED <<thread, turns, recording, feedback>>

-----------------------------------------------------------------------------
\* EvaluationService.run: the cases are loaded,
LoadCases(loaded) ==
  /\ suite.pc \notin {"opens", "runs"} /\ loaded \subseteq Kept
  /\ suite' = [NoSuite EXCEPT !.pc = "opens", !.loaded = loaded]
  /\ UNCHANGED <<thread, turns, recording, feedback, cases>>

\* and then, in a transaction of its own, _open_run commits a run that has not
\* finished.
OpenRun ==
  /\ suite.pc = "opens"
  /\ suite' = [suite EXCEPT !.pc = "runs"]
  /\ UNCHANGED <<thread, turns, recording, feedback, cases>>

\* One case: the answer is as expected, or is not, or the answerer failed.
RunCase(c, outcome) ==
  /\ suite.pc = "runs" /\ c \in suite.loaded \ DOMAIN suite.results
  /\ suite' = [suite EXCEPT !.results =
       [d \in DOMAIN @ \cup {c} |-> IF d = c THEN [case |-> c, outcome |-> outcome] ELSE @[d]]]
  /\ UNCHANGED <<thread, turns, recording, feedback, cases>>

\* Retrieval raises: so does the request, and the run is as it was opened.
RunRaises ==
  /\ suite.pc = "runs" /\ suite.loaded # DOMAIN suite.results
  /\ suite' = [suite EXCEPT !.pc = "raised", !.results = NoResults]
  /\ UNCHANGED <<thread, turns, recording, feedback, cases>>

Ran(outcomes) == Cardinality({c \in DOMAIN suite.results : suite.results[c].outcome \in outcomes})

\* (mutant) The results of cases that are gone are left out.
ClosedWithout(kept) ==
  [suite EXCEPT !.pc = "closed", !.finished = TRUE, !.results = NoResults,
     !.rows = [c \in DOMAIN suite.results \cap kept |-> suite.results[c]],
     !.total = Cardinality(DOMAIN suite.results), !.passed = Ran({"passed"}),
     !.failed = Ran({"failed", "errored"})]

\* _close_run: the results and the counts, in one transaction that fails when a
\* case was deleted meanwhile, and all the results are lost. What did not pass is
\* counted as failed, also where the answerer failed and nothing was judged.
Closed(kept) ==
  IF DOMAIN suite.results \subseteq kept
  THEN [suite EXCEPT !.pc = "closed", !.finished = TRUE, !.rows = suite.results, !.results = NoResults,
          !.total = Cardinality(DOMAIN suite.results), !.passed = Ran({"passed"}),
          !.failed = Ran({"failed", "errored"})]
  ELSE [suite EXCEPT !.pc = "lost", !.results = NoResults]

CloseRun ==
  /\ suite.pc = "runs" /\ suite.loaded = DOMAIN suite.results
  /\ suite' = Closed(Kept)
  /\ UNCHANGED <<thread, turns, recording, feedback, cases>>

Complaining == \E c \in Complaints, t \in ThreadIds \cup {NoThread} : Complain(c, t)

TalkNext ==
  \/ \E t \in ThreadIds, title \in BOOLEAN : CreateThread(t, title)
  \/ \E gone \in SUBSET ThreadIds : DeleteThreads(gone)
  \/ \E w \in Writers : (\E t \in ThreadIds : AppendTurn(w, t)) \/ Record(w) \/ Lose(w) \/ Replied(w)
  \/ Complaining

TestNext ==
  \/ Complaining
  \/ \E c \in Cases : (\E from \in SUBSET Complaints : CreateCase(c, from)) \/ DeleteCase(c)
  \/ (\E loaded \in SUBSET Cases : LoadCases(loaded)) \/ OpenRun
  \/ \E c \in Cases, outcome \in {"passed", "failed", "errored"} : RunCase(c, outcome)
  \/ RunRaises \/ CloseRun

-----------------------------------------------------------------------------
Results == UNION {[ran -> [case : Cases \cup {NoCase}, outcome : {"passed", "failed", "errored"}]] : ran \in SUBSET Cases}

RecordsType ==
  /\ thread \in [ThreadIds -> {"new", "untitled", "titled", "gone"}]
  /\ turns \in [ThreadIds -> SUBSET Nat]
  /\ recording \in [Writers -> [pc : {"idle", "writes", "recorded", "lost"}, ordinal : Nat,
                               thread : ThreadIds \cup {NoThread}, raced : BOOLEAN]]
  /\ feedback \in UNION {[of -> [thread : ThreadIds \cup {NoThread}, case : Cases \cup {NoCase}]] :
                            of \in SUBSET Complaints}
  /\ cases \in [Cases -> {"new", "there", "gone"}]
  /\ suite \in [pc : {"none", "opens", "runs", "closed", "raised", "lost"}, loaded : SUBSET Cases,
                results : Results, finished : BOOLEAN, rows : Results,
                total : Nat, passed : Nat, failed : Nat]

\* A transcript has every turn it was told to record, numbered from one without
\* a gap: a turn that was acknowledged is there for as long as its thread is,
\* and one is lost only to another that was recorded in the same thread at the
\* same time, or to the deletion of the thread (append_turn, api/extra.py).
TranscriptIsWhole ==
  /\ \A t \in ThreadIds : turns[t] = 1..Cardinality(turns[t])
  /\ \A w \in Writers :
       LET t == recording[w].thread
       IN /\ recording[w].pc = "recorded" => thread[t] = "gone" \/ recording[w].ordinal \in turns[t]
          /\ recording[w].pc = "lost" => thread[t] = "gone" \/ recording[w].raced

\* What a run of the suite leaves (services/evaluation.py): a run that has
\* finished has one result for each case it loaded, and its passes are those
\* that passed: an answerer that failed gives no pass. A result names its case
\* for as long as there is one, and outlives it. A run that has not finished has
\* no result; and one that ran to its end is lost only when a case was deleted
\* while it ran. (What is counted as failed is another matter: see README.)
ResultsAreComplete ==
  /\ suite.finished =>
       /\ DOMAIN suite.rows = suite.loaded /\ suite.total = Cardinality(suite.loaded)
       /\ suite.passed = Cardinality({c \in suite.loaded : suite.rows[c].outcome = "passed"})
       /\ \A c \in suite.loaded : suite.rows[c].case = IF c \in Kept THEN c ELSE NoCase
  /\ ~suite.finished => DOMAIN suite.rows = {}
  /\ suite.pc = "lost" => suite.loaded \ Kept # {}
=============================================================================
