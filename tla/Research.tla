------------------------------ MODULE Research ------------------------------
(***************************************************************************)
(* A turn of deep research (services/research.py, domain/research.py, and  *)
(* _research_turn of api/extra.py): a plan of parts, each retrieved and    *)
(* answered on its own, findings that cite passages by a number that is    *)
(* given once in the whole run, a pass that refutes what cites nothing,    *)
(* and a report with the passages its findings cite.                       *)
(*                                                                         *)
(* Every call of the model may fail, and then reads as an empty reply.     *)
(***************************************************************************)
EXTENDS Places, SequencesExt

CONSTANTS
  Chunks,        \* passages of the corpus
  MaxParts,      \* max_sub_questions
  MaxRead,       \* max_passages
  MaxEvidence    \* bound: passages one retrieval returns

ASSUME ResearchAssumption ==
  /\ IsFiniteSet(Chunks) /\ MaxParts \in Nat \ {0}
  /\ MaxRead \in Nat /\ MaxEvidence \in Nat

VARIABLES
  phase,     \* where the run is
  verify,    \* the pass is configured
  parts,     \* sub-questions of the plan
  findings,  \* one a part asked: [says, cites, refuted]
  listed,    \* the passages read, each at its number
  read,      \* passages_read
  limits,    \* names of the limits reached
  report     \* what the client gets: passages, the numbers in the prose, notices

study == <<phase, verify, parts, findings, listed, read, limits, report>>

-----------------------------------------------------------------------------
NoReport == [citations |-> <<>>, prose |-> {}, cited |-> {}, notices |-> {}, grounded |-> FALSE]
Evidences == {e \in SeqOf(Chunks, MaxEvidence) : IsInjective(e)}

\* Numbered once, across the whole run.
Numbered(evidence) ==
  listed \o At(evidence, {i \in DOMAIN evidence : evidence[i] \notin Range(listed)})

NumbersOf(evidence, all) ==
  {n \in DOMAIN all : \E i \in DOMAIN evidence : evidence[i] = all[n]}

Usable(f) == f.says /\ f.cites # {} /\ ~f.refuted
UsableFindings == {findings[i] : i \in {j \in DOMAIN findings : Usable(findings[j])}}
CitedByFindings == UNION {f.cites : f \in UsableFindings}

StudyInit ==
  /\ phase = "idle" /\ verify = FALSE /\ parts = 0 /\ findings = <<>>
  /\ listed = <<>> /\ read = 0 /\ limits = {} /\ report = NoReport
StudyForgotten ==
  /\ phase' = "idle" /\ verify' = FALSE /\ parts' = 0 /\ findings' = <<>>
  /\ listed' = <<>> /\ read' = 0 /\ limits' = {} /\ report' = NoReport

-----------------------------------------------------------------------------
Begin(checks) ==
  /\ phase = "idle"
  /\ phase' = "plan" /\ verify' = checks /\ parts' = 0 /\ findings' = <<>>
  /\ listed' = <<>> /\ read' = 0 /\ limits' = {} /\ report' = NoReport

\* _plan: no plan becomes the question as it was asked.
Plan(n) ==
  /\ phase = "plan"
  /\ parts' = IF n = 0 THEN 1 ELSE n
  /\ phase' = "investigate"
  /\ UNCHANGED <<verify, findings, listed, read, limits, report>>

Unasked == phase = "investigate" /\ Len(findings) < parts

\* (mutant) The loop ends and nobody is told.
StopEarlySilently(name) ==
  /\ Unasked /\ name = "passages" => read >= MaxRead
  /\ phase' = "verify"
  /\ UNCHANGED <<verify, parts, findings, listed, read, limits, report>>

\* max_duration_s has passed, or max_passages are read.
StopEarly(name) ==
  /\ Unasked
  /\ name = "passages" => read >= MaxRead
  /\ limits' = limits \cup {name}
  /\ phase' = "verify"
  /\ UNCHANGED <<verify, parts, findings, listed, read, report>>

\* One part: retrieval, the numbers, _answer_sub and _cited_in. The numbers
\* the reply uses may be any; those that were not offered do not count.
Investigate(evidence, says, uses) ==
  LET all == Numbered(evidence) IN
  /\ Unasked /\ read < MaxRead
  /\ evidence = <<>> => ~says
  /\ ~says => uses = {}
  /\ uses \subseteq 1..(Len(all) + 1)
  /\ listed' = all /\ read' = read + Len(evidence)
  /\ findings' = Append(findings,
       [says |-> says, cites |-> uses \cap NumbersOf(evidence, all), refuted |-> FALSE])
  /\ UNCHANGED <<phase, verify, parts, limits, report>>

AllAsked ==
  /\ phase = "investigate" /\ Len(findings) = parts
  /\ phase' = "verify"
  /\ UNCHANGED <<verify, parts, findings, listed, read, limits, report>>

\* The pass refutes a finding that cites nothing.
Verify ==
  /\ phase = "verify"
  /\ findings' = IF ~verify THEN findings
                 ELSE [i \in DOMAIN findings |->
                        [findings[i] EXCEPT !.refuted = findings[i].says /\ findings[i].cites = {}]]
  /\ phase' = "synthesise"
  /\ UNCHANGED <<verify, parts, listed, read, limits, report>>

\* _research_turn: whatever is in citations is called cited.
Sent(citations, prose, grounded) ==
  [citations |-> citations, prose |-> prose, cited |-> DOMAIN citations,
   notices |-> limits, grounded |-> grounded]

\* Nothing usable: a refusal, with all that was read.
Refused ==
  /\ phase = "synthesise" /\ UsableFindings = {}
  /\ report' = Sent(listed, {}, FALSE)
  /\ phase' = "idle"
  /\ UNCHANGED <<verify, parts, findings, listed, read, limits>>

\* The passages the usable findings cite, in the order of their numbers.
CitedPassages == At(listed, CitedByFindings)

\* _synthesise is told to carry the numbers of the findings into the prose;
\* if the model fails the prose is the findings themselves.
Synthesise(prose) ==
  /\ phase = "synthesise" /\ UsableFindings # {}
  /\ prose \subseteq CitedByFindings
  /\ report' = Sent(CitedPassages, prose, TRUE)
  /\ phase' = "idle"
  /\ UNCHANGED <<verify, parts, findings, listed, read, limits>>

\* The turn stops at an exception, or is not enabled: an error frame.
Abandoned ==
  /\ phase # "idle"
  /\ phase' = "idle" /\ report' = NoReport
  /\ UNCHANGED <<verify, parts, findings, listed, read, limits>>

StudyNext ==
  \/ \E checks \in BOOLEAN : Begin(checks)
  \/ \E n \in 0..MaxParts : Plan(n)
  \/ \E name \in {"duration", "passages"} : StopEarly(name)
  \/ \E evidence \in Evidences, says \in BOOLEAN,
        uses \in SUBSET (1..(Cardinality(Chunks) + 1)) : Investigate(evidence, says, uses)
  \/ AllAsked \/ Verify \/ Refused \/ Abandoned
  \/ \E prose \in SUBSET CitedByFindings : Synthesise(prose)

-----------------------------------------------------------------------------
StudyType ==
  /\ phase \in {"idle", "plan", "investigate", "verify", "synthesise"}
  /\ verify \in BOOLEAN /\ parts \in 0..MaxParts /\ read \in Nat
  /\ listed \in Seq(Chunks) /\ limits \subseteq {"duration", "passages"}
  /\ findings \in Seq([says : BOOLEAN, cites : SUBSET Nat, refuted : BOOLEAN])
  /\ report.citations \in Seq(Chunks) /\ report.notices \subseteq {"duration", "passages"}

\* A report that claims to be grounded lists each passage once, exactly those
\* its usable findings cite ("a sources list padded with what was merely read
\* is a list nobody checks a second time", services/research.py), and a part
\* of the plan that was not asked is owned up to in the notices ("every limit
\* is enforced, not advisory", domain/research.py).
ReportIsHonest ==
  report.grounded =>
    /\ IsInjective(report.citations)
    /\ Range(report.citations) = {listed[n] : n \in CitedByFindings}
    /\ Len(findings) < parts => report.notices # {}

\* "The numbers in the prose point here" (domain/research.py, of the
\* citations of a report): the passage that the prose calls [n] is the n-th
\* of the list that the client gets.
NumbersPointHome ==
  report.grounded =>
    \A n \in report.prose : n \in DOMAIN report.citations /\ report.citations[n] = listed[n]
=============================================================================
