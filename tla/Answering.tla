------------------------------ MODULE Answering ------------------------------
(***************************************************************************)
(* One turn that asks a question, from the request to the last frame: the  *)
(* console (chat_stream, api/extra.py), the widget (widget_ask,            *)
(* api/widget.py) and diagnose (api/app.py).                               *)
(*                                                                         *)
(* Retrieval and the live read hand over what was found. A thread of its   *)
(* own (_run_answer) drives AnsweringService.stream: the relevance gate,   *)
(* the model, and the gates over what the model wrote. What it yields      *)
(* reaches the handler through a queue, and the handler turns it into      *)
(* frames. The client can leave at any frame; the thread goes on.          *)
(*                                                                         *)
(* An answer is the set of its sentences, and a sentence is what the gates *)
(* see of it: what it credits, and whether its figures were read there.    *)
(***************************************************************************)
EXTENDS Naturals, Sequences, FiniteSets

CONSTANTS
  MaxPassages,  \* bound: passages retrieval finds
  MaxPoints,    \* bound: values one live read gives
  Sentences,    \* sentences a model may write
  MaxSentences  \* bound: sentences in one answer

ASSUME AnsweringAssumption ==
  /\ MaxPassages \in Nat /\ MaxPoints \in Nat /\ MaxSentences \in Nat
  /\ Sentences \subseteq [passages : SUBSET Nat, page : BOOLEAN, data : SUBSET Nat,
                          worked : BOOLEAN, declines : BOOLEAN]

VARIABLES
  turn,     \* the handler: where it is, who asks, what was found
  pump,     \* the thread: where it is, what the model wrote
  outbox,   \* the queue between them
  heard,    \* what the handler has taken from it: prose and outcome
  shown     \* the last frame the client got

dialogue == <<turn, pump, outbox, heard, shown>>

-----------------------------------------------------------------------------
\* A sentence says where it comes from by [2], [page] or [d1].
Marked(s) == s.passages # {} \/ s.page \/ s.data # {}
CreditsTheScreen(s) == (s.page \/ s.data # {}) /\ s.passages = {}
Answers == {p \in SUBSET Sentences : Cardinality(p) <= MaxSentences}

\* What the prompt of this turn offers.
Offered == 1..turn.passages
HasPage == turn.page
OfferedData == IF turn.live = "read" THEN 1..turn.points ELSE {}
HasData == OfferedData # {}

\* assess: a question of nothing but stopwords is about the conversation;
\* any other needs some text that shares enough of its words.
MayCover(verdict) ==
  /\ turn.question = "bare" => verdict
  /\ turn.passages = 0 /\ ~HasPage /\ ~HasData /\ turn.question # "bare" => ~verdict

\* strip_unsupported: a sentence that credits the page or a reading, and no
\* passage, with a figure that is in neither, is taken out.
Kept(prose) == {s \in prose : ~(CreditsTheScreen(s) /\ s.worked)}

\* What an answerer says of its own prose. Refusing, and having no passages
\* at all (both answerers), it claims nothing.
Reply(prose, refuses) ==
  [supported |-> ~refuses,
   cited |-> IF refuses THEN {} ELSE UNION {s.passages : s \in prose},
   page |-> ~refuses /\ \E s \in prose : s.page,
   data |-> IF refuses THEN {} ELSE UNION {s.data : s \in prose}]

\* (mutant) One value that was supplied is enough.
FakeDataOnly(reply) == reply.data # {} /\ reply.data \cap OfferedData = {}

\* A marker names a value that was never supplied.
FakeData(reply) == reply.data \ OfferedData # {}

\* The gates of AnsweringService.stream over an answer, as its AnswerOutcome.
Judge(prose, reply) ==
  LET gutted == Kept(prose) # prose /\ ~\E s \in Kept(prose) : Marked(s)
      fakePage == reply.page /\ ~HasPage
      uncited == prose # {} /\ reply.cited = {} /\ ~(reply.page /\ HasPage)
                 /\ reply.data \cap OfferedData = {}
      declined == uncited /\ \E s \in prose : s.declines
  IN [kind |-> "judged",
      supported |-> reply.supported /\ reply.cited \subseteq Offered
                    /\ ~uncited /\ ~fakePage /\ ~FakeData(reply) /\ ~gutted,
      declined |-> declined,
      reason |-> fakePage \/ FakeData(reply) \/ gutted \/ (uncited /\ ~declined),
      data |-> reply.data \cap OfferedData,
      kept |-> Kept(prose)]

Nothing == [kind |-> "none", supported |-> FALSE, declined |-> FALSE, reason |-> FALSE,
            data |-> {}, kept |-> {}]
NotCovered == [Nothing EXCEPT !.kind = "judged", !.reason = TRUE]
Failure == [Nothing EXCEPT !.kind = "failure", !.reason = TRUE]

NoFrame == [frame |-> "none", refused |-> FALSE, withheld |-> FALSE, citations |-> {},
            points |-> {}, prose |-> {}]
Idle == [pc |-> "idle", who |-> "console", question |-> "content", page |-> FALSE,
         keyed |-> FALSE, passages |-> 0, live |-> "none", points |-> 0]
Off == [pc |-> "off", prose |-> {}, refuses |-> FALSE, raised |-> FALSE]
Deaf == [prose |-> {}, outcome |-> Nothing]
Message(type, prose, outcome) == [type |-> type, prose |-> prose, outcome |-> outcome]

DialogueInit ==
  turn = Idle /\ pump = Off /\ outbox = <<>> /\ heard = Deaf /\ shown = NoFrame
DialogueForgotten ==
  turn' = Idle /\ pump' = Off /\ outbox' = <<>> /\ heard' = Deaf /\ shown' = NoFrame

-----------------------------------------------------------------------------
(* The handler                                                             *)

\* A request that was let in. Only a widget says what its page shows, or
\* gives a key to fetch with: from_payload.
Ask(who, question, page, keyed) ==
  /\ turn.pc = "idle" /\ pump.pc = "off"
  /\ page \/ keyed => who = "widget"
  /\ turn' = [Idle EXCEPT !.pc = "retrieve", !.who = who, !.question = question,
                          !.page = page, !.keyed = keyed]
  /\ pump' = Off /\ outbox' = <<>> /\ heard' = Deaf /\ shown' = NoFrame

Ends(frame) == turn' = [turn EXCEPT !.pc = "idle"] /\ shown' = frame
Error == [NoFrame EXCEPT !.frame = "error"]

\* _answer_about_the_corpus: no retrieval and no model. Diagnose has no such
\* branch, and a widget that knows its page does not take it.
DescribeTheCorpus ==
  /\ turn.pc = "retrieve" /\ turn.question = "scope"
  /\ turn.who # "diagnose" /\ ~turn.page /\ ~turn.keyed
  /\ Ends([NoFrame EXCEPT !.frame = "overview"])
  /\ UNCHANGED <<pump, outbox, heard>>

Retrieve(n) ==
  /\ turn.pc = "retrieve"
  /\ turn.question = "scope" => turn.who = "diagnose" \/ turn.page \/ turn.keyed
  /\ turn' = [turn EXCEPT !.pc = IF turn.who = "widget" THEN "live" ELSE "start",
                          !.passages = n]
  /\ UNCHANGED <<pump, outbox, heard, shown>>

\* live_context.read: without a key there is nothing to fetch with, and a
\* call may be cached, fail, or give fewer values than the source maps.
LiveRead(result, n) ==
  /\ turn.pc = "live"
  /\ result # "none" => turn.keyed
  /\ n > 0 => result = "read"
  /\ turn' = [turn EXCEPT !.pc = "start", !.live = result, !.points = n]
  /\ UNCHANGED <<pump, outbox, heard, shown>>

\* _run_answer: the thread.
StartAnswer ==
  /\ turn.pc = "start"
  /\ turn' = [turn EXCEPT !.pc = "relay"]
  /\ pump' = [Off EXCEPT !.pc = "gate"]
  /\ UNCHANGED <<outbox, heard, shown>>

\* Text is a frame of its own, except in diagnose, which answers once.
Relay ==
  /\ turn.pc = "relay" /\ outbox # <<>>
  /\ LET m == Head(outbox) IN
     /\ outbox' = Tail(outbox)
     /\ heard' = CASE m.type = "text" -> [heard EXCEPT !.prose = m.prose]
                   [] m.type = "outcome" -> [heard EXCEPT !.outcome = m.outcome]
                   [] OTHER -> heard
     /\ turn' = [turn EXCEPT !.pc = IF m.type = "end" THEN "compose" ELSE @]
  /\ UNCHANGED <<pump, shown>>

\* The console's complete frame. It asks every unsupported outcome whether it
\* declined, which an _AnswerFailure cannot say: that raises.
CompleteFrame ==
  IF heard.outcome.kind = "failure" THEN Error
  ELSE [NoFrame EXCEPT !.frame = "answer", !.prose = heard.prose,
          !.refused = heard.outcome.kind = "judged" /\ ~heard.outcome.supported,
          !.citations = IF heard.outcome.kind = "judged" /\ ~heard.outcome.supported
                        THEN {} ELSE Offered]

\* The widget's evidence frame. It asks for used_page, with the same result.
EvidenceFrame ==
  IF heard.outcome.kind = "failure" THEN Error
  ELSE [NoFrame EXCEPT !.frame = "answer",
          !.prose = IF heard.outcome.kind = "judged" THEN heard.outcome.kept ELSE heard.prose,
          !.refused = heard.outcome.kind = "judged" /\ ~heard.outcome.supported,
          !.withheld = heard.outcome.reason,
          !.citations = IF heard.outcome.kind = "judged" /\ ~heard.outcome.supported
                        THEN {} ELSE Offered,
          !.points = IF heard.outcome.data # {} THEN OfferedData ELSE {}]

\* Diagnose says whether it is grounded and keeps the evidence either way.
DiagnoseReply ==
  [NoFrame EXCEPT !.frame = IF heard.outcome.kind = "failure" THEN "outage" ELSE "answer",
     !.prose = heard.prose, !.refused = ~heard.outcome.supported, !.citations = Offered]

Compose ==
  /\ turn.pc = "compose"
  /\ Ends(CASE turn.who = "console" -> CompleteFrame
            [] turn.who = "widget" -> EvidenceFrame
            [] turn.who = "diagnose" -> DiagnoseReply)
  /\ UNCHANGED <<pump, outbox, heard>>

\* Whatever raises in the handler, also while the last frame is composed (what
\* follows up on an answer reads the documents again): an error frame.
HandlerFails ==
  /\ turn.pc \in {"retrieve", "live", "start", "compose"}
  /\ Ends(Error)
  /\ UNCHANGED <<pump, outbox, heard>>

\* The client closes its connection: the generator is closed at a yield.
Leave ==
  /\ turn.pc \in {"live", "start", "relay", "compose"} /\ turn.who # "diagnose"
  /\ Ends([NoFrame EXCEPT !.frame = "left"])
  /\ UNCHANGED <<pump, outbox, heard>>

-----------------------------------------------------------------------------
(* The thread                                                              *)

Put(messages) == outbox' = outbox \o messages

\* Refused before the model is called.
Refuse ==
  /\ pump.pc = "gate" /\ MayCover(FALSE)
  /\ Put(<<Message("text", {}, Nothing), Message("outcome", {}, NotCovered)>>)
  /\ pump' = [pump EXCEPT !.pc = "end"]
  /\ UNCHANGED <<turn, heard, shown>>

\* The model writes, or declines in its own words; with no passages both
\* answerers decline, whatever the page covers.
Write(prose, refuses) ==
  /\ pump.pc = "gate" /\ MayCover(TRUE)
  /\ turn.passages = 0 => refuses /\ \E s \in prose : s.declines
  /\ Put(<<Message("text", prose, Nothing)>>)
  /\ pump' = [pump EXCEPT !.pc = "judge", !.prose = prose, !.refuses = refuses]
  /\ UNCHANGED <<turn, heard, shown>>

JudgeTheAnswer ==
  /\ pump.pc = "judge"
  /\ Put(<<Message("outcome", {}, Judge(pump.prose, Reply(pump.prose, pump.refuses)))>>)
  /\ pump' = [pump EXCEPT !.pc = "end"]
  /\ UNCHANGED <<turn, heard, shown>>

\* (mutant) The exception leaves no message behind.
ModelRaisesSilently ==
  /\ pump.pc \in {"gate", "judge"}
  /\ pump' = [pump EXCEPT !.pc = "end", !.raised = TRUE]
  /\ UNCHANGED <<turn, outbox, heard, shown>>

\* A timeout, a rate limit, an outage: before the first word or after it.
ModelRaises ==
  /\ pump.pc \in {"gate", "judge"}
  /\ Put(<<Message("outcome", {}, Failure)>>)
  /\ pump' = [pump EXCEPT !.pc = "end", !.raised = TRUE]
  /\ UNCHANGED <<turn, heard, shown>>

\* (mutant) END is put where the answer ends, not in the finally.
EndIfAnswered ==
  /\ pump.pc = "end"
  /\ IF pump.raised THEN UNCHANGED outbox ELSE Put(<<Message("end", {}, Nothing)>>)
  /\ pump' = [pump EXCEPT !.pc = "off"]
  /\ UNCHANGED <<turn, heard, shown>>

End ==
  /\ pump.pc = "end"
  /\ Put(<<Message("end", {}, Nothing)>>)
  /\ pump' = [pump EXCEPT !.pc = "off"]
  /\ UNCHANGED <<turn, heard, shown>>

Handler ==
  \/ DescribeTheCorpus \/ StartAnswer \/ Relay \/ Compose \/ HandlerFails
  \/ \E n \in 0..MaxPassages : Retrieve(n)
  \/ \E result \in {"none", "read", "failed"}, n \in 0..MaxPoints : LiveRead(result, n)
Thread ==
  \/ Refuse \/ JudgeTheAnswer \/ ModelRaises \/ End
  \/ pump.pc = "gate" /\ \E prose \in Answers, refuses \in BOOLEAN : Write(prose, refuses)
Client ==
  \/ \E who \in {"console", "widget", "diagnose"}, question \in {"content", "bare", "scope"},
        page \in BOOLEAN, keyed \in BOOLEAN : Ask(who, question, page, keyed)
  \/ Leave

DialogueNext == Handler \/ Thread \/ Client

-----------------------------------------------------------------------------
DialogueType ==
  /\ turn \in [pc : {"idle", "retrieve", "live", "start", "relay", "compose"},
               who : {"console", "widget", "diagnose"},
               question : {"content", "bare", "scope"}, page : BOOLEAN, keyed : BOOLEAN,
               passages : 0..MaxPassages, live : {"none", "read", "failed"},
               points : 0..MaxPoints]
  /\ pump.pc \in {"off", "gate", "judge", "end"} /\ pump.prose \in SUBSET Sentences
  /\ heard.prose \in SUBSET Sentences
  /\ shown.prose \in SUBSET Sentences /\ shown.citations \subseteq 1..MaxPassages
  /\ turn.pc # "idle" => shown = NoFrame

\* What a reader can look up: everything a sentence credits was supplied to
\* the model, a figure credited to the screen was read there, and something
\* is credited, unless nothing is said.
Stands(prose) ==
  /\ \A s \in prose :
       /\ s.passages \subseteq Offered /\ s.data \subseteq OfferedData
       /\ s.page => HasPage
       /\ ~(CreditsTheScreen(s) /\ s.worked)
  /\ prose # {} => \E s \in prose : Marked(s)

\* An answer that the console or the widget shows with its citations stands:
\* no sentence of it credits a passage, a page or a value that was never
\* supplied, or a figure to a screen it is not on. Anything else goes out
\* without citations (services/answering.py, the frames of chat_stream and
\* widget_ask).
ShownIsSupported ==
  shown.frame = "answer" /\ turn.who # "diagnose" =>
    IF shown.refused THEN shown.citations = {} ELSE Stands(shown.prose)

\* An outage of the model is never told as an answer, or as a refusal that
\* says the documents do not cover the question (AnswerOutcome.error,
\* _AnswerFailure).
OutageIsNotSilence ==
  shown.frame # "none" /\ pump.raised /\ pump.pc = "off" =>
    shown.frame \in {"error", "outage", "left"}

\* A turn ends with a frame that says so, if the model answers or raises and
\* unless the client has left: the queue is always closed (_run_answer).
StreamsEnd == turn.pc # "idle" ~> turn.pc = "idle"
=============================================================================
