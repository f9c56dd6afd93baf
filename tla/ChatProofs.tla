----------------------------- MODULE ChatProofs -----------------------------
(***************************************************************************)
(* What is proved of the turns of Chat that answer, for any number of      *)
(* passages, values and sentences: what is shown with its citations        *)
(* stands, and an outage of the model is never told as an answer. The      *)
(* argument is where the one answer of the thread is: how much of it is in *)
(* the queue, and how much the handler has taken.                          *)
(***************************************************************************)
EXTENDS Chat, SequenceTheorems, FiniteSetTheorems, TLAPS

\* The three messages of a turn.
Text == Message("text", pump.prose, Nothing)
Verdict(o) == Message("outcome", {}, o)
EndMark == Message("end", {}, Nothing)
Took(o) == [prose |-> pump.prose, outcome |-> o]

\* What the thread may say of what the model wrote.
Verdicts ==
  IF pump.raised THEN {Failure}
  ELSE {NotCovered, Judge(pump.prose, Reply(pump.prose, pump.refuses))}

\* Where the answer is while the handler relays it, by where the thread is.
AtGate == outbox = <<>> /\ heard = Took(Nothing) /\ pump.prose = {}
AtJudge ==
  \/ outbox = <<Text>> /\ heard = Deaf
  \/ outbox = <<>> /\ heard = Took(Nothing)
AtEnd(o) ==
  \/ outbox = <<Text, Verdict(o)>> /\ heard = Deaf
  \/ outbox = <<Verdict(o)>> /\ heard = Took(Nothing)
  \/ outbox = <<>> /\ heard = Took(o)
AtOff(o) ==
  \/ outbox = <<Text, Verdict(o), EndMark>> /\ heard = Deaf
  \/ outbox = <<Verdict(o), EndMark>> /\ heard = Took(Nothing)
  \/ outbox = <<EndMark>> /\ heard = Took(o)

Relaying ==
  /\ pump.pc = "gate" => AtGate /\ ~pump.raised
  /\ pump.pc = "judge" => AtJudge /\ ~pump.raised
  /\ pump.pc = "end" => \E o \in Verdicts : AtEnd(o)
  /\ pump.pc = "off" => \E o \in Verdicts : AtOff(o)
Composing ==
  pump.pc = "off" /\ \E o \in Verdicts : heard = Took(o)

Turns == [pc : {"idle", "retrieve", "live", "start", "relay", "compose"},
          who : {"console", "widget", "diagnose"},
          question : {"content", "bare", "scope"}, page : BOOLEAN, keyed : BOOLEAN,
          passages : 0..MaxPassages, live : {"none", "read", "failed"},
          points : 0..MaxPoints]
Pumps == [pc : {"off", "gate", "judge", "end"}, prose : SUBSET Sentences,
          refuses : BOOLEAN, raised : BOOLEAN]

IInv ==
  /\ turn \in Turns /\ pump \in Pumps
  /\ turn.page \/ turn.keyed => turn.who = "widget"
  /\ turn.live # "none" => turn.keyed
  /\ turn.pc # "idle" => shown = NoFrame
  /\ turn.pc \in {"retrieve", "live", "start"} => pump = Off /\ outbox = <<>> /\ heard = Deaf
  /\ turn.pc = "relay" => Relaying
  /\ turn.pc = "compose" => Composing
  /\ turn.pc = "idle" /\ pump.pc # "off" => shown.frame = "left"
  /\ ShownIsSupported /\ OutageIsNotSilence

-----------------------------------------------------------------------------
(* The gates                                                               *)

\* What a turn offers does not depend on where the handler is, and what the
\* thread may say depends on the turn and on what the model wrote only.
LEMMA SameOffer ==
  ASSUME turn'.passages = turn.passages, turn'.page = turn.page,
         turn'.live = turn.live, turn'.points = turn.points
  PROVE  Offered' = Offered /\ HasPage' = HasPage /\ OfferedData' = OfferedData
  BY DEF Offered, HasPage, OfferedData

LEMMA SameVerdicts ==
  ASSUME turn'.passages = turn.passages, turn'.page = turn.page,
         turn'.live = turn.live, turn'.points = turn.points,
         pump'.prose = pump.prose, pump'.refuses = pump.refuses, pump'.raised = pump.raised
  PROVE  Verdicts' = Verdicts
<1>1. Offered' = Offered /\ HasPage' = HasPage /\ OfferedData' = OfferedData
  BY SameOffer
<1> QED
  BY <1>1 DEF Verdicts, Judge, FakeData

\* The gates of services/answering.py: what is judged supported stands, once
\* strip_unsupported has taken out what it takes out; and where nothing but
\* passages was supplied, it takes nothing out.
LEMMA SupportedStands ==
  ASSUME NEW p \in SUBSET Sentences, NEW refuses \in BOOLEAN,
         Judge(p, Reply(p, refuses)).supported
  PROVE  /\ Stands(Kept(p))
         /\ ~HasPage /\ OfferedData = {} => Stands(p)
<1> DEFINE reply == Reply(p, refuses)
           gutted == Kept(p) # p /\ ~\E s \in Kept(p) : Marked(s)
           uncited == p # {} /\ reply.cited = {} /\ ~(reply.page /\ HasPage)
                      /\ reply.data \cap OfferedData = {}
<1>1. /\ reply.supported /\ reply.cited \subseteq Offered
      /\ ~uncited /\ ~(reply.page /\ ~HasPage) /\ ~FakeData(reply) /\ ~gutted
  BY DEF Judge
<1>2. /\ reply.cited = UNION {s.passages : s \in p}
      /\ reply.page = (\E s \in p : s.page)
      /\ reply.data = UNION {s.data : s \in p}
  BY <1>1 DEF Reply
<1>3. \A s \in p : /\ s.passages \subseteq Offered /\ s.data \subseteq OfferedData
                   /\ s.page => HasPage
  BY <1>1, <1>2 DEF FakeData
<1>4. p # {} => \E s \in p : Marked(s)
  <2> SUFFICES ASSUME p # {} PROVE \E s \in p : Marked(s)
    OBVIOUS
  <2>1. reply.cited # {} \/ reply.page \/ reply.data # {}
    BY <1>1
  <2>2. CASE reply.cited # {}
    <3>1. PICK s \in p : s.passages # {}
      BY <1>2, <2>2
    <3> QED
      BY <3>1 DEF Marked
  <2>3. CASE reply.page
    BY <1>2, <2>3 DEF Marked
  <2>4. CASE reply.data # {}
    <3>1. PICK s \in p : s.data # {}
      BY <1>2, <2>4
    <3> QED
      BY <3>1 DEF Marked
  <2> QED
    BY <2>1, <2>2, <2>3, <2>4
<1>5. Kept(p) \subseteq p /\ \A s \in Kept(p) : ~(CreditsTheScreen(s) /\ s.worked)
  BY DEF Kept
<1>6. Kept(p) # {} => \E s \in Kept(p) : Marked(s)
  BY <1>1, <1>4
<1>7. Stands(Kept(p))
  BY <1>3, <1>5, <1>6 DEF Stands
<1>8. ASSUME ~HasPage, OfferedData = {} PROVE Stands(p)
  <2>1. \A s \in p : ~CreditsTheScreen(s)
    BY <1>3, <1>8 DEF CreditsTheScreen
  <2> QED
    BY <1>3, <1>4, <2>1 DEF Stands
<1> QED
  BY <1>7, <1>8

\* The kinds of what the thread may say.
LEMMA VerdictKinds ==
  ASSUME NEW o \in Verdicts
  PROVE  /\ pump.raised => o = Failure /\ o.kind = "failure"
         /\ ~pump.raised => o.kind = "judged"
         /\ o.kind = "judged" /\ o.supported =>
              /\ Judge(pump.prose, Reply(pump.prose, pump.refuses)).supported
              /\ o.kept = Kept(pump.prose)
<1>1. CASE pump.raised
  BY <1>1 DEF Verdicts, Failure, Nothing
<1>2. CASE ~pump.raised
  <2>1. CASE o = NotCovered
    BY <1>2, <2>1 DEF NotCovered, Nothing
  <2>2. CASE o = Judge(pump.prose, Reply(pump.prose, pump.refuses))
    BY <1>2, <2>2 DEF Judge
  <2> QED
    BY <1>2, <2>1, <2>2 DEF Verdicts
<1> QED
  BY <1>1, <1>2

-----------------------------------------------------------------------------
(* The steps of the handler                                                *)

LEMMA InitInv == Init => IInv
<1> SUFFICES ASSUME Init PROVE IInv
  OBVIOUS
<1> QED
  BY AnsweringAssumption
     DEF Init, DialogueInit, IInv, Turns, Pumps, Idle, Off, NoFrame, ShownIsSupported, OutageIsNotSilence

\* A turn that is over with a frame that is neither an answer nor silence.
LEMMA EndsOtherwise ==
  ASSUME IInv, NEW f, turn.pc # "idle",
         turn' = [turn EXCEPT !.pc = "idle"], shown' = f, UNCHANGED pump,
         f.frame # "answer",
         f.frame = "left" \/ pump = Off \/ f.frame \in {"error", "outage"},
         pump.pc # "off" => f.frame = "left"
  PROVE  IInv'
<1>1. /\ turn' \in Turns /\ pump' \in Pumps /\ turn'.pc = "idle"
      /\ turn'.page = turn.page /\ turn'.keyed = turn.keyed /\ turn'.who = turn.who
      /\ turn'.live = turn.live
  BY DEF IInv, Turns
<1>2. ShownIsSupported'
  BY DEF ShownIsSupported
<1>3. OutageIsNotSilence'
  BY DEF OutageIsNotSilence, Off
<1> QED
  BY <1>1, <1>2, <1>3 DEF IInv

\* A turn that goes on before the thread has started.
LEMMA GoesOn ==
  ASSUME IInv, turn.pc \in {"retrieve", "live"}, turn' \in Turns,
         turn'.pc \in {"live", "start"}, turn'.who = turn.who,
         turn'.page = turn.page, turn'.keyed = turn.keyed, turn'.live # "none" => turn'.keyed,
         UNCHANGED <<pump, outbox, heard, shown>>
  PROVE  IInv'
<1>1. shown' = NoFrame /\ pump' = Off /\ outbox' = <<>> /\ heard' = Deaf
  BY DEF IInv
<1>2. ShownIsSupported' /\ OutageIsNotSilence'
  BY <1>1 DEF ShownIsSupported, OutageIsNotSilence, NoFrame
<1> QED
  BY <1>1, <1>2 DEF IInv

LEMMA StepBefore ==
  ASSUME IInv,
         \/ DescribeTheCorpus \/ HandlerFails \/ Leave \/ StartAnswer
         \/ \E n \in 0..MaxPassages : Retrieve(n)
         \/ \E result \in {"none", "read", "failed"}, n \in 0..MaxPoints : LiveRead(result, n)
         \/ \E who \in {"console", "widget", "diagnose"}, question \in {"content", "bare", "scope"},
               page \in BOOLEAN, keyed \in BOOLEAN : Ask(who, question, page, keyed)
  PROVE  IInv'
<1>1. CASE DescribeTheCorpus
  <2>1. pump = Off /\ turn.pc # "idle"
    BY <1>1 DEF IInv, DescribeTheCorpus
  <2> QED
    BY <1>1, <2>1, EndsOtherwise DEF DescribeTheCorpus, Ends, NoFrame, Off
<1>2. CASE HandlerFails
  <2>1. pump.pc = "off" /\ turn.pc # "idle"
    BY <1>2 DEF IInv, HandlerFails, Composing, Off
  <2> QED
    BY <1>2, <2>1, EndsOtherwise DEF HandlerFails, Ends, Error, NoFrame, Off
<1>3. CASE Leave
  BY <1>3, EndsOtherwise DEF Leave, Ends, NoFrame
<1>4. CASE StartAnswer
  <2>1. turn' = [turn EXCEPT !.pc = "relay"] /\ pump' = [Off EXCEPT !.pc = "gate"]
        /\ outbox' = <<>> /\ heard' = Deaf /\ shown' = NoFrame
    BY <1>4 DEF StartAnswer, IInv
  <2>2. /\ turn' \in Turns /\ turn'.pc = "relay"
        /\ turn'.page = turn.page /\ turn'.keyed = turn.keyed /\ turn'.who = turn.who
        /\ turn'.live = turn.live
    BY <2>1 DEF IInv, Turns
  <2>3. pump' \in Pumps /\ pump'.pc = "gate" /\ pump'.prose = {} /\ ~pump'.raised
    BY <2>1 DEF Pumps, Off
  <2>4. Relaying'
    BY <2>1, <2>3 DEF Relaying, AtGate, Took, Deaf
  <2>5. ShownIsSupported' /\ OutageIsNotSilence'
    BY <2>1 DEF ShownIsSupported, OutageIsNotSilence, NoFrame
  <2> QED
    BY <2>1, <2>2, <2>3, <2>4, <2>5 DEF IInv
<1>5. ASSUME NEW n \in 0..MaxPassages, Retrieve(n) PROVE IInv'
  <2>1. /\ turn' \in Turns /\ turn'.pc \in {"live", "start"}
        /\ turn'.page = turn.page /\ turn'.keyed = turn.keyed /\ turn'.who = turn.who
        /\ turn'.live = turn.live
    BY <1>5 DEF Retrieve, IInv, Turns
  <2> QED
    BY <1>5, <2>1, GoesOn DEF Retrieve, IInv
<1>6. ASSUME NEW result \in {"none", "read", "failed"}, NEW n \in 0..MaxPoints, LiveRead(result, n)
      PROVE  IInv'
  <2>1. /\ turn' \in Turns /\ turn'.pc = "start"
        /\ turn'.page = turn.page /\ turn'.keyed = turn.keyed /\ turn'.who = turn.who
        /\ turn'.live = result
    BY <1>6 DEF LiveRead, IInv, Turns
  <2> QED
    BY <1>6, <2>1, GoesOn DEF LiveRead
<1>7. ASSUME NEW who \in {"console", "widget", "diagnose"},
             NEW question \in {"content", "bare", "scope"},
             NEW page \in BOOLEAN, NEW keyed \in BOOLEAN, Ask(who, question, page, keyed)
      PROVE  IInv'
  <2>1. turn' = [Idle EXCEPT !.pc = "retrieve", !.who = who, !.question = question,
                             !.page = page, !.keyed = keyed]
        /\ pump' = Off /\ outbox' = <<>> /\ heard' = Deaf /\ shown' = NoFrame
    BY <1>7 DEF Ask
  <2>2. /\ turn' \in Turns /\ turn'.pc = "retrieve" /\ turn'.live = "none"
        /\ turn'.page \/ turn'.keyed => turn'.who = "widget"
    <3>0. Idle \in Turns /\ Idle.live = "none"
      BY AnsweringAssumption DEF Idle, Turns
    <3>1. PICK r \in Turns : r = Idle /\ r.live = "none"
      BY <3>0
    <3>2. turn' = [r EXCEPT !.pc = "retrieve", !.who = who, !.question = question,
                            !.page = page, !.keyed = keyed]
      BY <2>1, <3>1
    <3>3. page \/ keyed => who = "widget"
      BY <1>7 DEF Ask
    <3> HIDE <1>7, <2>1
    <3>4. /\ turn' \in Turns /\ turn'.pc = "retrieve" /\ turn'.who = who /\ turn'.page = page
          /\ turn'.keyed = keyed /\ turn'.live = r.live
      BY <3>2 DEF Turns
    <3> QED
      BY <3>1, <3>3, <3>4
  <2>3. pump' \in Pumps
    BY <2>1 DEF Pumps, Off
  <2>4. ShownIsSupported' /\ OutageIsNotSilence'
    BY <2>1 DEF ShownIsSupported, OutageIsNotSilence, NoFrame
  <2> QED
    BY <2>1, <2>2, <2>3, <2>4 DEF IInv
<1> QED
  BY <1>1, <1>2, <1>3, <1>4, <1>5, <1>6, <1>7

\* Two sequences one after the other are the sequence that has both.
LEMMA Concatenates ==
  ASSUME NEW S, NEW s \in Seq(S), NEW t \in Seq(S), NEW u \in Seq(S),
         Len(u) = Len(s) + Len(t),
         \A i \in 1..Len(s) : u[i] = s[i], \A i \in 1..Len(t) : u[Len(s) + i] = t[i]
  PROVE  s \o t = u
<1>1. s \o t \in Seq(S) /\ Len(s \o t) = Len(s) + Len(t)
  BY ConcatProperties
<1>2. ASSUME NEW i \in 1..Len(u) PROVE (s \o t)[i] = u[i]
  <2>1. CASE i <= Len(s)
    BY <2>1, ConcatProperties
  <2>2. CASE ~(i <= Len(s))
    <3>1. PICK j \in 1..Len(t) : i = Len(s) + j
      <4>1. i - Len(s) \in 1..Len(t) /\ i = Len(s) + (i - Len(s))
        BY <2>2
      <4> QED
        BY <4>1
    <3> QED
      BY <2>2, <3>1, ConcatProperties
  <2> QED
    BY <2>1, <2>2
<1> QED
  BY <1>1, <1>2, SeqEqual

LEMMA PutSecond ==
  ASSUME NEW a, NEW b
  PROVE  <<a>> \o <<b>> = <<a, b>>
<1>1. <<a>> \in Seq({a, b}) /\ <<b>> \in Seq({a, b}) /\ <<a, b>> \in Seq({a, b})
  OBVIOUS
<1>2. \A i \in 1..Len(<<a>>) : <<a, b>>[i] = <<a>>[i]
  OBVIOUS
<1>3. \A i \in 1..Len(<<b>>) : <<a, b>>[Len(<<a>>) + i] = <<b>>[i]
  OBVIOUS
<1>4. Len(<<a, b>>) = Len(<<a>>) + Len(<<b>>)
  OBVIOUS
<1> QED
  BY <1>1, <1>2, <1>3, <1>4, Concatenates

LEMMA PutThird ==
  ASSUME NEW a, NEW b, NEW c
  PROVE  <<a, b>> \o <<c>> = <<a, b, c>>
<1>1. <<a, b>> \in Seq({a, b, c}) /\ <<c>> \in Seq({a, b, c}) /\ <<a, b, c>> \in Seq({a, b, c})
  OBVIOUS
<1>2. \A i \in 1..Len(<<a, b>>) : <<a, b, c>>[i] = <<a, b>>[i]
  OBVIOUS
<1>3. \A i \in 1..Len(<<c>>) : <<a, b, c>>[Len(<<a, b>>) + i] = <<c>>[i]
  OBVIOUS
<1>4. Len(<<a, b, c>>) = Len(<<a, b>>) + Len(<<c>>)
  OBVIOUS
<1> QED
  BY <1>1, <1>2, <1>3, <1>4, Concatenates

\* What taking the first message leaves, and what putting one adds.
LEMMA Takes ==
  ASSUME NEW a, NEW b, NEW c
  PROVE  /\ <<a>> # <<>> /\ <<a, b>> # <<>> /\ <<a, b, c>> # <<>>
         /\ Head(<<a>>) = a /\ Tail(<<a>>) = <<>>
         /\ Head(<<a, b>>) = a /\ Tail(<<a, b>>) = <<b>>
         /\ Head(<<a, b, c>>) = a /\ Tail(<<a, b, c>>) = <<b, c>>
  OBVIOUS

LEMMA Puts ==
  ASSUME NEW a, NEW b, NEW c
  PROVE  /\ <<>> \o <<a>> = <<a>> /\ <<>> \o <<a, b>> = <<a, b>>
         /\ <<a>> \o <<b>> = <<a, b>> /\ <<a, b>> \o <<c>> = <<a, b, c>>
<1>1. <<>> \o <<a>> = <<a>> /\ <<>> \o <<a, b>> = <<a, b>>
  OBVIOUS
<1> QED
  BY <1>1, PutSecond, PutThird

\* What the handler has after it took a message.
LEMMA Taking ==
  ASSUME NEW m, heard' = CASE m.type = "text" -> [heard EXCEPT !.prose = m.prose]
                           [] m.type = "outcome" -> [heard EXCEPT !.outcome = m.outcome]
                           [] OTHER -> heard
  PROVE  /\ m = Text /\ heard = Deaf => heard' = Took(Nothing)
         /\ \A o : m = Verdict(o) /\ heard = Took(Nothing) => heard' = Took(o)
         /\ m = EndMark => heard' = heard
<1>1. /\ m = Text => m.type = "text" /\ m.prose = pump.prose
      /\ \A o : m = Verdict(o) => m.type = "outcome" /\ m.outcome = o
      /\ m = EndMark => m.type = "end"
  BY DEF Text, Verdict, EndMark, Message
<1>2. ASSUME m = Text, heard = Deaf PROVE heard' = Took(Nothing)
  BY <1>1, <1>2 DEF Deaf, Took
<1>3. ASSUME NEW o, m = Verdict(o), heard = Took(Nothing) PROVE heard' = Took(o)
  BY <1>1, <1>3 DEF Took
<1> QED
  BY <1>1, <1>2, <1>3

LEMMA StepRelay ==
  ASSUME IInv, Relay
  PROVE  IInv'
<1>1. turn.pc = "relay" /\ outbox # <<>> /\ Relaying /\ shown' = NoFrame
  BY DEF Relay, IInv
<1> DEFINE m == Head(outbox)
<1>2. /\ outbox' = Tail(outbox) /\ UNCHANGED pump
      /\ heard' = CASE m.type = "text" -> [heard EXCEPT !.prose = m.prose]
                    [] m.type = "outcome" -> [heard EXCEPT !.outcome = m.outcome]
                    [] OTHER -> heard
      /\ turn' = [turn EXCEPT !.pc = IF m.type = "end" THEN "compose" ELSE @]
  BY DEF Relay
<1>3. /\ turn' \in Turns /\ turn'.pc = IF m.type = "end" THEN "compose" ELSE "relay"
      /\ turn'.page = turn.page /\ turn'.keyed = turn.keyed /\ turn'.who = turn.who
      /\ turn'.live = turn.live /\ turn'.passages = turn.passages /\ turn'.points = turn.points
  BY <1>1, <1>2 DEF IInv, Turns
<1>4. Verdicts' = Verdicts
  BY <1>2, <1>3, SameVerdicts
<1>5. Text' = Text /\ (\A o : Took(o)' = Took(o))
  BY <1>2 DEF Text, Took
<1>6. /\ Text.type = "text" /\ EndMark.type = "end" /\ \A o : Verdict(o).type = "outcome"
  BY DEF Text, EndMark, Verdict, Message
<1>7. /\ m = Text /\ heard = Deaf => heard' = Took(Nothing)
      /\ \A o : m = Verdict(o) /\ heard = Took(Nothing) => heard' = Took(o)
      /\ m = EndMark => heard' = heard
  BY <1>2, Taking
<1>8. IF m.type = "end" THEN Composing' ELSE Relaying'
  <2>1. CASE pump.pc = "gate"
    BY <1>1, <2>1 DEF Relaying, AtGate
  <2>2. CASE pump.pc = "judge"
    <3>1. outbox = <<Text>> /\ heard = Deaf
      BY <1>1, <2>2 DEF Relaying, AtJudge
    <3>2. m = Text /\ outbox' = <<>>
      BY <1>2, <3>1, Takes
    <3>3. heard' = Took(Nothing)'
      BY <1>5, <1>7, <3>1, <3>2
    <3> QED
      BY <1>1, <1>2, <1>6, <2>2, <3>2, <3>3 DEF Relaying, AtJudge
  <2>3. CASE pump.pc = "end"
    <3>1. PICK o \in Verdicts : AtEnd(o)
      BY <1>1, <2>3 DEF Relaying
    <3>2. \/ m = Text /\ heard = Deaf /\ outbox' = <<Verdict(o)>>
          \/ m = Verdict(o) /\ heard = Took(Nothing) /\ outbox' = <<>>
      <4>1. CASE outbox = <<Text, Verdict(o)>> /\ heard = Deaf
        BY <1>2, <4>1, Takes
      <4>2. CASE outbox = <<Verdict(o)>> /\ heard = Took(Nothing)
        BY <1>2, <4>2, Takes
      <4> QED
        BY <1>1, <3>1, <4>1, <4>2 DEF AtEnd
    <3>3. AtEnd(o)' /\ m.type # "end"
      BY <1>5, <1>6, <1>7, <3>2 DEF AtEnd, Verdict
    <3> QED
      BY <1>2, <1>4, <2>3, <3>3 DEF Relaying
  <2>4. CASE pump.pc = "off"
    <3>1. PICK o \in Verdicts : AtOff(o)
      BY <1>1, <2>4 DEF Relaying
    <3>2. \/ m = Text /\ heard = Deaf /\ outbox' = <<Verdict(o), EndMark>>
          \/ m = Verdict(o) /\ heard = Took(Nothing) /\ outbox' = <<EndMark>>
          \/ m = EndMark /\ heard = Took(o)
      <4>1. CASE outbox = <<Text, Verdict(o), EndMark>> /\ heard = Deaf
        BY <1>2, <4>1, Takes
      <4>2. CASE outbox = <<Verdict(o), EndMark>> /\ heard = Took(Nothing)
        BY <1>2, <4>2, Takes
      <4>3. CASE outbox = <<EndMark>> /\ heard = Took(o)
        BY <4>3, Takes
      <4> QED
        BY <3>1, <4>1, <4>2, <4>3 DEF AtOff
    <3>3. CASE m = EndMark
      <4>1. heard' = Took(o)' /\ m.type = "end"
        BY <1>5, <1>6, <1>7, <3>2, <3>3
      <4> QED
        BY <1>2, <1>4, <2>4, <4>1 DEF Composing
    <3>4. CASE m # EndMark
      <4>1. AtOff(o)' /\ m.type # "end"
        BY <1>5, <1>6, <1>7, <3>2, <3>4 DEF AtOff, Verdict, EndMark
      <4> QED
        BY <1>2, <1>4, <2>4, <4>1 DEF Relaying
    <3> QED
      BY <3>3, <3>4
  <2> QED
    BY <2>1, <2>2, <2>3, <2>4 DEF IInv, Pumps
<1>9. ShownIsSupported' /\ OutageIsNotSilence'
  BY <1>1 DEF ShownIsSupported, OutageIsNotSilence, NoFrame
<1> QED
  BY <1>1, <1>2, <1>3, <1>8, <1>9 DEF IInv

\* The frames the handler ends with.
LEMMA StepCompose ==
  ASSUME IInv, Compose
  PROVE  IInv'
<1>1. /\ turn.pc = "compose" /\ pump.pc = "off" /\ UNCHANGED pump
      /\ turn' = [turn EXCEPT !.pc = "idle"]
      /\ turn.who \in {"console", "widget", "diagnose"}
  BY DEF Compose, IInv, Composing, Ends, Turns
<1>2. PICK o \in Verdicts : heard = Took(o)
  BY <1>1 DEF IInv, Composing
<1>3. heard.prose = pump.prose /\ heard.outcome = o
  BY <1>2 DEF Took
<1>4. /\ turn' \in Turns /\ turn'.pc = "idle" /\ turn'.page = turn.page
      /\ turn'.keyed = turn.keyed /\ turn'.who = turn.who
      /\ turn'.live = turn.live /\ turn'.passages = turn.passages /\ turn'.points = turn.points
  BY <1>1 DEF IInv, Turns
<1>5. Offered' = Offered /\ HasPage' = HasPage /\ OfferedData' = OfferedData
  BY <1>4, SameOffer
<1>6. \A p : Stands(p)' <=> Stands(p)
  BY <1>5 DEF Stands
<1>7. CASE turn.who = "console"
  <2>1. shown' = CompleteFrame
    BY <1>7 DEF Compose, Ends
  <2>2. CASE o.kind = "failure"
    <3>1. shown'.frame = "error"
      BY <1>3, <2>1, <2>2 DEF CompleteFrame, Error, NoFrame
    <3> QED
      BY <1>1, <1>4, <3>1 DEF IInv, ShownIsSupported, OutageIsNotSilence
  <2>3. CASE o.kind # "failure"
    <3>1. o.kind = "judged" /\ ~pump.raised
      BY <2>3, VerdictKinds
    <3>2. /\ shown'.prose = pump.prose /\ (shown'.refused <=> ~o.supported)
          /\ shown'.citations = IF ~o.supported THEN {} ELSE Offered
      BY <1>3, <2>1, <2>3, <3>1 DEF CompleteFrame, NoFrame
    <3>3. ASSUME o.supported PROVE Stands(pump.prose)
      <4>1. ~HasPage /\ OfferedData = {}
        BY <1>7 DEF IInv, HasPage, OfferedData, Turns
      <4> QED
        BY <3>1, <3>3, <4>1, VerdictKinds, SupportedStands DEF IInv, Pumps
    <3>4. ShownIsSupported' /\ OutageIsNotSilence'
      BY <1>1, <1>6, <3>1, <3>2, <3>3 DEF ShownIsSupported, OutageIsNotSilence
    <3> QED
      BY <1>1, <1>4, <3>4 DEF IInv
  <2> QED
    BY <2>2, <2>3
<1>8. CASE turn.who = "widget"
  <2>1. shown' = EvidenceFrame
    BY <1>8 DEF Compose, Ends
  <2>2. CASE o.kind = "failure"
    <3>1. shown'.frame = "error"
      BY <1>3, <2>1, <2>2 DEF EvidenceFrame, Error, NoFrame
    <3> QED
      BY <1>1, <1>4, <3>1 DEF IInv, ShownIsSupported, OutageIsNotSilence
  <2>3. CASE o.kind # "failure"
    <3>1. o.kind = "judged" /\ ~pump.raised
      BY <2>3, VerdictKinds
    <3>2. /\ shown'.prose = o.kept /\ (shown'.refused <=> ~o.supported)
          /\ shown'.citations = IF ~o.supported THEN {} ELSE Offered
      BY <1>3, <2>1, <2>3, <3>1 DEF EvidenceFrame, NoFrame
    <3>3. ASSUME o.supported PROVE Stands(o.kept)
      BY <3>1, <3>3, VerdictKinds, SupportedStands DEF IInv, Pumps
    <3>4. ShownIsSupported' /\ OutageIsNotSilence'
      BY <1>1, <1>6, <3>1, <3>2, <3>3 DEF ShownIsSupported, OutageIsNotSilence
    <3> QED
      BY <1>1, <1>4, <3>4 DEF IInv
  <2> QED
    BY <2>2, <2>3
<1>9. CASE turn.who = "diagnose"
  <2>1. shown' = DiagnoseReply
    BY <1>9 DEF Compose, Ends
  <2>2. shown'.frame = IF o.kind = "failure" THEN "outage" ELSE "answer"
    BY <1>3, <2>1 DEF DiagnoseReply, NoFrame
  <2>3. pump.raised => o.kind = "failure"
    BY VerdictKinds
  <2>4. ShownIsSupported' /\ OutageIsNotSilence'
    BY <1>1, <1>4, <1>9, <2>2, <2>3 DEF ShownIsSupported, OutageIsNotSilence
  <2> QED
    BY <1>1, <1>4, <2>4 DEF IInv
<1> QED
  BY <1>1, <1>7, <1>8, <1>9

-----------------------------------------------------------------------------
(* The steps of the thread                                                 *)

\* Whatever the thread does, nobody listens to it, or the handler relays it.
LEMMA ThreadSteps ==
  ASSUME IInv, pump.pc # "off", UNCHANGED <<turn, heard, shown>>, pump' \in Pumps,
         turn.pc = "relay" => Relaying'
  PROVE  IInv'
<1>1. turn.pc \in {"idle", "relay"}
  BY DEF IInv, Turns, Off, Composing
<1>2. CASE turn.pc = "idle"
  <2>1. shown'.frame = "left"
    BY <1>2 DEF IInv
  <2> QED
    BY <1>2, <2>1 DEF IInv, ShownIsSupported, OutageIsNotSilence
<1>3. CASE turn.pc = "relay"
  <2>1. shown' = NoFrame
    BY <1>3 DEF IInv
  <2>2. ShownIsSupported' /\ OutageIsNotSilence'
    BY <2>1 DEF ShownIsSupported, OutageIsNotSilence, NoFrame
  <2> QED
    BY <1>3, <2>1, <2>2 DEF IInv
<1> QED
  BY <1>1, <1>2, <1>3

LEMMA StepRefuse ==
  ASSUME IInv, Refuse
  PROVE  IInv'
<1>1. /\ pump.pc = "gate" /\ pump' = [pump EXCEPT !.pc = "end"]
      /\ outbox' = outbox \o <<Message("text", {}, Nothing), Verdict(NotCovered)>>
      /\ UNCHANGED <<turn, heard, shown>>
  BY DEF Refuse, Put, Verdict
<1>2. /\ pump' \in Pumps /\ pump'.pc = "end" /\ pump'.prose = pump.prose
      /\ pump'.refuses = pump.refuses /\ pump'.raised = pump.raised
  BY <1>1 DEF IInv, Pumps
<1>3. ASSUME turn.pc = "relay" PROVE Relaying'
  <2>1. AtGate /\ ~pump.raised
    BY <1>1, <1>3 DEF IInv, Relaying
  <2>2. outbox' = <<Text, Verdict(NotCovered)>>
    BY <1>1, <2>1, Puts DEF AtGate, Text
  <2>3. heard' = Deaf /\ Text' = Text
    BY <1>1, <1>2, <2>1 DEF AtGate, Took, Deaf, Text
  <2>4. AtEnd(NotCovered)'
    BY <2>2, <2>3 DEF AtEnd, Verdict, NotCovered
  <2>5. NotCovered \in Verdicts'
    BY <1>2, <2>1 DEF Verdicts
  <2> QED
    BY <1>2, <2>4, <2>5 DEF Relaying
<1> QED
  BY <1>1, <1>2, <1>3, ThreadSteps

LEMMA StepWrite ==
  ASSUME IInv, NEW prose \in Answers, NEW refuses \in BOOLEAN, Write(prose, refuses)
  PROVE  IInv'
<1>1. /\ pump.pc = "gate" /\ outbox' = outbox \o <<Message("text", prose, Nothing)>>
      /\ pump' = [pump EXCEPT !.pc = "judge", !.prose = prose, !.refuses = refuses]
      /\ UNCHANGED <<turn, heard, shown>>
  BY DEF Write, Put
<1>2. /\ pump' \in Pumps /\ pump'.pc = "judge" /\ pump'.prose = prose
      /\ pump'.raised = pump.raised
  BY <1>1 DEF IInv, Pumps, Answers
<1>3. ASSUME turn.pc = "relay" PROVE Relaying'
  <2>1. AtGate /\ ~pump.raised
    BY <1>1, <1>3 DEF IInv, Relaying
  <2>2. outbox' = <<Text'>>
    BY <1>1, <1>2, <2>1, Puts DEF AtGate, Text
  <2>3. heard' = Deaf
    BY <1>1, <2>1 DEF AtGate, Took, Deaf
  <2> QED
    BY <1>2, <2>1, <2>2, <2>3 DEF Relaying, AtJudge
<1> QED
  BY <1>1, <1>2, <1>3, ThreadSteps

\* A verdict on what has been written, and nothing else, is put.
LEMMA VerdictIsPut ==
  ASSUME IInv, NEW o, o \in Verdicts',
         turn.pc = "relay", pump.pc \in {"gate", "judge"}, pump'.pc = "end",
         pump'.prose = pump.prose, outbox' = outbox \o <<Verdict(o)>>, UNCHANGED heard
  PROVE  Relaying'
<1>1. \/ outbox = <<Text>> /\ heard = Deaf
      \/ outbox = <<>> /\ heard = Took(Nothing)
  BY DEF IInv, Relaying, AtGate, AtJudge
<1>2. \/ outbox' = <<Text, Verdict(o)>> /\ heard' = Deaf
      \/ outbox' = <<Verdict(o)>> /\ heard' = Took(Nothing)
  <2>1. CASE outbox = <<Text>> /\ heard = Deaf
    BY <2>1, Puts
  <2>2. CASE outbox = <<>> /\ heard = Took(Nothing)
    BY <2>2, Puts
  <2> QED
    BY <1>1, <2>1, <2>2
<1>3. Text' = Text /\ Took(Nothing)' = Took(Nothing) /\ Verdict(o)' = Verdict(o)
  BY DEF Text, Took, Verdict
<1>4. AtEnd(o)'
  BY <1>2, <1>3 DEF AtEnd, Verdict
<1> QED
  BY <1>4 DEF Relaying

LEMMA StepJudge ==
  ASSUME IInv, JudgeTheAnswer
  PROVE  IInv'
<1> DEFINE o == Judge(pump.prose, Reply(pump.prose, pump.refuses))
<1>1. /\ pump.pc = "judge" /\ pump' = [pump EXCEPT !.pc = "end"]
      /\ outbox' = outbox \o <<Verdict(o)>> /\ UNCHANGED <<turn, heard, shown>>
  BY DEF JudgeTheAnswer, Put, Verdict
<1>2. /\ pump' \in Pumps /\ pump'.pc = "end" /\ pump'.prose = pump.prose
      /\ pump'.refuses = pump.refuses /\ pump'.raised = pump.raised
  BY <1>1 DEF IInv, Pumps
<1>3. ASSUME turn.pc = "relay" PROVE Relaying'
  <2>1. o \in Verdicts
    BY <1>1, <1>3 DEF IInv, Relaying, Verdicts
  <2>2. Verdicts' = Verdicts
    BY <1>1, <1>2, SameVerdicts
  <2> HIDE DEF o
  <2> QED
    BY <1>1, <1>2, <1>3, <2>1, <2>2, VerdictIsPut
<1> QED
  BY <1>1, <1>2, <1>3, ThreadSteps

LEMMA StepRaises ==
  ASSUME IInv, ModelRaises
  PROVE  IInv'
<1>1. /\ pump.pc \in {"gate", "judge"} /\ pump' = [pump EXCEPT !.pc = "end", !.raised = TRUE]
      /\ outbox' = outbox \o <<Verdict(Failure)>> /\ UNCHANGED <<turn, heard, shown>>
  BY DEF ModelRaises, Put, Verdict
<1>2. /\ pump' \in Pumps /\ pump'.pc = "end" /\ pump'.prose = pump.prose /\ pump'.raised
  BY <1>1 DEF IInv, Pumps
<1>3. Failure \in Verdicts'
  BY <1>2 DEF Verdicts, Failure, Nothing
<1>4. ASSUME turn.pc = "relay" PROVE Relaying'
  BY <1>1, <1>2, <1>3, <1>4, VerdictIsPut
<1> QED
  BY <1>1, <1>2, <1>4, ThreadSteps

LEMMA StepEnd ==
  ASSUME IInv, End
  PROVE  IInv'
<1>1. /\ pump.pc = "end" /\ pump' = [pump EXCEPT !.pc = "off"]
      /\ outbox' = outbox \o <<EndMark>> /\ UNCHANGED <<turn, heard, shown>>
  BY DEF End, Put, EndMark
<1>2. /\ pump' \in Pumps /\ pump'.pc = "off" /\ pump'.prose = pump.prose
      /\ pump'.refuses = pump.refuses /\ pump'.raised = pump.raised
  BY <1>1 DEF IInv, Pumps
<1>3. ASSUME turn.pc = "relay" PROVE Relaying'
  <2>1. PICK o \in Verdicts : AtEnd(o)
    BY <1>1, <1>3 DEF IInv, Relaying
  <2>2. Verdicts' = Verdicts
    BY <1>1, <1>2, SameVerdicts
  <2>3. \/ outbox' = <<Text, Verdict(o), EndMark>> /\ heard' = Deaf
        \/ outbox' = <<Verdict(o), EndMark>> /\ heard' = Took(Nothing)
        \/ outbox' = <<EndMark>> /\ heard' = Took(o)
    <3>1. CASE outbox = <<Text, Verdict(o)>> /\ heard = Deaf
      BY <1>1, <3>1, Puts
    <3>2. CASE outbox = <<Verdict(o)>> /\ heard = Took(Nothing)
      BY <1>1, <3>2, Puts
    <3>3. CASE outbox = <<>> /\ heard = Took(o)
      BY <1>1, <3>3, Puts
    <3> QED
      BY <2>1, <3>1, <3>2, <3>3 DEF AtEnd
  <2>4. Text' = Text /\ Took(Nothing)' = Took(Nothing) /\ Took(o)' = Took(o)
    BY <1>2 DEF Text, Took
  <2>5. AtOff(o)'
    BY <2>3, <2>4 DEF AtOff, Verdict, EndMark
  <2> QED
    BY <1>2, <2>2, <2>5 DEF Relaying
<1> QED
  BY <1>1, <1>2, <1>3, ThreadSteps

-----------------------------------------------------------------------------
(* The turns                                                               *)

\* A run of a study forgets the last turn that answered.
LEMMA StepRun ==
  ASSUME IInv, DialogueForgotten
  PROVE  IInv'
<1>1. turn' = Idle /\ pump' = Off /\ shown' = NoFrame
  BY DEF DialogueForgotten
<1>2. turn' \in Turns /\ pump' \in Pumps /\ turn'.pc = "idle"
      /\ ~turn'.page /\ ~turn'.keyed /\ turn'.live = "none" /\ pump'.pc = "off"
  BY <1>1, AnsweringAssumption DEF Turns, Pumps, Idle, Off
<1>3. ShownIsSupported' /\ OutageIsNotSilence'
  BY <1>1 DEF ShownIsSupported, OutageIsNotSilence, NoFrame
<1> QED
  BY <1>1, <1>2, <1>3 DEF IInv

LEMMA StepTurn ==
  ASSUME IInv, DialogueNext
  PROVE  IInv'
<1>1. ASSUME Handler PROVE IInv'
  BY <1>1, StepBefore, StepRelay, StepCompose DEF Handler
<1>2. ASSUME Thread PROVE IInv'
  BY <1>2, StepRefuse, StepWrite, StepJudge, StepRaises, StepEnd DEF Thread
<1>3. ASSUME Client PROVE IInv'
  BY <1>3, StepBefore DEF Client
<1> QED
  BY <1>1, <1>2, <1>3 DEF DialogueNext

LEMMA StepStutters ==
  ASSUME IInv, UNCHANGED dialogue
  PROVE  IInv'
<1>1. UNCHANGED <<turn, pump, outbox, heard, shown>>
  BY DEF dialogue
<1>2. Verdicts' = Verdicts
  BY <1>1, SameVerdicts
<1>3. Relaying' <=> Relaying
  BY <1>1, <1>2 DEF Relaying, AtGate, AtJudge, AtEnd, AtOff, Text, Took, Verdict, EndMark
<1>4. Composing' <=> Composing
  BY <1>1, <1>2 DEF Composing, Took
<1>5. (ShownIsSupported' <=> ShownIsSupported) /\ (OutageIsNotSilence' <=> OutageIsNotSilence)
  BY <1>1 DEF ShownIsSupported, OutageIsNotSilence, Stands, Offered, OfferedData, HasPage
<1> QED
  BY <1>1, <1>3, <1>4, <1>5 DEF IInv

\* The inductive invariant: the one answer of a turn, and how far it has come.
THEOREM AnswersAreRelayed == Spec => []IInv
<1>1. IInv /\ [Next]_vars => IInv'
  <2> SUFFICES ASSUME IInv, [Next]_vars PROVE IInv'
    OBVIOUS
  <2>1. CASE Turn
    BY <2>1, StepTurn DEF Turn
  <2>2. CASE Run
    BY <2>2, StepRun DEF Run
  <2>3. CASE UNCHANGED vars
    BY <2>3, StepStutters DEF vars
  <2> QED
    BY <2>1, <2>2, <2>3 DEF Next
<1> QED
  BY <1>1, InitInv, PTL DEF Spec

\* What the console or the widget shows with its citations stands, whatever
\* the model writes, whoever leaves, and whenever: for any passages, values
\* and sentences.
THEOREM ShownIsSupportedHolds == Spec => []ShownIsSupported
<1>1. IInv => ShownIsSupported
  BY DEF IInv
<1> QED
  BY <1>1, AnswersAreRelayed, PTL

\* An outage of the model is never told as an answer or as a refusal.
THEOREM OutageIsNotSilenceHolds == Spec => []OutageIsNotSilence
<1>1. IInv => OutageIsNotSilence
  BY DEF IInv
<1> QED
  BY <1>1, AnswersAreRelayed, PTL
-----------------------------------------------------------------------------
(* Orders                                                                  *)

\* How many numbers of I are not above i.
Rank(I, i) == Cardinality({j \in I : j <= i})

\* The ranks of a finite set of numbers are the numbers from one to its size.
LEMMA RanksAreNumbers ==
  ASSUME NEW I \in SUBSET Nat, IsFiniteSet(I)
  PROVE  /\ Cardinality(I) \in Nat
         /\ \A i \in I : Rank(I, i) \in 1..Cardinality(I)
         /\ \A i, j \in I : i < j => Rank(I, i) < Rank(I, j)
         /\ \A k \in 1..Cardinality(I) : \E i \in I : Rank(I, i) = k
<1>1. Cardinality(I) \in Nat BY FS_CardinalityType
<1>2. \A T \in SUBSET I : IsFiniteSet(T) /\ Cardinality(T) \in Nat /\ Cardinality(T) <= Cardinality(I)
  BY <1>1, FS_Subset, FS_CardinalityType
<1>3. \A T \in SUBSET I : \A U \in SUBSET T : U # T => Cardinality(U) < Cardinality(T)
  <2> TAKE T \in SUBSET I
  <2> TAKE U \in SUBSET T
  <2>1. U \in SUBSET I /\ IsFiniteSet(T) BY <1>2
  <2>2. Cardinality(U) <= Cardinality(T) /\ (Cardinality(T) = Cardinality(U) => T = U)
    BY <2>1, FS_Subset
  <2> QED BY <1>2, <2>1, <2>2
<1>4. ASSUME NEW i \in I PROVE Rank(I, i) \in 1..Cardinality(I)
  <2> DEFINE T == {j \in I : j <= i}
  <2>1. T \in SUBSET I /\ {} \in SUBSET T /\ {} # T OBVIOUS
  <2>2. Cardinality({}) = 0 BY FS_EmptySet
  <2>3. Rank(I, i) = Cardinality(T) BY DEF Rank
  <2> HIDE DEF T
  <2>4. Cardinality({}) < Cardinality(T) BY <1>3, <2>1
  <2> QED BY <1>1, <1>2, <2>1, <2>2, <2>3, <2>4
<1>5. ASSUME NEW i \in I, NEW j \in I, i < j PROVE Rank(I, i) < Rank(I, j)
  <2> DEFINE T == {k \in I : k <= j}
             U == {k \in I : k <= i}
  <2>0. j \in T /\ ~(j <= i) /\ (\A k \in U : k <= j) BY <1>5
  <2>1. T \in SUBSET I /\ U \in SUBSET T /\ U # T BY <2>0
  <2>2. Rank(I, i) = Cardinality(U) /\ Rank(I, j) = Cardinality(T) BY DEF Rank
  <2> HIDE DEF T, U
  <2> QED BY <1>3, <2>1, <2>2
<1>6. \A k \in 1..Cardinality(I) : \E i \in I : Rank(I, i) = k
  <2> DEFINE N == 1..Cardinality(I)
             f == [i \in I |-> Rank(I, i)]
  <2>1. f \in [I -> N] BY <1>4
  <2>2. \A i, j \in I : f[i] = f[j] => i = j
    <3> TAKE i, j \in I
    <3>1. i < j \/ j < i \/ i = j OBVIOUS
    <3>2. f[i] = Rank(I, i) /\ f[j] = Rank(I, j) OBVIOUS
    <3>3. Rank(I, i) \in Nat /\ Rank(I, j) \in Nat BY <1>4
    <3>4. i < j => Rank(I, i) < Rank(I, j) BY <1>5
    <3>5. j < i => Rank(I, j) < Rank(I, i) BY <1>5
    <3>6. Rank(I, i) = Rank(I, j) => i = j BY <3>1, <3>3, <3>4, <3>5
    <3> QED BY <3>2, <3>6
  <2>3. f \in Injection(I, N) BY <2>1, <2>2 DEF Injection, IsInjective
  <2>4. IsFiniteSet(N) /\ Cardinality(N) = Cardinality(I) BY <1>1, FS_Interval
  <2>5. f \in Surjection(I, N)
    <3> HIDE DEF f, N
    <3> QED BY <2>3, <2>4, FS_Injection
  <2>6. \A k \in N : \E i \in I : f[i] = k BY <2>5 DEF Surjection
  <2> QED BY <2>6
<1> QED BY <1>1, <1>4, <1>5, <1>6

\* Ordered lists the numbers of a finite set, each once, and they rise.
LEMMA OrderedLists ==
  ASSUME NEW I \in SUBSET Nat, IsFiniteSet(I)
  PROVE  /\ Cardinality(I) \in Nat
         /\ Ordered(I) \in [1..Cardinality(I) -> I]
         /\ \A i \in I : \E k \in 1..Cardinality(I) : Ordered(I)[k] = i
         /\ \A j, k \in 1..Cardinality(I) : j < k => Ordered(I)[j] < Ordered(I)[k]
<1> DEFINE c == Cardinality(I)
           o == Ordered(I)
<1>1. /\ c \in Nat
      /\ \A i \in I : Rank(I, i) \in 1..c
      /\ \A i, j \in I : i < j => Rank(I, i) < Rank(I, j)
      /\ \A k \in 1..c : \E i \in I : Rank(I, i) = k
  BY RanksAreNumbers
<1>2. o = [k \in 1..c |-> CHOOSE i \in I : Rank(I, i) = k] BY DEF Ordered, Rank
<1>3. ASSUME NEW k \in 1..c PROVE o[k] \in I /\ Rank(I, o[k]) = k
  <2>1. o[k] = CHOOSE i \in I : Rank(I, i) = k BY <1>2
  <2> HIDE DEF o
  <2> QED BY <1>1, <2>1
<1>4. DOMAIN o = 1..c /\ o = [k \in DOMAIN o |-> o[k]] BY <1>2
<1> HIDE DEF o, c
<1>5. o \in [1..c -> I] BY <1>3, <1>4
<1>6. \A i, j \in I : Rank(I, i) = Rank(I, j) => i = j
  <2> TAKE i, j \in I
  <2>1. i < j \/ j < i \/ i = j OBVIOUS
  <2>2. Rank(I, i) \in Nat /\ Rank(I, j) \in Nat BY <1>1
  <2> QED BY <1>1, <2>1, <2>2
<1>7. \A i \in I : \E k \in 1..c : o[k] = i BY <1>1, <1>3, <1>6
<1>8. ASSUME NEW j \in 1..c, NEW k \in 1..c, j < k PROVE o[j] < o[k]
  <2>1. o[j] \in Nat /\ o[k] \in Nat BY <1>3
  <2>2. o[k] < o[j] => Rank(I, o[k]) < Rank(I, o[j]) BY <1>1, <1>3
  <2>3. o[k] # o[j] BY <1>1, <1>3, <1>8
  <2> QED BY <1>1, <1>3, <1>8, <2>1, <2>2, <2>3
<1> QED BY <1>1, <1>5, <1>7, <1>8 DEF o, c

\* What a sequence has at a set of places is what At gives.
LEMMA AtGives ==
  ASSUME NEW V, NEW s \in Seq(V), NEW I \in SUBSET DOMAIN s
  PROVE  /\ At(s, I) \in Seq(V) /\ Range(At(s, I)) = {s[i] : i \in I}
         /\ IsInjective(s) => IsInjective(At(s, I))
<1>1. DOMAIN s = 1..Len(s) /\ Len(s) \in Nat OBVIOUS
<1>2. IsFiniteSet(1..Len(s)) BY <1>1, FS_Interval
<1>3. I \in SUBSET Nat /\ IsFiniteSet(I) BY <1>1, <1>2, FS_Subset
<1> DEFINE c == Cardinality(I)
           o == Ordered(I)
<1>4. /\ c \in Nat /\ o \in [1..c -> I]
      /\ \A i \in I : \E k \in 1..c : o[k] = i
      /\ \A j, k \in 1..c : j < k => o[j] < o[k]
  BY <1>3, OrderedLists
<1>5. At(s, I) = [k \in DOMAIN o |-> s[o[k]]] BY DEF At
<1> HIDE DEF c, o
<1>6. At(s, I) = [k \in 1..c |-> s[o[k]]] BY <1>4, <1>5
<1>7. \A k \in 1..c : o[k] \in I /\ s[o[k]] \in V BY <1>4
<1>8. At(s, I) \in Seq(V) BY <1>4, <1>6, <1>7
<1>9. Range(At(s, I)) = {s[i] : i \in I}
  <2>1. Range(At(s, I)) = {s[o[k]] : k \in 1..c} BY <1>6 DEF Range
  <2> QED BY <1>4, <1>7, <2>1
<1>10. ASSUME IsInjective(s) PROVE IsInjective(At(s, I))
  <2>1. ASSUME NEW j \in 1..c, NEW k \in 1..c, s[o[j]] = s[o[k]] PROVE j = k
    <3>1. o[j] = o[k] BY <1>4, <1>10, <2>1 DEF IsInjective
    <3>2. o[j] \in Nat BY <1>3, <1>4
    <3>3. j < k \/ k < j \/ j = k BY <1>4
    <3>4. ~(j < k) /\ ~(k < j) BY <1>4, <3>1, <3>2
    <3> QED BY <3>3, <3>4
  <2> QED BY <1>6, <2>1 DEF IsInjective
<1> QED BY <1>8, <1>9, <1>10

-----------------------------------------------------------------------------
(* The study                                                               *)

Findings == [says : BOOLEAN, cites : SUBSET Nat, refuted : BOOLEAN]

\* What a finding cites was read, a passage has one number, and a loop that
\* was left with parts unasked has a limit to show for it.
StudyInv ==
  /\ StudyType
  /\ IsInjective(listed)
  /\ \A i \in DOMAIN findings : findings[i].cites \subseteq DOMAIN listed
  /\ phase \in {"verify", "synthesise"} /\ Len(findings) < parts => limits # {}
  /\ phase # "idle" => ~report.grounded
  /\ ReportIsHonest

LEMMA NoReportType ==
  /\ NoReport.citations \in Seq(Chunks) /\ NoReport.notices = {} /\ NoReport.grounded = FALSE
BY DEF NoReport

LEMMA StudyBegins ==
  ASSUME phase' \in {"idle", "plan"}, verify' \in BOOLEAN, parts' = 0, findings' = <<>>, listed' = <<>>,
         read' = 0, limits' = {}, report' = NoReport
  PROVE  StudyInv'
<1>1. <<>> \in Seq(Chunks) /\ <<>> \in Seq(Findings) /\ DOMAIN <<>> = {} OBVIOUS
<1>2. parts' \in 0..MaxParts /\ read' \in Nat BY ResearchAssumption
<1>3. StudyType' BY <1>1, <1>2, NoReportType DEF StudyType, Findings
<1>4. IsInjective(listed') BY <1>1 DEF IsInjective
<1>5. \A i \in DOMAIN findings' : findings'[i].cites \subseteq DOMAIN listed' BY <1>1
<1> QED BY <1>3, <1>4, <1>5, NoReportType DEF StudyInv, ReportIsHonest

LEMMA StudyInitInv == Init => StudyInv
<1> SUFFICES ASSUME Init PROVE StudyInv OBVIOUS
<1>1. /\ phase = "idle" /\ verify = FALSE /\ parts = 0 /\ findings = <<>>
      /\ listed = <<>> /\ read = 0 /\ limits = {} /\ report = NoReport
  BY DEF Init, StudyInit
<1>2. <<>> \in Seq(Chunks) /\ <<>> \in Seq(Findings) /\ DOMAIN <<>> = {} OBVIOUS
<1>3. parts \in 0..MaxParts /\ read \in Nat BY <1>1, ResearchAssumption
<1>4. StudyType BY <1>1, <1>2, <1>3, NoReportType DEF StudyType, Findings
<1>5. IsInjective(listed) BY <1>1, <1>2 DEF IsInjective
<1>6. \A i \in DOMAIN findings : findings[i].cites \subseteq DOMAIN listed BY <1>1, <1>2
<1> QED BY <1>1, <1>4, <1>5, <1>6, NoReportType DEF StudyInv, ReportIsHonest

\* While nothing is reported, a report need not be honest.
LEMMA StudyGoesOn ==
  ASSUME StudyInv, phase # "idle", UNCHANGED report, StudyType', IsInjective(listed'),
         \A i \in DOMAIN findings' : findings'[i].cites \subseteq DOMAIN listed',
         phase' \in {"verify", "synthesise"} /\ Len(findings') < parts' => limits' # {}
  PROVE  StudyInv'
BY DEF StudyInv, ReportIsHonest

LEMMA StepPlan ==
  ASSUME StudyInv, NEW k \in 0..MaxParts, Plan(k)
  PROVE  StudyInv'
<1>1. /\ phase = "plan" /\ phase' = "investigate" /\ parts' = IF k = 0 THEN 1 ELSE k
      /\ UNCHANGED <<verify, findings, listed, read, limits, report>>
  BY DEF Plan
<1>2. parts' \in 0..MaxParts BY <1>1, ResearchAssumption
<1>3. StudyType' BY <1>1, <1>2 DEF StudyInv, StudyType
<1> QED BY <1>1, <1>3, StudyGoesOn DEF StudyInv

LEMMA StepStop ==
  ASSUME StudyInv, NEW name \in {"duration", "passages"}, StopEarly(name)
  PROVE  StudyInv'
<1>1. /\ phase = "investigate" /\ phase' = "verify" /\ limits' = limits \cup {name}
      /\ UNCHANGED <<verify, parts, findings, listed, read, report>>
  BY DEF StopEarly, Unasked
<1>2. StudyType' BY <1>1 DEF StudyInv, StudyType
<1> QED BY <1>1, <1>2, StudyGoesOn DEF StudyInv

\* Passages get the numbers after those that were given, and each gets one.
LEMMA NumberedOnce ==
  ASSUME StudyInv, NEW evidence \in Evidences
  PROVE  /\ evidence \in Seq(Chunks)
         /\ Numbered(evidence) \in Seq(Chunks) /\ IsInjective(Numbered(evidence))
         /\ DOMAIN listed \subseteq DOMAIN Numbered(evidence)
<1> DEFINE I == {i \in DOMAIN evidence : evidence[i] \notin Range(listed)}
           new == At(evidence, I)
           all == listed \o new
           n == Len(listed)
           m == Len(new)
<1>1. evidence \in Seq(Chunks) /\ IsInjective(evidence)
  <2>1. PICK k \in 0..MaxEvidence : evidence \in [1..k -> Chunks] BY DEF Evidences, SeqOf
  <2>2. k \in Nat BY <2>1, ResearchAssumption
  <2> QED BY <2>1, <2>2 DEF Evidences
<1>2. I \in SUBSET DOMAIN evidence OBVIOUS
<1>3. /\ new \in Seq(Chunks) /\ IsInjective(new) /\ Range(new) = {evidence[i] : i \in I}
  BY <1>1, <1>2, AtGives
<1>4. \A i \in DOMAIN new : new[i] \notin Range(listed) BY <1>3 DEF Range
<1>5. listed \in Seq(Chunks) /\ IsInjective(listed) BY DEF StudyInv, StudyType
<1>6. Numbered(evidence) = all BY DEF Numbered
<1> HIDE DEF new
<1>7. /\ all \in Seq(Chunks) /\ n \in Nat /\ m \in Nat /\ DOMAIN listed = 1..n /\ DOMAIN new = 1..m
      /\ DOMAIN all = 1..(n + m)
  <2>1. all \in Seq(Chunks) /\ Len(all) = n + m BY <1>3, <1>5, ConcatProperties
  <2> HIDE DEF all
  <2> QED BY <1>3, <1>5, <2>1
<1>8. \A i \in 1..(n + m) : (i <= n /\ all[i] = listed[i]) \/ (i > n /\ i - n \in 1..m /\ all[i] = new[i - n])
  BY <1>3, <1>5, <1>7
<1> HIDE DEF all, n, m
<1>9. ASSUME NEW i \in 1..(n + m), NEW j \in 1..(n + m), all[i] = all[j] PROVE i = j
  <2>1. CASE i <= n /\ j <= n
    <3>1. i \in DOMAIN listed /\ j \in DOMAIN listed /\ listed[i] = listed[j] BY <1>7, <1>8, <1>9, <2>1
    <3> QED BY <1>5, <3>1 DEF IsInjective
  <2>2. CASE i > n /\ j > n
    <3>1. i - n \in DOMAIN new /\ j - n \in DOMAIN new /\ new[i - n] = new[j - n] BY <1>7, <1>8, <1>9, <2>2
    <3>2. i - n = j - n BY <1>3, <3>1 DEF IsInjective
    <3> QED BY <1>7, <3>2
  <2>3. ASSUME NEW a \in 1..(n + m), NEW b \in 1..(n + m), a <= n, b > n, all[a] = all[b] PROVE FALSE
    <3>1. a \in DOMAIN listed /\ b - n \in DOMAIN new /\ listed[a] = new[b - n] BY <1>7, <1>8, <2>3
    <3> QED BY <1>4, <3>1 DEF Range
  <2>4. (i <= n \/ i > n) /\ (j <= n \/ j > n) BY <1>7
  <2> QED BY <1>9, <2>1, <2>2, <2>3, <2>4
<1>10. IsInjective(all) BY <1>7, <1>9 DEF IsInjective
<1>11. 1..n \subseteq 1..(n + m) BY <1>7
<1> QED BY <1>1, <1>6, <1>7, <1>10, <1>11

LEMMA StepInvestigate ==
  ASSUME StudyInv, NEW evidence \in Evidences, NEW says \in BOOLEAN, NEW uses, Investigate(evidence, says, uses)
  PROVE  StudyInv'
<1> DEFINE all == Numbered(evidence)
           f == [says |-> says, cites |-> uses \cap NumbersOf(evidence, all), refuted |-> FALSE]
<1>1. /\ phase = "investigate" /\ listed' = all /\ read' = read + Len(evidence)
      /\ findings' = Append(findings, f)
      /\ UNCHANGED <<phase, verify, parts, limits, report>>
  BY DEF Investigate, Unasked
<1>2. /\ evidence \in Seq(Chunks) /\ all \in Seq(Chunks) /\ IsInjective(all)
      /\ DOMAIN listed \subseteq DOMAIN all
  BY NumberedOnce
<1>3. NumbersOf(evidence, all) \subseteq DOMAIN all BY DEF NumbersOf
<1> HIDE DEF all
<1>4. f \in Findings /\ f.cites \subseteq DOMAIN all
  <2>1. DOMAIN all \subseteq Nat BY <1>2
  <2>2. uses \cap NumbersOf(evidence, all) \in SUBSET Nat BY <1>3, <2>1
  <2> QED BY <1>3, <2>2 DEF Findings
<1>5. findings \in Seq(Findings) /\ read \in Nat /\ Len(evidence) \in Nat
  BY <1>2 DEF StudyInv, StudyType, Findings
<1> HIDE DEF f
<1>6. /\ findings' \in Seq(Findings)
      /\ \A i \in DOMAIN findings' : (i \in DOMAIN findings /\ findings'[i] = findings[i]) \/ findings'[i] = f
  BY <1>1, <1>4, <1>5
<1>7. StudyType' BY <1>1, <1>2, <1>5, <1>6 DEF StudyInv, StudyType, Findings
<1>8. \A i \in DOMAIN findings' : findings'[i].cites \subseteq DOMAIN listed'
  BY <1>1, <1>2, <1>4, <1>6 DEF StudyInv
<1> QED BY <1>1, <1>2, <1>7, <1>8, StudyGoesOn

LEMMA StepAllAsked ==
  ASSUME StudyInv, AllAsked
  PROVE  StudyInv'
<1>1. /\ phase = "investigate" /\ phase' = "verify" /\ Len(findings) = parts
      /\ UNCHANGED <<verify, parts, findings, listed, read, limits, report>>
  BY DEF AllAsked
<1>2. StudyType' BY <1>1 DEF StudyInv, StudyType
<1>3. parts \in Nat /\ ~(Len(findings') < parts') BY <1>1, ResearchAssumption DEF StudyInv, StudyType
<1> QED BY <1>1, <1>2, <1>3, StudyGoesOn DEF StudyInv

LEMMA StepVerify ==
  ASSUME StudyInv, Verify
  PROVE  StudyInv'
<1>1. /\ phase = "verify" /\ phase' = "synthesise"
      /\ UNCHANGED <<verify, parts, listed, read, limits, report>>
  BY DEF Verify
<1>2. findings \in Seq(Findings) BY DEF StudyInv, StudyType, Findings
<1> DEFINE g == [i \in DOMAIN findings |->
                  [findings[i] EXCEPT !.refuted = findings[i].says /\ findings[i].cites = {}]]
<1>3. findings' = findings \/ findings' = g BY DEF Verify
<1>4. \A i \in DOMAIN findings : g[i] \in Findings /\ g[i].cites = findings[i].cites
  <2> TAKE i \in DOMAIN findings
  <2> DEFINE f == findings[i]
             r == f.says /\ f.cites = {}
  <2>1. f \in Findings /\ r \in BOOLEAN BY <1>2
  <2>2. g[i] = [f EXCEPT !.refuted = r] OBVIOUS
  <2> HIDE DEF f, r, g
  <2>3. [f EXCEPT !.refuted = r] \in Findings /\ [f EXCEPT !.refuted = r].cites = f.cites
    BY <2>1 DEF Findings
  <2> QED BY <2>2, <2>3 DEF f
<1>5. DOMAIN g = 1..Len(findings) /\ Len(findings) \in Nat /\ g = [i \in 1..Len(findings) |-> g[i]] BY <1>2
<1> HIDE DEF g
<1>6. g \in Seq(Findings) /\ Len(g) = Len(findings)
  <2>1. DOMAIN findings = 1..Len(findings) BY <1>2
  <2>2. g \in [1..Len(findings) -> Findings] BY <1>4, <1>5, <2>1
  <2> QED BY <1>5, <2>2
<1>7. /\ findings' \in Seq(Findings) /\ Len(findings') = Len(findings) /\ DOMAIN findings' = DOMAIN findings
      /\ \A i \in DOMAIN findings : findings'[i].cites = findings[i].cites
  BY <1>2, <1>3, <1>4, <1>5, <1>6
<1>8. StudyType' BY <1>1, <1>7 DEF StudyInv, StudyType, Findings
<1>9. \A i \in DOMAIN findings' : findings'[i].cites \subseteq DOMAIN listed' BY <1>1, <1>7 DEF StudyInv
<1> QED BY <1>1, <1>7, <1>8, <1>9, StudyGoesOn DEF StudyInv

LEMMA StepRefused ==
  ASSUME StudyInv, Refused
  PROVE  StudyInv'
<1>1. /\ phase = "synthesise" /\ phase' = "idle" /\ report' = Sent(listed, {}, FALSE)
      /\ UNCHANGED <<verify, parts, findings, listed, read, limits>>
  BY DEF Refused
<1>2. report'.citations = listed /\ report'.notices = limits /\ report'.grounded = FALSE
  BY <1>1 DEF Sent
<1>3. StudyType' BY <1>1, <1>2 DEF StudyInv, StudyType
<1> QED BY <1>1, <1>2, <1>3 DEF StudyInv, ReportIsHonest

LEMMA StepSynthesise ==
  ASSUME StudyInv, NEW prose, Synthesise(prose)
  PROVE  StudyInv'
<1>1. /\ phase = "synthesise" /\ phase' = "idle" /\ report' = Sent(CitedPassages, prose, TRUE)
      /\ UNCHANGED <<verify, parts, findings, listed, read, limits>>
  BY DEF Synthesise
<1>2. report'.citations = CitedPassages /\ report'.notices = limits BY <1>1 DEF Sent
<1>3. CitedByFindings \in SUBSET DOMAIN listed
  BY DEF CitedByFindings, UsableFindings, StudyInv
<1>4. listed \in Seq(Chunks) /\ IsInjective(listed) BY DEF StudyInv, StudyType
<1>5. /\ CitedPassages \in Seq(Chunks) /\ IsInjective(CitedPassages)
      /\ Range(CitedPassages) = {listed[k] : k \in CitedByFindings}
  BY <1>3, <1>4, AtGives DEF CitedPassages
<1>6. StudyType' BY <1>1, <1>2, <1>5 DEF StudyInv, StudyType
<1>7. CitedByFindings' = CitedByFindings BY <1>1 DEF CitedByFindings, UsableFindings, Usable
<1>8. Len(findings') < parts' => report'.notices # {} BY <1>1, <1>2 DEF StudyInv
<1>9. ReportIsHonest' BY <1>1, <1>2, <1>5, <1>7, <1>8 DEF ReportIsHonest
<1> QED BY <1>1, <1>6, <1>9 DEF StudyInv

LEMMA StepAbandoned ==
  ASSUME StudyInv, Abandoned
  PROVE  StudyInv'
<1>1. /\ phase' = "idle" /\ report' = NoReport
      /\ UNCHANGED <<verify, parts, findings, listed, read, limits>>
  BY DEF Abandoned
<1>2. StudyType' BY <1>1, NoReportType DEF StudyInv, StudyType
<1> QED BY <1>1, <1>2, NoReportType DEF StudyInv, ReportIsHonest

LEMMA StudyStutters ==
  ASSUME StudyInv, UNCHANGED study
  PROVE  StudyInv'
<1>1. UNCHANGED <<phase, verify, parts, findings, listed, read, limits, report>> BY DEF study
<1>2. StudyType' BY <1>1 DEF StudyInv, StudyType
<1>3. CitedByFindings' = CitedByFindings BY <1>1 DEF CitedByFindings, UsableFindings, Usable
<1> QED BY <1>1, <1>2, <1>3 DEF StudyInv, ReportIsHonest

\* The inductive invariant of the study, its types among it.
THEOREM StudyIsSound == Spec => []StudyInv
<1>1. StudyInv /\ [Next]_vars => StudyInv'
  <2> SUFFICES ASSUME StudyInv, [Next]_vars PROVE StudyInv' OBVIOUS
  <2>1. ASSUME StudyNext PROVE StudyInv'
    <3>1. ASSUME NEW checks \in BOOLEAN, Begin(checks) PROVE StudyInv'
      BY <3>1, StudyBegins DEF Begin
    <3> QED
      BY <2>1, <3>1, StepPlan, StepStop, StepInvestigate, StepAllAsked, StepVerify, StepRefused,
         StepSynthesise, StepAbandoned DEF StudyNext
  <2>2. CASE Turn BY <2>2, StudyBegins DEF Turn, StudyForgotten
  <2>3. CASE Run BY <2>1, <2>3 DEF Run
  <2>4. CASE UNCHANGED vars BY <2>4, StudyStutters DEF vars
  <2> QED BY <2>2, <2>3, <2>4 DEF Next
<1> QED BY <1>1, StudyInitInv, PTL DEF Spec

\* A report that claims to be grounded lists each passage its usable findings
\* cite, once, and no other; and one that did not ask every part says so: for
\* any passages, parts and limits, and whatever the model replies.
THEOREM ReportIsHonestHolds == Spec => []ReportIsHonest
<1>1. StudyInv => ReportIsHonest BY DEF StudyInv
<1> QED BY <1>1, StudyIsSound, PTL
=============================================================================
