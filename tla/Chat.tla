-------------------------------- MODULE Chat --------------------------------
(***************************************************************************)
(* The turns of the chat, as the console's endpoint, the widget's and      *)
(* diagnose take them: a question that is answered (module Answering), or  *)
(* one that is researched (module Research). Turns share no state, so one  *)
(* at a time is all there is to see, and what the last turn left is        *)
(* forgotten when the next begins: this is a bound, named Turn and Run.    *)
(***************************************************************************)
EXTENDS Answering, Research

vars == <<dialogue, study>>

Init == DialogueInit /\ StudyInit

Turn == phase = "idle" /\ DialogueNext /\ StudyForgotten
Run == turn.pc = "idle" /\ pump.pc = "off" /\ StudyNext /\ DialogueForgotten

Next == Turn \/ Run

\* The steps of the server: a request that is being served is served, and a
\* model that is called answers or raises. Nobody has to ask anything.
Fairness ==
  /\ WF_vars(phase = "idle" /\ Handler /\ StudyForgotten)
  /\ WF_vars(phase = "idle" /\ Thread /\ StudyForgotten)

Spec == Init /\ [][Next]_vars /\ Fairness

TypeOK == DialogueType /\ StudyType
=============================================================================
