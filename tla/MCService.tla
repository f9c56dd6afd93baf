------------------------------ MODULE MCService ------------------------------
(* Two machines that each run on their own, for TLC: a turn of the chat     *)
(* (Chat) and the discovery of a site (Crawl). They share no state, so a    *)
(* behaviour takes the steps of one of them, as area says, and the other is *)
(* as it was made: this is a bound.                                         *)
EXTENDS MCChat, MCCrawl

VARIABLE area

all == <<area, vars, discovery>>

AnySite == CHOOSE s \in Sites : TRUE
AnyPolicy == CHOOSE p \in Policies : TRUE

ServiceInit ==
  /\ \/ area = "chat" /\ site = AnySite /\ policy = AnyPolicy
     \/ area = "site"
  /\ DiscoveryInit /\ Init

Chatting == area = "chat" /\ Next /\ UNCHANGED <<area, discovery>>
Discovering == area = "site" /\ DiscoveryNext /\ UNCHANGED <<area, vars>>
\* A discovery ends where a turn never leaves the server stuck.
Discovered == area = "site" /\ stage = "done" /\ UNCHANGED all

\* The fairness of either: a request that is served goes on, and so does the
\* worker that discovers.
ServiceSpec ==
  /\ ServiceInit /\ [][Chatting \/ Discovering \/ Discovered]_all
  /\ WF_all(area = "chat" /\ phase = "idle" /\ Handler /\ StudyForgotten /\ UNCHANGED <<area, discovery>>)
  /\ WF_all(area = "chat" /\ phase = "idle" /\ Thread /\ StudyForgotten /\ UNCHANGED <<area, discovery>>)
  /\ WF_all(Discovering)
=============================================================================
