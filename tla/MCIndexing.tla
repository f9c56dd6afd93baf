----------------------------- MODULE MCIndexing -----------------------------
(* An instance of Indexing for TLC: one document and the edits that differ *)
(* in what they move.                                                      *)
EXTENDS Indexing, TLC

H(level, text) == [level |-> level, text |-> text]
P(text) == [level |-> 0, text |-> text]
Body(blocks, dress) == [blocks |-> blocks, dress |-> dress, parses |-> TRUE]

Page == Body(<<H(1, "g"), H(2, "h"), P("a"), P("b")>>, "plain")
Resaved == [Page EXCEPT !.dress = "curly"]
Reworded == Body(<<H(1, "g"), H(2, "h"), P("c"), P("b")>>, "plain")
Broken == [blocks |-> <<>>, dress |-> "plain", parses |-> FALSE]

MCBodies == {Page, Resaved, Reworded, Broken}
MCSize == [t \in {"a", "b", "c", "g", "h"} |-> 1]

MCFirst == [parser |-> 1, chunker |-> 1, model |-> "hashing"]
MCDeploys == {[MCFirst EXCEPT !.parser = 2], [MCFirst EXCEPT !.chunker = 2],
              [MCFirst EXCEPT !.model = "hosted"]}

Symmetry == Permutations(Runs)
=============================================================================
