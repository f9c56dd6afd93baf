---------------------------- MODULE MCRetrieval ----------------------------
(***************************************************************************)
(* Retrieval with three documents for one reader, and with one document    *)
(* for two readers who share the cache.                                    *)
(***************************************************************************)
EXTENDS Retrieval, TLC

CONSTANTS d1, d2, d3, ann, bob

\* The index and the store's search agree on d1 before d2, and d3 is only the store's.
MCMatch == [ch \in Channels |-> [d \in Docs |-> CASE d = d1 -> 1 [] d = d2 -> 2
                                                  [] OTHER -> IF ch = "ecm" THEN 3 ELSE 0]]
MCName == [d \in Docs |-> CASE d = d1 -> 2 [] d = d2 -> 1 [] OTHER -> 3]

MCSymmetry == Permutations({ann, bob})

\* Of the two readers' questions no channel fails, and the index does not rerank.
ChannelsAnswer == \A r \in Readers : ask[r].said = {} /\ ~ask[r].reranked

\* The one reader's questions are not overtaken by what happens.
Undisturbed == \A r \in Readers : Asking(r) => calm[r]
=============================================================================
