------------------------------- MODULE MCChat -------------------------------
(* An instance of Chat for TLC: a sentence of every kind the gates tell    *)
(* apart.                                                                  *)
EXTENDS Chat

Says(passages, page, data, worked, declines) ==
  [passages |-> passages, page |-> page, data |-> data, worked |-> worked, declines |-> declines]

MCSentences ==
  { Says({}, FALSE, {}, FALSE, FALSE),   \* cites nothing
    Says({}, FALSE, {}, FALSE, TRUE),    \* says the documents are silent
    Says({1}, FALSE, {}, FALSE, FALSE),  \* a passage
    Says({2}, FALSE, {}, FALSE, FALSE),  \* another, that may not be offered
    Says({}, TRUE, {}, FALSE, FALSE),    \* read from the page
    Says({}, TRUE, {}, TRUE, FALSE),     \* worked out, and credited to the page
    Says({}, FALSE, {1}, FALSE, FALSE),  \* a live value
    Says({}, FALSE, {2}, FALSE, FALSE),  \* another, that may not be supplied
    Says({1}, TRUE, {}, TRUE, FALSE) }   \* worked out, with a passage

=============================================================================
