----------------------------- MODULE MCRefresh -----------------------------
(* An instance of Refresh for TLC: an edit that moves what the words alone *)
(* do not show, and batches of one member and of all.                      *)
EXTENDS Refresh

CONSTANTS w1, s1, s2

Page == [words |-> w1, shape |-> s1]
Rearranged == [words |-> w1, shape |-> s2]
MCBodies == {Page, Rearranged}
=============================================================================
