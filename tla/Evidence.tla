------------------------------ MODULE Evidence ------------------------------
(***************************************************************************)
(* What retrieval promises a reader, whatever it searches and caches: a    *)
(* question is shown nothing that was closed to its reader all the while   *)
(* it was being answered, and nothing that the rules kept from it when it  *)
(* was asked. What is revoked between two questions is gone from the       *)
(* second.                                                                 *)
(***************************************************************************)

CONSTANTS Readers, Docs

VARIABLES
  open,    \* open[r]: what the store lets r read and the scope holds
  barred,  \* what the role's rules keep out
  asking,  \* asking[r]: r's question is being answered
  sight,   \* sight[r]: what r's question may be shown, while it is asking
  kept,    \* kept[r]: what was barred when r asked, while it is asking
  shown    \* shown[r]: what r's question cited

vars == <<open, barred, asking, sight, kept, shown>>

Init ==
  /\ open \in [Readers -> SUBSET Docs] /\ barred \in SUBSET Docs
  /\ asking = [r \in Readers |-> FALSE]
  /\ sight = [r \in Readers |-> {}] /\ kept = [r \in Readers |-> {}]
  /\ shown = [r \in Readers |-> {}]

\* A question is taken up, or turned away at once.
Ask(r) ==
  /\ ~asking[r]
  /\ asking' = [asking EXCEPT ![r] = TRUE]
  /\ kept' = [kept EXCEPT ![r] = barred]
  /\ sight' = [sight EXCEPT ![r] = open[r] \ barred]
  /\ shown' = [shown EXCEPT ![r] = {}]
  /\ UNCHANGED <<open, barred>>

TurnAway(r) ==
  /\ ~asking[r]
  /\ shown' = [shown EXCEPT ![r] = {}]
  /\ UNCHANGED <<open, barred, asking, sight, kept>>

Answer(r) ==
  /\ asking[r]
  /\ asking' = [asking EXCEPT ![r] = FALSE]
  /\ \E cited \in SUBSET sight[r] : shown' = [shown EXCEPT ![r] = cited]
  /\ sight' = [sight EXCEPT ![r] = {}]
  /\ kept' = [kept EXCEPT ![r] = {}]
  /\ UNCHANGED <<open, barred>>

\* Rights, scopes, roles and documents change.
Change ==
  /\ open' \in [Readers -> SUBSET Docs] /\ barred' \in SUBSET Docs
  /\ sight' = [r \in Readers |->
       IF asking[r] THEN sight[r] \cup (open'[r] \ kept[r]) ELSE {}]
  /\ UNCHANGED <<asking, kept, shown>>

Next == Change \/ \E r \in Readers : Ask(r) \/ TurnAway(r) \/ Answer(r)

Spec == Init /\ [][Next]_vars
=============================================================================
