------------------------------ MODULE Connector ------------------------------
(***************************************************************************)
(* The row of one connector and the handlers that write it: its state, its *)
(* scope and its retrieval parameters (services/pg_registry.py); the roles *)
(* of the connector and their rules; and the questions that are asked      *)
(* meanwhile.                                                              *)
(*                                                                         *)
(* A handler reads the row in one transaction and writes it in another, or *)
(* reads it and writes it in one: under READ COMMITTED the row may change  *)
(* between the two either way. A column is written only when the new value *)
(* differs from what the transaction read.                                 *)
(***************************************************************************)
EXTENDS Policy

CONSTANTS
  Documents,   \* what the index lists for the connector (records of Policy)
  Scopes,      \* the scopes an administrator may save
  Rules,       \* the sets of rules a role may be given
  NoRole,      \* there is no such role
  Knobs,       \* the retrieval parameters
  Editors,     \* requests that change the connector
  Questions,   \* requests that ask it
  MaxVersion   \* bound on policy_version, and so on the changes made

States == {"active", "suspended"}
Fields == {"state", "scope"}

ASSUME ConnectorAssumption ==
  /\ Scopes # {} /\ IsFiniteSet(Documents) /\ MaxVersion \in Nat
  /\ NoRole \notin Rules

VARIABLES
  row,       \* askcontent_connector: [state, scope, knobs, version]
  editing,   \* where each request that changes it has got
  decided,   \* the state and the scope last decided, and whether they stand
  trail,     \* the last askcontent_scope_change
  role,      \* the rules of the role, or NoRole
  asking     \* where each question has got

connector == <<row, editing, decided, trail, role, asking>>

-----------------------------------------------------------------------------
\* What a request that is not being served holds, of which nothing is read.
Blank == [state |-> "active", scope |-> CHOOSE s \in Scopes : TRUE,
          knobs |-> [k \in Knobs |-> 0], version |-> 1]
Rested == [op |-> "none", pc |-> "idle", copy |-> Blank, seen |-> Blank, wants |-> Blank, missed |-> {}]
Silent == [pc |-> "idle", here |-> {}, role |-> {}, reached |-> {}]

ConnectorInit ==
  /\ row \in {[Blank EXCEPT !.scope = s] : s \in Scopes}
  /\ editing = [e \in Editors |-> Rested]
  /\ decided = [state |-> row.state, scope |-> row.scope, stands |-> Fields]
  /\ trail = [before |-> row.scope, after |-> row.scope,
              counts |-> Diff(row.scope, row.scope, Documents), raced |-> FALSE]
  /\ role \in Rules
  /\ asking = [q \in Questions |-> Silent]

\* What the connector hides now: everything when it is not active, and what
\* its scope leaves out.  And what the role hides: a deny what it matches, an
\* allow what no allow matches.
HiddenHere(r) == {d \in Documents : r.state # "active" \/ Evaluate(r.scope, d) # "in_scope"}
HiddenFrom(rules) ==
  IF rules = NoRole THEN {}
  ELSE {d \in Documents :
          \/ Matching(rules, "deny", d) # {}
          \/ Matching(rules, "allow", d) = {} /\ \E rule \in rules : rule.effect = "allow"}

\* What each of the two has hidden ever since a question began.
StillHidden(r, rules) ==
  [q \in Questions |->
     [asking[q] EXCEPT !.here = @ \cap HiddenHere(r), !.role = @ \cap HiddenFrom(rules)]]

-----------------------------------------------------------------------------
\* What a request wants of the row: another state, another scope, another
\* value of a parameter on top of the others its copy has.
WithState(r) == {[r EXCEPT !.state = s] : s \in States}
WithScope(r) == {[r EXCEPT !.scope = s] : s \in Scopes}
WithKnob(r) == {[r EXCEPT !.knobs = [r.knobs EXCEPT ![k] = 1 - r.knobs[k]]] : k \in Knobs}

Edits == {"set_state", "update_scope", "put_retrieval"}
Decides(op) == CASE op = "set_state" -> {"state"} [] op = "update_scope" -> {"scope"} [] OTHER -> {}

\* registry.get, in a transaction of its own: update_scope reads the scope it
\* measures the change against, put_retrieval the connector it will put.
Get(e) ==
  /\ editing[e].pc = "idle" /\ row.version < MaxVersion
  /\ \E op \in {"update_scope", "put_retrieval"} :
       \E wants \in IF op = "update_scope" THEN WithScope(row) ELSE WithKnob(row) :
         editing' = [editing EXCEPT ![e] =
           [op |-> op, pc |-> "got", copy |-> row, seen |-> row, wants |-> wants, missed |-> {}]]
  /\ UNCHANGED <<row, decided, trail, role, asking>>

\* The transaction that writes reads the row first.
Open(e) ==
  /\ \/ /\ editing[e].pc = "got"
        /\ editing' = [editing EXCEPT ![e].pc = "open", ![e].seen = row]
     \/ /\ editing[e].pc = "idle" /\ row.version < MaxVersion
        /\ \E wants \in WithState(row) :
             editing' = [editing EXCEPT ![e] =
               [op |-> "set_state", pc |-> "open", copy |-> row, seen |-> row, wants |-> wants, missed |-> {}]]
  /\ UNCHANGED <<row, decided, trail, role, asking>>

\* (mutant) The scope is saved with everything else the copy has.
AssignedWhole(op) == Decides(op) \cup IF op # "set_state" THEN Fields \cup {"knobs"} ELSE {}

\* The columns a request assigns: put assigns them all from the copy it has.
Assigned(op) == Decides(op) \cup IF op = "put_retrieval" THEN Fields \cup {"knobs"} ELSE {}

\* The UPDATE: the columns whose new value is not the one that was read.
Updated(e) ==
  [f \in DOMAIN row |->
     IF f = "version"
     THEN IF editing[e].op = "set_state" THEN row.version ELSE editing[e].seen.version + 1
     ELSE IF f \in Assigned(editing[e].op) /\ editing[e].wants[f] # editing[e].seen[f]
          THEN editing[e].wants[f] ELSE row[f]]

\* What the others have missed: what is decided, and what is changed.
Missing(e, new) == Decides(editing[e].op) \cup {f \in Fields : new[f] # row[f]}

\* What a request may undo when it has missed it: a put everything, a decision
\* what it decides.
MayUndo(op) == IF op = "put_retrieval" THEN Fields ELSE Decides(op)

Save(e) ==
  LET new == Updated(e)
      mine == editing[e]
  IN /\ mine.pc = "open"
     /\ row' = new
     /\ editing' = [f \in Editors |->
          IF f = e THEN Rested
          ELSE [editing[f] EXCEPT !.missed = IF editing[f].pc = "idle" THEN @ ELSE @ \cup Missing(e, new)]]
     /\ decided' = [state |-> IF "state" \in Decides(mine.op) THEN mine.wants.state ELSE decided.state,
                    scope |-> IF "scope" \in Decides(mine.op) THEN mine.wants.scope ELSE decided.scope,
                    stands |-> (decided.stands \cup Decides(mine.op)) \ (mine.missed \cap MayUndo(mine.op))]
     /\ trail' = IF mine.op = "update_scope"
                 THEN [before |-> mine.seen.scope, after |-> mine.wants.scope,
                       counts |-> Diff(mine.copy.scope, mine.wants.scope, Documents),
                       raced |-> "scope" \in mine.missed]
                 ELSE trail
     /\ asking' = StillHidden(new, role)
     /\ UNCHANGED role

-----------------------------------------------------------------------------
\* Any change of a role bumps the version, in the statement itself.
Bumped(r) == [r EXCEPT !.version = @ + 1]

RoleChanges(rules) ==
  /\ row.version < MaxVersion
  /\ role' = rules /\ row' = Bumped(row)
  /\ asking' = StillHidden(Bumped(row), rules)
  /\ UNCHANGED <<editing, decided, trail>>

\* create_role replaces the description and the members of a role that exists
\* and leaves its rules; delete_role takes the rules with it.
CreateRole == RoleChanges(IF role = NoRole THEN {} ELSE role)
DeleteRole == role # NoRole /\ RoleChanges(NoRole)

\* set_label_rules: replaced as a whole, in one transaction.
SetLabelRules == role # NoRole /\ \E rules \in Rules : RoleChanges(rules)

-----------------------------------------------------------------------------
\* A question reads the connector (platform.registry.get).
AskQuestion(q) ==
  /\ asking[q].pc = "idle"
  /\ asking' = [asking EXCEPT ![q] =
       [pc |-> "asked", here |-> HiddenHere(row), role |-> HiddenFrom(role),
        reached |-> IF row.state = "active" THEN Corpus(row.scope, Documents) ELSE {}]]
  /\ UNCHANGED <<row, editing, decided, trail, role>>

\* _rules_for_role, and the gate of retrieval: a role that is gone has no rules.
Narrow(q) ==
  /\ asking[q].pc = "asked"
  /\ asking' = [asking EXCEPT ![q].pc = "answered",
       ![q].reached = {d \in @ : role = NoRole \/ Allowed(role, d)}]
  /\ UNCHANGED <<row, editing, decided, trail, role>>

Answered(q) ==
  /\ asking[q].pc = "answered"
  /\ asking' = [asking EXCEPT ![q] = Silent]
  /\ UNCHANGED <<row, editing, decided, trail, role>>

ConnectorNext ==
  \/ \E e \in Editors : Get(e) \/ Open(e) \/ Save(e)
  \/ CreateRole \/ DeleteRole \/ SetLabelRules
  \/ \E q \in Questions : AskQuestion(q) \/ Narrow(q) \/ Answered(q)

-----------------------------------------------------------------------------
Rows == [state : States, scope : Scopes, knobs : [Knobs -> {0, 1}], version : Nat]

ConnectorType ==
  /\ row \in Rows
  /\ editing \in [Editors -> [op : Edits \cup {"none"}, pc : {"idle", "got", "open"},
                             copy : Rows, seen : Rows, wants : Rows, missed : SUBSET Fields]]
  /\ decided \in [state : States, scope : Scopes, stands : SUBSET Fields]
  /\ trail.before \in Scopes /\ trail.after \in Scopes /\ trail.raced \in BOOLEAN
  /\ role \in Rules \cup {NoRole, {}}
  /\ asking \in [Questions -> [pc : {"idle", "asked", "answered"},
                               here : SUBSET Documents, role : SUBSET Documents, reached : SUBSET Documents]]

\* What the administrator decided is what the connector has, whatever other
\* screen saves at the same time: the state and the scope of the row are the
\* ones last decided, unless somebody who had read the row before saved the
\* retrieval parameters, or decided the same at the same time.  And the audit says what was done: the last scope decided is
\* the one it records, with the counts of the documents that come and go.
DecisionsStand ==
  /\ \A f \in decided.stands : row[f] = decided[f]
  /\ trail.raced \/ trail.counts = Diff(trail.before, trail.after, Documents)

\* "Narrowing takes effect on the next query" (api/app.py): a question reaches
\* no document that the connector has hidden ever since the question began,
\* and none that the rules of its role have.
QuestionsAreNarrowed ==
  \A q \in Questions : 
    asking[q].pc = "answered" => asking[q].reached \cap (asking[q].here \cup asking[q].role) = {}

\* "Suspension is one click and takes effect on the next query"
\* (services/registry.py): what suspends the connector lasts until somebody
\* sets another state.
OnlyADecisionLifts == row.state = decided.state
=============================================================================
