------------------------------ MODULE JobQueue ------------------------------
(***************************************************************************)
(* The job table of AskContent (askcontent_job) and the processes around   *)
(* it: request handlers that put work on it (worker.enqueue, called from   *)
(* api/extra.py), and worker processes that claim a row, run it, put its   *)
(* follow-up on the table and write the outcome back (worker.run).         *)
(*                                                                         *)
(* enqueue is a SELECT followed by an INSERT, claiming is one UPDATE, and  *)
(* everything a worker does in between is interleaved with everybody else. *)
(* A worker can die, or be asked to stop, at any point.                    *)
(***************************************************************************)
EXTENDS Naturals, Sequences, FiniteSets

CONSTANTS
  Workers,      \* worker processes (slots: a restarted one takes the slot again)
  Callers,      \* request handlers that enqueue
  Jobs,         \* rows of askcontent_job the model keeps at once
  Asks,         \* what can be asked for: records [key |-> ..., payload |-> ...]
  Offered,      \* the asks request handlers make; the others only follow a job
  FollowUps,    \* FollowUps[q]: what a job for q may enqueue when it ends well
  MaxAttempts,  \* askcontent_job.max_attempts
  MaxFaults,    \* bound: crashes and database errors in a behaviour
  MaxStops,     \* bound: SIGTERMs in a behaviour
  NoJob, NoAsk, NoOne

ASSUME AskAssumption ==
  /\ \A q \in Asks : q = [key |-> q.key, payload |-> q.payload]
  /\ Offered \in SUBSET Asks
  /\ FollowUps \in [Asks -> SUBSET Asks]
  /\ NoAsk \notin Asks

ASSUME BoundAssumption ==
  /\ MaxAttempts \in Nat \ {0}
  /\ MaxFaults \in Nat
  /\ MaxStops \in Nat

ASSUME NameAssumption ==
  /\ NoJob \notin Jobs
  /\ NoOne \notin Workers
  /\ Workers \cap Callers = {}

VARIABLES
  status,    \* job.status; "absent" for a row that was never inserted
  askOf,     \* job.kind, connector_id, collection_id (the key) and payload
  attempts,  \* job.attempts
  lockedBy,  \* job.locked_by
  line,      \* the rows whose run_after has passed, in the order of run_after
  at,        \* where each worker's loop stands
  mine,      \* the row a worker has claimed (the `job` of run)
  stop,      \* the worker's _stop flag
  desk,      \* enqueue in progress: [step, ask] of each caller and worker
  unseen,    \* history: asks of whose key no row has been claimed since
  dropped,   \* history: those of them whose enqueue call died or raised half-way
  faults, stops

table == <<status, askOf, attempts, lockedBy, line>>
procs == <<at, mine, stop>>
vars == <<table, procs, desk, unseen, dropped, faults, stops>>

Enqueuers == Workers \cup Callers

Waiting(j) == status[j] \in {"queued", "retry"}
Free(j) == status[j] \in {"absent", "done", "failed"}

\* The worker holds a claimed row from the claim until _finish has committed.
HoldingStates == {"working", "following", "finishing", "failing"}
Holds(w, j) == at[w] \in HoldingStates /\ mine[w] = j

\* A row left behind by the worker that was running it.
Abandoned(j) == status[j] = "running" /\ \A w \in Workers : ~Holds(w, j)

\* An enqueue in progress, or none.
Idle == [step |-> "idle", ask |-> NoAsk]
Desk == {Idle} \cup [step : {"look", "insert"}, ask : Asks]
Asking(a, q) == desk[a].step \in {"look", "insert"} /\ desk[a].ask = q

TypeOK ==
  /\ status \in [Jobs -> {"absent", "queued", "running", "retry", "done", "failed"}]
  /\ askOf \in [Jobs -> Asks \cup {NoAsk}]
  /\ attempts \in [Jobs -> Nat]
  /\ lockedBy \in [Jobs -> Workers \cup {NoOne}]
  /\ line \in Seq(Jobs)
  /\ at \in [Workers -> HoldingStates \cup {"polling", "down"}]
  /\ mine \in [Workers -> Jobs \cup {NoJob}]
  /\ stop \in [Workers -> BOOLEAN]
  /\ desk \in [Enqueuers -> Desk]
  /\ unseen \in SUBSET Asks
  /\ dropped \in SUBSET Asks
  /\ faults \in Nat
  /\ stops \in Nat

Init ==
  /\ status = [j \in Jobs |-> "absent"]
  /\ askOf = [j \in Jobs |-> NoAsk]
  /\ attempts = [j \in Jobs |-> 0]
  /\ lockedBy = [j \in Jobs |-> NoOne]
  /\ line = <<>>
  /\ at = [w \in Workers |-> "polling"]
  /\ mine = [w \in Workers |-> NoJob]
  /\ stop = [w \in Workers |-> FALSE]
  /\ desk = [a \in Enqueuers |-> Idle]
  /\ unseen = {}
  /\ dropped = {}
  /\ faults = 0
  /\ stops = 0

-----------------------------------------------------------------------------
(* Putting work on the queue: worker.enqueue and the handlers that call it *)

\* The model's bound on the table: an enqueue starts only when a row is left
\* for it, so that no INSERT ever waits for one.
RoomForOneMore ==
  Cardinality({a \in Enqueuers : desk[a] # Idle}) < Cardinality({j \in Jobs : Free(j)})

\* The handler commits its own change (the new rule), and only then calls
\* enqueue: from here on the change is waiting to be worked on.
Commit(c, q) ==
  /\ desk[c] = Idle /\ RoomForOneMore
  /\ desk' = [desk EXCEPT ![c] = [step |-> "look", ask |-> q]]
  /\ unseen' = unseen \cup {q}
  /\ UNCHANGED <<table, procs, dropped, faults, stops>>

\* Coalescing onto a job that has started as well.
CoalescesWhileRunning(j, q) ==
  (Waiting(j) \/ status[j] = "running") /\ askOf[j].key = q.key

\* What the SELECT of enqueue coalesces a new ask onto: the key only, a row
\* that no worker has taken.
Coalesces(j, q) == Waiting(j) /\ askOf[j].key = q.key

\* enqueue's call returns: a handler answers its request, a worker goes on to
\* write its job's outcome.
Returned(a) ==
  /\ desk' = [desk EXCEPT ![a] = Idle]
  /\ at' = IF a \in Workers THEN [at EXCEPT ![a] = "finishing"] ELSE at

Look(a) ==
  /\ desk[a].step = "look"
  /\ IF \E j \in Jobs : Coalesces(j, desk[a].ask)
     THEN Returned(a)
     ELSE /\ desk' = [desk EXCEPT ![a] = [step |-> "insert", ask |-> @.ask]]
          /\ UNCHANGED at
  /\ UNCHANGED <<table, mine, stop, unseen, dropped, faults, stops>>

\* A new row. Rows that are done or failed are history nobody reads again, so
\* the model reuses them: Jobs bounds the rows that are alive at once.
Insert(a, j) ==
  /\ desk[a].step = "insert"
  /\ Free(j)
  /\ status' = [status EXCEPT ![j] = "queued"]
  /\ askOf' = [askOf EXCEPT ![j] = desk[a].ask]
  /\ attempts' = [attempts EXCEPT ![j] = 0]
  /\ line' = Append(line, j)
  /\ Returned(a)
  /\ UNCHANGED <<lockedBy, mine, stop, unseen, dropped, faults, stops>>

\* The handler's process dies, or its database connection does, between the
\* commit of the rule and the commit of the job.
CallerFails(c) ==
  /\ desk[c] # Idle
  /\ faults < MaxFaults
  /\ faults' = faults + 1
  /\ dropped' = dropped \cup {desk[c].ask}
  /\ desk' = [desk EXCEPT ![c] = Idle]
  /\ UNCHANGED <<table, procs, unseen, stops>>

-----------------------------------------------------------------------------
(* A worker's loop: worker.run, _claim, _run_job, _finish                  *)

\* History: a run for this key begins, after everything asked for it so far.
Serves(key) ==
  /\ unseen' = {q \in unseen : q.key # key}
  /\ dropped' = {q \in dropped : q.key # key}

\* ORDER BY run_after DESC.
ClaimNewest(w) ==
  /\ at[w] = "polling" /\ ~stop[w]
  /\ line # <<>>
  /\ LET j == line[Len(line)] IN
     /\ line' = SubSeq(line, 1, Len(line) - 1)
     /\ status' = [status EXCEPT ![j] = "running"]
     /\ lockedBy' = [lockedBy EXCEPT ![j] = w]
     /\ attempts' = [attempts EXCEPT ![j] = @ + 1]
     /\ mine' = [mine EXCEPT ![w] = j]
     /\ Serves(askOf[j].key)
  /\ at' = [at EXCEPT ![w] = "working"]
  /\ UNCHANGED <<askOf, stop, desk, faults, stops>>

\* Without FOR UPDATE SKIP LOCKED: the row stays claimable while it is taken.
ClaimUnlocked(w) ==
  /\ at[w] = "polling" /\ ~stop[w]
  /\ line # <<>>
  /\ LET j == Head(line) IN
     /\ line' \in {line, Tail(line)}
     /\ status' = [status EXCEPT ![j] = "running"]
     /\ lockedBy' = [lockedBy EXCEPT ![j] = w]
     /\ attempts' = [attempts EXCEPT ![j] = @ + 1]
     /\ mine' = [mine EXCEPT ![w] = j]
     /\ Serves(askOf[j].key)
  /\ at' = [at EXCEPT ![w] = "working"]
  /\ UNCHANGED <<askOf, stop, desk, faults, stops>>

\* UPDATE ... WHERE id = (SELECT ... ORDER BY run_after, created_at FOR UPDATE
\* SKIP LOCKED LIMIT 1): one statement, the row that has been due for longest.
Claim(w) ==
  /\ at[w] = "polling" /\ ~stop[w]
  /\ line # <<>>
  /\ LET j == Head(line) IN
     /\ line' = Tail(line)
     /\ status' = [status EXCEPT ![j] = "running"]
     /\ lockedBy' = [lockedBy EXCEPT ![j] = w]
     /\ attempts' = [attempts EXCEPT ![j] = @ + 1]
     /\ mine' = [mine EXCEPT ![w] = j]
     /\ Serves(askOf[j].key)
  /\ at' = [at EXCEPT ![w] = "working"]
  /\ UNCHANGED <<askOf, stop, desk, faults, stops>>

\* _run_job ends well and has nothing to enqueue (a crawl plan with no pages,
\* a refresh that found no change, the kinds with no follow-up).
WorkDone(w) ==
  /\ at[w] = "working"
  /\ at' = [at EXCEPT ![w] = "finishing"]
  /\ UNCHANGED <<table, mine, stop, desk, unseen, dropped, faults, stops>>

\* _run_job ends well and enqueues what must follow it: a plan its load, a
\* materialisation its enrichment, a refresh the re-index.
WorkFollowed(w, q) ==
  /\ at[w] = "working" /\ RoomForOneMore
  /\ q \in FollowUps[askOf[mine[w]]]
  /\ at' = [at EXCEPT ![w] = "following"]
  /\ desk' = [desk EXCEPT ![w] = [step |-> "look", ask |-> q]]
  /\ unseen' = unseen \cup {q}
  /\ UNCHANGED <<table, mine, stop, dropped, faults, stops>>

\* _run_job raises: a source is down, a payload is wrong, the kind is unknown.
WorkFails(w) ==
  /\ at[w] = "working"
  /\ at' = [at EXCEPT ![w] = "failing"]
  /\ UNCHANGED <<table, mine, stop, desk, unseen, dropped, faults, stops>>

\* The follow-up's enqueue raises inside _run_job: the job's own work stays
\* committed and the job counts as failed.
FollowFails(w) ==
  /\ at[w] = "following" /\ desk[w] # Idle
  /\ faults < MaxFaults
  /\ faults' = faults + 1
  /\ dropped' = dropped \cup {desk[w].ask}
  /\ desk' = [desk EXCEPT ![w] = Idle]
  /\ at' = [at EXCEPT ![w] = "failing"]
  /\ UNCHANGED <<table, mine, stop, unseen, stops>>

\* After _finish the loop tests _stop before it claims again.
LoopAgain(w) ==
  /\ at' = [at EXCEPT ![w] = IF stop[w] THEN "down" ELSE "polling"]
  /\ mine' = [mine EXCEPT ![w] = NoJob]

FinishDone(w) ==
  /\ at[w] = "finishing"
  /\ status' = [status EXCEPT ![mine[w]] = "done"]
  /\ lockedBy' = [lockedBy EXCEPT ![mine[w]] = NoOne]
  /\ LoopAgain(w)
  /\ UNCHANGED <<askOf, attempts, line, stop, desk, unseen, dropped, faults, stops>>

\* attempts <= max_attempts: one attempt too many.
RetriesOnceMore(j) == attempts[j] <= MaxAttempts

Retries(j) == attempts[j] < MaxAttempts

\* Giving up with a status nobody else knows.
FinishFailedAsError(w) ==
  /\ at[w] = "failing"
  /\ status' = [status EXCEPT ![mine[w]] = IF Retries(mine[w]) THEN "retry" ELSE "error"]
  /\ lockedBy' = [lockedBy EXCEPT ![mine[w]] = NoOne]
  /\ LoopAgain(w)
  /\ UNCHANGED <<askOf, attempts, line, stop, desk, unseen, dropped, faults, stops>>

FinishFailed(w) ==
  /\ at[w] = "failing"
  /\ status' = [status EXCEPT ![mine[w]] = IF Retries(mine[w]) THEN "retry" ELSE "failed"]
  /\ lockedBy' = [lockedBy EXCEPT ![mine[w]] = NoOne]
  /\ LoopAgain(w)
  /\ UNCHANGED <<askOf, attempts, line, stop, desk, unseen, dropped, faults, stops>>

\* A claim that looks for 'queued' only: a retried row is never due.
BackoffNever(j) == FALSE /\ UNCHANGED <<vars, status[j]>>

\* run_after = now() + delay has passed: the row takes its place in the order.
BackoffOver(j) ==
  /\ status[j] = "retry"
  /\ \A i \in 1..Len(line) : line[i] # j
  /\ line' = Append(line, j)
  /\ UNCHANGED <<status, askOf, attempts, lockedBy, procs, desk, unseen, dropped, faults, stops>>

\* _finish(error=None) raises inside the try: the except branch writes the job
\* down as failed although its work is done.
FinishDoneRaises(w) ==
  /\ at[w] = "finishing"
  /\ faults < MaxFaults
  /\ faults' = faults + 1
  /\ at' = [at EXCEPT ![w] = "failing"]
  /\ UNCHANGED <<table, mine, stop, desk, unseen, dropped, stops>>

\* The worker dies with its job: killed, out of memory, or _finish raises in
\* the except branch, where nothing catches it. Nothing writes to the row.
Crash(w) ==
  /\ at[w] # "down"
  /\ faults < MaxFaults
  /\ faults' = faults + 1
  /\ at' = [at EXCEPT ![w] = "down"]
  /\ mine' = [mine EXCEPT ![w] = NoJob]
  /\ dropped' = IF desk[w] = Idle THEN dropped ELSE dropped \cup {desk[w].ask}
  /\ desk' = [desk EXCEPT ![w] = Idle]
  /\ UNCHANGED <<table, stop, unseen, stops>>

\* SIGTERM or SIGINT: only the flag. A worker that polls sees it at once.
Signal(w) ==
  /\ at[w] # "down" /\ ~stop[w]
  /\ stops < MaxStops
  /\ stops' = stops + 1
  /\ stop' = [stop EXCEPT ![w] = TRUE]
  /\ UNCHANGED <<table, at, mine, desk, unseen, dropped, faults>>

Leave(w) ==
  /\ at[w] = "polling" /\ stop[w]
  /\ at' = [at EXCEPT ![w] = "down"]
  /\ UNCHANGED <<table, mine, stop, desk, unseen, dropped, faults, stops>>

\* Whoever supervises the workers starts one again.
Restart(w) ==
  /\ at[w] = "down"
  /\ at' = [at EXCEPT ![w] = "polling"]
  /\ stop' = [stop EXCEPT ![w] = FALSE]
  /\ UNCHANGED <<table, mine, desk, unseen, dropped, faults, stops>>

-----------------------------------------------------------------------------

WorkerStep(w) ==
  \/ Claim(w) \/ WorkDone(w) \/ WorkFails(w)
  \/ \E q \in Asks : WorkFollowed(w, q)
  \/ FinishDone(w) \/ FinishFailed(w) \/ Leave(w)

Next ==
  \/ \E c \in Callers, q \in Offered : Commit(c, q)
  \/ \E a \in Enqueuers : Look(a)
  \/ \E a \in Enqueuers, j \in Jobs : Insert(a, j)
  \/ \E c \in Callers : CallerFails(c)
  \/ \E w \in Workers : WorkerStep(w)
  \/ \E j \in Jobs : BackoffOver(j)
  \/ \E w \in Workers : FollowFails(w)
  \/ \E w \in Workers : FinishDoneRaises(w)
  \/ \E w \in Workers : Crash(w)
  \/ \E w \in Workers : Signal(w)
  \/ \E w \in Workers : Restart(w)

Spec == Init /\ [][Next]_vars

\* A process that is up keeps running its code, backoffs run out and a
\* supervisor restarts workers. Nothing makes users ask, signals arrive or
\* faults happen.
Fairness ==
  /\ \A a \in Enqueuers : WF_vars(Look(a)) /\ WF_vars(\E j \in Jobs : Insert(a, j))
  /\ \A w \in Workers : WF_vars(WorkerStep(w)) /\ WF_vars(Restart(w))
  /\ \A j \in Jobs : WF_vars(BackoffOver(j))

FairSpec == Spec /\ Fairness

-----------------------------------------------------------------------------
(* Properties                                                              *)

\* "Several workers can run against one queue ... without two of them doing
\* the same job": a row has one live runner at most, the table names it, and
\* a row somebody runs cannot be claimed.
ExclusiveRun ==
  \A w \in Workers, j \in Jobs : Holds(w, j) =>
    /\ status[j] = "running"
    /\ lockedBy[j] = w
    /\ \A v \in Workers : Holds(v, j) => v = w
    /\ \A i \in 1..Len(line) : line[i] # j

\* A job runs max_attempts times at most however its failures and its
\* workers' restarts interleave, and gives up only when it has used them all.
AttemptsSpent ==
  \A j \in Jobs :
    /\ attempts[j] <= MaxAttempts
    /\ Waiting(j) => attempts[j] < MaxAttempts
    /\ status[j] = "failed" => attempts[j] = MaxAttempts

\* Coalescing serves every key: when something was asked for a kind and a
\* target and no job of theirs has been claimed since, a job of theirs waits, or
\* the enqueue is still under way, or that call died. Which payload the waiting
\* job carries is another matter: see NothingAskedIsLost.
KeysAreServed ==
  \A q \in unseen :
    \/ \E j \in Jobs : Waiting(j) /\ askOf[j].key = q.key
    \/ \E a \in Enqueuers : Asking(a, q)
    \/ q \in dropped

\* What enqueue's docstring says of a kind and a target, and what a refresh
\* needs of it ("anything whose content moved needs re-chunking ... and the
\* connector index is where that happens"): whatever was asked and has not
\* been begun waits on the table as it was asked. The code does less: the row
\* an ask is coalesced onto may carry another payload, and only that is run.
NothingAskedIsLost ==
  \A q \in unseen :
    \/ \E j \in Jobs : Waiting(j) /\ askOf[j] = q
    \/ \E a \in Enqueuers : Asking(a, q)

\* Every job that is put on the table ends done or failed, whatever is asked
\* meanwhile and however often workers are stopped and started, unless it was
\* left behind by a worker that died.
JobsSettle ==
  \A j \in Jobs :
    Waiting(j) ~> (status[j] \in {"done", "failed"} \/ (Abandoned(j) /\ faults > 0))

\* What was asked for a key is followed by a run for that key although new work
\* keeps arriving: the order of run_after starves nobody.
AsksAreServed ==
  \A q \in Asks : (q \in unseen) ~> (q \notin unseen \/ q \in dropped)
=============================================================================
