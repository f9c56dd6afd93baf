-------------------------- MODULE JobQueueProofs --------------------------
(***************************************************************************)
(* Proofs about JobQueue for every set of workers, callers, rows and asks. *)
(***************************************************************************)
EXTENDS JobQueue, SequenceTheorems, TLAPS

-----------------------------------------------------------------------------
(* The inductive invariant                                                 *)

\* The line holds waiting rows only, and no row twice: what a claim takes from
\* it is nobody's and will not be offered again.
LineInv ==
  /\ \A i \in 1..Len(line) : Waiting(line[i])
  /\ \A i, k \in 1..Len(line) : line[i] = line[k] => i = k

\* What a worker holds is a running row that names it.
HoldInv ==
  \A w \in Workers : at[w] \in HoldingStates =>
    /\ mine[w] \in Jobs
    /\ status[mine[w]] = "running"
    /\ lockedBy[mine[w]] = w
    /\ askOf[mine[w]] \in Asks

\* A worker is inside enqueue exactly while it is following up, and a row that
\* waits has something to do.
DeskInv ==
  /\ \A w \in Workers : at[w] = "following" <=> desk[w] # Idle
  /\ \A j \in Jobs : Waiting(j) => askOf[j] \in Asks

\* The attempts of a running row include the one that is running.
CountInv ==
  /\ AttemptsSpent
  /\ \A j \in Jobs : status[j] = "running" => attempts[j] >= 1

IInv == TypeOK /\ LineInv /\ HoldInv /\ DeskInv /\ CountInv

-----------------------------------------------------------------------------
(* Facts about the line                                                    *)

\* Claim takes the head: what is left are the other rows, in order.
LEMMA HeadLeavesTheRest ==
  ASSUME NEW S, NEW s \in Seq(S), s # <<>>
  PROVE  /\ Head(s) \in S /\ Head(s) = s[1] /\ 1 \in 1..Len(s)
         /\ Tail(s) \in Seq(S)
         /\ \A i \in 1..Len(Tail(s)) : i + 1 \in 2..Len(s) /\ Tail(s)[i] = s[i + 1]
<1>1. Len(s) \in Nat /\ Len(s) >= 1
  BY SMT
<1>2. /\ Tail(s) \in Seq(S) /\ Len(Tail(s)) = Len(s) - 1
      /\ \A i \in 1..Len(Tail(s)) : Tail(s)[i] = s[i + 1]
  BY HeadTailProperties
<1>3. QED
  BY <1>1, <1>2

\* Insert and BackoffOver add a row at the end and move none.
LEMMA AppendKeepsTheRest ==
  ASSUME NEW S, NEW s \in Seq(S), NEW e \in S
  PROVE  /\ Append(s, e) \in Seq(S)
         /\ Len(s) \in Nat /\ Len(Append(s, e)) = Len(s) + 1
         /\ \A i \in 1..Len(s) : Append(s, e)[i] = s[i]
         /\ Append(s, e)[Len(s) + 1] = e
BY AppendProperties

-----------------------------------------------------------------------------
(* Type correctness                                                        *)

LEMMA InitTypeOK == Init => TypeOK
BY AskAssumption, BoundAssumption
   DEF Init, TypeOK, Idle, Desk, HoldingStates, Enqueuers

\* Every action keeps the types of the table, the processes and the desks.
LEMMA NextTypeOK == TypeOK /\ [Next]_vars => TypeOK'
<1> SUFFICES ASSUME TypeOK, [Next]_vars PROVE TypeOK'
  OBVIOUS
<1> USE DEF TypeOK, table, procs, Idle, Desk, HoldingStates, Enqueuers
<1>0. ASSUME NEW a \in Enqueuers, Returned(a)
      PROVE  /\ desk' \in [Enqueuers -> Desk]
             /\ at' \in [Workers -> HoldingStates \cup {"polling", "down"}]
  BY <1>0 DEF Returned
<1>a. ASSUME NEW a \in Enqueuers, desk[a] # Idle
      PROVE  desk[a] \in [step : {"look", "insert"}, ask : Asks] /\ desk[a].ask \in Asks
  <2>1. desk[a] \in Desk
    BY DEF Enqueuers
  <2>2. QED
    BY <1>a, <2>1
<1>1. ASSUME NEW c \in Callers, NEW q \in Asks, Commit(c, q) PROVE TypeOK'
  BY <1>1 DEF Commit
<1>2. ASSUME NEW a \in Enqueuers, Look(a) PROVE TypeOK'
  <2>1. CASE \E j \in Jobs : Coalesces(j, desk[a].ask)
    BY <1>0, <1>2, <2>1 DEF Look
  <2>2. CASE ~ \E j \in Jobs : Coalesces(j, desk[a].ask)
    <3>1. desk[a] # Idle
      BY <1>2 DEF Look
    <3>2. [step |-> "insert", ask |-> desk[a].ask] \in Desk
      BY <1>a, <3>1
    <3>3. QED
      BY <1>2, <2>2, <3>2 DEF Look
  <2>3. QED
    BY <2>1, <2>2
<1>3. ASSUME NEW a \in Enqueuers, NEW j \in Jobs, Insert(a, j) PROVE TypeOK'
  <2>1. line' \in Seq(Jobs)
    BY <1>3, AppendKeepsTheRest DEF Insert
  <2>2. QED
    <3>1. desk[a].ask \in Asks
      BY <1>3, <1>a DEF Insert
    <3>2. desk' \in [Enqueuers -> Desk] /\ at' \in [Workers -> HoldingStates \cup {"polling", "down"}]
      BY <1>0, <1>3 DEF Insert
    <3>3. QED
      BY <1>3, <2>1, <3>1, <3>2 DEF Insert
<1>4. ASSUME NEW c \in Callers, CallerFails(c) PROVE TypeOK'
  BY <1>4, <1>a DEF CallerFails
<1>5. ASSUME NEW w \in Workers, Claim(w) PROVE TypeOK'
  <2>1. Head(line) \in Jobs /\ line' \in Seq(Jobs)
    BY <1>5, HeadLeavesTheRest DEF Claim
  <2>2. QED
    BY <1>5, <2>1 DEF Claim, Serves
<1>6. ASSUME NEW w \in Workers, WorkDone(w) \/ WorkFails(w) \/ Leave(w) PROVE TypeOK'
  BY <1>6 DEF WorkDone, WorkFails, Leave
<1>7. ASSUME NEW w \in Workers, NEW q \in Asks, WorkFollowed(w, q) PROVE TypeOK'
  BY <1>7 DEF WorkFollowed
<1>8. ASSUME NEW w \in Workers, FinishDone(w) \/ FinishFailed(w) PROVE TypeOK'
  BY <1>8 DEF FinishDone, FinishFailed, LoopAgain
<1>9. ASSUME NEW j \in Jobs, BackoffOver(j) PROVE TypeOK'
  <2>1. line' \in Seq(Jobs)
    BY <1>9, AppendKeepsTheRest DEF BackoffOver
  <2>2. QED
    BY <1>9, <2>1 DEF BackoffOver
<1>10. ASSUME NEW w \in Workers, FollowFails(w) PROVE TypeOK'
  <2>1. desk[w].ask \in Asks
    BY <1>10, <1>a DEF FollowFails
  <2>2. QED
    BY <1>10, <2>1 DEF FollowFails
<1>10a. ASSUME NEW w \in Workers, FinishDoneRaises(w) PROVE TypeOK'
  BY <1>10a DEF FinishDoneRaises
<1>11. ASSUME NEW w \in Workers, Crash(w) PROVE TypeOK'
  BY <1>11 DEF Crash
<1>12. ASSUME NEW w \in Workers, Signal(w) PROVE TypeOK'
  BY <1>12 DEF Signal
<1>12a. ASSUME NEW w \in Workers, Restart(w) PROVE TypeOK'
  BY <1>12a DEF Restart
<1>13. CASE UNCHANGED vars
  BY <1>13 DEF vars
<1>14. QED
  BY <1>1, <1>2, <1>3, <1>4, <1>5, <1>6, <1>7, <1>8, <1>9, <1>10, <1>10a, <1>11, <1>12, <1>12a, <1>13,
     AskAssumption DEF Next, WorkerStep

\* Type correctness of the queue for any number of processes and rows.
THEOREM TypeCorrect == Spec => []TypeOK
<1>1. TypeOK /\ [Next]_vars => TypeOK'
  BY NextTypeOK
<1>2. QED
  BY InitTypeOK, <1>1, PTL DEF Spec

-----------------------------------------------------------------------------
(* One runner for each job                                                 *)

\* No action but a claim moves a row that somebody holds or that is in the
\* line, and a claim moves the row it takes out of the line.
LEMMA NextLineHold == TypeOK /\ LineInv /\ HoldInv /\ DeskInv /\ [Next]_vars => LineInv' /\ HoldInv'
<1> SUFFICES ASSUME TypeOK, LineInv, HoldInv, DeskInv, [Next]_vars PROVE LineInv' /\ HoldInv'
  OBVIOUS
<1> USE DEF TypeOK, LineInv, HoldInv, Waiting, table, procs, HoldingStates, Enqueuers
<1>1. ASSUME NEW c \in Callers, NEW q \in Asks, Commit(c, q) PROVE LineInv' /\ HoldInv'
  BY <1>1 DEF Commit
<1>2. ASSUME NEW a \in Enqueuers, Look(a) PROVE LineInv' /\ HoldInv'
  BY <1>2 DEF Look, Returned, DeskInv, Idle
<1>3. ASSUME NEW a \in Enqueuers, NEW j \in Jobs, Insert(a, j) PROVE LineInv' /\ HoldInv'
  <2>1. /\ Len(line) \in Nat /\ Len(line') = Len(line) + 1
        /\ \A i \in 1..Len(line) : line'[i] = line[i] /\ line[i] \in Jobs
        /\ line'[Len(line) + 1] = j
    BY <1>3, AppendKeepsTheRest DEF Insert
  <2>2. \A i \in 1..Len(line) : line[i] # j
    BY <1>3 DEF Insert, Free
  <2>3. LineInv'
    BY <1>3, <2>1, <2>2 DEF Insert
  <2>4. \A w \in Workers : at[w] \in HoldingStates => mine[w] # j
    BY <1>3 DEF Insert, Free
  <2>5. \A w \in Workers : at'[w] \in HoldingStates => at[w] \in HoldingStates
    BY <1>3 DEF Insert, Returned, DeskInv, Idle
  <2>6. HoldInv'
    BY <1>3, <2>4, <2>5 DEF Insert
  <2>7. QED
    BY <2>3, <2>6
<1>4. ASSUME NEW c \in Callers, CallerFails(c) PROVE LineInv' /\ HoldInv'
  BY <1>4 DEF CallerFails
<1>5. ASSUME NEW w \in Workers, Claim(w) PROVE LineInv' /\ HoldInv'
  <2> DEFINE j == Head(line)
  <2>1. /\ j \in Jobs /\ j = line[1] /\ 1 \in 1..Len(line)
        /\ \A i \in 1..Len(line') : i + 1 \in 2..Len(line) /\ line'[i] = line[i + 1]
    BY <1>5, HeadLeavesTheRest DEF Claim
  <2>2. Waiting(j) /\ Len(line) \in Nat /\ Len(line') \in Nat
    BY <1>5, <2>1, HeadLeavesTheRest DEF Claim
  <2>3. \A i \in 1..Len(line') : line'[i] # j /\ line'[i] \in Jobs /\ Waiting(line'[i])
    BY <2>1, <2>2
  <2>4. \A i, k \in 1..Len(line') : line'[i] = line'[k] => i = k
    BY <2>1, <2>2
  <2>5. /\ status' = [status EXCEPT ![j] = "running"]
        /\ lockedBy' = [lockedBy EXCEPT ![j] = w]
        /\ mine' = [mine EXCEPT ![w] = j]
        /\ at' = [at EXCEPT ![w] = "working"]
        /\ askOf' = askOf
    BY <1>5 DEF Claim
  <2>6. LineInv'
    BY <2>3, <2>4, <2>5
  <2>7. \A v \in Workers : at[v] \in HoldingStates => mine[v] # j
    BY <2>2
  <2>8. HoldInv'
    BY <2>1, <2>2, <2>5, <2>7 DEF DeskInv
  <2>9. QED
    BY <2>6, <2>8
<1>6. ASSUME NEW w \in Workers, WorkDone(w) \/ WorkFails(w) \/ Leave(w) PROVE LineInv' /\ HoldInv'
  BY <1>6 DEF WorkDone, WorkFails, Leave
<1>7. ASSUME NEW w \in Workers, NEW q \in Asks, WorkFollowed(w, q) PROVE LineInv' /\ HoldInv'
  BY <1>7 DEF WorkFollowed
<1>8. ASSUME NEW w \in Workers, FinishDone(w) \/ FinishFailed(w) PROVE LineInv' /\ HoldInv'
  <2>1. at[w] \in HoldingStates /\ mine[w] \in Jobs /\ ~Waiting(mine[w])
    BY <1>8 DEF FinishDone, FinishFailed
  <2>2. \A i \in 1..Len(line) : line[i] \in Jobs /\ line[i] # mine[w]
    BY <2>1
  <2>3. \A v \in Workers : at[v] \in HoldingStates /\ v # w => mine[v] # mine[w]
    BY <2>1
  <2>4. LineInv'
    BY <1>8, <2>1, <2>2 DEF FinishDone, FinishFailed
  <2>5. /\ at'[w] \notin HoldingStates
        /\ \A v \in Workers : v # w => at'[v] = at[v] /\ mine'[v] = mine[v]
        /\ \A k \in Jobs : k # mine[w] => status'[k] = status[k] /\ lockedBy'[k] = lockedBy[k]
        /\ askOf' = askOf
    BY <1>8, <2>1 DEF FinishDone, FinishFailed, LoopAgain
  <2>6. ASSUME NEW v \in Workers, at'[v] \in HoldingStates
        PROVE  /\ mine'[v] \in Jobs /\ status'[mine'[v]] = "running"
               /\ lockedBy'[mine'[v]] = v /\ askOf'[mine'[v]] \in Asks
    <3>1. v # w /\ at[v] \in HoldingStates /\ mine'[v] = mine[v]
      BY <2>5, <2>6
    <3>2. QED
      BY <2>3, <2>5, <3>1
  <2>7. HoldInv'
    BY <2>6
  <2>8. QED
    BY <2>4, <2>7
<1>9. ASSUME NEW j \in Jobs, BackoffOver(j) PROVE LineInv' /\ HoldInv'
  <2>1. /\ Len(line) \in Nat /\ Len(line') = Len(line) + 1
        /\ \A i \in 1..Len(line) : line'[i] = line[i] /\ line[i] \in Jobs
        /\ line'[Len(line) + 1] = j
    BY <1>9, AppendKeepsTheRest DEF BackoffOver
  <2>2. LineInv'
    BY <1>9, <2>1 DEF BackoffOver
  <2>3. HoldInv'
    BY <1>9 DEF BackoffOver
  <2>4. QED
    BY <2>2, <2>3
<1>10. ASSUME NEW w \in Workers, FollowFails(w) \/ FinishDoneRaises(w) PROVE LineInv' /\ HoldInv'
  BY <1>10 DEF FollowFails, FinishDoneRaises
<1>11. ASSUME NEW w \in Workers, Crash(w) PROVE LineInv' /\ HoldInv'
  BY <1>11 DEF Crash
<1>12. ASSUME NEW w \in Workers, Signal(w) \/ Restart(w) PROVE LineInv' /\ HoldInv'
  BY <1>12 DEF Signal, Restart
<1>13. CASE UNCHANGED vars
  BY <1>13 DEF vars
<1>14. QED
  BY <1>1, <1>2, <1>3, <1>4, <1>5, <1>6, <1>7, <1>8, <1>9, <1>10, <1>11, <1>12, <1>13,
     AskAssumption DEF Next, WorkerStep

\* A worker enters enqueue when it follows up and leaves it with its call; a
\* row starts to wait only with an ask of its own.
LEMMA NextDesk == TypeOK /\ HoldInv /\ DeskInv /\ [Next]_vars => DeskInv'
<1> SUFFICES ASSUME TypeOK, HoldInv, DeskInv, [Next]_vars PROVE DeskInv'
  OBVIOUS
<1> USE NameAssumption DEF TypeOK, DeskInv, Waiting, table, procs, Enqueuers
<1>0. ASSUME NEW q \in Asks, NEW s \in {"look", "insert"}
      PROVE  [step |-> s, ask |-> q] # Idle
  BY DEF Idle
<1>1. ASSUME NEW c \in Callers, NEW q \in Asks, Commit(c, q) PROVE DeskInv'
  BY <1>1 DEF Commit
<1>2. ASSUME NEW a \in Enqueuers, Look(a) PROVE DeskInv'
  <2>1. desk[a] # Idle /\ desk[a].ask \in Asks
    BY <1>2 DEF Look, Idle, Desk
  <2>2. CASE Returned(a) /\ status' = status /\ askOf' = askOf
    BY <2>1, <2>2 DEF Returned
  <2>3. CASE /\ desk' = [desk EXCEPT ![a] = [step |-> "insert", ask |-> @.ask]]
             /\ at' = at /\ status' = status /\ askOf' = askOf
    BY <1>0, <2>1, <2>3
  <2>4. QED
    BY <1>2, <2>2, <2>3 DEF Look
<1>3. ASSUME NEW a \in Enqueuers, NEW j \in Jobs, Insert(a, j) PROVE DeskInv'
  <2>1. desk[a] # Idle /\ desk[a].ask \in Asks
    BY <1>3 DEF Insert, Idle, Desk
  <2>2. \A w \in Workers : at'[w] = "following" <=> desk'[w] # Idle
    BY <1>3, <2>1 DEF Insert, Returned
  <2>3. \A k \in Jobs : Waiting(k)' => askOf'[k] \in Asks
    BY <1>3, <2>1 DEF Insert
  <2>4. QED
    BY <2>2, <2>3
<1>4. ASSUME NEW c \in Callers, CallerFails(c) PROVE DeskInv'
  BY <1>4 DEF CallerFails
<1>5. ASSUME NEW w \in Workers, Claim(w) PROVE DeskInv'
  BY <1>5 DEF Claim
<1>6. ASSUME NEW w \in Workers, WorkDone(w) \/ WorkFails(w) \/ Leave(w) PROVE DeskInv'
  BY <1>6 DEF WorkDone, WorkFails, Leave
<1>7. ASSUME NEW w \in Workers, NEW q \in Asks, WorkFollowed(w, q) PROVE DeskInv'
  BY <1>0, <1>7 DEF WorkFollowed
<1>8. ASSUME NEW w \in Workers, FinishDone(w) \/ FinishFailed(w) PROVE DeskInv'
  BY <1>8 DEF FinishDone, FinishFailed, LoopAgain, HoldInv, HoldingStates
<1>9. ASSUME NEW j \in Jobs, BackoffOver(j) PROVE DeskInv'
  BY <1>9 DEF BackoffOver
<1>10. ASSUME NEW w \in Workers, FollowFails(w) \/ FinishDoneRaises(w) PROVE DeskInv'
  BY <1>10 DEF FollowFails, FinishDoneRaises
<1>11. ASSUME NEW w \in Workers, Crash(w) PROVE DeskInv'
  BY <1>11 DEF Crash
<1>12. ASSUME NEW w \in Workers, Signal(w) \/ Restart(w) PROVE DeskInv'
  BY <1>12 DEF Signal, Restart
<1>13. CASE UNCHANGED vars
  BY <1>13 DEF vars
<1>14. QED
  BY <1>1, <1>2, <1>3, <1>4, <1>5, <1>6, <1>7, <1>8, <1>9, <1>10, <1>11, <1>12, <1>13,
     AskAssumption DEF Next, WorkerStep

\* attempts grows with a claim, which takes a waiting row, and a row waits
\* again only below the limit.
LEMMA NextCount == TypeOK /\ LineInv /\ HoldInv /\ CountInv /\ [Next]_vars => CountInv'
<1> SUFFICES ASSUME TypeOK, LineInv, HoldInv, CountInv, [Next]_vars PROVE CountInv'
  OBVIOUS
<1> USE BoundAssumption DEF TypeOK, CountInv, AttemptsSpent, Waiting, table, procs
<1>1. ASSUME NEW c \in Callers, NEW q \in Asks, Commit(c, q) PROVE CountInv'
  BY <1>1 DEF Commit
<1>2. ASSUME NEW a \in Enqueuers, Look(a) PROVE CountInv'
  BY <1>2 DEF Look
<1>3. ASSUME NEW a \in Enqueuers, NEW j \in Jobs, Insert(a, j) PROVE CountInv'
  BY <1>3 DEF Insert
<1>4. ASSUME NEW c \in Callers, CallerFails(c) PROVE CountInv'
  BY <1>4 DEF CallerFails
<1>5. ASSUME NEW w \in Workers, Claim(w) PROVE CountInv'
  <2>1. Head(line) \in Jobs /\ Waiting(Head(line))
    BY <1>5, HeadLeavesTheRest DEF Claim, LineInv
  <2>2. QED
    BY <1>5, <2>1 DEF Claim
<1>6. ASSUME NEW w \in Workers, WorkDone(w) \/ WorkFails(w) \/ Leave(w) PROVE CountInv'
  BY <1>6 DEF WorkDone, WorkFails, Leave
<1>7. ASSUME NEW w \in Workers, NEW q \in Asks, WorkFollowed(w, q) PROVE CountInv'
  BY <1>7 DEF WorkFollowed
<1>8. ASSUME NEW w \in Workers, FinishDone(w) PROVE CountInv'
  BY <1>8 DEF FinishDone, HoldInv, HoldingStates
<1>8a. ASSUME NEW w \in Workers, FinishFailed(w) PROVE CountInv'
  <2>1. mine[w] \in Jobs /\ status[mine[w]] = "running"
    BY <1>8a DEF FinishFailed, HoldInv, HoldingStates
  <2>2. QED
    BY <1>8a, <2>1 DEF FinishFailed, Retries
<1>9. ASSUME NEW j \in Jobs, BackoffOver(j) PROVE CountInv'
  BY <1>9 DEF BackoffOver
<1>10. ASSUME NEW w \in Workers, FollowFails(w) \/ FinishDoneRaises(w) PROVE CountInv'
  BY <1>10 DEF FollowFails, FinishDoneRaises
<1>11. ASSUME NEW w \in Workers, Crash(w) PROVE CountInv'
  BY <1>11 DEF Crash
<1>12. ASSUME NEW w \in Workers, Signal(w) \/ Restart(w) PROVE CountInv'
  BY <1>12 DEF Signal, Restart
<1>13. CASE UNCHANGED vars
  BY <1>13 DEF vars
<1>14. QED
  BY <1>1, <1>2, <1>3, <1>4, <1>5, <1>6, <1>7, <1>8, <1>8a, <1>9, <1>10, <1>11, <1>12, <1>13,
     AskAssumption DEF Next, WorkerStep

-----------------------------------------------------------------------------
(* The theorems                                                            *)

LEMMA InitIInv == Init => IInv
<1> SUFFICES ASSUME Init PROVE IInv
  OBVIOUS
<1>1. TypeOK
  BY InitTypeOK
<1>2. LineInv
  BY DEF Init, LineInv
<1>3. HoldInv /\ DeskInv
  BY DEF Init, HoldInv, HoldingStates, DeskInv, Waiting, Enqueuers
<1>4. CountInv
  BY BoundAssumption DEF Init, CountInv, AttemptsSpent, Waiting
<1>5. QED
  BY <1>1, <1>2, <1>3, <1>4 DEF IInv

\* The inductive invariant holds in every reachable state.
THEOREM Invariance == Spec => []IInv
<1>1. IInv /\ [Next]_vars => IInv'
  BY NextTypeOK, NextLineHold, NextDesk, NextCount DEF IInv
<1>2. QED
  BY InitIInv, <1>1, PTL DEF Spec

\* No two live workers run the same job, and a job that runs is not claimable:
\* for any number of workers, rows and asks.
THEOREM ExclusiveRunHolds == Spec => []ExclusiveRun
<1>1. IInv => ExclusiveRun
  BY DEF IInv, TypeOK, LineInv, HoldInv, ExclusiveRun, Holds, Waiting
<1>2. QED
  BY Invariance, <1>1, PTL

\* The retry limit holds whatever fails and restarts, for any limit.
THEOREM AttemptsSpentHolds == Spec => []AttemptsSpent
<1>1. IInv => AttemptsSpent
  BY DEF IInv, CountInv
<1>2. QED
  BY Invariance, <1>1, PTL

-----------------------------------------------------------------------------
(* Coalescing                                                              *)

\* The row an ask is coalesced onto waits for a worker under the ask's key, and
\* only a claim of that key ends the wait: each action leaves every open ask
\* with a row of its key, an enqueue, or a failed call. No two asks of a key
\* need to have the same payload.
LEMMA NextKeysServed ==
  ASSUME IInv, KeysAreServed, [Next]_vars
  PROVE  KeysAreServed'
<1> DEFINE Covered(q) == \/ \E j \in Jobs : Waiting(j) /\ askOf[j].key = q.key
                         \/ \E a \in Enqueuers : Asking(a, q)
                         \/ q \in dropped
<1> SUFFICES ASSUME NEW p \in Asks, p \in unseen' PROVE Covered(p)'
  <2>1. unseen' \in SUBSET Asks
    BY NextTypeOK DEF IInv, TypeOK
  <2>2. QED
    BY <2>1 DEF KeysAreServed
<1> USE NameAssumption DEF IInv, TypeOK, Waiting, table, procs, Enqueuers
<1>a. ASSUME p \in unseen PROVE Covered(p)
  BY <1>a DEF KeysAreServed
<1>b. ASSUME NEW q \in Asks, NEW s \in {"look", "insert"}
      PROVE  [step |-> s, ask |-> q] # Idle
  BY DEF Idle
<1>1. ASSUME NEW c \in Callers, NEW q \in Asks, Commit(c, q) PROVE Covered(p)'
  <2>1. desk[c] = Idle /\ unseen' = unseen \cup {q}
    BY <1>1 DEF Commit
  <2>2. CASE p = q
    BY <1>1, <2>2 DEF Commit, Asking
  <2>3. CASE p # q
    <3>1. p \in unseen
      BY <2>1, <2>3
    <3>2. \A a \in Enqueuers : Asking(a, p) => a # c
      BY <2>1 DEF Asking, Idle
    <3>3. QED
      BY <1>1, <1>a, <3>1, <3>2 DEF Commit, Asking
  <2>4. QED
    BY <2>2, <2>3
<1>2. ASSUME NEW a \in Enqueuers, Look(a) PROVE Covered(p)'
  <2>1. p \in unseen /\ desk[a] # Idle /\ desk[a].ask \in Asks
    BY <1>2 DEF Look, Idle, Desk
  <2>2. CASE /\ desk' = [desk EXCEPT ![a] = [step |-> "insert", ask |-> @.ask]]
             /\ UNCHANGED <<status, askOf, dropped>>
    BY <1>a, <2>1, <2>2 DEF Asking
  <2>3. CASE /\ \E j \in Jobs : Coalesces(j, desk[a].ask)
             /\ desk' = [desk EXCEPT ![a] = Idle]
             /\ UNCHANGED <<status, askOf, dropped>>
    <3>1. PICK j \in Jobs : Waiting(j) /\ askOf[j].key = desk[a].ask.key
      BY <2>3 DEF Coalesces
    <3>2. CASE p = desk[a].ask
      BY <2>3, <3>1, <3>2
    <3>3. CASE p # desk[a].ask
      BY <1>a, <2>1, <2>3, <3>3 DEF Asking
    <3>4. QED
      BY <3>2, <3>3
  <2>4. QED
    BY <1>2, <2>2, <2>3 DEF Look, Returned
<1>3. ASSUME NEW a \in Enqueuers, NEW j \in Jobs, Insert(a, j) PROVE Covered(p)'
  <2>1. /\ p \in unseen /\ ~Waiting(j)
        /\ status' = [status EXCEPT ![j] = "queued"]
        /\ askOf' = [askOf EXCEPT ![j] = desk[a].ask]
        /\ desk' = [desk EXCEPT ![a] = Idle] /\ dropped' = dropped
    BY <1>3 DEF Insert, Returned, Free
  <2>2. CASE Asking(a, p)
    BY <2>1, <2>2 DEF Asking
  <2>3. CASE ~Asking(a, p)
    BY <1>a, <2>1, <2>3 DEF Asking
  <2>4. QED
    BY <2>2, <2>3
<1>4. ASSUME NEW c \in Callers, CallerFails(c) PROVE Covered(p)'
  BY <1>4, <1>a DEF CallerFails, Asking
<1>5. ASSUME NEW w \in Workers, Claim(w) PROVE Covered(p)'
  <2>1. Head(line) \in Jobs
    BY <1>5, HeadLeavesTheRest DEF Claim
  <2>2. p \in unseen /\ p.key # askOf[Head(line)].key
    BY <1>5 DEF Claim, Serves
  <2>3. QED
    BY <1>5, <1>a, <2>1, <2>2 DEF Claim, Serves, Asking
<1>6. ASSUME NEW w \in Workers, WorkDone(w) \/ WorkFails(w) \/ Leave(w) PROVE Covered(p)'
  BY <1>6, <1>a DEF WorkDone, WorkFails, Leave, Asking
<1>7. ASSUME NEW w \in Workers, NEW q \in Asks, WorkFollowed(w, q) PROVE Covered(p)'
  <2>1. desk[w] = Idle /\ unseen' = unseen \cup {q}
    BY <1>7 DEF WorkFollowed, DeskInv
  <2>2. CASE p = q
    BY <1>7, <2>2 DEF WorkFollowed, Asking
  <2>3. CASE p # q
    <3>1. p \in unseen
      BY <2>1, <2>3
    <3>2. \A a \in Enqueuers : Asking(a, p) => a # w
      BY <2>1 DEF Asking, Idle
    <3>3. QED
      BY <1>7, <1>a, <3>1, <3>2 DEF WorkFollowed, Asking
  <2>4. QED
    BY <2>2, <2>3
<1>8. ASSUME NEW w \in Workers, FinishDone(w) \/ FinishFailed(w) PROVE Covered(p)'
  <2>1. mine[w] \in Jobs /\ status[mine[w]] = "running"
    BY <1>8 DEF FinishDone, FinishFailed, HoldInv, HoldingStates
  <2>2. QED
    BY <1>8, <1>a, <2>1 DEF FinishDone, FinishFailed, Asking
<1>9. ASSUME NEW j \in Jobs, BackoffOver(j) PROVE Covered(p)'
  BY <1>9, <1>a DEF BackoffOver, Asking
<1>10. ASSUME NEW w \in Workers, FollowFails(w) PROVE Covered(p)'
  BY <1>10, <1>a DEF FollowFails, Asking
<1>10a. ASSUME NEW w \in Workers, FinishDoneRaises(w) PROVE Covered(p)'
  BY <1>10a, <1>a DEF FinishDoneRaises, Asking
<1>11. ASSUME NEW w \in Workers, Crash(w) PROVE Covered(p)'
  BY <1>11, <1>a DEF Crash, Asking, Idle
<1>12. ASSUME NEW w \in Workers, Signal(w) \/ Restart(w) PROVE Covered(p)'
  BY <1>12, <1>a DEF Signal, Restart, Asking
<1>13. CASE UNCHANGED vars
  BY <1>13, <1>a DEF vars, Asking
<1>14. QED
  BY <1>1, <1>2, <1>3, <1>4, <1>5, <1>6, <1>7, <1>8, <1>9, <1>10, <1>10a, <1>11, <1>12, <1>13,
     AskAssumption DEF Next, WorkerStep

\* No key that was asked for is forgotten by coalescing, by a race between
\* enqueue and claim, by a retry or by a stop: for any asks, payloads and
\* processes. NothingAskedIsLost, which is about payloads, does not hold.
THEOREM KeysAreServedHolds == Spec => []KeysAreServed
<1>1. Init => KeysAreServed
  BY DEF Init, KeysAreServed
<1>2. IInv /\ KeysAreServed /\ [Next]_vars => KeysAreServed'
  BY NextKeysServed
<1>3. QED
  BY Invariance, <1>1, <1>2, PTL DEF Spec
=============================================================================
