--------------------------- MODULE TaskStoreProofs ---------------------------
(***************************************************************************)
(* Theorems about TaskStore for every set of tasks, owners and sessions and *)
(* every lease length, budget and backoff.                                  *)
(***************************************************************************)
EXTENDS TaskStore, FiniteSetTheorems, TLAPS

----------------------------------------------------------------------------
(* Row updates stay rows *)

\* Leaving the running state keeps a well-typed row.
LEMMA LeftType ==
  ASSUME NEW r \in TaskRows, NEW s \in TaskStatuses
  PROVE  Left(r, s) \in TaskRows
  BY DEF Left, Unleased, TaskRows, Intents

\* Going back to the queue keeps a well-typed row.
LEMMA QueuedType ==
  ASSUME NEW r \in TaskRows, NEW d \in Nat
  PROVE  Queued(r, d) \in TaskRows
  BY DEF Queued, Unleased, TaskRows, TaskStatuses, Active

\* A claim keeps a well-typed row.
LEMMA ClaimedType ==
  ASSUME NEW r \in TaskRows, NEW o \in Owners
  PROVE  Claimed(r, o) \in TaskRows
<1>1. LeaseTicks \in Nat
  BY NumbersAssumption
<1>2. r.attempts + 1 \in Nat
  BY DEF TaskRows
<1>3. QED
  BY <1>1, <1>2 DEF Claimed, TaskRows, TaskStatuses, Active

\* Raising the attempt budget keeps a well-typed row.
LEMMA BudgetType ==
  ASSUME NEW r \in TaskRows, NEW n \in Nat
  PROVE  [r EXCEPT !.maxAttempts = n + 1] \in TaskRows
<1>1. n + 1 \in Nat
  OBVIOUS
<1>2. QED
  BY <1>1 DEF TaskRows

\* Recording a control intent keeps a well-typed row.
LEMMA IntentType ==
  ASSUME NEW r \in TaskRows, NEW i \in Intents
  PROVE  [r EXCEPT !.intent = i] \in TaskRows
  BY DEF TaskRows

\* A timer counts down to zero and no further.
LEMMA CountdownType ==
  ASSUME NEW n \in Nat
  PROVE  Greatest(n - 1, 0) \in Nat
  BY DEF Greatest

\* Settling a control intent keeps a well-typed row.
LEMMA SettledType ==
  ASSUME NEW r \in TaskRows
  PROVE  SettledRow(r) \in TaskRows
  BY LeftType DEF SettledRow, TaskStatuses, Active, Final

\* Lease recovery keeps a well-typed row.
LEMMA RecoveredType ==
  ASSUME NEW r \in TaskRows
  PROVE  RecoveredRow(r) \in TaskRows
  BY LeftType, QueuedType, SettledType DEF RecoveredRow, TaskStatuses

\* A new row is well typed: the number of earlier rows is a natural number.
LEMMA NewRowType ==
  ASSUME TypeOK, NEW t \in Tasks
  PROVE  NewRow(t) \in TaskRows
<1>1. Cardinality({u \in Tasks : task[u].status # "absent"}) \in Nat
  BY NamesAssumption, FS_Subset, FS_CardinalityType
<1>2. QED
  BY <1>1, NamesAssumption, NumbersAssumption
  DEF NewRow, TaskRows, TaskStatuses, Active, Intents

\* Ending the run of the current attempt keeps a well-typed runs table.
LEMMA FinishedType ==
  ASSUME TypeOK, NEW t \in Tasks, NEW s \in RunStatuses
  PROVE  Finished(t, s) \in [Tasks -> [Attempts -> RunStatuses]]
  BY DEF TypeOK, Finished

\* Notifying keeps the outbox rows well typed.
LEMMA NotifyType ==
  ASSUME TypeOK, NEW t \in Tasks, NEW k \in NoticeKinds, Notify(t, k)
  PROVE  notices' \in [Tasks -> Seq(Notices)]
<1>1. [attempt |-> task[t].attempts, kind |-> k] \in Notices
  BY DEF TypeOK, TaskRows, Notices
<1>2. Append(notices[t], [attempt |-> task[t].attempts, kind |-> k]) \in Seq(Notices)
  BY <1>1 DEF TypeOK
<1>3. QED
  BY <1>2 DEF TypeOK, Notify

\* Granting an attempt stays within the explored bound.
LEMMA GrantedType ==
  ASSUME TypeOK, NEW t \in Tasks, Granted(t)
  PROVE  grants' \in [Tasks -> 0..MaxGrants]
  BY NumbersAssumption DEF TypeOK, Granted

\* Recovery keeps both tables well typed.
LEMMA RecoveryType ==
  ASSUME TypeOK
  PROVE  /\ RecoveredTasks \in [Tasks -> TaskRows]
         /\ RecoveredRuns \in [Tasks -> [Attempts -> RunStatuses]]
<1>1. RecoveredTasks \in [Tasks -> TaskRows]
  BY RecoveredType DEF TypeOK, RecoveredTasks
<1>2. RecoveredRuns \in [Tasks -> [Attempts -> RunStatuses]]
  BY DEF TypeOK, RecoveredRuns, RunStatuses
<1>3. QED
  BY <1>1, <1>2

----------------------------------------------------------------------------
(* Type correctness *)

LEMMA InitType == Init => TypeOK
<1> SUFFICES ASSUME Init PROVE TypeOK
  OBVIOUS
<1>1. task \in [Tasks -> TaskRows]
  BY NamesAssumption, NumbersAssumption
  DEF Init, TaskRows, TaskStatuses, Active, Final, Intents
<1>2. run \in [Tasks -> [Attempts -> RunStatuses]]
  BY DEF Init, RunStatuses
<1>3. notices \in [Tasks -> Seq(Notices)]
  BY DEF Init
<1>4. QED
  BY <1>1, <1>2, <1>3, NumbersAssumption DEF Init, TypeOK

\* Every operation keeps the tables well typed.
LEMMA NextType == TypeOK /\ AttemptBudget /\ [Next]_vars => TypeOK'
<1> SUFFICES ASSUME TypeOK, AttemptBudget, [Next]_vars PROVE TypeOK'
  OBVIOUS
<1> USE DEF TypeOK
<1>1. CASE Tick
  <2>1. ASSUME NEW t \in Tasks
        PROVE  [task[t] EXCEPT !.lease = Greatest(@ - 1, 0), !.delay = Greatest(@ - 1, 0)]
                 \in TaskRows
    <3>1. /\ Greatest(task[t].lease - 1, 0) \in Nat
          /\ Greatest(task[t].delay - 1, 0) \in Nat
      BY CountdownType DEF TaskRows
    <3>2. QED
      BY <3>1 DEF TaskRows
  <2>2. QED
    BY <1>1, <2>1 DEF Tick
<1>2. CASE ReadyTasks
  BY <1>2, RecoveryType DEF ReadyTasks
<1>3. ASSUME NEW o \in Owners, Crash(o) PROVE TypeOK'
  BY <1>3 DEF Crash
<1>4. ASSUME NEW t \in Tasks, Enqueue(t) PROVE TypeOK'
  BY <1>4, NewRowType DEF Enqueue
<1>5. ASSUME NEW t \in Tasks, PauseTask(t) PROVE TypeOK'
  <2>1. /\ Left(task[t], "paused") \in TaskRows
        /\ [task[t] EXCEPT !.intent = "pause"] \in TaskRows
    BY LeftType, IntentType DEF Intents, TaskStatuses, Active
  <2>2. QED
    BY <1>5, <2>1 DEF PauseTask, RequestControl
<1>6. ASSUME NEW t \in Tasks, CancelTask(t) PROVE TypeOK'
  <2>1. /\ Left(task[t], "cancelled") \in TaskRows
        /\ [task[t] EXCEPT !.intent = "cancel"] \in TaskRows
    BY LeftType, IntentType DEF Intents, TaskStatuses, Final
  <2>2. QED
    BY <1>6, <2>1 DEF CancelTask, RequestControl
<1>7. ASSUME NEW t \in Tasks, ResumeTask(t) PROVE TypeOK'
  BY <1>7, QueuedType, GrantedType DEF ResumeTask
<1>8. ASSUME NEW t \in Tasks, RetryDeadLetterTask(t) PROVE TypeOK'
  <2>1. [Queued(task[t], 0) EXCEPT !.maxAttempts = task[t].attempts + 1] \in TaskRows
    BY QueuedType, BudgetType DEF TaskRows
  <2>2. QED
    BY <1>8, <2>1, GrantedType DEF RetryDeadLetterTask
<1>9. ASSUME NEW o \in Owners, NEW x \in Executors, NEW e \in SUBSET Sessions,
             ClaimTask(o, x, e)
      PROVE  TypeOK'
  <2>1. \/ task' = RecoveredTasks
        \/ \E t \in Tasks : task' = [RecoveredTasks EXCEPT ![t] = Claimed(@, o)]
    BY <1>9 DEF ClaimTask, Candidates
  <2>2. task' \in [Tasks -> TaskRows]
    <3>1. RecoveredTasks \in [Tasks -> TaskRows]
      BY RecoveryType
    <3>2. \A t \in Tasks : Claimed(RecoveredTasks[t], o) \in TaskRows
      BY <3>1, ClaimedType
    <3>3. QED
      BY <2>1, <3>1, <3>2
  <2>3. QED
    BY <1>9, <2>2, RecoveryType DEF ClaimTask
<1>10. ASSUME NEW o \in Owners, NEW t \in Tasks, ClaimTaskById(o, t) PROVE TypeOK'
  <2>1. task' \in [Tasks -> TaskRows]
    BY <1>10, RecoveryType, ClaimedType DEF ClaimTaskById
  <2>2. QED
    BY <1>10, <2>1, RecoveryType DEF ClaimTaskById
<1>11. ASSUME NEW o \in Owners, NEW t \in Tasks, BeginTaskAttempt(o, t) PROVE TypeOK'
  BY <1>11 DEF BeginTaskAttempt, RunStatuses
<1>12. ASSUME NEW o \in Owners, NEW t \in Tasks, RenewTaskLease(o, t) PROVE TypeOK'
  BY <1>12, NumbersAssumption DEF RenewTaskLease, TaskRows
<1>13. ASSUME NEW o \in Owners, NEW t \in Tasks, NEW s \in Sessions,
              BindRunningTaskSession(o, t, s)
       PROVE  TypeOK'
  BY <1>13 DEF BindRunningTaskSession, TaskRows
<1>14. ASSUME NEW o \in Owners, NEW t \in Tasks, NEW a \in Attempts \cup {NoAttempt},
              OwnerStep(o, t, a)
       PROVE  TypeOK'
  <2>1. CASE SettleTaskControl(o, t, a)
    BY <2>1, SettledType, FinishedType DEF SettleTaskControl, RunStatuses
  <2>2. ASSUME NEW report \in {"deliver", "none", "suppressed"}, Complete(o, t, a, report)
        PROVE  TypeOK'
    <3>1. task' \in [Tasks -> TaskRows]
      BY <2>2, LeftType, NewRowType, NamesAssumption DEF Complete, TaskStatuses, Final
    <3>2. run' \in [Tasks -> [Attempts -> RunStatuses]]
      BY <2>2, FinishedType DEF Complete, RunStatuses
    <3>3. notices' \in [Tasks -> Seq(Notices)]
      BY <2>2, NotifyType DEF Complete, NoticeKinds
    <3>4. QED
      BY <2>2, <3>1, <3>2, <3>3 DEF Complete
  <2>3. ASSUME NEW status \in {"failed", "dead_letter"}, NEW deliver \in BOOLEAN,
               CompleteUnaccepted(o, t, a, status, deliver)
        PROVE  TypeOK'
    <3>1. task' \in [Tasks -> TaskRows]
      BY <2>3, LeftType DEF CompleteUnaccepted, TaskStatuses, Final
    <3>2. run' \in [Tasks -> [Attempts -> RunStatuses]]
      BY <2>3, FinishedType DEF CompleteUnaccepted, RunStatuses
    <3>3. notices' \in [Tasks -> Seq(Notices)]
      BY <2>3, NotifyType DEF CompleteUnaccepted, NoticeKinds
    <3>4. QED
      BY <2>3, <3>1, <3>2, <3>3 DEF CompleteUnaccepted
  <2>4. ASSUME NEW deliver \in BOOLEAN, BlockTask(o, t, a, deliver) PROVE TypeOK'
    <3>1. task' \in [Tasks -> TaskRows]
      BY <2>4, LeftType DEF BlockTask, TaskStatuses, Active
    <3>2. run' \in [Tasks -> [Attempts -> RunStatuses]]
      BY <2>4, FinishedType DEF BlockTask, RunStatuses
    <3>3. notices' \in [Tasks -> Seq(Notices)]
      BY <2>4, NotifyType DEF BlockTask, NoticeKinds
    <3>4. QED
      BY <2>4, <3>1, <3>2, <3>3 DEF BlockTask
  <2>5. CASE RequeueTask(o, t, a)
    BY <2>5, QueuedType, FinishedType, GrantedType DEF RequeueTask, RunStatuses
  <2>6. CASE PreemptTask(o, t, a)
    <3> DEFINE row == [Queued(task[t], 0) EXCEPT !.maxAttempts = task[t].maxAttempts + 1]
    <3>1. Queued(task[t], 0) \in TaskRows
      BY QueuedType
    <3>2. task[t].maxAttempts \in Nat
      BY DEF TaskRows
    <3>3. row \in TaskRows
      BY <3>1, <3>2, BudgetType
    <3>4. task' = [task EXCEPT ![t] = row]
      BY <2>6 DEF PreemptTask
    <3> HIDE DEF row
    <3>5. task' \in [Tasks -> TaskRows]
      BY <3>3, <3>4
    <3>6. QED
      BY <2>6, <3>5, FinishedType, GrantedType DEF PreemptTask, RunStatuses
  <2>7. ASSUME NEW kind \in FailureKinds, NEW limit \in RetryLimits, NEW after \in RetryAfters,
               FailTask(o, t, a, kind, limit, after)
        PROVE  TypeOK'
    <3> DEFINE status == FailureStatus(task[t], kind, limit)
    <3>1. status \in {"queued", "dead_letter", "failed"}
      BY DEF FailureStatus
    <3> DEFINE delay == Greatest(Backoff[task[t].attempts], after)
    <3>2. delay \in Nat
      <4>1. task[t].attempts \in Attempts
        BY SMTT(30), <2>7, NumbersAssumption
        DEF FailTask, LeasedUncontrolled, Leased, AttemptBudget, Attempts, TaskRows
      <4>2. Backoff[task[t].attempts] \in Nat /\ after \in Nat
        BY <4>1, NumbersAssumption
      <4>3. QED
        BY <4>2 DEF Greatest
    <3>3. Left(task[t], status) \in TaskRows /\ Queued(task[t], delay) \in TaskRows
      BY <3>1, <3>2, LeftType, QueuedType DEF TaskStatuses, Active, Final
    <3>4. task' \in [Tasks -> TaskRows]
      <4>1. \/ task' = [task EXCEPT ![t] = Queued(task[t], delay)]
            \/ task' = [task EXCEPT ![t] = Left(task[t], status)]
        BY <2>7 DEF FailTask
      <4>2. QED
        BY <3>3, <4>1
    <3>5. run' \in [Tasks -> [Attempts -> RunStatuses]]
      BY <2>7, FinishedType DEF FailTask, RunStatuses
    <3>6. notices' \in [Tasks -> Seq(Notices)]
      BY <2>7, <3>1, NotifyType DEF FailTask, NoticeKinds
    <3>7. QED
      BY <2>7, <3>4, <3>5, <3>6 DEF FailTask
  <2>8. QED
    BY <1>14, <2>1, <2>2, <2>3, <2>4, <2>5, <2>6, <2>7 DEF OwnerStep
<1>15. CASE UNCHANGED vars
  BY <1>15 DEF vars
<1>16. QED
  BY <1>1, <1>2, <1>3, <1>4, <1>5, <1>6, <1>7, <1>8, <1>9, <1>10, <1>11, <1>12,
     <1>13, <1>14, <1>15
  DEF Next, CancelInterruptedSessionTask

----------------------------------------------------------------------------
(* The lease and budget invariants, row by row *)

\* What LeaseMatchesStatus and AttemptBudget say of one row with g grants.
RowInv(r, g) ==
  /\ r.owner # NoOwner <=> r.status = "running"
  /\ r.status # "running" => r.lease = 0 /\ r.intent = "none"
  /\ r.status # "queued" => r.delay = 0
  /\ r.maxAttempts \in 1..(MaxAttempts + g)
  /\ r.attempts <= MaxAttempts + g
  /\ r.status = "queued" => r.attempts < MaxAttempts + g
  /\ r.status = "running" => r.attempts > 0

RowsInv == \A t \in Tasks : RowInv(task[t], grants[t])

LEMMA RowsInvMeaning == RowsInv <=> LeaseMatchesStatus /\ AttemptBudget
  BY DEF RowsInv, RowInv, LeaseMatchesStatus, AttemptBudget

\* A row that leaves the running state, or the queue for good, stays consistent.
LEMMA LeftInv ==
  ASSUME NEW r \in TaskRows, NEW g \in Nat, RowInv(r, g),
         NEW s \in TaskStatuses, s \notin {"queued", "running"}
  PROVE  RowInv(Left(r, s), g)
  BY DEF RowInv, Left, Unleased, TaskRows

\* A row queued again without a pending control, within its budget, stays consistent.
LEMMA QueuedInv ==
  ASSUME NEW r \in TaskRows, NEW g \in Nat, RowInv(r, g), NEW d \in Nat,
         r.intent = "none", r.attempts < MaxAttempts + g
  PROVE  RowInv(Queued(r, d), g)
  BY DEF RowInv, Queued, Unleased, TaskRows

\* Claiming a ready row stays within the budget.
LEMMA ClaimedInv ==
  ASSUME NEW r \in TaskRows, NEW g \in Nat, RowInv(r, g), Ready(r), NEW o \in Owners
  PROVE  RowInv(Claimed(r, o), g)
<1>1. LeaseTicks \in Nat /\ MaxAttempts \in Nat /\ o # NoOwner
  BY NumbersAssumption, NamesAssumption
<1>2. r.attempts \in Nat
  BY DEF TaskRows
<1>3. r.attempts + 1 <= MaxAttempts + g /\ r.attempts + 1 > 0
  BY <1>1, <1>2 DEF RowInv, Ready
<1>4. QED
  BY <1>1, <1>3 DEF RowInv, Claimed, Ready, TaskRows

\* Recovery requeues only rows with budget left.
LEMMA RecoveredInv ==
  ASSUME NEW r \in TaskRows, NEW g \in Nat, RowInv(r, g)
  PROVE  RowInv(RecoveredRow(r), g)
<1>1. CASE ~Expired(r)
  BY <1>1 DEF RecoveredRow
<1>2. CASE Expired(r) /\ r.intent # "none"
  BY <1>2, LeftInv DEF RecoveredRow, SettledRow, TaskStatuses, Active, Final
<1>3. CASE Expired(r) /\ r.intent = "none" /\ r.attempts >= r.maxAttempts
  BY <1>3, LeftInv DEF RecoveredRow, TaskStatuses
<1>4. CASE Expired(r) /\ r.intent = "none" /\ ~(r.attempts >= r.maxAttempts)
  <2>1. r.attempts < MaxAttempts + g
    BY <1>4, NumbersAssumption DEF RowInv, TaskRows
  <2>2. QED
    BY <1>4, <2>1, QueuedInv DEF RecoveredRow
<1>5. QED
  BY <1>1, <1>2, <1>3, <1>4

\* One more grant only relaxes the budget.
LEMMA GrantedInv ==
  ASSUME NEW r \in TaskRows, NEW g \in Nat, RowInv(r, g)
  PROVE  /\ RowInv(r, g + 1)
         /\ r.attempts < MaxAttempts + (g + 1)
  BY NumbersAssumption DEF RowInv, TaskRows

\* A new row starts with its whole budget.
LEMMA NewRowInv ==
  ASSUME NEW t \in Tasks, NEW g \in Nat
  PROVE  RowInv(NewRow(t), g)
  BY NumbersAssumption DEF RowInv, NewRow

LEMMA InitRows == Init => RowsInv
  BY NumbersAssumption DEF Init, RowsInv, RowInv

\* Changing only the row of t, and its grants, is judged on that row alone.
LEMMA OneRow ==
  ASSUME TypeOK, RowsInv, NEW t \in Tasks, NEW r, task' = [task EXCEPT ![t] = r],
         \/ UNCHANGED grants /\ RowInv(r, grants[t])
         \/ grants' = [grants EXCEPT ![t] = @ + 1] /\ RowInv(r, grants[t] + 1)
  PROVE  RowsInv'
<1> SUFFICES ASSUME NEW u \in Tasks PROVE RowInv(task'[u], grants'[u])
  BY DEF RowsInv
<1>1. CASE u = t
  BY <1>1 DEF TypeOK
<1>2. CASE u # t
  BY <1>2 DEF TypeOK, RowsInv
<1>3. QED
  BY <1>1, <1>2

\* Every operation keeps every row consistent and within its budget.
LEMMA NextRows == TypeOK /\ RowsInv /\ [Next]_vars => RowsInv'
<1> SUFFICES ASSUME TypeOK, RowsInv, [Next]_vars PROVE RowsInv'
  OBVIOUS
<1> USE DEF TypeOK
<1>0. \A t \in Tasks : /\ task[t] \in TaskRows
                       /\ RowInv(task[t], grants[t])
                       /\ grants[t] \in Nat
  BY NumbersAssumption DEF RowsInv
<1>r. \A t \in Tasks : /\ RecoveredTasks[t] \in TaskRows
                       /\ RowInv(RecoveredTasks[t], grants[t])
  BY <1>0, RecoveredType, RecoveredInv DEF RecoveredTasks
<1>1. CASE Tick
  <2>1. ASSUME NEW t \in Tasks
        PROVE  RowInv([task[t] EXCEPT !.lease = Greatest(@ - 1, 0),
                                      !.delay = Greatest(@ - 1, 0)], grants[t])
    BY <1>0 DEF RowInv, Greatest, TaskRows
  <2>2. QED
    BY <1>1, <2>1 DEF Tick, RowsInv
<1>2. CASE ReadyTasks
  BY <1>2, <1>r DEF ReadyTasks, RowsInv
<1>3. ASSUME NEW o \in Owners, Crash(o) PROVE RowsInv'
  BY <1>3 DEF Crash, RowsInv
<1>4. ASSUME NEW t \in Tasks, Enqueue(t) PROVE RowsInv'
  BY <1>0, <1>4, NewRowInv, OneRow DEF Enqueue
<1>5. ASSUME NEW t \in Tasks, NEW i \in {"pause", "cancel"}, RequestControl(t, i),
             UNCHANGED grants
      PROVE  RowsInv'
  <2>1. RowInv([task[t] EXCEPT !.intent = i], grants[t])
    BY <1>0, <1>5 DEF RequestControl, RowInv, TaskRows
  <2>2. task' = [task EXCEPT ![t] = [task[t] EXCEPT !.intent = i]]
    BY <1>5 DEF RequestControl
  <2>3. QED
    BY <1>5, <2>1, <2>2, OneRow
<1>6. ASSUME NEW t \in Tasks, PauseTask(t) PROVE RowsInv'
  <2>1. RowInv(Left(task[t], "paused"), grants[t])
    BY <1>0, LeftInv DEF TaskStatuses, Active
  <2>2. QED
    BY <1>5, <1>6, <2>1, OneRow DEF PauseTask
<1>7. ASSUME NEW t \in Tasks, CancelTask(t) PROVE RowsInv'
  <2>1. RowInv(Left(task[t], "cancelled"), grants[t])
    BY <1>0, LeftInv DEF TaskStatuses, Final
  <2>2. QED
    BY <1>5, <1>7, <2>1, OneRow DEF CancelTask
<1>8. ASSUME NEW t \in Tasks, ResumeTask(t) PROVE RowsInv'
  <2>1. task[t].intent = "none"
    BY <1>0, <1>8 DEF ResumeTask, RowInv
  <2>2. RowInv(Queued(task[t], 0), grants[t] + 1)
    BY <1>0, <2>1, GrantedInv, QueuedInv
  <2>3. QED
    BY <1>8, <2>2, OneRow DEF ResumeTask, Granted
<1>9. ASSUME NEW t \in Tasks, RetryDeadLetterTask(t) PROVE RowsInv'
  <2> DEFINE row == [Queued(task[t], 0) EXCEPT !.maxAttempts = task[t].attempts + 1]
  <2>1. task[t].intent = "none"
    BY <1>0, <1>9 DEF RetryDeadLetterTask, RowInv
  <2>2. RowInv(Queued(task[t], 0), grants[t] + 1) /\ Queued(task[t], 0) \in TaskRows
    BY <1>0, <2>1, GrantedInv, QueuedInv, QueuedType
  <2>3. task[t].attempts + 1 \in 1..(MaxAttempts + (grants[t] + 1))
    <3>1. task[t].attempts \in Nat /\ grants[t] \in Nat /\ MaxAttempts \in Nat
      BY <1>0, NumbersAssumption DEF TaskRows
    <3>2. task[t].attempts < MaxAttempts + (grants[t] + 1)
      BY <1>0, GrantedInv
    <3>3. QED
      BY <3>1, <3>2
  <2>4. RowInv(row, grants[t] + 1)
    BY <2>2, <2>3 DEF RowInv, TaskRows
  <2>5. task' = [task EXCEPT ![t] = row]
    BY <1>9 DEF RetryDeadLetterTask
  <2> HIDE DEF row
  <2>6. QED
    BY <1>9, <2>4, <2>5, OneRow DEF RetryDeadLetterTask, Granted
<1>10. ASSUME NEW o \in Owners, NEW t \in Tasks, Ready(RecoveredTasks[t]),
              task' = [RecoveredTasks EXCEPT ![t] = Claimed(@, o)], UNCHANGED grants
       PROVE  RowsInv'
  <2>1. RowInv(Claimed(RecoveredTasks[t], o), grants[t])
    BY <1>0, <1>r, <1>10, ClaimedInv
  <2>2. QED
    BY <1>r, <1>10, <2>1 DEF RowsInv, RecoveredTasks
<1>11. ASSUME NEW o \in Owners, NEW x \in Executors, NEW e \in SUBSET Sessions,
              ClaimTask(o, x, e)
       PROVE  RowsInv'
  <2>1. CASE task' = RecoveredTasks
    BY <1>r, <1>11, <2>1 DEF ClaimTask, RowsInv
  <2>2. CASE \E t \in Tasks : /\ Ready(RecoveredTasks[t])
                             /\ task' = [RecoveredTasks EXCEPT ![t] = Claimed(@, o)]
    BY <1>10, <1>11, <2>2 DEF ClaimTask
  <2>3. QED
    BY <1>11, <2>1, <2>2 DEF ClaimTask, Candidates
<1>12. ASSUME NEW o \in Owners, NEW t \in Tasks, ClaimTaskById(o, t) PROVE RowsInv'
  <2>1. CASE Ready(RecoveredTasks[t])
    BY <1>10, <1>12, <2>1 DEF ClaimTaskById
  <2>2. CASE ~Ready(RecoveredTasks[t])
    BY <1>r, <1>12, <2>2 DEF ClaimTaskById, RowsInv
  <2>3. QED
    BY <2>1, <2>2
<1>13. ASSUME NEW o \in Owners, NEW t \in Tasks, BeginTaskAttempt(o, t) PROVE RowsInv'
  BY <1>13 DEF BeginTaskAttempt, RowsInv
<1>14. ASSUME NEW o \in Owners, NEW t \in Tasks, RenewTaskLease(o, t) PROVE RowsInv'
  <2>1. RowInv([task[t] EXCEPT !.lease = LeaseTicks], grants[t])
    BY <1>0, <1>14 DEF RenewTaskLease, LeasedUncontrolled, Leased, RowInv, TaskRows
  <2>2. task' = [task EXCEPT ![t] = [task[t] EXCEPT !.lease = LeaseTicks]]
    BY <1>14 DEF RenewTaskLease
  <2>3. QED
    BY <1>14, <2>1, <2>2, OneRow DEF RenewTaskLease
<1>15. ASSUME NEW o \in Owners, NEW t \in Tasks, NEW s \in Sessions,
              BindRunningTaskSession(o, t, s)
       PROVE  RowsInv'
  <2>1. RowInv([task[t] EXCEPT !.session = s], grants[t])
    BY <1>0 DEF RowInv, TaskRows
  <2>2. task' = [task EXCEPT ![t] = [task[t] EXCEPT !.session = s]]
    BY <1>15 DEF BindRunningTaskSession
  <2>3. QED
    BY <1>15, <2>1, <2>2, OneRow DEF BindRunningTaskSession
<1>16. ASSUME NEW o \in Owners, NEW t \in Tasks, NEW a \in Attempts \cup {NoAttempt},
              OwnerStep(o, t, a)
       PROVE  RowsInv'
  <2>l. \A s \in TaskStatuses \ {"queued", "running"} : RowInv(Left(task[t], s), grants[t])
    BY <1>0, LeftInv
  <2>q. LeasedUncontrolled(o, t) => RowInv(Queued(task[t], 0), grants[t] + 1)
    BY <1>0, GrantedInv, QueuedInv DEF LeasedUncontrolled
  <2>1. CASE SettleTaskControl(o, t, a)
    <3> DEFINE status == IF task[t].intent = "cancel" THEN "cancelled" ELSE "paused"
    <3>1. RowInv(Left(task[t], status), grants[t])
      BY <2>l DEF TaskStatuses, Active, Final
    <3>2. task' = [task EXCEPT ![t] = Left(task[t], status)]
      BY <2>1 DEF SettleTaskControl, SettledRow
    <3>3. QED
      BY <2>1, <3>1, <3>2, OneRow DEF SettleTaskControl
  <2>2. ASSUME NEW report \in {"deliver", "none", "suppressed"}, Complete(o, t, a, report)
        PROVE  RowsInv'
    <3>1. RowInv(Left(task[t], "completed"), grants[t])
      BY <2>l DEF TaskStatuses, Final
    <3>2. \A u \in Tasks : RowInv(NewRow(u), grants[u])
      BY <1>0, NewRowInv
    <3>3. QED
      BY <1>0, <2>2, <3>1, <3>2 DEF Complete, RowsInv
  <2>3. ASSUME NEW status \in {"failed", "dead_letter"}, NEW deliver \in BOOLEAN,
               CompleteUnaccepted(o, t, a, status, deliver)
        PROVE  RowsInv'
    BY <2>3, <2>l, OneRow DEF CompleteUnaccepted, TaskStatuses, Final
  <2>4. ASSUME NEW deliver \in BOOLEAN, BlockTask(o, t, a, deliver) PROVE RowsInv'
    BY <2>4, <2>l, OneRow DEF BlockTask, TaskStatuses, Active
  <2>5. CASE RequeueTask(o, t, a)
    BY <2>5, <2>q, OneRow DEF RequeueTask, Granted
  <2>6. CASE PreemptTask(o, t, a)
    <3> DEFINE row == [Queued(task[t], 0) EXCEPT !.maxAttempts = task[t].maxAttempts + 1]
    <3>1. RowInv(Queued(task[t], 0), grants[t] + 1) /\ Queued(task[t], 0) \in TaskRows
      BY <1>0, <2>6, <2>q, QueuedType DEF PreemptTask
    <3>2. task[t].maxAttempts + 1 \in 1..(MaxAttempts + (grants[t] + 1))
      BY <1>0, NumbersAssumption DEF RowInv, TaskRows
    <3>3. RowInv(row, grants[t] + 1)
      BY <3>1, <3>2 DEF RowInv, TaskRows
    <3>4. task' = [task EXCEPT ![t] = row]
      BY <2>6 DEF PreemptTask
    <3> HIDE DEF row
    <3>5. QED
      BY <2>6, <3>3, <3>4, OneRow DEF PreemptTask, Granted
  <2>7. ASSUME NEW kind \in FailureKinds, NEW limit \in RetryLimits, NEW after \in RetryAfters,
               FailTask(o, t, a, kind, limit, after)
        PROVE  RowsInv'
    <3> DEFINE status == FailureStatus(task[t], kind, limit)
               delay == Greatest(Backoff[task[t].attempts], after)
    <3>1. delay \in Nat
      <4>1. task[t].attempts \in Attempts
        BY SMTT(30), <1>0, <2>7, NumbersAssumption
        DEF FailTask, LeasedUncontrolled, Leased, RowInv, Attempts, TaskRows
      <4>2. Backoff[task[t].attempts] \in Nat /\ after \in Nat
        BY <4>1, NumbersAssumption
      <4>3. QED
        BY <4>2 DEF Greatest
    <3>2. CASE status = "queued"
      <4>1. task[t].attempts < AttemptLimit(task[t], limit)
        BY <1>0, <3>2, NumbersAssumption
        DEF FailureStatus, AttemptLimit, Least, Greatest, TaskRows
      <4>2. AttemptLimit(task[t], limit) <= MaxAttempts + grants[t]
        BY <1>0, NumbersAssumption DEF AttemptLimit, Least, Greatest, RowInv, TaskRows
      <4>3. AttemptLimit(task[t], limit) \in Int
        BY <1>0, NumbersAssumption DEF AttemptLimit, Least, Greatest, TaskRows
      <4>4. task[t].attempts < MaxAttempts + grants[t]
        BY <1>0, <4>1, <4>2, <4>3, NumbersAssumption DEF TaskRows
      <4>5. RowInv(Queued(task[t], delay), grants[t])
        BY <1>0, <2>7, <3>1, <4>4, QueuedInv DEF FailTask, LeasedUncontrolled
      <4>6. task' = [task EXCEPT ![t] = Queued(task[t], delay)]
        BY <2>7, <3>2 DEF FailTask
      <4>7. QED
        BY <2>7, <4>5, <4>6, OneRow DEF FailTask
    <3>3. CASE status # "queued"
      <4>1. status \in {"dead_letter", "failed"}
        BY <3>3 DEF FailureStatus
      <4>2. RowInv(Left(task[t], status), grants[t])
        BY <2>l, <4>1 DEF TaskStatuses, Final
      <4>3. task' = [task EXCEPT ![t] = Left(task[t], status)]
        BY <2>7, <3>3 DEF FailTask
      <4>4. QED
        BY <2>7, <4>2, <4>3, OneRow DEF FailTask
    <3>4. QED
      BY <3>2, <3>3
  <2>8. QED
    BY <1>16, <2>1, <2>2, <2>3, <2>4, <2>5, <2>6, <2>7 DEF OwnerStep
<1>17. CASE UNCHANGED vars
  BY <1>17 DEF vars, RowsInv
<1>18. QED
  BY <1>1, <1>2, <1>3, <1>4, <1>6, <1>7, <1>8, <1>9, <1>11, <1>12, <1>13, <1>14,
     <1>15, <1>16, <1>17
  DEF Next, CancelInterruptedSessionTask

----------------------------------------------------------------------------
(* The runs table *)

RunsInv == RunsBelongToLease /\ OneCompletedRun

\* The row of t still stands where its runs say it does.
Stands(t) ==
  task[t].status \in {"running", "completed"} =>
    task'[t].status = task[t].status /\ task'[t].attempts = task[t].attempts

LEMMA InitRuns == Init => RunsInv
  BY DEF Init, RunsInv, RunsBelongToLease, OneCompletedRun

\* An operation that leaves the runs alone must leave running and completed rows in place.
LEMMA RunsKept ==
  ASSUME RunsInv, UNCHANGED run, \A t \in Tasks : Stands(t)
  PROVE  RunsInv'
  BY DEF RunsInv, RunsBelongToLease, OneCompletedRun, Stands

\* An operation that ends the attempt of t ends its run, and no other.
LEMMA RunsEnded ==
  ASSUME TypeOK, RunsInv, NEW t \in Tasks, task[t].status = "running",
         NEW s \in {"completed", "failed", "interrupted"}, run' = Finished(t, s),
         task'[t].attempts = task[t].attempts,
         s = "completed" => task'[t].status = "completed",
         \A u \in Tasks \ {t} : Stands(u)
  PROVE  RunsInv'
<1>1. ASSUME NEW n \in Attempts
      PROVE  run[t][n] # "completed"
  BY <1>1 DEF RunsInv, OneCompletedRun
<1>2. ASSUME NEW u \in Tasks, NEW n \in Attempts
      PROVE  /\ run'[u][n] = "running" => task'[u].status = "running" /\ n = task'[u].attempts
             /\ run'[u][n] = "completed" => task'[u].status = "completed" /\ n = task'[u].attempts
  <2>1. CASE u = t
    BY <1>1, <2>1 DEF TypeOK, Finished, RunsInv, RunsBelongToLease
  <2>2. CASE u # t
    BY <2>2 DEF TypeOK, Finished, RunsInv, RunsBelongToLease, OneCompletedRun, Stands
  <2>3. QED
    BY <2>1, <2>2
<1>3. QED
  BY <1>2 DEF RunsInv, RunsBelongToLease, OneCompletedRun

\* Recovery ends the open run of every expired task.
LEMMA RunsRecovered ==
  ASSUME RunsInv, run' = RecoveredRuns, \A t \in Tasks : Expired(task[t]) \/ Stands(t)
  PROVE  RunsInv'
<1>1. ASSUME NEW t \in Tasks, NEW n \in Attempts
      PROVE  /\ run'[t][n] = "running" => task'[t].status = "running" /\ n = task'[t].attempts
             /\ run'[t][n] = "completed" => task'[t].status = "completed" /\ n = task'[t].attempts
  <2>1. run'[t][n] = IF Expired(task[t]) /\ run[t][n] = "running"
                       THEN "interrupted" ELSE run[t][n]
    BY DEF RecoveredRuns
  <2>2. CASE Expired(task[t])
    BY <2>1, <2>2 DEF Expired, RunsInv, RunsBelongToLease, OneCompletedRun
  <2>3. CASE ~Expired(task[t])
    BY <2>1, <2>3 DEF RunsInv, RunsBelongToLease, OneCompletedRun, Stands
  <2>4. QED
    BY <2>2, <2>3
<1>2. QED
  BY <1>1 DEF RunsInv, RunsBelongToLease, OneCompletedRun

\* Recovery moves only expired rows.
LEMMA RecoveryStands ==
  ASSUME TypeOK, NEW t \in Tasks, ~Expired(task[t])
  PROVE  RecoveredTasks[t] = task[t]
  BY DEF RecoveredTasks, RecoveredRow

LEMMA NextRuns == TypeOK /\ RunsInv /\ [Next]_vars => RunsInv'
<1> SUFFICES ASSUME TypeOK, RunsInv, [Next]_vars PROVE RunsInv'
  OBVIOUS
<1> USE DEF TypeOK
<1>1. CASE Tick
  <2>1. \A t \in Tasks : /\ task'[t].status = task[t].status
                         /\ task'[t].attempts = task[t].attempts
    BY <1>1 DEF Tick, TaskRows
  <2>2. QED
    BY <1>1, <2>1, RunsKept DEF Tick, Stands
<1>2. CASE ReadyTasks
  BY <1>2, RecoveryStands, RunsRecovered DEF ReadyTasks, Stands
<1>3. ASSUME NEW o \in Owners, Crash(o) PROVE RunsInv'
  BY <1>3, RunsKept DEF Crash, Stands
<1>4. ASSUME NEW t \in Tasks, task' = [task EXCEPT ![t] = task'[t]], UNCHANGED run, Stands(t)
      PROVE  RunsInv'
  BY <1>4, RunsKept DEF Stands
<1>5. ASSUME NEW t \in Tasks, Enqueue(t) PROVE RunsInv'
  BY <1>4, <1>5 DEF Enqueue, Stands
<1>6. ASSUME NEW t \in Tasks, NEW i \in {"pause", "cancel"}, RequestControl(t, i),
             UNCHANGED run
      PROVE  RunsInv'
  <2>1. Stands(t)
    BY <1>6 DEF RequestControl, Stands, TaskRows
  <2>2. QED
    BY <1>4, <1>6, <2>1 DEF RequestControl
<1>7. ASSUME NEW t \in Tasks, PauseTask(t) PROVE RunsInv'
  BY <1>4, <1>6, <1>7 DEF PauseTask, Stands
<1>8. ASSUME NEW t \in Tasks, CancelTask(t) PROVE RunsInv'
  BY <1>4, <1>6, <1>8 DEF CancelTask, Stands
<1>9. ASSUME NEW t \in Tasks, ResumeTask(t) PROVE RunsInv'
  BY <1>4, <1>9 DEF ResumeTask, Stands
<1>10. ASSUME NEW t \in Tasks, RetryDeadLetterTask(t) PROVE RunsInv'
  BY <1>4, <1>10 DEF RetryDeadLetterTask, Stands
<1>11. ASSUME NEW o \in Owners, run' = RecoveredRuns,
              \/ task' = RecoveredTasks
              \/ \E t \in Tasks : /\ Ready(RecoveredTasks[t])
                                 /\ task' = [RecoveredTasks EXCEPT ![t] = Claimed(@, o)]
       PROVE  RunsInv'
  <2>1. \A t \in Tasks : Expired(task[t]) \/ Stands(t)
    BY <1>11, RecoveryStands DEF Ready, Stands, RecoveredTasks
  <2>2. QED
    BY <1>11, <2>1, RunsRecovered
<1>12. ASSUME NEW o \in Owners, NEW x \in Executors, NEW e \in SUBSET Sessions,
              ClaimTask(o, x, e)
       PROVE  RunsInv'
  BY <1>11, <1>12 DEF ClaimTask, Candidates
<1>13. ASSUME NEW o \in Owners, NEW t \in Tasks, ClaimTaskById(o, t) PROVE RunsInv'
  BY <1>11, <1>13 DEF ClaimTaskById
<1>14. ASSUME NEW o \in Owners, NEW t \in Tasks, BeginTaskAttempt(o, t) PROVE RunsInv'
  BY <1>14 DEF BeginTaskAttempt, Leased, RunsInv, RunsBelongToLease, OneCompletedRun
<1>15. ASSUME NEW o \in Owners, NEW t \in Tasks, RenewTaskLease(o, t) PROVE RunsInv'
  <2>1. Stands(t)
    BY <1>15 DEF RenewTaskLease, Stands, TaskRows
  <2>2. QED
    BY <1>4, <1>15, <2>1 DEF RenewTaskLease
<1>16. ASSUME NEW o \in Owners, NEW t \in Tasks, NEW s \in Sessions,
              BindRunningTaskSession(o, t, s)
       PROVE  RunsInv'
  <2>1. Stands(t)
    BY <1>16 DEF BindRunningTaskSession, Stands, TaskRows
  <2>2. QED
    BY <1>4, <1>16, <2>1 DEF BindRunningTaskSession
<1>17. ASSUME NEW o \in Owners, NEW t \in Tasks, NEW a \in Attempts \cup {NoAttempt},
              OwnerStep(o, t, a)
       PROVE  RunsInv'
  <2>0. \A s : /\ Left(task[t], s).attempts = task[t].attempts
               /\ Left(task[t], s).status = s
    BY DEF Left, Unleased, TaskRows
  <2>q. \A d : Queued(task[t], d).attempts = task[t].attempts
    BY DEF Queued, Unleased, TaskRows
  <2>1. CASE SettleTaskControl(o, t, a)
    BY <2>0, <2>1, RunsEnded DEF SettleTaskControl, SettledRow, Stands
  <2>2. ASSUME NEW report \in {"deliver", "none", "suppressed"}, Complete(o, t, a, report)
        PROVE  RunsInv'
    <3>1. \A u \in Tasks \ {t} : Stands(u)
      BY <2>2 DEF Complete, Stands
    <3>2. task[t].status = "running" /\ task'[t] = Left(task[t], "completed")
      BY <2>2 DEF Complete, LeasedUncontrolled, Leased
    <3>3. QED
      BY <2>0, <2>2, <3>1, <3>2, RunsEnded DEF Complete
  <2>3. ASSUME NEW status \in {"failed", "dead_letter"}, NEW deliver \in BOOLEAN,
               CompleteUnaccepted(o, t, a, status, deliver)
        PROVE  RunsInv'
    BY <2>0, <2>3, RunsEnded DEF CompleteUnaccepted, LeasedUncontrolled, Leased, Stands
  <2>4. ASSUME NEW deliver \in BOOLEAN, BlockTask(o, t, a, deliver) PROVE RunsInv'
    BY <2>0, <2>4, RunsEnded DEF BlockTask, LeasedUncontrolled, Leased, Stands
  <2>5. CASE RequeueTask(o, t, a)
    BY <2>5, <2>q, RunsEnded DEF RequeueTask, LeasedUncontrolled, Leased, Stands
  <2>6. CASE PreemptTask(o, t, a)
    <3>1. task'[t].attempts = task[t].attempts
      BY <2>6 DEF PreemptTask, Queued, Unleased, TaskRows
    <3>2. QED
      BY <2>6, <3>1, RunsEnded DEF PreemptTask, LeasedUncontrolled, Leased, Stands
  <2>7. ASSUME NEW kind \in FailureKinds, NEW limit \in RetryLimits, NEW after \in RetryAfters,
               FailTask(o, t, a, kind, limit, after)
        PROVE  RunsInv'
    <3>1. task'[t].attempts = task[t].attempts
      BY <2>0, <2>7, <2>q DEF FailTask
    <3>2. QED
      BY <2>7, <3>1, RunsEnded DEF FailTask, LeasedUncontrolled, Leased, Stands
  <2>8. QED
    BY <1>17, <2>1, <2>2, <2>3, <2>4, <2>5, <2>6, <2>7 DEF OwnerStep
<1>18. CASE UNCHANGED vars
  BY <1>18, RunsKept DEF vars, Stands
<1>19. QED
  BY <1>1, <1>2, <1>3, <1>5, <1>7, <1>8, <1>9, <1>10, <1>12, <1>13, <1>14, <1>15,
     <1>16, <1>17, <1>18
  DEF Next, CancelInterruptedSessionTask

----------------------------------------------------------------------------
(* What a step may do to one task, its runs and its notices *)

Kept(t) == task'[t] = task[t] /\ run'[t] = run[t] /\ notices'[t] = notices[t]

\* What OneNoticePerAttempt and NoticesTellTheTruth need to know of the notices of t.
NoticesOK(t) ==
  /\ task[t].status = "absent" => notices[t] = << >>
  /\ \A i \in 1..Len(notices[t]) :
       /\ notices[t][i].attempt \in 1..task[t].attempts
       /\ task[t].status = "running" => notices[t][i].attempt < task[t].attempts
       /\ notices[t][i].kind = "completed" =>
            task[t].status = "completed" /\ notices[t][i].attempt = task[t].attempts
       /\ notices[t][i].kind # "completed" /\ task[t].status = "completed" =>
            notices[t][i].attempt < task[t].attempts
  /\ \A i, j \in 1..Len(notices[t]) : i < j => notices[t][i].attempt < notices[t][j].attempt

StaysCancelled(t) ==
  task[t].intent = "cancel" =>
    \/ task'[t].status = "running" /\ task'[t].intent = "cancel"
    \/ task'[t].status = "cancelled"

PastFrozen(t) == \A n \in Attempts : n < task[t].attempts => run'[t][n] = run[t][n]

\* t enters the table as a review only in the step that completes its source unannounced.
EntersAsReview(t) ==
  task[t].status = "absent" /\ task'[t].status # "absent" =>
    \A u \in Tasks : ReviewOf[u] = t =>
      task[u].status = "running" /\ task'[u].status = "completed" /\ notices'[u] = notices[u]

StepOK(t) ==
  /\ task[t].status \in Final => Kept(t)
  /\ StaysCancelled(t)
  /\ PastFrozen(t)
  /\ EntersAsReview(t)
  /\ NoticesOK(t) => NoticesOK(t)'

\* A task the step does not touch.
LEMMA KeptStep ==
  ASSUME RowsInv, NEW t \in Tasks, Kept(t)
  PROVE  StepOK(t)
<1>1. NoticesOK(t) => NoticesOK(t)'
  BY DEF Kept, NoticesOK
<1>2. StaysCancelled(t)
  BY DEF Kept, StaysCancelled, RowsInv, RowInv
<1>3. QED
  BY <1>1, <1>2 DEF Kept, StepOK, PastFrozen, EntersAsReview

\* A task that moves on without a notice: it keeps its attempt, or a claim begins the next.
LEMMA QuietStep ==
  ASSUME TypeOK, NEW t \in Tasks, task[t].status \notin Final \cup {"absent"},
         notices'[t] = notices[t], StaysCancelled(t), PastFrozen(t),
         task'[t].status # "absent",
         \/ /\ task'[t].attempts = task[t].attempts
            /\ task'[t].status \in {"running", "completed"} => task[t].status = "running"
         \/ /\ task'[t].attempts = task[t].attempts + 1
            /\ task'[t].status = "running"
  PROVE  StepOK(t)
<1>1. task[t].attempts \in Nat
  BY DEF TypeOK, TaskRows
<1>2. \A i \in 1..Len(notices[t]) : notices[t][i].attempt \in Nat
  <2>1. \A i \in 1..Len(notices[t]) : notices[t][i] \in Notices
    BY DEF TypeOK
  <2>2. QED
    BY <2>1 DEF Notices
<1>3. NoticesOK(t) => NoticesOK(t)'
  BY <1>1, <1>2 DEF NoticesOK, Final
<1>4. QED
  BY <1>3 DEF StepOK, EntersAsReview

\* A holder ends the attempt of t and may report it, truthfully.
LEMMA EndedStep ==
  ASSUME TypeOK, NEW t \in Tasks, task[t].status = "running", task[t].intent = "none",
         task[t].attempts > 0,
         NEW s, run' = Finished(t, s), task'[t].attempts = task[t].attempts,
         task'[t].status \notin {"running", "absent"},
         NEW k \in NoticeKinds, k = "completed" <=> task'[t].status = "completed",
         notices'[t] = notices[t] \/ Notify(t, k)
  PROVE  StepOK(t)
<1>1. StaysCancelled(t) /\ EntersAsReview(t)
  BY DEF StaysCancelled, EntersAsReview
<1>2. PastFrozen(t)
  BY DEF PastFrozen, Finished, TypeOK, TaskRows
<1>3. ASSUME NoticesOK(t), Notify(t, k)
      PROVE  NoticesOK(t)'
  <2> DEFINE m == [attempt |-> task[t].attempts, kind |-> k]
             len == Len(notices[t])
  <2>1. notices'[t] = Append(notices[t], m) /\ notices[t] \in Seq(Notices)
    BY <1>3 DEF Notify, TypeOK
  <2>2. task[t].attempts \in Nat /\ len \in Nat /\ m \in Notices
    BY DEF TypeOK, TaskRows, Notices
  <2>3. /\ Len(notices'[t]) = len + 1
        /\ \A i \in 1..len : notices'[t][i] = notices[t][i]
        /\ notices'[t][len + 1] = m
    BY <2>1, <2>2
  <2>4. \A i \in 1..len : notices[t][i].attempt \in Nat
    <3>1. \A i \in 1..len : notices[t][i] \in Notices
      BY <2>1
    <3>2. QED
      BY <3>1 DEF Notices
  <2>5. \A i \in 1..len : notices[t][i].attempt < task[t].attempts
    BY <1>3 DEF NoticesOK
  <2>6. \A i \in 1..len : notices[t][i].kind # "completed"
    BY <1>3 DEF NoticesOK
  <2>7. \A i \in 1..Len(notices'[t]) : i \in 1..len \/ i = len + 1
    BY <2>2, <2>3
  <2>8. ASSUME NEW i \in 1..Len(notices'[t])
        PROVE  /\ notices'[t][i].attempt \in 1..task'[t].attempts
               /\ notices'[t][i].kind = "completed" =>
                    /\ task'[t].status = "completed"
                    /\ notices'[t][i].attempt = task'[t].attempts
               /\ notices'[t][i].kind # "completed" /\ task'[t].status = "completed" =>
                    notices'[t][i].attempt < task'[t].attempts
    <3>1. CASE i \in 1..len
      BY <1>3, <2>3, <2>5, <2>6, <3>1 DEF NoticesOK
    <3>2. CASE i = len + 1
      BY <2>2, <2>3, <3>2
    <3>3. QED
      BY <2>7, <3>1, <3>2
  <2>9. \A i, j \in 1..Len(notices'[t]) :
          i < j => notices'[t][i].attempt < notices'[t][j].attempt
    <3> SUFFICES ASSUME NEW i \in 1..Len(notices'[t]), NEW j \in 1..Len(notices'[t]), i < j
                 PROVE  notices'[t][i].attempt < notices'[t][j].attempt
      OBVIOUS
    <3>1. i \in 1..len
      BY <2>2, <2>3
    <3>2. CASE j \in 1..len
      BY <1>3, <2>3, <3>1, <3>2 DEF NoticesOK
    <3>3. CASE j = len + 1
      BY <2>3, <2>5, <3>1, <3>3
    <3>4. QED
      BY <2>7, <3>2, <3>3
  <2>10. QED
    BY <2>8, <2>9 DEF NoticesOK
<1>4. ASSUME NoticesOK(t), notices'[t] = notices[t]
      PROVE  NoticesOK(t)'
  <2>1. \A i \in 1..Len(notices[t]) : /\ notices[t][i].attempt < task[t].attempts
                                     /\ notices[t][i].kind # "completed"
    BY <1>4 DEF NoticesOK
  <2>2. QED
    BY <1>4, <2>1 DEF NoticesOK
<1>5. QED
  BY <1>1, <1>2, <1>3, <1>4 DEF StepOK, Final

\* A row enters the table without a history.
LEMMA EnteredStep ==
  ASSUME TypeOK, RowsInv, NEW t \in Tasks, task[t].status = "absent",
         notices'[t] = notices[t], run'[t] = run[t], task'[t].status # "absent",
         EntersAsReview(t)
  PROVE  StepOK(t)
<1>1. NoticesOK(t) => NoticesOK(t)'
  BY DEF NoticesOK
<1>2. StaysCancelled(t)
  BY DEF StaysCancelled, RowsInv, RowInv
<1>3. QED
  BY <1>1, <1>2 DEF StepOK, PastFrozen, Final

\* Lease recovery settles, buries or requeues expired rows, and sends no notice.
LEMMA RecoveredStep ==
  ASSUME TypeOK, RowsInv, RunsInv, NEW t \in Tasks, run' = RecoveredRuns,
         notices'[t] = notices[t],
         \/ task'[t] = RecoveredTasks[t]
         \/ \E o \in Owners : /\ Ready(RecoveredTasks[t])
                              /\ task'[t] = Claimed(RecoveredTasks[t], o)
  PROVE  StepOK(t)
<1>1. /\ task[t] \in TaskRows
      /\ RecoveredTasks[t] = RecoveredRow(task[t])
      /\ RecoveredTasks[t] \in TaskRows
  BY RecoveredType DEF TypeOK, RecoveredTasks
<1>2. \A n \in Attempts : run'[t][n] =
        IF Expired(task[t]) /\ run[t][n] = "running" THEN "interrupted" ELSE run[t][n]
  BY DEF RecoveredRuns
<1>3. PastFrozen(t)
  <2>1. task[t].attempts \in Nat
    BY <1>1 DEF TaskRows
  <2>2. \A n \in Attempts : n < task[t].attempts => run[t][n] # "running"
    BY <2>1, NumbersAssumption DEF RunsInv, RunsBelongToLease, Attempts
  <2>3. QED
    BY <1>2, <2>2 DEF PastFrozen
<1>4. ASSUME NEW o \in Owners, Ready(RecoveredTasks[t])
      PROVE  /\ Claimed(RecoveredTasks[t], o).status = "running"
             /\ Claimed(RecoveredTasks[t], o).attempts = RecoveredTasks[t].attempts + 1
  BY <1>1 DEF Claimed, TaskRows
<1>5. CASE Expired(task[t])
  <2>1. /\ RecoveredTasks[t].status \in {"queued", "paused", "cancelled", "dead_letter"}
        /\ RecoveredTasks[t].attempts = task[t].attempts
        /\ task[t].intent = "cancel" => RecoveredTasks[t].status = "cancelled"
    BY <1>1, <1>5 DEF RecoveredRow, SettledRow, Left, Queued, Unleased, TaskRows
  <2>2. StaysCancelled(t)
    BY <1>4, <2>1 DEF StaysCancelled, Ready
  <2>3. QED
    BY <1>3, <1>4, <1>5, <2>1, <2>2, QuietStep DEF Expired, Final
<1>6. CASE ~Expired(task[t])
  <2>1. RecoveredTasks[t] = task[t]
    BY <1>6, RecoveryStands
  <2>2. run'[t] = run[t]
    BY <1>2, <1>6 DEF TypeOK, RecoveredRuns
  <2>3. CASE task'[t] = task[t]
    BY <2>2, <2>3, KeptStep DEF Kept
  <2>4. ASSUME NEW o \in Owners, Ready(task[t]), task'[t] = Claimed(task[t], o)
        PROVE  StepOK(t)
    <3>1. StaysCancelled(t)
      BY <2>4 DEF StaysCancelled, RowsInv, RowInv, Ready
    <3>2. QED
      BY <1>3, <1>4, <2>1, <2>4, <3>1, QuietStep DEF Ready, Final
  <2>5. QED
    BY <2>1, <2>3, <2>4
<1>7. QED
  BY <1>5, <1>6

\* Raising the attempt budget changes nothing else.
LEMMA BudgetFields ==
  ASSUME NEW r \in TaskRows, NEW n
  PROVE  /\ [r EXCEPT !.maxAttempts = n].status = r.status
         /\ [r EXCEPT !.maxAttempts = n].attempts = r.attempts
  BY DEF TaskRows

\* A step that writes only the row of t, leaving runs and notices alone.
LEMMA RowOnlyStep ==
  ASSUME TypeOK, RowsInv, NEW t \in Tasks, NEW r, task' = [task EXCEPT ![t] = r],
         UNCHANGED <<run, notices>>, task[t].status \notin Final \cup {"absent"},
         StaysCancelled(t), r.status # "absent", r.attempts = task[t].attempts,
         r.status \in {"running", "completed"} => task[t].status = "running"
  PROVE  \A u \in Tasks : StepOK(u)
<1>1. task'[t] = r
  BY DEF TypeOK
<1>2. StepOK(t)
  BY <1>1, QuietStep DEF PastFrozen
<1>3. ASSUME NEW u \in Tasks, u # t
      PROVE  StepOK(u)
  BY <1>3, KeptStep DEF Kept, TypeOK
<1>4. QED
  BY <1>2, <1>3

\* A step by which a holder ends the attempt of t, told or untold.
LEMMA EndsOnlyStep ==
  ASSUME TypeOK, RowsInv, NEW o \in Owners, NEW t \in Tasks, LeasedUncontrolled(o, t),
         NEW r, task' = [task EXCEPT ![t] = r], NEW s, run' = Finished(t, s),
         r.attempts = task[t].attempts, r.status \notin {"running", "absent"},
         NEW k \in NoticeKinds, k = "completed" <=> r.status = "completed",
         UNCHANGED notices \/ Notify(t, k)
  PROVE  \A u \in Tasks : StepOK(u)
<1>1. task'[t] = r
  BY DEF TypeOK
<1>2. task[t].status = "running" /\ task[t].intent = "none" /\ task[t].attempts > 0
  BY DEF LeasedUncontrolled, Leased, RowsInv, RowInv
<1>3. StepOK(t)
  BY <1>1, <1>2, EndedStep
<1>4. ASSUME NEW u \in Tasks, u # t
      PROVE  StepOK(u)
  BY <1>4, KeptStep DEF Kept, TypeOK, Finished, Notify
<1>5. QED
  BY <1>3, <1>4

\* Every step treats every task as StepOK says.
LEMMA NextStep == TypeOK /\ RowsInv /\ RunsInv /\ [Next]_vars => \A u \in Tasks : StepOK(u)
<1> SUFFICES ASSUME TypeOK, RowsInv, RunsInv, [Next]_vars PROVE \A u \in Tasks : StepOK(u)
  OBVIOUS
<1>0. \A t \in Tasks : task[t] \in TaskRows /\ RowInv(task[t], grants[t])
  BY DEF TypeOK, RowsInv
<1>l. \A t \in Tasks, s \in TaskStatuses :
        /\ Left(task[t], s).status = s
        /\ Left(task[t], s).attempts = task[t].attempts
  BY <1>0 DEF Left, Unleased, TaskRows
<1>q. \A t \in Tasks, d \in Nat :
        /\ Queued(task[t], d).status = "queued"
        /\ Queued(task[t], d).attempts = task[t].attempts
  BY <1>0 DEF Queued, Unleased, TaskRows
<1>c. \A t \in Tasks : task[t].status # "running" => StaysCancelled(t)
  BY <1>0 DEF StaysCancelled, RowInv
<1>1. CASE Tick
  <2> SUFFICES ASSUME NEW u \in Tasks PROVE StepOK(u)
    OBVIOUS
  <2>1. /\ task'[u].status = task[u].status
        /\ task'[u].attempts = task[u].attempts
        /\ task'[u].intent = task[u].intent
    BY <1>0, <1>1 DEF Tick, TaskRows
  <2>2. StaysCancelled(u)
    BY <1>0, <2>1 DEF StaysCancelled, RowInv
  <2>3. CASE task[u].status \in Final \cup {"absent"}
    <3>1. task[u].lease = 0 /\ task[u].delay = 0
      BY <1>0, <2>3 DEF RowInv, Final
    <3>2. task'[u] = task[u]
      <4>1. task'[u] = [task[u] EXCEPT !.lease = Greatest(task[u].lease - 1, 0),
                                       !.delay = Greatest(task[u].delay - 1, 0)]
        BY <1>1 DEF Tick
      <4>2. Greatest(0 - 1, 0) = 0
        BY DEF Greatest
      <4>3. task'[u] = [task[u] EXCEPT !.lease = 0, !.delay = 0]
        BY <3>1, <4>1, <4>2
      <4>4. QED
        BY <1>0, <3>1, <4>3 DEF TaskRows
    <3>3. QED
      BY <1>1, <3>2, KeptStep DEF Tick, Kept
  <2>4. CASE task[u].status \notin Final \cup {"absent"}
    BY <1>1, <2>1, <2>2, <2>4, QuietStep DEF Tick, PastFrozen, Final
  <2>5. QED
    BY <2>3, <2>4
<1>2. CASE ReadyTasks
  BY <1>2, RecoveredStep DEF ReadyTasks
<1>3. ASSUME NEW o \in Owners, Crash(o) PROVE \A u \in Tasks : StepOK(u)
  BY <1>3, KeptStep DEF Crash, Kept
<1>4. ASSUME NEW t \in Tasks, Enqueue(t) PROVE \A u \in Tasks : StepOK(u)
  <2>1. ASSUME NEW u \in Tasks, u # t
        PROVE  StepOK(u)
    BY <1>4, <2>1, KeptStep DEF Enqueue, Kept, TypeOK
  <2>2. task'[t].status = "queued"
    BY <1>4 DEF Enqueue, NewRow, TypeOK
  <2>3. StepOK(t)
    BY <1>4, <2>2, EnteredStep DEF Enqueue, EntersAsReview
  <2>4. QED
    BY <2>1, <2>3
<1>5. ASSUME NEW t \in Tasks, NEW i \in {"pause", "cancel"}, RequestControl(t, i),
             UNCHANGED <<run, notices>>
      PROVE  \A u \in Tasks : StepOK(u)
  <2>1. task' = [task EXCEPT ![t] = [task[t] EXCEPT !.intent = i]]
    BY <1>5 DEF RequestControl
  <2>2. /\ [task[t] EXCEPT !.intent = i].status = task[t].status
        /\ [task[t] EXCEPT !.intent = i].attempts = task[t].attempts
    BY <1>0 DEF TaskRows
  <2>3. StaysCancelled(t) /\ task[t].status = "running"
    BY <1>5 DEF RequestControl, StaysCancelled
  <2>4. QED
    BY <1>5, <2>1, <2>2, <2>3, RowOnlyStep DEF Final
<1>6. ASSUME NEW t \in Tasks, PauseTask(t) PROVE \A u \in Tasks : StepOK(u)
  <2>1. CASE RequestControl(t, "pause")
    BY <1>5, <1>6, <2>1 DEF PauseTask
  <2>2. CASE task[t].status = "queued" /\ task' = [task EXCEPT ![t] = Left(task[t], "paused")]
    <3>1. /\ Left(task[t], "paused").status = "paused"
          /\ Left(task[t], "paused").attempts = task[t].attempts
      BY <1>l DEF TaskStatuses, Active
    <3>2. QED
      BY <1>6, <1>c, <2>2, <3>1, RowOnlyStep DEF PauseTask, Final
  <2>3. QED
    BY <1>6, <2>1, <2>2 DEF PauseTask
<1>7. ASSUME NEW t \in Tasks, CancelTask(t) PROVE \A u \in Tasks : StepOK(u)
  <2>1. CASE RequestControl(t, "cancel")
    BY <1>5, <1>7, <2>1 DEF CancelTask
  <2>2. CASE /\ task[t].status \in {"queued", "paused", "blocked"}
             /\ task' = [task EXCEPT ![t] = Left(task[t], "cancelled")]
    <3>1. /\ Left(task[t], "cancelled").status = "cancelled"
          /\ Left(task[t], "cancelled").attempts = task[t].attempts
      BY <1>l DEF TaskStatuses, Final
    <3>2. QED
      BY <1>7, <1>c, <2>2, <3>1, RowOnlyStep DEF CancelTask, Final
  <2>3. QED
    BY <1>7, <2>1, <2>2 DEF CancelTask
<1>8. ASSUME NEW t \in Tasks, ResumeTask(t) PROVE \A u \in Tasks : StepOK(u)
  BY <1>8, <1>c, <1>q, RowOnlyStep DEF ResumeTask, Final
<1>9. ASSUME NEW t \in Tasks, RetryDeadLetterTask(t) PROVE \A u \in Tasks : StepOK(u)
  <2> DEFINE row == [Queued(task[t], 0) EXCEPT !.maxAttempts = task[t].attempts + 1]
  <2>1. row.status = "queued" /\ row.attempts = task[t].attempts
    BY <1>0, <1>q, QueuedType, BudgetFields
  <2>2. task' = [task EXCEPT ![t] = row]
    BY <1>9 DEF RetryDeadLetterTask
  <2> HIDE DEF row
  <2>3. QED
    BY <1>9, <1>c, <2>1, <2>2, RowOnlyStep DEF RetryDeadLetterTask, Final
<1>10. ASSUME NEW o \in Owners, NEW x \in Executors, NEW e \in SUBSET Sessions,
              ClaimTask(o, x, e)
       PROVE  \A u \in Tasks : StepOK(u)
  <2>1. \A u \in Tasks :
          \/ task'[u] = RecoveredTasks[u]
          \/ Ready(RecoveredTasks[u]) /\ task'[u] = Claimed(RecoveredTasks[u], o)
    BY <1>10 DEF ClaimTask, Candidates, RecoveredTasks
  <2>2. QED
    BY <1>10, <2>1, RecoveredStep DEF ClaimTask
<1>11. ASSUME NEW o \in Owners, NEW t \in Tasks, ClaimTaskById(o, t)
       PROVE  \A u \in Tasks : StepOK(u)
  <2>1. \A u \in Tasks :
          \/ task'[u] = RecoveredTasks[u]
          \/ Ready(RecoveredTasks[u]) /\ task'[u] = Claimed(RecoveredTasks[u], o)
    BY <1>11 DEF ClaimTaskById, RecoveredTasks
  <2>2. QED
    BY <1>11, <2>1, RecoveredStep DEF ClaimTaskById
<1>12. ASSUME NEW o \in Owners, NEW t \in Tasks, BeginTaskAttempt(o, t)
       PROVE  \A u \in Tasks : StepOK(u)
  <2>1. ASSUME NEW u \in Tasks, u # t
        PROVE  StepOK(u)
    BY <1>12, <2>1, KeptStep DEF BeginTaskAttempt, Kept, TypeOK
  <2>2. PastFrozen(t)
    BY <1>0, <1>12 DEF BeginTaskAttempt, PastFrozen, TypeOK, TaskRows
  <2>3. StaysCancelled(t) /\ task[t].status = "running"
    BY <1>12 DEF BeginTaskAttempt, Leased, StaysCancelled
  <2>4. StepOK(t)
    BY <1>12, <2>2, <2>3, QuietStep DEF BeginTaskAttempt, Final
  <2>5. QED
    BY <2>1, <2>4
<1>13. ASSUME NEW o \in Owners, NEW t \in Tasks, RenewTaskLease(o, t)
       PROVE  \A u \in Tasks : StepOK(u)
  <2> DEFINE row == [task[t] EXCEPT !.lease = LeaseTicks]
  <2>1. row.status = task[t].status /\ row.attempts = task[t].attempts
    BY <1>0 DEF TaskRows
  <2>2. task' = [task EXCEPT ![t] = row]
    BY <1>13 DEF RenewTaskLease
  <2>3. StaysCancelled(t) /\ task[t].status = "running"
    BY <1>13 DEF RenewTaskLease, LeasedUncontrolled, Leased, StaysCancelled
  <2> HIDE DEF row
  <2>4. QED
    BY <1>13, <2>1, <2>2, <2>3, RowOnlyStep DEF RenewTaskLease, Final
<1>14. ASSUME NEW o \in Owners, NEW t \in Tasks, NEW s \in Sessions,
              BindRunningTaskSession(o, t, s)
       PROVE  \A u \in Tasks : StepOK(u)
  <2> DEFINE row == [task[t] EXCEPT !.session = s]
  <2>1. row.status = task[t].status /\ row.attempts = task[t].attempts
    BY <1>0 DEF TaskRows
  <2>2. task' = [task EXCEPT ![t] = row]
    BY <1>14 DEF BindRunningTaskSession
  <2>3. StaysCancelled(t) /\ task[t].status = "running"
    BY <1>14 DEF BindRunningTaskSession, LeasedUncontrolled, Leased, StaysCancelled
  <2> HIDE DEF row
  <2>4. QED
    BY <1>14, <2>1, <2>2, <2>3, RowOnlyStep DEF BindRunningTaskSession, Final
<1>15. ASSUME NEW o \in Owners, NEW t \in Tasks, NEW a \in Attempts \cup {NoAttempt},
              OwnerStep(o, t, a)
       PROVE  \A u \in Tasks : StepOK(u)
  <2>1. CASE SettleTaskControl(o, t, a)
    <3> DEFINE status == IF task[t].intent = "cancel" THEN "cancelled" ELSE "paused"
    <3>1. task'[t] = Left(task[t], status)
      BY <2>1 DEF SettleTaskControl, SettledRow, TypeOK
    <3>2. task'[t].status = status /\ task'[t].attempts = task[t].attempts
      BY <1>l, <3>1 DEF TaskStatuses, Active, Final
    <3>3. PastFrozen(t)
      BY <1>0, <2>1 DEF SettleTaskControl, PastFrozen, Finished, TypeOK, TaskRows
    <3>4. StepOK(t)
      BY <2>1, <3>2, <3>3, QuietStep DEF SettleTaskControl, StaysCancelled, Final
    <3>5. ASSUME NEW u \in Tasks, u # t
          PROVE  StepOK(u)
      BY <2>1, <3>5, KeptStep DEF SettleTaskControl, Kept, TypeOK, Finished
    <3>6. QED
      BY <3>4, <3>5
  <2>2. ASSUME NEW report \in {"deliver", "none", "suppressed"}, Complete(o, t, a, report)
        PROVE  \A u \in Tasks : StepOK(u)
    <3> DEFINE review == ReviewOf[t] # NoTask /\ report # "suppressed"
                         /\ task[ReviewOf[t]].status = "absent"
    <3>1. task' = [u \in Tasks |-> IF u = t THEN Left(task[t], "completed")
                                   ELSE IF review /\ u = ReviewOf[t] THEN NewRow(u)
                                   ELSE task[u]]
      BY <2>2 DEF Complete
    <3>2. /\ task[t].status = "running" /\ task[t].intent = "none" /\ task[t].attempts > 0
          /\ task'[t].status = "completed" /\ task'[t].attempts = task[t].attempts
      BY <1>0, <1>l, <2>2, <3>1
      DEF Complete, LeasedUncontrolled, Leased, RowInv, TaskStatuses, Final
    <3>3. notices' = notices \/ (~review /\ Notify(t, "completed"))
      BY <2>2 DEF Complete
    <3>4. StepOK(t)
      BY <2>2, <3>2, <3>3, EndedStep DEF Complete, NoticeKinds
    <3>5. ASSUME NEW u \in Tasks, u # t
          PROVE  StepOK(u)
      <4>1. run'[u] = run[u] /\ notices'[u] = notices[u]
        BY <2>2, <3>3, <3>5 DEF Complete, TypeOK, Finished, Notify
      <4>2. CASE ~(review /\ u = ReviewOf[t])
        BY <3>1, <3>5, <4>1, <4>2, KeptStep DEF Kept
      <4>3. CASE review /\ u = ReviewOf[t]
        <5>1. task[u].status = "absent" /\ task'[u].status = "queued"
          BY <3>1, <3>5, <4>3 DEF NewRow
        <5>2. \A v \in Tasks : ReviewOf[v] = u => v = t
          BY <4>3, ReviewAssumption
        <5>3. EntersAsReview(u)
          BY <3>2, <3>3, <4>3, <5>2 DEF EntersAsReview
        <5>4. QED
          BY <4>1, <5>1, <5>3, EnteredStep
      <4>4. QED
        BY <4>2, <4>3
    <3>6. QED
      BY <3>4, <3>5
  <2>3. ASSUME NEW status \in {"failed", "dead_letter"}, NEW deliver \in BOOLEAN,
               CompleteUnaccepted(o, t, a, status, deliver)
        PROVE  \A u \in Tasks : StepOK(u)
    BY <1>l, <2>3, EndsOnlyStep DEF CompleteUnaccepted, TaskStatuses, Final, NoticeKinds
  <2>4. ASSUME NEW deliver \in BOOLEAN, BlockTask(o, t, a, deliver)
        PROVE  \A u \in Tasks : StepOK(u)
    <3>1. /\ Left(task[t], "blocked").status = "blocked"
          /\ Left(task[t], "blocked").attempts = task[t].attempts
      BY <1>l DEF TaskStatuses, Active
    <3>2. QED
      BY <2>4, <3>1, EndsOnlyStep DEF BlockTask, NoticeKinds
  <2>5. CASE RequeueTask(o, t, a)
    BY <1>q, <2>5, EndsOnlyStep DEF RequeueTask, NoticeKinds
  <2>6. CASE PreemptTask(o, t, a)
    <3> DEFINE row == [Queued(task[t], 0) EXCEPT !.maxAttempts = task[t].maxAttempts + 1]
    <3>1. row.status = "queued" /\ row.attempts = task[t].attempts
      BY <1>0, <1>q, QueuedType, BudgetFields
    <3>2. task' = [task EXCEPT ![t] = row]
      BY <2>6 DEF PreemptTask
    <3> HIDE DEF row
    <3>3. QED
      BY <2>6, <3>1, <3>2, EndsOnlyStep DEF PreemptTask, NoticeKinds
  <2>7. ASSUME NEW kind \in FailureKinds, NEW limit \in RetryLimits, NEW after \in RetryAfters,
               FailTask(o, t, a, kind, limit, after)
        PROVE  \A u \in Tasks : StepOK(u)
    <3> DEFINE status == FailureStatus(task[t], kind, limit)
               row == task'[t]
               kept == IF status = "queued" THEN "failed" ELSE status
    <3>1. status \in {"queued", "dead_letter", "failed"}
      BY DEF FailureStatus
    <3>2. task' = [task EXCEPT ![t] = row]
      BY <2>7 DEF FailTask, TypeOK
    <3>3. row.status = status /\ row.attempts = task[t].attempts
      <4>1. CASE status = "queued"
        <5>1. row = Queued(task[t], Greatest(Backoff[task[t].attempts], after))
          BY <2>7, <4>1 DEF FailTask, TypeOK
        <5>2. QED
          BY <1>0, <4>1, <5>1 DEF Queued, Unleased, TaskRows
      <4>2. CASE status # "queued"
        BY <1>l, <2>7, <3>1, <4>2 DEF FailTask, TypeOK, TaskStatuses, Final
      <4>3. QED
        BY <4>1, <4>2
    <3>4. notices' = notices \/ Notify(t, kept)
      BY <2>7 DEF FailTask
    <3>5. kept \in NoticeKinds /\ kept # "completed"
      BY <3>1 DEF NoticeKinds
    <3>6. LeasedUncontrolled(o, t) /\ run' = Finished(t, "failed")
      BY <2>7 DEF FailTask
    <3> HIDE DEF status, row, kept
    <3>7. QED
      BY <3>1, <3>2, <3>3, <3>4, <3>5, <3>6, EndsOnlyStep
  <2>8. QED
    BY <1>15, <2>1, <2>2, <2>3, <2>4, <2>5, <2>6, <2>7 DEF OwnerStep
<1>16. CASE UNCHANGED vars
  BY <1>16, KeptStep DEF vars, Kept
<1>17. QED
  BY <1>1, <1>2, <1>3, <1>4, <1>6, <1>7, <1>8, <1>9, <1>10, <1>11, <1>12, <1>13,
     <1>14, <1>15, <1>16
  DEF Next, CancelInterruptedSessionTask

----------------------------------------------------------------------------
(* Theorems *)

Inv == TypeOK /\ RowsInv /\ RunsInv

LEMMA SpecInv == Spec => []Inv
<1>1. Init => Inv
  BY InitType, InitRows, InitRuns DEF Inv
<1>2. Inv /\ [Next]_vars => Inv'
  BY NextType, NextRows, NextRuns, RowsInvMeaning DEF Inv
<1>3. QED
  BY <1>1, <1>2, PTL DEF Spec

\* The tables keep their types: every row, run and notice any operation writes is
\* one the readers of the table expect.
THEOREM TypeCorrect == Spec => []TypeOK
<1>1. Inv => TypeOK
  BY DEF Inv
<1>2. QED
  BY <1>1, SpecInv, PTL

\* A lease exists exactly while a task runs, and a control intent or a retry delay
\* never outlives the state it belongs to (updateTerminal, requeueFailure, controlTask).
THEOREM LeasesMatchStatus == Spec => []LeaseMatchesStatus
<1>1. Inv => LeaseMatchesStatus
  BY RowsInvMeaning DEF Inv
<1>2. QED
  BY <1>1, SpecInv, PTL

\* No task ever starts more attempts than its budget plus the explicit grants
\* (claim, failTask, recoverExpiredTasks).
THEOREM BudgetHolds == Spec => []AttemptBudget
<1>1. Inv => AttemptBudget
  BY RowsInvMeaning DEF Inv
<1>2. QED
  BY <1>1, SpecInv, PTL

\* No way of ending an attempt leaves its run open (finishTaskAttempt and the
\* interruptions of lease recovery).
THEOREM RunsNeverDangle == Spec => []RunsBelongToLease
<1>1. Inv => RunsBelongToLease
  BY DEF Inv, RunsInv
<1>2. QED
  BY <1>1, SpecInv, PTL

\* A task is completed by one attempt at most, its last (completeTask).
THEOREM CompletedOnce == Spec => []OneCompletedRun
<1>1. Inv => OneCompletedRun
  BY DEF Inv, RunsInv
<1>2. QED
  BY <1>1, SpecInv, PTL
\* The part of the invariant about what the owner has been told.
HistoryInv == (\A t \in Tasks : NoticesOK(t)) /\ ReviewReplacesNotice

LEMMA SpecHistory == Spec => []HistoryInv
<1>1. Init => HistoryInv
  BY NamesAssumption DEF Init, HistoryInv, NoticesOK, ReviewReplacesNotice
<1>2. Inv /\ HistoryInv /\ [Next]_vars => HistoryInv'
  <2> SUFFICES ASSUME Inv, HistoryInv, [Next]_vars PROVE HistoryInv'
    OBVIOUS
  <2>1. \A t \in Tasks : StepOK(t)
    BY NextStep DEF Inv
  <2>2. (\A t \in Tasks : NoticesOK(t))'
    BY <2>1 DEF StepOK, HistoryInv
  <2>3. ASSUME NEW t \in Tasks, ReviewOf[t] # NoTask, task'[ReviewOf[t]].status # "absent"
        PROVE  /\ task'[t].status = "completed"
               /\ \A i \in 1..Len(notices'[t]) : notices'[t][i].kind # "completed"
    <3>1. ReviewOf[t] \in Tasks
      BY <2>3, NamesAssumption
    <3>2. CASE task[ReviewOf[t]].status # "absent"
      <4>1. /\ task[t].status = "completed"
            /\ \A i \in 1..Len(notices[t]) : notices[t][i].kind # "completed"
        BY <2>3, <3>2 DEF HistoryInv, ReviewReplacesNotice
      <4>2. Kept(t)
        BY <2>1, <4>1 DEF StepOK, Final
      <4>3. QED
        BY <4>1, <4>2 DEF Kept
    <3>3. CASE task[ReviewOf[t]].status = "absent"
      <4>1. /\ task[t].status = "running" /\ task'[t].status = "completed"
            /\ notices'[t] = notices[t]
        BY <2>1, <2>3, <3>1, <3>3 DEF StepOK, EntersAsReview
      <4>2. \A i \in 1..Len(notices[t]) : notices[t][i].kind # "completed"
        BY <4>1 DEF HistoryInv, NoticesOK
      <4>3. QED
        BY <4>1, <4>2
    <3>4. QED
      BY <3>2, <3>3
  <2>4. QED
    BY <2>2, <2>3 DEF HistoryInv, ReviewReplacesNotice
<1>3. QED
  BY <1>1, <1>2, SpecInv, PTL DEF Spec

\* An attempt reports to the owner at most once, and attempts report in order
\* (completeTask, failTask, blockTask and the inserts into the outbox they make).
THEOREM OneNoticeEach == Spec => []OneNoticePerAttempt
<1>1. HistoryInv => OneNoticePerAttempt
  BY DEF HistoryInv, NoticesOK, OneNoticePerAttempt
<1>2. QED
  BY <1>1, SpecHistory, PTL

\* A completion is announced only for the attempt that completed the task, a failure
\* only for one that did not (completeTask, failTask, blockTask).
THEOREM NoticesAreTrue == Spec => []NoticesTellTheTruth
<1>1. Inv /\ HistoryInv => NoticesTellTheTruth
  <2> SUFFICES ASSUME Inv, HistoryInv, NEW t \in Tasks, NEW i \in 1..Len(notices[t])
               PROVE  /\ notices[t][i].attempt \in 1..task[t].attempts
                      /\ notices[t][i].kind = "completed" =>
                           /\ task[t].status = "completed"
                           /\ notices[t][i].attempt = task[t].attempts
                      /\ notices[t][i].kind # "completed" =>
                           run[t][notices[t][i].attempt] # "completed"
    BY DEF NoticesTellTheTruth
  <2>1. NoticesOK(t)
    BY DEF HistoryInv
  <2>2. notices[t][i].attempt \in Attempts
    <3>1. task[t].attempts \in Nat /\ grants[t] \in 0..MaxGrants
      BY DEF Inv, TypeOK, TaskRows
    <3>2. task[t].attempts <= MaxAttempts + grants[t]
      BY DEF Inv, RowsInv, RowInv
    <3>3. notices[t][i].attempt \in 1..task[t].attempts
      BY <2>1 DEF NoticesOK
    <3>4. MaxAttempts \in Nat /\ MaxGrants \in Nat
      BY NumbersAssumption
    <3>5. notices[t][i].attempt \in 1..(MaxAttempts + MaxGrants)
      <4> DEFINE n == notices[t][i].attempt
      <4>1. n \in Int /\ 1 <= n /\ n <= task[t].attempts
        BY <3>1, <3>3
      <4> HIDE DEF n
      <4>2. n \in 1..(MaxAttempts + MaxGrants)
        BY <3>1, <3>2, <3>4, <4>1
      <4>3. QED
        BY <4>2 DEF n
    <3>6. QED
      BY <3>5 DEF Attempts
  <2>3. ASSUME notices[t][i].kind # "completed"
        PROVE  run[t][notices[t][i].attempt] # "completed"
    <3>1. task[t].status = "completed" => notices[t][i].attempt < task[t].attempts
      BY <2>1, <2>3 DEF NoticesOK
    <3>2. run[t][notices[t][i].attempt] = "completed" =>
            task[t].status = "completed" /\ notices[t][i].attempt = task[t].attempts
      BY <2>2 DEF Inv, RunsInv, OneCompletedRun
    <3>3. task[t].attempts \in Nat
      BY DEF Inv, TypeOK, TaskRows
    <3>4. QED
      BY <3>1, <3>2, <3>3
  <2>4. QED
    BY <2>1, <2>3 DEF NoticesOK
<1>2. QED
  BY <1>1, SpecInv, SpecHistory, PTL

\* The owner hears of a reviewed task from its review alone (completeTask inserts the
\* review task or the notice, never both).
THEOREM ReviewsReplaceNotices == Spec => []ReviewReplacesNotice
<1>1. HistoryInv => ReviewReplacesNotice
  BY DEF HistoryInv
<1>2. QED
  BY <1>1, SpecHistory, PTL

\* Whoever calls, and however late, a completed, failed or cancelled task is not
\* written again (the fences of every operation, and what recovery and retry select).
THEOREM FinalStays == Spec => FinalIsForever
<1>1. Inv /\ [Next]_vars =>
        [\A t \in Tasks : task[t].status \in Final =>
           task'[t] = task[t] /\ run'[t] = run[t] /\ notices'[t] = notices[t]]_vars
  BY NextStep DEF Inv, StepOK, Kept
<1>2. QED
  BY <1>1, SpecInv, PTL DEF Spec, FinalIsForever

\* No result, failure, pause or recovery overtakes a cancel that was accepted
\* (controlTask, settleTaskControl, recoverExpiredTasks and the control fence).
THEOREM CancelPrevails == Spec => CancelWins
<1>1. Inv /\ [Next]_vars =>
        [\A t \in Tasks : task[t].intent = "cancel" =>
           \/ task'[t].status = "running" /\ task'[t].intent = "cancel"
           \/ task'[t].status = "cancelled"]_vars
  BY NextStep DEF Inv, StepOK, StaysCancelled
<1>2. QED
  BY <1>1, SpecInv, PTL DEF Spec, CancelWins

\* A stale holder cannot rewrite the run of an attempt that was succeeded by another
\* (finishTaskAttempt and the interruptions of lease recovery).
THEOREM PastStays == Spec => PastAttemptsFrozen
<1>1. Inv /\ [Next]_vars =>
        [\A t \in Tasks, n \in Attempts : n < task[t].attempts => run'[t][n] = run[t][n]]_vars
  BY NextStep DEF Inv, StepOK, PastFrozen
<1>2. QED
  BY <1>1, SpecInv, PTL DEF Spec, PastAttemptsFrozen

----------------------------------------------------------------------------
(* The contract of the Task table *)

\* Only a running row has a lease or an intent (a part of RowInv).
Fits(r) == r.status # "running" => r.lease = 0 /\ r.intent = "none"

Moves(r, s) == Contract!TaskStep(View(r), View(s))

\* What the contract does not look at may change.
Alike(q, s) == /\ s.status = q.status /\ (s.lease > 0 <=> q.lease > 0)
               /\ s.intent = q.intent /\ s.attempts = q.attempts

LEMMA AlikeMoves ==
  ASSUME NEW r, NEW q, NEW s, Moves(r, q), Alike(q, s) PROVE Moves(r, s)
BY DEF Moves, View, Stage, Alike

LEMMA SameMoves == ASSUME NEW r PROVE Moves(r, r)
BY DEF Moves, Contract!TaskStep

\* The steps of the contract, by the two shapes a view has
LEMMA ContractSteps ==
  ASSUME NEW l, NEW c, NEW n
  PROVE  /\ Contract!TaskStep(Contract!Held(l, c, n), Contract!Held(FALSE, c, n))
         /\ Contract!TaskStep(Contract!Held(l, c, n), Contract!Held(l, TRUE, n))
         /\ Contract!TaskStep(Contract!Held(l, FALSE, n), Contract!Loose("idle", n))
         /\ Contract!TaskStep(Contract!Held(l, FALSE, n), Contract!Loose("dead", n))
         /\ Contract!TaskStep(Contract!Held(FALSE, FALSE, n), Contract!Held(TRUE, FALSE, n + 1))
         /\ Contract!TaskStep(Contract!Loose("idle", n), Contract!Held(TRUE, FALSE, n + 1))
         /\ Contract!TaskStep(Contract!Loose("dead", n), Contract!Loose("idle", n))
<1> USE DEF Contract!TaskStep, Contract!Held, Contract!Loose
<1>1. Contract!TaskStep(Contract!Held(l, c, n), Contract!Held(FALSE, c, n))
  BY DEF Contract!Lapse
<1>2. Contract!TaskStep(Contract!Held(l, c, n), Contract!Held(l, TRUE, n))
  BY DEF Contract!AskToCancel
<1>3. /\ Contract!TaskStep(Contract!Held(l, FALSE, n), Contract!Loose("idle", n))
      /\ Contract!TaskStep(Contract!Held(l, FALSE, n), Contract!Loose("dead", n))
  BY DEF Contract!Release
<1>4. /\ Contract!TaskStep(Contract!Held(FALSE, FALSE, n), Contract!Held(TRUE, FALSE, n + 1))
      /\ Contract!TaskStep(Contract!Loose("idle", n), Contract!Held(TRUE, FALSE, n + 1))
  BY DEF Contract!Begin, Contract!Open
<1>5. Contract!TaskStep(Contract!Loose("dead", n), Contract!Loose("idle", n))
  BY DEF Contract!Revive
<1> QED
  BY <1>1, <1>2, <1>3, <1>4, <1>5

\* A row that is written without a lease or an intent, and is not final
LEMMA LooseView ==
  ASSUME NEW r \in TaskRows, r.status \notin Final \cup {"absent", "running"},
         r.lease = 0, r.intent # "cancel"
  PROVE  View(r) = Contract!Loose(IF r.status = "dead_letter" THEN "dead" ELSE "idle", r.attempts)
<1>1. Stage(r.status) = IF r.status = "dead_letter" THEN "dead" ELSE "idle"
  BY DEF Stage
<1>2. (r.lease > 0) = FALSE
  BY SMT
<1>3. (r.intent = "cancel") = FALSE
  BY Zenon
<1>4. (IF r.status \in Final \cup {"absent"} THEN 0 ELSE r.attempts) = r.attempts
  OBVIOUS
<1> QED
  BY <1>1, <1>2, <1>3, <1>4, Zenon DEF View, Contract!Loose

LEMMA HeldView ==
  ASSUME NEW r \in TaskRows, r.status = "running"
  PROVE  View(r) = Contract!Held(r.lease > 0, r.intent = "cancel", r.attempts)
<1>1. Stage(r.status) = "held"
  BY DEF Stage
<1>2. (IF r.status \in Final \cup {"absent"} THEN 0 ELSE r.attempts) = r.attempts
  BY DEF Final
<1> QED
  BY <1>1, <1>2, Zenon DEF View, Contract!Held

\* A Task that has no row yet, or one that was never claimed
LEMMA NewView ==
  ASSUME NEW r, r.status = "absent" \/ (r.status = "queued" /\ r.attempts = 0),
         r.lease = 0, r.intent = "none"
  PROVE  View(r) = Contract!New
<1>1. Stage(r.status) = "idle"
  BY DEF Stage, Final
<1>2. (r.lease > 0) = FALSE
  BY SMT
<1>3. (r.intent = "cancel") = FALSE
  BY SMT
<1>4. (IF r.status \in Final \cup {"absent"} THEN 0 ELSE r.attempts) = 0
  BY SMT
<1> QED
  BY <1>1, <1>2, <1>3, <1>4, Zenon DEF View, Contract!New, Contract!Loose

\* A row that is left for a final status
LEMMA GoneView ==
  ASSUME NEW r \in TaskRows, NEW status \in Final
  PROVE  View(Left(r, status)) = Contract!Gone
<1> DEFINE q == Left(r, status)
<1>1. q.status = status /\ q.lease = 0 /\ q.intent = "none"
  BY DEF Left, Unleased, TaskRows
<1> HIDE DEF q
<1>2. Stage(q.status) = "ended"
  BY <1>1 DEF Stage, Final
<1>3. (q.lease > 0) = FALSE
  BY <1>1, SMT
<1>4. (q.intent = "cancel") = FALSE
  BY <1>1, SMT
<1>5. (IF q.status \in Final \cup {"absent"} THEN 0 ELSE q.attempts) = 0
  BY <1>1, SMT
<1>6. View(q) = Contract!Gone
  BY <1>2, <1>3, <1>4, <1>5, Zenon DEF View, Contract!Gone, Contract!Loose
<1> QED
  BY <1>6 DEF q

LEMMA EndMoves ==
  ASSUME NEW r \in TaskRows, r.status \in Active, NEW status \in Final
  PROVE  Moves(r, Left(r, status))
<1>1. View(Left(r, status)) = Contract!Gone
  BY GoneView
<1>2. View(r).state \in {"idle", "held"}
  BY DEF View, Stage, Active, Final
<1> QED
  BY <1>1, <1>2 DEF Moves, Contract!TaskStep, Contract!End

\* An attempt ends without a cancel pending, and the Task is not final.
LEMMA ReleaseMoves ==
  ASSUME NEW r \in TaskRows, r.status = "running", r.intent # "cancel",
         NEW s \in TaskRows, s.status \in {"queued", "paused", "blocked", "dead_letter"},
         s.lease = 0, s.intent # "cancel", s.attempts = r.attempts
  PROVE  Moves(r, s)
<1>1. View(r) = Contract!Held(r.lease > 0, FALSE, r.attempts)
  <2>1. (r.intent = "cancel") = FALSE
    BY Zenon
  <2> QED
    BY <2>1, HeldView, Zenon
<1>2. View(s) = Contract!Loose("idle", r.attempts) \/ View(s) = Contract!Loose("dead", r.attempts)
  BY LooseView DEF Final
<1> QED
  BY <1>1, <1>2, ContractSteps, Zenon DEF Moves

LEMMA LeftMoves ==
  ASSUME NEW r \in TaskRows, r.status = "running", r.intent # "cancel",
         NEW status \in {"paused", "blocked", "dead_letter", "completed", "failed"}
  PROVE  Moves(r, Left(r, status))
<1>1. CASE status \in Final
  BY <1>1, EndMoves DEF Active
<1>2. CASE status \notin Final
  <2>1. /\ Left(r, status) \in TaskRows /\ Left(r, status).status = status
        /\ Left(r, status).lease = 0 /\ Left(r, status).intent = "none"
        /\ Left(r, status).attempts = r.attempts
    BY LeftType DEF Left, Unleased, TaskRows, TaskStatuses, Active, Final
  <2> QED
    BY <1>2, <2>1, ReleaseMoves DEF Final
<1> QED
  BY <1>1, <1>2

LEMMA QueuedFields ==
  ASSUME NEW r \in TaskRows, NEW delay \in Nat
  PROVE  /\ Queued(r, delay) \in TaskRows /\ Queued(r, delay).status = "queued"
         /\ Queued(r, delay).lease = 0 /\ Queued(r, delay).intent = r.intent
         /\ Queued(r, delay).attempts = r.attempts
BY QueuedType DEF Queued, Unleased, TaskRows

LEMMA QueuedMoves ==
  ASSUME NEW r \in TaskRows, Fits(r), NEW delay \in Nat, r.intent = "none",
         r.status \in {"running", "paused", "blocked", "dead_letter"}
  PROVE  Moves(r, Queued(r, delay))
<1>1. CASE r.status = "running"
  BY <1>1, QueuedFields, ReleaseMoves
<1>2. CASE r.status # "running"
  <2>1. View(Queued(r, delay)) = Contract!Loose("idle", r.attempts)
    BY QueuedFields, LooseView DEF Final
  <2>2. View(r) = Contract!Loose(IF r.status = "dead_letter" THEN "dead" ELSE "idle", r.attempts)
    BY <1>2, LooseView DEF Fits, Final
  <2> QED
    BY <2>1, <2>2, ContractSteps, SameMoves DEF Moves
<1> QED
  BY <1>1, <1>2

LEMMA SettledMoves ==
  ASSUME NEW r \in TaskRows, r.status = "running" PROVE Moves(r, SettledRow(r))
BY EndMoves, LeftMoves DEF SettledRow, Active, Final

LEMMA RecoveredMoves ==
  ASSUME NEW r \in TaskRows, Fits(r) PROVE Moves(r, RecoveredRow(r))
<1>1. CASE Expired(r) /\ r.intent = "none"
  BY <1>1, LeftMoves, QueuedMoves DEF RecoveredRow, Expired
<1>2. CASE ~(Expired(r) /\ r.intent = "none")
  BY <1>2, SameMoves, SettledMoves DEF RecoveredRow, Expired
<1> QED
  BY <1>1, <1>2

\* A claim, with the recovery it begins with
LEMMA ClaimedMoves ==
  ASSUME NEW r \in TaskRows, Fits(r), Ready(RecoveredRow(r)), NEW o \in Owners
  PROVE  Moves(r, Claimed(RecoveredRow(r), o))
<1> DEFINE q == RecoveredRow(r)
<1>1. \/ r.status = "queued" /\ q = r
      \/ r.status = "running" /\ r.lease = 0 /\ r.intent = "none" /\ q = Queued(r, 0)
  BY DEF RecoveredRow, Expired, Ready, SettledRow, Left, Unleased
<1>2. q \in TaskRows /\ q.attempts = r.attempts /\ q.intent = "none" /\ q.status = "queued"
  BY <1>1, QueuedFields DEF Fits
<1>3. \/ View(r) = Contract!Loose("idle", r.attempts)
      \/ View(r) = Contract!Held(FALSE, FALSE, r.attempts)
  <2>1. CASE r.status = "queued"
    BY <2>1, LooseView DEF Fits, Final
  <2>2. CASE r.status = "running" /\ r.lease = 0 /\ r.intent = "none"
    <3>1. (r.lease > 0) = FALSE /\ (r.intent = "cancel") = FALSE
      BY <2>2, SMT
    <3> QED
      BY <2>2, <3>1, HeldView, Zenon
  <2> QED
    BY <1>1, <2>1, <2>2
<1> HIDE DEF q
<1>4. /\ Claimed(q, o) \in TaskRows /\ Claimed(q, o).status = "running"
      /\ Claimed(q, o).lease > 0 /\ Claimed(q, o).intent = "none"
      /\ Claimed(q, o).attempts = r.attempts + 1
  <2>1. Claimed(q, o) \in TaskRows
    BY <1>2, ClaimedType
  <2>2. /\ Claimed(q, o).status = "running" /\ Claimed(q, o).lease = LeaseTicks
        /\ Claimed(q, o).intent = q.intent /\ Claimed(q, o).attempts = q.attempts + 1
    BY <1>2 DEF Claimed, TaskRows
  <2>3. LeaseTicks > 0
    BY NumbersAssumption
  <2> HIDE DEF Claimed
  <2> QED
    BY <1>2, <2>1, <2>2, <2>3
<1>5. View(Claimed(q, o)) = Contract!Held(TRUE, FALSE, r.attempts + 1)
  <2>1. (Claimed(q, o).lease > 0) = TRUE /\ (Claimed(q, o).intent = "cancel") = FALSE
    BY <1>4, SMT
  <2> QED
    BY <1>4, <2>1, HeldView, Zenon
<1>6. Moves(r, Claimed(q, o))
  BY <1>3, <1>5, ContractSteps, Zenon DEF Moves
<1> QED
  BY <1>6 DEF q

AllMove == \A t \in Tasks : Moves(task[t], task'[t])

LEMMA OneRowMoves ==
  ASSUME TypeOK, NEW t \in Tasks, NEW r, Moves(task[t], r), task' = [task EXCEPT ![t] = r]
  PROVE  AllMove
<1>1. \A u \in Tasks : task'[u] = IF u = t THEN r ELSE task[u]
  BY DEF TypeOK
<1> QED
  BY <1>1, SameMoves DEF AllMove

LEMMA RecoveryMoves ==
  ASSUME TypeOK, RowsInv, ReadyTasks
         \/ (\E o \in Owners, t \in Tasks : ClaimTaskById(o, t))
         \/ \E o \in Owners, x \in Executors, e \in SUBSET Sessions : ClaimTask(o, x, e)
  PROVE  AllMove
<1>1. \A t \in Tasks : /\ task[t] \in TaskRows /\ Fits(task[t])
                       /\ RecoveredTasks[t] = RecoveredRow(task[t])
  BY DEF TypeOK, RowsInv, RowInv, Fits, RecoveredTasks
<1>2. CASE task' = RecoveredTasks
  BY <1>1, <1>2, RecoveredMoves DEF AllMove
<1>3. ASSUME NEW o \in Owners, NEW t \in Tasks, Ready(RecoveredTasks[t]),
             task' = [RecoveredTasks EXCEPT ![t] = Claimed(@, o)]
      PROVE  AllMove
  <2>1. \A u \in Tasks : task'[u] = IF u = t THEN Claimed(RecoveredRow(task[t]), o)
                                    ELSE RecoveredRow(task[u])
    BY <1>1, <1>3 DEF RecoveredTasks
  <2>2. Moves(task[t], Claimed(RecoveredRow(task[t]), o))
    BY <1>1, <1>3, ClaimedMoves
  <2> QED
    BY <1>1, <2>1, <2>2, RecoveredMoves DEF AllMove
<1>4. ReadyTasks => task' = RecoveredTasks
  BY DEF ReadyTasks
<1>5. ASSUME NEW o \in Owners, NEW t \in Tasks, ClaimTaskById(o, t) PROVE AllMove
  BY <1>2, <1>3, <1>5 DEF ClaimTaskById
<1>6. ASSUME NEW o \in Owners, NEW x \in Executors, NEW e \in SUBSET Sessions, ClaimTask(o, x, e)
      PROVE  AllMove
  <2>1. \/ task' = RecoveredTasks
        \/ \E t \in Tasks : /\ Ready(RecoveredTasks[t])
                            /\ task' = [RecoveredTasks EXCEPT ![t] = Claimed(@, o)]
    BY <1>6 DEF ClaimTask, Candidates
  <2> QED
    BY <1>2, <1>3, <2>1
<1> QED
  BY <1>2, <1>4, <1>5, <1>6

LEMMA TickMoves == ASSUME TypeOK, RowsInv, Tick PROVE AllMove
<1> SUFFICES ASSUME NEW t \in Tasks PROVE Moves(task[t], task'[t])
  BY DEF AllMove
<1> DEFINE r == task[t]
           s == task'[t]
<1>1. r \in TaskRows /\ Fits(r)
  BY DEF TypeOK, RowsInv, RowInv, Fits
<1>2. /\ s \in TaskRows /\ s.status = r.status /\ s.intent = r.intent /\ s.attempts = r.attempts
      /\ s.lease = Greatest(r.lease - 1, 0)
  <2>1. s = [r EXCEPT !.lease = Greatest(@ - 1, 0), !.delay = Greatest(@ - 1, 0)]
    BY DEF Tick
  <2> HIDE DEF r, s
  <2> QED
    BY <1>1, <2>1, CountdownType DEF TaskRows
<1> HIDE DEF r, s
<1>3. ASSUME s.lease > 0 <=> r.lease > 0 PROVE Moves(r, s)
  <2>1. Alike(r, s)
    BY <1>2, <1>3, Zenon DEF Alike
  <2> QED
    BY <2>1, SameMoves, AlikeMoves, Zenon
<1>4. ASSUME ~(s.lease > 0 <=> r.lease > 0) PROVE Moves(r, s)
  <2>1. r.lease # 0 /\ s.lease = 0
    BY <1>1, <1>2, <1>4 DEF Greatest, TaskRows
  <2>2. r.status = "running"
    BY <1>1, <2>1 DEF Fits
  <2>3. (s.lease > 0) = FALSE /\ s.status = "running"
    BY <1>2, <2>1, <2>2, SMT
  <2>4. /\ View(r) = Contract!Held(r.lease > 0, r.intent = "cancel", r.attempts)
        /\ View(s) = Contract!Held(FALSE, r.intent = "cancel", r.attempts)
    BY <1>1, <1>2, <2>2, <2>3, HeldView, Zenon
  <2>5. PICK l, c : /\ View(r) = Contract!Held(l, c, r.attempts)
                    /\ View(s) = Contract!Held(FALSE, c, r.attempts)
    BY <2>4, Zenon
  <2> QED
    BY <2>5, ContractSteps, Zenon DEF Moves
<1>5. Moves(r, s)
  BY <1>3, <1>4, Zenon
<1> QED
  BY <1>5 DEF r, s

LEMMA CommandMoves ==
  ASSUME TypeOK, RowsInv, NEW t \in Tasks,
         PauseTask(t) \/ CancelTask(t) \/ ResumeTask(t) \/ RetryDeadLetterTask(t)
  PROVE  AllMove
<1>1. task[t] \in TaskRows /\ Fits(task[t])
  BY DEF TypeOK, RowsInv, RowInv, Fits
<1>2. ASSUME NEW r, Moves(task[t], r), task' = [task EXCEPT ![t] = r] PROVE AllMove
  BY <1>2, OneRowMoves
<1>3. ASSUME NEW i \in {"pause", "cancel"}, RequestControl(t, i) PROVE AllMove
  <2> DEFINE s == [task[t] EXCEPT !.intent = i]
  <2>1. /\ s \in TaskRows /\ s.status = "running" /\ s.lease = task[t].lease /\ s.intent = i
        /\ s.attempts = task[t].attempts
        /\ task[t].status = "running" /\ task[t].intent # "cancel"
    BY <1>1, <1>3, IntentType DEF RequestControl, TaskRows, Intents
  <2>2. task' = [task EXCEPT ![t] = s]
    BY <1>3 DEF RequestControl
  <2> HIDE DEF s
  <2>3. (task[t].intent = "cancel") = FALSE
    BY <2>1, Zenon
  <2>4. Moves(task[t], s)
    <3>1. PICK l : /\ View(task[t]) = Contract!Held(l, FALSE, task[t].attempts)
                   /\ View(s) = Contract!Held(l, i = "cancel", task[t].attempts)
      BY <1>1, <2>1, <2>3, HeldView, Zenon
    <3>2. CASE i = "cancel"
      <4>1. (i = "cancel") = TRUE
        BY <3>2, SMT
      <4>2. View(s) = Contract!Held(l, TRUE, task[t].attempts)
        BY <3>1, <4>1, Zenon
      <4>3. Contract!TaskStep(Contract!Held(l, FALSE, task[t].attempts),
                              Contract!Held(l, TRUE, task[t].attempts))
        BY ContractSteps, Zenon
      <4> QED
        BY <3>1, <4>2, <4>3, Zenon DEF Moves
    <3>3. CASE i # "cancel"
      <4>1. (i = "cancel") = FALSE
        BY <3>3, Zenon
      <4> QED
        BY <3>1, <4>1, Zenon DEF Moves, Contract!TaskStep
    <3> QED
      BY <3>2, <3>3
  <2> QED
    BY <1>2, <2>2, <2>4
<1>4. CASE PauseTask(t)
  <2>1. CASE task[t].status = "queued" /\ task' = [task EXCEPT ![t] = Left(@, "paused")]
    <3>1. /\ Left(task[t], "paused") \in TaskRows /\ Left(task[t], "paused").status = "paused"
          /\ Left(task[t], "paused").lease = 0 /\ Left(task[t], "paused").intent = "none"
          /\ Left(task[t], "paused").attempts = task[t].attempts
      BY <1>1, LeftType DEF Left, Unleased, TaskRows, TaskStatuses, Active
    <3>2. View(Left(task[t], "paused")) = Contract!Loose("idle", task[t].attempts)
      BY <3>1, LooseView DEF Final
    <3>3. View(task[t]) = Contract!Loose("idle", task[t].attempts)
      BY <1>1, <2>1, LooseView DEF Fits, Final
    <3>4. Moves(task[t], Left(task[t], "paused"))
      BY <3>2, <3>3 DEF Moves, Contract!TaskStep
    <3> QED
      BY <1>2, <2>1, <3>4
  <2> QED
    BY <1>3, <1>4, <2>1 DEF PauseTask
<1>5. CASE CancelTask(t)
  <2>1. CASE /\ task[t].status \in {"queued", "paused", "blocked"}
             /\ task' = [task EXCEPT ![t] = Left(@, "cancelled")]
    BY <1>1, <1>2, <2>1, EndMoves DEF Active, Final
  <2> QED
    BY <1>3, <1>5, <2>1 DEF CancelTask
<1>6. CASE ResumeTask(t)
  BY <1>1, <1>2, <1>6, QueuedMoves DEF ResumeTask, Fits
<1>7. CASE RetryDeadLetterTask(t)
  <2>1. Moves(task[t], Queued(task[t], 0))
    BY <1>1, <1>7, QueuedMoves DEF RetryDeadLetterTask, Fits
  <2>2. Alike(Queued(task[t], 0), [Queued(task[t], 0) EXCEPT !.maxAttempts = task[t].attempts + 1])
    BY <1>1 DEF Alike, Queued, Unleased, TaskRows
  <2> QED
    BY <1>2, <1>7, <2>1, <2>2, AlikeMoves DEF RetryDeadLetterTask
<1> QED
  BY <1>4, <1>5, <1>6, <1>7

\* The holder of the lease: a renewal, and every way an attempt ends
LEMMA HolderMoves ==
  ASSUME TypeOK, RowsInv, NEW o \in Owners, NEW t \in Tasks,
         \/ RenewTaskLease(o, t) \/ (\E s \in Sessions : BindRunningTaskSession(o, t, s))
         \/ \E a \in Attempts \cup {NoAttempt} : OwnerStep(o, t, a)
  PROVE  AllMove
<1>1. task[t] \in TaskRows /\ Fits(task[t])
  BY DEF TypeOK, RowsInv, RowInv, Fits
<1>2. ASSUME NEW r, Moves(task[t], r), task' = [task EXCEPT ![t] = r] PROVE AllMove
  BY <1>2, OneRowMoves
<1>3. LeasedUncontrolled(o, t) => /\ task[t].status = "running" /\ task[t].lease > 0
                                  /\ task[t].intent = "none"
  BY DEF LeasedUncontrolled, Leased
<1>4. CASE RenewTaskLease(o, t)
  <2>1. Alike(task[t], [task[t] EXCEPT !.lease = LeaseTicks])
    BY <1>1, <1>3, <1>4, NumbersAssumption DEF RenewTaskLease, Alike, TaskRows
  <2>2. Moves(task[t], [task[t] EXCEPT !.lease = LeaseTicks])
    BY <2>1, SameMoves, AlikeMoves, Zenon
  <2>3. task' = [task EXCEPT ![t] = [task[t] EXCEPT !.lease = LeaseTicks]]
    BY <1>4 DEF RenewTaskLease
  <2> QED
    BY <1>2, <2>2, <2>3
<1>5. ASSUME NEW s \in Sessions, BindRunningTaskSession(o, t, s) PROVE AllMove
  <2>1. Alike(task[t], [task[t] EXCEPT !.session = s])
    BY <1>1 DEF Alike, TaskRows
  <2>2. Moves(task[t], [task[t] EXCEPT !.session = s])
    BY <2>1, SameMoves, AlikeMoves, Zenon
  <2>3. task' = [task EXCEPT ![t] = [task[t] EXCEPT !.session = s]]
    BY <1>5 DEF BindRunningTaskSession
  <2> QED
    BY <1>2, <2>2, <2>3
<1>6. ASSUME NEW a \in Attempts \cup {NoAttempt}, SettleTaskControl(o, t, a) PROVE AllMove
  BY <1>1, <1>2, <1>6, SettledMoves DEF SettleTaskControl
<1>7. ASSUME NEW a \in Attempts \cup {NoAttempt}, NEW report, Complete(o, t, a, report)
      PROVE  AllMove
  <2> DEFINE reviewed == ReviewOf[t] # NoTask /\ report # "suppressed"
                         /\ task[ReviewOf[t]].status = "absent"
  <2>1. /\ LeasedUncontrolled(o, t)
        /\ task' = [u \in Tasks |-> IF u = t THEN Left(task[t], "completed")
                                    ELSE IF reviewed /\ u = ReviewOf[t] THEN NewRow(u)
                                    ELSE task[u]]
    BY <1>7 DEF Complete
  <2>2. Moves(task[t], Left(task[t], "completed"))
    BY <1>1, <1>3, <2>1, LeftMoves
  <2>3. ASSUME NEW u \in Tasks, task[u].status = "absent" PROVE Moves(task[u], NewRow(u))
    <3>1. View(task[u]) = Contract!New
      BY <2>3, NewView DEF TypeOK, TaskRows, RowsInv, RowInv
    <3>2. View(NewRow(u)) = Contract!New
      BY NewView DEF NewRow
    <3> QED
      BY <3>1, <3>2 DEF Moves, Contract!TaskStep
  <2>4. \A u \in Tasks : reviewed /\ u = ReviewOf[t] => task[u].status = "absent"
    OBVIOUS
  <2> HIDE DEF reviewed
  <2> QED
    BY <2>1, <2>2, <2>3, <2>4, SameMoves DEF AllMove
<1>8. ASSUME NEW a \in Attempts \cup {NoAttempt}, NEW status \in {"failed", "dead_letter"},
             NEW deliver \in BOOLEAN, CompleteUnaccepted(o, t, a, status, deliver)
      PROVE  AllMove
  BY <1>1, <1>2, <1>3, <1>8, LeftMoves DEF CompleteUnaccepted
<1>9. ASSUME NEW a \in Attempts \cup {NoAttempt}, NEW deliver \in BOOLEAN, BlockTask(o, t, a, deliver)
      PROVE  AllMove
  BY <1>1, <1>2, <1>3, <1>9, LeftMoves DEF BlockTask
<1>10. ASSUME NEW a \in Attempts \cup {NoAttempt}, RequeueTask(o, t, a) PROVE AllMove
  BY <1>1, <1>2, <1>3, <1>10, QueuedMoves DEF RequeueTask
<1>11. ASSUME NEW a \in Attempts \cup {NoAttempt}, PreemptTask(o, t, a) PROVE AllMove
  <2>1. Moves(task[t], Queued(task[t], 0))
    BY <1>1, <1>3, <1>11, QueuedMoves DEF PreemptTask
  <2>2. Alike(Queued(task[t], 0), [Queued(task[t], 0) EXCEPT !.maxAttempts = task[t].maxAttempts + 1])
    BY <1>1 DEF Alike, Queued, Unleased, TaskRows
  <2> QED
    BY <1>2, <1>11, <2>1, <2>2, AlikeMoves DEF PreemptTask
<1>12. ASSUME NEW a \in Attempts \cup {NoAttempt}, NEW kind \in FailureKinds,
              NEW limit \in RetryLimits, NEW after \in RetryAfters,
              FailTask(o, t, a, kind, limit, after)
       PROVE  AllMove
  <2> DEFINE status == FailureStatus(task[t], kind, limit)
             delay == Greatest(Backoff[task[t].attempts], after)
  <2>1. status \in {"queued", "dead_letter", "failed"}
    BY DEF FailureStatus
  <2>2. /\ LeasedUncontrolled(o, t)
        /\ task' = [task EXCEPT ![t] = IF status = "queued" THEN Queued(task[t], delay)
                                       ELSE Left(task[t], status)]
    BY <1>12 DEF FailTask
  <2>3. delay \in Nat
    <3>1. task[t].attempts \in Attempts
      <4>1. grants[t] \in 0..MaxGrants /\ task[t].attempts \in Nat
        BY <1>1 DEF TypeOK, TaskRows
      <4>2. task[t].attempts > 0 /\ task[t].attempts <= MaxAttempts + grants[t]
        BY <1>3, <2>2 DEF RowsInv, RowInv
      <4> QED
        BY <4>1, <4>2, NumbersAssumption DEF Attempts
    <3> QED
      BY <3>1, NumbersAssumption DEF Greatest
  <2> HIDE DEF status, delay
  <2>4. Moves(task[t], IF status = "queued" THEN Queued(task[t], delay) ELSE Left(task[t], status))
    BY <1>1, <1>3, <2>1, <2>2, <2>3, QueuedMoves, LeftMoves
  <2> QED
    BY <1>2, <2>2, <2>4
<1> QED
  BY <1>4, <1>5, <1>6, <1>7, <1>8, <1>9, <1>10, <1>11, <1>12 DEF OwnerStep

LEMMA NextMoves == TypeOK /\ RowsInv /\ [Next]_vars => AllMove
<1> SUFFICES ASSUME TypeOK, RowsInv, [Next]_vars PROVE AllMove
  OBVIOUS
<1>1. UNCHANGED task => AllMove
  BY SameMoves DEF AllMove
<1>2. ASSUME NEW t \in Tasks, Enqueue(t) PROVE AllMove
  <2>1. View(task[t]) = Contract!New
    BY <1>2, NewView DEF Enqueue, TypeOK, TaskRows, RowsInv, RowInv
  <2>2. View(NewRow(t)) = Contract!New
    BY NewView DEF NewRow
  <2>3. Moves(task[t], NewRow(t))
    BY <2>1, <2>2 DEF Moves, Contract!TaskStep
  <2> QED
    BY <1>2, <2>3, OneRowMoves DEF Enqueue
<1>3. ASSUME NEW o \in Owners, NEW t \in Tasks, BeginTaskAttempt(o, t) PROVE AllMove
  BY <1>1, <1>3 DEF BeginTaskAttempt
<1>4. ASSUME NEW o \in Owners, Crash(o) PROVE AllMove
  BY <1>1, <1>4 DEF Crash
<1>5. ASSUME NEW t \in Tasks, NEW s \in Sessions, CancelInterruptedSessionTask(t, s) PROVE AllMove
  BY <1>5, CommandMoves DEF CancelInterruptedSessionTask
<1>6. UNCHANGED vars => UNCHANGED task
  BY DEF vars
<1>7. (\E o \in Owners, t \in Tasks :
         \/ RenewTaskLease(o, t) \/ (\E s \in Sessions : BindRunningTaskSession(o, t, s))
         \/ \E a \in Attempts \cup {NoAttempt} : OwnerStep(o, t, a)) => AllMove
  BY HolderMoves
<1> QED
  BY <1>1, <1>2, <1>3, <1>4, <1>5, <1>6, <1>7, RecoveryMoves, TickMoves, CommandMoves DEF Next

LEMMA InitContract == Init => Contract!ContractInit
<1> SUFFICES ASSUME Init PROVE Contract!ContractInit
  OBVIOUS
<1>1. \A t \in Tasks : View(task[t]) = Contract!New
  BY NewView DEF Init
<1> QED
  BY <1>1 DEF Contract!ContractInit

LEMMA ContractStep == AllMove => Contract!ContractNext
<1> SUFFICES ASSUME AllMove PROVE Contract!ContractNext
  OBVIOUS
<1>1. \A t \in Tasks : Contract!TaskStep(View(task[t]), View(task'[t]))
  BY DEF AllMove, Moves
<1>2. \A t \in Tasks : /\ [u \in Tasks |-> View(task[u])][t] = View(task[t])
                       /\ [u \in Tasks |-> View(task[u])]'[t] = View(task'[t])
  OBVIOUS
<1> QED
  BY <1>1, <1>2, Zenon DEF Contract!ContractNext

\* Whoever calls the store, with whatever attempt and at whatever time, a Task is taken only
\* when it is free or its lease ran out, ends for good, and with a cancel pending only ends.
THEOREM ImplementsContract == Spec => KeepsContract
<1>1. Inv /\ [Next]_vars => Contract!ContractNext
  BY NextMoves, ContractStep DEF Inv
<1> QED
  BY <1>1, SpecInv, InitContract, PTL DEF Spec, KeepsContract, Contract!ContractSpec

=============================================================================
