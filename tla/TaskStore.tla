----------------------------- MODULE TaskStore -----------------------------
(***************************************************************************)
(* The durable task table of the MimiAgent daemon: the `tasks` and `runs`  *)
(* rows of src/src/daemon/store.ts and task-store.ts, and the owner        *)
(* notices that the same transactions insert into the outbox.              *)
(*                                                                         *)
(* Every public operation of MimiStore runs in one SQLite transaction      *)
(* (BEGIN IMMEDIATE ... COMMIT, rolled back by a throw), so each operation *)
(* is one action; an operation that throws leaves the state unchanged and  *)
(* is simply not enabled.  Callers (the dispatcher of session actors, the  *)
(* isolated workers, the supervisor, the owner's CLI) may call any         *)
(* operation at any time, with any attempt id they hold; what protects the *)
(* table is the store's own guards and nothing else.                       *)
(*                                                                         *)
(* Time is relative: `lease` and `delay` count the ticks left until        *)
(* lease_until and not_before, so "lease_until > now" is lease > 0 and     *)
(* "not_before <= now" is delay = 0, and no clock has to be bounded.       *)
(***************************************************************************)
EXTENDS Integers, Sequences, FiniteSets

CONSTANTS
  Tasks,         \* ids of the tasks that may be enqueued
  Owners,        \* lease owners: dispatcher and worker ids
  NoOwner,       \* lease_owner IS NULL
  NoTask,        \* no review task
  Executors,     \* session_actor, isolated_worker, codex
  ExecutorOf,    \* the executor column of each task
  Priority,      \* the priority column of each task
  Sessions,      \* session keys
  SessionOf,     \* the session key a task is enqueued with
  Routed,        \* tasks whose event carries a reply route
  ReviewOf,      \* the review task a completed background task wakes
  LeaseTicks,    \* length of a lease
  MaxAttempts,   \* max_attempts of a new task
  RetryLimits,   \* retryLimit values callers of failTask pass
  Backoff,       \* retry delay after the n-th attempt
  RetryAfters,   \* delays a provider asks for with retryAt
  MaxGrants      \* bound: explicit extra attempts explored per task

NoAttempt == 0
Attempts == 1..(MaxAttempts + MaxGrants)

ASSUME NamesAssumption ==
  /\ IsFiniteSet(Tasks)
  /\ NoOwner \notin Owners
  /\ NoTask \notin Tasks
  /\ ExecutorOf \in [Tasks -> Executors]
  /\ Priority \in [Tasks -> Nat]
  /\ SessionOf \in [Tasks -> Sessions]
  /\ Routed \subseteq Tasks
  /\ ReviewOf \in [Tasks -> Tasks \cup {NoTask}]

\* a review task reviews one task, and not itself
ASSUME ReviewAssumption ==
  \A t, u \in Tasks : /\ ReviewOf[t] # t
                      /\ ReviewOf[t] = ReviewOf[u] /\ ReviewOf[t] # NoTask => t = u

ASSUME NumbersAssumption ==
  /\ LeaseTicks \in Nat \ {0}
  /\ MaxAttempts \in Nat \ {0}
  /\ MaxGrants \in Nat
  /\ RetryLimits \subseteq Nat
  /\ RetryAfters \subseteq Nat
  /\ Backoff \in [Attempts -> Nat]

VARIABLES
  task,     \* the tasks table
  run,      \* the runs table: status of attempt n of task t
  notices,  \* outbox rows inserted for a task, in insertion order
  alive,    \* history: the owner processes that have not crashed
  grants    \* history: attempts granted outside the automatic budget

vars == <<task, run, notices, alive, grants>>

Active == {"queued", "running", "paused", "blocked"}
Final == {"completed", "failed", "cancelled"}
TaskStatuses == {"absent", "dead_letter"} \cup Active \cup Final
RunStatuses == {"none", "running", "completed", "failed", "interrupted"}
Intents == {"none", "pause", "cancel"}
NoticeKinds == {"completed", "failed", "dead_letter", "blocked"}
FailureKinds == {"transient", "permanent", "uncertain"}

TaskRows ==
  [status : TaskStatuses, attempts : Nat, maxAttempts : Nat,
   owner : Owners \cup {NoOwner}, lease : Nat, delay : Nat,
   intent : Intents, session : Sessions, born : Nat]

Notices == [attempt : Nat, kind : NoticeKinds]

TypeOK ==
  /\ task \in [Tasks -> TaskRows]
  /\ run \in [Tasks -> [Attempts -> RunStatuses]]
  /\ notices \in [Tasks -> Seq(Notices)]
  /\ alive \in SUBSET Owners
  /\ grants \in [Tasks -> 0..MaxGrants]

----------------------------------------------------------------------------
(* Row updates *)

Least(m, n) == IF m <= n THEN m ELSE n
Greatest(m, n) == IF m >= n THEN m ELSE n

Unleased(r) == [r EXCEPT !.owner = NoOwner, !.lease = 0]

\* not_before is only read while queued, so the countdown is dropped with the status
Left(r, status) ==
  [Unleased(r) EXCEPT !.status = status, !.delay = 0, !.intent = "none"]

Queued(r, delay) == [Unleased(r) EXCEPT !.status = "queued", !.delay = delay]

Claimed(r, o) ==
  [r EXCEPT !.status = "running", !.attempts = @ + 1, !.owner = o, !.lease = LeaseTicks]

NewRow(t) ==
  [status |-> "queued", attempts |-> 0, maxAttempts |-> MaxAttempts,
   owner |-> NoOwner, lease |-> 0, delay |-> 0, intent |-> "none",
   session |-> SessionOf[t],
   born |-> Cardinality({u \in Tasks : task[u].status # "absent"})]

\* settleRunningTaskControl: the state an accepted control intent leads to
SettledRow(r) == Left(r, IF r.intent = "cancel" THEN "cancelled" ELSE "paused")

----------------------------------------------------------------------------
(* Lease recovery, run inside every claim and inside readyTasks *)

Expired(r) == r.status = "running" /\ r.lease = 0

\* mutants of RecoveredRow: one attempt too many; controlled tasks skipped
RecoveredRowLenient(r) ==
  IF ~Expired(r) THEN r
  ELSE IF r.intent # "none" THEN SettledRow(r)
  ELSE IF r.attempts > r.maxAttempts THEN Left(r, "dead_letter")
  ELSE Queued(r, 0)

RecoveredRowUncontrolled(r) ==
  IF ~Expired(r) \/ r.intent # "none" THEN r
  ELSE IF r.attempts >= r.maxAttempts THEN Left(r, "dead_letter")
  ELSE Queued(r, 0)

RecoveredRow(r) ==
  IF ~Expired(r) THEN r
  ELSE IF r.intent # "none" THEN SettledRow(r)
  ELSE IF r.attempts >= r.maxAttempts THEN Left(r, "dead_letter")
  ELSE Queued(r, 0)

RecoveredTasks == [t \in Tasks |-> RecoveredRow(task[t])]

\* mutants of RecoveredRuns: open runs forgotten, always or when settling a control
RecoveredRunsForgotten == run

RecoveredRunsUnsettled ==
  [t \in Tasks |-> [n \in Attempts |->
     IF Expired(task[t]) /\ task[t].intent = "none" /\ run[t][n] = "running"
       THEN "interrupted" ELSE run[t][n]]]

RecoveredRuns ==
  [t \in Tasks |-> [n \in Attempts |->
     IF Expired(task[t]) /\ run[t][n] = "running" THEN "interrupted" ELSE run[t][n]]]

----------------------------------------------------------------------------
(* Fences *)

Leased(o, t) == task[t].status = "running" /\ task[t].owner = o /\ task[t].lease > 0

LeasedUncontrolled(o, t) == Leased(o, t) /\ task[t].intent = "none"

\* finishTaskAttempt: a given attempt id must be the running run of the current attempt
Finishable(t, a) ==
  a # NoAttempt => a = task[t].attempts /\ run[t][a] = "running"

Finished(t, status) ==
  [run EXCEPT ![t] = [n \in Attempts |->
     IF n = task[t].attempts /\ @[n] = "running" THEN status ELSE @[n]]]

Notify(t, kind) ==
  notices' = [notices EXCEPT ![t] = Append(@, [attempt |-> task[t].attempts, kind |-> kind])]

Granted(t) ==
  /\ grants[t] < MaxGrants
  /\ grants' = [grants EXCEPT ![t] = @ + 1]

----------------------------------------------------------------------------
Init ==
  /\ task = [t \in Tasks |->
       [status |-> "absent", attempts |-> 0, maxAttempts |-> MaxAttempts,
        owner |-> NoOwner, lease |-> 0, delay |-> 0, intent |-> "none",
        session |-> SessionOf[t], born |-> 0]]
  /\ run = [t \in Tasks |-> [n \in Attempts |-> "none"]]
  /\ notices = [t \in Tasks |-> << >>]
  /\ alive = Owners
  /\ grants = [t \in Tasks |-> 0]

\* Time passes; timers that are due stay due.
Tick ==
  /\ \E t \in Tasks : task[t].lease > 0 \/ task[t].delay > 0
  /\ task' = [t \in Tasks |-> [task[t] EXCEPT !.lease = Greatest(@ - 1, 0),
                                              !.delay = Greatest(@ - 1, 0)]]
  /\ UNCHANGED <<run, notices, alive, grants>>

\* An owner process dies; a restarted process has a fresh lease-owner id.
Crash(o) ==
  /\ alive' = alive \ {o}
  /\ alive' \notin {alive, {}}
  /\ UNCHANGED <<task, run, notices, grants>>

\* A task enters from an event; a review task only enters through Complete.
Enqueue(t) ==
  /\ task[t].status = "absent"
  /\ \A u \in Tasks : ReviewOf[u] # t
  /\ task' = [task EXCEPT ![t] = NewRow(t)]
  /\ UNCHANGED <<run, notices, alive, grants>>

Ready(r) == r.status = "queued" /\ r.delay = 0

Before(rows, t, u) ==
  \/ Priority[t] > Priority[u]
  \/ Priority[t] = Priority[u] /\ rows[t].born < rows[u].born

Candidates(rows, x, excluded) ==
  {t \in Tasks : Ready(rows[t]) /\ ExecutorOf[t] = x /\ rows[t].session \notin excluded}

\* Recovery commits also when the poll then finds nothing to claim.
ClaimTask(o, x, excluded) ==
  LET ready == Candidates(RecoveredTasks, x, excluded)
  IN /\ o \in alive
     /\ run' = RecoveredRuns
     /\ \/ ready = {} /\ task' = RecoveredTasks
        \/ \E t \in ready :
             /\ \A u \in ready : ~Before(RecoveredTasks, u, t)
             /\ task' = [RecoveredTasks EXCEPT ![t] = Claimed(@, o)]
     /\ UNCHANGED <<notices, alive, grants>>

ClaimTaskById(o, t) ==
  /\ o \in alive
  /\ run' = RecoveredRuns
  /\ task' = IF Ready(RecoveredTasks[t])
               THEN [RecoveredTasks EXCEPT ![t] = Claimed(@, o)]
               ELSE RecoveredTasks
  /\ UNCHANGED <<notices, alive, grants>>

ReadyTasks ==
  /\ \E t \in Tasks : Expired(task[t])
  /\ task' = RecoveredTasks
  /\ run' = RecoveredRuns
  /\ UNCHANGED <<notices, alive, grants>>

\* UNIQUE(task_id, attempt_no): a second begin of the same attempt throws.
BeginTaskAttempt(o, t) ==
  /\ o \in alive
  /\ Leased(o, t)
  /\ run[t][task[t].attempts] = "none"
  /\ run' = [run EXCEPT ![t][task[t].attempts] = "running"]
  /\ UNCHANGED <<task, notices, alive, grants>>

\* mutant of RenewTaskLease: renews past a control intent
RenewControlledLease(o, t) ==
  /\ o \in alive
  /\ Leased(o, t)
  /\ task' = [task EXCEPT ![t].lease = LeaseTicks]
  /\ UNCHANGED <<run, notices, alive, grants>>

RenewTaskLease(o, t) ==
  /\ o \in alive
  /\ LeasedUncontrolled(o, t)
  /\ task' = [task EXCEPT ![t].lease = LeaseTicks]
  /\ UNCHANGED <<run, notices, alive, grants>>

BindRunningTaskSession(o, t, s) ==
  /\ o \in alive
  /\ LeasedUncontrolled(o, t)
  /\ task' = [task EXCEPT ![t].session = s]
  /\ UNCHANGED <<run, notices, alive, grants>>

----------------------------------------------------------------------------
(* Owner control *)

\* mutant of RequestControl: the last intent wins
RequestControlLast(t, intent) ==
  /\ task[t].status = "running"
  /\ task[t].intent # intent
  /\ task' = [task EXCEPT ![t].intent = intent]

\* On a running task the intent is only recorded; cancel overrides pause.
RequestControl(t, intent) ==
  /\ task[t].status = "running"
  /\ task[t].intent \notin {"cancel", intent}
  /\ task' = [task EXCEPT ![t].intent = intent]

PauseTask(t) ==
  /\ \/ RequestControl(t, "pause")
     \/ /\ task[t].status = "queued"
        /\ task' = [task EXCEPT ![t] = Left(@, "paused")]
  /\ UNCHANGED <<run, notices, alive, grants>>

\* mutant of CancelTask: cancels whatever is not running
CancelAnyTask(t) ==
  /\ \/ RequestControl(t, "cancel")
     \/ /\ task[t].status \notin {"absent", "running", "cancelled"}
        /\ task' = [task EXCEPT ![t] = Left(@, "cancelled")]
  /\ UNCHANGED <<run, notices, alive, grants>>

CancelTask(t) ==
  /\ \/ RequestControl(t, "cancel")
     \/ /\ task[t].status \in {"queued", "paused", "blocked"}
        /\ task' = [task EXCEPT ![t] = Left(@, "cancelled")]
  /\ UNCHANGED <<run, notices, alive, grants>>

\* /stop of a session: cancels a task that went back to the queue interrupted.
CancelInterruptedSessionTask(t, s) ==
  /\ task[t].session = s
  /\ task[t].status = "queued"
  /\ \E n \in Attempts : run[t][n] = "interrupted"
  /\ CancelTask(t)

\* mutant of ResumeTask: gives the interrupted attempt back
ResumeTaskRefunding(t) ==
  /\ task[t].status \in {"paused", "blocked"}
  /\ Granted(t)
  /\ task' = [task EXCEPT ![t] = [Queued(@, 0) EXCEPT !.attempts = Greatest(@ - 1, 0)]]
  /\ UNCHANGED <<run, notices, alive>>

ResumeTask(t) ==
  /\ task[t].status \in {"paused", "blocked"}
  /\ Granted(t)
  /\ task' = [task EXCEPT ![t] = Queued(@, 0)]
  /\ UNCHANGED <<run, notices, alive>>

RetryDeadLetterTask(t) ==
  /\ task[t].status = "dead_letter"
  /\ Granted(t)
  /\ task' = [task EXCEPT ![t] = [Queued(@, 0) EXCEPT !.maxAttempts = task[t].attempts + 1]]
  /\ UNCHANGED <<run, notices, alive>>

\* The holder reached a safe boundary: no lease is required, only ownership.
SettleTaskControl(o, t, a) ==
  /\ o \in alive
  /\ task[t].status = "running" /\ task[t].owner = o /\ task[t].intent # "none"
  /\ Finishable(t, a)
  /\ task' = [task EXCEPT ![t] = SettledRow(@)]
  /\ run' = Finished(t, "interrupted")
  /\ UNCHANGED <<notices, alive, grants>>

----------------------------------------------------------------------------
(* The ways an attempt ends *)

\* mutant of Complete: the outbox row is inserted before the review is looked up
CompleteReportingTwice(o, t, a, report) ==
  LET review == ReviewOf[t] # NoTask /\ report # "suppressed"
                /\ task[ReviewOf[t]].status = "absent"
  IN /\ o \in alive
     /\ LeasedUncontrolled(o, t)
     /\ Finishable(t, a)
     /\ report = "deliver" => t \in Routed
     /\ task' = [u \in Tasks |-> IF u = t THEN Left(task[t], "completed")
                                 ELSE IF review /\ u = ReviewOf[t] THEN NewRow(u)
                                 ELSE task[u]]
     /\ run' = Finished(t, "completed")
     /\ IF report = "deliver" THEN Notify(t, "completed") ELSE UNCHANGED notices
     /\ UNCHANGED <<alive, grants>>

\* report: the caller passed a delivery, none, or a result whose delivery is suppressed
Complete(o, t, a, report) ==
  LET review == ReviewOf[t] # NoTask /\ report # "suppressed"
                /\ task[ReviewOf[t]].status = "absent"
  IN /\ o \in alive
     /\ LeasedUncontrolled(o, t)
     /\ Finishable(t, a)
     /\ report = "deliver" => t \in Routed
     /\ task' = [u \in Tasks |-> IF u = t THEN Left(task[t], "completed")
                                 ELSE IF review /\ u = ReviewOf[t] THEN NewRow(u)
                                 ELSE task[u]]
     /\ run' = Finished(t, "completed")
     /\ IF report = "deliver" /\ ~review THEN Notify(t, "completed") ELSE UNCHANGED notices
     /\ UNCHANGED <<alive, grants>>

\* mutant of CompleteUnaccepted: the caller's completion payload is sent unchanged
CompleteUnacceptedUnlabelled(o, t, a, status, deliver) ==
  /\ o \in alive
  /\ LeasedUncontrolled(o, t)
  /\ Finishable(t, a)
  /\ deliver => t \in Routed
  /\ status \in {"failed", "dead_letter"}
  /\ task' = [task EXCEPT ![t] = Left(@, status)]
  /\ run' = Finished(t, "failed")
  /\ IF deliver THEN Notify(t, "completed") ELSE UNCHANGED notices
  /\ UNCHANGED <<alive, grants>>

\* A finalization the host did not accept as completed ends the task another way.
CompleteUnaccepted(o, t, a, status, deliver) ==
  /\ o \in alive
  /\ LeasedUncontrolled(o, t)
  /\ Finishable(t, a)
  /\ deliver => t \in Routed
  /\ status \in {"failed", "dead_letter"}
  /\ task' = [task EXCEPT ![t] = Left(@, status)]
  /\ run' = Finished(t, "failed")
  /\ IF deliver THEN Notify(t, status) ELSE UNCHANGED notices
  /\ UNCHANGED <<alive, grants>>

BlockTask(o, t, a, deliver) ==
  /\ o \in alive
  /\ LeasedUncontrolled(o, t)
  /\ Finishable(t, a)
  /\ task' = [task EXCEPT ![t] = Left(@, "blocked")]
  /\ run' = Finished(t, "interrupted")
  /\ IF deliver THEN Notify(t, "blocked") ELSE UNCHANGED notices
  /\ UNCHANGED <<alive, grants>>

RequeueTask(o, t, a) ==
  /\ o \in alive
  /\ LeasedUncontrolled(o, t)
  /\ Finishable(t, a)
  /\ Granted(t)
  /\ task' = [task EXCEPT ![t] = Queued(@, 0)]
  /\ run' = Finished(t, "interrupted")
  /\ UNCHANGED <<notices, alive>>

PreemptTask(o, t, a) ==
  /\ o \in alive
  /\ LeasedUncontrolled(o, t)
  /\ Finishable(t, a)
  /\ Granted(t)
  /\ task' = [task EXCEPT ![t] = [Queued(@, 0) EXCEPT !.maxAttempts = task[t].maxAttempts + 1]]
  /\ run' = Finished(t, "interrupted")
  /\ UNCHANGED <<notices, alive>>

AttemptLimit(r, retryLimit) == Greatest(1, Least(r.maxAttempts, retryLimit))

FailureStatus(r, kind, retryLimit) ==
  IF kind = "uncertain" THEN "dead_letter"
  ELSE IF kind = "permanent" THEN "failed"
  ELSE IF r.attempts >= AttemptLimit(r, retryLimit) THEN "dead_letter"
  ELSE "queued"

FailTask(o, t, a, kind, retryLimit, retryAfter) ==
  LET status == FailureStatus(task[t], kind, retryLimit)
  IN /\ o \in alive
     /\ LeasedUncontrolled(o, t)
     /\ Finishable(t, a)
     /\ task' = [task EXCEPT ![t] =
                   IF status = "queued"
                     THEN Queued(@, Greatest(Backoff[@.attempts], retryAfter))
                     ELSE Left(@, status)]
     /\ run' = Finished(t, "failed")
     /\ IF status # "queued" /\ t \in Routed THEN Notify(t, status) ELSE UNCHANGED notices
     /\ UNCHANGED <<alive, grants>>

----------------------------------------------------------------------------
OwnerStep(o, t, a) ==
  \/ SettleTaskControl(o, t, a)
  \/ \E report \in {"deliver", "none", "suppressed"} : Complete(o, t, a, report)
  \/ \E status \in {"failed", "dead_letter"}, deliver \in BOOLEAN :
       CompleteUnaccepted(o, t, a, status, deliver)
  \/ \E deliver \in BOOLEAN : BlockTask(o, t, a, deliver)
  \/ RequeueTask(o, t, a)
  \/ PreemptTask(o, t, a)
  \/ \E kind \in FailureKinds, limit \in RetryLimits, after \in RetryAfters :
       FailTask(o, t, a, kind, limit, after)

Next ==
  \/ Tick
  \/ ReadyTasks
  \/ \E o \in Owners : Crash(o)
  \/ \E t \in Tasks :
       \/ Enqueue(t)
       \/ PauseTask(t)
       \/ CancelTask(t)
       \/ ResumeTask(t)
       \/ RetryDeadLetterTask(t)
       \/ \E s \in Sessions : CancelInterruptedSessionTask(t, s)
  \/ \E o \in Owners, x \in Executors, excluded \in SUBSET Sessions :
       ClaimTask(o, x, excluded)
  \/ \E o \in Owners, t \in Tasks :
       \/ ClaimTaskById(o, t)
       \/ BeginTaskAttempt(o, t)
       \/ RenewTaskLease(o, t)
       \/ \E s \in Sessions : BindRunningTaskSession(o, t, s)
       \/ \E a \in Attempts \cup {NoAttempt} : OwnerStep(o, t, a)

Spec == Init /\ [][Next]_vars

\* Time does not stop, and the polls of dispatcher and supervisor (readyTasks,
\* claimTask) keep coming; nothing is assumed of the lease holders.
FairSpec == Spec /\ WF_vars(Tick) /\ WF_vars(ReadyTasks)

----------------------------------------------------------------------------
(* Properties *)

\* A run row is running only while its task is running that very attempt: no way
\* of leaving the running state (result, failure, control, recovery, requeue)
\* forgets the run it had open.
RunsBelongToLease ==
  \A t \in Tasks, n \in Attempts :
    run[t][n] = "running" => task[t].status = "running" /\ n = task[t].attempts

\* At most one attempt of a task ever completes, it is the last one, and the task
\* is completed with it: a late or duplicated result is never accepted next to it.
OneCompletedRun ==
  \A t \in Tasks, n \in Attempts :
    run[t][n] = "completed" => task[t].status = "completed" /\ n = task[t].attempts

\* A lease exists exactly while the task runs, and only running tasks carry a
\* control intent, so recovery sees every lease and no intent leaks into a later
\* attempt.
LeaseMatchesStatus ==
  \A t \in Tasks : LET r == task[t] IN
    /\ r.owner # NoOwner <=> r.status = "running"
    /\ r.status # "running" => r.lease = 0 /\ r.intent = "none"
    /\ r.status # "queued" => r.delay = 0

\* Automatic retries never exceed the budget: every attempt beyond max_attempts was
\* paid for by an explicit grant (owner resume or retry, preemption, stop).
AttemptBudget ==
  \A t \in Tasks : LET r == task[t] IN
    /\ r.maxAttempts \in 1..(MaxAttempts + grants[t])
    /\ r.attempts <= MaxAttempts + grants[t]
    /\ r.status = "queued" => r.attempts < MaxAttempts + grants[t]
    /\ r.status = "running" => r.attempts > 0

\* Owner notices of a task come from distinct attempts, in order: one attempt
\* reports at most once, whatever callers race to end it.
OneNoticePerAttempt ==
  \A t \in Tasks : \A i, j \in 1..Len(notices[t]) :
    i < j => notices[t][i].attempt < notices[t][j].attempt

\* A completion notice tells the truth about the final state, and a notice of
\* failure is never given for an attempt whose run completed.
NoticesTellTheTruth ==
  \A t \in Tasks : \A i \in 1..Len(notices[t]) : LET m == notices[t][i] IN
    /\ m.attempt \in 1..task[t].attempts
    /\ m.kind = "completed" => task[t].status = "completed" /\ m.attempt = task[t].attempts
    /\ m.kind # "completed" => run[t][m.attempt] # "completed"

\* The review task of a background task exists only once its source completed, and
\* then the owner hears from the review alone: never both, so no result is reported twice.
ReviewReplacesNotice ==
  \A t \in Tasks : ReviewOf[t] # NoTask /\ task[ReviewOf[t]].status # "absent" =>
    /\ task[t].status = "completed"
    /\ \A i \in 1..Len(notices[t]) : notices[t][i].kind # "completed"

\* completed, failed and cancelled are final: no late caller, recovery or owner
\* command changes the row, its runs or its notices again.
FinalIsForever ==
  [][\A t \in Tasks : task[t].status \in Final =>
       task'[t] = task[t] /\ run'[t] = run[t] /\ notices'[t] = notices[t]]_vars

\* Once a cancel was requested, the task either keeps running with the request
\* pending or is cancelled: no completion, failure, block, pause or requeue gets past it.
CancelWins ==
  [][\A t \in Tasks : task[t].intent = "cancel" =>
       \/ task'[t].status = "running" /\ task'[t].intent = "cancel"
       \/ task'[t].status = "cancelled"]_vars

\* History is frozen: once a later attempt was claimed, no stale holder of an
\* earlier attempt can change the row of that attempt.
PastAttemptsFrozen ==
  [][\A t \in Tasks, n \in Attempts : n < task[t].attempts => run'[t][n] = run[t][n]]_vars

\* A control request on a running task takes effect even if its worker never
\* cooperates: an intent stops lease renewal, so the lease runs out and recovery settles.
ControlIsHonoured ==
  \A t \in Tasks :
    /\ task[t].intent = "cancel" ~> task[t].status = "cancelled"
    /\ task[t].intent = "pause" ~> task[t].status \in {"paused", "cancelled"}

\* A task leased by a crashed process does not stay with it.
DeadOwnersLoseTasks ==
  \A t \in Tasks, o \in Owners :
    task[t].owner = o /\ o \notin alive ~> task[t].owner # o

\* The table keeps the promise of TaskContract, of which Dispatcher and Supervisor keep the
\* same with the columns they have: whoever calls, with whatever attempt.
Stage(status) ==
  IF status = "running" THEN "held" ELSE IF status = "dead_letter" THEN "dead"
  ELSE IF status \in Final THEN "ended" ELSE "idle"

View(r) ==
  [state |-> Stage(r.status), leased |-> r.lease > 0, cancel |-> r.intent = "cancel",
   attempts |-> IF r.status \in Final \cup {"absent"} THEN 0 ELSE r.attempts]

Contract == INSTANCE TaskContract WITH view <- [t \in Tasks |-> View(task[t])]

KeepsContract == Contract!ContractSpec

=============================================================================
