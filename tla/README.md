# MimiAgent: a TLA+ verification project

MimiAgent is a personal agent that runs all the time on its owner's machine. A daemon (the kernel)
takes events from the command line, messengers, schedules and connectors, turns them into durable
Tasks, runs a language model with tools on each Task, and delivers the answers. This directory
holds TLA+ models of the parts of it whose correctness depends on orders of events that a unit test
does not produce: leases and fences, crashes between two writes, retries of what may already have
happened, the owner's commands arriving in the middle of it all.

Paths are those of the checkout: `daemon/store.ts` stands for `src/src/daemon/store.ts`.

## 1. Inventory

### 1.1 The parts and how they interact

    events (CLI, connectors, schedules)
        |  insert + route, one transaction
        v
    Event intake ----> Task store <----------- Schedules (emit due occurrences)
                        |  ^   |
             claim/renew|  |end| insert notice in the same transaction
                        v  |   v
      Dispatcher / Supervisor  Outbox --claim--> Delivery coordinator --> sinks (system, connectors)
          |         |
          v         v
     Session actor  worker process
          |            |
          v            v
     Run pipeline: model + tools --> Execution ledger, commit journal, Session checkpoint
                                     (files under State-file locks)

One daemon process holds the SQLite database, the dispatcher, the outbox loop and the supervisor.
Worker processes execute background Tasks and reach the store through the daemon. Every store
operation is one `BEGIN IMMEDIATE ... COMMIT` transaction; everything across the SQLite database, the
ledger, journal and Session files is a sequence of separate writes with no common transaction.

| Component | State | Operations | What is hard | What makes it correct |
|---|---|---|---|---|
| Task store (`daemon/store.ts`, `task-store.ts`) | rows `tasks`, `runs`; notices in `outbox` | enqueue, claim, claim by id, begin, renew, bind, complete, block, fail, requeue, preempt, pause, cancel, resume, retry, settle, recover | stale holders after lease expiry; control requests racing results; several pieces of code ending an attempt | one attempt may write; runs never dangle; budget; cancel wins; one truthful notice per attempt; a dead holder loses its Task |
| Outbox and delivery (`outbox-store.ts`, `dispatcher-delivery.ts`, `notifier.ts`) | rows, remembered owner route, deliveries in flight | insert, claim, complete, fail, recover, retry, archive | the sink acts and the answer is lost; slow sinks outliving their lease; retry of what is still in flight | one effect per licence; no silent dead letter; one delivery per conversation; every row settles |
| Run commit (`run-commit-coordinator.ts`, `execution-ledger.ts`, `run-commit-journal.ts`, `core/session.ts`, end of `Dispatcher.processTask`) | ledger entries, receipt, journal phases, checkpoint, Task row | call once, receipt, session, actions, fail, reopen, finalize, complete | four stores, no transaction: a crash or failing write between any two; a second worker | no effect twice; an answer rests on a receipt; the model is not asked again; the journal only moves forward |
| Event intake and routing (`event-store.ts`, `attention.ts`, `policy.ts`) | events, dedupe keys, routing receipts, digests | insert, route, digest, flush | duplicate delivery by a connector; crash between insert and route | each event is routed once |
| Dispatcher (`dispatcher.ts`) | active Tasks and Sessions, controllers, timers | poll, claim, bind, run, preempt, abort, stop | a busy Session puts Tasks back; preemption racing results; aborts around tools in flight; stopping | one Run per Session; FIFO per Session; an abort never cuts an unrecorded effect |
| Session actors (`mimi-host.ts`) | actors, lanes, slots, reservations | execute, enqueue, switch, evict, close | eviction against a lookup; order of lanes; slots on failure | one operation per lane; bounded slots, all returned; no use of an evicted actor |
| Supervisor (`task-supervisor.ts`, `task-worker-entry.ts`) | attached workers, heartbeats, write mode | pump, launch, message, exit, stop | awaits before fork; exit, done and lease expiry racing | a writer is alone; an attempt is charged once; readers and writers do not starve |
| Schedules (`schedule-store.ts`, `cron.ts`) | schedules, outstanding occurrence | create, update, wake, emit, record, remove | compare-and-set on time; removal with an occurrence running | one outstanding occurrence; nothing fires after removal |
| State files (`core/state-file.ts`) | lock files, reap gates, temporary files | acquire, reap, release, write | owners that die at any step, reapers that die too | mutual exclusion; a dead owner's lock is freed |
| Provider reliability (`provider-reliability.ts`, `run-service.ts`) | circuit state, probe | acquire, success, failure, cancel, failover | results of earlier calls; streams that end another way | at most one probe; a probe is always given back |
| Team (`core/team.ts`, `extensions/team.ts`) | task graph, claims | create, claim, renew, complete, wave | dependency order, lost leases, an interrupted wave | a task runs after its dependencies and once |
| Memory compilation (`compilation-coordinator.ts`, `sqlite-catalog.ts`) | jobs, page writes, revisions, receipts | plan, apply, commit, recover | crash between page, index, revision and receipt | a job is applied once or given up whole |
| File change journal (`file-change-journal.ts`) | prepared and committed snapshots | prepare, commit, undo | undo of a partly changed set | undo restores what the Run changed |
| Connectors (`connectors.ts`) | child processes, pending requests | ingest, deliver, action, reload | acknowledgement against timeout; crash before acknowledgement | an event is stored once; a late answer changes nothing |

The remaining parts (clients and IPC, context selection, completion gate, providers, MCP and skills,
computer control, speech, backup, lifecycle, live events) are listed with their reasons in
`PROJECT.json`; they are mostly I/O, presentation or data.

### 1.2 Hazards

`PROJECT.json` lists every hazard at the line where it bites, with the properties that cover it. Two
have no property and say why: the leaked half-open probe of the circuit breaker
(`run-service.ts:299`) and the wave of a Team that is interrupted after its claims (`team.ts:317`).

## 2. Modules

| Module | Models | Checked by | Proved in |
|---|---|---|---|
| `TaskContract` | what the Task table promises of one Task, abstractly | no run of its own: `KeepsContract` of `TaskStore`, `Dispatcher` and `Supervisor` is proved | `TaskStoreProofs`, `DispatcherProofs`, `SupervisorProofs` |
| `TaskStore` | the Task store | `MCTaskStore`, 2 configurations | `TaskStoreProofs` |
| `DeliveryContract` | what the outbox promises, abstractly | as a property of `Outbox` | `OutboxProofs` (refinement) |
| `Outbox` | outbox rows, deliveries, sinks | `MCOutbox`, 1 configuration | `OutboxProofs` |
| `RunCommit` | executing and committing one Task across the stores | `MCRunCommit`, 3 configurations | `RunCommitProofs` |
| `StateFile` | one JSON file shared by processes, its lock and reap gate | `MCStateFile`, 1 configuration | `StateFileProofs` |
| `Dispatcher` | claiming, Sessions, preemption, aborts and stopping of conversation Tasks | `MCDispatcher`, 1 configuration | `DispatcherProofs` |
| `Supervisor` | the pump, the workers it forks, Codex runners | `MCSupervisor`, 1 configuration | `SupervisorProofs` |
| `MemoryCompilation` | compiling one Memory page by several processes | `MCMemoryCompilation`, 2 configurations | `MemoryCompilationProofs` |
| `Schedules` | one schedule and the occurrences it emits | `MCSchedules`, 1 configuration | `SchedulesProofs` |

The `MC...` modules only give constants. Operators whose comment says "mutant of" or "Variant" are
plausible bugs (a dropped guard, a swapped order); none is used by a specification. Replacing the named
definition by its mutant makes TLC refute the property the mutant belongs to, which shows the property
depends on the code.

`Dispatcher`, `Supervisor` and `Schedules` carry their own reduced Task rows instead of an instance of
`TaskStore`: what they ask of the store (claim, put back, settle, recover) is a handful of transactions,
and the product with all callers of `TaskStore` would leave no room for the component itself. Each of
those transactions is mapped to the same lines of `store.ts` as in `TaskStore`, reduced to the columns
the component reads. What makes the reduction safe is `TaskContract`: an attempt begins only when the
Task is free or the lease before it ran out, a lease that ran out is not revived, a Task told to cancel
only ends, and an end is final. `TaskStore` implements it for any caller, and so do the reduced rows of
`Dispatcher` and `Supervisor`, each through a `View` of its own columns (section 4).

### 2.1 TaskStore

`task[t]` is the row of a Task: status, attempt count and limit, lease owner, control intent, Session,
and the rank of its creation. `lease` and `delay` are the ticks left until `lease_until` and
`not_before`, so no clock has to be bounded. `run[t][n]` is the `runs` row of attempt n, `notices[t]`
the outbox rows inserted for the Task. `alive` and `grants` are history: which owner processes have
not crashed, and how many attempts were granted outside the automatic budget.

Each public operation of `MimiStore` is one action, because it is one transaction. What a transaction
calls belongs to the action: `ClaimTask`, `ClaimTaskById` and `ReadyTasks` run lease recovery first
(`RecoveredTasks`, `RecoveredRuns`), and recovery commits even when nothing can be claimed;
`Complete` inserts the review Task or the notice; `FailTask` chooses the next status and inserts the
notice. An operation that throws is rolled back and so is not enabled. The callers are free: any
live owner may call any operation with any attempt id. What protects the table is the store's own
fences (`Leased`, `LeasedUncontrolled`, `Finishable`).

### 2.2 Outbox and DeliveryContract

A row `<<p, 0>>` is a posted message, `<<p, k>>` the system notice of its k-th dead letter. A licence
is the permission to have the outside effect once: the insertion and each explicit owner retry.
`Claim` is `OutboxStore.claim` with the recovery it starts with and the coordinator's bookkeeping, which
happens without giving up control. `flight` is the coordinator's open delivery, `stray` a request
nobody waits for any more (after a timeout or a daemon crash) and that the sink may still act on.
The sinks answer as `notifier.ts` and `connectors.ts` classify it: done, or a failure that is retryable,
permanent or uncertain. A definite failure means the sink did not act; an uncertain one says nothing.
The write of the answer may itself fail (`stored = FALSE`).

`DeliveryContract` has three variables, the licences, effects and reports of a message, and none of
the machinery. `Outbox` implements it under the mapping at the end of `Outbox.tla`.

### 2.3 RunCommit

One durable Task, the workers that may execute it, and the stores they write: `ledger` (the entries of
tool calls), `receipt`, `action` (the entry of the Run's runtime action), `journal` (phase and plan
per Run), `session` (the checkpoint) and `task`. `worker[w].at` is the place between two awaits of
`MimiHost.execute`, `RunCommitCoordinator.complete`/`fail`/`reconcile` and the end of
`Dispatcher.processTask`; each action is what happens up to the next await, and `WriteFails`,
`ReopenFails`, `FinalizeFails`, `Crash` and `NoticeLost` may happen at those places.

A tool call takes three steps: `InvokeTool` claims the entry, `Act` has the effect, `RecordTool` stores
the result. A process may die between any of them, and operations in flight survive a stopped model
in the same process. `RecoverExpired` is free once the holder is gone or noticed its loss, else it
costs a `stall`: a process that is alive but has not noticed. Once the catch block has taken one of its
branches (`after = "end"`) neither matters any more, so it is not heard there and the lease, which an
intent forbids to renew, lapses freely. `EventKeyed` says whether the execution key
starts with `event:` (migrated Tasks) or `task:` (all others, `dispatcher.ts:483-485`): retention
treats them differently.

What a process was told by the owner, `told`, is its own: it hears of a cancel or a pause from a message
or by looking at the row (`HearControl`, `Requested`), whoever holds the Task by then, and keeps it. The
catch block is not fenced by the lease: a process that did not notice its loss (`CaughtLost` is only the
one that did) settles the control, which the store fences (`ControlSettled`), and clears or reopens the
ledger all the same, which nothing fences (`CaughtCancel`, `CaughtPause`).

`early` is history. It counts the clears of the ledger that came too early, each by a circumstance that
the code allows: the process that cleared it to complete the Task did not, because it died, lost its lease or was
refused (`cleared`, `ClearedInVain`); it no longer held the Task and another attempt may follow, or another
process was still before the end of its Run (`TooEarly`); the retention passed (`Prune`). Each circumstance
is needed: without any one of them TLC finds a repeated effect within the bounds of `RunCommit_crash`.
`EffectsAccounted` says that nothing else lets an effect repeat, and that a Task with no crash, no lost lease,
no owner command and no ageing has no such clear, failing writes and all. It bounds what the code repeats
in the hazards at `dispatcher.ts:767` and `:804` and `execution-ledger.ts:679`; it does not say that they do
not happen. It would fail if the ledger were cleared in a circumstance that is not named, such as at
the end of a Run that became a dead letter (its mutant).

### 2.4 StateFile

The processes that update one file through `AtomicJsonStore`. `at[p]` is the await a process is at, from
opening the lock to removing it; `lock` and `gate` are the two lock files (owner, whether the metadata
has been written, whether the file has grown old without it), `file` the JSON file as the set of
processes whose change it holds, `marker` the corruption marker, `view` what a process read.
`Acquire(p)` is the whole of `acquireLock` and the eviction of a dead lock behind the gate, one step per
await; `Update(p)` what happens under the lock. Removals are by name: they remove whatever file has the
name by then, which is where two processes that both compared a dead gate meet.

An inspection reads the lock and its age by two calls that race (`state-file.ts:221`). `ReadSource` and
`StatLock` are these two, in either order and with anything between them, so metadata and age may be of two
files; `source` and `stamp` hold what they saw, and `fresh` whether the file that was looked at first still has
the name. `Judge` decides from them, and time passes over a file without metadata, or between the reads and the
judgement (`AgeLock`, `AgeStamp`). The two reads of the *gate* are one step: `removeObservedLock` compares
the inode and the token or the times again before it removes, so a mixture of two gates removes nothing.
A release that fails leaves the lock of a live process behind (`ReleaseFails`).

`gateDeaths`, `stalls` and `misjudged` are history: they mark the three circumstances in which a removal
can miss (section 5): a process died while its gate existed; the empty lock file of a live process, or what an
inspection had read of it, passed for five seconds old; an inspection evicted by what it had read of a lock
that was replaced meanwhile. `ExclusiveUpdates` says these are the only three. The third needs neither a death
at the gate nor a delay: TLC finds it within the bounds of `StateFile_locks` when the excuse is dropped.

### 2.5 Dispatcher

One JavaScript thread, so a step ends at an await or at the end of a timer or event callback. `exec[t]`
is the active execution of a Task: its place in `runTask` (resolving the workspace, running, finalizing,
closing), why it was aborted, the Tools in flight, what it makes give way and whether its lease was lost.
`busy` is `activeSessions`, `reserved` is `reservedPreemptions`, and `row` what the store keeps. The
Session of a Task may be known at its enqueueing or only once the workspace is resolved, so two claimed
Tasks may turn out to be of one Session: the second is put back. Events: claims up to the limit, an
urgent or correcting Task that makes a Run give way, a lost lease, silence, a cancel with Tools in flight,
a Tool's answer, stop and forced stop, death and restart of the kernel. `victims` is history: the Runs
aborted for a Task since it left the queue.

### 2.6 Supervisor

`proc[p]` is a process and the kernel's record of it: booting, ready, running, gone; attached, closing,
detached, or an orphan of an earlier kernel. The pump picks the Tasks that may share the workspace and
`launching` is the set of those it has still to fork, because each launch awaits the model route: commands, exits,
messages and a stop fall between. A mimi worker starts, claims, runs and reports; a Codex runner claims
first, then detaches and outlives the kernel. A worker whose result the store refuses because its lease is
lost ends in an error: if its Task is in the queue again it claims and fails it, which costs an attempt
(`Refused`). `stop` signals every worker it finds attached, also one that detaches meanwhile, and waits for
their exits (`Awaited`). Faults are crashes, hangs, late renewals, commands, the death of the kernel and a
missing dependency, counted together by `MaxFaults`; stops are counted apart by `MaxStops`, so a stop meets
a worker that hangs.

### 2.7 MemoryCompilation

A job is one attempt to compile a page; its text carries timestamps, so the page is named by the job
that wrote it. The steps are those of `prepare`, the vault's write, `commit` and `fail`, and of
`recover`, which every process runs when it starts, over the jobs it found applying. `page` is the file,
`revs`, `current`, `row` and `receipt` the catalog, `writes` the history of renames. A process may die at
any step and recover; several may do so at once, and judge jobs whose process is alive. The lock of the page
may fail to be released after the rename (`ReleaseFails`): the write then throws and its caller records a
plain failure of a page that was written. `kept` is the history of these jobs, the one exception in
`ReceiptsTellTheTruth`.

### 2.8 Schedules

One row (`kind`, `on`, `due`) with its edits, wakes, emission and removal, and its occurrences with their Task
statuses, of which completed, failed and cancelled are one, `ended`. `current` says whether an occurrence still carries the text a new one would get, `mayEnd`
whether its Run was given the tool that ends the schedule. The clock is an input; a machine that slept is
a clock that jumped over several due times. Schedules do not depend on each other.

## 3. Runs

Deadlock is not checked in the passing runs: the bounds on crashes, retries and owner commands let
these systems stop, and a settled Task or outbox is a legitimate end.

| Run | Instance | Shows |
|---|---|---|
| `TaskStore_single` | 1 Task, 2 owners, 2 Sessions, leases of 2 ticks, budget 2, 2 grants | every order of store operations by two racing owners that may crash |
| `TaskStore_live` | 2 Tasks, the second the review of the first, `FairSpec` | notice or review but never both; a control request is honoured; a crashed owner loses its Task |
| `Outbox_retry` | 1 message with its notices, 2 routes, 1 crash, 1 owner retry, 2 attempts, `FairSpec` | the contract, truthful `sent`, reported dead letters, order, one delivery per route, settling |
| `RunCommit_crash` | 2 workers, 1 call, 3 Runs, 1 crash or stall, 1 owner step, 1 ageing | a repeated effect goes back to a clear that was too early, answers from receipts, one Run per Session, action order |
| `RunCommit_live` | 1 worker, 1 crash, 1 failing write, 1 owner step, `FairSpec` | settles; no rerun over a receipt; unknown effects stay fenced |
| `StateFile_locks` | 3 processes, 3 updates, 2 deaths, 1 damage, `FairSpec` | updates exclude each other and lose nothing; a dead owner's lock goes |
| `Dispatcher_runs` | 3 Tasks (two urgent, one of them a correction of the other), 2 Sessions, limit 2, 2 claims each, 1 fault, a stop | one Run per Session, one victim per Task, no Tool cut, a stop drains |
| `Supervisor_pool` | a Codex writer, a reader and a mimi writer, pool of 2, 3 processes, 1 fault and 1 stop | a writer is alone, every Task ends, a stop completes |
| `MemoryCompilation_page` | 2 jobs, 2 processes, 2 deaths, 1 removal of the page | receipts are true but after a failed release, revisions follow the writes, orphaned jobs are judged |
| `Schedules_fire` | each kind of schedule, clock to 3, 2 occurrences, 1 edit, 2 owner commands | one outstanding occurrence, a removed schedule rests, due times fire |
| `RunCommit_early`, `MemoryCompilation_conflict` | small | one documented promise each that the code does not keep (section 5) |

### 3.1 Why the bounds are enough

* `TaskStore`: two owners are a stale holder and its successor; two attempts in the automatic budget
  plus two grants reach attempt 4, so a dead letter retried, preempted or resumed twice is explored.
  Leases of two ticks separate "about to expire" from "expired". The operations of different Tasks
  touch each other only in the claim order and in the review, which `TaskStore_live` has.
* `Outbox`: a lease of one tick expires while a delivery is open; two attempts separate a retry from
  the last one; one crash gives a second lease owner; one owner retry gives a second licence, with
  requests of the first still under way. The message and its notices are several rows, two of which
  share the system route, so order and one delivery per route are exercised; the proofs cover any number
  of messages.
* `RunCommit`: three Runs let a second and a third attempt recover from what an earlier one left;
  `Budget = 2` reaches the dead letter. One lost lease (its process died, or lives on without
  noticing), one owner command and one ageing may each fall between any two steps, and combine; after two
  lost leases the budget is spent. One call suffices for the ledger:
  entries of different calls do not interact except in the outcome, which is nondeterministic anyway.
* `StateFile`: three processes are an owner and two that evict it; two deaths are the owner's and one
  more at any place, the gate included; three updates (`MaxUpdates`, counted when a process begins) let a
  lock be replaced twice under one inspection; the gate, the lock and the file are one each in the code.
* `Dispatcher`: three Tasks are two of one Session, the later one a correction of the earlier, and one of
  another Session for which both are urgent, so that a Task finds two Runs that would give way to it;
  two claims let a put-back or preempted Task come back; one fault at any step.
* `Supervisor`: with a pool of two, the three Tasks make every pair (writer and reader, two writers) and
  one that waits; three processes let a detached or closing one stay while others are forked; the mimi
  Tasks may try twice, so a first attempt that crashed or never started is followed by another. One stop may
  fall anywhere before or after the one fault, a worker that hangs included.
* `MemoryCompilation`: two jobs are two writers of one page, in one process or two, and two deaths leave
  both orphaned or kill the recovery of the first. A third job adds only the case noted in section 6.
* `Schedules`: an interval of two in a clock of three has a time that passes while the machine sleeps;
  two occurrences are the one that exists and the one that must not.
* Naming: each bound is a constant whose name begins with `Max` (or `NJobs`), is declared as a bound in
  its module, and appears in a guard. Nothing that the code itself bounds (attempts, budget, concurrency,
  pool) is counted among them.
* Symmetry (owners, workers) is used in runs without liveness properties only.

### 3.2 Properties that hold for one worker only

`NoRerunAfterReceipt` and `UnknownEffectsFenced` are checked with one worker because the code does not
keep them with two. The proofs state them under the hypothesis that there is one worker. `MimiHost.execute` reads the receipt before it begins the Run
(`mimi-host.ts:214-217`): a worker that lost its lease can store a receipt in between. And
`finalizeExecutionLedger` runs before the fence of `completeTask`, so a stale worker can clear entries of
the attempt that replaced it; so does the catch block, for a control that the stale worker was told of. With
two workers `OneRunPerSession` and `EffectsAccounted` state what is left: one live Run per Session, which
bounds what a receipt read too early costs, and effects counted against the clears that were too early.
`UnknownEffectsFenced` is checked for migrated Tasks, whose entries do not age; the retention of the others is
only in the count of `EffectsAccounted`.

### 3.3 Fairness

* `TaskStore`: weak fairness of `Tick` and `ReadyTasks`. Time passes, and the dispatcher and the
  supervisor poll on a timer. Nothing is assumed of the lease holders: a worker may renew for ever, or
  never call again.
* `Outbox`: weak fairness of `Tick`, of `Claim` (the dispatcher loop polls the outbox) and of the answer
  to each open delivery (every sink bounds its wait with a timeout). Not of the sink acting, and not of
  the answer being stored.
* `RunCommit`: weak fairness of a process's own steps, of a tool returning or being timed out, and of the
  recovery of expired leases. Not of a tool succeeding, nor of any owner command.
* `StateFile`: a live process takes its next step, and files grow old. Not that anybody begins or gives up.
* `Dispatcher`: `Proceed` of each Task: awaited work comes back, a Tool answers, an aborted Run ends. Not
  that a model ever stops by itself.
* `Supervisor`: the pump is polled, launches come back, a worker that does not hang goes on, a signal
  kills, the clock passes every deadline. Not that a worker behaves.
* `MemoryCompilation`: a process that is down starts again, and a recovery that began runs on. Not that
  any job begins or continues.
* `Schedules`: the dispatcher polls the schedules in each round, a queued Task is started and a Run ends.
  Not that the clock moves, nor any owner command.

## 4. Proofs

The theorems hold for every value of the constants: any finite set of Tasks, messages, processes or jobs,
any number of workers, calls, crashes and retries, any lease length and backoff. They assume only the
named assumptions of the modules (finite sets of names, positive limits, a distinguished "none").

**TaskStoreProofs.** The inductive invariant is `Inv == TypeOK /\ RowsInv /\ RunsInv`. `RowsInv` says of
each row, with its number of grants, what `LeaseMatchesStatus` and `AttemptBudget` say; it is inductive
because every operation changes one row by one of four updates (`Left`, `Queued`, `Claimed`,
`RecoveredRow`), for each of which a lemma shows that the row stays consistent. The budget needs the
lease part: a queued row has an attempt left, so a claim may spend one. `RunsInv`
(`RunsBelongToLease`, `OneCompletedRun`) is inductive because every way of leaving the running state
ends the run of that attempt (`RunsEnded`), recovery ends the runs of all expired rows (`RunsRecovered`),
and everything else leaves running and completed rows in place (`Stands`).
`NextStep` then says what any step may do to one Task (`StepOK`): nothing to a final one, nothing but
cancelling to one with a cancel pending, nothing to the runs of past attempts, and a notice only from the
attempt it ends. The action properties are three of its conjuncts; the notices and the review follow by
induction with `HistoryInv`, whose strengthening is that no notice of a running Task comes from its
current attempt.
Results: `TypeCorrect`, `LeasesMatchStatus`, `BudgetHolds`, `RunsNeverDangle`, `CompletedOnce`,
`OneNoticeEach`, `NoticesAreTrue`, `ReviewsReplaceNotices`, `FinalStays`, `CancelPrevails`, `PastStays`.

**OutboxProofs.** `AtMostOncePerLicence` is not inductive: it needs to know that a row which was never
inserted has no licence and no route, that a row being sent was claimed, and that notices live on the
system route. `IInv` adds these (`RowIn`) and the report of every dead letter (`ReportedIn`). A claim
first buries every expired row and then takes one, so the row properties are stated of a table given as a
parameter and shown in two stages: `Buried(dead)` keeps a good table good, and so does taking a row of it.
For the order, `OrderInv` counts a row as tried as soon as a request for it may be acted on, and adds that
new rows are the youngest and that a fresh row is due; every step is `InOrder`: rows keep their places, and
only a claim tries anything, the oldest candidate. That rows keep their routes gives one delivery per route.
Results: `TypeCorrect`, `OneEffectPerLicence`, `SentWasDelivered`, `NoSilentDeadLetter`,
`DeadRoutesAreForgotten`, `FirstTriesKeepOrder`, `OneDeliveryEach`, and the refinement
`ImplementsContract`: initial states map to initial states and each step maps to a step of
`DeliveryContract` or a stutter.

**RunCommitProofs.** `AnswerFromReceipt` needs what each worker knows at each step. `WorkerOK(w)`
relates the place of a worker to the stores: until its receipt is stored its Run has none, from then on
it has one, at the model the checkpoint is its own and running, and while it applies actions the
checkpoint of its Run is completed. `OwnRuns` says two workers never drive the same Run and `StoresOK`
that receipts and journal entries belong to Runs that began. Most steps of one worker cannot disturb
another's `WorkerOK` (`Harmless`); the steps that write the checkpoint are shown one by one.
`EffectsAccounted` says that effects are paid for by the clears counted in `early`. An effect needs an
operation that claimed an absent entry, and an entry becomes absent again only by a clear, so `CountInv`
adds up what may still come: the effects that happened, the operations that called and have not acted, and
the claim that is still open are together at most one more than the clears. A clear opens no claim as long as
the Task is `Closed`: its process (in `cleared`) holds it and has only to complete it while all others are
past their Runs, or it is `Done`, completed or cancelled with every process past its Run. `CloseInv` shows
that this lasts: a process in `cleared` holds the Task until it completes it or is counted (`ClosingStep`); the
owner's controls reach a process only for a Task that is being cancelled (`ControlOK`), no step takes a
cancel back or revives a Task at its end (`TaskMoves`), and a process past its Run stays there unless the
Task is queued (`BehindStays`). That an undisturbed Task has no early clear is `CalmInv`: as long as no bound
but that of failing writes was used, at most one process is at work, it holds the Task, was told nothing and noticed no loss.
Two theorems have the hypothesis `Alone` (one worker). For `NoRerunAlone`, `FreshInv`: a worker that found
no receipt meets none until it stores its own. For `UnknownFencedAlone`, on a migrated Task (`EventKeyed`),
`KnownInv`: an outcome "completed", in the worker or in the stored receipt, is never about a call of unknown
outcome, and neither is the ledger that a worker is about to clear, unless the Task was cancelled.
Results: `TypeCorrect`, `AnswersRestOnReceipts`, `SessionsRunOneModel`, `ActionsWaitForSession`,
`JournalMovesForward`, `EffectsAreAccounted`, `NoRerunAlone`, `UnknownFencedAlone`.

**StateFileProofs.** While nothing disturbed a removal by name, a process past the creation of the lock
owns the lock file, one at the gate owns the gate, what an inspection read while `fresh` is still true of the lock
that has the name, and a process about to evict has judged a dead lock under its own gate, so nobody can have
replaced it. Exclusion follows, and with it that a process writes over the value it read. Results:
`TypeCorrect`, `Exclusion`, `NothingLost`, the last two with the three circumstances as their exception.

**DispatcherProofs.** `busy` is exactly the Sessions of the Runs, no Tool is in flight before a Run, and a
Task that made a Run give way is still queued with its reservation, or has ended, until it is claimed. The
preempted Run is the first of its candidates; that a finite set of numbers has a first is shown by
well-founded induction on its subsets, an instance of the library's theorem without an operator
parameter. Results: `TypeCorrect`, `OneRun`, `OneGivesWay`, `NoToolIsCut`, `ImplementsContract`.

**SupervisorProofs.** The supervisor looks at the records of its workers and at the rows of the runners
that detached, awaits the model route, and forks. So `SoleInv` is about three sets at once: the attached
workers, the Codex runners that hold their lease (`Occupied`), and the Tasks chosen and not yet launched.
`SharesOK` says the first two fit each other, `LaunchesOK` that the chosen Tasks still fit them and each
other, `PlacesOK` what a place for a process may hold. The lemma behind most steps is that no operation of
the store but a claim makes anybody the holder of a lease (`GivesNone`), so a step that neither forks nor
claims can only shrink these sets. Results: `TypeCorrect`, `WritersWorkAlone`, `ImplementsContract`.

**The contract of a Task.** `ImplementsContract` is proved of all three modules with Task rows: the initial
rows show the contract's initial view, and every step shows each Task a step of `TaskContract` or nothing.
The row updates are shown one by one (`EndMoves`, `ReleaseMoves`, `QueuedMoves`, `ClaimedMoves` and their
like) and each action is one of these updates, of one row, or of all rows in recovery. In `TaskStore` it
needs `RowsInv`, in `Dispatcher` and `Supervisor` its counterpart `RowsOK`: only a running row has a
lease or a control intent.

**MemoryCompilationProofs.** The page, if there is one, names a job that wrote it; an activity past the
rename works on a job that wrote, one before it on a job that did not, unless another process has judged
it; a receipt is only stored by such an activity, or for a job in `kept`, which wrote. The type of the revision number needs that the numbers
up to the current one belong to different jobs, so there are at most as many numbers as jobs.
For the order, `OrderInv` says that a job writes once, that the revisions in use are those of jobs that
wrote, each under the number it chose (`ChainOK`), that a job wrote after the jobs with all lower numbers
(`NumbersChosenFirst`), and that it has its number before it writes (`WritersNumbered`). The two delicate
steps are the write (`RenameOrder`: the newest write comes after all that are in use) and the record of a
revision (`ReviseOrder`: under the next number, or it was recorded before).
Results: `TypeCorrect`, `ReceiptsAreTrue`, `RevisionsFollow`.

**SchedulesProofs.** Outstanding occurrences that were not retried are one at most because emission asks
for none, and every other step moves one occurrence between its statuses. After a removal the queue only
holds what was spared. Results: `TypeCorrect`, `OccurrencesAreSingle`, `RemovalHolds`.

**Model-checked only.** Every safety property of the passing runs is a theorem, two of them for one worker. All
liveness properties (`ControlIsHonoured`, `DeadOwnersLoseTasks`, `EveryRowSettles`, `Settles`, `DeadLocksGo`,
`StopDrains`, `TasksEnd`, `StopCompletes`, `OrphansAreJudged`, `DueTimesFire`) stay with TLC: the prover
does not handle liveness under fairness or ENABLED. It also cannot instantiate induction over data, and
RECURSIVE operators disable its arithmetic solver, so no module uses them.

## 5. Where the code and its documents disagree

Two disagreements have a run that shows them:

1. **The ledger is cleared too early** (`RunCommit_early`). `docs/ARCHITECTURE.md:261` says receipts are
   cleared only after the SQLite commit; `processTask` (`dispatcher.ts:767`) clears them before
   `completeTask`, and a crash between the two repeats the Run with its effects.
2. **A conflict of revisions wedges Memory** (`MemoryCompilation_conflict`). `docs/ARCHITECTURE.md:619` says
   a conflict is marked `uncertain`. When another job has taken the revision number that a job chose before
   its write, `saveRevision` fails on the foreign key (`sqlite-catalog.ts:1435`), `recover`
   (`compilation-coordinator.ts:280`) does not catch it, and `initialize` then fails in every process.

The others are read in the code; the models follow the code, and no run is spent on them:

* **Stopping costs an attempt.** `docs/ARCHITECTURE.md:265` and `docs/ATTENTION.md:41` say that stopping
  takes the claim's attempt back; `requeueTask` (`store.ts:603`) keeps `attempt_count` and `max_attempts`.
* **A silent dead letter.** `docs/ARCHITECTURE.md:267` says a dead letter always commits a notice;
  `recoverExpiredTasks` (`store.ts:1395`) inserts none when the last lease expires.
* **Conversation order.** The same paragraph promises first-in first-out per conversation; `claim`
  (`outbox-store.ts:182`) passes over a message that waits for its retry. `FirstTriesInOrder` is what holds.
* **Retention forgets dead letters.** The comment at `execution-ledger.ts:676` wants durable executions
  exempt from pruning; the exemption (`:679`) tests for `event:` while new Tasks are keyed `task:`.
* **A receipt nobody can read.** A receipt over the output limit is stored truncated and refused by every
  recovery (`run-commit-coordinator.ts:261`); and a journal write failing right after the receipt lets
  `fail()` replace the plan the receipt belongs to (`:219`). `docs/ARCHITECTURE.md:606` makes the receipt
  the authority of recovery.
* **A live lock evicted.** Two processes that both compared a dead owner's gate may both remove it by name
  (`state-file.ts:158`): the second removes the gate the first has just made, and with it the exclusion of
  the evictions. `tests/state.test.ts:239` expects a live lock to be respected. The inspection itself may miss too: it reads
  the lock and its age by two racing calls (`:221`), so a `stat` of an old lock followed by a read of the empty
  one that replaced it passes for a lock that is invalid and old, and the removal takes a live lock; so
  does a removal that follows a read of a lock gone since. `ExclusiveUpdates` holds as long as nobody dies while its
  gate exists, no empty lock of a live process passes for five seconds old, and no inspection evicts by
  what it read of a lock that was replaced.
* **A stale process clears the ledger.** `dispatcher.ts:794` means to write nothing after a lost lease, but tests
  only whether the loss was noticed. A process that did not notice it and was told of a cancel or a pause clears
  or reopens the ledger of the attempt that replaced it (`:801`, `:851`), although the store refuses its control.
* **A written page recorded as failed.** `withExclusiveFileLock` (`state-file.ts:119`) throws when the lock
  cannot be released after the operation succeeded; the callers of the vault's write (`hub.ts:608`,
  `wiki-compiler.ts:287`) take that for a write that did not happen and record `failed`.
* **Corrections in the wrong order.** Of two corrections waiting for one Session, the put-back
  (`dispatcher.ts:516`, `:526`) may let the newer run first; `docs/ARCHITECTURE.md:11` and
  `docs/ATTENTION.md:35` say per-Session order.
* **A cancel that waits for a Tool aborts it.** While a cancel is pending, renewal is refused, and a refused
  renewal aborts the Run whatever Tool is in flight (`dispatcher.ts:401-420`), against
  `docs/ARCHITECTURE.md:269`. This is the exception in `ToolsNotCut`.
* **A preemption's attempt may be lost.** `failTask` takes the minimum of the retry limit and `max_attempts`
  (`store.ts:672`), so the attempt a preemption gave back (`docs/ATTENTION.md:33`) is not there.
* **A stop ends a Codex Task.** A stop that comes before `detached` was heard settles the Task for good,
  where `docs/ARCHITECTURE.md:253` lets a detached runner go on.
* **Schedules.** `update` throws "计划类型无效" for every watch whose type the patch does not change
  (`schedule-store.ts:159`); an occurrence resumed with a note, edited
  meanwhile or retried after a recorded outcome loses `complete_current_mimi_schedule`, which
  `docs/ARCHITECTURE.md:271` gives to every occurrence.

## 6. What the models leave out

* `TaskStore`: `pruneHistory`, Codex checkpoint payloads, objectives, the limit of 100 rows per
  recovery, ties of `created_at` (ranks are distinct), the schedule, digest and memory rows that
  `completeTask` and `failTask` also update.
* `Outbox`: quarantine of rows that cannot be decoded, pruning, the contents of messages. The default
  route of the configuration is the system route.
* `RunCommit`: action intents and their confirmation, the limit on ledger entries, the completion gate
  (its verdict is an input), the goal and the transcript behind the checkpoint. The `blocked` and
  `paused` states of the Task are one state, `parked`.
* `StateFile`: `read` outside the lock, `replace`, the `recoverCorrupt` and `preserveSchemaMismatch`
  options, the reuse of a process id by another program.
* `Dispatcher`: conversation Tasks only (background Tasks are the supervisor's), attachments, personal
  messages, streaming. The terminal statuses are one, `ended`. Seen in the code, not stated as properties:
  an urgent Task whose own Session is busy makes another Run give way for nothing and keeps its
  reservation; a stop requested while a Task awaits its workspace still sees its Run begin (`StopDrains`
  leaves it out if it calls no Tool).
* `Supervisor`: the reordering of memory maintenance, the log of a missing runtime, resuming, the payload
  of messages. A hasty reclaim counts as a fault. `SoleWriter` names its exceptions: a mimi worker that
  outlives its kernel, a runner that lost its lease or had not claimed when its kernel died. A stop that
  comes before the Codex controller exists is lost to it.
* `MemoryCompilation`: the search index, embeddings, receipts of the first version, rejection and
  suppression, the order and limit of `applyingJobs`. Seen in the code: a page created blindly
  overwrites what another job wrote (`wiki-vault.ts:168`); a job judged pending while its process lives
  stays pending; a stale recovery replaces an applied receipt by `uncertain`; with three jobs an applied
  receipt can name a revision number that was not inserted; a text that the vault sanitized is judged
  uncertain although `remember` returned normally.
* `Schedules`: a cron time is taken like an interval; reading and saving an edit are one step; an edit that
  takes back an earlier one does not make the old occurrences authentic again, and the time and type of a
  schedule that is off change when it is switched on; failures of
  the poll itself, listing, history and the limit of enabled schedules. Paused and blocked occurrences
  survive a removal and may be resumed, which `RemovedScheduleRests` allows. A wake in the millisecond of
  an emission meets the Event that exists and makes no second one.
* Not modelled at all: the circuit breaker, because every Session actor has its own and makes one call at
  a time, so no two actors meet in it; Team, a sequential wave inside one Run whose only hazard is the
  interruption listed in `PROJECT.json`; event intake, lanes and slots of Session actors, the file change
  journal, connector processes (section 7); clients and IPC, context selection, providers, MCP and skills,
  computer control, speech, live events, scripts, which are I/O, presentation or pure functions of data.
* External parts are modelled by their outcomes: the model stops or finishes, a tool acts or not, a sink
  acts or not, a process dies.

## 7. Plan

1. Event intake: the dedupe key, the insert and the routing receipt, with a crash between them, feeding
   `TaskStore`; connectors as its callers (acknowledgement against timeout).
2. `SessionActors` over `RunCommit`: lanes, slots, eviction against a lookup.
3. File change journal: prepared and committed snapshots, undo of a partly changed set.
4. Team: claims over a dependency graph and the interrupted wave; the circuit breaker's probe.
5. Consequences of `TaskContract` proved of the contract alone, so that a further module with Task rows
   gets them by refinement.

Runs are kept few: a new module's run takes the place of one that asks a less important question.
