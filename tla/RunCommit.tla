------------------------------ MODULE RunCommit ------------------------------
(* How one durable Task is executed and committed across four stores that share no
   transaction: the execution ledger (core/execution-ledger.ts), the commit journal
   (core/run-commit-journal.ts), the Session checkpoint (core/session.ts) and the
   Task row (daemon/store.ts).  run-commit-coordinator.ts and the end of
   Dispatcher.processTask write them one after the other; a crash, a failing write,
   a lost lease or an owner command may come between any two steps, and the next
   attempt recovers from what was written.

   A tool call is a member of Calls: a side-effecting tool with its semantic
   arguments and occurrence, which is what keys it in the ledger, so a retried
   attempt that repeats it finds its entry.  Run ids are numbered in the order the
   runs begin, and an answer is named by the run that produced it. *)
EXTENDS Naturals, FiniteSets

CONSTANTS
  Workers,       \* processes that execute Tasks (daemon or forked task workers)
  NoWorker,
  Calls,         \* the side-effecting tool calls a run may make
  Budget,        \* max_attempts of the Task
  EventKeyed,    \* FALSE: execution key task:<id>, TRUE: event:<id> (migrated Tasks)
  MaxRuns,       \* bound: runs begun
  MaxLosses,     \* bound: leases lost, with the process or (MaxStalls) without
  MaxFaults,     \* bound: failing writes in the commit sequence
  MaxStalls,     \* bound: of these, leases lost by a process that is alive
  MaxOwnerSteps, \* bound: pauses, cancels, resumes and retries of the owner
  MaxAges        \* bound: times the Task waits longer than the ledger retention

ASSUME RunCommitAssumption ==
  /\ NoWorker \notin Workers
  /\ Budget \in Nat \ {0}
  /\ {MaxRuns, MaxLosses, MaxFaults, MaxStalls, MaxOwnerSteps, MaxAges} \subseteq Nat
  /\ EventKeyed \in BOOLEAN

NoRun == 0
Runs == 1..MaxRuns

VARIABLES
  task,     \* Task row: status, owner, control intent, attempts, budget, answer
  ledger,   \* execution ledger: status of the entry of each call
  receipt,  \* execution ledger: the completion receipt of the execution key
  action,   \* execution ledger: the entry of the run's runtime action
  journal,  \* commit journal: phase and plan of each run
  session,  \* Session checkpoint: run, status, owner
  worker,   \* per process: where it is in processTask, its run, what it knows
  flight,   \* per process: tool operations under way in its memory
  effects,  \* history: how often each call had its external effect
  applied,  \* history: how often the runtime action was applied
  cleared,  \* history: processes that cleared the ledger and have yet to complete the Task
  early,    \* history: ledger clears while the Task could still be executed
  receipts, \* history: runs whose receipt was stored
  used      \* the bounds used up so far

vars == <<task, ledger, receipt, action, journal, session, worker, flight,
          effects, applied, cleared, early, receipts, used>>

ledgerVars == <<ledger, receipt, action>>
clearVars == <<cleared, early>>
historyVars == <<effects, applied, clearVars, receipts>>

EntryStatuses == {"absent", "started", "succeeded", "failed", "uncertain"}
Outcomes == {"completed", "partial", "failed", "uncertain"}

\* RunCommitPhase, in PHASE_ORDER; 0 when the run has no journal entry.
Prepared == 1
ReceiptCommitted == 2
SessionCommitted == 3
GoalCommitted == 4
TaskCommitted == 5
EffectsApplied == 6
Finalized == 7

\* Where a process is between two awaits of host.execute, complete() and processTask.
Committing == {"prepare", "receipt", "receipting", "receipted", "session", "sessioned"}
Steps == {"idle", "claimed", "begin", "model", "failing", "rollback", "caught",
          "reconcile", "reconciled", "apply", "applying", "recording", "applied",
          "settle", "reopen", "reopened", "settling", "ack", "clear", "final", "complete"}
         \cup Committing

\* Behind the run: from here a process takes no entry of the ledger any more.
Behind == {"idle", "caught", "reopen", "reopened", "settling", "ack", "clear", "final",
           "complete"}

TaskRows ==
  [status : {"queued", "running", "parked", "completed", "failed", "cancelled", "dead_letter"},
   owner : Workers \cup {NoWorker}, intent : {"none", "pause", "cancel"},
   attempts : Nat, budget : Nat, answer : Runs \cup {NoRun}]

ReceiptEntries ==
  [status : EntryStatuses, run : Runs \cup {NoRun}, outcome : Outcomes, whole : BOOLEAN]

JournalEntries == [phase : 0..7, plan : {"none", "complete", "stopped"}]

Checkpoints ==
  [run : Runs \cup {NoRun}, owner : Workers \cup {NoWorker},
   status : {"none", "running", "completed", "interrupted"}]

WorkerStates ==
  [at : Steps, run : Runs \cup {NoRun}, outcome : Outcomes, lost : BOOLEAN,
   told : {"none", "pause", "cancel"}, after : {"complete", "pause", "end"}]

TypeOK ==
  /\ task \in TaskRows
  /\ ledger \in [Calls -> EntryStatuses]
  /\ receipt \in ReceiptEntries
  /\ action \in EntryStatuses
  /\ journal \in [Runs -> JournalEntries]
  /\ session \in Checkpoints
  /\ worker \in [Workers -> WorkerStates]
  /\ flight \in [Workers -> [Calls -> {"none", "called", "acted"}]]
  /\ effects \in [Calls -> Nat] /\ applied \in Nat
  /\ cleared \subseteq Workers /\ early \in Nat
  /\ receipts \subseteq Runs
  /\ used \in [crash : Nat, fault : Nat, stall : Nat, owner : Nat, age : Nat]

NoReceipt == [status |-> "absent", run |-> NoRun, outcome |-> "completed", whole |-> TRUE]
Idle == [at |-> "idle", run |-> NoRun, outcome |-> "completed", lost |-> FALSE,
         told |-> "none", after |-> "complete"]

Init ==
  /\ task = [status |-> "queued", owner |-> NoWorker, intent |-> "none",
             attempts |-> 0, budget |-> Budget, answer |-> NoRun]
  /\ ledger = [c \in Calls |-> "absent"]
  /\ receipt = NoReceipt
  /\ action = "absent"
  /\ journal = [r \in Runs |-> [phase |-> 0, plan |-> "none"]]
  /\ session = [run |-> NoRun, owner |-> NoWorker, status |-> "none"]
  /\ worker = [w \in Workers |-> Idle]
  /\ flight = [w \in Workers |-> [c \in Calls |-> "none"]]
  /\ effects = [c \in Calls |-> 0] /\ applied = 0 /\ cleared = {} /\ early = 0
  /\ receipts = {}
  /\ used = [crash |-> 0, fault |-> 0, stall |-> 0, owner |-> 0, age |-> 0]

Greatest(m, n) == IF m >= n THEN m ELSE n

At(w, step) == worker[w].at = step
Goto(w, step) == worker' = [worker EXCEPT ![w].at = step]
Ended(w) == worker' = [worker EXCEPT ![w] = Idle]

Spend(bound, max) ==
  /\ used[bound] < max
  /\ used' = [used EXCEPT ![bound] = @ + 1]

Holds(w) == task.status = "running" /\ task.owner = w

Left(status) == [task EXCEPT !.status = status, !.owner = NoWorker, !.intent = "none"]

\* settleTaskControl: the owner's intent becomes the status, under the lease fence.
ControlSettled(w) ==
  IF Holds(w) /\ task.intent # "none"
    THEN Left(IF task.intent = "cancel" THEN "cancelled" ELSE "parked")
    ELSE task

\* synchronizeDurableTaskControl: what the row asks now, whoever holds it, on top of what
\* the process was told before.  A cancel overrides a pause and neither is taken back.
Requested(w) ==
  LET asked == {task.intent, worker[w].told}
  IN IF "cancel" \in asked THEN "cancel" ELSE IF "pause" \in asked THEN "pause" ELSE "none"

\* A clear after which its process did not complete the Task was too early.
ClearedInVain(w) ==
  /\ cleared' = cleared \ {w}
  /\ early' = IF w \in cleared THEN early + 1 ELSE early

----------------------------------------------------------------------------
(* The commit journal *)

\* RunCommitJournal.advance: a phase only moves forward.
Advanced(r, phase) == [journal EXCEPT ![r].phase = Greatest(@, phase)]

Planned(r, plan) == [journal EXCEPT ![r] = [phase |-> Prepared, plan |-> plan]]

\* updateExecution: every entry of the execution key that is not finalized
AdvancedAll(phase) ==
  [r \in Runs |-> IF journal[r].phase \in 1..(phase - 1)
                    THEN [journal[r] EXCEPT !.phase = phase] ELSE journal[r]]

Newest ==
  CHOOSE r \in Runs \cup {NoRun} :
    /\ r # NoRun => journal[r].phase > 0
    /\ \A q \in Runs : journal[q].phase > 0 => q <= r

----------------------------------------------------------------------------
(* Claiming the Task and recovering a completed run: MimiHost.execute *)

Claim(w) ==
  /\ At(w, "idle")
  /\ task.status = "queued"
  /\ task' = [task EXCEPT !.status = "running", !.owner = w, !.attempts = @ + 1]
  /\ Goto(w, "claimed")
  /\ UNCHANGED <<ledgerVars, journal, session, flight, historyVars, used>>

\* completedExecution accepts a whole receipt of the newest journalled run.
Acceptable ==
  /\ receipt.status = "succeeded" /\ receipt.whole
  /\ Newest # NoRun => Newest = receipt.run /\ journal[Newest].plan = "complete"

\* Mutant: a receipt that is unfinished or cannot be read counts as none.
CompletedExecutionLenient(w) ==
  /\ At(w, "claimed")
  /\ worker' = [worker EXCEPT ![w] =
       IF Acceptable
         THEN [@ EXCEPT !.at = "reconcile", !.run = receipt.run, !.outcome = receipt.outcome]
         ELSE [@ EXCEPT !.at = "begin"]]
  /\ UNCHANGED <<task, ledgerVars, journal, session, flight, historyVars, used>>

CompletedExecution(w) ==
  /\ At(w, "claimed")
  /\ worker' = [worker EXCEPT ![w] =
       IF receipt.status = "absent" THEN [@ EXCEPT !.at = "begin"]
       ELSE IF Acceptable
         THEN [@ EXCEPT !.at = "reconcile", !.run = receipt.run, !.outcome = receipt.outcome]
       ELSE [@ EXCEPT !.at = "caught"]]
  /\ UNCHANGED <<task, ledgerVars, journal, session, flight, historyVars, used>>

\* Mutant: recovery reads the checkpoint and leaves it as it is.
ReconcileNothing(w) ==
  /\ At(w, "reconcile")
  /\ Goto(w, "reconciled")
  /\ UNCHANGED <<task, ledgerVars, journal, session, flight, historyVars, used>>

ReconcileCompletedRun(w) ==
  /\ At(w, "reconcile")
  /\ session' = IF session.run = worker[w].run
                  THEN [session EXCEPT !.status = "completed", !.owner = NoWorker]
                  ELSE session
  /\ Goto(w, "reconciled")
  /\ UNCHANGED <<task, ledgerVars, journal, flight, historyVars, used>>

JournalReconciled(w) ==
  /\ At(w, "reconciled")
  /\ journal' = IF journal[worker[w].run].phase = 0 THEN journal
                ELSE Advanced(worker[w].run, SessionCommitted)
  /\ Goto(w, "apply")
  /\ UNCHANGED <<task, ledgerVars, session, flight, historyVars, used>>

----------------------------------------------------------------------------
(* A new run of the model and its tool calls *)

\* Mutant: the liveness of the checkpoint's owner is not looked at.
LiveOtherNever(w) == FALSE

LiveOther(w) == session.status = "running" /\ session.owner \notin {NoWorker, w}

BeginRun(w) ==
  /\ At(w, "begin")
  /\ IF LiveOther(w)
       THEN Goto(w, "caught") /\ UNCHANGED session
       ELSE \E r \in Runs :
              /\ r = session.run + 1
              /\ session' = [run |-> r, owner |-> w, status |-> "running"]
              /\ worker' = [worker EXCEPT ![w].at = "model", ![w].run = r]
  /\ UNCHANGED <<task, ledgerVars, journal, flight, historyVars, used>>

\* executeOnce: joins an operation in flight in this process, else claims the entry.
\* An entry that exists is replayed or refused, and changes nothing.
InvokeTool(w, c) ==
  /\ At(w, "model")
  /\ flight[w][c] = "none"
  /\ ledger[c] = "absent"
  /\ ledger' = [ledger EXCEPT ![c] = "started"]
  /\ flight' = [flight EXCEPT ![w][c] = "called"]
  /\ UNCHANGED <<task, receipt, action, journal, session, worker, historyVars, used>>

\* The external effect: at most once per operation, at any time while it is in flight.
Act(w, c) ==
  /\ flight[w][c] = "called"
  /\ flight' = [flight EXCEPT ![w][c] = "acted"]
  /\ effects' = [effects EXCEPT ![c] = @ + 1]
  /\ UNCHANGED <<task, ledgerVars, journal, session, worker, applied, clearVars, receipts, used>>

\* The operation returns or throws; an entry that is gone or settled is left alone.
RecordTool(w, c, status) ==
  /\ flight[w][c] # "none"
  /\ status = "succeeded" => flight[w][c] = "acted"
  /\ ledger' = IF ledger[c] = "started" THEN [ledger EXCEPT ![c] = status] ELSE ledger
  /\ flight' = [flight EXCEPT ![w][c] = "none"]
  /\ UNCHANGED <<task, receipt, action, journal, session, worker, historyVars, used>>

\* classifyRunOutcome over the entries of the execution key
OutcomesOfCalls ==
  IF \E c \in Calls : ledger[c] \in {"started", "uncertain"} THEN {"uncertain"}
  ELSE IF \E c \in Calls : ledger[c] = "failed" THEN {"completed", "partial", "failed"}
  ELSE {"completed", "partial"}

FinishModel(w) ==
  /\ At(w, "model")
  /\ \A c \in Calls : flight[w][c] = "none"
  /\ \E outcome \in OutcomesOfCalls :
       worker' = [worker EXCEPT ![w].at = "prepare", ![w].outcome = outcome]
  /\ UNCHANGED <<task, ledgerVars, journal, session, flight, historyVars, used>>

\* A provider error, an abort for an owner command, idle time or a lost lease.
StopModel(w) ==
  /\ At(w, "model")
  /\ Goto(w, "failing")
  /\ UNCHANGED <<task, ledgerVars, journal, session, flight, historyVars, used>>

----------------------------------------------------------------------------
(* RunCommitCoordinator.complete: receipt, session, goal, effects *)

Prepare(w) ==
  /\ At(w, "prepare")
  /\ journal' = Planned(worker[w].run, "complete")
  /\ Goto(w, "receipt")
  /\ UNCHANGED <<task, ledgerVars, session, flight, historyVars, used>>

\* commitReceipt claims the receipt's entry; another run's receipt is never replaced.
CommitReceipt(w) ==
  /\ At(w, "receipt")
  /\ IF receipt.status = "absent"
       THEN /\ receipt' = [NoReceipt EXCEPT !.status = "started", !.run = worker[w].run,
                                            !.outcome = worker[w].outcome]
            /\ Goto(w, "receipting")
       ELSE UNCHANGED receipt /\ Goto(w, "failing")
  /\ UNCHANGED <<task, ledger, action, journal, session, flight, historyVars, used>>

\* Mutant: what was stored is not compared with what should have been.
StoreReceiptUnchecked(w, whole) ==
  LET mine == receipt.status = "started" /\ receipt.run = worker[w].run
  IN /\ At(w, "receipting")
     /\ receipt' = IF mine THEN [receipt EXCEPT !.status = "succeeded", !.whole = whole]
                   ELSE receipt
     /\ receipts' = IF mine /\ whole THEN receipts \cup {worker[w].run} ELSE receipts
     /\ Goto(w, "receipted")
     /\ UNCHANGED <<task, ledger, action, journal, session, flight, effects, applied,
                    clearVars, used>>

\* A receipt over maxOutputBytes is stored truncated, which complete() cannot parse.
StoreReceipt(w, whole) ==
  LET mine == receipt.status = "started" /\ receipt.run = worker[w].run
  IN /\ At(w, "receipting")
     /\ receipt' = IF mine THEN [receipt EXCEPT !.status = "succeeded", !.whole = whole]
                   ELSE receipt
     /\ receipts' = IF mine /\ whole THEN receipts \cup {worker[w].run} ELSE receipts
     /\ Goto(w, IF mine /\ whole THEN "receipted" ELSE "failing")
     /\ UNCHANGED <<task, ledger, action, journal, session, flight, effects, applied,
                    clearVars, used>>

JournalReceipt(w) ==
  /\ At(w, "receipted")
  /\ journal' = Advanced(worker[w].run, ReceiptCommitted)
  /\ Goto(w, "session")
  /\ UNCHANGED <<task, ledgerVars, session, flight, historyVars, used>>

CompleteRun(w) ==
  /\ At(w, "session")
  /\ IF session.run = worker[w].run /\ session.status = "running"
       THEN /\ session' = [session EXCEPT !.status = "completed", !.owner = NoWorker]
            /\ Goto(w, "sessioned")
       ELSE UNCHANGED session /\ Goto(w, "failing")
  /\ UNCHANGED <<task, ledgerVars, journal, flight, historyVars, used>>

JournalSession(w) ==
  /\ At(w, "sessioned")
  /\ journal' = Advanced(worker[w].run, GoalCommitted)
  /\ Goto(w, "apply")
  /\ UNCHANGED <<task, ledgerVars, session, flight, historyVars, used>>

\* RuntimeActionCoordinator.apply through executeOnce, for a new and a recovered run
StartEffect(w) ==
  /\ At(w, "apply")
  /\ action' = IF action = "absent" THEN "started" ELSE action
  /\ Goto(w, CASE action = "absent" -> "applying"
               [] action = "succeeded" -> "applied"
               [] OTHER -> "caught")
  /\ UNCHANGED <<task, ledger, receipt, journal, session, flight, historyVars, used>>

ApplyEffect(w) ==
  /\ At(w, "applying")
  /\ applied' = applied + 1
  /\ Goto(w, "recording")
  /\ UNCHANGED <<task, ledgerVars, journal, session, flight, effects, clearVars, receipts,
                 used>>

RecordEffect(w) ==
  /\ At(w, "recording")
  /\ action' = IF action = "started" THEN "succeeded" ELSE action
  /\ Goto(w, IF action = "started" THEN "applied" ELSE "caught")
  /\ UNCHANGED <<task, ledger, receipt, journal, session, flight, historyVars, used>>

JournalEffects(w) ==
  /\ At(w, "applied")
  /\ journal' = IF journal[worker[w].run].phase = 0 THEN journal
                ELSE Advanced(worker[w].run, EffectsApplied)
  /\ Goto(w, "settle")
  /\ UNCHANGED <<task, ledgerVars, session, flight, historyVars, used>>

\* A write of the sequence fails: the ledger, the journal or the session file.
WriteFails(w) ==
  /\ \/ worker[w].at \in Committing /\ Goto(w, "failing")
     \/ worker[w].at \in {"reconcile", "reconciled", "applying", "recording",
                             "applied"} /\ Goto(w, "caught")
  /\ Spend("fault", MaxFaults)
  /\ \/ UNCHANGED ledgerVars
     \/ /\ At(w, "receipting") /\ receipt.status = "started"
        /\ receipt' = [receipt EXCEPT !.status = "failed"]
        /\ UNCHANGED <<ledger, action>>
     \/ /\ worker[w].at \in {"applying", "recording"} /\ action = "started"
        /\ action' = "failed"
        /\ UNCHANGED <<ledger, receipt>>
  /\ UNCHANGED <<task, journal, session, flight, historyVars>>

----------------------------------------------------------------------------
(* RunCommitCoordinator.fail *)

\* prepare() of the stopped plan: refused once the journal is past 'prepared'.
PrepareFailure(w) ==
  LET r == worker[w].run
  IN /\ At(w, "failing")
     /\ IF journal[r].phase <= Prepared
          THEN journal' = Planned(r, "stopped") /\ Goto(w, "rollback")
          ELSE UNCHANGED journal /\ Goto(w, "caught")
     /\ UNCHANGED <<task, ledgerVars, session, flight, historyVars, used>>

FailRun(w) ==
  LET r == worker[w].run
  IN /\ At(w, "rollback")
     /\ session' = IF session.run = r /\ session.status = "running"
                     THEN [session EXCEPT !.status = "interrupted", !.owner = NoWorker]
                     ELSE session
     /\ journal' = Advanced(r, SessionCommitted)
     /\ Goto(w, "caught")
     /\ UNCHANGED <<task, ledgerVars, flight, historyVars, used>>

----------------------------------------------------------------------------
(* Dispatcher.processTask after the run: settle, and its catch block *)

\* Mutant: every outcome but a partial one is final.
SettleAll(w) ==
  LET told == Requested(w)
  IN /\ At(w, "settle")
     /\ worker' = [worker EXCEPT ![w] =
          IF worker[w].lost THEN [@ EXCEPT !.at = "caught"]
          ELSE IF told = "cancel" THEN [@ EXCEPT !.at = "caught", !.told = told]
          ELSE IF told = "pause" THEN [@ EXCEPT !.at = "reopen", !.told = told, !.after = "pause"]
          ELSE [@ EXCEPT !.after = "complete",
                         !.at = IF worker[w].outcome = "partial" THEN "reopen" ELSE "ack"]]
     /\ UNCHANGED <<task, ledgerVars, journal, session, flight, historyVars, used>>

Settle(w) ==
  LET told == Requested(w)
  IN /\ At(w, "settle")
     /\ worker' = [worker EXCEPT ![w] =
          IF worker[w].lost THEN [@ EXCEPT !.at = "caught"]
          ELSE IF told = "cancel" THEN [@ EXCEPT !.at = "caught", !.told = told]
          ELSE IF told = "pause" THEN [@ EXCEPT !.at = "reopen", !.told = told, !.after = "pause"]
          ELSE [@ EXCEPT !.after = "complete",
                         !.at = CASE worker[w].outcome = "partial" -> "reopen"
                                  [] worker[w].outcome = "completed" -> "ack"
                                  [] OTHER -> "complete"]]
     /\ UNCHANGED <<task, ledgerVars, journal, session, flight, historyVars, used>>

\* reopenExecutionLedger: the answer is dropped, the receipts of the effects stay.
ClearReceipt(w) ==
  /\ At(w, "reopen")
  /\ receipt' = NoReceipt
  /\ Goto(w, "reopened")
  /\ UNCHANGED <<task, ledger, action, journal, session, flight, historyVars, used>>

FinalizeReopened(w) ==
  /\ At(w, "reopened")
  /\ journal' = AdvancedAll(Finalized)
  /\ Goto(w, IF worker[w].after = "complete" THEN "complete" ELSE "settling")
  /\ UNCHANGED <<task, ledgerVars, session, flight, historyVars, used>>

\* The catch block ignores a failing reopen; after a successful run it is an error.
ReopenFails(w) ==
  /\ worker[w].at \in {"reopen", "reopened"}
  /\ Spend("fault", MaxFaults)
  /\ Goto(w, IF worker[w].after = "end" THEN "settling" ELSE "caught")
  /\ UNCHANGED <<task, ledgerVars, journal, session, flight, historyVars>>

SettleTaskControl(w) ==
  /\ At(w, "settling")
  /\ task' = ControlSettled(w)
  /\ Ended(w)
  /\ UNCHANGED <<ledgerVars, journal, session, flight, historyVars, used>>

\* No other process may still take an entry of the ledger.
OthersBehind(w) == \A v \in Workers \ {w} : worker[v].at \in Behind

\* The Task ends without another attempt.
LastAttempt == task.status \in {"completed", "failed", "cancelled"} \/ task.intent = "cancel"

\* The holder that is about to complete the Task
Closes(w) == Holds(w) /\ worker[w].after = "complete" /\ OthersBehind(w)

\* A clear while another process still runs the Task, or after a run whose process lost
\* the Task without noticing
TooEarly(w) ==
  \/ ~OthersBehind(w)
  \/ ~Holds(w) /\ worker[w].after = "complete" /\ ~LastAttempt

\* finalizeExecutionLedger: acknowledge, clear the run's entries, finalize.
AcknowledgeTask(w) ==
  /\ At(w, "ack")
  /\ journal' = AdvancedAll(TaskCommitted)
  /\ Goto(w, "clear")
  /\ UNCHANGED <<task, ledgerVars, session, flight, historyVars, used>>

ClearRun(w) ==
  /\ At(w, "clear")
  /\ ledger' = [c \in Calls |-> "absent"]
  /\ receipt' = NoReceipt
  /\ action' = "absent"
  /\ cleared' = IF Closes(w) THEN cleared \cup {w} ELSE cleared
  /\ early' = IF TooEarly(w) THEN early + 1 ELSE early
  /\ Goto(w, "final")
  /\ UNCHANGED <<task, journal, session, flight, effects, applied, receipts, used>>

FinalizeExecution(w) ==
  /\ At(w, "final")
  /\ journal' = AdvancedAll(Finalized)
  /\ IF worker[w].after = "complete" THEN Goto(w, "complete") ELSE Ended(w)
  /\ UNCHANGED <<task, ledgerVars, session, flight, historyVars, used>>

\* processTask ignores a failing finalize and goes on.
FinalizeFails(w) ==
  /\ worker[w].at \in {"ack", "clear", "final"}
  /\ Spend("fault", MaxFaults)
  /\ IF worker[w].after = "complete" THEN Goto(w, "complete") ELSE Ended(w)
  /\ UNCHANGED <<task, ledgerVars, journal, session, flight, historyVars>>

\* completeTask: the status the Host outcome leads to, under the lease fence
CompleteTask(w) ==
  LET status == CASE worker[w].outcome = "completed" -> "completed"
                  [] worker[w].outcome = "partial" -> "parked"
                  [] worker[w].outcome = "failed" -> "failed"
                  [] OTHER -> "dead_letter"
  IN /\ At(w, "complete")
     /\ IF Holds(w) /\ task.intent = "none"
          THEN /\ task' = [Left(status) EXCEPT !.answer = worker[w].run]
               /\ Ended(w)
               /\ cleared' = cleared \ {w} /\ UNCHANGED early
          ELSE UNCHANGED task /\ Goto(w, "caught") /\ ClearedInVain(w)
     /\ UNCHANGED <<ledgerVars, journal, session, flight, effects, applied, receipts, used>>

\* The catch block: only a process that noticed its lost lease writes nothing.
CaughtLost(w) ==
  /\ At(w, "caught")
  /\ worker[w].lost
  /\ Ended(w)
  /\ UNCHANGED <<task, ledgerVars, journal, session, flight, historyVars, used>>

\* The Task row is fenced by the lease; the clear of the ledger that follows is not.
CaughtCancel(w) ==
  /\ At(w, "caught")
  /\ ~worker[w].lost /\ Requested(w) = "cancel"
  /\ task' = ControlSettled(w)
  /\ worker' = [worker EXCEPT ![w].at = "ack", ![w].after = "end", ![w].told = "cancel"]
  /\ UNCHANGED <<ledgerVars, journal, session, flight, historyVars, used>>

\* So is the reopening before settleTaskControl.
CaughtPause(w) ==
  /\ At(w, "caught")
  /\ ~worker[w].lost /\ Requested(w) = "pause"
  /\ worker' = [worker EXCEPT ![w].at = "reopen", ![w].after = "end", ![w].told = "pause"]
  /\ UNCHANGED <<task, ledgerVars, journal, session, flight, historyVars, used>>

\* Mutant: the attempts are not counted against the budget.
FailedTaskUnbounded(status) == Left(status)

FailedTask(status) ==
  IF status = "queued" /\ task.attempts >= task.budget THEN Left("dead_letter") ELSE Left(status)

FailTask(w, status) ==
  /\ At(w, "caught")
  /\ ~worker[w].lost /\ Requested(w) = "none"
  /\ task' = IF Holds(w) THEN FailedTask(status) ELSE task
  /\ Ended(w)
  /\ UNCHANGED <<ledgerVars, journal, session, flight, historyVars, used>>

----------------------------------------------------------------------------
(* Leases, crashes, the owner and time *)

\* What the owner asked reaches the process: a message to it, or a look at the row.  The
\* rest of a catch block does not ask for it any more.
HearControl(w) ==
  /\ ~At(w, "idle") /\ ~worker[w].lost /\ worker[w].after # "end"
  /\ task.intent # "none" /\ worker[w].told # Requested(w)
  /\ worker' = [worker EXCEPT ![w].told = Requested(w)]
  /\ UNCHANGED <<task, ledgerVars, journal, session, flight, historyVars, used>>

\* The renew timer: a renewal that is refused makes the holder give up; the rest of a
\* catch block goes on without it.
NoticeLost(w) ==
  /\ ~At(w, "idle") /\ ~worker[w].lost /\ worker[w].after # "end"
  /\ ~Holds(w) \/ task.intent # "none"
  /\ worker' = [worker EXCEPT ![w].lost = TRUE]
  /\ UNCHANGED <<task, ledgerVars, journal, session, flight, historyVars, used>>

\* recoverExpiredTasks: free once the holder is gone or renews no more, else a stall.
RecoverExpired ==
  /\ task.status = "running"
  /\ IF At(task.owner, "idle") \/ worker[task.owner].lost \/ worker[task.owner].after = "end"
       THEN UNCHANGED used
       ELSE used.crash + used.stall < MaxLosses /\ Spend("stall", MaxStalls)
  /\ task' = CASE task.intent = "cancel" -> Left("cancelled")
               [] task.intent = "pause" -> Left("parked")
               [] OTHER -> FailedTask("queued")
  /\ ClearedInVain(task.owner)
  /\ UNCHANGED <<ledgerVars, journal, session, worker, flight, effects, applied, receipts>>

\* A process dies: its operations and its claim to the session die with it.
Crash(w) ==
  /\ ~At(w, "idle") \/ \E c \in Calls : flight[w][c] # "none"
  /\ Spend("crash", MaxLosses - used.stall)
  /\ Ended(w)
  /\ flight' = [flight EXCEPT ![w] = [c \in Calls |-> "none"]]
  /\ session' = IF session.owner = w THEN [session EXCEPT !.owner = NoWorker] ELSE session
  /\ ClearedInVain(w)
  /\ UNCHANGED <<task, ledgerVars, journal, effects, applied, receipts>>

Command(intent) ==
  /\ Spend("owner", MaxOwnerSteps)
  /\ \/ /\ task.status = "running" /\ task.intent \notin {"cancel", intent}
        /\ task' = [task EXCEPT !.intent = intent]
     \/ /\ task.status \in IF intent = "cancel" THEN {"queued", "parked"} ELSE {"queued"}
        /\ task' = Left(IF intent = "cancel" THEN "cancelled" ELSE "parked")
  /\ UNCHANGED <<ledgerVars, journal, session, worker, flight, historyVars>>

Resume ==
  /\ task.status = "parked"
  /\ Spend("owner", MaxOwnerSteps)
  /\ task' = Left("queued")
  /\ UNCHANGED <<ledgerVars, journal, session, worker, flight, historyVars>>

RetryDeadLetter ==
  /\ task.status = "dead_letter"
  /\ Spend("owner", MaxOwnerSteps)
  /\ task' = [Left("queued") EXCEPT !.budget = task.attempts + 1]
  /\ UNCHANGED <<ledgerVars, journal, session, worker, flight, historyVars>>

\* ExecutionLedger.prune, run by the next insert of any run: entries older than the
\* retention go, unless they are started or keyed by a durable event.
Prune ==
  /\ task.status \in {"parked", "dead_letter"}
  /\ \A w \in Workers : At(w, "idle")
  /\ ~EventKeyed
  /\ Spend("age", MaxAges)
  /\ ledger' = [c \in Calls |-> IF ledger[c] = "started" THEN "started" ELSE "absent"]
  /\ receipt' = IF receipt.status = "started" THEN receipt ELSE NoReceipt
  /\ action' = IF action = "started" THEN "started" ELSE "absent"
  /\ early' = early + 1
  /\ UNCHANGED <<task, journal, session, worker, flight, effects, applied, cleared, receipts>>

----------------------------------------------------------------------------
(* The specification *)

ToolStep(w, c) ==
  InvokeTool(w, c) \/ Act(w, c)
    \/ \E status \in {"succeeded", "failed", "uncertain"} : RecordTool(w, c, status)

RecoveryStep(w) == CompletedExecution(w) \/ ReconcileCompletedRun(w) \/ JournalReconciled(w)

RunStep(w) == BeginRun(w) \/ FinishModel(w) \/ StopModel(w)

CommitStep(w) ==
  \/ Prepare(w) \/ CommitReceipt(w) \/ \E whole \in BOOLEAN : StoreReceipt(w, whole)
  \/ JournalReceipt(w) \/ CompleteRun(w) \/ JournalSession(w)
  \/ StartEffect(w) \/ ApplyEffect(w) \/ RecordEffect(w) \/ JournalEffects(w)

FailureStep(w) == PrepareFailure(w) \/ FailRun(w)

FinalStep(w) ==
  \/ Settle(w) \/ ClearReceipt(w) \/ FinalizeReopened(w) \/ SettleTaskControl(w)
  \/ AcknowledgeTask(w) \/ ClearRun(w) \/ FinalizeExecution(w) \/ CompleteTask(w)

CatchStep(w) ==
  \/ CaughtLost(w) \/ CaughtCancel(w) \/ CaughtPause(w)
  \/ \E status \in {"queued", "failed", "dead_letter"} : FailTask(w, status)

\* What an executing process does by itself
Progress(w) ==
  Claim(w) \/ RecoveryStep(w) \/ RunStep(w) \/ CommitStep(w) \/ FailureStep(w)
    \/ FinalStep(w) \/ CatchStep(w)

\* What happens to it
Disturbance(w) ==
  \/ HearControl(w) \/ NoticeLost(w)
  \/ WriteFails(w) \/ ReopenFails(w) \/ FinalizeFails(w) \/ Crash(w)

OwnerStep == (\E intent \in {"pause", "cancel"} : Command(intent)) \/ Resume \/ RetryDeadLetter

Next ==
  \/ \E w \in Workers : Progress(w) \/ Disturbance(w) \/ \E c \in Calls : ToolStep(w, c)
  \/ RecoverExpired \/ OwnerStep \/ Prune

Spec == Init /\ [][Next]_vars

\* A process goes on by itself, a tool returns or is timed out, an expired lease is
\* recovered by the next sweep of the Dispatcher.
FairSpec ==
  /\ Spec
  /\ \A w \in Workers :
       /\ WF_vars(Progress(w))
       /\ \A c \in Calls : WF_vars(\E status \in {"failed", "uncertain"} : RecordTool(w, c, status))
  /\ WF_vars(RecoverExpired)

----------------------------------------------------------------------------
(* Properties *)

\* The promise of the ledger and the recovery protocol: a side-effecting call has its
\* effect once in the life of the Task, whatever crashes and is retried.
NoEffectTwice == \A c \in Calls : effects[c] <= 1

\* No process died or lost its lease, the owner asked nothing, and nothing grew old.
Undisturbed == \A bound \in {"crash", "stall", "owner", "age"} : used[bound] = 0

\* The promise as the code keeps it.  A call, and the runtime action, repeats only for a
\* clear of the ledger that came too early: the process that cleared it to complete the
\* Task died, lost its lease or was refused before it could; a process that no longer
\* held the Task, or was not the only one to run it, cleared it; the retention passed.
\* Without one of these, failing writes and all, nothing repeats.
EffectsAccounted ==
  /\ \A c \in Calls : effects[c] <= 1 + early
  /\ applied <= 1 + early
  /\ Undisturbed => early = 0

\* What a client reads as the answer of the Task is an answer whose receipt was stored
\* first, and so is every completed Session checkpoint: nothing is shown as done
\* that a restart could not show again.
AnswerFromReceipt ==
  /\ task.status = "completed" => task.answer \in receipts
  /\ session.status = "completed" => session.run \in receipts

\* The runtime action of a run (clear the session, exit, switch) never starts while
\* the checkpoint of that run still says it is running.
AppliedAfterSession ==
  [][\A w \in Workers : At(w, "applying") /\ At(w, "recording")' =>
         ~(session.run = worker[w].run /\ session.status \in {"running", "interrupted"})]_vars

\* The model is not asked again while the ledger holds any receipt of this execution,
\* not even one that is unfinished or cannot be read.
NoRerunAfterReceipt ==
  [][\A w \in Workers : ~At(w, "model") /\ At(w, "model")' => receipt.status = "absent"]_vars

\* The commit journal is evidence: a phase never goes back, and the plan of a run is
\* never replaced once its receipt may have been committed.
JournalOnlyForward ==
  [][\A r \in Runs :
       /\ journal'[r].phase >= journal[r].phase
       /\ journal[r].phase > Prepared => journal'[r].plan = journal[r].plan]_vars

\* A call whose outcome is unknown stays in the ledger as long as the Task can run
\* again: only the end of the Task forgets it.
UnknownEffectsFenced ==
  [][\A c \in Calls :
       ledger[c] \in {"started", "uncertain"} /\ ledger'[c] = "absent" =>
         task.status = "cancelled"]_vars

\* One run of the model at a time in a Session, also when a process that lost its
\* lease goes on running.
OneRunPerSession ==
  \A v, w \in Workers : At(v, "model") /\ At(w, "model") => v = w

\* Whatever fails, the Task is settled in the end or waits for its owner.
Settles == <>[](task.status \notin {"queued", "running"})

=============================================================================
