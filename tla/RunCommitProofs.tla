--------------------------- MODULE RunCommitProofs ---------------------------
(* What RunCommit guarantees for every number of workers, calls, runs, crashes and
   failing writes: type correctness, that an answer rests on a stored receipt, that a
   Session runs one model at a time, that a runtime action waits for the checkpoint,
   that the commit journal only moves forward, and that every effect is accounted for.
   For one worker, in addition: a receipt is never run over, and what is unknown stays
   fenced. *)
EXTENDS RunCommit, FiniteSetTheorems, TLAPS

----------------------------------------------------------------------------
(* The inductive invariant *)

\* A worker at these steps still drives the run it began itself.
Own == {"model", "prepare", "receipt", "receipting", "receipted", "session", "sessioned",
        "failing", "rollback"}

Unreceipted == {"model", "prepare", "receipt", "receipting"}

Receipted == {"receipted", "session", "sessioned", "reconcile", "reconciled", "apply",
              "applying", "recording", "applied", "settle", "complete"}

Ending == {"reopen", "reopened", "ack", "clear", "final"}

Checkpointed == {"sessioned", "reconciled", "apply", "applying"}

\* The run of a worker against the checkpoint, the receipts and the journal
WorkerOK(w) ==
  /\ worker[w].run <= session.run
  /\ worker[w].at \in Own => worker[w].run \in Runs
  /\ At(w, "model") => session = [run |-> worker[w].run, owner |-> w, status |-> "running"]
  /\ worker[w].at \in Unreceipted => worker[w].run \notin receipts
  /\ worker[w].at \in Receipted => worker[w].run \in receipts
  /\ worker[w].at \in Ending /\ worker[w].after = "complete" => worker[w].run \in receipts
  /\ worker[w].at \in Checkpointed /\ session.run = worker[w].run =>
       session.status = "completed"
  /\ worker[w].at \in {"model", "prepare"} => journal[worker[w].run].phase = 0

\* No run is driven by two workers.
OwnRuns ==
  \A v, w \in Workers :
    v # w /\ worker[v].at \in Own /\ worker[w].at \in Own => worker[v].run # worker[w].run

\* The stored runs among each other
StoresOK ==
  /\ AnswerFromReceipt
  /\ receipt.status = "succeeded" /\ receipt.whole => receipt.run \in receipts
  /\ receipt.run <= session.run
  /\ \A r \in receipts : r <= session.run
  /\ \A r \in Runs : r > session.run => journal[r].phase = 0

IInv == TypeOK /\ (\A w \in Workers : WorkerOK(w)) /\ OwnRuns /\ StoresOK

----------------------------------------------------------------------------
(* Type correctness *)

BoundNames == {"crash", "fault", "stall", "owner", "age"}

TaskStatuses ==
  {"queued", "running", "parked", "completed", "failed", "cancelled", "dead_letter"}

\* A worker that goes to another step, or ends, keeps the type of its state.
LEMMA WorkerTyped ==
  ASSUME TypeOK, NEW w \in Workers, NEW step \in Steps
  PROVE  /\ Goto(w, step) => worker' \in [Workers -> WorkerStates]
         /\ Ended(w) => worker' \in [Workers -> WorkerStates]
<1>1. [worker EXCEPT ![w].at = step] \in [Workers -> WorkerStates]
  <2>1. worker \in [Workers -> WorkerStates] /\ worker[w] \in WorkerStates
    BY DEF TypeOK
  <2>2. [worker[w] EXCEPT !.at = step] \in WorkerStates
    BY <2>1 DEF WorkerStates
  <2> QED BY <2>1, <2>2
<1>2. Idle \in WorkerStates
  BY DEF Idle, WorkerStates, Steps, Committing, Outcomes, NoRun
<1>3. [worker EXCEPT ![w] = Idle] \in [Workers -> WorkerStates]
  BY <1>2 DEF TypeOK
<1> QED BY <1>1, <1>3 DEF Goto, Ended

\* Every write of the commit journal keeps its type.
LEMMA JournalTyped ==
  ASSUME TypeOK
  PROVE  /\ \A r \in Nat, phase \in 1..7 : Advanced(r, phase) \in [Runs -> JournalEntries]
         /\ \A phase \in 1..7 : AdvancedAll(phase) \in [Runs -> JournalEntries]
         /\ \A r \in Nat, plan \in {"complete", "stopped"} :
              Planned(r, plan) \in [Runs -> JournalEntries]
<1> USE DEF TypeOK, JournalEntries
<1>1. ASSUME NEW r \in Nat, NEW phase \in 1..7
      PROVE  Advanced(r, phase) \in [Runs -> JournalEntries]
  <2>1. CASE r \in Runs
    <3>1. journal[r].phase \in 0..7
      BY <2>1
    <3>2. Greatest(journal[r].phase, phase) \in 0..7
      BY <3>1 DEF Greatest
    <3> QED BY <2>1, <3>2 DEF Advanced
  <2>2. CASE r \notin Runs
    BY <2>2 DEF Advanced
  <2> QED BY <2>1, <2>2
<1>2. \A phase \in 1..7 : AdvancedAll(phase) \in [Runs -> JournalEntries]
  BY DEF AdvancedAll
<1>3. ASSUME NEW r \in Nat, NEW plan \in {"complete", "stopped"}
      PROVE  Planned(r, plan) \in [Runs -> JournalEntries]
  <2>1. [phase |-> Prepared, plan |-> plan] \in JournalEntries
    BY DEF Prepared
  <2> QED BY <2>1 DEF Planned
<1> QED BY <1>1, <1>2, <1>3

LEMMA TaskTyped ==
  ASSUME TypeOK, NEW status \in TaskStatuses
  PROVE  /\ Left(status) \in TaskRows /\ FailedTask(status) \in TaskRows
         /\ \A w \in Workers : ControlSettled(w) \in TaskRows
<1>1. \A s \in TaskStatuses : Left(s) \in TaskRows
  BY DEF TypeOK, TaskRows, TaskStatuses, Left
<1> QED BY <1>1 DEF FailedTask, ControlSettled, TaskStatuses, TypeOK

\* What the owner asked is one of the three answers, and a clear in vain a count.
LEMMA ControlTyped ==
  ASSUME TypeOK, NEW w \in Workers
  PROVE  Requested(w) \in {"none", "pause", "cancel"}
BY DEF Requested

LEMMA ClearTyped ==
  ASSUME TypeOK, NEW w, ClearedInVain(w)
  PROVE  cleared' \subseteq Workers /\ early' \in Nat
BY DEF TypeOK, ClearedInVain

LEMMA SpendTyped ==
  ASSUME TypeOK, NEW bound \in BoundNames, NEW max, Spend(bound, max)
  PROVE  used' \in [crash : Nat, fault : Nat, stall : Nat, owner : Nat, age : Nat]
BY DEF TypeOK, Spend, BoundNames

LEMMA RunTyped ==
  ASSUME TypeOK, NEW w \in Workers
  PROVE  worker[w].run \in Nat /\ session.run \in Nat
<1>1. worker[w].run \in Runs \cup {NoRun} /\ session.run \in Runs \cup {NoRun}
  BY DEF TypeOK, WorkerStates, Checkpoints
<1> QED BY <1>1, RunCommitAssumption DEF Runs, NoRun

LEMMA TypeStep ==
  ASSUME IInv, [Next]_vars PROVE TypeOK'
<1>0. TypeOK
  BY DEF IInv
<1> USE <1>0 DEF TypeOK, ledgerVars, historyVars, clearVars
<1>1. ASSUME NEW w \in Workers, Claim(w) PROVE TypeOK'
  <2>1. task.attempts + 1 \in Nat
    BY <1>1 DEF TaskRows
  <2>2. task' \in TaskRows
    BY <1>1, <2>1 DEF Claim, TaskRows
  <2>3. worker' \in [Workers -> WorkerStates]
    BY <1>1, WorkerTyped DEF Claim, Steps
  <2> QED BY <1>1, <2>1, <2>2, <2>3 DEF Claim
<1>2. ASSUME NEW w \in Workers, CompletedExecution(w) PROVE TypeOK'
  <2>1. worker[w] \in WorkerStates /\ receipt \in ReceiptEntries
    OBVIOUS
  <2>2. worker' \in [Workers -> WorkerStates]
    BY <1>2, <2>1 DEF CompletedExecution, WorkerStates, ReceiptEntries, Steps
  <2> QED BY <1>2, <2>1, <2>2 DEF CompletedExecution
<1>3. ASSUME NEW w \in Workers, ReconcileCompletedRun(w) PROVE TypeOK'
  BY <1>3, WorkerTyped DEF ReconcileCompletedRun, Checkpoints, Steps, Committing
<1>4. ASSUME NEW w \in Workers, JournalReconciled(w) PROVE TypeOK'
  <2>1. journal' \in [Runs -> JournalEntries]
    BY <1>4, JournalTyped, RunTyped DEF JournalReconciled, SessionCommitted
  <2>2. worker' \in [Workers -> WorkerStates]
    BY <1>4, WorkerTyped DEF JournalReconciled, Steps
  <2> QED BY <1>4, <2>1, <2>2 DEF JournalReconciled
<1>5. ASSUME NEW w \in Workers, BeginRun(w) PROVE TypeOK'
  <2>1. session' \in Checkpoints
    BY <1>5, RunTyped DEF BeginRun, Checkpoints
  <2>2. worker[w] \in WorkerStates
    OBVIOUS
  <2>3. \A r \in Runs : [worker EXCEPT ![w].at = "model", ![w].run = r] \in [Workers -> WorkerStates]
    BY <1>5, <2>2 DEF WorkerStates, Steps
  <2>4. LiveOther(w) => worker' \in [Workers -> WorkerStates]
    BY <1>5, WorkerTyped DEF BeginRun, Steps
  <2>5. ~LiveOther(w) => \E r \in Runs : worker' = [worker EXCEPT ![w].at = "model", ![w].run = r]
    BY <1>5 DEF BeginRun
  <2>6. ~LiveOther(w) => worker' \in [Workers -> WorkerStates]
    BY <2>3, <2>5
  <2> QED BY <1>5, <2>1, <2>2, <2>3, <2>4, <2>5, <2>6 DEF BeginRun
<1>6. ASSUME NEW w \in Workers, NEW c \in Calls, InvokeTool(w, c) PROVE TypeOK'
  BY <1>6 DEF InvokeTool, EntryStatuses
<1>7. ASSUME NEW w \in Workers, NEW c \in Calls, Act(w, c) PROVE TypeOK'
  BY <1>7 DEF Act
<1>8. ASSUME NEW w \in Workers, NEW c \in Calls,
             NEW status \in {"succeeded", "failed", "uncertain"}, RecordTool(w, c, status)
      PROVE  TypeOK'
  BY <1>8 DEF RecordTool, EntryStatuses
<1>9. ASSUME NEW w \in Workers, FinishModel(w) PROVE TypeOK'
  <2>1. OutcomesOfCalls \subseteq Outcomes
    BY <1>9 DEF OutcomesOfCalls, Outcomes
  <2>2. PICK outcome \in Outcomes :
          worker' = [worker EXCEPT ![w].at = "prepare", ![w].outcome = outcome]
    BY <1>9, <2>1 DEF FinishModel
  <2>3. worker[w] \in WorkerStates
    OBVIOUS
  <2>4. worker' \in [Workers -> WorkerStates]
    BY <1>9, <2>2, <2>3 DEF WorkerStates, Steps, Committing
  <2> QED BY <1>9, <2>1, <2>2, <2>3, <2>4 DEF FinishModel
<1>10. ASSUME NEW w \in Workers, StopModel(w) PROVE TypeOK'
  BY <1>10, WorkerTyped DEF StopModel, Steps, Committing
<1>11. ASSUME NEW w \in Workers, Prepare(w) PROVE TypeOK'
  <2>1. journal' \in [Runs -> JournalEntries]
    BY <1>11, JournalTyped, RunTyped DEF Prepare
  <2>2. worker' \in [Workers -> WorkerStates]
    BY <1>11, WorkerTyped DEF Prepare, Steps, Committing
  <2> QED BY <1>11, <2>1, <2>2 DEF Prepare
<1>12. ASSUME NEW w \in Workers, CommitReceipt(w) PROVE TypeOK'
  <2>1. worker[w] \in WorkerStates
    OBVIOUS
  <2>2. receipt' \in ReceiptEntries
    <3>1. worker[w].run \in Runs \cup {NoRun} /\ worker[w].outcome \in Outcomes
      BY <2>1 DEF WorkerStates
    <3>2. [NoReceipt EXCEPT !.status = "started", !.run = worker[w].run,
                            !.outcome = worker[w].outcome] \in ReceiptEntries
      BY <3>1 DEF ReceiptEntries, NoReceipt, EntryStatuses
    <3> QED BY <1>12, <3>2 DEF CommitReceipt
  <2>3. worker' \in [Workers -> WorkerStates]
    BY <1>12, WorkerTyped DEF CommitReceipt, Steps, Committing
  <2> QED BY <1>12, <2>1, <2>2, <2>3 DEF CommitReceipt
<1>13. ASSUME NEW w \in Workers, NEW whole \in BOOLEAN, StoreReceipt(w, whole) PROVE TypeOK'
  <2>1. receipt' \in ReceiptEntries
    BY <1>13 DEF StoreReceipt, ReceiptEntries, EntryStatuses
  <2>2. worker[w].run \in Runs
    BY <1>13 DEF StoreReceipt, IInv, WorkerOK, Own, At
  <2>3. receipts' \subseteq Runs
    BY <1>13, <2>2 DEF StoreReceipt
  <2>4. worker' \in [Workers -> WorkerStates]
    BY <1>13, WorkerTyped DEF StoreReceipt, Steps, Committing
  <2> QED BY <1>13, <2>1, <2>2, <2>3, <2>4 DEF StoreReceipt
<1>14. ASSUME NEW w \in Workers, JournalReceipt(w) PROVE TypeOK'
  <2>1. journal' \in [Runs -> JournalEntries]
    BY <1>14, JournalTyped, RunTyped DEF JournalReceipt, ReceiptCommitted
  <2>2. worker' \in [Workers -> WorkerStates]
    BY <1>14, WorkerTyped DEF JournalReceipt, Steps, Committing
  <2> QED BY <1>14, <2>1, <2>2 DEF JournalReceipt
<1>15. ASSUME NEW w \in Workers, CompleteRun(w) PROVE TypeOK'
  BY <1>15, WorkerTyped DEF CompleteRun, Checkpoints, Steps, Committing
<1>16. ASSUME NEW w \in Workers, JournalSession(w) PROVE TypeOK'
  <2>1. journal' \in [Runs -> JournalEntries]
    BY <1>16, JournalTyped, RunTyped DEF JournalSession, GoalCommitted
  <2>2. worker' \in [Workers -> WorkerStates]
    BY <1>16, WorkerTyped DEF JournalSession, Steps, Committing
  <2> QED BY <1>16, <2>1, <2>2 DEF JournalSession
<1>17. ASSUME NEW w \in Workers, StartEffect(w) PROVE TypeOK'
  BY <1>17, WorkerTyped DEF StartEffect, EntryStatuses, Steps, Committing
<1>18. ASSUME NEW w \in Workers, ApplyEffect(w) PROVE TypeOK'
  BY <1>18, WorkerTyped DEF ApplyEffect, Steps, Committing
<1>19. ASSUME NEW w \in Workers, RecordEffect(w) PROVE TypeOK'
  BY <1>19, WorkerTyped DEF RecordEffect, EntryStatuses, Steps, Committing
<1>20. ASSUME NEW w \in Workers, JournalEffects(w) PROVE TypeOK'
  <2>1. journal' \in [Runs -> JournalEntries]
    BY <1>20, JournalTyped, RunTyped DEF JournalEffects, EffectsApplied
  <2>2. worker' \in [Workers -> WorkerStates]
    BY <1>20, WorkerTyped DEF JournalEffects, Steps
  <2> QED BY <1>20, <2>1, <2>2 DEF JournalEffects
<1>21. ASSUME NEW w \in Workers, PrepareFailure(w) PROVE TypeOK'
  <2>1. journal' \in [Runs -> JournalEntries]
    BY <1>21, JournalTyped, RunTyped DEF PrepareFailure
  <2>2. worker' \in [Workers -> WorkerStates]
    BY <1>21, WorkerTyped DEF PrepareFailure, Steps, Committing
  <2> QED BY <1>21, <2>1, <2>2 DEF PrepareFailure
<1>22. ASSUME NEW w \in Workers, FailRun(w) PROVE TypeOK'
  <2>1. journal' \in [Runs -> JournalEntries]
    BY <1>22, JournalTyped, RunTyped DEF FailRun, SessionCommitted
  <2>2. session' \in Checkpoints
    BY <1>22 DEF FailRun, Checkpoints
  <2>3. worker' \in [Workers -> WorkerStates]
    BY <1>22, WorkerTyped DEF FailRun, Steps
  <2> QED BY <1>22, <2>1, <2>2, <2>3 DEF FailRun
<1>23. ASSUME NEW w \in Workers, Settle(w) PROVE TypeOK'
  <2>1. worker[w] \in WorkerStates
    OBVIOUS
  <2>2. worker' \in [Workers -> WorkerStates]
    BY <1>23, <2>1, ControlTyped DEF Settle, WorkerStates, Steps
  <2> QED BY <1>23, <2>1, <2>2 DEF Settle
<1>24. ASSUME NEW w \in Workers, ClearReceipt(w) PROVE TypeOK'
  BY <1>24, WorkerTyped DEF ClearReceipt, ReceiptEntries, NoReceipt, EntryStatuses, NoRun,
     Outcomes, Steps, Committing
<1>25. ASSUME NEW w \in Workers, FinalizeReopened(w) PROVE TypeOK'
  <2>1. journal' \in [Runs -> JournalEntries]
    BY <1>25, JournalTyped, RunTyped DEF FinalizeReopened, Finalized
  <2>2. worker' \in [Workers -> WorkerStates]
    BY <1>25, WorkerTyped DEF FinalizeReopened, Steps, Committing
  <2> QED BY <1>25, <2>1, <2>2 DEF FinalizeReopened
<1>26. ASSUME NEW w \in Workers, SettleTaskControl(w) PROVE TypeOK'
  BY <1>26, WorkerTyped, TaskTyped DEF SettleTaskControl, TaskStatuses, Steps, Committing
<1>27. ASSUME NEW w \in Workers, AcknowledgeTask(w) PROVE TypeOK'
  <2>1. journal' \in [Runs -> JournalEntries]
    BY <1>27, JournalTyped, RunTyped DEF AcknowledgeTask, TaskCommitted
  <2>2. worker' \in [Workers -> WorkerStates]
    BY <1>27, WorkerTyped DEF AcknowledgeTask, Steps, Committing
  <2> QED BY <1>27, <2>1, <2>2 DEF AcknowledgeTask
<1>28. ASSUME NEW w \in Workers, ClearRun(w) PROVE TypeOK'
  <2>1. cleared' \subseteq Workers /\ early' \in Nat
    BY <1>28 DEF ClearRun
  <2> QED BY <1>28, <2>1, WorkerTyped DEF ClearRun, ReceiptEntries, NoReceipt, EntryStatuses,
     NoRun, Outcomes, Steps, Committing
<1>29. ASSUME NEW w \in Workers, FinalizeExecution(w) PROVE TypeOK'
  <2>1. journal' \in [Runs -> JournalEntries]
    BY <1>29, JournalTyped, RunTyped DEF FinalizeExecution, Finalized
  <2>2. worker' \in [Workers -> WorkerStates]
    BY <1>29, WorkerTyped DEF FinalizeExecution, Steps, Committing
  <2> QED BY <1>29, <2>1, <2>2 DEF FinalizeExecution
<1>30. ASSUME NEW w \in Workers, CompleteTask(w) PROVE TypeOK'
  <2>1. worker[w].run \in Runs \cup {NoRun}
    BY <1>30 DEF WorkerStates
  <2>2. \A status \in TaskStatuses : [Left(status) EXCEPT !.answer = worker[w].run] \in TaskRows
    BY <1>30, <2>1, TaskTyped DEF TaskRows
  <2>3. task' \in TaskRows
    BY <1>30, <2>2 DEF CompleteTask, TaskStatuses
  <2>4. worker' \in [Workers -> WorkerStates]
    BY <1>30, WorkerTyped DEF CompleteTask, Steps
  <2>5. cleared' \subseteq Workers /\ early' \in Nat
    BY <1>30, ClearTyped DEF CompleteTask
  <2> QED BY <1>30, <2>1, <2>2, <2>3, <2>4, <2>5 DEF CompleteTask
<1>31. ASSUME NEW w \in Workers, CaughtLost(w) PROVE TypeOK'
  BY <1>31, WorkerTyped DEF CaughtLost, Steps, Committing
<1>32. ASSUME NEW w \in Workers, CaughtCancel(w) PROVE TypeOK'
  <2>1. task' \in TaskRows
    BY <1>32, TaskTyped DEF CaughtCancel, TaskStatuses
  <2>2. worker[w] \in WorkerStates
    OBVIOUS
  <2>3. worker' \in [Workers -> WorkerStates]
    BY <1>32, <2>2 DEF CaughtCancel, WorkerStates, Steps
  <2> QED BY <1>32, <2>1, <2>2, <2>3 DEF CaughtCancel
<1>33. ASSUME NEW w \in Workers, CaughtPause(w) PROVE TypeOK'
  <2>1. worker[w] \in WorkerStates
    OBVIOUS
  <2>2. worker' \in [Workers -> WorkerStates]
    BY <1>33, <2>1 DEF CaughtPause, WorkerStates, Steps
  <2> QED BY <1>33, <2>1, <2>2 DEF CaughtPause
<1>34. ASSUME NEW w \in Workers, NEW status \in {"queued", "failed", "dead_letter"},
              FailTask(w, status)
       PROVE  TypeOK'
  BY <1>34, WorkerTyped, TaskTyped DEF FailTask, TaskStatuses, Steps, Committing
<1>35. ASSUME NEW w \in Workers, NoticeLost(w) PROVE TypeOK'
  <2>1. worker \in [Workers -> WorkerStates] /\ worker[w] \in WorkerStates
    OBVIOUS
  <2>2. [worker[w] EXCEPT !.lost = TRUE] \in WorkerStates
    BY <2>1 DEF WorkerStates
  <2>3. worker' \in [Workers -> WorkerStates]
    BY <1>35, <2>1, <2>2 DEF NoticeLost
  <2> QED BY <1>35, <2>3 DEF NoticeLost
<1>46. ASSUME NEW w \in Workers, HearControl(w) PROVE TypeOK'
  <2>1. worker \in [Workers -> WorkerStates] /\ worker[w] \in WorkerStates
    OBVIOUS
  <2>2. [worker[w] EXCEPT !.told = Requested(w)] \in WorkerStates
    BY <2>1, ControlTyped DEF WorkerStates
  <2>3. worker' \in [Workers -> WorkerStates]
    BY <1>46, <2>1, <2>2 DEF HearControl
  <2> QED BY <1>46, <2>3 DEF HearControl
<1>36. ASSUME NEW w \in Workers, WriteFails(w) PROVE TypeOK'
  BY <1>36, WorkerTyped, SpendTyped DEF WriteFails, BoundNames, ReceiptEntries, EntryStatuses,
     Steps, Committing
<1>37. ASSUME NEW w \in Workers, ReopenFails(w) PROVE TypeOK'
  BY <1>37, WorkerTyped, SpendTyped DEF ReopenFails, BoundNames, Steps, Committing
<1>38. ASSUME NEW w \in Workers, FinalizeFails(w) PROVE TypeOK'
  BY <1>38, WorkerTyped, SpendTyped DEF FinalizeFails, BoundNames, Steps, Committing
<1>39. ASSUME NEW w \in Workers, Crash(w) PROVE TypeOK'
  BY <1>39, WorkerTyped, SpendTyped, ClearTyped DEF Crash, BoundNames, Checkpoints, Steps,
     Committing
<1>40. ASSUME RecoverExpired PROVE TypeOK'
  BY <1>40, TaskTyped, SpendTyped, ClearTyped DEF RecoverExpired, BoundNames, TaskStatuses
<1>41. ASSUME NEW intent \in {"pause", "cancel"}, Command(intent) PROVE TypeOK'
  <2>1. [task EXCEPT !.intent = intent] \in TaskRows
    BY <1>41 DEF TaskRows
  <2>2. task' \in TaskRows
    BY <1>41, <2>1, TaskTyped DEF Command, TaskStatuses
  <2>3. used' \in [crash : Nat, fault : Nat, stall : Nat, owner : Nat, age : Nat]
    BY <1>41, SpendTyped DEF Command, BoundNames
  <2> QED BY <1>41, <2>1, <2>2, <2>3 DEF Command
<1>42. ASSUME Resume PROVE TypeOK'
  BY <1>42, TaskTyped, SpendTyped DEF Resume, BoundNames, TaskStatuses
<1>43. ASSUME RetryDeadLetter PROVE TypeOK'
  <2>1. Left("queued") \in TaskRows
    BY <1>43, TaskTyped DEF TaskStatuses
  <2>2. task.attempts + 1 \in Nat
    BY <1>43 DEF TaskRows
  <2>3. task' \in TaskRows
    BY <1>43, <2>1, <2>2 DEF RetryDeadLetter, TaskRows
  <2>4. used' \in [crash : Nat, fault : Nat, stall : Nat, owner : Nat, age : Nat]
    BY <1>43, SpendTyped DEF RetryDeadLetter, BoundNames
  <2> QED BY <1>43, <2>1, <2>2, <2>3, <2>4 DEF RetryDeadLetter
<1>44. ASSUME Prune PROVE TypeOK'
  BY <1>44, SpendTyped DEF Prune, BoundNames, ReceiptEntries, NoReceipt, EntryStatuses, NoRun,
     Outcomes
<1>45. ASSUME UNCHANGED vars PROVE TypeOK'
  BY <1>45 DEF vars
<1> QED BY <1>1, <1>2, <1>3, <1>4, <1>5, <1>6, <1>7, <1>8, <1>9, <1>10, <1>11, <1>12, <1>13,
   <1>14, <1>15, <1>16, <1>17, <1>18, <1>19, <1>20, <1>21, <1>22, <1>23, <1>24, <1>25, <1>26,
   <1>27, <1>28, <1>29, <1>30, <1>31, <1>32, <1>33, <1>34, <1>35, <1>36, <1>37, <1>38, <1>39,
   <1>40, <1>41, <1>42, <1>43, <1>44, <1>45, <1>46
  DEF Next, Progress, RecoveryStep, RunStep, CommitStep, FailureStep, FinalStep, CatchStep,
      Disturbance, OwnerStep, ToolStep

----------------------------------------------------------------------------
(* Steps that leave the checkpoint and the set of receipts alone *)

AnswerKept == task'.status = "completed" => task'.answer \in receipts

ReceiptKept ==
  /\ receipt'.status = "succeeded" /\ receipt'.whole => receipt'.run \in receipts
  /\ receipt'.run <= session.run

\* A worker moves on: it keeps its run while it drives one, and of the runs without a
\* journal entry it can only enter its own.
Harmless(w) ==
  /\ UNCHANGED <<session, receipts>>
  /\ \A v \in Workers \ {w} : worker'[v] = worker[v]
  /\ worker'[w].at \in Own => worker[w].at \in Own /\ worker'[w].run = worker[w].run
  /\ WorkerOK(w)'
  /\ \A r \in Runs : journal[r].phase = 0 /\ journal'[r].phase # 0 =>
       r = worker[w].run /\ worker[w].at \in Own \cup Receipted
  /\ AnswerKept /\ ReceiptKept

LEMMA HarmlessKeepsIInv ==
  ASSUME IInv, TypeOK', NEW w \in Workers, Harmless(w)
  PROVE  IInv'
<1>1. ASSUME NEW v \in Workers PROVE WorkerOK(v)'
  <2>1. CASE v = w
    BY <2>1 DEF Harmless
  <2>2. CASE v # w
    <3>1. WorkerOK(v) /\ WorkerOK(w) /\ worker'[v] = worker[v] /\ UNCHANGED <<session, receipts>>
      BY <2>2 DEF Harmless, IInv
    <3>2. ASSUME worker[v].at \in {"model", "prepare"} PROVE journal'[worker[v].run].phase = 0
      <4>1. worker[v].run \in Runs /\ worker[v].run \notin receipts /\ worker[v].at \in Own
        BY <3>1, <3>2 DEF WorkerOK, Own, Unreceipted
      <4>2. journal[worker[v].run].phase = 0
        BY <3>1, <3>2 DEF WorkerOK
      <4>3. worker[w].at \in Own \cup Receipted => worker[w].run # worker[v].run
        BY <2>2, <3>1, <4>1 DEF WorkerOK, IInv, OwnRuns
      <4> QED BY <4>1, <4>2, <4>3 DEF Harmless
    <3> QED BY <3>1, <3>2 DEF WorkerOK, At
  <2> QED BY <2>1, <2>2
<1>2. OwnRuns'
  BY DEF Harmless, IInv, OwnRuns
<1>3. StoresOK'
  <2>1. \A r \in Runs : r > session'.run => journal'[r].phase = 0
    <3>1. WorkerOK(w) /\ UNCHANGED session
      BY DEF IInv, Harmless
    <3>2. worker[w].run <= session.run
      BY <3>1 DEF WorkerOK
    <3>3. \A r \in Runs : r > session.run => r # worker[w].run
      BY <3>2, RunTyped, RunCommitAssumption DEF Runs, IInv
    <3> QED BY <3>1, <3>3 DEF Harmless, IInv, StoresOK
  <2> QED BY <2>1 DEF Harmless, AnswerKept, ReceiptKept, IInv, StoresOK, AnswerFromReceipt
<1> QED BY <1>1, <1>2, <1>3 DEF IInv

\* What happens outside the workers: they, the stores and the journal stay as they are.
LEMMA ElsewhereKeepsIInv ==
  ASSUME IInv, TypeOK', UNCHANGED <<worker, session, receipts, journal>>, AnswerKept, ReceiptKept
  PROVE  IInv'
<1>1. \A w \in Workers : WorkerOK(w)'
  BY DEF IInv, WorkerOK, At
<1>2. OwnRuns' /\ StoresOK'
  BY DEF IInv, OwnRuns, StoresOK, AnswerFromReceipt, AnswerKept, ReceiptKept
<1> QED BY <1>1, <1>2 DEF IInv

\* What Goto and Ended leave of the worker's state
LEMMA Moves ==
  ASSUME TypeOK, NEW w \in Workers, NEW step
  PROVE  /\ Goto(w, step) => /\ worker'[w] = [worker[w] EXCEPT !.at = step]
                             /\ worker'[w].at = step
                             /\ worker'[w].run = worker[w].run
                             /\ worker'[w].after = worker[w].after
                             /\ \A v \in Workers \ {w} : worker'[v] = worker[v]
         /\ Ended(w) => /\ worker'[w] = Idle
                        /\ \A v \in Workers \ {w} : worker'[v] = worker[v]
BY ZenonT(40) DEF TypeOK, WorkerStates, Goto, Ended

\* The stores as a harmless step may change them
StoresKept(w) ==
  /\ UNCHANGED <<session, receipts>>
  /\ \A r \in Runs : journal[r].phase = 0 /\ journal'[r].phase # 0 =>
       r = worker[w].run /\ worker[w].at \in Own \cup Receipted
  /\ AnswerKept /\ ReceiptKept

LEMMA EndedHarmless ==
  ASSUME IInv, NEW w \in Workers, Ended(w), StoresKept(w)
  PROVE  Harmless(w)
<1>1. worker'[w] = Idle /\ \A v \in Workers \ {w} : worker'[v] = worker[v]
  BY Moves DEF IInv
<1>2. session'.run \in Nat
  BY RunTyped DEF StoresKept, IInv
<1>3. WorkerOK(w)'
  BY <1>1, <1>2 DEF WorkerOK, At, Idle, NoRun, Own, Unreceipted, Receipted, Ending, Checkpointed
<1> QED BY <1>1, <1>3 DEF Harmless, StoresKept, Idle, Own

\* A step to "receipting", "failing", "caught", "complete" and the like
LEMMA GotoHarmless ==
  ASSUME IInv, NEW w \in Workers, NEW step, Goto(w, step), StoresKept(w),
         step \notin Checkpointed \cup {"model", "prepare"},
         step \in Own => worker[w].at \in Own,
         step \in Unreceipted => worker[w].at \in Unreceipted,
         step \in Receipted \cup Ending => worker[w].run \in receipts
  PROVE  Harmless(w)
<1>1. /\ worker'[w].at = step
      /\ worker'[w].run = worker[w].run
      /\ \A v \in Workers \ {w} : worker'[v] = worker[v]
  BY Moves DEF IInv
<1>2. WorkerOK(w) /\ UNCHANGED <<session, receipts>>
  BY DEF IInv, StoresKept
<1>3. WorkerOK(w)'
  BY <1>1, <1>2 DEF WorkerOK, At
<1> QED BY <1>1, <1>3 DEF Harmless, StoresKept

LEMMA BranchingSteps ==
  ASSUME IInv, NEW w \in Workers
  PROVE  /\ CommitReceipt(w) => Harmless(w)
         /\ PrepareFailure(w) => Harmless(w)
         /\ FinalizeExecution(w) => Harmless(w)
         /\ FinalizeFails(w) => Harmless(w)
         /\ CompleteTask(w) => Harmless(w)
         /\ WriteFails(w) => Harmless(w)
<1>1. WorkerOK(w) /\ StoresOK /\ TypeOK
  BY DEF IInv
<1> DEFINE Quiet == UNCHANGED <<task, receipt, session, journal, receipts>>
<1>2. Quiet => StoresKept(w)
  BY <1>1 DEF StoresKept, AnswerKept, ReceiptKept, StoresOK, AnswerFromReceipt
<1>3. ASSUME CommitReceipt(w) PROVE Harmless(w)
  <2>1. worker[w].at = "receipt"
    BY <1>3 DEF CommitReceipt, At
  <2>2. CASE receipt.status = "absent"
    <3>1. receipt'.status = "started" /\ receipt'.run = worker[w].run /\ Goto(w, "receipting")
      BY <1>3, <2>2 DEF CommitReceipt, NoReceipt
    <3>2. StoresKept(w)
      BY <1>1, <1>3, <3>1
      DEF StoresKept, AnswerKept, ReceiptKept, StoresOK, AnswerFromReceipt, WorkerOK,
          CommitReceipt, historyVars, clearVars
    <3> QED BY <2>1, <3>1, <3>2, GotoHarmless
        DEF Own, Unreceipted, Receipted, Ending, Checkpointed
  <2>3. CASE receipt.status # "absent"
    <3>1. Quiet /\ Goto(w, "failing")
      BY <1>3, <2>3 DEF CommitReceipt, historyVars, clearVars
    <3> QED BY <1>2, <2>1, <3>1, GotoHarmless
        DEF Own, Unreceipted, Receipted, Ending, Checkpointed
  <2> QED BY <2>2, <2>3
<1>4. ASSUME PrepareFailure(w) PROVE Harmless(w)
  <2>1. worker[w].at = "failing" /\ UNCHANGED <<task, receipt, session, receipts>>
    BY <1>4 DEF PrepareFailure, At, ledgerVars, historyVars, clearVars
  <2>2. CASE journal[worker[w].run].phase <= Prepared
    <3>1. journal' = Planned(worker[w].run, "stopped") /\ Goto(w, "rollback")
      BY <1>4, <2>2 DEF PrepareFailure
    <3>2. \A r \in Runs : r # worker[w].run => journal'[r] = journal[r]
      BY <1>1, <3>1 DEF Planned, TypeOK
    <3>3. StoresKept(w)
      BY <1>1, <2>1, <3>2
      DEF StoresKept, AnswerKept, ReceiptKept, StoresOK, AnswerFromReceipt, Own
    <3> QED BY <2>1, <3>1, <3>3, GotoHarmless
        DEF Own, Unreceipted, Receipted, Ending, Checkpointed
  <2>3. CASE ~(journal[worker[w].run].phase <= Prepared)
    <3>1. Quiet /\ Goto(w, "caught")
      BY <1>4, <2>1, <2>3 DEF PrepareFailure
    <3> QED BY <1>2, <3>1, GotoHarmless
        DEF Own, Unreceipted, Receipted, Ending, Checkpointed
  <2> QED BY <2>2, <2>3
<1>5. ASSUME FinalizeExecution(w) \/ FinalizeFails(w) PROVE Harmless(w)
  <2>1. /\ worker[w].at \in Ending
        /\ UNCHANGED <<task, receipt, session, receipts>>
        /\ journal' = AdvancedAll(Finalized) \/ UNCHANGED journal
    BY <1>5 DEF FinalizeExecution, FinalizeFails, At, Ending, ledgerVars, historyVars, clearVars
  <2>2. \A r \in Runs : journal[r].phase = 0 => journal'[r].phase = 0
    BY <2>1 DEF AdvancedAll
  <2>3. StoresKept(w)
    BY <1>1, <2>1, <2>2 DEF StoresKept, AnswerKept, ReceiptKept, StoresOK, AnswerFromReceipt
  <2>4. CASE worker[w].after = "complete"
    <3>1. Goto(w, "complete") /\ worker[w].run \in receipts
      BY <1>1, <1>5, <2>1, <2>4 DEF FinalizeExecution, FinalizeFails, WorkerOK
    <3> QED BY <2>3, <3>1, GotoHarmless DEF Own, Unreceipted, Receipted, Ending, Checkpointed
  <2>5. CASE worker[w].after # "complete"
    <3>1. Ended(w)
      BY <1>5, <2>5 DEF FinalizeExecution, FinalizeFails
    <3> QED BY <2>3, <3>1, EndedHarmless
  <2> QED BY <2>4, <2>5
<1>6. ASSUME CompleteTask(w) PROVE Harmless(w)
  <2>1. worker[w].run \in receipts /\ UNCHANGED <<receipt, session, journal, receipts>>
    BY <1>1, <1>6 DEF CompleteTask, WorkerOK, At, Receipted, ledgerVars, historyVars, clearVars
  <2>2. CASE Holds(w) /\ task.intent = "none"
    <3>1. task'.answer = worker[w].run /\ Ended(w)
      BY <1>1, <1>6, <2>2 DEF CompleteTask, Left, TypeOK, TaskRows
    <3>2. StoresKept(w)
      BY <1>1, <2>1, <3>1 DEF StoresKept, AnswerKept, ReceiptKept, StoresOK
    <3> QED BY <3>1, <3>2, EndedHarmless
  <2>3. CASE ~(Holds(w) /\ task.intent = "none")
    <3>1. Quiet /\ Goto(w, "caught")
      BY <1>6, <2>1, <2>3 DEF CompleteTask
    <3> QED BY <1>2, <3>1, GotoHarmless DEF Own, Unreceipted, Receipted, Ending, Checkpointed
  <2> QED BY <2>2, <2>3
<1>7. ASSUME WriteFails(w) PROVE Harmless(w)
  <2>1. /\ UNCHANGED <<task, session, journal, receipts>>
        /\ \/ UNCHANGED receipt
           \/ receipt' = [receipt EXCEPT !.status = "failed"]
    BY <1>7 DEF WriteFails, ledgerVars, historyVars, clearVars
  <2>2. StoresKept(w)
    BY <1>1, <2>1
    DEF StoresKept, AnswerKept, ReceiptKept, StoresOK, AnswerFromReceipt, TypeOK, ReceiptEntries
  <2>3. CASE worker[w].at \in Committing /\ Goto(w, "failing")
    BY <2>2, <2>3, GotoHarmless
    DEF Committing, Own, Unreceipted, Receipted, Ending, Checkpointed
  <2>4. CASE Goto(w, "caught")
    BY <2>2, <2>4, GotoHarmless DEF Own, Unreceipted, Receipted, Ending, Checkpointed
  <2> QED BY <1>7, <2>3, <2>4 DEF WriteFails
<1> QED BY <1>3, <1>4, <1>5, <1>6, <1>7

\* The steps of a worker that change neither the checkpoint nor the receipts
HarmlessActions(w) ==
  \/ Claim(w) \/ CompletedExecution(w) \/ JournalReconciled(w) \/ FinishModel(w)
  \/ StopModel(w) \/ Prepare(w) \/ CommitReceipt(w) \/ JournalReceipt(w)
  \/ JournalSession(w) \/ StartEffect(w) \/ ApplyEffect(w) \/ RecordEffect(w)
  \/ JournalEffects(w) \/ PrepareFailure(w) \/ FinalStep(w) \/ CatchStep(w)
  \/ HearControl(w) \/ NoticeLost(w) \/ WriteFails(w) \/ ReopenFails(w) \/ FinalizeFails(w)

LEMMA HarmlessStep ==
  ASSUME IInv, TypeOK', NEW w \in Workers, HarmlessActions(w)
  PROVE  Harmless(w)
<1> USE DEF Harmless, AnswerKept, ReceiptKept, IInv, TypeOK, WorkerOK, StoresOK,
            AnswerFromReceipt, At, Goto, Ended, Idle,
   Own, Unreceipted, Receipted, Ending, Checkpointed, ledgerVars, historyVars, clearVars, NoRun
<1>1. ASSUME Claim(w) PROVE Harmless(w)
  BY <1>1, RunTyped, SMTT(20) DEF Claim
<1>2. ASSUME CompletedExecution(w) PROVE Harmless(w)
  BY <1>2, RunTyped, SMTT(20) DEF CompletedExecution, Acceptable, StoresOK
<1>3. ASSUME JournalReconciled(w) PROVE Harmless(w)
  BY <1>3, RunTyped, SMTT(20) DEF JournalReconciled, Advanced, Greatest
<1>4. ASSUME FinishModel(w) PROVE Harmless(w)
  BY <1>4, RunTyped, SMTT(20) DEF FinishModel
<1>5. ASSUME StopModel(w) PROVE Harmless(w)
  BY <1>5, RunTyped, SMTT(20) DEF StopModel
<1>6. ASSUME Prepare(w) PROVE Harmless(w)
  BY <1>6, RunTyped, SMTT(20) DEF Prepare, Planned
<1>7. ASSUME JournalReceipt(w) PROVE Harmless(w)
  BY <1>7, RunTyped, SMTT(20) DEF JournalReceipt, Advanced, Greatest
<1>8. ASSUME JournalSession(w) PROVE Harmless(w)
  BY <1>8, RunTyped, SMTT(20) DEF JournalSession, Advanced, Greatest
<1>9. ASSUME StartEffect(w) PROVE Harmless(w)
  BY <1>9, RunTyped, SMTT(20) DEF StartEffect
<1>10. ASSUME ApplyEffect(w) PROVE Harmless(w)
  BY <1>10, RunTyped, SMTT(20) DEF ApplyEffect
<1>11. ASSUME RecordEffect(w) PROVE Harmless(w)
  BY <1>11, RunTyped, SMTT(20) DEF RecordEffect
<1>12. ASSUME JournalEffects(w) PROVE Harmless(w)
  BY <1>12, RunTyped, SMTT(20) DEF JournalEffects, Advanced, Greatest
<1>13. ASSUME Settle(w) PROVE Harmless(w)
  BY <1>13, RunTyped, SMTT(20) DEF Settle
<1>14. ASSUME ClearReceipt(w) PROVE Harmless(w)
  BY <1>14, RunTyped, SMTT(20) DEF ClearReceipt, NoReceipt, NoRun
<1>15. ASSUME FinalizeReopened(w) PROVE Harmless(w)
  BY <1>15, RunTyped, SMTT(20) DEF FinalizeReopened, AdvancedAll, Finalized
<1>16. ASSUME SettleTaskControl(w) PROVE Harmless(w)
  BY <1>16, RunTyped, SMTT(20) DEF SettleTaskControl, ControlSettled, Left
<1>17. ASSUME AcknowledgeTask(w) PROVE Harmless(w)
  BY <1>17, RunTyped, SMTT(20) DEF AcknowledgeTask, AdvancedAll, TaskCommitted
<1>18. ASSUME ClearRun(w) PROVE Harmless(w)
  BY <1>18, RunTyped, SMTT(20) DEF ClearRun, NoReceipt, NoRun
<1>19. ASSUME CaughtLost(w) PROVE Harmless(w)
  BY <1>19, RunTyped, SMTT(20) DEF CaughtLost
<1>20. ASSUME CaughtCancel(w) PROVE Harmless(w)
  BY <1>20, RunTyped, SMTT(20) DEF CaughtCancel, ControlSettled, Left
<1>21. ASSUME CaughtPause(w) PROVE Harmless(w)
  BY <1>21, RunTyped, SMTT(20) DEF CaughtPause
<1>22. ASSUME NEW status \in {"queued", "failed", "dead_letter"}, FailTask(w, status)
       PROVE  Harmless(w)
  BY <1>22, RunTyped, SMTT(20) DEF FailTask, FailedTask, Left
<1>23. ASSUME NoticeLost(w) PROVE Harmless(w)
  BY <1>23, RunTyped, SMTT(20) DEF NoticeLost
<1>25. ASSUME HearControl(w) PROVE Harmless(w)
  BY <1>25, RunTyped, SMTT(20) DEF HearControl
<1>24. ASSUME ReopenFails(w) PROVE Harmless(w)
  BY <1>24, RunTyped, SMTT(20) DEF ReopenFails
<1> HIDE DEF Harmless, AnswerKept, ReceiptKept, IInv, TypeOK, WorkerOK, StoresOK,
   AnswerFromReceipt, At, Goto, Ended, Idle, ledgerVars, historyVars, clearVars
<1> QED
  BY BranchingSteps, <1>1, <1>2, <1>3, <1>4, <1>5, <1>6, <1>7, <1>8, <1>9, <1>10, <1>11, <1>12,
     <1>13, <1>14, <1>15, <1>16, <1>17, <1>18, <1>19, <1>20, <1>21, <1>22, <1>23, <1>24, <1>25
  DEF HarmlessActions, FinalStep, CatchStep

\* What the tools, the sweep, the owner and time do
LEMMA ElsewhereStep ==
  ASSUME IInv, TypeOK',
         \/ \E w \in Workers, c \in Calls : ToolStep(w, c)
         \/ RecoverExpired \/ OwnerStep \/ Prune \/ UNCHANGED vars
  PROVE  IInv'
<1> DEFINE Outside == UNCHANGED <<worker, session, receipts, journal>>
<1>1. TypeOK /\ StoresOK
  BY DEF IInv
<1>2. \A w \in Workers, c \in Calls : ToolStep(w, c) => Outside /\ UNCHANGED <<task, receipt>>
  BY DEF ToolStep, InvokeTool, Act, RecordTool, ledgerVars, historyVars, clearVars
<1>3. \A status \in TaskStatuses :
        /\ Left(status).answer = task.answer /\ Left(status).status = status
        /\ FailedTask("queued").status # "completed"
  BY <1>1 DEF TypeOK, TaskRows, Left, FailedTask
<1>4. RecoverExpired => Outside /\ UNCHANGED receipt /\ task'.status # "completed"
  BY <1>3 DEF RecoverExpired, TaskStatuses, ledgerVars, historyVars, clearVars
<1>5. OwnerStep => Outside /\ UNCHANGED receipt /\ task'.status # "completed"
  <2>1. ASSUME NEW intent \in {"pause", "cancel"}, Command(intent)
        PROVE  task'.status # "completed"
    BY <1>1, <1>3, <2>1 DEF Command, TypeOK, TaskRows, TaskStatuses
  <2>2. Resume \/ RetryDeadLetter => task'.status # "completed"
    BY <1>1 DEF Resume, RetryDeadLetter, Left, TypeOK, TaskRows
  <2> QED BY <2>1, <2>2 DEF OwnerStep, Command, Resume, RetryDeadLetter, ledgerVars, historyVars,
     clearVars
<1>6. Prune => Outside /\ UNCHANGED task /\ (UNCHANGED receipt \/ receipt' = NoReceipt)
  BY DEF Prune
<1>7. UNCHANGED vars => Outside /\ UNCHANGED <<task, receipt>>
  BY DEF vars
<1>8. NoReceipt.status = "absent" /\ NoReceipt.run <= session.run
  BY <1>1, RunTyped DEF NoReceipt, NoRun, TypeOK, Checkpoints, StoresOK, Runs
<1>9. Outside /\ AnswerKept /\ ReceiptKept
  BY <1>1, <1>2, <1>4, <1>5, <1>6, <1>7, <1>8
  DEF AnswerKept, ReceiptKept, StoresOK, AnswerFromReceipt
<1> QED BY <1>9, ElsewhereKeepsIInv

----------------------------------------------------------------------------
(* Steps that write the checkpoint or store a receipt *)

\* The parts of the invariant a worker's step has to restore: its own, the other
\* workers', and the stores'.
LEMMA PartsOfIInv ==
  ASSUME TypeOK', NEW w \in Workers, WorkerOK(w)',
         \A v \in Workers \ {w} : WorkerOK(v)',
         OwnRuns', StoresOK'
  PROVE  IInv'
BY DEF IInv

\* A worker that keeps its run, or stops driving one, keeps the runs apart.
LEMMA OwnRunsKept ==
  ASSUME OwnRuns, NEW w \in Workers,
         \A v \in Workers \ {w} : worker'[v] = worker[v],
         worker'[w].at \in Own => worker[w].at \in Own /\ worker'[w].run = worker[w].run
  PROVE  OwnRuns'
BY DEF OwnRuns

\* The worker that asks the model is the one the checkpoint names.
LEMMA ModelOwnsSession ==
  ASSUME IInv, NEW v \in Workers, At(v, "model")
  PROVE  /\ session.run = worker[v].run /\ session.owner = v /\ session.status = "running"
         /\ worker[v].at \in Own /\ worker[v].run \in Runs /\ worker[v].run \notin receipts
BY DEF IInv, WorkerOK, Own, Unreceipted, At

LEMMA ReconcileCompletedRunStep ==
  ASSUME IInv, TypeOK', NEW w \in Workers, ReconcileCompletedRun(w)
  PROVE  IInv'
<1>1. /\ worker[w].at = "reconcile" /\ worker[w].run \in receipts
      /\ Goto(w, "reconciled")
      /\ UNCHANGED <<task, receipt, journal, receipts>>
  BY DEF ReconcileCompletedRun, IInv, WorkerOK, At, Receipted, ledgerVars, historyVars, clearVars
<1>2. /\ worker'[w].at = "reconciled" /\ worker'[w].run = worker[w].run
      /\ \A v \in Workers \ {w} : worker'[v] = worker[v]
  BY <1>1, Moves DEF IInv
<1>3. session'.run = session.run
  BY DEF ReconcileCompletedRun, IInv, TypeOK, Checkpoints
<1>4. session.run = worker[w].run => session'.status = "completed"
  BY DEF ReconcileCompletedRun, IInv, TypeOK, Checkpoints
<1>5. session.run # worker[w].run => session' = session
  BY DEF ReconcileCompletedRun
<1>6. WorkerOK(w)'
  BY <1>1, <1>2, <1>3, <1>4
  DEF IInv, WorkerOK, At, Own, Unreceipted, Receipted, Ending, Checkpointed
<1>7. ASSUME NEW v \in Workers \ {w} PROVE WorkerOK(v)'
  <2>1. At(v, "model") => session' = session
    BY <1>1, <1>5, ModelOwnsSession
  <2>2. session.status = "completed" => session'.status = "completed"
    BY <1>4, <1>5
  <2> QED BY <1>1, <1>2, <1>3, <2>1, <2>2 DEF IInv, WorkerOK, At
<1>8. OwnRuns'
  BY <1>2, OwnRunsKept DEF IInv, Own
<1>9. StoresOK'
  BY <1>1, <1>3, <1>4, <1>5 DEF IInv, StoresOK, AnswerFromReceipt
<1> QED BY <1>6, <1>7, <1>8, <1>9, PartsOfIInv

LEMMA BeginRunStep ==
  ASSUME IInv, TypeOK', NEW w \in Workers, BeginRun(w)
  PROVE  IInv'
<1>1. worker[w].at = "begin" /\ UNCHANGED <<task, receipt, journal, receipts>>
  BY DEF BeginRun, At, ledgerVars, historyVars, clearVars
<1>2. CASE LiveOther(w)
  <2>1. Goto(w, "caught") /\ UNCHANGED session
    BY <1>2 DEF BeginRun
  <2>2. StoresKept(w)
    BY <1>1, <2>1 DEF StoresKept, AnswerKept, ReceiptKept, IInv, StoresOK, AnswerFromReceipt
  <2>3. Harmless(w)
    BY <2>1, <2>2, GotoHarmless DEF Own, Unreceipted, Receipted, Ending, Checkpointed
  <2> QED BY <2>3, HarmlessKeepsIInv
<1>3. CASE ~LiveOther(w)
  <2>1. PICK r \in Runs :
          /\ r = session.run + 1
          /\ session' = [run |-> r, owner |-> w, status |-> "running"]
          /\ worker' = [worker EXCEPT ![w].at = "model", ![w].run = r]
    BY <1>3 DEF BeginRun
  <2>2. /\ worker'[w].at = "model" /\ worker'[w].run = r
        /\ \A v \in Workers \ {w} : worker'[v] = worker[v]
    BY <2>1 DEF IInv, TypeOK, WorkerStates
  <2>3. session.run \in Nat /\ r \in Nat /\ r > session.run
    BY <2>1, RunTyped DEF IInv
  <2>4. \A v \in Workers : ~At(v, "model")
    <3>1. \A v \in Workers : At(v, "model") => session.owner = v /\ session.status = "running"
      BY ModelOwnsSession
    <3>2. \A v \in Workers : At(v, "model") => v # w
      BY <1>1 DEF At
    <3> QED BY <1>3, <3>1, <3>2, RunCommitAssumption DEF LiveOther
  <2>5. \A v \in Workers : worker[v].run \in Nat /\ worker[v].run < r
    BY <2>1, <2>3, RunTyped DEF IInv, WorkerOK
  <2>6. \A q \in receipts : q \in Nat /\ q < r
    <3>1. receipts \subseteq Runs /\ \A q \in receipts : q <= session.run
      BY DEF IInv, StoresOK, TypeOK
    <3>2. \A q \in receipts : q \in Nat /\ q <= session.run
      BY <3>1 DEF Runs
    <3> QED BY <2>3, <2>1, <3>2
  <2>7. journal'[r].phase = 0 /\ \A q \in Runs : q > r => journal'[q].phase = 0
    BY <1>1, <2>1, <2>3, RunCommitAssumption DEF IInv, StoresOK, Runs
  <2>8. receipt.run <= r
    <3>1. receipt.run \in Runs \cup {NoRun} /\ receipt.run <= session.run
      BY DEF IInv, StoresOK, TypeOK, ReceiptEntries
    <3>2. receipt.run \in Nat
      BY <3>1, RunCommitAssumption DEF Runs, NoRun
    <3> QED BY <2>3, <3>1, <3>2
  <2>9. session'.run = r /\ session'.status = "running"
    BY <2>1
  <2>10. WorkerOK(w)'
    <3>1. r \notin receipts' /\ r <= r /\ r \in Runs /\ journal'[r].phase = 0
      BY <1>1, <2>3, <2>6, <2>7
    <3>2. session' = [run |-> worker'[w].run, owner |-> w, status |-> "running"]
      BY <2>1, <2>2
    <3> QED BY <2>2, <2>9, <3>1, <3>2
        DEF WorkerOK, At, Own, Unreceipted, Receipted, Ending, Checkpointed
  <2>11. ASSUME NEW v \in Workers \ {w} PROVE WorkerOK(v)'
    <3>1. worker'[v] = worker[v] /\ worker[v].at # "model" /\ worker[v].run < r
          /\ worker[v].run # r /\ worker[v].run <= r
      BY <2>2, <2>3, <2>4, <2>5 DEF At
    <3> QED BY <1>1, <2>9, <3>1 DEF IInv, WorkerOK, At
  <2>12. OwnRuns'
    BY <2>2, <2>3, <2>5 DEF IInv, OwnRuns
  <2>13. StoresOK'
    BY <1>1, <2>3, <2>6, <2>7, <2>8, <2>9 DEF IInv, StoresOK, AnswerFromReceipt
  <2> QED BY <2>10, <2>11, <2>12, <2>13, PartsOfIInv
<1> QED BY <1>2, <1>3

LEMMA StoreReceiptStep ==
  ASSUME IInv, TypeOK', NEW w \in Workers, NEW whole \in BOOLEAN, StoreReceipt(w, whole)
  PROVE  IInv'
<1> DEFINE mine == receipt.status = "started" /\ receipt.run = worker[w].run
<1>1. /\ worker[w].at = "receipting" /\ worker[w].run \in Runs /\ WorkerOK(w)
      /\ UNCHANGED <<task, journal, session>>
  BY DEF StoreReceipt, At, IInv, WorkerOK, Own
<1>2. receipt'.run = receipt.run
  BY DEF StoreReceipt, IInv, TypeOK, ReceiptEntries
<1>3. CASE mine /\ whole
  <2>1. /\ Goto(w, "receipted") /\ receipts' = receipts \cup {worker[w].run}
        /\ receipt' = [receipt EXCEPT !.status = "succeeded", !.whole = whole]
    BY <1>3 DEF StoreReceipt
  <2>2. /\ worker'[w].at = "receipted" /\ worker'[w].run = worker[w].run
        /\ \A v \in Workers \ {w} : worker'[v] = worker[v]
    BY <2>1, Moves DEF IInv
  <2>3. WorkerOK(w)'
    BY <1>1, <2>1, <2>2 DEF WorkerOK, At, Own, Unreceipted, Receipted, Ending, Checkpointed
  <2>4. ASSUME NEW v \in Workers \ {w} PROVE WorkerOK(v)'
    <3>1. worker[v].at \in Unreceipted => worker[v].run # worker[w].run
      BY <1>1 DEF IInv, OwnRuns, Own, Unreceipted
    <3> QED BY <1>1, <2>1, <2>2, <3>1 DEF IInv, WorkerOK, At
  <2>5. OwnRuns'
    BY <1>1, <2>2, OwnRunsKept DEF IInv, Own
  <2>6. StoresOK'
    BY <1>1, <1>2, <1>3, <2>1 DEF IInv, StoresOK, AnswerFromReceipt, WorkerOK
  <2> QED BY <2>3, <2>4, <2>5, <2>6, PartsOfIInv
<1>4. CASE ~(mine /\ whole)
  <2>1. Goto(w, "failing") /\ UNCHANGED receipts
    BY <1>4 DEF StoreReceipt
  <2>2. receipt' = receipt \/ receipt'.whole = FALSE
    BY <1>4 DEF StoreReceipt, IInv, TypeOK, ReceiptEntries
  <2>3. StoresKept(w)
    BY <1>1, <1>2, <2>1, <2>2
    DEF StoresKept, AnswerKept, ReceiptKept, IInv, StoresOK, AnswerFromReceipt
  <2>4. Harmless(w)
    BY <1>1, <2>1, <2>3, GotoHarmless DEF Own, Unreceipted, Receipted, Ending, Checkpointed
  <2> QED BY <2>4, HarmlessKeepsIInv
<1> QED BY <1>3, <1>4

LEMMA CompleteRunStep ==
  ASSUME IInv, TypeOK', NEW w \in Workers, CompleteRun(w)
  PROVE  IInv'
<1>1. /\ worker[w].at = "session" /\ worker[w].run \in receipts
      /\ UNCHANGED <<task, receipt, journal, receipts>>
  BY DEF CompleteRun, IInv, WorkerOK, At, Receipted, ledgerVars, historyVars, clearVars
<1>2. CASE Goto(w, "failing") /\ UNCHANGED session
  <2>1. StoresKept(w)
    BY <1>1, <1>2 DEF StoresKept, AnswerKept, ReceiptKept, IInv, StoresOK, AnswerFromReceipt
  <2>2. Harmless(w)
    BY <1>1, <1>2, <2>1, GotoHarmless DEF Own, Unreceipted, Receipted, Ending, Checkpointed
  <2> QED BY <2>2, HarmlessKeepsIInv
<1>3. CASE Goto(w, "sessioned") /\ session.run = worker[w].run
           /\ session' = [session EXCEPT !.status = "completed", !.owner = NoWorker]
  <2>1. /\ worker'[w].at = "sessioned" /\ worker'[w].run = worker[w].run
        /\ \A v \in Workers \ {w} : worker'[v] = worker[v]
    BY <1>3, Moves DEF IInv
  <2>2. session'.run = session.run /\ session'.status = "completed"
    BY <1>3 DEF IInv, TypeOK, Checkpoints
  <2>3. WorkerOK(w)'
    BY <1>1, <2>1, <2>2
    DEF IInv, WorkerOK, At, Own, Unreceipted, Receipted, Ending, Checkpointed
  <2>4. ASSUME NEW v \in Workers \ {w} PROVE WorkerOK(v)'
    <3>1. ~At(v, "model")
      BY <1>1, <1>3, ModelOwnsSession
    <3> QED BY <1>1, <2>1, <2>2, <3>1 DEF IInv, WorkerOK, At
  <2>5. OwnRuns'
    BY <1>1, <2>1, OwnRunsKept DEF IInv, Own
  <2>6. StoresOK'
    BY <1>1, <1>3, <2>2 DEF IInv, StoresOK, AnswerFromReceipt
  <2> QED BY <2>3, <2>4, <2>5, <2>6, PartsOfIInv
<1> QED BY <1>2, <1>3 DEF CompleteRun

LEMMA FailRunStep ==
  ASSUME IInv, TypeOK', NEW w \in Workers, FailRun(w)
  PROVE  IInv'
<1>1. /\ worker[w].at = "rollback" /\ worker[w].at \in Own /\ worker[w].run \in Runs
      /\ Goto(w, "caught") /\ UNCHANGED <<task, receipt, receipts>>
  BY DEF FailRun, IInv, WorkerOK, At, Own, ledgerVars, historyVars, clearVars
<1>2. /\ worker'[w].at = "caught" /\ worker'[w].run = worker[w].run
      /\ \A v \in Workers \ {w} : worker'[v] = worker[v]
  BY <1>1, Moves DEF IInv
<1>3. session'.run = session.run
      /\ (session.status # "running" => session' = session)
      /\ (session'.status = "completed" => session.status = "completed")
  BY DEF FailRun, IInv, TypeOK, Checkpoints
<1>4. session.run # worker[w].run => session' = session
  BY DEF FailRun
<1>5. \A r \in Runs : r # worker[w].run => journal'[r] = journal[r]
  BY <1>1 DEF FailRun, Advanced, IInv, TypeOK
<1>6. WorkerOK(w)'
  BY <1>1, <1>2, <1>3 DEF IInv, WorkerOK, At, Own, Unreceipted, Receipted, Ending, Checkpointed
<1>7. ASSUME NEW v \in Workers \ {w} PROVE WorkerOK(v)'
  <2>1. worker[v].at \in Own => worker[v].run \in Runs /\ worker[v].run # worker[w].run
    BY <1>1 DEF IInv, OwnRuns, WorkerOK
  <2>2. At(v, "model") => session' = session
    BY <1>4, <2>1, ModelOwnsSession
  <2>3. worker[v].at \in {"model", "prepare"} => journal'[worker[v].run] = journal[worker[v].run]
    BY <1>5, <2>1 DEF Own
  <2>4. session.status = "completed" => session' = session
    BY <1>3
  <2> QED BY <1>1, <1>2, <1>3, <2>2, <2>3, <2>4 DEF IInv, WorkerOK, At
<1>8. OwnRuns'
  BY <1>2, OwnRunsKept DEF IInv, Own
<1>9. \A r \in Runs : r > session'.run => journal'[r].phase = 0
  <2>1. worker[w].run <= session.run
    BY DEF IInv, WorkerOK
  <2>2. \A r \in Runs : r > session.run => r # worker[w].run
    BY <2>1, RunTyped, RunCommitAssumption DEF Runs, IInv
  <2> QED BY <1>3, <1>5, <2>2 DEF IInv, StoresOK
<1>10. StoresOK'
  BY <1>1, <1>3, <1>9 DEF IInv, StoresOK, AnswerFromReceipt
<1> QED BY <1>6, <1>7, <1>8, <1>10, PartsOfIInv

LEMMA CrashStep ==
  ASSUME IInv, TypeOK', NEW w \in Workers, Crash(w)
  PROVE  IInv'
<1>1. Ended(w) /\ UNCHANGED <<task, receipt, journal, receipts>>
  BY DEF Crash, ledgerVars, historyVars, clearVars
<1>2. worker'[w] = Idle /\ \A v \in Workers \ {w} : worker'[v] = worker[v]
  BY <1>1, Moves DEF IInv
<1>3. session'.run = session.run /\ session'.status = session.status
  BY DEF Crash, IInv, TypeOK, Checkpoints
<1>4. session.owner # w => session' = session
  BY DEF Crash
<1>5. session'.run \in Nat
  BY <1>3, RunTyped DEF IInv
<1>6. WorkerOK(w)'
  BY <1>2, <1>5 DEF WorkerOK, At, Idle, NoRun, Own, Unreceipted, Receipted, Ending, Checkpointed
<1>7. ASSUME NEW v \in Workers \ {w} PROVE WorkerOK(v)'
  <2>1. At(v, "model") => session' = session
    BY <1>4, ModelOwnsSession
  <2> QED BY <1>1, <1>2, <1>3, <2>1 DEF IInv, WorkerOK, At
<1>8. OwnRuns'
  BY <1>2, OwnRunsKept DEF IInv, Own, Idle
<1>9. StoresOK'
  BY <1>1, <1>3 DEF IInv, StoresOK, AnswerFromReceipt
<1> QED BY <1>6, <1>7, <1>8, <1>9, PartsOfIInv

----------------------------------------------------------------------------
(* The inductive invariant, and what follows from it *)

LEMMA InitIInv == Init => IInv
<1> SUFFICES ASSUME Init PROVE IInv
  OBVIOUS
<1> USE RunCommitAssumption
<1>1. TypeOK
  BY DEF Init, TypeOK, TaskRows, ReceiptEntries, JournalEntries, Checkpoints, WorkerStates,
         EntryStatuses, Outcomes, Steps, Committing, NoReceipt, Idle, NoRun
<1>2. \A w \in Workers : WorkerOK(w)
  BY DEF Init, WorkerOK, At, Idle, NoRun, Own, Unreceipted, Receipted, Ending, Checkpointed
<1>3. OwnRuns
  BY DEF Init, OwnRuns, Idle, Own
<1>4. StoresOK
  BY DEF Init, StoresOK, AnswerFromReceipt, NoReceipt, NoRun
<1> QED BY <1>1, <1>2, <1>3, <1>4 DEF IInv

LEMMA StepIInv == IInv /\ [Next]_vars => IInv'
<1> SUFFICES ASSUME IInv, [Next]_vars PROVE IInv'
  OBVIOUS
<1>1. TypeOK'
  BY TypeStep
<1>2. ASSUME NEW w \in Workers, HarmlessActions(w) PROVE IInv'
  BY <1>1, <1>2, HarmlessStep, HarmlessKeepsIInv
<1>3. ASSUME NEW w \in Workers,
             \/ ReconcileCompletedRun(w) \/ BeginRun(w) \/ CompleteRun(w) \/ FailRun(w)
             \/ Crash(w) \/ \E whole \in BOOLEAN : StoreReceipt(w, whole)
      PROVE  IInv'
  BY <1>1, <1>3, ReconcileCompletedRunStep, BeginRunStep, CompleteRunStep, FailRunStep,
     CrashStep, StoreReceiptStep
<1>4. ASSUME NEW w \in Workers, Progress(w) \/ Disturbance(w) PROVE IInv'
  BY <1>2, <1>3, <1>4
  DEF Progress, Disturbance, RecoveryStep, RunStep, CommitStep, FailureStep, HarmlessActions
<1>5. (\E w \in Workers, c \in Calls : ToolStep(w, c)) \/ RecoverExpired \/ OwnerStep
        \/ Prune \/ UNCHANGED vars => IInv'
  BY <1>1, ElsewhereStep
<1> QED BY <1>4, <1>5 DEF Next

\* Every state of every execution of the model has the types its stores declare, for
\* any number of processes, tool calls, runs, crashes and failing writes.
THEOREM TypeCorrect == Spec => []TypeOK
<1>1. IInv => TypeOK
  BY DEF IInv
<1> QED BY <1>1, InitIInv, StepIInv, PTL DEF Spec

\* run-commit-coordinator.ts writes the receipt before the checkpoint, and processTask
\* completes the Task after both: so whatever crashes, fails or loses its lease, an
\* answer a client reads, and a completed checkpoint, is one whose receipt was stored.
THEOREM AnswersRestOnReceipts == Spec => []AnswerFromReceipt
<1>1. IInv => AnswerFromReceipt
  BY DEF IInv, StoresOK
<1> QED BY <1>1, InitIInv, StepIInv, PTL DEF Spec

\* Session.beginRun refuses while another live process owns the running checkpoint: so
\* two processes never ask the model for one Session at the same time, also after
\* the Task's lease was lost and given to another.
THEOREM SessionsRunOneModel == Spec => []OneRunPerSession
<1>1. IInv => OneRunPerSession
  <2> SUFFICES ASSUME IInv, NEW v \in Workers, NEW w \in Workers, At(v, "model"), At(w, "model")
               PROVE  v = w
    BY DEF OneRunPerSession
  <2> QED BY ModelOwnsSession
<1> QED BY <1>1, InitIInv, StepIInv, PTL DEF Spec

\* The only step from "applying" to "recording" is ApplyEffect, from a worker whose
\* run the checkpoint shows as completed or has left behind.
LEMMA ApplyAfterSession ==
  ASSUME IInv, [Next]_vars, NEW w \in Workers, At(w, "applying")
  PROVE  ~(session.run = worker[w].run /\ session.status \in {"running", "interrupted"})
BY DEF IInv, WorkerOK, At, Checkpointed

\* RuntimeActionCoordinator.apply runs after completeRun or reconcileCompletedRun: the
\* action of a run never starts while the checkpoint still has that run as running.
THEOREM ActionsWaitForSession == Spec => AppliedAfterSession
<1>1. IInv /\ [Next]_vars =>
        [\A w \in Workers : At(w, "applying") /\ At(w, "recording")' =>
           ~(session.run = worker[w].run /\ session.status \in {"running", "interrupted"})]_vars
  BY ApplyAfterSession
<1> QED BY <1>1, InitIInv, StepIInv, PTL DEF Spec, AppliedAfterSession

\* What JournalOnlyForward says of one step
JournalForward ==
  \A r \in Runs :
    /\ journal'[r].phase >= journal[r].phase
    /\ journal[r].phase > Prepared => journal'[r].plan = journal[r].plan

\* RunCommitJournal.advance and updateExecution move phases forward and keep the plan.
LEMMA AdvancingForward ==
  ASSUME TypeOK, NEW q \in Nat, NEW phase \in 1..7,
         \/ journal' = Advanced(q, phase) \/ journal' = AdvancedAll(phase) \/ UNCHANGED journal
  PROVE  JournalForward
<1>1. \A r \in Runs : journal[r] \in JournalEntries /\ journal[r].phase \in 0..7
  BY DEF TypeOK, JournalEntries
<1>2. ASSUME journal' = Advanced(q, phase) PROVE JournalForward
  BY <1>1, <1>2 DEF JournalForward, Advanced, Greatest, TypeOK, JournalEntries
<1>3. ASSUME journal' = AdvancedAll(phase) PROVE JournalForward
  BY <1>1, <1>3 DEF JournalForward, AdvancedAll, JournalEntries
<1>4. ASSUME UNCHANGED journal PROVE JournalForward
  BY <1>1, <1>4 DEF JournalForward
<1> QED BY <1>2, <1>3, <1>4

\* prepare() writes a plan only over none, or over another prepared one.
LEMMA PlanningForward ==
  ASSUME TypeOK, NEW q \in Runs, NEW plan, journal' = Planned(q, plan),
         journal[q].phase <= Prepared
  PROVE  JournalForward
<1>1. \A r \in Runs : journal[r] \in JournalEntries /\ journal[r].phase \in 0..7
  BY DEF TypeOK, JournalEntries
<1>2. journal'[q].phase = Prepared
  BY DEF Planned, TypeOK
<1>3. \A r \in Runs : r # q => journal'[r] = journal[r]
  BY DEF Planned, TypeOK
<1> QED BY <1>1, <1>2, <1>3 DEF JournalForward, Prepared

LEMMA StepForward ==
  ASSUME IInv, [Next]_vars PROVE JournalForward
<1>1. TypeOK
  BY DEF IInv
<1> DEFINE Advances(w) ==
      \E phase \in 1..7 :
        \/ journal' = Advanced(worker[w].run, phase)
        \/ journal' = AdvancedAll(phase) \/ UNCHANGED journal
<1>2. ASSUME NEW w \in Workers, Prepare(w) PROVE JournalForward
  <2>1. worker[w].run \in Runs /\ journal[worker[w].run].phase = 0
    BY <1>2 DEF Prepare, At, IInv, WorkerOK, Own
  <2> QED BY <1>1, <1>2, <2>1, PlanningForward DEF Prepare, Prepared
<1>3. ASSUME NEW w \in Workers, PrepareFailure(w) PROVE JournalForward
  <2>1. worker[w].run \in Runs
    BY <1>3 DEF PrepareFailure, At, IInv, WorkerOK, Own
  <2>2. CASE journal[worker[w].run].phase <= Prepared
    BY <1>1, <1>3, <2>1, <2>2, PlanningForward DEF PrepareFailure
  <2>3. CASE ~(journal[worker[w].run].phase <= Prepared)
    <3>1. UNCHANGED journal
      BY <1>3, <2>3 DEF PrepareFailure
    <3> QED BY <1>1, <3>1, AdvancingForward
  <2> QED BY <2>2, <2>3
<1>4. ASSUME NEW w \in Workers, Advances(w) PROVE JournalForward
  BY <1>1, <1>4, RunTyped, AdvancingForward
<1>5. \A w \in Workers : JournalReconciled(w) => Advances(w)
  BY DEF JournalReconciled, SessionCommitted
<1>6. \A w \in Workers : JournalReceipt(w) => Advances(w)
  BY DEF JournalReceipt, ReceiptCommitted
<1>7. \A w \in Workers : JournalSession(w) => Advances(w)
  BY DEF JournalSession, GoalCommitted
<1>8. \A w \in Workers : JournalEffects(w) => Advances(w)
  BY DEF JournalEffects, EffectsApplied
<1>9. \A w \in Workers : FailRun(w) => Advances(w)
  BY DEF FailRun, SessionCommitted
<1>10. \A w \in Workers : FinalizeReopened(w) \/ FinalizeExecution(w) => Advances(w)
  BY DEF FinalizeReopened, FinalizeExecution, Finalized
<1>11. \A w \in Workers : AcknowledgeTask(w) => Advances(w)
  BY DEF AcknowledgeTask, TaskCommitted
<1>12. UNCHANGED journal => JournalForward
  BY <1>1, AdvancingForward
<1> HIDE DEF Advances
<1>13. ASSUME NEW w \in Workers,
              RecoveryStep(w) \/ RunStep(w) \/ CommitStep(w) \/ FailureStep(w) \/ Claim(w)
       PROVE  JournalForward
  BY <1>2, <1>3, <1>4, <1>5, <1>6, <1>7, <1>8, <1>9, <1>12, <1>13
  DEF RecoveryStep, RunStep, CommitStep, FailureStep, Claim, CompletedExecution,
      ReconcileCompletedRun, BeginRun, FinishModel, StopModel, CommitReceipt, StoreReceipt,
      CompleteRun, StartEffect, ApplyEffect, RecordEffect
<1>14. ASSUME NEW w \in Workers, FinalStep(w) \/ CatchStep(w) \/ Disturbance(w)
       PROVE  JournalForward
  BY <1>4, <1>10, <1>11, <1>12, <1>14
  DEF FinalStep, CatchStep, Disturbance, Settle, ClearReceipt, SettleTaskControl, ClearRun,
      CompleteTask, CaughtLost, CaughtCancel, CaughtPause, FailTask, HearControl, NoticeLost,
      WriteFails, ReopenFails, FinalizeFails, Crash
<1>15. \A w \in Workers, c \in Calls : ToolStep(w, c) => UNCHANGED journal
  BY DEF ToolStep, InvokeTool, Act, RecordTool
<1>16. RecoverExpired \/ OwnerStep \/ Prune \/ UNCHANGED vars => UNCHANGED journal
  BY DEF RecoverExpired, OwnerStep, Command, Resume, RetryDeadLetter, Prune, vars
<1> QED BY <1>12, <1>13, <1>14, <1>15, <1>16 DEF Next, Progress

\* The journal is what a restart trusts: no step moves the phase of a run back, and no
\* step replaces the plan of a run whose receipt may have been committed, although
\* PrepareFailure may replace the plan of a run that is only prepared.
THEOREM JournalMovesForward == Spec => JournalOnlyForward
<1>1. IInv /\ [Next]_vars =>
        [\A r \in Runs :
           /\ journal'[r].phase >= journal[r].phase
           /\ journal[r].phase > Prepared => journal'[r].plan = journal[r].plan]_vars
  BY StepForward DEF JournalForward
<1> QED BY <1>1, InitIInv, StepIInv, PTL DEF Spec, JournalOnlyForward

----------------------------------------------------------------------------
(* The Task row against the processes: what a cancel leaves, who may still take an entry of
   the ledger, and what a process that cleared it is about to do. *)

\* The Task is cancelled, or will be.
Cancelling == task.intent = "cancel" \/ task.status = "cancelled"

RowOK ==
  /\ task.status = "running" => task.owner \in Workers
  /\ task.intent # "none" => task.status = "running"

\* A process is told of a cancel, and finalizes in the catch block, only for a Task that
\* is being cancelled; otherwise it finalizes a run whose outcome is "completed".
ControlOK(w) ==
  /\ worker[w].told = "cancel" => Cancelling
  /\ worker[w].at \in {"ack", "clear", "final"} =>
       \/ worker[w].after = "complete" /\ worker[w].outcome = "completed"
       \/ worker[w].after = "end" /\ Cancelling

\* A process that cleared the ledger holds the Task and has only to complete it.
Closing(w) ==
  /\ Closes(w) /\ worker[w].outcome = "completed"
  /\ worker[w].at \in {"final", "complete"}

CloseInv == RowOK /\ (\A w \in Workers : ControlOK(w)) /\ \A w \in cleared : Closing(w)

\* How a step moves the Task row
TaskStep ==
  \/ UNCHANGED task
  \/ /\ task.status = "queued" /\ task'.status = "running"
     /\ task'.owner \in Workers /\ task'.intent = task.intent
  \/ /\ task.status = "running" /\ task'.status = "running"
     /\ task'.owner = task.owner /\ task.intent # "cancel"
  \/ /\ task.status \notin {"completed", "failed", "cancelled"}
     /\ task'.status # "running" /\ task'.intent = "none"
     /\ task'.status = "cancelled" \/ task.intent # "cancel"

LEMMA LeftFields ==
  ASSUME TypeOK, NEW status
  PROVE  /\ Left(status).status = status /\ Left(status).intent = "none"
         /\ Left(status).answer = task.answer
         /\ FailedTask(status).intent = "none"
         /\ FailedTask(status).status \in {status, "dead_letter"}
BY DEF TypeOK, TaskRows, Left, FailedTask

LEMMA TaskMoves ==
  ASSUME TypeOK, RowOK, [Next]_vars PROVE TaskStep
<1>1. ASSUME NEW w \in Workers, Progress(w) \/ Disturbance(w), UNCHANGED task PROVE TaskStep
  BY <1>1 DEF TaskStep
<1>2. ASSUME NEW w \in Workers, Claim(w) PROVE TaskStep
  BY <1>2 DEF Claim, TaskStep, TypeOK, TaskRows
<1>3. ASSUME NEW w \in Workers, task' = ControlSettled(w) PROVE TaskStep
  BY <1>3, LeftFields DEF ControlSettled, Holds, TaskStep
<1>4. ASSUME NEW w \in Workers, CompleteTask(w) PROVE TaskStep
  <2>1. \A status : [Left(status) EXCEPT !.answer = worker[w].run].status = status
                    /\ [Left(status) EXCEPT !.answer = worker[w].run].intent = "none"
    BY DEF TypeOK, TaskRows, Left
  <2> QED BY <1>4, <2>1 DEF CompleteTask, Holds, TaskStep
<1>5. ASSUME NEW w \in Workers, NEW status \in {"queued", "failed", "dead_letter"},
             FailTask(w, status)
      PROVE  TaskStep
  BY <1>5, LeftFields DEF FailTask, Requested, Holds, TaskStep
<1>6. ASSUME NEW w \in Workers, Progress(w) \/ Disturbance(w) PROVE TaskStep
  <2>1. CASE Claim(w) \/ RecoveryStep(w) \/ RunStep(w) \/ FailureStep(w) \/ CatchStep(w)
    BY <1>2, <1>3, <1>5, <2>1
    DEF RecoveryStep, CompletedExecution, ReconcileCompletedRun, JournalReconciled, RunStep,
        BeginRun, FinishModel, StopModel, FailureStep, PrepareFailure, FailRun, CatchStep,
        CaughtLost, CaughtCancel, CaughtPause, TaskStep
  <2>2. CASE CommitStep(w)
    BY <2>2
    DEF CommitStep, Prepare, CommitReceipt, StoreReceipt, JournalReceipt, CompleteRun,
        JournalSession, StartEffect, ApplyEffect, RecordEffect, JournalEffects, TaskStep
  <2>3. CASE FinalStep(w) \/ Disturbance(w)
    BY <1>3, <1>4, <2>3
    DEF FinalStep, Disturbance, Settle, ClearReceipt, FinalizeReopened, SettleTaskControl,
        AcknowledgeTask, ClearRun, FinalizeExecution, HearControl, NoticeLost, WriteFails,
        ReopenFails, FinalizeFails, Crash, TaskStep
  <2> QED BY <1>6, <2>1, <2>2, <2>3 DEF Progress
<1>7. (\E w \in Workers, c \in Calls : ToolStep(w, c)) \/ Prune \/ UNCHANGED vars => TaskStep
  BY DEF ToolStep, InvokeTool, Act, RecordTool, Prune, vars, TaskStep
<1>8. RecoverExpired => TaskStep
  BY LeftFields DEF RecoverExpired, TaskStep
<1>9. OwnerStep => TaskStep
  <2>1. ASSUME NEW intent \in {"pause", "cancel"}, Command(intent) PROVE TaskStep
    <3>1. CASE task.status = "running"
      BY <2>1, <3>1, LeftFields DEF Command, TaskStep, TypeOK, TaskRows
    <3>2. CASE task.status # "running"
      BY <2>1, <3>2, LeftFields DEF Command, TaskStep, RowOK
    <3> QED BY <3>1, <3>2
  <2>2. Resume => TaskStep
    BY LeftFields DEF Resume, TaskStep, RowOK
  <2>3. RetryDeadLetter => TaskStep
    <3>1. [Left("queued") EXCEPT !.budget = task.attempts + 1].status = "queued"
          /\ [Left("queued") EXCEPT !.budget = task.attempts + 1].intent = "none"
      BY DEF TypeOK, TaskRows, Left
    <3> QED BY <3>1 DEF RetryDeadLetter, TaskStep, RowOK
  <2> QED BY <2>1, <2>2, <2>3 DEF OwnerStep
<1> QED BY <1>6, <1>7, <1>8, <1>9 DEF Next

\* Nothing takes back a cancel, and nothing revives a Task at its end.
LEMMA RowStep ==
  ASSUME TypeOK, RowOK, [Next]_vars
  PROVE  /\ RowOK'
         /\ Cancelling => Cancelling'
         /\ LastAttempt => LastAttempt'
<1>1. TaskStep /\ task.intent \in {"none", "pause", "cancel"}
  BY TaskMoves DEF TypeOK, TaskRows
<1>2. RowOK'
  BY <1>1 DEF TaskStep, RowOK
<1>3. Cancelling => Cancelling'
  BY <1>1, <1>2 DEF TaskStep, RowOK, Cancelling
<1>4. LastAttempt => LastAttempt'
  BY <1>1 DEF TaskStep, RowOK, LastAttempt
<1> QED BY <1>2, <1>3, <1>4

\* A worker's step is its own.
LEMMA OthersKept ==
  ASSUME TypeOK, NEW w \in Workers, Progress(w) \/ Disturbance(w)
  PROVE  \A v \in Workers \ {w} : worker'[v] = worker[v]
<1> DEFINE Kept == \A v \in Workers \ {w} : worker'[v] = worker[v]
<1> SUFFICES Kept
  OBVIOUS
<1>1. Ended(w) => Kept
  BY Moves
<1>2. ASSUME NEW step, Goto(w, step) PROVE Kept
  BY <1>2, Moves
<1>3. CASE CompletedExecution(w) \/ BeginRun(w) \/ FinishModel(w) \/ Settle(w)
             \/ CaughtCancel(w) \/ CaughtPause(w) \/ NoticeLost(w) \/ HearControl(w)
  BY <1>3 DEF TypeOK, CompletedExecution, BeginRun, FinishModel, Settle, CaughtCancel,
              CaughtPause, NoticeLost, HearControl, Goto
<1> HIDE DEF Kept
<1>4. CASE Claim(w) \/ ReconcileCompletedRun(w) \/ JournalReconciled(w) \/ StopModel(w)
             \/ FailureStep(w) \/ (CatchStep(w) /\ ~CaughtCancel(w) /\ ~CaughtPause(w))
  BY <1>1, <1>2, <1>4
  DEF Claim, ReconcileCompletedRun, JournalReconciled, StopModel, FailureStep, PrepareFailure,
      FailRun, CatchStep, CaughtLost, FailTask
<1>5. CASE CommitStep(w)
  BY <1>1, <1>2, <1>5
  DEF CommitStep, Prepare, CommitReceipt, StoreReceipt, JournalReceipt, CompleteRun,
      JournalSession, StartEffect, ApplyEffect, RecordEffect, JournalEffects
<1>6. CASE (FinalStep(w) /\ ~Settle(w))
             \/ (Disturbance(w) /\ ~NoticeLost(w) /\ ~HearControl(w))
  BY <1>1, <1>2, <1>6
  DEF FinalStep, Disturbance, ClearReceipt, FinalizeReopened, SettleTaskControl,
      AcknowledgeTask, ClearRun, FinalizeExecution, CompleteTask, WriteFails, ReopenFails,
      FinalizeFails, Crash
<1> QED BY <1>3, <1>4, <1>5, <1>6 DEF Progress, RecoveryStep, RunStep

\* Outside the workers' own steps no worker moves.
LEMMA OnlyOwnSteps ==
  ASSUME [Next]_vars, NEW v \in Workers, worker'[v] # worker[v], TypeOK
  PROVE  Progress(v) \/ Disturbance(v)
<1>1. ASSUME NEW w \in Workers, NEW c \in Calls, ToolStep(w, c) PROVE UNCHANGED worker
  BY <1>1 DEF ToolStep, InvokeTool, Act, RecordTool
<1>2. RecoverExpired \/ OwnerStep \/ Prune \/ UNCHANGED vars => UNCHANGED worker
  BY DEF RecoverExpired, OwnerStep, Command, Resume, RetryDeadLetter, Prune, vars
<1>3. ASSUME NEW w \in Workers, Progress(w) \/ Disturbance(w) PROVE w = v
  BY <1>3, OthersKept
<1> QED BY <1>1, <1>2, <1>3 DEF Next

\* A process behind its run gets no further than its end, unless it can claim the Task.
LEMMA BehindStays ==
  ASSUME TypeOK, [Next]_vars, task.status # "queued", NEW w \in Workers,
         worker[w].at \in Behind
  PROVE  worker'[w].at \in Behind
<1>1. CASE worker'[w] = worker[w]
  BY <1>1
<1>2. CASE Progress(w) \/ Disturbance(w)
  <2>1. \/ Ended(w) \/ \E step \in Behind : Goto(w, step)
        \/ CaughtCancel(w) \/ CaughtPause(w) \/ HearControl(w) \/ NoticeLost(w)
    <3>1. CASE Progress(w)
      BY <3>1
      DEF Behind, Progress, Claim, At, RecoveryStep, CompletedExecution, ReconcileCompletedRun,
          JournalReconciled, RunStep, BeginRun, FinishModel, StopModel, CommitStep, Prepare,
          CommitReceipt, StoreReceipt, JournalReceipt, CompleteRun, JournalSession, StartEffect,
          ApplyEffect, RecordEffect, JournalEffects, FailureStep, PrepareFailure, FailRun,
          FinalStep, Settle, ClearReceipt, FinalizeReopened, SettleTaskControl, AcknowledgeTask,
          ClearRun, FinalizeExecution, CompleteTask, CatchStep, CaughtLost, FailTask
    <3>2. CASE Disturbance(w)
      BY <3>2
      DEF Behind, Disturbance, WriteFails, ReopenFails, FinalizeFails, Crash, Committing, At
    <3> QED BY <1>2, <3>1, <3>2
  <2>2. CASE Ended(w)
    <3>1. worker'[w] = Idle
      BY <2>2, Moves
    <3> QED BY <3>1 DEF Idle, Behind
  <2>3. ASSUME NEW step \in Behind, Goto(w, step) PROVE worker'[w].at \in Behind
    BY <2>3, Moves
  <2>4. CASE CaughtCancel(w) \/ CaughtPause(w)
    BY <2>4 DEF CaughtCancel, CaughtPause, TypeOK, WorkerStates, Behind
  <2>5. CASE HearControl(w) \/ NoticeLost(w)
    <3>1. worker'[w].at = worker[w].at
      BY <2>5 DEF HearControl, NoticeLost, TypeOK, WorkerStates
    <3> QED BY <3>1
  <2> QED BY <2>1, <2>2, <2>3, <2>4, <2>5
<1> QED BY <1>1, <1>2, OnlyOwnSteps

\* A worker that found no receipt meets none until it stores its own.
Unanswered == {"begin", "model", "prepare", "receipt"}

\* Where a worker's step takes it, but for the steps that write more of its state
LEMMA GoesElsewhere ==
  ASSUME TypeOK, NEW w \in Workers, Progress(w) \/ Disturbance(w),
         ~CompletedExecution(w), ~BeginRun(w), ~FinishModel(w), ~Settle(w),
         ~CaughtCancel(w), ~CaughtPause(w), ~NoticeLost(w), ~HearControl(w)
  PROVE  \/ Ended(w)
         \/ Prepare(w) /\ Goto(w, "receipt")
         \/ AcknowledgeTask(w) /\ Goto(w, "clear")
         \/ ClearRun(w) /\ Goto(w, "final")
         \/ /\ CommitStep(w) \/ RecoveryStep(w)
            /\ worker[w].at \in Committing \cup {"reconcile", "reconciled", "apply",
                                                 "applying", "recording", "applied"}
            /\ \E step \in Steps \ (Unanswered \cup {"ack", "clear", "final"}) : Goto(w, step)
         \/ \E step \in {"claimed", "failing", "rollback", "caught", "reopened", "settling",
                         "complete"} : Goto(w, step)
<1>1. CASE Claim(w) \/ RecoveryStep(w) \/ RunStep(w) \/ FailureStep(w) \/ CatchStep(w)
  BY <1>1
  DEF Claim, RecoveryStep, ReconcileCompletedRun, JournalReconciled, RunStep, StopModel,
      FailureStep, PrepareFailure, FailRun, CatchStep, CaughtLost, FailTask, At, Steps,
      Committing, Unanswered
<1>2. CASE CommitStep(w)
  BY <1>2
  DEF CommitStep, Prepare, CommitReceipt, StoreReceipt, JournalReceipt, CompleteRun,
      JournalSession, StartEffect, ApplyEffect, RecordEffect, JournalEffects, At, Steps,
      Committing, Unanswered
<1>3. CASE FinalStep(w) \/ Disturbance(w)
  BY <1>3
  DEF FinalStep, Disturbance, ClearReceipt, FinalizeReopened, SettleTaskControl,
      AcknowledgeTask, ClearRun, FinalizeExecution, CompleteTask, WriteFails, ReopenFails,
      FinalizeFails, Crash
<1> QED BY <1>1, <1>2, <1>3 DEF Progress

LEMMA ControlStep ==
  ASSUME TypeOK, CloseInv, [Next]_vars, NEW w \in Workers
  PROVE  ControlOK(w)'
<1>1. RowOK /\ ControlOK(w) /\ (Cancelling => Cancelling')
  BY RowStep DEF CloseInv
<1>2. Requested(w) = "cancel" => Cancelling
  BY <1>1 DEF Requested, ControlOK, Cancelling
<1>3. ASSUME worker'[w].told \in {worker[w].told, "none", Requested(w)},
             worker'[w].at \notin {"ack", "clear", "final"}
      PROVE  ControlOK(w)'
  BY <1>1, <1>2, <1>3 DEF ControlOK
<1>4. ASSUME worker'[w].told \in {worker[w].told, "none", Requested(w)},
             worker[w].at \in {"ack", "clear", "final"},
             worker'[w].after = worker[w].after, worker'[w].outcome = worker[w].outcome
      PROVE  ControlOK(w)'
  BY <1>1, <1>2, <1>4 DEF ControlOK
<1>5. worker[w] \in WorkerStates
  BY DEF TypeOK
<1>6. ASSUME NEW step, Goto(w, step)
      PROVE  /\ worker'[w].told = worker[w].told /\ worker'[w].at = step
             /\ worker'[w].after = worker[w].after /\ worker'[w].outcome = worker[w].outcome
  BY <1>6 DEF Goto, TypeOK, WorkerStates
<1>7. CASE worker'[w] = worker[w]
  BY <1>1, <1>7 DEF ControlOK
<1>8. CASE CompletedExecution(w) \/ BeginRun(w) \/ FinishModel(w) \/ CaughtPause(w)
  <2>1. worker'[w].told = worker[w].told
        /\ worker'[w].at \in {"begin", "reconcile", "caught", "model", "prepare", "reopen"}
    <3>1. CASE CompletedExecution(w)
      BY <3>1 DEF CompletedExecution, TypeOK, WorkerStates
    <3>2. CASE BeginRun(w)
      BY <3>2 DEF BeginRun, Goto, TypeOK, WorkerStates
    <3>3. CASE FinishModel(w)
      BY <3>3 DEF FinishModel, TypeOK, WorkerStates
    <3>4. CASE CaughtPause(w)
      BY <3>4 DEF CaughtPause, TypeOK, WorkerStates
    <3> QED BY <1>8, <3>1, <3>2, <3>3, <3>4
  <2> QED BY <1>3, <2>1
<1>9. CASE Settle(w)
  <2>1. /\ worker'[w].told \in {worker[w].told, Requested(w)}
        /\ \/ worker'[w].at \in {"caught", "reopen", "complete"}
           \/ /\ worker'[w].at = "ack" /\ worker'[w].after = "complete"
              /\ worker'[w].outcome = "completed"
    BY <1>5, <1>9 DEF Settle, TypeOK, WorkerStates
  <2> QED BY <1>1, <1>2, <2>1 DEF ControlOK
<1>10. CASE CaughtCancel(w)
  <2>1. /\ worker'[w].told = worker[w].told
        /\ worker'[w].at = "ack" /\ worker'[w].after = "end"
    BY <1>5, <1>10 DEF CaughtCancel, TypeOK, WorkerStates
  <2>2. Cancelling'
    BY <1>1, <1>2, <1>10 DEF CaughtCancel
  <2> QED BY <2>1, <2>2 DEF ControlOK
<1>11. CASE HearControl(w) \/ NoticeLost(w)
  <2>1. /\ worker'[w].told \in {worker[w].told, Requested(w)}
        /\ worker'[w].at = worker[w].at
        /\ worker'[w].after = worker[w].after /\ worker'[w].outcome = worker[w].outcome
    BY <1>5, <1>11 DEF HearControl, NoticeLost, TypeOK, WorkerStates
  <2> QED BY <1>1, <1>2, <2>1 DEF ControlOK
<1>12. CASE Ended(w)
  <2>1. worker'[w] = Idle
    BY <1>12, Moves
  <2> QED BY <1>3, <2>1 DEF Idle
<1>13. ASSUME NEW step \in Steps \ {"ack", "clear", "final"}, Goto(w, step)
       PROVE  ControlOK(w)'
  BY <1>3, <1>6, <1>13
<1>14. CASE (AcknowledgeTask(w) /\ Goto(w, "clear")) \/ (ClearRun(w) /\ Goto(w, "final"))
  <2>1. worker[w].at \in {"ack", "clear", "final"}
    BY <1>14 DEF AcknowledgeTask, ClearRun, At
  <2> QED BY <1>4, <1>6, <1>14, <2>1
<1>15. CASE /\ Progress(w) \/ Disturbance(w)
            /\ ~CompletedExecution(w) /\ ~BeginRun(w) /\ ~FinishModel(w) /\ ~Settle(w)
            /\ ~CaughtCancel(w) /\ ~CaughtPause(w) /\ ~NoticeLost(w) /\ ~HearControl(w)
  <2>1. \/ Ended(w) \/ Goto(w, "receipt")
        \/ (AcknowledgeTask(w) /\ Goto(w, "clear")) \/ (ClearRun(w) /\ Goto(w, "final"))
        \/ \E step \in Steps \ {"ack", "clear", "final"} : Goto(w, step)
    BY <1>15, GoesElsewhere DEF Steps, Committing
  <2> QED BY <1>12, <1>13, <1>14, <2>1 DEF Steps, Committing
<1> QED
  BY <1>7, <1>8, <1>9, <1>10, <1>11, <1>15, OnlyOwnSteps

\* Only ClearRun makes a process one that closes.
LEMMA ClearedMoves ==
  ASSUME [Next]_vars, NEW w \in cleared', w \notin cleared
  PROVE  ClearRun(w) /\ Closes(w)
<1>1. ASSUME NEW v, ClearedInVain(v) PROVE FALSE
  BY <1>1 DEF ClearedInVain
<1>2. ASSUME NEW v \in Workers, ClearRun(v) PROVE ClearRun(w) /\ Closes(w)
  BY <1>2 DEF ClearRun
<1>3. ASSUME NEW v \in Workers, Progress(v) \/ Disturbance(v), ~ClearRun(v) PROVE FALSE
  <2>1. CASE Claim(v) \/ RecoveryStep(v) \/ RunStep(v) \/ FailureStep(v) \/ CatchStep(v)
    BY <2>1
    DEF Claim, RecoveryStep, CompletedExecution, ReconcileCompletedRun, JournalReconciled,
        RunStep, BeginRun, FinishModel, StopModel, FailureStep, PrepareFailure, FailRun,
        CatchStep, CaughtLost, CaughtCancel, CaughtPause, FailTask, historyVars, clearVars
  <2>2. CASE CommitStep(v)
    BY <2>2
    DEF CommitStep, Prepare, CommitReceipt, StoreReceipt, JournalReceipt, CompleteRun,
        JournalSession, StartEffect, ApplyEffect, RecordEffect, JournalEffects, historyVars,
        clearVars
  <2>3. CASE FinalStep(v) \/ Disturbance(v)
    BY <1>1, <1>3, <2>3
    DEF FinalStep, Disturbance, Settle, ClearReceipt, FinalizeReopened, SettleTaskControl,
        AcknowledgeTask, FinalizeExecution, CompleteTask, HearControl, NoticeLost, WriteFails,
        ReopenFails, FinalizeFails, Crash, historyVars, clearVars
  <2> QED BY <1>3, <2>1, <2>2, <2>3 DEF Progress
<1>4. (\E v \in Workers, c \in Calls : ToolStep(v, c)) \/ OwnerStep \/ Prune \/ UNCHANGED vars
        => UNCHANGED cleared
  BY DEF ToolStep, InvokeTool, Act, RecordTool, OwnerStep, Command, Resume, RetryDeadLetter,
         Prune, vars, historyVars, clearVars
<1>5. ~RecoverExpired
  BY <1>1 DEF RecoverExpired
<1> QED BY <1>2, <1>3, <1>4, <1>5 DEF Next

\* A process that cleared the ledger stays what it is until it completes the Task or its
\* clear turns out to have been in vain.
LEMMA ClosingStep ==
  ASSUME TypeOK, CloseInv, [Next]_vars, NEW w \in cleared' PROVE Closing(w)'
<1>0. w \in Workers /\ worker[w] \in WorkerStates
  <2>1. w \notin cleared => w \in Workers
    <3>1. SUFFICES ASSUME w \notin cleared, w \notin Workers PROVE FALSE
      OBVIOUS
    <3>2. ClearRun(w) /\ Closes(w)
      BY <3>1, ClearedMoves
    <3> QED BY <3>1, <3>2 DEF ClearRun, At, Closes, Holds, CloseInv, RowOK
  <2> QED BY <2>1 DEF TypeOK
<1>1. CASE w \notin cleared
  <2>1. ClearRun(w) /\ Closes(w)
    BY <1>1, ClearedMoves
  <2>2. UNCHANGED task /\ Goto(w, "final")
    BY <2>1 DEF ClearRun
  <2>3. /\ worker'[w].at = "final" /\ worker'[w].after = worker[w].after
        /\ worker'[w].outcome = worker[w].outcome
        /\ \A v \in Workers \ {w} : worker'[v] = worker[v]
    BY <1>0, <2>2 DEF Goto, TypeOK, WorkerStates
  <2>4. worker[w].outcome = "completed"
    BY <1>0, <2>1 DEF CloseInv, ControlOK, ClearRun, At, Closes
  <2> QED BY <2>1, <2>2, <2>3, <2>4 DEF Closing, Closes, Holds, OthersBehind
<1>2. CASE w \in cleared
  <2>1. Closing(w) /\ task.status = "running" /\ task.owner = w
    BY <1>2 DEF CloseInv, Closing, Closes, Holds
  <2>2. OthersBehind(w)'
    BY <2>1, BehindStays DEF Closing, Closes, OthersBehind
  <2>3. ASSUME NEW v \in Workers, ClearedInVain(v) PROVE v # w
    BY <2>3 DEF ClearedInVain
  <2>4. ASSUME NEW v \in Workers, Progress(v) \/ Disturbance(v), v # w PROVE UNCHANGED task
    <3>1. ~Holds(v) /\ ~Claim(v)
      BY <2>1, <2>4 DEF Holds, Claim
    <3>2. CASE RecoveryStep(v) \/ RunStep(v) \/ FailureStep(v) \/ CatchStep(v)
      BY <3>1, <3>2
      DEF RecoveryStep, CompletedExecution, ReconcileCompletedRun, JournalReconciled, RunStep,
          BeginRun, FinishModel, StopModel, FailureStep, PrepareFailure, FailRun, CatchStep,
          CaughtLost, CaughtCancel, CaughtPause, FailTask, ControlSettled
    <3>3. CASE CommitStep(v)
      BY <3>3
      DEF CommitStep, Prepare, CommitReceipt, StoreReceipt, JournalReceipt, CompleteRun,
          JournalSession, StartEffect, ApplyEffect, RecordEffect, JournalEffects
    <3>4. CASE FinalStep(v) \/ Disturbance(v)
      BY <3>1, <3>4
      DEF FinalStep, Disturbance, Settle, ClearReceipt, FinalizeReopened, SettleTaskControl,
          AcknowledgeTask, ClearRun, FinalizeExecution, CompleteTask, ControlSettled,
          HearControl, NoticeLost, WriteFails, ReopenFails, FinalizeFails, Crash
    <3> QED BY <2>4, <3>1, <3>2, <3>3, <3>4 DEF Progress
  <2>5. CASE Progress(w) \/ Disturbance(w)
    <3>1. worker[w].at \in {"final", "complete"} /\ worker[w].after = "complete"
          /\ worker[w].outcome = "completed"
      BY <2>1 DEF Closing, Closes
    <3>2. ~CompleteTask(w) /\ ~Crash(w)
      BY <1>0, <2>3 DEF CompleteTask, Crash
    <3>3. UNCHANGED task /\ (Goto(w, "complete") \/ HearControl(w) \/ NoticeLost(w))
      <4>1. CASE Progress(w)
        BY <3>1, <3>2, <4>1
        DEF Progress, Claim, At, RecoveryStep, CompletedExecution, ReconcileCompletedRun,
            JournalReconciled, RunStep, BeginRun, FinishModel, StopModel, CommitStep, Prepare,
            CommitReceipt, StoreReceipt, JournalReceipt, CompleteRun, JournalSession,
            StartEffect, ApplyEffect, RecordEffect, JournalEffects, FailureStep, PrepareFailure,
            FailRun, FinalStep, Settle, ClearReceipt, FinalizeReopened, SettleTaskControl,
            AcknowledgeTask, ClearRun, FinalizeExecution, CatchStep, CaughtLost, CaughtCancel,
            CaughtPause, FailTask
      <4>2. CASE Disturbance(w)
        BY <3>1, <3>2, <4>2
        DEF Disturbance, HearControl, NoticeLost, WriteFails, ReopenFails, FinalizeFails,
            Committing, At
      <4> QED BY <2>5, <4>1, <4>2
    <3>4. /\ worker'[w].at \in {"final", "complete"} /\ worker'[w].after = worker[w].after
          /\ worker'[w].outcome = worker[w].outcome
      BY <1>0, <3>1, <3>3 DEF Goto, HearControl, NoticeLost, TypeOK, WorkerStates
    <3> QED BY <2>1, <2>2, <3>1, <3>3, <3>4 DEF Closing, Closes, Holds
  <2>6. CASE ~(Progress(w) \/ Disturbance(w))
    <3>1. worker'[w] = worker[w]
      BY <1>0, <2>6, OnlyOwnSteps
    <3>2. ~RecoverExpired
      BY <1>0, <2>1, <2>3 DEF RecoverExpired
    <3>3. task'.status = "running" /\ task'.owner = w
      <4>1. (\E v \in Workers, c \in Calls : ToolStep(v, c)) \/ Prune \/ UNCHANGED vars
              => UNCHANGED task
        BY DEF ToolStep, InvokeTool, Act, RecordTool, Prune, vars
      <4>2. OwnerStep => task'.status = "running" /\ task'.owner = w
        BY <2>1 DEF OwnerStep, Command, Resume, RetryDeadLetter, TypeOK, TaskRows
      <4>3. ASSUME NEW v \in Workers, Progress(v) \/ Disturbance(v) PROVE UNCHANGED task
        BY <2>4, <2>6, <4>3
      <4> QED BY <2>1, <3>2, <4>1, <4>2, <4>3 DEF Next
    <3> QED BY <2>1, <2>2, <3>1, <3>3 DEF Closing, Closes, Holds
  <2> QED BY <2>5, <2>6
<1> QED BY <1>1, <1>2

LEMMA InitClose == Init => CloseInv
BY DEF Init, CloseInv, RowOK, ControlOK, Idle

LEMMA StepClose ==
  ASSUME TypeOK, CloseInv, [Next]_vars PROVE CloseInv'
<1>1. RowOK'
  BY RowStep DEF CloseInv
<1> QED BY <1>1, ControlStep, ClosingStep DEF CloseInv

----------------------------------------------------------------------------
(* Effects against clears of the ledger.  An effect needs an operation that claimed an
   absent entry, and an entry becomes absent again only by a clear.  So the effects that
   happened, the operations that may still act and the claim that is still open together
   stay within one more than the early clears.  The clear at the end of the Task opens no
   claim that anybody could still take. *)

\* No worker will take another entry of the execution key.
Done == LastAttempt /\ \A w \in Workers : worker[w].at \in Behind

\* Nor will one as long as the process that cleared the ledger is about to complete the Task.
Closed == Done \/ cleared # {}

OpenClaim(entry) == IF entry = "absent" /\ ~Closed THEN 1 ELSE 0

Called(c) == {w \in Workers : flight[w][c] = "called"}

Applying == {w \in Workers : At(w, "applying")}

\* n effects happened, those in Acting may still happen, and claims are still open.
Covered(n, Acting, claims, clears) ==
  IsFiniteSet(Acting) /\ n + Cardinality(Acting) + claims <= 1 + clears

CallCovered(c) == Covered(effects[c], Called(c), OpenClaim(ledger[c]), early)

ActionCovered == Covered(applied, Applying, OpenClaim(action), early)

CountInv == (\A c \in Calls : CallCovered(c)) /\ ActionCovered

\* The end of a Task is final: no claim, no owner command and no recovery moves it.
LEMMA DoneStays ==
  ASSUME TypeOK, CloseInv, Done, [Next]_vars PROVE Done'
<1>1. LastAttempt /\ RowOK
  BY DEF Done, CloseInv
<1>2. LastAttempt'
  BY <1>1, RowStep
<1>3. task.status # "queued"
  BY <1>1 DEF LastAttempt, RowOK
<1>4. \A w \in Workers : worker'[w].at \in Behind
  BY <1>3, BehindStays DEF Done
<1> QED BY <1>2, <1>4 DEF Done

\* While a claim is closed, everybody is behind its run.
LEMMA ClosedBehind ==
  ASSUME CloseInv, Closed, NEW w \in Workers PROVE worker[w].at \in Behind
<1>1. CASE Done
  BY <1>1 DEF Done
<1>2. ASSUME NEW v \in cleared PROVE worker[w].at \in Behind
  <2>1. Closing(v)
    BY DEF CloseInv
  <2> QED BY <2>1 DEF Closing, Closes, OthersBehind, Behind
<1> QED BY <1>1, <1>2 DEF Closed

\* The claims stay closed, or the clear that closed them is counted.
LEMMA ClosedStays ==
  ASSUME TypeOK, CloseInv, Closed, [Next]_vars
  PROVE  Closed' \/ early' = early + 1
<1>1. CASE Done
  BY <1>1, DoneStays DEF Closed
<1>2. ASSUME NEW w \in cleared, w \notin cleared' PROVE Closed' \/ early' = early + 1
  <2>1. Closing(w) /\ w \in Workers /\ task.status = "running" /\ task.owner = w
    BY DEF CloseInv, Closing, Closes, Holds, TypeOK
  <2>2. ASSUME NEW v, ClearedInVain(v) PROVE early' = early + 1
    BY <1>2, <2>2 DEF ClearedInVain
  <2>3. ASSUME NEW v \in Workers, CompleteTask(v) PROVE Closed' \/ early' = early + 1
    <3>1. CASE ClearedInVain(v)
      BY <2>2, <3>1
    <3>2. CASE Holds(v) /\ task.intent = "none"
      <4>1. v = w /\ worker[v].outcome = "completed"
        BY <2>1, <3>2 DEF Holds, Closing
      <4>2. task'.status = "completed"
        BY <2>3, <3>2, <4>1 DEF CompleteTask, Left, TypeOK, TaskRows
      <4>3. \A u \in Workers : worker'[u].at \in Behind
        <5>1. \A u \in Workers : worker[u].at \in Behind
          BY ClosedBehind
        <5> QED BY <2>1, <5>1, BehindStays
      <4> QED BY <4>2, <4>3 DEF Closed, Done, LastAttempt
    <3> QED BY <2>3, <3>1, <3>2 DEF CompleteTask
  <2>4. ASSUME NEW v \in Workers, ClearRun(v) PROVE FALSE
    BY <1>2, <2>4 DEF ClearRun
  <2>5. ASSUME NEW v \in Workers, Progress(v) \/ Disturbance(v), ~CompleteTask(v)
        PROVE  early' = early + 1
    <3>1. CASE Claim(v) \/ RecoveryStep(v) \/ RunStep(v) \/ FailureStep(v) \/ CatchStep(v)
      BY <1>2, <3>1
      DEF Claim, RecoveryStep, CompletedExecution, ReconcileCompletedRun, JournalReconciled,
          RunStep, BeginRun, FinishModel, StopModel, FailureStep, PrepareFailure, FailRun,
          CatchStep, CaughtLost, CaughtCancel, CaughtPause, FailTask, historyVars, clearVars
    <3>2. CASE CommitStep(v)
      BY <1>2, <3>2
      DEF CommitStep, Prepare, CommitReceipt, StoreReceipt, JournalReceipt, CompleteRun,
          JournalSession, StartEffect, ApplyEffect, RecordEffect, JournalEffects, historyVars,
          clearVars
    <3>3. CASE FinalStep(v) \/ Disturbance(v)
      BY <1>2, <2>2, <2>4, <2>5, <3>3
      DEF FinalStep, Disturbance, Settle, ClearReceipt, FinalizeReopened, SettleTaskControl,
          AcknowledgeTask, FinalizeExecution, HearControl, NoticeLost, WriteFails, ReopenFails,
          FinalizeFails, Crash, historyVars, clearVars
    <3> QED BY <2>5, <3>1, <3>2, <3>3 DEF Progress
  <2>6. RecoverExpired => early' = early + 1
    BY <2>2 DEF RecoverExpired
  <2>7. ~((\E v \in Workers, c \in Calls : ToolStep(v, c)) \/ OwnerStep \/ Prune \/ UNCHANGED vars)
    BY <1>2
    DEF ToolStep, InvokeTool, Act, RecordTool, OwnerStep, Command, Resume, RetryDeadLetter,
        Prune, vars, historyVars, clearVars
  <2> QED BY <2>3, <2>5, <2>6, <2>7 DEF Next
<1>3. CASE \E w \in cleared : w \in cleared'
  BY <1>3 DEF Closed
<1> QED BY <1>1, <1>2, <1>3 DEF Closed

\* What may still act shrinks, and no claim is opened but by a clear.
LEMMA CoveredKept ==
  ASSUME NEW n \in Nat, NEW S, NEW T, NEW claims \in 0..1, NEW claims2 \in 0..1,
         NEW clears \in Nat, NEW clears2 \in Nat,
         Covered(n, S, claims, clears), T \subseteq S,
         (clears2 = clears /\ claims2 <= claims) \/ clears2 = clears + 1
  PROVE  Covered(n, T, claims2, clears2)
<1>1. /\ IsFiniteSet(T) /\ Cardinality(T) \in Nat /\ Cardinality(S) \in Nat
      /\ Cardinality(T) <= Cardinality(S)
  BY FS_Subset, FS_CardinalityType DEF Covered
<1> QED BY <1>1 DEF Covered

\* Taking the open claim: one more may act.
LEMMA CoveredByClaim ==
  ASSUME NEW n \in Nat, NEW S, NEW T, NEW w, NEW clears \in Nat,
         Covered(n, S, 1, clears), T \subseteq S \cup {w}
  PROVE  Covered(n, T, 0, clears)
<1>1. IsFiniteSet(S)
  BY DEF Covered
<1>2. IsFiniteSet(S \cup {w}) /\ Cardinality(S) \in Nat
  BY <1>1, FS_AddElement, FS_CardinalityType
<1>3. Cardinality(S \cup {w}) \in {Cardinality(S), Cardinality(S) + 1}
  BY <1>1, FS_AddElement
<1>4. /\ IsFiniteSet(T) /\ Cardinality(T) \in Nat
      /\ Cardinality(T) <= Cardinality(S \cup {w})
  BY <1>2, FS_Subset, FS_CardinalityType
<1> QED BY <1>2, <1>3, <1>4 DEF Covered

\* Acting: one that might act has acted.
LEMMA CoveredByEffect ==
  ASSUME NEW n \in Nat, NEW S, NEW w \in S, NEW claims \in 0..1, NEW claims2 \in 0..1,
         NEW clears \in Nat, Covered(n, S, claims, clears), claims2 <= claims
  PROVE  Covered(n + 1, S \ {w}, claims2, clears)
<1>1. IsFiniteSet(S)
  BY DEF Covered
<1>2. /\ IsFiniteSet(S \ {w}) /\ Cardinality(S) \in Nat
      /\ Cardinality(S \ {w}) = Cardinality(S) - 1
  BY <1>1, FS_RemoveElement, FS_CardinalityType
<1> QED BY <1>1, <1>2 DEF Covered

\* The clear at the end of the Task, and every other clear
LEMMA ClearsCounted ==
  ASSUME TypeOK, CloseInv, NEW w \in Workers, ClearRun(w)
  PROVE  early' = early + 1 \/ (early' = early /\ Closed')
<1>1. CASE TooEarly(w)
  BY <1>1 DEF ClearRun
<1>2. CASE ~TooEarly(w) /\ Closes(w)
  BY <1>2 DEF ClearRun, Closed
<1>3. CASE ~TooEarly(w) /\ ~Closes(w)
  <2>1. OthersBehind(w) /\ early' = early /\ UNCHANGED task
    BY <1>3 DEF ClearRun, TooEarly
  <2>2. LastAttempt
    BY <1>3, <2>1
    DEF CloseInv, ControlOK, ClearRun, At, TooEarly, Closes, Cancelling, LastAttempt
  <2>3. worker'[w].at = "final" /\ \A v \in Workers \ {w} : worker'[v] = worker[v]
    BY Moves DEF ClearRun
  <2> QED BY <2>1, <2>2, <2>3 DEF Closed, Done, LastAttempt, OthersBehind, Behind
<1> QED BY <1>1, <1>2, <1>3

\* The workers' own steps but those that touch the entries, the flight or the history
LEMMA OtherStepsQuiet ==
  ASSUME NEW w \in Workers, Progress(w) \/ Disturbance(w), ~ClearRun(w), ~Crash(w)
  PROVE  UNCHANGED <<flight, effects, ledger>> /\ (early' = early \/ early' = early + 1)
<1>1. CASE Claim(w) \/ RecoveryStep(w) \/ RunStep(w) \/ FailureStep(w) \/ CatchStep(w)
  BY <1>1
  DEF Claim, RecoveryStep, CompletedExecution, ReconcileCompletedRun, JournalReconciled, RunStep,
      BeginRun, FinishModel, StopModel, FailureStep, PrepareFailure, FailRun, CatchStep,
      CaughtLost, CaughtCancel, CaughtPause, FailTask, ledgerVars, historyVars, clearVars
<1>2. CASE CommitStep(w)
  BY <1>2
  DEF CommitStep, Prepare, CommitReceipt, StoreReceipt, JournalReceipt, CompleteRun,
      JournalSession, StartEffect, ApplyEffect, RecordEffect, JournalEffects, ledgerVars,
      historyVars, clearVars
<1>3. CASE FinalStep(w) \/ Disturbance(w)
  BY <1>3
  DEF FinalStep, Disturbance, Settle, ClearReceipt, FinalizeReopened, SettleTaskControl,
      AcknowledgeTask, FinalizeExecution, CompleteTask, ClearedInVain, HearControl, NoticeLost,
      WriteFails, ReopenFails, FinalizeFails, ledgerVars, historyVars, clearVars
<1> QED BY <1>1, <1>2, <1>3 DEF Progress

LEMMA CallsCounted ==
  ASSUME TypeOK, TypeOK', CloseInv, CountInv, [Next]_vars, NEW c \in Calls
  PROVE  CallCovered(c)'
<1> DEFINE Keeps ==
      /\ \A w \in Workers : flight'[w][c] = "called" => flight[w][c] = "called"
      /\ effects'[c] = effects[c]
      /\ \/ early' = early /\ (ledger'[c] = "absent" => ledger[c] = "absent" \/ Closed')
         \/ early' = early + 1
<1>1. /\ Covered(effects[c], Called(c), OpenClaim(ledger[c]), early)
      /\ effects[c] \in Nat /\ early \in Nat /\ early' \in Nat
      /\ OpenClaim(ledger[c]) \in 0..1 /\ OpenClaim(ledger[c])' \in 0..1
  BY DEF CountInv, CallCovered, TypeOK, OpenClaim
<1>2. Closed => Closed' \/ early' = early + 1
  BY ClosedStays
<1>3. Keeps => CallCovered(c)'
  <2> SUFFICES ASSUME Keeps PROVE CallCovered(c)'
    OBVIOUS
  <2>1. Called(c)' \subseteq Called(c)
    BY DEF Called
  <2>2. (early' = early /\ OpenClaim(ledger[c])' <= OpenClaim(ledger[c])) \/ early' = early + 1
    BY <1>1, <1>2 DEF OpenClaim
  <2>3. Covered(effects[c], Called(c)', OpenClaim(ledger[c])', early')
    BY <1>1, <2>1, <2>2, CoveredKept
  <2> QED BY <2>3 DEF CallCovered
<1>4. ASSUME NEW w \in Workers, NEW d \in Calls, InvokeTool(w, d)
      PROVE  CallCovered(c)'
  <2>1. \A v \in Workers : v # w => flight'[v] = flight[v]
    BY <1>4 DEF InvokeTool, TypeOK
  <2>2. CASE c # d
    BY <1>3, <1>4, <2>2 DEF InvokeTool, TypeOK, historyVars, clearVars
  <2>3. CASE c = d
    <3>1. /\ ledger[c] = "absent" /\ ledger'[c] # "absent" /\ UNCHANGED <<effects, early>>
          /\ Called(c)' \subseteq Called(c) \cup {w}
      BY <1>4, <2>1, <2>3 DEF InvokeTool, TypeOK, Called, historyVars, clearVars
    <3>2. ~Closed
      BY <1>4, ClosedBehind DEF InvokeTool, At, Behind
    <3>3. OpenClaim(ledger[c]) = 1 /\ OpenClaim(ledger[c])' = 0
      BY <3>1, <3>2 DEF OpenClaim
    <3>4. Covered(effects[c], Called(c)', 0, early)
      BY <1>1, <3>1, <3>3, CoveredByClaim
    <3> QED BY <3>1, <3>3, <3>4 DEF CallCovered
  <2> QED BY <2>2, <2>3
<1>5. ASSUME NEW w \in Workers, NEW d \in Calls, Act(w, d)
      PROVE  CallCovered(c)'
  <2>1. \A v \in Workers : v # w => flight'[v] = flight[v]
    BY <1>5 DEF Act, TypeOK
  <2>2. CASE c # d
    BY <1>3, <1>5, <2>2 DEF Act, TypeOK, ledgerVars, clearVars
  <2>3. CASE c = d
    <3>1. flight[w][c] = "called" /\ flight'[w][c] = "acted"
      BY <1>5, <2>3 DEF Act, TypeOK
    <3>2. /\ w \in Called(c) /\ Called(c)' = Called(c) \ {w}
          /\ effects'[c] = effects[c] + 1 /\ UNCHANGED <<ledger, early>>
      BY <1>5, <2>1, <2>3, <3>1 DEF Act, TypeOK, Called, ledgerVars, clearVars
    <3>3. OpenClaim(ledger[c])' <= OpenClaim(ledger[c])
      BY <1>1, <1>2, <3>2 DEF OpenClaim
    <3>4. Covered(effects[c] + 1, Called(c) \ {w}, OpenClaim(ledger[c])', early)
      BY <1>1, <3>2, <3>3, CoveredByEffect
    <3> QED BY <3>2, <3>4 DEF CallCovered
  <2> QED BY <2>2, <2>3
<1>6. ASSUME NEW w \in Workers, NEW d \in Calls,
             NEW status \in {"succeeded", "failed", "uncertain"}, RecordTool(w, d, status)
      PROVE  Keeps
  BY <1>6 DEF RecordTool, TypeOK, historyVars, clearVars
<1>7. ASSUME NEW w \in Workers, Crash(w) PROVE Keeps
  BY <1>7 DEF Crash, ClearedInVain, TypeOK, ledgerVars
<1>8. ASSUME NEW w \in Workers, ClearRun(w) PROVE Keeps
  <2>1. UNCHANGED <<flight, effects>>
    BY <1>8 DEF ClearRun
  <2> QED BY <1>8, <2>1, ClearsCounted
<1>9. Prune => Keeps
  BY DEF Prune
<1>10. UNCHANGED <<flight, effects, ledger>> /\ (early' = early \/ early' = early + 1) => Keeps
  OBVIOUS
<1> HIDE DEF Keeps
<1>11. RecoverExpired \/ OwnerStep \/ UNCHANGED vars => Keeps
  BY <1>10
  DEF RecoverExpired, ClearedInVain, OwnerStep, Command, Resume, RetryDeadLetter, vars,
      ledgerVars, historyVars, clearVars
<1>12. ASSUME NEW w \in Workers, Progress(w) \/ Disturbance(w) PROVE Keeps
  BY <1>7, <1>8, <1>10, <1>12, OtherStepsQuiet
<1> QED BY <1>3, <1>4, <1>5, <1>6, <1>9, <1>11, <1>12 DEF Next, ToolStep

LEMMA GotoAppliesNothing ==
  ASSUME TypeOK, NEW w \in Workers, NEW step, step # "applying", Goto(w, step)
  PROVE  \A v \in Workers : worker'[v].at = "applying" => worker[v].at = "applying"
<1>1. worker'[w].at = step /\ \A v \in Workers \ {w} : worker'[v] = worker[v]
  BY Moves
<1> QED BY <1>1

LEMMA OtherStepsApplyNothing ==
  ASSUME TypeOK, NEW w \in Workers, Progress(w) \/ Disturbance(w), ~StartEffect(w)
  PROVE  \A v \in Workers : worker'[v].at = "applying" => worker[v].at = "applying"
<1> DEFINE Goes == Ended(w) \/ \E step \in Steps \ {"applying"} : Goto(w, step)
<1>1. CASE Goes
  <2>1. CASE Ended(w)
    BY <2>1 DEF Ended, Idle, TypeOK
  <2>2. CASE \E step \in Steps \ {"applying"} : Goto(w, step)
    BY <2>2, Moves
  <2> QED BY <1>1, <2>1, <2>2
<1>2. CASE CompletedExecution(w) \/ BeginRun(w) \/ FinishModel(w) \/ Settle(w)
             \/ CaughtCancel(w) \/ CaughtPause(w) \/ NoticeLost(w) \/ HearControl(w)
  <2>1. \A v \in Workers \ {w} : worker'[v] = worker[v]
    BY OthersKept
  <2>2. NoticeLost(w) \/ HearControl(w) => worker'[w].at = worker[w].at
    BY DEF TypeOK, WorkerStates, NoticeLost, HearControl
  <2>3. BeginRun(w) \/ FinishModel(w) \/ CaughtCancel(w) \/ CaughtPause(w) =>
          worker'[w].at \in {"caught", "model", "prepare", "ack", "reopen"}
    BY DEF TypeOK, WorkerStates, BeginRun, FinishModel, CaughtCancel, CaughtPause, Goto
  <2>4. CompletedExecution(w) => worker'[w].at \in {"begin", "reconcile", "caught"}
    BY DEF TypeOK, WorkerStates, CompletedExecution
  <2>5. Settle(w) => worker'[w].at \in {"caught", "reopen", "ack", "complete"}
    BY DEF TypeOK, WorkerStates, Settle
  <2> QED BY <1>2, <2>1, <2>2, <2>3, <2>4, <2>5
<1>3. CASE Claim(w) \/ ReconcileCompletedRun(w) \/ JournalReconciled(w) \/ StopModel(w)
             \/ FailureStep(w) \/ (CatchStep(w) /\ ~CaughtCancel(w) /\ ~CaughtPause(w))
  BY <1>1, <1>3
  DEF Claim, ReconcileCompletedRun, JournalReconciled, StopModel, FailureStep, PrepareFailure,
      FailRun, CatchStep, CaughtLost, FailTask, Steps, Committing
<1>4. CASE CommitStep(w)
  BY <1>1, <1>4
  DEF CommitStep, Prepare, CommitReceipt, StoreReceipt, JournalReceipt, CompleteRun,
      JournalSession, ApplyEffect, RecordEffect, JournalEffects, Steps, Committing
<1>5. CASE (FinalStep(w) /\ ~Settle(w))
             \/ (Disturbance(w) /\ ~NoticeLost(w) /\ ~HearControl(w))
  BY <1>1, <1>5
  DEF FinalStep, Disturbance, ClearReceipt, FinalizeReopened, SettleTaskControl,
      AcknowledgeTask, ClearRun, FinalizeExecution, CompleteTask, WriteFails, ReopenFails,
      FinalizeFails, Crash, Steps, Committing
<1> QED BY <1>2, <1>3, <1>4, <1>5 DEF Progress, RecoveryStep, RunStep

LEMMA OtherStepsKeepAction ==
  ASSUME NEW w \in Workers, Progress(w) \/ Disturbance(w), ~ClearRun(w), ~ApplyEffect(w)
  PROVE  /\ UNCHANGED applied /\ (early' = early \/ early' = early + 1)
         /\ action' = "absent" => action = "absent"
<1>1. CASE Claim(w) \/ RecoveryStep(w) \/ RunStep(w) \/ FailureStep(w) \/ CatchStep(w)
  BY <1>1
  DEF Claim, RecoveryStep, CompletedExecution, ReconcileCompletedRun, JournalReconciled, RunStep,
      BeginRun, FinishModel, StopModel, FailureStep, PrepareFailure, FailRun, CatchStep,
      CaughtLost, CaughtCancel, CaughtPause, FailTask, ledgerVars, historyVars, clearVars
<1>2. CASE CommitStep(w)
  BY <1>2
  DEF CommitStep, Prepare, CommitReceipt, StoreReceipt, JournalReceipt, CompleteRun,
      JournalSession, StartEffect, RecordEffect, JournalEffects, ledgerVars, historyVars, clearVars
<1>3. CASE FinalStep(w) \/ Disturbance(w)
  BY <1>3
  DEF FinalStep, Disturbance, Settle, ClearReceipt, FinalizeReopened, SettleTaskControl,
      AcknowledgeTask, FinalizeExecution, CompleteTask, ClearedInVain, HearControl, NoticeLost,
      WriteFails, ReopenFails, FinalizeFails, Crash, ledgerVars, historyVars, clearVars
<1> QED BY <1>1, <1>2, <1>3 DEF Progress

LEMMA ActionCounted ==
  ASSUME TypeOK, TypeOK', CloseInv, CountInv, [Next]_vars
  PROVE  ActionCovered'
<1> DEFINE Keeps ==
      /\ \A w \in Workers : worker'[w].at = "applying" => worker[w].at = "applying"
      /\ applied' = applied
      /\ \/ early' = early /\ (action' = "absent" => action = "absent" \/ Closed')
         \/ early' = early + 1
<1>1. /\ Covered(applied, Applying, OpenClaim(action), early)
      /\ applied \in Nat /\ early \in Nat /\ early' \in Nat
      /\ OpenClaim(action) \in 0..1 /\ OpenClaim(action)' \in 0..1
  BY DEF CountInv, ActionCovered, TypeOK, OpenClaim
<1>2. Closed => Closed' \/ early' = early + 1
  BY ClosedStays
<1>3. Keeps => ActionCovered'
  <2> SUFFICES ASSUME Keeps PROVE ActionCovered'
    OBVIOUS
  <2>1. Applying' \subseteq Applying
    BY DEF Applying, At
  <2>2. (early' = early /\ OpenClaim(action)' <= OpenClaim(action)) \/ early' = early + 1
    BY <1>1, <1>2 DEF OpenClaim
  <2>3. Covered(applied, Applying', OpenClaim(action)', early')
    BY <1>1, <2>1, <2>2, CoveredKept
  <2> QED BY <2>3 DEF ActionCovered
<1>4. ASSUME NEW w \in Workers, StartEffect(w) PROVE ActionCovered'
  <2>1. UNCHANGED <<applied, early>> /\ worker[w].at = "apply"
    BY <1>4 DEF StartEffect, historyVars, clearVars, At
  <2>2. CASE action # "absent"
    <3>1. Goto(w, "applied") \/ Goto(w, "caught")
      BY <1>4, <2>2 DEF StartEffect
    <3>2. UNCHANGED action
      BY <1>4, <2>2 DEF StartEffect
    <3>3. \A v \in Workers : worker'[v].at = "applying" => worker[v].at = "applying"
      BY <3>1, GotoAppliesNothing
    <3>4. Keeps
      BY <2>1, <3>2, <3>3
    <3> QED BY <1>3, <3>4
  <2>3. CASE action = "absent"
    <3>1. Goto(w, "applying") /\ action' = "started"
      BY <1>4, <2>3 DEF StartEffect
    <3>2. Applying' \subseteq Applying \cup {w}
      BY <3>1, Moves DEF Applying, At
    <3>3. ~Closed
      BY <2>1, ClosedBehind DEF Behind
    <3>4. OpenClaim(action) = 1 /\ OpenClaim(action)' = 0
      BY <2>3, <3>1, <3>3 DEF OpenClaim
    <3>5. Covered(applied, Applying', 0, early)
      BY <1>1, <3>2, <3>4, CoveredByClaim
    <3> QED BY <2>1, <3>4, <3>5 DEF ActionCovered
  <2> QED BY <2>2, <2>3
<1>5. ASSUME NEW w \in Workers, ApplyEffect(w) PROVE ActionCovered'
  <2>1. /\ Goto(w, "recording") /\ worker[w].at = "applying"
        /\ applied' = applied + 1 /\ UNCHANGED <<action, early>>
    BY <1>5 DEF ApplyEffect, At, ledgerVars, clearVars
  <2>2. worker'[w].at = "recording" /\ \A v \in Workers \ {w} : worker'[v] = worker[v]
    BY <2>1, Moves
  <2>3. w \in Applying /\ Applying' = Applying \ {w}
    BY <2>1, <2>2 DEF Applying, At
  <2>4. OpenClaim(action)' <= OpenClaim(action)
    BY <1>1, <1>2, <2>1 DEF OpenClaim
  <2>5. Covered(applied + 1, Applying \ {w}, OpenClaim(action)', early)
    BY <1>1, <2>3, <2>4, CoveredByEffect
  <2> QED BY <2>1, <2>3, <2>5 DEF ActionCovered
<1>6. ASSUME NEW w \in Workers, ClearRun(w) PROVE Keeps
  <2>1. UNCHANGED applied /\ Goto(w, "final")
    BY <1>6 DEF ClearRun
  <2>2. \A v \in Workers : worker'[v].at = "applying" => worker[v].at = "applying"
    BY <2>1, GotoAppliesNothing
  <2>3. early' = early + 1 \/ (early' = early /\ Closed')
    BY <1>6, ClearsCounted
  <2> QED BY <2>1, <2>2, <2>3
<1>7. ASSUME NEW w \in Workers, Progress(w) \/ Disturbance(w), ~ClearRun(w), ~StartEffect(w),
             ~ApplyEffect(w)
      PROVE  Keeps
  BY <1>7, OtherStepsApplyNothing, OtherStepsKeepAction
<1>8. Prune => Keeps
  BY DEF Prune
<1>9. (\E w \in Workers, c \in Calls : ToolStep(w, c)) \/ RecoverExpired \/ OwnerStep
        \/ UNCHANGED vars => Keeps
  BY DEF ToolStep, InvokeTool, Act, RecordTool, RecoverExpired, ClearedInVain, OwnerStep,
         Command, Resume, RetryDeadLetter, vars, ledgerVars, historyVars, clearVars
<1> HIDE DEF Keeps
<1> QED BY <1>3, <1>4, <1>5, <1>6, <1>7, <1>8, <1>9 DEF Next

----------------------------------------------------------------------------
(* Without a crash, a lost lease, an owner command or a long wait, one process at a time
   drives the Task and completes what it cleared. *)

Undriven ==
  /\ early = 0 /\ task.intent = "none"
  /\ \A w \in Workers :
       /\ ~worker[w].lost /\ worker[w].told = "none" /\ worker[w].after = "complete"
       /\ worker[w].at # "settling"
       /\ Holds(w) <=> worker[w].at # "idle"

CalmInv == Undisturbed => Undriven

\* No bound is given back.
LEMMA UsedGrows ==
  ASSUME TypeOK, [Next]_vars PROVE \A bound \in BoundNames : used[bound] <= used'[bound]
<1> DEFINE Grows == \A bound \in BoundNames : used[bound] <= used'[bound]
<1>1. UNCHANGED used => Grows
  BY DEF TypeOK, BoundNames
<1>2. ASSUME NEW bound \in BoundNames, NEW max, Spend(bound, max) PROVE Grows
  BY <1>2 DEF TypeOK, BoundNames, Spend
<1> HIDE DEF Grows
<1>3. ASSUME NEW w \in Workers, Progress(w) \/ Disturbance(w) PROVE Grows
  <2>1. CASE Claim(w) \/ RecoveryStep(w) \/ RunStep(w) \/ FailureStep(w) \/ CatchStep(w)
    BY <1>1, <2>1
    DEF Claim, RecoveryStep, CompletedExecution, ReconcileCompletedRun, JournalReconciled,
        RunStep, BeginRun, FinishModel, StopModel, FailureStep, PrepareFailure, FailRun,
        CatchStep, CaughtLost, CaughtCancel, CaughtPause, FailTask
  <2>2. CASE CommitStep(w)
    BY <1>1, <2>2
    DEF CommitStep, Prepare, CommitReceipt, StoreReceipt, JournalReceipt, CompleteRun,
        JournalSession, StartEffect, ApplyEffect, RecordEffect, JournalEffects
  <2>3. CASE FinalStep(w)
    BY <1>1, <2>3
    DEF FinalStep, Settle, ClearReceipt, FinalizeReopened, SettleTaskControl,
        AcknowledgeTask, ClearRun, FinalizeExecution, CompleteTask
  <2>4. CASE Disturbance(w)
    BY <1>1, <1>2, <2>4
    DEF Disturbance, HearControl, NoticeLost, WriteFails, ReopenFails, FinalizeFails, Crash,
        BoundNames
  <2> QED BY <1>3, <2>1, <2>2, <2>3, <2>4 DEF Progress
<1>4. (\E w \in Workers, c \in Calls : ToolStep(w, c)) \/ UNCHANGED vars => Grows
  BY <1>1 DEF ToolStep, InvokeTool, Act, RecordTool, vars
<1>5. RecoverExpired \/ OwnerStep \/ Prune => Grows
  BY <1>1, <1>2
  DEF RecoverExpired, OwnerStep, Command, Resume, RetryDeadLetter, Prune, BoundNames
<1> QED BY <1>3, <1>4, <1>5 DEF Next, Grows

\* The steps of a driver that goes on driving
DrivesOn(w) ==
  /\ UNCHANGED <<task, early>>
  /\ worker[w].at # "idle" /\ worker'[w].at \notin {"idle", "settling"}
  /\ UNCHANGED <<worker[w].lost, worker[w].told, worker[w].after>>

LEMMA DriverStep ==
  ASSUME TypeOK, CloseInv, Undriven, NEW w \in Workers, Progress(w) \/ Disturbance(w),
         ~Claim(w), ~CompleteTask(w), ~Crash(w),
         ~\E status \in {"queued", "failed", "dead_letter"} : FailTask(w, status)
  PROVE  DrivesOn(w)
<1>1. /\ ~worker[w].lost /\ worker[w].told = "none" /\ worker[w].after = "complete"
      /\ worker[w].at # "settling" /\ task.intent = "none" /\ worker[w] \in WorkerStates
      /\ Holds(w) <=> worker[w].at # "idle"
  BY DEF Undriven, TypeOK
<1>2. Requested(w) = "none"
  BY <1>1 DEF Requested
<1>3. ASSUME NEW step \in Steps \ {"idle", "settling"}, Goto(w, step), worker[w].at # "idle",
             UNCHANGED <<task, early>>
      PROVE  DrivesOn(w)
  BY <1>3 DEF DrivesOn, Goto, TypeOK, WorkerStates
<1>4. CASE CompletedExecution(w)
  BY <1>1, <1>4 DEF CompletedExecution, DrivesOn, At, TypeOK, WorkerStates, historyVars, clearVars
<1>5. CASE FinishModel(w)
  BY <1>1, <1>5 DEF FinishModel, DrivesOn, At, TypeOK, WorkerStates, historyVars, clearVars
<1>6. CASE BeginRun(w)
  BY <1>1, <1>6
  DEF BeginRun, Goto, DrivesOn, At, TypeOK, WorkerStates, historyVars, clearVars
<1>7. CASE Settle(w)
  <2>1. worker' = [worker EXCEPT ![w] =
          [@ EXCEPT !.after = "complete",
                    !.at = CASE worker[w].outcome = "partial" -> "reopen"
                             [] worker[w].outcome = "completed" -> "ack"
                             [] OTHER -> "complete"]]
    BY <1>1, <1>2, <1>7 DEF Settle
  <2>2. /\ worker'[w].at \in {"reopen", "ack", "complete"}
        /\ worker'[w].after = "complete"
        /\ worker'[w].lost = worker[w].lost /\ worker'[w].told = worker[w].told
    BY <1>1, <2>1 DEF TypeOK, WorkerStates
  <2> QED BY <1>1, <1>7, <2>2 DEF Settle, At, DrivesOn, historyVars, clearVars
<1>8. CASE ClearRun(w)
  <2>1. Holds(w) /\ worker[w].at = "clear"
    BY <1>1, <1>8 DEF ClearRun, At
  <2>2. OthersBehind(w)
    BY <2>1 DEF OthersBehind, Undriven, Holds, Behind
  <2>3. UNCHANGED <<task, early>> /\ Goto(w, "final")
    BY <1>8, <2>1, <2>2 DEF ClearRun, TooEarly
  <2> QED BY <1>3, <2>1, <2>3 DEF Steps
<1>9. CASE ReconcileCompletedRun(w) \/ JournalReconciled(w) \/ StopModel(w) \/ FailureStep(w)
             \/ (CatchStep(w) /\ ~\E status \in {"queued", "failed", "dead_letter"} : FailTask(w, status))
  BY <1>1, <1>2, <1>3, <1>9
  DEF ReconcileCompletedRun, JournalReconciled, StopModel, FailureStep, PrepareFailure,
      FailRun, CatchStep, CaughtLost, CaughtCancel, CaughtPause, At, Steps, Committing,
      historyVars, clearVars
<1>10. CASE CommitStep(w)
  BY <1>3, <1>10
  DEF CommitStep, Prepare, CommitReceipt, StoreReceipt, JournalReceipt, CompleteRun,
      JournalSession, StartEffect, ApplyEffect, RecordEffect, JournalEffects, At, Steps,
      Committing, historyVars, clearVars
<1>11. CASE FinalStep(w) /\ ~Settle(w) /\ ~ClearRun(w)
  BY <1>1, <1>3, <1>11
  DEF FinalStep, ClearReceipt, FinalizeReopened, SettleTaskControl, AcknowledgeTask,
      FinalizeExecution, At, Steps, historyVars, clearVars
<1>12. CASE Disturbance(w)
  BY <1>1, <1>3, <1>12
  DEF Disturbance, HearControl, NoticeLost, WriteFails, ReopenFails, FinalizeFails, At, Steps,
      Committing, historyVars, clearVars
<1> QED
  BY <1>4, <1>5, <1>6, <1>7, <1>8, <1>9, <1>10, <1>11, <1>12
  DEF Progress, RecoveryStep, RunStep

LEMMA CalmStep ==
  ASSUME TypeOK, CloseInv, CalmInv, [Next]_vars PROVE CalmInv'
<1> SUFFICES ASSUME Undisturbed' PROVE Undriven'
  BY DEF CalmInv
<1>1. \A bound \in {"crash", "stall", "owner", "age"} : used'[bound] = 0 /\ used[bound] = 0
  <2>1. \A bound \in BoundNames : used[bound] \in Nat /\ used[bound] <= used'[bound]
    BY UsedGrows DEF TypeOK, BoundNames
  <2>2. \A bound \in {"crash", "stall", "owner", "age"} : used'[bound] = 0
    BY DEF Undisturbed
  <2> QED BY <2>1, <2>2 DEF BoundNames
<1>2. Undriven
  BY <1>1 DEF CalmInv, Undisturbed
<1>3. ASSUME NEW bound \in {"crash", "stall", "owner", "age"}, NEW max, Spend(bound, max)
      PROVE  FALSE
  BY <1>1, <1>3 DEF Spend, TypeOK
<1>4. UNCHANGED <<task, worker, early>> => Undriven'
  BY <1>2 DEF Undriven, Holds
<1>5. ASSUME NEW w \in Workers, DrivesOn(w), \A v \in Workers \ {w} : worker'[v] = worker[v]
      PROVE  Undriven'
  BY <1>2, <1>5 DEF Undriven, Holds, DrivesOn
<1>6. ASSUME NEW w \in Workers, Claim(w) PROVE Undriven'
  <2>1. /\ task.status = "queued" /\ task'.status = "running" /\ task'.owner = w
        /\ task'.intent = "none" /\ early' = early
    BY <1>2, <1>6 DEF Claim, Undriven, TypeOK, TaskRows, historyVars, clearVars
  <2>2. /\ worker'[w].at = "claimed" /\ UNCHANGED <<worker[w].lost, worker[w].told, worker[w].after>>
        /\ \A v \in Workers \ {w} : worker'[v] = worker[v]
    BY <1>6 DEF Claim, Goto, TypeOK, WorkerStates
  <2> QED BY <1>2, <2>1, <2>2 DEF Undriven, Holds
<1>7. ASSUME NEW w \in Workers, worker[w].at # "idle", Ended(w), early' = early,
             Holds(w) => task'.status # "running" /\ task'.intent = "none"
      PROVE  Undriven'
  <2>1. task.status = "running" /\ task.owner = w
    BY <1>2, <1>7 DEF Undriven, Holds
  <2>2. worker'[w] = Idle /\ \A v \in Workers \ {w} : worker'[v] = worker[v]
    BY <1>7, Moves
  <2> QED BY <1>2, <1>7, <2>1, <2>2 DEF Undriven, Holds, Idle
<1>8. ASSUME NEW w \in Workers, CompleteTask(w) PROVE Undriven'
  <2>1. worker[w].at # "idle" /\ Holds(w) /\ task.intent = "none"
    BY <1>2, <1>8 DEF CompleteTask, At, Undriven
  <2>2. Ended(w) /\ early' = early
    BY <1>8, <2>1 DEF CompleteTask
  <2>3. \A status : [Left(status) EXCEPT !.answer = worker[w].run].status = status
                    /\ [Left(status) EXCEPT !.answer = worker[w].run].intent = "none"
    BY DEF TypeOK, TaskRows, Left
  <2>4. task'.status # "running" /\ task'.intent = "none"
    BY <1>8, <2>1, <2>3 DEF CompleteTask
  <2> QED BY <1>7, <2>1, <2>2, <2>4
<1>9. ASSUME NEW w \in Workers, NEW status \in {"queued", "failed", "dead_letter"},
             FailTask(w, status)
      PROVE  Undriven'
  <2>1. worker[w].at # "idle" /\ Ended(w) /\ early' = early
    BY <1>9 DEF FailTask, At, historyVars, clearVars
  <2>2. Holds(w) => task'.status # "running" /\ task'.intent = "none"
    BY <1>9, LeftFields DEF FailTask
  <2> QED BY <1>7, <2>1, <2>2
<1>10. ASSUME NEW w \in Workers, Progress(w) \/ Disturbance(w) PROVE Undriven'
  <2>1. ~Crash(w)
    BY <1>3 DEF Crash
  <2> QED BY <1>2, <1>5, <1>6, <1>8, <1>9, <1>10, <2>1, DriverStep, OthersKept
<1>11. ~RecoverExpired
  <2> SUFFICES ASSUME RecoverExpired PROVE FALSE
    OBVIOUS
  <2>1. task.status = "running" /\ task.owner \in Workers
    BY DEF RecoverExpired, CloseInv, RowOK
  <2>2. /\ worker[task.owner].at # "idle" /\ ~worker[task.owner].lost
        /\ worker[task.owner].after # "end"
    BY <1>2, <2>1 DEF Undriven, Holds
  <2> QED BY <1>3, <2>2 DEF RecoverExpired, At
<1>12. ~OwnerStep /\ ~Prune
  BY <1>3 DEF OwnerStep, Command, Resume, RetryDeadLetter, Prune
<1>13. (\E w \in Workers, c \in Calls : ToolStep(w, c)) \/ UNCHANGED vars => Undriven'
  BY <1>4 DEF ToolStep, InvokeTool, Act, RecordTool, vars, historyVars, clearVars
<1> QED BY <1>10, <1>11, <1>12, <1>13 DEF Next

LEMMA InitCalm == Init => CalmInv
BY DEF Init, CalmInv, Undriven, Idle, Holds

\* executeOnce lets nobody act without claiming an absent entry, and only a clear makes an
\* entry absent again: so a call has its effect, and a runtime action is applied, once and
\* at most once more for every early clear.  A clear is early only if its process did not
\* live, or was not let, to complete the Task, if it had lost the Task or was not alone, or
\* if the retention passed; without a crash, a lost lease, an owner command and such a wait
\* none is.  For any number of processes that run the same Task at once.
THEOREM EffectsAreAccounted == Spec => []EffectsAccounted
<1>1. Init => CountInv
  <2> SUFFICES ASSUME Init PROVE CountInv
    OBVIOUS
  <2>1. applied = 0 /\ early = 0 /\ Applying = {}
    BY DEF Init, Applying, At, Idle
  <2>2. \A c \in Calls : effects[c] = 0 /\ Called(c) = {}
    BY DEF Init, Called
  <2>3. IsFiniteSet({}) /\ Cardinality({}) = 0
    BY FS_EmptySet
  <2>4. \A e : OpenClaim(e) \in 0..1
    BY DEF OpenClaim
  <2> QED BY <2>1, <2>2, <2>3, <2>4 DEF CountInv, CallCovered, ActionCovered, Covered
<1>2. IInv /\ CloseInv /\ CountInv /\ [Next]_vars => CountInv'
  <2> SUFFICES ASSUME IInv, CloseInv, CountInv, [Next]_vars PROVE CountInv'
    OBVIOUS
  <2>1. TypeOK /\ TypeOK'
    BY TypeStep DEF IInv
  <2> QED BY <2>1, CallsCounted, ActionCounted DEF CountInv
<1>3. IInv /\ CountInv /\ CalmInv => EffectsAccounted
  <2> SUFFICES ASSUME IInv, CountInv, CalmInv PROVE EffectsAccounted
    OBVIOUS
  <2>1. early \in Nat /\ applied \in Nat /\ \A c \in Calls : effects[c] \in Nat
    BY DEF IInv, TypeOK
  <2>2. \A S : IsFiniteSet(S) => Cardinality(S) \in Nat
    BY FS_CardinalityType
  <2>3. \A e : OpenClaim(e) \in 0..1
    BY DEF OpenClaim
  <2>4. Undisturbed => early = 0
    BY DEF CalmInv, Undriven
  <2> QED BY <2>1, <2>2, <2>3, <2>4
      DEF CountInv, CallCovered, ActionCovered, Covered, EffectsAccounted
<1>4. IInv /\ CloseInv /\ CalmInv /\ [Next]_vars => CloseInv' /\ CalmInv'
  BY StepClose, CalmStep DEF IInv
<1> QED BY <1>1, <1>2, <1>3, <1>4, InitClose, InitCalm, InitIInv, StepIInv, PTL DEF Spec

----------------------------------------------------------------------------
(* One worker.  What follows holds of an execution key that one process drives: a second
   one that goes on after losing its lease can store a receipt, or clear the ledger, behind
   the back of the first (see the runs). *)

Alone == \A v, w \in Workers : v = w

FreshInv == \A w \in Workers : worker[w].at \in Unanswered => receipt.status = "absent"

\* The steps of a worker that enter a stage where no receipt is expected
EntersFresh(w) ==
  \/ CompletedExecution(w) \/ BeginRun(w) \/ FinishModel(w) \/ Prepare(w)
  \/ NoticeLost(w) \/ HearControl(w)

LEMMA FreshStep ==
  ASSUME Alone, TypeOK, FreshInv, [Next]_vars PROVE FreshInv'
<1>1. ASSUME NEW w \in Workers, worker'[w].at \in Unanswered => receipt'.status = "absent"
      PROVE  FreshInv'
  BY <1>1 DEF Alone, FreshInv
<1>2. ASSUME NEW w \in Workers, EntersFresh(w) PROVE FreshInv'
  <2>1. UNCHANGED receipt
    BY <1>2 DEF EntersFresh, CompletedExecution, BeginRun, FinishModel, Prepare, NoticeLost,
                HearControl, ledgerVars
  <2>2. CASE CompletedExecution(w)
    BY <1>1, <2>1, <2>2 DEF CompletedExecution, TypeOK, WorkerStates, Unanswered
  <2>3. CASE NoticeLost(w) \/ HearControl(w)
    <3>1. worker'[w].at = worker[w].at
      BY <2>3 DEF NoticeLost, HearControl, TypeOK, WorkerStates
    <3> QED BY <1>1, <2>1, <3>1 DEF FreshInv
  <2>4. CASE BeginRun(w) \/ FinishModel(w) \/ Prepare(w)
    <3>1. worker[w].at \in Unanswered
      BY <2>4 DEF BeginRun, FinishModel, Prepare, At, Unanswered
    <3> QED BY <1>1, <2>1, <3>1 DEF FreshInv
  <2> QED BY <1>2, <2>2, <2>3, <2>4 DEF EntersFresh
<1>3. ASSUME NEW w \in Workers, Settle(w) \/ CaughtCancel(w) \/ CaughtPause(w) PROVE FreshInv'
  <2>1. worker'[w].at \in {"caught", "reopen", "ack", "complete"}
    <3>1. CASE Settle(w)
      BY <3>1 DEF TypeOK, WorkerStates, Settle
    <3>2. CASE CaughtCancel(w)
      BY <3>2 DEF TypeOK, WorkerStates, CaughtCancel
    <3>3. CASE CaughtPause(w)
      BY <3>3 DEF TypeOK, WorkerStates, CaughtPause
    <3> QED BY <1>3, <3>1, <3>2, <3>3
  <2> QED BY <1>1, <2>1 DEF Unanswered
<1>4. ASSUME NEW w \in Workers, Progress(w) \/ Disturbance(w), ~EntersFresh(w),
             ~Settle(w), ~CaughtCancel(w), ~CaughtPause(w)
      PROVE  FreshInv'
  <2>1. Ended(w) \/ \E step \in Steps \ Unanswered : Goto(w, step)
    BY <1>4, GoesElsewhere DEF EntersFresh, Unanswered, Steps, Committing
  <2>2. CASE Ended(w)
    <3>1. worker'[w].at = "idle"
      BY <2>2 DEF Ended, Idle, TypeOK
    <3> QED BY <1>1, <3>1 DEF Unanswered
  <2>3. CASE \E step \in Steps \ Unanswered : Goto(w, step)
    <3>1. worker'[w].at \notin Unanswered
      BY <2>3, Moves
    <3> QED BY <1>1, <3>1
  <2> QED BY <2>1, <2>2, <2>3
<1>5. Prune => FreshInv'
  BY DEF Prune, FreshInv, At, Unanswered
<1>6. (\E w \in Workers, c \in Calls : ToolStep(w, c)) \/ RecoverExpired \/ OwnerStep
        \/ UNCHANGED vars => FreshInv'
  BY DEF ToolStep, InvokeTool, Act, RecordTool, RecoverExpired, OwnerStep, Command, Resume,
         RetryDeadLetter, vars, ledgerVars, FreshInv
<1> QED BY <1>2, <1>3, <1>4, <1>5, <1>6 DEF Next

LEMMA InitFresh == Init => FreshInv
BY DEF Init, FreshInv, NoReceipt

\* An execution that one process drives never asks the model again while its ledger holds
\* a receipt, also one that is unfinished or unreadable: completedExecution stops there,
\* across any number of crashes, failing writes, pauses and retries.
THEOREM NoRerunAlone ==
  ASSUME Alone PROVE Spec => NoRerunAfterReceipt
<1>1. FreshInv /\ IInv /\ [Next]_vars =>
        [\A w \in Workers : ~At(w, "model") /\ At(w, "model")' => receipt.status = "absent"]_vars
  <2> SUFFICES ASSUME FreshInv, IInv, [Next]_vars, NEW w \in Workers,
                      ~At(w, "model"), At(w, "model")'
               PROVE  receipt.status = "absent"
    OBVIOUS
  <2>0. TypeOK
    BY DEF IInv
  <2>1. ASSUME NEW v \in Workers, Progress(v) \/ Disturbance(v), ~BeginRun(v)
        PROVE  worker'[v].at # "model" \/ worker'[v].at = worker[v].at
    <3>1. CASE CompletedExecution(v) \/ FinishModel(v) \/ Settle(v) \/ CaughtCancel(v)
                 \/ CaughtPause(v) \/ NoticeLost(v) \/ HearControl(v)
      <4>1. CASE CompletedExecution(v)
        BY <2>0, <4>1 DEF CompletedExecution, TypeOK, WorkerStates
      <4>2. CASE FinishModel(v)
        BY <2>0, <4>2 DEF FinishModel, TypeOK, WorkerStates
      <4>3. CASE Settle(v)
        BY <2>0, <4>3 DEF Settle, TypeOK, WorkerStates
      <4>4. CASE CaughtCancel(v) \/ CaughtPause(v)
        BY <2>0, <4>4 DEF CaughtCancel, CaughtPause, TypeOK, WorkerStates
      <4>5. CASE NoticeLost(v) \/ HearControl(v)
        BY <2>0, <4>5 DEF NoticeLost, HearControl, TypeOK, WorkerStates
      <4> QED BY <3>1, <4>1, <4>2, <4>3, <4>4, <4>5
    <3>2. CASE Ended(v)
      BY <2>0, <3>2 DEF Ended, Idle, TypeOK
    <3>3. CASE \E step \in Steps \ {"model"} : Goto(v, step)
      BY <2>0, <3>3, Moves
    <3> QED BY <2>0, <2>1, <3>1, <3>2, <3>3, GoesElsewhere DEF Unanswered, Steps, Committing
  <2>2. \A v \in Workers : v = w
    BY DEF Alone
  <2>3. (\A v \in Workers : ~Progress(v) /\ ~Disturbance(v)) => UNCHANGED worker
    BY DEF Next, ToolStep, InvokeTool, Act, RecordTool, RecoverExpired, OwnerStep, Command,
           Resume, RetryDeadLetter, Prune, vars
  <2>4. BeginRun(w)
    BY <2>1, <2>2, <2>3 DEF At
  <2> QED BY <2>4 DEF BeginRun, At, FreshInv, Unanswered
<1>2. IInv /\ FreshInv /\ [Next]_vars => FreshInv'
  BY FreshStep DEF IInv
<1> QED BY <1>1, <1>2, InitFresh, InitIInv, StepIInv, PTL DEF Spec, NoRerunAfterReceipt

\* No call of unknown outcome is in the ledger.
Clean == \A c \in Calls : ledger[c] \notin {"started", "uncertain"}

\* Between the end of the model and the end of the commit or the recovery
Carrying == Committing \cup {"reconcile", "reconciled", "apply", "applying", "recording",
                             "applied", "settle"}

\* An outcome "completed" is never about a call of unknown outcome: not in the worker,
\* not in the stored receipt, not in the worker that is about to clear the ledger.
CleanOK(w) ==
  /\ worker[w].at \in Carrying /\ worker[w].outcome = "completed" => Clean
  /\ worker[w].at \in {"ack", "clear"} =>
       task.status = "cancelled" \/ (worker[w].after = "complete" /\ Clean)

ReceiptClean == receipt.status # "absent" /\ receipt.outcome = "completed" => Clean

KnownInv == ReceiptClean /\ \A w \in Workers : CleanOK(w)

CancelledStays == task.status = "cancelled" => task'.status = "cancelled"

\* Nothing writes a cancelled Task.
LEMMA CancelIsFinal ==
  ASSUME TypeOK, CloseInv, [Next]_vars PROVE CancelledStays
<1>1. TaskStep
  BY TaskMoves DEF CloseInv
<1> QED BY <1>1 DEF TaskStep, CancelledStays

\* The steps that leave the ledger and the receipt alone or store what the worker carries
LEMMA KnownCarried ==
  ASSUME Alone, TypeOK, KnownInv, CancelledStays, NEW w \in Workers, NEW step,
         UNCHANGED ledger,
         \/ receipt' = receipt \/ receipt'.status = "absent"
         \/ receipt.status # "absent" /\ receipt'.outcome = receipt.outcome
         \/ worker[w].at \in Carrying /\ receipt'.outcome = worker[w].outcome,
         \/ Ended(w)
         \/ Goto(w, step) /\ step \notin {"ack", "clear"}
              /\ (step \in Carrying => worker[w].at \in Carrying)
         \/ Goto(w, step) /\ worker[w].at = "ack" /\ step = "clear"
  PROVE  KnownInv'
<1>1. ReceiptClean'
  BY DEF KnownInv, ReceiptClean, CleanOK, Clean
<1>2. CASE Ended(w)
  <2>1. worker'[w].at = "idle"
    BY <1>2 DEF Ended, Idle, TypeOK
  <2>2. CleanOK(w)'
    BY <2>1 DEF CleanOK, Carrying, Committing
  <2> QED BY <1>1, <2>2 DEF KnownInv, Alone
<1>3. CASE Goto(w, step)
  <2>1. /\ worker'[w].at = step /\ worker'[w].outcome = worker[w].outcome
        /\ worker'[w].after = worker[w].after
    BY <1>3 DEF Goto, TypeOK, WorkerStates
  <2>2. (step \in Carrying => worker[w].at \in Carrying)
        /\ (step \in {"ack", "clear"} => worker[w].at = "ack")
    BY <1>3 DEF Ended, Carrying, Committing, Idle, Goto, TypeOK, WorkerStates
  <2>3. CleanOK(w)'
    BY <2>1, <2>2 DEF KnownInv, CleanOK, Clean, CancelledStays
  <2> QED BY <1>1, <2>3 DEF KnownInv, Alone
<1> QED BY <1>2, <1>3

\* A receipt is written from what its worker carries, keeps its outcome, or is dropped.
LEMMA ReceiptWrites ==
  ASSUME TypeOK, NEW w \in Workers, Progress(w) \/ Disturbance(w)
  PROVE  \/ receipt' = receipt \/ receipt'.status = "absent"
         \/ receipt.status # "absent" /\ receipt'.outcome = receipt.outcome
         \/ worker[w].at \in Carrying /\ receipt'.outcome = worker[w].outcome
<1>0. receipt \in ReceiptEntries
  BY DEF TypeOK
<1>1. CASE CommitReceipt(w)
  BY <1>1 DEF CommitReceipt, At, Carrying, Committing, NoReceipt
<1>2. CASE (\E whole \in BOOLEAN : StoreReceipt(w, whole)) \/ WriteFails(w)
  BY <1>0, <1>2 DEF StoreReceipt, WriteFails, ReceiptEntries, ledgerVars
<1>3. CASE ClearReceipt(w) \/ ClearRun(w)
  BY <1>3 DEF ClearReceipt, ClearRun, NoReceipt
<1>4. CASE Claim(w) \/ RecoveryStep(w) \/ RunStep(w) \/ FailureStep(w) \/ CatchStep(w)
  BY <1>4
  DEF Claim, RecoveryStep, CompletedExecution, ReconcileCompletedRun, JournalReconciled, RunStep,
      BeginRun, FinishModel, StopModel, FailureStep, PrepareFailure, FailRun, CatchStep,
      CaughtLost, CaughtCancel, CaughtPause, FailTask, ledgerVars
<1>5. CASE CommitStep(w)
  BY <1>1, <1>2, <1>5
  DEF CommitStep, Prepare, JournalReceipt, CompleteRun, JournalSession, StartEffect,
      ApplyEffect, RecordEffect, JournalEffects, ledgerVars
<1>6. CASE FinalStep(w) \/ Disturbance(w)
  BY <1>2, <1>3, <1>6
  DEF FinalStep, Disturbance, Settle, FinalizeReopened, SettleTaskControl, AcknowledgeTask,
      FinalizeExecution, CompleteTask, HearControl, NoticeLost, ReopenFails, FinalizeFails, Crash, ledgerVars
<1> QED BY <1>4, <1>5, <1>6 DEF Progress

LEMMA KnownStep ==
  ASSUME Alone, EventKeyed, TypeOK, CloseInv, FreshInv, KnownInv, [Next]_vars PROVE KnownInv'
<1>0. CancelledStays
  BY CancelIsFinal
<1>1. ASSUME NEW w \in Workers, ReceiptClean', CleanOK(w)' PROVE KnownInv'
  BY <1>1 DEF KnownInv, Alone
<1>2. ASSUME NEW w \in Workers, UNCHANGED <<ledger, receipt>>, CleanOK(w)' PROVE KnownInv'
  BY <1>2 DEF KnownInv, Alone, ReceiptClean, Clean
<1>3. ASSUME NEW w \in Workers, CompletedExecution(w) PROVE KnownInv'
  <2>1. UNCHANGED <<ledger, receipt>>
    BY <1>3 DEF CompletedExecution, ledgerVars
  <2>2. \/ worker'[w].at \in {"begin", "caught"}
        \/ /\ worker'[w].at = "reconcile" /\ worker'[w].outcome = receipt.outcome
           /\ receipt.status # "absent"
    BY <1>3 DEF CompletedExecution, Acceptable, TypeOK, WorkerStates
  <2>3. CleanOK(w)'
    BY <2>1, <2>2 DEF CleanOK, Clean, KnownInv, ReceiptClean, Carrying, Committing
  <2> QED BY <1>2, <2>1, <2>3
<1>4. ASSUME NEW w \in Workers, BeginRun(w) PROVE KnownInv'
  <2>1. UNCHANGED <<ledger, receipt>> /\ worker'[w].at \in {"caught", "model"}
    BY <1>4 DEF BeginRun, Goto, TypeOK, WorkerStates, ledgerVars
  <2> QED BY <1>2, <2>1 DEF CleanOK, Carrying, Committing
<1>5. ASSUME NEW w \in Workers, FinishModel(w) PROVE KnownInv'
  <2>1. UNCHANGED <<ledger, receipt>>
    BY <1>5 DEF FinishModel, ledgerVars
  <2>2. worker'[w].at = "prepare" /\ worker'[w].outcome \in OutcomesOfCalls
    BY <1>5 DEF FinishModel, TypeOK, WorkerStates
  <2>3. "completed" \in OutcomesOfCalls => Clean
    BY DEF OutcomesOfCalls, Clean
  <2>4. CleanOK(w)'
    BY <2>1, <2>2, <2>3 DEF CleanOK, Clean
  <2> QED BY <1>2, <2>1, <2>4
<1>6. ASSUME NEW w \in Workers, Settle(w) PROVE KnownInv'
  <2>1. UNCHANGED <<ledger, receipt>>
    BY <1>6 DEF Settle, ledgerVars
  <2>2. \/ worker'[w].at \in {"caught", "reopen", "complete"}
        \/ /\ worker'[w].at = "ack" /\ worker'[w].after = "complete"
           /\ worker[w].outcome = "completed"
    BY <1>6 DEF Settle, TypeOK, WorkerStates
  <2>3. worker[w].at = "settle"
    BY <1>6 DEF Settle, At
  <2>4. CleanOK(w)'
    BY <2>1, <2>2, <2>3 DEF CleanOK, Clean, KnownInv, Carrying, Committing
  <2> QED BY <1>2, <2>1, <2>4
<1>7. ASSUME NEW w \in Workers, CaughtCancel(w) PROVE KnownInv'
  <2>0. UNCHANGED <<ledger, receipt>> /\ task' = ControlSettled(w)
    BY <1>7 DEF CaughtCancel, ledgerVars
  <2>3. Cancelling /\ RowOK
    BY <1>7 DEF CaughtCancel, Requested, CloseInv, ControlOK, Cancelling
  <2>1. UNCHANGED <<ledger, receipt>> /\ task'.status = "cancelled"
    <3>1. CASE task.status = "cancelled"
      BY <1>0, <2>0, <3>1 DEF CancelledStays
    <3>2. CASE task.status # "cancelled"
      <4>1. task.status = "running" /\ task.intent = "cancel" /\ task.owner = w
        BY <2>3, <3>2 DEF Cancelling, RowOK, Alone
      <4> QED BY <2>0, <4>1, LeftFields DEF ControlSettled, Holds
    <3> QED BY <3>1, <3>2
  <2>2. worker'[w].at = "ack"
    BY <1>7 DEF CaughtCancel, TypeOK, WorkerStates
  <2> QED BY <1>2, <2>1, <2>2 DEF CleanOK, Carrying, Committing
<1>8. ASSUME NEW w \in Workers, CaughtPause(w) PROVE KnownInv'
  <2>1. UNCHANGED <<ledger, receipt>> /\ worker'[w].at = "reopen"
    BY <1>8 DEF CaughtPause, TypeOK, WorkerStates, ledgerVars
  <2> QED BY <1>2, <2>1 DEF CleanOK, Carrying, Committing
<1>9. ASSUME NEW w \in Workers, NoticeLost(w) \/ HearControl(w) PROVE KnownInv'
  <2>1. UNCHANGED <<task, ledger, receipt>>
    BY <1>9 DEF NoticeLost, HearControl, ledgerVars
  <2>2. /\ worker'[w].at = worker[w].at /\ worker'[w].outcome = worker[w].outcome
        /\ worker'[w].after = worker[w].after
    BY <1>9 DEF NoticeLost, HearControl, TypeOK, WorkerStates
  <2> QED BY <1>2, <2>1, <2>2 DEF CleanOK, Clean, KnownInv
<1>10. ASSUME NEW w \in Workers, ClearRun(w) PROVE KnownInv'
  <2>1. receipt'.status = "absent" /\ worker'[w].at = "final"
    BY <1>10, Moves DEF ClearRun, NoReceipt
  <2> QED BY <1>1, <2>1 DEF ReceiptClean, CleanOK, Carrying, Committing
<1>11. ASSUME NEW w \in Workers, Progress(w) \/ Disturbance(w), ~ClearRun(w),
              ~CompletedExecution(w), ~BeginRun(w), ~FinishModel(w), ~Settle(w),
              ~CaughtCancel(w), ~CaughtPause(w), ~NoticeLost(w), ~HearControl(w)
       PROVE  KnownInv'
  <2>1. UNCHANGED ledger
    BY <1>11, OtherStepsQuiet DEF Crash, ledgerVars
  <2>2. \/ receipt' = receipt \/ receipt'.status = "absent"
        \/ receipt.status # "absent" /\ receipt'.outcome = receipt.outcome
        \/ worker[w].at \in Carrying /\ receipt'.outcome = worker[w].outcome
    BY <1>11, ReceiptWrites
  <2>3. CASE Ended(w)
    BY <1>0, <2>1, <2>2, <2>3, KnownCarried
  <2>4. CASE Prepare(w) /\ Goto(w, "receipt")
    <3>1. worker[w].at \in Carrying
      BY <2>4 DEF Prepare, At, Carrying, Committing
    <3> QED BY <1>0, <2>1, <2>2, <2>4, <3>1, KnownCarried
  <2>5. CASE AcknowledgeTask(w) /\ Goto(w, "clear")
    <3>1. worker[w].at = "ack"
      BY <2>5 DEF AcknowledgeTask, At
    <3> QED BY <1>0, <2>1, <2>2, <2>5, <3>1, KnownCarried
  <2>6. ASSUME NEW step \in Steps \ {"ack", "clear"}, Goto(w, step), worker[w].at \in Carrying
        PROVE  KnownInv'
    BY <1>0, <2>1, <2>2, <2>6, KnownCarried
  <2>7. ASSUME NEW step \in {"claimed", "failing", "rollback", "caught", "reopened", "settling",
                             "complete", "final"}, Goto(w, step)
        PROVE  KnownInv'
    <3>1. step \notin Carrying /\ step \notin {"ack", "clear"}
      BY <2>7 DEF Carrying, Committing
    <3> QED BY <1>0, <2>1, <2>2, <2>7, <3>1, KnownCarried
  <2> QED BY <1>11, <2>3, <2>4, <2>5, <2>6, <2>7, GoesElsewhere DEF Carrying
<1>12. ASSUME NEW w \in Workers, NEW c \in Calls, InvokeTool(w, c) PROVE KnownInv'
  <2>1. worker[w].at = "model" /\ UNCHANGED <<worker, receipt>>
    BY <1>12 DEF InvokeTool, At
  <2>2. receipt.status = "absent"
    BY <2>1 DEF FreshInv, Unanswered
  <2> QED BY <1>1, <2>1, <2>2 DEF ReceiptClean, CleanOK, Carrying, Committing
<1>13. ASSUME NEW w \in Workers, NEW c \in Calls,
              NEW status \in {"succeeded", "failed", "uncertain"}, RecordTool(w, c, status)
       PROVE  KnownInv'
  <2>1. Clean => Clean'
    BY <1>13 DEF RecordTool, Clean, TypeOK
  <2>2. UNCHANGED <<task, worker, receipt>>
    BY <1>13 DEF RecordTool
  <2> QED BY <2>1, <2>2 DEF KnownInv, ReceiptClean, CleanOK
<1>14. ASSUME NEW w \in Workers, NEW c \in Calls, Act(w, c) PROVE KnownInv'
  BY <1>14 DEF Act, KnownInv, ReceiptClean, CleanOK, Clean, ledgerVars
<1>15. RecoverExpired \/ OwnerStep => KnownInv'
  <2>1. RecoverExpired \/ OwnerStep => UNCHANGED <<ledger, receipt, worker>>
    BY DEF RecoverExpired, OwnerStep, Command, Resume, RetryDeadLetter, ledgerVars
  <2> QED BY <1>0, <2>1 DEF KnownInv, ReceiptClean, CleanOK, Clean, CancelledStays
<1>16. UNCHANGED vars => KnownInv'
  BY DEF vars, KnownInv, ReceiptClean, CleanOK, Clean
<1>17. ~Prune
  BY DEF Prune
<1> QED
  BY <1>3, <1>4, <1>5, <1>6, <1>7, <1>8, <1>9, <1>10, <1>11, <1>12, <1>13, <1>14, <1>15, <1>16,
     <1>17
  DEF Next, ToolStep

\* A call whose outcome is unknown is forgotten only by the end of its Task: an execution
\* that one process drives, keyed by a durable event, clears such an entry only after the
\* Task was cancelled, because settle acknowledges only an outcome "completed", and
\* classifyRunOutcome gives that to no Run with such a call.
THEOREM UnknownFencedAlone ==
  ASSUME Alone, EventKeyed PROVE Spec => UnknownEffectsFenced
<1>1. IInv /\ KnownInv /\ [Next]_vars =>
        [\A c \in Calls :
           ledger[c] \in {"started", "uncertain"} /\ ledger'[c] = "absent" =>
             task.status = "cancelled"]_vars
  <2> SUFFICES ASSUME IInv, KnownInv, [Next]_vars, NEW c \in Calls,
                      ledger[c] \in {"started", "uncertain"}, ledger'[c] = "absent"
               PROVE  task.status = "cancelled"
    OBVIOUS
  <2>1. ASSUME NEW w \in Workers, ClearRun(w) PROVE task.status = "cancelled"
    BY <2>1 DEF ClearRun, At, KnownInv, CleanOK, Clean
  <2>2. ASSUME NEW w \in Workers, Progress(w) \/ Disturbance(w), ~ClearRun(w) PROVE FALSE
    BY <2>2, OtherStepsQuiet DEF Crash, ledgerVars
  <2>3. ASSUME NEW w \in Workers, NEW d \in Calls, ToolStep(w, d) PROVE FALSE
    <3>1. ASSUME InvokeTool(w, d) PROVE FALSE
      BY <3>1 DEF InvokeTool, IInv, TypeOK
    <3>2. ASSUME Act(w, d) PROVE FALSE
      BY <3>2 DEF Act, ledgerVars
    <3>3. ASSUME NEW status \in {"succeeded", "failed", "uncertain"}, RecordTool(w, d, status)
          PROVE  FALSE
      BY <3>3 DEF RecordTool, IInv, TypeOK
    <3> QED BY <2>3, <3>1, <3>2, <3>3 DEF ToolStep
  <2>4. ~(RecoverExpired \/ OwnerStep \/ Prune \/ UNCHANGED vars)
    BY DEF RecoverExpired, OwnerStep, Command, Resume, RetryDeadLetter, Prune, vars, ledgerVars
  <2> QED BY <2>1, <2>2, <2>3, <2>4 DEF Next
<1>2. Init => KnownInv
  BY DEF Init, KnownInv, ReceiptClean, CleanOK, NoReceipt, Idle, Carrying, Committing
<1>3. IInv /\ CloseInv /\ FreshInv /\ KnownInv /\ [Next]_vars => FreshInv' /\ KnownInv' /\ CloseInv'
  BY FreshStep, KnownStep, StepClose DEF IInv
<1> QED BY <1>1, <1>2, <1>3, InitFresh, InitClose, InitIInv, StepIInv, PTL DEF Spec,
   UnknownEffectsFenced

=============================================================================
