----------------------------- MODULE Supervisor -----------------------------
(***************************************************************************)
(* The supervisor of background Tasks (src/src/daemon/task-supervisor.ts)  *)
(* and the processes it forks (src/src/daemon/task-worker-entry.ts).       *)
(*                                                                         *)
(* The pump decides which queued Tasks may share the workspace and forks a *)
(* worker for each; a mimi worker says it started, claims its Task, runs   *)
(* and reports; a codex runner claims first, then detaches and outlives    *)
(* the kernel.  Messages, exits, timers, the owner and the death of the    *)
(* kernel interleave with the pump at every await of launch.               *)
(*                                                                         *)
(* A row is what TaskStore keeps of a Task, reduced to what the supervisor *)
(* and its workers ask of it; Tasks are numbered in the order of           *)
(* readyTasks (priority, created_at).                                      *)
(***************************************************************************)
EXTENDS Naturals, FiniteSets

CONSTANTS
  Tasks,        \* 1..n, in the order of readyTasks
  Writers,      \* Tasks with workspaceAccess write
  Codex,        \* Tasks with executor codex
  MaxAttempts,  \* max_attempts of each Task
  Procs,        \* 1..m: places for processes, reused
  Limit,        \* maxWorkers
  MaxStops,     \* bound: stops of the supervisor
  MaxFaults     \* bound: crashes, hangs, hasty reclaims, late renewals, deaths of the
                \* kernel, commands, missing dependencies

ASSUME SupervisorAssumption ==
  /\ Tasks \subseteq Nat \ {0} /\ IsFiniteSet(Tasks)
  /\ Writers \subseteq Tasks /\ Codex \subseteq Tasks
  /\ MaxAttempts \in [Tasks -> Nat \ {0}]
  /\ Procs \subseteq Nat \ {0} /\ IsFiniteSet(Procs)
  /\ Limit \in Nat \ {0} /\ MaxStops \in Nat /\ MaxFaults \in Nat

VARIABLES
  row,        \* the Task rows
  proc,       \* the processes and what the kernel keeps of them (WorkerRecord)
  launching,  \* the Tasks the pump has still to launch, the first of which it awaits
  stopping,   \* stop was called
  faults      \* history: stops and other faults so far

vars == <<row, proc, launching, stopping, faults>>

Free == [at |-> "free", task |-> 0, link |-> "none", heard |-> FALSE, told |-> "no",
         hung |-> FALSE, done |-> FALSE]

Init ==
  /\ row = [t \in Tasks |-> [status |-> "queued", owner |-> 0, live |-> FALSE,
                             intent |-> "none", attempts |-> 0]]
  /\ proc = [p \in Procs |-> Free]
  /\ launching = {}
  /\ stopping = FALSE
  /\ faults = [stops |-> 0, others |-> 0]

\* mimi: boot, ready (said started), run, left; codex: boot, run, left
Alive(p) == proc[p].at \in {"boot", "ready", "run", "left"}
IsCodex(p) == proc[p].task \in Codex

----------------------------------------------------------------------------
(* Rows: the store operations of supervisor and workers *)

Owned(r, p) == r.status = "running" /\ r.owner = p /\ r.live
Owns(p) == proc[p].at # "free" /\ Owned(row[proc[p].task], p)

Claimed(r, p) == [r EXCEPT !.status = "running", !.owner = p, !.live = TRUE,
                           !.attempts = @ + 1]
Off(r, status) == [r EXCEPT !.status = status, !.owner = 0, !.live = FALSE, !.intent = "none"]

\* failTask, which refuses to end an attempt with a control intent
Failed(r, t, retryable) ==
  IF r.intent # "none" THEN r
  ELSE IF ~retryable \/ r.attempts >= MaxAttempts[t] THEN Off(r, "ended")
  ELSE Off(r, "waiting")

\* claimTaskById by a bootstrap owner, then failTask
Burnt(r, t, retryable) ==
  IF r.status = "queued" THEN Failed(Claimed(r, 0), t, retryable) ELSE r

Recovered(r, t) ==
  IF r.status # "running" \/ r.live THEN r
  ELSE IF r.intent = "pause" THEN Off(r, "paused")
  ELSE IF r.intent = "cancel" \/ r.attempts >= MaxAttempts[t] THEN Off(r, "ended")
  ELSE Off(r, "queued")

AllRecovered == [t \in Tasks |-> Recovered(row[t], t)]

\* settleTaskControl
Settled(r) == Off(r, IF r.intent = "pause" THEN "paused" ELSE "ended")

----------------------------------------------------------------------------
(* The pump *)

Fault == faults.others < MaxFaults /\ faults' = [faults EXCEPT !.others = @ + 1]

\* WorkerRecords: closing until the process group of the dead worker is cleaned up
Attached == {p \in Procs : proc[p].link \in {"attached", "closing"}}
HasWorker(t) == \E p \in Attached : proc[p].task = t

\* mutant of DetachedRuns: only processes the kernel talks to count
DetachedNone == {}

DetachedRuns == {t \in Codex : row[t].status = "running" /\ ~HasWorker(t)}

\* authorizeWorker fails, or the start or the heartbeat is overdue
Stale(p) ==
  /\ proc[p].link = "attached" /\ proc[p].told # "term"
  /\ proc[p].hung \/ (proc[p].heard /\ ~Owns(p))

\* started is heard before the worker claims: a pump in between takes a healthy worker for
\* one that lost its lease
Hasty(p) == Stale(p) /\ proc[p].at = "ready" /\ ~proc[p].hung

TerminateStale == [p \in Procs |-> IF Stale(p) THEN [proc[p] EXCEPT !.told = "term"] ELSE proc[p]]

Ready(R) == {t \in Tasks : R[t].status = "queued" /\ ~HasWorker(t)}

\* the first of them, as a set
Foremost(S) == {t \in S : \A u \in S : t <= u}

Prefix(S, n) == {t \in S : Cardinality({u \in S : u <= t}) <= n}

\* the readers in front of the first writer
Readers(S) == {t \in S : \A w \in S \cap Writers : t < w}

\* one writer alone, or readers together
Choice(S, idle, available) ==
  IF ~idle THEN IF S \cap Writers # {} THEN {} ELSE Prefix(S, available)
  ELSE IF Foremost(S) \subseteq Writers THEN Foremost(S)
  ELSE Prefix(Readers(S), available)

\* pump up to its first await; readyTasks recovers expired leases
Pump ==
  LET active == Cardinality(Attached) + Cardinality(DetachedRuns)
      writing == \/ \E p \in Attached : proc[p].task \in Writers
                 \/ DetachedRuns \cap Writers # {}
  IN  /\ ~stopping /\ launching = {}
      /\ proc' = TerminateStale
      /\ IF writing \/ active >= Limit THEN UNCHANGED <<row, launching>>
         ELSE /\ row' = AllRecovered
              /\ launching' = Choice(Ready(row'), active = 0, Limit - active)
      /\ IF \E p \in Procs : Hasty(p) THEN Fault ELSE UNCHANGED faults
      /\ UNCHANGED stopping

FreeSlots == {p \in Procs : proc[p].at = "free"}

\* the check just before fork; a Task that waits for its retry is queued as well
Launchable(t) == ~stopping /\ row[t].status \in {"queued", "waiting"}

Fork(t) ==
  /\ Launchable(t)
  /\ \E p \in FreeSlots :
       /\ \A q \in FreeSlots : p <= q
       /\ proc' = [proc EXCEPT ![p] = [Free EXCEPT !.at = "boot", !.task = t, !.link = "attached"]]
  /\ UNCHANGED <<row, faults>>

\* persistLaunchFailure
LaunchFails(t) ==
  /\ \E retryable \in BOOLEAN : row' = [AllRecovered EXCEPT ![t] = Burnt(@, t, retryable)]
  /\ UNCHANGED <<proc, faults>>

\* the awaits of launch are over
Launch ==
  /\ \E t \in Foremost(launching) :
       /\ \/ Fork(t)
          \/ LaunchFails(t)
          \/ ~Launchable(t) /\ UNCHANGED <<row, proc, faults>>
          \/ Fault /\ UNCHANGED <<row, proc>>  \* no runtime
       /\ launching' = launching \ {t}
  /\ UNCHANGED stopping

----------------------------------------------------------------------------
(* What the kernel hears of a worker *)

\* started, or the heartbeat that follows it
HearStarted(p) ==
  /\ proc[p].link = "attached" /\ ~proc[p].heard /\ proc[p].at \in {"ready", "run", "left"}
  /\ proc' = [proc EXCEPT ![p].heard = TRUE]
  /\ UNCHANGED <<row, launching, stopping, faults>>

\* detached: the record is dropped, the close listener stays
HearDetached(p) ==
  /\ proc[p].link = "attached" /\ IsCodex(p) /\ proc[p].at \in {"run", "left"}
  /\ proc' = [proc EXCEPT ![p].link = "detached", ![p].heard = TRUE]
  /\ UNCHANGED <<row, launching, stopping, faults>>

\* mutant of PersistExit: a worker that never claimed leaves no trace
PersistExitOfRunning(p) ==
  LET t == proc[p].task
  IN  IF ~proc[p].done /\ proc[p].heard /\ Owned(row[t], p)
      THEN [row EXCEPT ![t] = Failed(@, t, TRUE)] ELSE row

\* persistWorkerExit
PersistExit(p) ==
  LET t == proc[p].task IN
  IF proc[p].done THEN row
  ELSE IF row[t].status = "queued" THEN [AllRecovered EXCEPT ![t] = Burnt(@, t, TRUE)]
  ELSE IF proc[p].heard /\ Owned(row[t], p) THEN [row EXCEPT ![t] = Failed(@, t, TRUE)]
  ELSE row

\* close: nothing is recorded while stopping; done cannot be heard from a detached runner
Close(p) ==
  /\ proc[p].at = "dead" /\ proc[p].link \in {"attached", "detached"}
  /\ row' = IF stopping THEN row ELSE PersistExit(p)
  /\ proc' = [proc EXCEPT ![p] =
       IF @.link = "detached" THEN Free ELSE [@ EXCEPT !.link = "closing"]]
  /\ UNCHANGED <<launching, stopping, faults>>

\* cleanupWorkerProcessGroup is over
Forget(p) ==
  /\ proc[p].link = "closing"
  /\ proc' = [proc EXCEPT ![p] = Free]
  /\ UNCHANGED <<row, launching, stopping, faults>>

----------------------------------------------------------------------------
(* The processes *)

Died(x) == IF x.link \in {"orphan", "stray"} THEN Free ELSE [x EXCEPT !.at = "dead", !.hung = FALSE]

\* done is sent, unless there is nobody to send it to
Left(x) == [x EXCEPT !.at = "left", !.done = x.link = "attached"]

\* run: a shutdown that arrived before there is a dispatcher ends a mimi worker; a codex
\* runner has no controller yet and takes no notice
Boot(p) ==
  LET t == proc[p].task IN
  /\ proc[p].at = "boot" /\ ~proc[p].hung
  /\ \/ /\ \E retryable \in BOOLEAN : row' = [AllRecovered EXCEPT ![t] = Burnt(@, t, retryable)]
        /\ proc' = [proc EXCEPT ![p] = Died(@)]
     \/ /\ UNCHANGED row                              \* no init message, or no worker at all
        /\ proc' = [proc EXCEPT ![p] = Died(@)]
     \/ /\ ~IsCodex(p) /\ UNCHANGED row
        /\ proc' = [proc EXCEPT ![p] = IF @.told = "no" THEN [@ EXCEPT !.at = "ready"] ELSE Died(@)]
     \/ /\ IsCodex(p) /\ AllRecovered[t].status = "queued"
        /\ row' = [AllRecovered EXCEPT ![t] = Claimed(@, p)]
        /\ proc' = [proc EXCEPT ![p].at = "run"]
     \/ /\ IsCodex(p) /\ AllRecovered[t].status # "queued"
        /\ row' = AllRecovered
        /\ proc' = [proc EXCEPT ![p] = Died(@)]
  /\ UNCHANGED <<launching, stopping, faults>>

\* processTaskById
Claim(p) ==
  LET t == proc[p].task IN
  /\ proc[p].at = "ready" /\ ~proc[p].hung
  /\ \/ /\ AllRecovered[t].status = "queued"
        /\ row' = [AllRecovered EXCEPT ![t] = Claimed(@, p)]
        /\ proc' = [proc EXCEPT ![p].at = "run"]
     \/ /\ AllRecovered[t].status # "queued"
        /\ row' = AllRecovered
        /\ proc' = [proc EXCEPT ![p] = Left(@)]
  /\ UNCHANGED <<launching, stopping, faults>>

\* How an attempt may end that still has its lease and no intent.  A mimi worker that was
\* told to stop puts its Task back, a codex runner fails it for good.
Outcomes(p, r) ==
  {Off(r, "ended"), Failed(r, proc[p].task, TRUE)}
  \cup (IF IsCodex(p) THEN {} ELSE {Off(r, "blocked")})
  \cup (IF proc[p].told # "no" /\ ~IsCodex(p) THEN {Off(r, "queued")} ELSE {})

\* the Run or the Codex CLI ends and the attempt is settled, if it is still this worker's
Settle(p) ==
  LET t == proc[p].task IN
  /\ proc[p].at = "run" /\ ~proc[p].hung
  /\ \/ ~Owns(p) /\ UNCHANGED row
     \/ Owns(p) /\ row[t].intent # "none" /\ row' = [row EXCEPT ![t] = Settled(@)]
     \/ /\ Owns(p) /\ row[t].intent = "none"
        /\ \E r \in Outcomes(p, row[t]) : row' = [row EXCEPT ![t] = r]
  /\ proc' = [proc EXCEPT ![p] = Left(@)]
  /\ UNCHANGED <<launching, stopping, faults>>

\* The store refuses the result of a lost lease and run ends in an error: a Task that was
\* put back in the queue meanwhile is claimed once more and failed.
Refused(p) ==
  LET t == proc[p].task IN
  /\ proc[p].at = "run" /\ ~proc[p].hung /\ ~Owns(p)
  /\ \E retryable \in BOOLEAN :
       row' = IF row[t].status = "queued" THEN [AllRecovered EXCEPT ![t] = Burnt(@, t, retryable)]
              ELSE row
  /\ proc' = [proc EXCEPT ![p].at = "left"]
  /\ UNCHANGED <<launching, stopping, faults>>

Exit(p) ==
  /\ proc[p].at = "left" /\ ~proc[p].hung
  /\ proc' = [proc EXCEPT ![p] = Died(@)]
  /\ UNCHANGED <<row, launching, stopping, faults>>

\* SIGKILL after the grace that follows SIGTERM
Kill(p) ==
  /\ proc[p].told = "term" /\ Alive(p)
  /\ proc' = [proc EXCEPT ![p] = Died(@)]
  /\ UNCHANGED <<row, launching, stopping, faults>>

CrashWorker(p) ==
  /\ Alive(p) /\ Fault
  /\ proc' = [proc EXCEPT ![p] = Died(@)]
  /\ UNCHANGED <<row, launching, stopping>>

Hang(p) ==
  /\ Alive(p) /\ ~proc[p].hung /\ Fault
  /\ proc' = [proc EXCEPT ![p].hung = TRUE]
  /\ UNCHANGED <<row, launching, stopping>>

----------------------------------------------------------------------------
(* The clock, the owner and the kernel *)

RetryDue(t) ==
  /\ row[t].status = "waiting"
  /\ row' = [row EXCEPT ![t].status = "queued"]
  /\ UNCHANGED <<proc, launching, stopping, faults>>

\* nobody renews a lease but its running owner, and it not with an intent
Renewed(t) == \E p \in Procs : /\ proc[p].at = "run" /\ ~proc[p].hung /\ proc[p].task = t
                               /\ row[t].owner = p /\ row[t].intent = "none"

Lapse(t) ==
  /\ row[t].status = "running" /\ row[t].live
  /\ IF Renewed(t) THEN Fault ELSE UNCHANGED faults
  /\ row' = [row EXCEPT ![t].live = FALSE]
  /\ UNCHANGED <<proc, launching, stopping>>

\* the claims and polls of the kernel's dispatcher
Recover ==
  /\ row' = AllRecovered /\ row' # row
  /\ UNCHANGED <<proc, launching, stopping, faults>>

\* cancel and pause; the message to the worker only makes it look sooner
Command(t, intent) ==
  /\ Fault
  /\ \/ /\ row[t].status \in {"queued", "waiting"}
        /\ row' = [row EXCEPT ![t] = Off(@, IF intent = "pause" THEN "paused" ELSE "ended")]
     \/ /\ row[t].status = "running" /\ row[t].intent = "none"
        /\ row' = [row EXCEPT ![t].intent = intent]
  /\ UNCHANGED <<proc, launching, stopping>>

Stop ==
  /\ ~stopping /\ stopping' = TRUE
  /\ faults.stops < MaxStops /\ faults' = [faults EXCEPT !.stops = @ + 1]
  /\ proc' = [p \in Procs |-> IF proc[p].link = "attached" /\ proc[p].told = "no"
                              THEN [proc[p] EXCEPT !.told = "stop"] ELSE proc[p]]
  /\ UNCHANGED <<row, launching>>

\* mutant of ShutdownTimeout: a runner that detached meanwhile is left alone
ShutdownTimeoutAttached(p) ==
  /\ stopping /\ proc[p].link = "attached" /\ proc[p].told = "stop"
  /\ proc' = [proc EXCEPT ![p].told = "term"]
  /\ UNCHANGED <<row, launching, stopping, faults>>

\* every worker that had a record when stop was called, also one that detached since
ShutdownTimeout(p) ==
  /\ stopping /\ proc[p].link \in {"attached", "detached"} /\ proc[p].told = "stop"
  /\ proc' = [proc EXCEPT ![p].told = "term"]
  /\ UNCHANGED <<row, launching, stopping, faults>>

\* stop awaits the exit of each worker it signalled, until its record is cleaned up.
Awaited(p) == p \in Attached \/ (proc[p].link = "detached" /\ proc[p].told # "no")
StopOver == stopping /\ \A p \in Procs : ~Awaited(p)

Lost == {"orphan", "stray"}

\* a worker without its kernel stops, except a codex runner; one that has not claimed yet
\* claims nevertheless
Orphaned(x) ==
  IF x.link \in Lost THEN x
  ELSE IF x.link \notin {"attached", "detached"} \/ x.at = "dead" THEN Free
  ELSE [x EXCEPT !.link = IF x.at = "boot" THEN "stray" ELSE "orphan",
                 !.told = IF x.task \in Codex /\ @ = "no" THEN @ ELSE "stop"]

\* the kernel starts again, after a stop that is over or after its death
Restart ==
  /\ IF StopOver THEN UNCHANGED faults ELSE Fault
  /\ stopping' = FALSE /\ launching' = {}
  /\ proc' = [p \in Procs |-> Orphaned(proc[p])]
  /\ UNCHANGED row

----------------------------------------------------------------------------
WorkerStep(p) == Boot(p) \/ Claim(p) \/ Settle(p) \/ Refused(p) \/ Exit(p) \/ Kill(p)
KernelStep(p) == Close(p) \/ Forget(p) \/ ShutdownTimeout(p)

Next ==
  \/ Pump \/ Launch \/ Stop \/ Restart \/ Recover
  \/ \E p \in Procs : \/ WorkerStep(p) \/ KernelStep(p) \/ HearStarted(p) \/ HearDetached(p)
                      \/ CrashWorker(p) \/ Hang(p)
  \/ \E t \in Tasks : RetryDue(t) \/ Lapse(t) \/ (\E i \in {"cancel", "pause"} : Command(t, i))

Spec == Init /\ [][Next]_vars

\* The pump is polled, awaits come back, a worker that is not hung goes on, a signal kills,
\* a Run ends in the end, and the clock passes every deadline.
FairSpec ==
  /\ Spec
  /\ WF_vars(Pump) /\ WF_vars(Launch)
  /\ \A p \in Procs : WF_vars(WorkerStep(p)) /\ WF_vars(KernelStep(p)) /\ WF_vars(Kill(p))
  /\ \A t \in Tasks : WF_vars(RetryDue(t)) /\ WF_vars(Lapse(t) /\ ~Renewed(t))
  /\ WF_vars(Recover)

----------------------------------------------------------------------------
(* Properties *)

TypeOK ==
  /\ row \in [Tasks -> [status : {"queued", "waiting", "running", "paused", "blocked", "ended"},
                        owner : Procs \cup {0}, live : BOOLEAN,
                        intent : {"none", "cancel", "pause"}, attempts : Nat]]
  /\ proc \in [Procs -> [at : {"free", "boot", "ready", "run", "left", "dead"},
                         task : Tasks \cup {0},
                         link : {"none", "attached", "closing", "detached", "orphan", "stray"},
                         heard : BOOLEAN, told : {"no", "stop", "term"},
                         hung : BOOLEAN, done : BOOLEAN]]
  /\ launching \subseteq Tasks
  /\ stopping \in BOOLEAN

\* A process that works and that the supervisor answers for: it is attached, or it is a
\* codex runner with its lease, whichever kernel started it.
Working(p) ==
  /\ proc[p].at = "run"
  /\ proc[p].link = "attached" \/ (IsCodex(p) /\ Owns(p) /\ proc[p].link # "stray")

\* docs/ARCHITECTURE.md:96: readers work together, a writer works alone, and a Task has one
\* worker, through every await of launch, detachment, exit, stop and death of the kernel.
\* What escapes is a mimi worker that outlives its kernel, a runner that lost its lease, and
\* one that had not claimed when its kernel died.
SoleWriter ==
  \A p, q \in Procs :
    Working(p) /\ Working(q) /\ p # q => {proc[p].task, proc[q].task} \cap Writers = {}
                                         /\ proc[p].task # proc[q].task

\* Every Task gets its worker and ends, is paused or waits for its owner, also when workers
\* never start, die, hang or are reclaimed; or the supervisor is being stopped.
TasksEnd ==
  \A t \in Tasks : row[t].status \in {"queued", "running"}
                     ~> row[t].status \in {"ended", "paused", "blocked"} \/ stopping

\* stop reaches every worker, also one whose launch was awaiting when it came, and returns:
\* it waits for no process for ever, not for one that hangs, nor one that detaches meanwhile.
StopCompletes ==
  [](stopping => /\ \A p \in Procs : proc[p].link = "attached" /\ Alive(p) => proc[p].told # "no"
                 /\ <>(StopOver \/ ~stopping))

\* The reduced rows keep the promise that the whole table keeps in TaskStore.
View(r) ==
  LET state == IF r.status = "running" THEN "held"
               ELSE IF r.status = "ended" THEN "ended" ELSE "idle"
  IN [state |-> state, leased |-> r.live, cancel |-> r.intent = "cancel",
      attempts |-> IF state = "ended" THEN 0 ELSE r.attempts]

Contract == INSTANCE TaskContract WITH view <- [t \in Tasks |-> View(row[t])]

KeepsContract == Contract!ContractSpec

=============================================================================
