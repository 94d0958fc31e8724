----------------------------- MODULE Dispatcher -----------------------------
(***************************************************************************)
(* The kernel's dispatcher of conversation Tasks                           *)
(* (src/src/daemon/dispatcher.ts): it claims Tasks up to a limit, resolves *)
(* each one's workspace, lets one Run per Session go ahead, and aborts     *)
(* Runs for an owner's cancel, a lost lease, an urgent Task, a correcting  *)
(* command, silence or a stop.                                             *)
(*                                                                         *)
(* One JavaScript thread: a step ends at an await or at the end of a timer *)
(* or event callback.  A row is what TaskStore keeps of a Task, reduced to *)
(* what the dispatcher asks of it; Tasks are numbered by creation.         *)
(***************************************************************************)
EXTENDS Naturals, FiniteSets

CONSTANTS
  Tasks,        \* 1..n, in the order of created_at
  Homes,        \* the ways the Tasks may be spread over Sessions
  Priority,     \* of each Task
  Urgent,       \* attention.urgentPriority
  Owned,        \* the Tasks that are commands of the owner
  Limit,        \* maxConcurrentTasks
  Turns,        \* the Tools a model may call at once
  MaxAttempts,  \* attempts a Task is enqueued with, and the retry limit of failTask
  Known,        \* the Tasks enqueued with their Session; the others learn it in processTask
  MaxClaims,    \* bound: claims of one Task
  MaxFaults     \* bound: cancels, leases that lapse under a healthy Run, deaths of the kernel

Kinds == {"shell", "other"}

ASSUME DispatcherAssumption ==
  /\ Tasks \subseteq Nat /\ IsFiniteSet(Tasks)
  /\ Priority \in [Tasks -> Nat] /\ Owned \subseteq Tasks /\ Known \subseteq Tasks
  /\ Turns \subseteq (SUBSET Kinds) \ {{}}
  /\ Urgent \in Nat /\ Limit \in Nat /\ MaxAttempts \in Nat \ {0} /\ MaxClaims \in Nat /\ MaxFaults \in Nat

VARIABLES
  home,       \* the Session of each Task
  row,        \* the Task rows
  exec,       \* the active executions
  busy,       \* activeSessions
  reserved,   \* reservedPreemptions
  stopping,   \* "no", "stop" or "force"
  victims,    \* history: Runs aborted for a Task since it last left the queue
  faults      \* history: faults so far

vars == <<home, row, exec, busy, reserved, stopping, victims, faults>>

Absent == [status |-> "absent", due |-> FALSE, bound |-> FALSE, cancel |-> FALSE,
           live |-> FALSE, attempts |-> 0, max |-> MaxAttempts]

Idle == [at |-> "none", why |-> "none", tools |-> {}, by |-> 0, cancel |-> FALSE, lost |-> FALSE]

Init ==
  /\ home \in Homes
  /\ row = [t \in Tasks |-> Absent]
  /\ exec = [t \in Tasks |-> Idle]
  /\ busy = {} /\ reserved = {}
  /\ stopping = "no"
  /\ victims = [t \in Tasks |-> {}]
  /\ faults = 0

Active(t) == exec[t].at # "none"
\* between activeSessions.add and the finally of processTask
OwnsSession(t) == exec[t].at \in {"run", "finalize", "closing"}

----------------------------------------------------------------------------
(* Rows: the store operations the dispatcher uses *)

Leased(r) == r.status = "running" /\ r.live
Fenced(r) == Leased(r) /\ ~r.cancel

Queued(r, due) == [r EXCEPT !.status = "queued", !.due = due, !.live = FALSE]
\* completed, failed, cancelled or dead_letter: the dispatcher does not tell them apart
Ended == [Absent EXCEPT !.status = "ended"]

\* recoverExpiredTasks, part of every claim and of the polls of other processes
Recovered(r) ==
  IF r.status # "running" \/ r.live THEN r
  ELSE IF r.cancel \/ r.attempts >= r.max THEN Ended
  ELSE Queued(r, TRUE)

AllRecovered == [t \in Tasks |-> Recovered(row[t])]

Ready(R) == {t \in Tasks : R[t].status = "queued" /\ R[t].due}

Earlier(t, u) == Priority[t] > Priority[u] \/ (Priority[t] = Priority[u] /\ t < u)

FirstOf(S) == CHOOSE t \in S : \A u \in S \ {t} : Earlier(t, u)

\* settleTaskControl: only the ownership and the intent are asked for
Settled(r) == IF r.status = "running" /\ r.cancel THEN Ended ELSE r

\* cancelTask, then settleTaskControl by the dispatcher itself
Superseded(r) == IF r.status \in {"running", "queued"} THEN Ended ELSE r

Preempted(r) == IF Fenced(r) THEN [Queued(r, TRUE) EXCEPT !.max = @ + 1] ELSE r
Requeued(r) == IF Fenced(r) THEN Queued(r, TRUE) ELSE r

\* failTask with the configured retry limit
Failed(r, retryable) ==
  IF ~Fenced(r) THEN r
  ELSE IF ~retryable \/ r.attempts >= MaxAttempts THEN Ended
  ELSE Queued(r, FALSE)

----------------------------------------------------------------------------
(* Aborts and preemption *)

\* runController.abort: the first reason stays, and before the Run there is none to abort
Aborted(x, why) == IF x.at \in {"run", "finalize"} /\ x.why = "none" THEN [x EXCEPT !.why = why] ELSE x

\* abortForCancellationWhenSafe with activeToolsAreInterruptible
CancelledRun(x) == IF x.tools \subseteq {"shell"} THEN Aborted([x EXCEPT !.cancel = TRUE], "cancel")
                   ELSE [x EXCEPT !.cancel = TRUE]

\* abortForStopWhenSafe
StoppedRun(x) == IF x.tools = {} THEN Aborted(x, "stop") ELSE x

Correction(c, t) == c \in Owned /\ Priority[c] = Priority[t] /\ home[c] = home[t]
UrgentFor(c, t) == Priority[c] > Priority[t] /\ Priority[c] >= Urgent

StillReserved(R) == {c \in reserved : R[c].status = "queued"}

\* mutant of Rivals: every Run gives way to the same Task
RivalsUnreserved(t, R) ==
  {c \in Ready(R) : c # t /\ ~Active(c) /\ (Correction(c, t) \/ UrgentFor(c, t))}

Rivals(t, R) ==
  {c \in Ready(R) \ StillReserved(R) :
     c # t /\ ~Active(c) /\ (Correction(c, t) \/ UrgentFor(c, t))}

\* mutant of MayPreempt: a Tool in flight is no obstacle
MayPreemptAnyway(x) == x.by = 0 /\ x.why = "none"

MayPreempt(x) == x.by = 0 /\ x.tools = {} /\ x.why = "none"

\* checkPreemption on execution x of t, with the rows R it reads
CheckedPreemption(t, x, R) ==
  IF ~MayPreempt(x) THEN exec' = [exec EXCEPT ![t] = x] /\ UNCHANGED <<reserved, victims>>
  ELSE IF Rivals(t, R) = {}
  THEN exec' = [exec EXCEPT ![t] = x] /\ reserved' = StillReserved(R) /\ UNCHANGED victims
  ELSE LET c == FirstOf(Rivals(t, R))
       IN  /\ exec' = [exec EXCEPT ![t] = Aborted([x EXCEPT !.by = c], "preempt")]
           /\ reserved' = StillReserved(R) \cup {c}
           /\ victims' = [victims EXCEPT ![c] = @ \cup {t}]

----------------------------------------------------------------------------
(* Claiming *)

Enqueue(t) ==
  /\ row[t].status = "absent"
  /\ \A u \in Tasks : u < t => row[u].status # "absent"
  /\ row' = [row EXCEPT ![t] = [Queued(@, TRUE) EXCEPT !.bound = t \in Known]]
  /\ UNCHANGED <<home, exec, busy, reserved, stopping, victims, faults>>

\* retry backoff is over
Due(t) ==
  /\ row[t].status = "queued" /\ ~row[t].due
  /\ row' = [row EXCEPT ![t].due = TRUE]
  /\ UNCHANGED <<home, exec, busy, reserved, stopping, victims, faults>>

Claimable(R) == {t \in Ready(R) : ~(R[t].bound /\ home[t] \in busy)}

\* One round of the loop of scheduleAvailable, and processTask up to its first await.
\* A Task that is still active here stays claimed and gets no second execution.
Claim(t) ==
  /\ stopping = "no"
  /\ Cardinality({u \in Tasks : Active(u)}) < Limit
  /\ LET R == AllRecovered
         claimed == [R[t] EXCEPT !.status = "running", !.due = FALSE, !.live = TRUE,
                                 !.attempts = @ + 1]
     IN  /\ Claimable(R) # {} /\ t = FirstOf(Claimable(R)) /\ R[t].attempts < MaxClaims
         /\ \/ /\ row' = [R EXCEPT ![t] = claimed]
               /\ exec' = [exec EXCEPT ![t] = IF Active(t) THEN @ ELSE [Idle EXCEPT !.at = "workspace"]]
            \/ /\ ~Active(t)                              \* decided to ignore it
               /\ row' = [R EXCEPT ![t] = Ended]
               /\ UNCHANGED exec
  /\ reserved' = reserved \ {t}
  /\ victims' = [victims EXCEPT ![t] = {}]
  /\ UNCHANGED <<home, busy, stopping, faults>>

----------------------------------------------------------------------------
(* processTask after the workspace is known *)

Leave(t) == exec' = [exec EXCEPT ![t] = Idle] /\ busy' = busy \ {home[t]}

Restarted(t) == [exec[t] EXCEPT !.at = "run",
                                !.why = IF exec[t].lost THEN "lease"
                                        ELSE IF stopping = "force" THEN "force" ELSE "none"]

\* bindRunningTaskSession throws: a requested cancel is settled, a lease that is only
\* believed to be held lets failTask throw as well
BindRefused(t) ==
  /\ ~Fenced(row[t])
  /\ row' = [row EXCEPT ![t] = IF exec[t].lost THEN @ ELSE Settled(@)]
  /\ exec' = [exec EXCEPT ![t] = Idle]
  /\ UNCHANGED <<busy, reserved, victims>>

\* another Run has the Session
PutBack(t) ==
  /\ Fenced(row[t]) /\ home[t] \in busy
  /\ row' = [row EXCEPT ![t] = [Requeued(@) EXCEPT !.bound = TRUE]]
  /\ exec' = [exec EXCEPT ![t] = Idle]
  /\ UNCHANGED <<busy, reserved, victims>>

\* activeSessions.add, synchronizeDurableTaskControl, beginTaskAttempt, checkPreemption
EnterRun(t) ==
  /\ Fenced(row[t]) /\ home[t] \notin busy
  /\ row' = [(IF MayPreempt(Restarted(t)) THEN AllRecovered ELSE row) EXCEPT ![t].bound = TRUE]
  /\ busy' = busy \cup {home[t]}
  /\ CheckedPreemption(t, Restarted(t), row')

\* mutant of Resolve: whoever is put back frees the Session as well
ResolveLeaving(t) ==
  /\ exec[t].at = "workspace"
  /\ \/ EnterRun(t)
     \/ /\ ~Fenced(row[t]) \/ home[t] \in busy
        /\ row' = [row EXCEPT ![t] = IF Fenced(@) THEN [Requeued(@) EXCEPT !.bound = TRUE] ELSE Settled(@)]
        /\ Leave(t)
        /\ UNCHANGED <<reserved, victims>>
  /\ UNCHANGED <<home, stopping, faults>>

Resolve(t) ==
  /\ exec[t].at = "workspace"
  /\ BindRefused(t) \/ PutBack(t) \/ EnterRun(t)
  /\ UNCHANGED <<home, stopping, faults>>

\* preemptTimer; readyTasks recovers expired leases before it reads
CheckPreemption(t) ==
  /\ OwnsSession(t) /\ MayPreempt(exec[t])
  /\ row' = AllRecovered
  /\ CheckedPreemption(t, exec[t], row')
  /\ UNCHANGED <<home, busy, stopping, faults>>

\* the renew timer finds that the lease is gone, or that a cancel forbids renewing it
LoseLease(t) ==
  /\ Active(t) /\ ~exec[t].lost /\ ~Fenced(row[t])
  /\ exec' = [exec EXCEPT ![t] = Aborted([@ EXCEPT !.lost = TRUE], "lease")]
  /\ UNCHANGED <<home, row, busy, reserved, stopping, victims, faults>>

\* runIdleTimer, which is off while a Tool is in flight
GoQuiet(t) ==
  /\ exec[t].at = "run" /\ exec[t].tools = {} /\ exec[t].why = "none"
  /\ exec' = [exec EXCEPT ![t].why = "idle"]
  /\ UNCHANGED <<home, row, busy, reserved, stopping, victims, faults>>

\* tool_called: the calls of one turn of the model
CallTools(t) ==
  /\ exec[t].at = "run" /\ exec[t].tools = {} /\ exec[t].why = "none"
  /\ \E calls \in Turns : exec' = [exec EXCEPT ![t].tools = calls]
  /\ UNCHANGED <<home, row, busy, reserved, stopping, victims, faults>>

\* mutant of AfterOutput: only a cancel is looked at
AfterOutputDeaf(x, cancelled) == IF cancelled THEN CancelledRun(x) ELSE x

\* synchronizeDurableTaskControl, then a stop that waited for the last Tool
AfterOutput(x, cancelled) ==
  IF cancelled THEN CancelledRun(x) ELSE IF stopping # "no" THEN StoppedRun(x) ELSE x

ToolOutput(t) ==
  /\ exec[t].at = "run" /\ exec[t].why = "none"
  /\ \E k \in exec[t].tools :
       exec' = [exec EXCEPT ![t] = AfterOutput([exec[t] EXCEPT !.tools = @ \ {k}], row[t].cancel)]
  /\ UNCHANGED <<home, row, busy, reserved, stopping, victims, faults>>

----------------------------------------------------------------------------
(* The end of a Run: the catch of processTask in the order of its branches *)

Rejected(t) ==
  LET cancelled == exec[t].cancel \/ row[t].cancel IN
  \/ /\ exec[t].lost
     /\ UNCHANGED row /\ Leave(t)
  \/ /\ ~exec[t].lost /\ cancelled
     /\ row' = [row EXCEPT ![t] = Settled(@)]
     /\ exec' = [exec EXCEPT ![t].at = "closing"] /\ UNCHANGED busy
  \/ /\ ~exec[t].lost /\ ~cancelled /\ exec[t].by # 0 /\ Correction(exec[t].by, t)
     /\ row' = [row EXCEPT ![t] = Superseded(@)]
     /\ exec' = [exec EXCEPT ![t].at = "closing"] /\ UNCHANGED busy
  \/ /\ ~exec[t].lost /\ ~cancelled /\ exec[t].by # 0 /\ ~Correction(exec[t].by, t)
     /\ row' = [row EXCEPT ![t] = Preempted(@)] /\ Leave(t)
  \/ /\ ~exec[t].lost /\ ~cancelled /\ exec[t].by = 0
     /\ stopping # "no" /\ exec[t].why # "none"
     /\ row' = [row EXCEPT ![t] = Requeued(@)] /\ Leave(t)
  \/ /\ ~exec[t].lost /\ ~cancelled /\ exec[t].by = 0
     /\ stopping = "no" \/ exec[t].why = "none"
     /\ \E retryable \in BOOLEAN :
          /\ exec[t].why = "idle" => retryable
          /\ row' = [row EXCEPT ![t] = Failed(@, retryable)]
     /\ Leave(t)

\* hostedRun throws, by itself or because it was aborted
RunThrows(t) ==
  /\ exec[t].at = "run"
  /\ Rejected(t)
  /\ UNCHANGED <<home, reserved, stopping, victims, faults>>

\* hostedRun returns an answer, also one that was told to give way, to stop or that it is
\* silent; the ledger is finalized or reopened
RunReturns(t) ==
  /\ exec[t].at = "run" /\ exec[t].tools = {}
  /\ ~exec[t].lost /\ ~exec[t].cancel /\ ~row[t].cancel
  /\ exec' = [exec EXCEPT ![t].at = "finalize"]
  /\ UNCHANGED <<home, row, busy, reserved, stopping, victims, faults>>

\* completeTask, or its refusal
Complete(t) ==
  /\ exec[t].at = "finalize"
  /\ \/ Fenced(row[t]) /\ row' = [row EXCEPT ![t] = Ended] /\ Leave(t)
     \/ ~Fenced(row[t]) /\ Rejected(t)
  /\ UNCHANGED <<home, reserved, stopping, victims, faults>>

\* finalizeExecutionLedger after a cancel or a correction
Close(t) ==
  /\ exec[t].at = "closing" /\ Leave(t)
  /\ UNCHANGED <<home, row, reserved, stopping, victims, faults>>

----------------------------------------------------------------------------
(* The owner, the clock and the kernel *)

Cancel(t) ==
  /\ faults < MaxFaults /\ faults' = faults + 1
  /\ \/ /\ row[t].status = "queued"
        /\ row' = [row EXCEPT ![t] = Ended] /\ UNCHANGED exec
     \/ /\ row[t].status = "running" /\ ~row[t].cancel /\ Active(t)
        /\ row' = [row EXCEPT ![t].cancel = TRUE]
        /\ exec' = [exec EXCEPT ![t] = CancelledRun(@)]
  /\ victims' = [victims EXCEPT ![t] = {}]
  /\ UNCHANGED <<home, busy, reserved, stopping>>

\* shutdown forces only while no Tool is in flight
Stop ==
  /\ stopping = "no"
  /\ \/ /\ stopping' = "stop"
        /\ exec' = [t \in Tasks |-> StoppedRun(exec[t])]
     \/ /\ \A t \in Tasks : exec[t].tools = {}
        /\ stopping' = "force"
        /\ exec' = [t \in Tasks |-> Aborted(exec[t], "force")]
  /\ UNCHANGED <<home, row, busy, reserved, victims, faults>>

\* leases lapse of Tasks nobody renews, and now and then of one whose timer was late
Lapse(t) ==
  /\ Leased(row[t])
  /\ \/ (Active(t) => exec[t].lost) /\ UNCHANGED faults
     \/ Active(t) /\ ~exec[t].lost /\ faults < MaxFaults /\ faults' = faults + 1
  /\ row' = [row EXCEPT ![t].live = FALSE]
  /\ UNCHANGED <<home, exec, busy, reserved, stopping, victims>>

\* the poll of another process, or a claim that finds nothing to claim
Recover ==
  /\ row' = AllRecovered /\ row' # row
  /\ UNCHANGED <<home, exec, busy, reserved, stopping, victims, faults>>

\* The kernel dies and starts again.
Restart ==
  /\ faults < MaxFaults /\ faults' = faults + 1
  /\ exec' = [t \in Tasks |-> Idle]
  /\ busy' = {} /\ reserved' = {} /\ stopping' = "no"
  /\ victims' = [t \in Tasks |-> {}]
  /\ UNCHANGED <<home, row>>

----------------------------------------------------------------------------
AbortedRunEnds(t) == exec[t].why # "none" /\ RunThrows(t)

Proceed(t) == Resolve(t) \/ ToolOutput(t) \/ AbortedRunEnds(t) \/ Complete(t) \/ Close(t)

Next ==
  \/ \E t \in Tasks : \/ Enqueue(t) \/ Due(t) \/ Claim(t) \/ Proceed(t) \/ CheckPreemption(t)
                      \/ LoseLease(t) \/ GoQuiet(t) \/ CallTools(t) \/ RunThrows(t)
                      \/ RunReturns(t) \/ Cancel(t) \/ Lapse(t)
  \/ Stop \/ Recover \/ Restart

Spec == Init /\ [][Next]_vars

\* Awaited work comes back, a Tool answers, and an aborted Run ends.  Not that a model
\* ever stops by itself.
FairSpec ==
  /\ Spec
  /\ \A t \in Tasks : WF_vars(Proceed(t))

----------------------------------------------------------------------------
(* Properties *)

TypeOK ==
  /\ home \in Homes
  /\ row \in [Tasks -> [status : {"absent", "queued", "running", "ended"},
                        due : BOOLEAN, bound : BOOLEAN, cancel : BOOLEAN, live : BOOLEAN,
                        attempts : Nat, max : Nat]]
  /\ exec \in [Tasks -> [at : {"none", "workspace", "run", "finalize", "closing"},
                         why : {"none", "lease", "force", "cancel", "stop", "preempt", "idle"},
                         tools : SUBSET Kinds, by : Tasks \cup {0},
                         cancel : BOOLEAN, lost : BOOLEAN]]
  /\ reserved \subseteq Tasks
  /\ stopping \in {"no", "stop", "force"}
  /\ victims \in [Tasks -> SUBSET Tasks]

\* Two Runs never write one transcript: not after a claim of several Tasks of a Session,
\* a wait for the workspace, a lapse, a put-back or a preemption. activeSessions is exactly
\* the Sessions of the Runs under way, so that none is shut out for ever either.
SessionHasOneRun ==
  /\ \A t, u \in Tasks : OwnsSession(t) /\ OwnsSession(u) /\ home[t] = home[u] => t = u
  /\ busy = {home[t] : t \in {u \in Tasks : OwnsSession(u)}}

\* No Run is aborted with a Tool in flight: not by a preemption, a stop, silence or force,
\* and by a cancel only when every Tool is run_shell. A Run that may not renew its
\* lease is the exception, whatever is in flight.
ToolsNotCut ==
  [][\A t \in Tasks :
       exec[t].why = "none" /\ exec'[t].why # "none" /\ exec[t].tools # {} /\ exec'[t].tools # {}
         => exec'[t].why = "lease" \/ (exec'[t].why = "cancel" /\ exec'[t].tools \subseteq {"shell"})]_vars

\* An urgent or correcting Task makes one Run give way, not all of them, however long the
\* aborted Run takes to end.
OneVictimEach == \A t \in Tasks : Cardinality(victims[t]) <= 1

\* A stop reaches the Runs: those it aborts, and those whose last Tool answers after it,
\* end. What may be left is a Run that started after it and never calls a Tool.
StopDrains ==
  stopping # "no" ~> \A t \in Tasks : exec[t].at = "run" => exec[t].tools = {} /\ exec[t].why = "none"

\* The reduced rows keep the promise that the whole table keeps in TaskStore.
View(r) ==
  LET state == IF r.status = "running" THEN "held"
               ELSE IF r.status = "ended" THEN "ended" ELSE "idle"
  IN [state |-> state, leased |-> r.live, cancel |-> r.cancel,
      attempts |-> IF state = "ended" THEN 0 ELSE r.attempts]

Contract == INSTANCE TaskContract WITH view <- [t \in Tasks |-> View(row[t])]

KeepsContract == Contract!ContractSpec

=============================================================================
