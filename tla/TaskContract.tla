---------------------------- MODULE TaskContract ----------------------------
(***************************************************************************)
(* What the Task table promises about a Task, whoever reads and writes it: *)
(* an attempt begins when the Task is free or when the lease of the one    *)
(* before has run out, a lease that ran out is not revived, a Task that    *)
(* was told to cancel only ends, and a Task that ended stays so.           *)
(*                                                                         *)
(* TaskStore has the whole table; Dispatcher and Supervisor have only the  *)
(* columns they ask for.  All three keep this contract.                    *)
(***************************************************************************)
EXTENDS Naturals

CONSTANT Tasks

VARIABLE view  \* what the contract sees of each Task

\* state: idle (waiting in any status), held (by an attempt), dead (until the owner retries), ended

\* A Task that nobody holds, before its first attempt, between two of them or after the last
Loose(state, attempts) ==
  [state |-> state, leased |-> FALSE, cancel |-> FALSE, attempts |-> attempts]

\* A Task that an attempt has
Held(leased, cancel, attempts) ==
  [state |-> "held", leased |-> leased, cancel |-> cancel, attempts |-> attempts]

New == Loose("idle", 0)
Gone == Loose("ended", 0)

\* Free for an attempt; recovery of a lapsed lease is part of the claim.
Open(a) == a.state = "idle" \/ (a.state = "held" /\ ~a.leased /\ ~a.cancel)

Begin(a, b) == Open(a) /\ b = Held(TRUE, FALSE, a.attempts + 1)

\* an attempt that is claimed only to be recorded as failed
Burn(a, b) == Open(a) /\ b = Loose("idle", a.attempts + 1)

Lapse(a, b) == a.state = "held" /\ b = Held(FALSE, a.cancel, a.attempts)

AskToCancel(a, b) == a.state = "held" /\ b = Held(a.leased, TRUE, a.attempts)

\* a result, a failure, a put-back, a pause or a recovery, but none gets past a cancel
Release(a, b) ==
  /\ a.state = "held" /\ ~a.cancel
  /\ \E s \in {"idle", "dead"} : b = Loose(s, a.attempts)

End(a, b) == a.state \in {"idle", "held"} /\ b = Gone

\* the owner retries a dead letter
Revive(a, b) == a.state = "dead" /\ b = Loose("idle", a.attempts)

TaskStep(a, b) ==
  \/ b = a
  \/ Begin(a, b) \/ Burn(a, b) \/ Lapse(a, b) \/ AskToCancel(a, b)
  \/ Release(a, b) \/ End(a, b) \/ Revive(a, b)

ContractInit == view = [t \in Tasks |-> New]

\* One transaction may recover many Tasks and begin an attempt of one.
ContractNext == \A t \in Tasks : TaskStep(view[t], view'[t])

ContractSpec == ContractInit /\ [][ContractNext]_view

=============================================================================
