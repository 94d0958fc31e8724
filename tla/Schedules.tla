------------------------------ MODULE Schedules ------------------------------
(* One schedule of daemon/schedule-store.ts and the Tasks it emits: the row,   *)
(* its next time, the occurrences and what becomes of them in the task store,  *)
(* and the tool with which an occurrence ends its own schedule                 *)
(* (daemon/schedule-tools.ts).  Schedules do not depend on each other.         *)
EXTENDS Integers

CONSTANTS Types,        \* the kinds of schedule tried, of {"at", "interval", "watch"}
          Every,        \* the interval, in units of the clock
          MaxTime,      \* bound: the clock
          MaxOcc,       \* bound: occurrences emitted
          MaxAttempts,  \* max_attempts of an occurrence's Task
          MaxEdits,     \* bound: updates of the row by the owner
          MaxOwner      \* bound: pauses, cancels, resumes and retries

ASSUME BoundsAssumption ==
    /\ Types \subseteq {"at", "interval", "watch"}
    /\ Every \in Nat \ {0} /\ MaxAttempts \in Nat \ {0}
    /\ MaxTime \in Nat /\ MaxOcc \in Nat /\ MaxEdits \in Nat /\ MaxOwner \in Nat

VARIABLES
    kind,       \* schedule_type
    row,        \* the row of schedules, or Gone
    occ,        \* the occurrences: Event, Task and, while it runs, its tools
    authority,  \* is the authority Event still the one the schedule names?
    now,        \* the clock
    edits,      \* updates saved so far
    owner,      \* pauses, cancels, resumes and retries so far
    revived,    \* history: dead letters the owner retried
    spared      \* history: running at the removal, or asked for again by the owner

vars == <<kind, row, occ, authority, now, edits, owner, revived, spared>>

Occ == 1..MaxOcc
Gone == [on |-> FALSE, due |-> -1]
Absent == [status |-> "absent", slot |-> -1, current |-> FALSE,
           mayEnd |-> FALSE, attempts |-> 0]

Present == row # Gone
With(S) == {o \in Occ : occ[o].status \in S}

(* What still counts as outstanding when the next occurrence is due.  Variant: *)
(* what waits for the owner is not counted.                                    *)
OutstandingActive == With({"queued", "running"})
Outstanding == With({"queued", "running", "paused", "blocked"})

(* The first time of the raster that began with the last due time and that is  *)
(* after now: a machine that slept emits once, not once for each missed time.  *)
(* Variant: off by one, the last time of the raster up to now.                 *)
NextDueShort(previous) == previous + ((now - previous) \div Every) * Every
NextDue(previous) == previous + ((now - previous) \div Every + 1) * Every

Init ==
    /\ kind \in Types
    /\ row \in {[on |-> TRUE, due |-> d] : d \in 1..(Every + 1)}
    /\ occ = [o \in Occ |-> Absent]
    /\ authority = TRUE
    /\ now = 0 /\ edits = 0 /\ owner = 0
    /\ revived = {} /\ spared = {}

-----------------------------------------------------------------------------
(* The row.                                                                    *)

(* The text a new occurrence would get has changed: no occurrence emitted so   *)
(* far carries it, so none that starts from now on is authentic.               *)
Outdated(tasks) == [o \in Occ |-> [tasks[o] EXCEPT !.current = FALSE]]

(* The owner saves an edit: new text, switched off, or a new time, which a new *)
(* type brings as well.  A watch has no branch of its own and is refused,      *)
(* unless the edit gives it another type; no edit makes a watch.  The time and *)
(* type of a row that is off are not used, and are modelled as edited when it  *)
(* is switched on, which sets a new time in any case.                          *)
Update ==
    /\ Present /\ edits < MaxEdits
    /\ \/ /\ kind # "watch"
          /\ \/ occ' = Outdated(occ) /\ UNCHANGED row
             \/ row.on /\ row' = [row EXCEPT !.on = FALSE] /\ UNCHANGED occ
          /\ UNCHANGED kind
       \/ \E type \in {"at", "interval"}, d \in (now + 1)..(now + Every) :
             /\ type = "interval" => d = now + Every
             /\ kind' = type
             /\ row' = [on |-> TRUE, due |-> d]
             /\ occ' = IF type = kind THEN occ ELSE Outdated(occ)
    /\ edits' = edits + 1
    /\ UNCHANGED <<authority, now, owner, revived, spared>>

(* What a removal leaves of the tasks: those still queued are cancelled.       *)
(* Variant: only those never started are.                                      *)
SweptUnstarted == [o \in Occ |->
    IF occ[o].status = "queued" /\ occ[o].attempts = 0
      THEN [occ[o] EXCEPT !.status = "ended"] ELSE occ[o]]
Swept == [o \in Occ |-> IF occ[o].status = "queued"
                          THEN [occ[o] EXCEPT !.status = "ended"]
                          ELSE occ[o]]

Removed ==
    /\ row' = Gone
    /\ occ' = Swept
    /\ spared' = spared \cup With({"running"})

Remove ==
    /\ Present
    /\ Removed
    /\ UNCHANGED <<kind, authority, now, edits, owner, revived>>

(* A conversation of the watched Session begins: the watch is due at once.     *)
Wake ==
    /\ Present /\ row.on /\ kind = "watch" /\ row.due > now
    /\ row' = [row EXCEPT !.due = now]
    /\ UNCHANGED <<kind, occ, authority, now, edits, owner, revived, spared>>

Free == With({"absent"})
Known == \E o \in Occ : occ[o].slot = row.due

(* The Event of a due time is stored once; only a new one makes a Task.        *)
Emitted ==
    IF Known THEN occ
    ELSE LET o == CHOOSE f \in Free : \A g \in Free : f <= g
         IN  [occ EXCEPT ![o] = [status |-> "queued", slot |-> row.due,
                                 current |-> TRUE, mayEnd |-> FALSE,
                                 attempts |-> 0]]

EmitDue ==
    /\ Present /\ row.on /\ row.due <= now
    /\ Outstanding = {}
    /\ IF ~authority
         THEN row' = [row EXCEPT !.on = FALSE] /\ UNCHANGED occ
         ELSE /\ Known \/ Free # {}
              /\ occ' = Emitted
              /\ row' = IF kind = "at" THEN [row EXCEPT !.on = FALSE]
                        ELSE [row EXCEPT !.due = NextDue(row.due)]
    /\ UNCHANGED <<kind, authority, now, edits, owner, revived, spared>>

-----------------------------------------------------------------------------
(* The occurrences in the task store.                                          *)

(* A worker claims the Task.  Its Run may end the schedule when the Task still *)
(* carries the text a new occurrence would get.                                *)
Start(o) ==
    /\ occ[o].status = "queued"
    /\ occ' = [occ EXCEPT ![o].status = "running", ![o].attempts = @ + 1,
                          ![o].mayEnd = /\ Present /\ occ[o].current
                                        /\ kind \in {"interval", "watch"}]
    /\ UNCHANGED <<kind, row, authority, now, edits, owner, revived, spared>>

(* completed, failed and cancelled are one status here, "ended".               *)
Left(o, status) == [occ EXCEPT ![o].status = status, ![o].mayEnd = FALSE]

(* completeTask and blockTask record the outcome in the schedule, and with it  *)
(* change the text of the next occurrence.                                     *)
Finish(o) ==
    /\ occ[o].status = "running"
    /\ \E status \in {"ended", "dead_letter", "blocked"} :
          occ' = IF Present THEN Outdated(Left(o, status)) ELSE Left(o, status)
    /\ UNCHANGED <<kind, row, authority, now, edits, owner, revived, spared>>

(* failTask and the recovery of a lost lease record nothing.                   *)
Fail(o) ==
    /\ occ[o].status = "running"
    /\ \/ /\ occ[o].attempts < MaxAttempts
          /\ occ' = Left(o, "queued")
       \/ /\ occ[o].attempts >= MaxAttempts
          /\ occ' = Left(o, "dead_letter")
       \/ occ' = Left(o, "ended")
    /\ UNCHANGED <<kind, row, authority, now, edits, owner, revived, spared>>

(* complete_current_mimi_schedule: the id was captured when the Run began.     *)
CompleteCurrent(o) ==
    /\ occ[o].status = "running" /\ occ[o].mayEnd
    /\ Present
    /\ Removed
    /\ UNCHANGED <<kind, authority, now, edits, owner, revived>>

(* Of a running Task the intent and its settling at the safe boundary are one  *)
(* step; TaskStore has both.                                                   *)
Control(o) ==
    /\ owner < MaxOwner
    /\ \/ occ[o].status \in {"queued", "running"} /\ occ' = Left(o, "paused")
       \/ /\ occ[o].status \in {"queued", "running", "paused", "blocked"}
          /\ occ' = Left(o, "ended")
    /\ owner' = owner + 1
    /\ UNCHANGED <<kind, row, authority, now, edits, revived, spared>>

(* Resuming with a note appends it to the prompt of the Task.                  *)
Resume(o) ==
    /\ owner < MaxOwner
    /\ occ[o].status \in {"paused", "blocked"}
    /\ \E note \in BOOLEAN :
          occ' = [occ EXCEPT ![o].status = "queued", ![o].current = @ /\ ~note]
    /\ owner' = owner + 1
    /\ spared' = spared \cup {o}
    /\ UNCHANGED <<kind, row, authority, now, edits, revived>>

RetryDeadLetter(o) ==
    /\ owner < MaxOwner
    /\ occ[o].status = "dead_letter"
    /\ occ' = [occ EXCEPT ![o].status = "queued"]
    /\ owner' = owner + 1
    /\ revived' = revived \cup {o}
    /\ spared' = spared \cup {o}
    /\ UNCHANGED <<kind, row, authority, now, edits>>

-----------------------------------------------------------------------------
Tick ==
    /\ now < MaxTime
    /\ now' = now + 1
    /\ UNCHANGED <<kind, row, occ, authority, edits, owner, revived, spared>>

(* The authority Event is deleted or no longer matches the schedule.           *)
LoseAuthority ==
    /\ authority /\ authority' = FALSE
    /\ UNCHANGED <<kind, row, occ, now, edits, owner, revived, spared>>

Next ==
    \/ Update \/ Remove \/ Wake \/ EmitDue \/ Tick \/ LoseAuthority
    \/ \E o \in Occ : \/ Start(o) \/ Finish(o) \/ Fail(o) \/ CompleteCurrent(o)
                      \/ Control(o) \/ Resume(o) \/ RetryDeadLetter(o)

Spec == Init /\ [][Next]_vars

(* The dispatcher polls schedules in every round of its loop, a queued Task is *)
(* started and a Run ends in the end.                                          *)
Fairness ==
    /\ WF_vars(EmitDue)
    /\ \A o \in Occ : WF_vars(Start(o)) /\ WF_vars(Finish(o) \/ Fail(o))

FairSpec == Spec /\ Fairness

-----------------------------------------------------------------------------
Statuses == {"absent", "queued", "running", "paused", "blocked", "dead_letter", "ended"}

TypeOK ==
    /\ kind \in {"at", "interval", "watch"}
    /\ row \in [on : BOOLEAN, due : Int]
    /\ occ \in [Occ -> [status : Statuses, slot : Int, current : BOOLEAN,
                        mayEnd : BOOLEAN, attempts : Nat]]
    /\ authority \in BOOLEAN
    /\ now \in Nat /\ edits \in Nat /\ owner \in Nat
    /\ revived \subseteq Occ /\ spared \subseteq Occ

(* However long the machine slept, whatever was paused, blocked or woken, two  *)
(* occurrences of a schedule are never outstanding at once, unless the owner   *)
(* retried one of them after it was a dead letter ("One outstanding occurrence *)
(* per schedule", schedule-store.ts:301).                                      *)
OneOutstanding ==
    \A o, p \in With({"queued", "running", "paused", "blocked"}) \ revived : o = p

(* Once a schedule is removed, by its owner or by one of its own occurrences,  *)
(* nothing of it waits or runs but what was running at that moment, its        *)
(* retries included, and what the owner asked for again.                       *)
RemovedScheduleRests == ~Present => With({"queued", "running"}) \subseteq spared

Armed(d) == Present /\ row.on /\ row.due = d /\ d <= now
Fired(d) == \E o \in Occ : occ[o].slot = d

(* A due time the owner does not move makes an occurrence and then gives way   *)
(* to a later one (or, for a single time, switches the schedule off), unless   *)
(* the schedule goes, its authority is lost or an occurrence waits for the     *)
(* owner.  Times past the bound on occurrences are left out.                   *)
DueTimesFire ==
    \A d \in 0..MaxTime, e \in 0..MaxEdits :
        (Armed(d) /\ edits = e /\ Free # {})
            ~> \/ Fired(d) /\ (row.due > d \/ ~row.on)
               \/ ~row.on /\ ~authority
               \/ ~Present \/ edits # e
               \/ With({"paused", "blocked"}) # {}
=============================================================================
