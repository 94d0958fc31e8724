----------------------------- MODULE StateFile -----------------------------
(***************************************************************************)
(* AtomicJsonStore and the lock files it works under                       *)
(* (src/src/core/state-file.ts).  Several processes update one JSON file:  *)
(* each takes `<file>.lock`, reads the file again, changes the value and   *)
(* renames a temporary over it.  A lock whose owner died is evicted behind *)
(* a second lock file, the gate `<file>.lock.reap`, and a gate whose owner *)
(* died is itself removed by whoever finds it.                             *)
(*                                                                         *)
(* A step ends at each await; the removals (`rm`) are by name and remove   *)
(* whatever file has the name by then.  The inspection of a lock reads its *)
(* metadata and its age in two calls that race, each by name too.  The two *)
(* calls on a gate are one step: what they would mix up, the comparison of *)
(* inode and metadata before the removal turns away.  Within one process   *)
(* `enqueue` runs one operation on a file at a time, so a process is at    *)
(* one place.                                                              *)
(***************************************************************************)
EXTENDS Naturals

CONSTANTS
  Procs,          \* process lives; a restarted process is another member
  NoFile,         \* ENOENT
  MaxUpdates,     \* bound: updates that are begun
  MaxCrashes,     \* bound: processes that die
  MaxStalls,      \* bound: times a live process's empty lock file passes for 5 s old
  MaxCorruptions  \* bound: times the file is damaged from outside

VARIABLES
  at,         \* the await a process is at
  seen,       \* the dead gate a process decided to remove
  source,     \* what the inspection read in the lock file: its owner, or nothing
  stamp,      \* the age of the lock file by its modification time, as stat gave it
  fresh,      \* history: the lock file that was read first still has the name
  lock,       \* <file>.lock
  gate,       \* <file>.lock.reap
  file,       \* the JSON file: health, and the processes whose change it holds
  marker,     \* <file>.corrupt-state
  view,       \* the value a process read under the lock
  updates,    \* updates begun
  crashes,    \* history: processes that died
  gateDeaths, \* history: those that died while their gate existed
  stalls,     \* history: times a live process's empty lock file passed for 5 s old
  misjudged,  \* history: some eviction was decided on a file that was replaced since
  corruptions \* history: damages done to the file

locks == <<lock, gate>>
data == <<file, marker, view>>
looks == <<source, stamp, fresh>>
faults == <<updates, crashes, gateDeaths, stalls, misjudged, corruptions>>
vars == <<at, seen, looks, locks, data, faults>>

\* metadata {token, pid} is absent until written; old: untouched for 5 s
LockFiles == [owner : Procs, written : BOOLEAN, old : BOOLEAN]

ASSUME NoFileAssumption == NoFile \notin LockFiles
ASSUME SourceAssumption == "unread" \notin Procs /\ "empty" \notin Procs

GatePlaces == {"fillGate", "inspect", "evict", "leave"}
HeldPlaces == {"fill", "load", "mutate", "mark", "quarantine", "seal", "release", "unlink"}
Trying == {"gate", "ungate", "unlinkGate", "create", "reap"} \cup GatePlaces
Places == {"idle", "dead"} \cup Trying \cup HeldPlaces

TypeOK ==
  /\ at \in [Procs -> Places]
  /\ seen \in [Procs -> LockFiles \cup {NoFile}]
  /\ source \in [Procs -> {"unread", "empty"} \cup Procs]
  /\ stamp \in [Procs -> {"unread", "young", "old"}]
  /\ fresh \in [Procs -> BOOLEAN]
  /\ lock \in LockFiles \cup {NoFile}
  /\ gate \in LockFiles \cup {NoFile}
  /\ file \in [health : {"ok", "corrupt", "missing"}, holds : SUBSET Procs]
  /\ marker \in {"none", "blocking", "quarantined"}
  /\ view \in [Procs -> SUBSET Procs]
  /\ updates \in Nat /\ crashes \in Nat /\ gateDeaths \in Nat /\ stalls \in Nat
  /\ corruptions \in Nat
  /\ misjudged \in BOOLEAN

Dead(p) == at[p] = "dead"

Opened(p) == [owner |-> p, written |-> FALSE, old |-> FALSE]

\* a dead owner's, or without metadata and old
Abandoned(f) == IF f.written THEN Dead(f.owner) ELSE f.old

\* The handle writes to the inode it opened, whether or not the name still has it.
Filled(f, p) == IF f = NoFile THEN f
                ELSE IF f.owner = p THEN [f EXCEPT !.written = TRUE, !.old = FALSE] ELSE f

Go(p, place) == at' = [at EXCEPT ![p] = place]

\* What an inspection read goes with the call.
Forget(p) ==
  /\ source' = [source EXCEPT ![p] = "unread"]
  /\ stamp' = [stamp EXCEPT ![p] = "unread"]
  /\ fresh' = [fresh EXCEPT ![p] = FALSE]

\* The name is free again: no pending inspection looks at the file that has it.
LockGone ==
  /\ lock' = NoFile
  /\ fresh' = [p \in Procs |-> FALSE]
  /\ UNCHANGED <<source, stamp>>

Init ==
  /\ at = [p \in Procs |-> "idle"]
  /\ seen = [p \in Procs |-> NoFile]
  /\ source = [p \in Procs |-> "unread"]
  /\ stamp = [p \in Procs |-> "unread"]
  /\ fresh = [p \in Procs |-> FALSE]
  /\ lock = NoFile /\ gate = NoFile
  /\ file = [health |-> "ok", holds |-> {}]
  /\ marker = "none"
  /\ view = [p \in Procs |-> {}]
  /\ updates = 0 /\ crashes = 0 /\ gateDeaths = 0 /\ stalls = 0 /\ corruptions = 0
  /\ misjudged = FALSE

----------------------------------------------------------------------------
(* acquireLock: the gate first, then the lock itself *)

Begin(p) ==
  /\ at[p] = "idle"
  /\ updates < MaxUpdates
  /\ updates' = updates + 1
  /\ Go(p, "gate")
  /\ UNCHANGED <<seen, looks, locks, data, crashes, gateDeaths, stalls, misjudged, corruptions>>

\* mutant of CheckGate: a dead gate is left for somebody else
CheckGateOnly(p) ==
  /\ at[p] = "gate"
  /\ Go(p, IF gate = NoFile THEN "create" ELSE "reap")
  /\ UNCHANGED <<seen, looks, locks, data, faults>>

CheckGate(p) ==
  /\ at[p] = "gate"
  /\ \/ gate = NoFile /\ Go(p, "create") /\ UNCHANGED seen
     \/ /\ gate # NoFile /\ Abandoned(gate)
        /\ seen' = [seen EXCEPT ![p] = gate]
        /\ Go(p, "ungate")
     \/ gate # NoFile /\ ~Abandoned(gate) /\ Go(p, "reap") /\ UNCHANGED seen
  /\ UNCHANGED <<looks, locks, data, faults>>

\* removeObservedLock: compare, then remove by name
CompareGate(p) ==
  /\ at[p] = "ungate"
  /\ Go(p, IF gate = NoFile THEN "gate" ELSE IF gate = seen[p] THEN "unlinkGate" ELSE "reap")
  /\ seen' = [seen EXCEPT ![p] = NoFile]
  /\ UNCHANGED <<looks, locks, data, faults>>

UnlinkGate(p) ==
  /\ at[p] = "unlinkGate"
  /\ gate' = NoFile
  /\ Go(p, "gate")
  /\ UNCHANGED <<seen, looks, lock, data, faults>>

CreateLock(p) ==
  /\ at[p] = "create"
  /\ \/ lock = NoFile /\ lock' = Opened(p) /\ Go(p, "fill")
     \/ lock # NoFile /\ Go(p, "reap") /\ UNCHANGED lock
  /\ UNCHANGED <<seen, looks, gate, data, faults>>

FillLock(p) ==
  /\ at[p] = "fill"
  /\ lock' = Filled(lock, p)
  /\ Go(p, "load")
  /\ UNCHANGED <<seen, looks, gate, data, faults>>

\* The write of the metadata fails: the lock file is removed and the call throws.
FillFails(p) ==
  /\ at[p] = "fill"
  /\ LockGone
  /\ Go(p, "idle")
  /\ UNCHANGED <<seen, gate, data, faults>>

OpenGate(p) ==
  /\ at[p] = "reap"
  /\ \/ gate = NoFile /\ gate' = Opened(p) /\ Go(p, "fillGate")
     \/ gate # NoFile /\ Go(p, "gate") /\ UNCHANGED gate
  /\ UNCHANGED <<seen, looks, lock, data, faults>>

FillGate(p) ==
  /\ at[p] = "fillGate"
  /\ gate' = Filled(gate, p)
  /\ Go(p, "inspect")
  /\ UNCHANGED <<seen, looks, lock, data, faults>>

\* readFile and stat of the lock, in either order: whatever file has the name by then
ReadSource(p) ==
  /\ at[p] = "inspect" /\ source[p] = "unread"
  /\ \/ lock = NoFile /\ Go(p, "leave") /\ Forget(p)
     \/ /\ lock # NoFile
        /\ source' = [source EXCEPT ![p] = IF lock.written THEN lock.owner ELSE "empty"]
        /\ fresh' = [fresh EXCEPT ![p] = @ \/ stamp[p] = "unread"]
        /\ UNCHANGED <<at, stamp>>
  /\ UNCHANGED <<seen, locks, data, faults>>

StatLock(p) ==
  /\ at[p] = "inspect" /\ stamp[p] = "unread"
  /\ \/ lock = NoFile /\ Go(p, "leave") /\ Forget(p)
     \/ /\ lock # NoFile
        /\ stamp' = [stamp EXCEPT ![p] = IF lock.old THEN "old" ELSE "young"]
        /\ fresh' = [fresh EXCEPT ![p] = @ \/ source[p] = "unread"]
        /\ UNCHANGED <<at, source>>
  /\ UNCHANGED <<seen, locks, data, faults>>

Decide(p, evicts) ==
  /\ at[p] = "inspect" /\ source[p] # "unread" /\ stamp[p] # "unread"
  /\ Go(p, IF evicts THEN "evict" ELSE "leave")
  /\ misjudged' = (misjudged \/ (evicts /\ ~fresh[p]))
  /\ Forget(p)
  /\ UNCHANGED <<seen, locks, data, updates, crashes, gateDeaths, stalls, corruptions>>

\* mutant of Judge: a file without metadata is evicted whatever its age
JudgeHasty(p) == Decide(p, source[p] = "empty" \/ Dead(source[p]))

\* deadOwner or invalidAndOld, by what was read of one file or of two
Judge(p) == Decide(p, IF source[p] = "empty" THEN stamp[p] = "old" ELSE Dead(source[p]))

EvictLock(p) ==
  /\ at[p] = "evict"
  /\ LockGone
  /\ Go(p, "leave")
  /\ UNCHANGED <<seen, gate, data, faults>>

\* Then another try, at once or after LOCK_RETRY_MS.  A write or read behind the gate
\* that throws leaves it too, and then gives up.
LeaveGate(p) ==
  /\ at[p] = "leave"
  /\ gate' = NoFile
  /\ Go(p, "gate")
  /\ UNCHANGED <<seen, looks, lock, data, faults>>

\* the deadline has passed, or the caller's signal was aborted
GiveUp(p) ==
  /\ at[p] \in {"gate", "reap"}
  /\ Go(p, "idle")
  /\ UNCHANGED <<seen, looks, locks, data, faults>>

----------------------------------------------------------------------------
(* updateWhen under the lock *)

\* mutant of Load: the marker is not looked at, and a missing file is a new one
LoadUnblocked(p) ==
  /\ at[p] = "load"
  /\ view' = [view EXCEPT ![p] = IF file.health # "corrupt" THEN file.holds ELSE {}]
  /\ Go(p, IF file.health = "corrupt" THEN "mark" ELSE "mutate")
  /\ UNCHANGED <<seen, looks, locks, file, marker, faults>>

\* assertNotBlocked and readFromDisk
Load(p) ==
  /\ at[p] = "load"
  /\ view' = [view EXCEPT ![p] = IF marker = "none" /\ file.health # "corrupt"
                                  THEN file.holds ELSE {}]
  /\ Go(p, IF marker # "none" THEN "release"
           ELSE IF file.health = "corrupt" THEN "mark" ELSE "mutate")
  /\ UNCHANGED <<seen, looks, locks, file, marker, faults>>

\* mutation and writeToDisk: the rename replaces whatever is there
Commit(p) ==
  /\ at[p] = "mutate"
  /\ file' = [health |-> "ok", holds |-> view[p] \cup {p}]
  /\ view' = [view EXCEPT ![p] = {}]
  /\ Go(p, "release")
  /\ UNCHANGED <<seen, looks, locks, marker, faults>>

\* nothing changed, the mutation or a write threw, or the signal was aborted
Abstain(p) ==
  /\ at[p] \in {"load", "mutate", "quarantine", "seal"}
  /\ view' = [view EXCEPT ![p] = {}]
  /\ Go(p, "release")
  /\ UNCHANGED <<seen, looks, locks, file, marker, faults>>

\* recoverInvalidState: the marker is created exclusively before the file is moved away
MarkCorrupt(p) ==
  /\ at[p] = "mark"
  /\ \/ marker = "none" /\ marker' = "blocking" /\ Go(p, "quarantine")
     \/ marker # "none" /\ Go(p, "release") /\ UNCHANGED marker
  /\ UNCHANGED <<seen, looks, locks, file, view, faults>>

Quarantine(p) ==
  /\ at[p] = "quarantine"
  /\ file' = [health |-> "missing", holds |-> {}]
  /\ Go(p, "seal")
  /\ UNCHANGED <<seen, looks, locks, marker, view, faults>>

SealMarker(p) ==
  /\ at[p] = "seal"
  /\ marker' = "quarantined"
  /\ Go(p, "release")
  /\ UNCHANGED <<seen, looks, locks, file, view, faults>>

\* release: read the lock, then remove it by name if the token is ours
ReadOwnLock(p) ==
  /\ at[p] = "release"
  /\ Go(p, IF lock # NoFile /\ lock.owner = p /\ lock.written THEN "unlink" ELSE "idle")
  /\ UNCHANGED <<seen, looks, locks, data, faults>>

UnlinkLock(p) ==
  /\ at[p] = "unlink"
  /\ LockGone
  /\ Go(p, "idle")
  /\ UNCHANGED <<seen, gate, data, faults>>

\* Reading or removing the lock throws: it stays, in the name of a process that lives.
ReleaseFails(p) ==
  /\ at[p] \in {"release", "unlink"}
  /\ Go(p, "idle")
  /\ UNCHANGED <<seen, looks, locks, data, faults>>

----------------------------------------------------------------------------
(* Faults *)

Crash(p) ==
  /\ ~Dead(p)
  /\ crashes < MaxCrashes
  /\ crashes' = crashes + 1
  /\ gateDeaths' = gateDeaths + (IF at[p] \in GatePlaces THEN 1 ELSE 0)
  /\ Go(p, "dead")
  /\ seen' = [seen EXCEPT ![p] = NoFile] /\ view' = [view EXCEPT ![p] = {}]
  /\ Forget(p)
  /\ UNCHANGED <<locks, file, marker, updates, stalls, misjudged, corruptions>>

\* Five seconds of a live process pass over its empty lock, or over what an
\* inspection read of it while it was empty: it was held up, or the inspection was.
HeldUp ==
  /\ ~Dead(lock.owner)
  /\ ~lock.written \/ \E p \in Procs : fresh[p] /\ source[p] = "empty"

Stall(late) ==
  \/ ~late /\ UNCHANGED stalls
  \/ late /\ stalls < MaxStalls /\ stalls' = stalls + 1

\* The age of a lock with metadata is of no account but to a stat.
AgeLock ==
  /\ lock # NoFile /\ ~lock.old
  /\ ~lock.written \/ \E p \in Procs : at[p] = "inspect" /\ stamp[p] = "unread"
  /\ Stall(HeldUp)
  /\ lock' = [lock EXCEPT !.old = TRUE]
  /\ UNCHANGED <<at, seen, looks, gate, data, updates, crashes, gateDeaths, misjudged, corruptions>>

\* Only a gate without metadata is judged by its age.
AgeGate ==
  /\ gate # NoFile /\ ~gate.old /\ ~gate.written
  /\ Stall(~Dead(gate.owner))
  /\ gate' = [gate EXCEPT !.old = TRUE]
  /\ UNCHANGED <<at, seen, looks, lock, data, updates, crashes, gateDeaths, misjudged, corruptions>>

\* Five seconds pass between stat and the judgement of an empty file.
AgeStamp(p) ==
  /\ stamp[p] = "young" /\ source[p] = "empty"
  /\ Stall(fresh[p] /\ ~Dead(lock.owner))
  /\ stamp' = [stamp EXCEPT ![p] = "old"]
  /\ UNCHANGED <<at, seen, source, fresh, locks, data, updates, crashes, gateDeaths, misjudged,
                 corruptions>>

\* The file is truncated or edited by something else.
Corrupt ==
  /\ corruptions < MaxCorruptions
  /\ file.health = "ok"
  /\ file' = [file EXCEPT !.health = "corrupt"]
  /\ corruptions' = corruptions + 1
  /\ UNCHANGED <<at, seen, looks, locks, marker, view, updates, crashes, gateDeaths, stalls,
                 misjudged>>

----------------------------------------------------------------------------
Acquire(p) ==
  \/ CheckGate(p) \/ CompareGate(p) \/ UnlinkGate(p) \/ CreateLock(p) \/ FillLock(p)
  \/ OpenGate(p) \/ FillGate(p) \/ ReadSource(p) \/ StatLock(p) \/ Judge(p) \/ EvictLock(p)
  \/ LeaveGate(p)

Update(p) ==
  \/ Load(p) \/ Commit(p) \/ Abstain(p) \/ MarkCorrupt(p) \/ Quarantine(p) \/ SealMarker(p)
  \/ ReadOwnLock(p) \/ UnlinkLock(p)

Next ==
  \/ \E p \in Procs : Begin(p) \/ Acquire(p) \/ GiveUp(p) \/ Update(p) \/ Crash(p) \/ AgeStamp(p)
  \/ \E p \in Procs : FillFails(p) \/ ReleaseFails(p)
  \/ AgeLock \/ AgeGate
  \/ Corrupt

Spec == Init /\ [][Next]_vars

\* A live process takes its next step, and files grow old.  Not that anybody gives
\* up, begins another update, or that a write fails.
FairSpec ==
  /\ Spec
  /\ \A p \in Procs : WF_vars(Acquire(p)) /\ WF_vars(Update(p))
  /\ WF_vars(AgeLock) /\ WF_vars(AgeGate)

----------------------------------------------------------------------------
(* Properties *)

Undisturbed == gateDeaths = 0 /\ stalls = 0 /\ ~misjudged

\* Two processes are never between lock and release at once, unless a process died
\* while its gate existed, a live process's empty file passed for 5 s old, or an
\* inspection evicted by what it had read of a file that was replaced meanwhile: those
\* are the ways a removal by name can hit a file that is not the one inspected.
ExclusiveUpdates ==
  Undisturbed =>
    \A p, q \in Procs : at[p] \in HeldPlaces /\ at[q] \in HeldPlaces => p = q

\* A committed change stays in the file through all later updates, and once damage was
\* found nobody writes a fresh value over the evidence: a marked file is never good again.
NoLostUpdate ==
  [][Undisturbed /\ file'.health = "ok" => file.holds \subseteq file'.holds /\ marker = "none"]_vars

Orphaned(f) == f # NoFile /\ Dead(f.owner)

\* The lock of a dead process does not outlast a process that keeps trying: the
\* waiter, or another one, evicts it, also when an evicting process died at the gate.
DeadLocksGo ==
  \A p \in Procs :
    Orphaned(lock) /\ at[p] \in Trying ~> ~Orphaned(lock) \/ at[p] \in {"idle", "dead"}

=============================================================================
