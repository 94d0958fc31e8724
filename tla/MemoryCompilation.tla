------------------------- MODULE MemoryCompilation -------------------------
(***************************************************************************)
(* The compilation of one Memory page                                      *)
(* (src/src/extensions/memory: compilation-coordinator.ts, the callers in  *)
(* hub.ts and wiki-compiler.ts, sqlite-catalog.ts, wiki-vault.ts).  The    *)
(* kernel and its task workers are processes that share the vault (the     *)
(* page file) and the SQLite catalog (jobs, revisions, the current         *)
(* pointer, receipts, the search index).  A job is one attempt to compile  *)
(* the page: its text carries timestamps, so no two jobs have one digest   *)
(* and the page is named by the job that wrote it.                         *)
(*                                                                         *)
(* A step ends at each await and at each transaction of the catalog; what  *)
(* a process does between two awaits is interleaved with other processes   *)
(* only.  The file lock of the vault is a step (StateFile models it).      *)
(***************************************************************************)
EXTENDS Naturals, Sequences

CONSTANTS
  NJobs,       \* attempts to compile the page, numbered as they begin
  Procs,       \* processes with a MemoryHub of the profile
  None,        \* no page, no job, no process
  MaxCrashes,  \* bound: processes killed
  MaxForgets   \* bound: calls of forget

Jobs == 1..NJobs
Revisions == 1..NJobs

ASSUME NJobsAssumption == NJobs \in Nat
ASSUME NoneAssumption == None \notin Jobs \cup Procs
ASSUME ProcsAssumption == Jobs \cap Procs = {}

VARIABLES
  hub,      \* a process's hub: off, recovering, ready, or broken (initialize threw)
  todo,     \* the jobs its recovery has still to judge, as the rows were when it began
  work,     \* an activity: the call of a job, or the recovery of a process
  row,      \* compilation_jobs
  receipt,  \* compilation_receipts_v2
  page,     \* the page file in the vault
  redacted, \* jobs whose text vault.write sanitized, and so changed its digest
  revs,     \* memory_page_revisions: the job of each revision number
  current,  \* memory_page_current, 0 for no row
  writes,   \* history: the renames of the page, in order
  kept,     \* history: jobs that wrote and could not give the lock of the vault back
  crashes,  \* history: processes killed
  forgets   \* history: calls of forget

process == <<hub, todo, work>>
catalog == <<row, receipt, revs, current>>
counts == <<crashes, forgets>>
vault == <<page, redacted, writes, kept>>
vars == <<process, catalog, vault, counts>>

Pages == Jobs \cup {None}
Activities == Jobs \cup Procs

\* job: what it works on; proc: where; saw: the page it read; applied: job.appliedWrites
Idle == [at |-> "idle", job |-> None, proc |-> None, saw |-> None, applied |-> FALSE]
Stages == {"idle", "resolved", "prepared", "renamed", "looked", "receipt", "over"}

NoRow == [status |-> "none", next |-> 0, expected |-> None, applied |-> FALSE]
Rows == [status : {"none", "applying", "pending", "applied", "failed", "uncertain"},
         next : 0..NJobs, expected : Pages, applied : BOOLEAN]

TypeOK ==
  /\ hub \in [Procs -> {"off", "recovering", "ready", "broken"}]
  /\ DOMAIN todo = Procs
  /\ \A p \in Procs : DOMAIN todo[p] \subseteq Jobs /\ \A j \in DOMAIN todo[p] : todo[p][j] \in BOOLEAN
  /\ work \in [Activities -> [at : Stages, job : Pages, proc : Procs \cup {None},
                              saw : Pages, applied : BOOLEAN]]
  /\ row \in [Jobs -> Rows]
  /\ receipt \in [Jobs -> {"none", "applied", "failed", "uncertain"}]
  /\ page \in Pages /\ redacted \subseteq Jobs /\ kept \subseteq Jobs
  /\ revs \in [Revisions -> Pages] /\ current \in {0} \cup Revisions
  /\ writes \in Seq(Jobs) /\ crashes \in Nat /\ forgets \in Nat

Init ==
  /\ hub = [p \in Procs |-> "off"] /\ todo = [p \in Procs |-> <<>>]
  /\ work = [a \in Activities |-> Idle]
  /\ row = [j \in Jobs |-> NoRow] /\ receipt = [j \in Jobs |-> "none"]
  /\ page = None /\ redacted = {} /\ kept = {}
  /\ revs = [n \in Revisions |-> None] /\ current = 0
  /\ writes = <<>> /\ crashes = 0 /\ forgets = 0

----------------------------------------------------------------------------

\* commit goes from the revision to the receipt without an await.
Free(p) == \A a \in Activities : work[a].proc = p => work[a].at # "receipt"

Planned(j, pg) == pg = j /\ j \notin redacted

ByRecovery(a) == a \in Procs

\* Where an activity stands when its job is settled.
Over(a) == IF ByRecovery(a) THEN Idle ELSE [Idle EXCEPT !.at = "over"]

\* saveReceiptV2: the row and the receipt in one transaction; the row is the caller's copy
SaveReceipt(j, status, applied) ==
  /\ row' = [row EXCEPT ![j].status = status, ![j].applied = applied]
  /\ receipt' = [receipt EXCEPT ![j] = status]

SaveJob(j, status, applied) ==
  row' = [row EXCEPT ![j].status = status, ![j].applied = applied]

----------------------------------------------------------------------------
(* remember, capture, ingest, supersede, lint: resolve, prepare, write, commit *)

\* The page is read before the calls that precede prepare (embedding, provenance).
Resolve(j, p) ==
  /\ hub[p] = "ready" /\ Free(p)
  /\ work[j].at = "idle" /\ \A k \in 1..(j - 1) : work[k].at # "idle"
  /\ work' = [work EXCEPT ![j] = [Idle EXCEPT !.at = "resolved", !.job = j, !.proc = p, !.saw = page]]
  /\ UNCHANGED <<hub, todo, catalog, vault, counts>>

Prepare(j) ==
  /\ work[j].at = "resolved" /\ Free(work[j].proc)
  /\ work' = [work EXCEPT ![j].at = "prepared"]
  /\ row' = [row EXCEPT ![j] =
       [status |-> "applying", next |-> current + 1, applied |-> FALSE,
        expected |-> IF current = 0 THEN None ELSE revs[current]]]
  /\ UNCHANGED <<hub, todo, receipt, revs, current, vault, counts>>

\* vault.write compares the digest only if there was a page to read
MayReplace(j) == work[j].saw = None \/ page = work[j].saw

Rename(j) ==
  /\ work[j].at = "prepared" /\ Free(work[j].proc)
  /\ MayReplace(j)
  /\ page' = j
  /\ redacted' \in {redacted, redacted \cup {j}}
  /\ writes' = Append(writes, j)
  /\ work' = [work EXCEPT ![j].at = "renamed"]
  /\ UNCHANGED <<hub, todo, catalog, kept, counts>>

\* The page changed, or the policy of WIKI.md or the lock refuses the write: fail.
WriteFails(j) ==
  /\ work[j].at = "prepared" /\ Free(work[j].proc)
  /\ SaveReceipt(j, "failed", FALSE)
  /\ work' = [work EXCEPT ![j] = Over(j)]
  /\ UNCHANGED <<hub, todo, revs, current, vault, counts>>

\* The lock cannot be removed once the page is renamed: write throws, and the caller,
\* which cannot tell it from a write refused, reports a failure that is known.
ReleaseFails(j) ==
  /\ work[j].at = "renamed" /\ Free(work[j].proc)
  /\ kept' = kept \cup {j}
  /\ SaveReceipt(j, "failed", FALSE)
  /\ work' = [work EXCEPT ![j] = Over(j)]
  /\ UNCHANGED <<hub, todo, revs, current, page, redacted, writes, counts>>

----------------------------------------------------------------------------
(* commit, by the call that wrote the page or by a recovery that found it *)

\* The page as written has not the digest that was planned.
CommitMismatch(j) ==
  /\ work[j].at = "renamed" /\ Free(work[j].proc)
  /\ ~Planned(j, j)
  /\ SaveReceipt(j, "uncertain", FALSE)
  /\ work' = [work EXCEPT ![j] = Over(j)]
  /\ UNCHANGED <<hub, todo, revs, current, vault, counts>>

\* mutant of Commits: a recovery takes whatever page is there for the job's
CommitsAnyPage(a) ==
  IF ByRecovery(a) THEN work[a].at = "looked" /\ work[a].saw # None
  ELSE work[a].at = "renamed" /\ Free(work[a].proc) /\ Planned(a, a)

\* An activity whose next step is to save the revision
Commits(a) ==
  IF ByRecovery(a) THEN work[a].at = "looked" /\ Planned(work[a].job, work[a].saw)
  ELSE work[a].at = "renamed" /\ Free(work[a].proc) /\ Planned(a, a)

\* insertRevision: INSERT OR IGNORE leaves a taken number to its holder
Taken(j) == revs[row[j].next] \notin {None, j}

\* The pointer then names a revision that was not inserted: a foreign key fails.
Conflicting(j) == Taken(j) /\ row[j].next >= current

\* mutant of Revise: the revision is numbered when it is saved
ReviseRenumbered(a) ==
  LET j == work[a].job IN
  /\ Commits(a)
  /\ revs' = [revs EXCEPT ![current + 1] = j]
  /\ current' = current + 1
  /\ SaveJob(j, "applying", TRUE)
  /\ work' = [work EXCEPT ![a].at = "receipt", ![a].applied = TRUE]
  /\ UNCHANGED <<hub, todo, receipt, vault, counts>>

\* saveRevision: the revision, unless its number is taken; the pointer, unless it is ahead
Revise(a) ==
  LET j == work[a].job IN
  /\ Commits(a) /\ ~Conflicting(j)
  /\ revs' = IF Taken(j) THEN revs ELSE [revs EXCEPT ![row[j].next] = j]
  /\ current' = IF row[j].next >= current THEN row[j].next ELSE current
  /\ SaveJob(j, "applying", TRUE)
  /\ work' = [work EXCEPT ![a].at = "receipt", ![a].applied = TRUE]
  /\ UNCHANGED <<hub, todo, receipt, vault, counts>>

\* mutant of ReviseFails: the call reports a failed write
ReviseFailsKnown(a) ==
  /\ Commits(a) /\ Conflicting(work[a].job)
  /\ ~ByRecovery(a)
  /\ SaveReceipt(work[a].job, "failed", TRUE) /\ UNCHANGED hub
  /\ work' = [work EXCEPT ![a] = Over(a)]
  /\ UNCHANGED <<todo, revs, current, vault, counts>>

\* saveRevision throws: a call reports an uncertain job, a recovery ends initialize.
ReviseFails(a) ==
  /\ Commits(a) /\ Conflicting(work[a].job)
  /\ \/ ~ByRecovery(a) /\ SaveReceipt(work[a].job, "uncertain", TRUE) /\ UNCHANGED hub
     \/ ByRecovery(a) /\ hub' = [hub EXCEPT ![a] = "broken"] /\ UNCHANGED <<row, receipt>>
  /\ work' = [work EXCEPT ![a] = Over(a)]
  /\ UNCHANGED <<todo, revs, current, vault, counts>>

Receipt(a) ==
  /\ work[a].at = "receipt"
  /\ SaveReceipt(work[a].job, "applied", TRUE)
  /\ work' = [work EXCEPT ![a] = Over(a)]
  /\ UNCHANGED <<hub, todo, revs, current, vault, counts>>

----------------------------------------------------------------------------
(* recover and syncIndexes, at the first use of the hub in a process *)

Applying == {j \in Jobs : row[j].status = "applying"}

Start(p) ==
  /\ hub[p] = "off"
  /\ hub' = [hub EXCEPT ![p] = "recovering"]
  /\ todo' = [todo EXCEPT ![p] = [j \in Applying |-> row[j].applied]]
  /\ UNCHANGED <<work, catalog, vault, counts>>

\* vault.read of the next job's page
Look(p) ==
  /\ hub[p] = "recovering" /\ work[p].at = "idle"
  /\ \E j \in DOMAIN todo[p] :
       /\ work' = [work EXCEPT ![p] =
            [at |-> "looked", job |-> j, proc |-> p, saw |-> page, applied |-> todo[p][j]]]
       /\ todo' = [todo EXCEPT ![p] = [k \in DOMAIN todo[p] \ {j} |-> todo[p][k]]]
  /\ UNCHANGED <<hub, catalog, vault, counts>>

\* No page: the write never happened, unless a revision was recorded.
JudgeMissing(p) ==
  LET j == work[p].job IN
  /\ work[p].at = "looked" /\ work[p].saw = None
  /\ SaveJob(j, IF work[p].applied THEN "uncertain" ELSE "pending", work[p].applied)
  /\ work' = [work EXCEPT ![p] = Idle]
  /\ UNCHANGED <<hub, todo, receipt, revs, current, vault, counts>>

\* The digest the job expected: it did not write.
JudgeUntouched(p) ==
  LET j == work[p].job IN
  /\ work[p].at = "looked" /\ work[p].saw # None /\ ~Planned(j, work[p].saw)
  /\ ~work[p].applied /\ row[j].expected = work[p].saw
  /\ SaveJob(j, "pending", FALSE)
  /\ work' = [work EXCEPT ![p] = Idle]
  /\ UNCHANGED <<hub, todo, receipt, revs, current, vault, counts>>

\* mutant of JudgeConflict: a conflicting job is left as it is
JudgeConflictSilently(p) ==
  LET j == work[p].job IN
  /\ work[p].at = "looked" /\ work[p].saw # None /\ ~Planned(j, work[p].saw)
  /\ work[p].applied \/ row[j].expected # work[p].saw
  /\ work' = [work EXCEPT ![p] = Idle]
  /\ UNCHANGED <<hub, todo, catalog, vault, counts>>

\* Another page, or a revision recorded for a page that is no longer there.
JudgeConflict(p) ==
  LET j == work[p].job IN
  /\ work[p].at = "looked" /\ work[p].saw # None /\ ~Planned(j, work[p].saw)
  /\ work[p].applied \/ row[j].expected # work[p].saw
  /\ SaveReceipt(j, "uncertain", work[p].applied)
  /\ work' = [work EXCEPT ![p] = Idle]
  /\ UNCHANGED <<hub, todo, revs, current, vault, counts>>

Ready(p) ==
  /\ hub[p] = "recovering" /\ work[p].at = "idle" /\ DOMAIN todo[p] = {}
  /\ hub' = [hub EXCEPT ![p] = "ready"]
  /\ UNCHANGED <<todo, work, catalog, vault, counts>>

----------------------------------------------------------------------------
(* forget, and the end of a process *)

Remove(p) ==
  /\ hub[p] = "ready" /\ Free(p) /\ page # None /\ forgets < MaxForgets
  /\ page' = None
  /\ forgets' = forgets + 1
  /\ UNCHANGED <<process, catalog, redacted, writes, kept, crashes>>

Down(p) ==
  /\ hub' = [hub EXCEPT ![p] = "off"]
  /\ todo' = [todo EXCEPT ![p] = <<>>]
  /\ work' = [a \in Activities |->
       IF work[a].proc = p THEN Over(a) ELSE work[a]]
  /\ UNCHANGED <<catalog, vault, forgets>>

Crash(p) ==
  /\ hub[p] # "off" /\ crashes < MaxCrashes
  /\ Down(p)
  /\ crashes' = crashes + 1

\* A process whose hub failed to initialize keeps the failure until it ends.
Quit(p) == hub[p] = "broken" /\ Down(p) /\ UNCHANGED crashes

Step(a) == Revise(a) \/ ReviseFails(a) \/ Receipt(a)

Judge(p) == JudgeMissing(p) \/ JudgeUntouched(p) \/ JudgeConflict(p)

Recover(p) == Look(p) \/ Judge(p) \/ Step(p) \/ Ready(p)

Next ==
  \/ \E j \in Jobs :
       \/ \E p \in Procs : Resolve(j, p)
       \/ Prepare(j) \/ Rename(j) \/ WriteFails(j) \/ ReleaseFails(j)
       \/ CommitMismatch(j) \/ Step(j)
  \/ \E p \in Procs :
       Start(p) \/ Recover(p) \/ Remove(p) \/ Crash(p) \/ Quit(p)

Spec == Init /\ [][Next]_vars

\* Processes come back and their recoveries run on; no call is made to begin or to go on.
FairSpec == Spec /\ \A p \in Procs : WF_vars(Start(p) \/ Recover(p) \/ Quit(p))

----------------------------------------------------------------------------

Written(j) == \E i \in DOMAIN writes : writes[i] = j

\* No receipt says more or less of the vault than happened: a job reported applied did
\* write the page, a job reported failed did not, through crashes, through recoveries
\* that judge jobs of live processes, and through concurrent writers.  One failure is
\* reported of a page that was written: when the lock could not be given back after it.
ReceiptsTellTheTruth ==
  \A j \in Jobs :
    /\ receipt[j] = "applied" => Written(j)
    /\ receipt[j] = "failed" => (Written(j) <=> j \in kept)

WrittenAt(j) == CHOOSE i \in DOMAIN writes : writes[i] = j

\* The chain of revisions is the order in which the vault was written, although each
\* number is chosen before the write and recorded after it, by another process at times.
RevisionsFollowWrites ==
  \A m, n \in Revisions :
    /\ n <= current => revs[n] # None
    /\ m < n /\ revs[n] # None => /\ Written(revs[m]) /\ Written(revs[n])
                                  /\ WrittenAt(revs[m]) < WrittenAt(revs[n])

Orphan(j) == row[j].status = "applying" /\ work[j].at = "over"

\* A job that wrote the page when another had recorded a revision under its number.
Wedged(j) == row[j].status = "applying" /\ Conflicting(j)

\* Jobs whose process died between prepare and the receipt are settled by later
\* recoveries, unless a conflicting one makes every recovery fail.
OrphansAreJudged == []<>((\E k \in Jobs : Wedged(k)) \/ \A j \in Jobs : ~Orphan(j))

\* docs/ARCHITECTURE.md: a conflict is marked uncertain by the recovery, so the jobs
\* left applying by a crash all end.
ConflictsAreMarked == []<>(\A j \in Jobs : ~Orphan(j))

=============================================================================
