---------------------- MODULE MemoryCompilationProofs ----------------------
(***************************************************************************)
(* Proofs about MemoryCompilation for any number of jobs, processes,       *)
(* crashes and calls of forget.  What a receipt says rests on what every   *)
(* activity and every page ever read prove of the vault: a page names a    *)
(* job that wrote it, an activity past the rename works on a job that      *)
(* wrote, and one before it on a job that did not.  The numbers of         *)
(* revisions stay in range because each number up to the current one       *)
(* belongs to a different job that is past its prepare.                    *)
(***************************************************************************)
EXTENDS MemoryCompilation, FiniteSetTheorems, TLAPS

\* The jobs that wrote the page.
Wrote == {writes[i] : i \in DOMAIN writes}

Stage == [at : Stages, job : Pages, proc : Procs \cup {None}, saw : Pages, applied : BOOLEAN]

\* What the place of a job's own call says of the vault.
CallOK(j) ==
  /\ work[j].at # "over" => receipt[j] # "failed"
  /\ work[j].at \in {"idle", "resolved", "prepared"} => j \notin Wrote
  /\ work[j].at \in {"idle", "resolved"} => row[j].next = 0
  /\ work[j].at \notin {"idle", "over"} => work[j].job = j
  /\ work[j].at \in {"renamed", "receipt"} => j \in Wrote
  /\ work[j].at # "looked"

\* What a recovery has read, and what it is about to report.
RecoveryOK(p) ==
  /\ work[p].at \in {"idle", "looked", "receipt"}
  /\ work[p].at \in {"looked", "receipt"} => work[p].job \in Jobs
  /\ work[p].at = "looked" /\ work[p].saw # None => work[p].saw \in Wrote
  /\ work[p].at = "receipt" => work[p].job \in Wrote

ReceiptsOK ==
  \A j \in Jobs :
    /\ receipt[j] = "applied" => j \in Wrote
    /\ receipt[j] = "failed" => (j \in Wrote <=> j \in kept)

VaultOK == (page # None => page \in Wrote) /\ kept \subseteq Wrote

\* Each number up to the current one is some job's, and none is two ahead.
NumbersOK ==
  /\ \A n \in 1..current : \E j \in Jobs : row[j].next = n
  /\ \A j \in Jobs : row[j].next <= current + 1

PlacesOK ==
  /\ \A j \in Jobs : CallOK(j)
  /\ \A p \in Procs : RecoveryOK(p)

Inv == TypeOK /\ ReceiptsOK /\ VaultOK /\ NumbersOK /\ PlacesOK

USE NJobsAssumption, NoneAssumption, ProcsAssumption

----------------------------------------------------------------------------

LEMMA InitInv == Init => Inv
<1> SUFFICES ASSUME Init PROVE Inv
  OBVIOUS
<1> USE DEF Init, Idle, NoRow, Pages, Activities, Stages
<1>1. TypeOK
  <2>1. \A p \in Procs : DOMAIN todo[p] = {}
    OBVIOUS
  <2>2. writes \in Seq(Jobs)
    OBVIOUS
  <2>3. row \in [Jobs -> Rows] /\ work \in [Activities -> Stage]
    BY DEF Rows, Stage
  <2> QED
    BY <2>1, <2>2, <2>3 DEF TypeOK, Stage, Revisions
<1>2. Wrote = {}
  BY DEF Wrote
<1>3. ReceiptsOK /\ VaultOK
  BY <1>2 DEF ReceiptsOK, VaultOK
<1>4. NumbersOK
  BY DEF NumbersOK
<1>5. PlacesOK
  BY <1>2 DEF PlacesOK, CallOK, RecoveryOK
<1> QED
  BY <1>1, <1>3, <1>4, <1>5 DEF Inv

\* A job that has no number yet leaves one for the next revision.
LEMMA NumberLeft ==
  ASSUME TypeOK, NumbersOK, NEW j \in Jobs, row[j].next = 0
  PROVE  current + 1 \in 1..NJobs
<1>1. current \in 0..NJobs
  BY DEF TypeOK, Revisions
<1>2. SUFFICES ASSUME current = NJobs PROVE FALSE
  BY <1>1
<1> DEFINE S == 1..current
           T == Jobs \ {j}
           holder == [n \in S |-> CHOOSE k \in Jobs : row[k].next = n]
<1>3. \A n \in S : holder[n] \in Jobs /\ row[holder[n]].next = n
  BY DEF NumbersOK
<1>4. holder \in [S -> T]
  BY <1>1, <1>3
<1>5. IsFiniteSet(S) /\ Cardinality(S) = NJobs /\ IsFiniteSet(Jobs) /\ Cardinality(Jobs) = NJobs
  <2>1. IsFiniteSet(1..NJobs) /\ Cardinality(1..NJobs) = IF 1 > NJobs THEN 0 ELSE NJobs - 1 + 1
    BY FS_Interval
  <2> QED
    BY <1>2, <2>1 DEF Jobs
<1>6. IsFiniteSet(T) /\ Cardinality(T) = NJobs - 1
  BY <1>5, FS_RemoveElement
<1> HIDE DEF S, T, holder
<1>7. \E x, y \in S : x # y /\ holder[x] = holder[y]
  BY <1>4, <1>5, <1>6, FS_PigeonHole
<1> QED
  BY <1>3, <1>7
----------------------------------------------------------------------------

LEMMA WroteSame == ASSUME UNCHANGED writes PROVE UNCHANGED Wrote
BY DEF Wrote

LEMMA WroteMore ==
  ASSUME NEW j \in Jobs, writes \in Seq(Jobs), writes' = Append(writes, j)
  PROVE  Wrote' = Wrote \cup {j}
<1>1. DOMAIN writes' = 1..(Len(writes) + 1) /\ DOMAIN writes = 1..Len(writes) /\ Len(writes) \in Nat
  OBVIOUS
<1>2. writes'[Len(writes) + 1] = j /\ \A i \in 1..Len(writes) : writes'[i] = writes[i]
  BY <1>1
<1>3. \A x : x \in Wrote' <=> x \in Wrote \/ x = j
  <2> SUFFICES ASSUME NEW x PROVE x \in Wrote' <=> x \in Wrote \/ x = j
    OBVIOUS
  <2>1. x \in Wrote' <=> \E i \in 1..(Len(writes) + 1) : writes'[i] = x
    BY <1>1 DEF Wrote
  <2>2. x \in Wrote <=> \E i \in 1..Len(writes) : writes[i] = x
    BY <1>1 DEF Wrote
  <2> QED
    BY <1>1, <1>2, <2>1, <2>2
<1> QED
  BY <1>3
----------------------------------------------------------------------------

\* An activity that settles its job is a recovery back at rest or a call that is over.
LEMMA OverIs ==
  ASSUME NEW a \in Activities
  PROVE  /\ Over(a) \in Stage
         /\ a \in Procs => Over(a) = Idle
         /\ a \in Jobs => Over(a) = [Idle EXCEPT !.at = "over"]
BY DEF Over, ByRecovery, Idle, Stage, Stages, Activities, Pages

\* The job that an activity reports on is a job.
LEMMA WorksOnJob ==
  ASSUME TypeOK, PlacesOK, NEW a \in Activities,
         work[a].at \in {"prepared", "renamed", "looked", "receipt"}
  PROVE  work[a].job \in Jobs
<1>1. CASE a \in Jobs
  <2>1. CallOK(a)
    BY <1>1 DEF PlacesOK
  <2> QED
    BY <1>1, <2>1 DEF CallOK
<1>2. CASE a \in Procs
  <2>1. RecoveryOK(a)
    BY <1>2 DEF PlacesOK
  <2> QED
    BY <1>2, <2>1 DEF RecoveryOK
<1> QED
  BY <1>1, <1>2 DEF Activities

LEMMA RowTypes ==
  ASSUME TypeOK, NEW j \in Jobs
  PROVE  /\ \A s \in {"pending", "applying", "applied", "failed", "uncertain"}, b \in BOOLEAN :
              [row EXCEPT ![j].status = s, ![j].applied = b] \in [Jobs -> Rows]
         /\ \A s \in {"applied", "failed", "uncertain"} :
              [receipt EXCEPT ![j] = s] \in [Jobs -> {"none", "applied", "failed", "uncertain"}]
         /\ row[j].next \in 0..NJobs
<1>1. row \in [Jobs -> Rows] /\ row[j] \in Rows
  BY DEF TypeOK
<1>2. ASSUME NEW s \in {"pending", "applying", "applied", "failed", "uncertain"}, NEW b \in BOOLEAN
      PROVE  [row EXCEPT ![j].status = s, ![j].applied = b] \in [Jobs -> Rows]
  <2>1. [row[j] EXCEPT !.status = s, !.applied = b] \in Rows
    BY <1>1 DEF Rows
  <2> QED
    BY <1>1, <2>1
<1>3. receipt \in [Jobs -> {"none", "applied", "failed", "uncertain"}]
  BY DEF TypeOK
<1> QED
  BY <1>1, <1>2, <1>3 DEF Rows

LEMMA TypeStep ==
  ASSUME Inv, [Next]_vars
  PROVE  TypeOK'
<1> USE DEF Inv
<1> USE DEF TypeOK, Stage
<1>1. ASSUME NEW j \in Jobs, NEW p \in Procs, Resolve(j, p)
      PROVE  TypeOK'
  BY <1>1 DEF Resolve, catalog, vault, counts, Idle, Stage, Stages, Activities, Pages
<1>2. ASSUME NEW j \in Jobs, Prepare(j)
      PROVE  TypeOK'
  <2>1. current + 1 \in 1..NJobs
    BY <1>2, NumberLeft DEF Prepare, PlacesOK, CallOK
  <2>2. (IF current = 0 THEN None ELSE revs[current]) \in Pages
    BY DEF Pages
  <2>3. row' \in [Jobs -> Rows]
    BY <1>2, <2>1, <2>2 DEF Prepare, Rows
  <2>4. work' \in [Activities -> Stage]
    <3>1. work' = [work EXCEPT ![j].at = "prepared"]
      BY <1>2 DEF Prepare
    <3>2. work \in [Activities -> Stage] /\ j \in Activities
      BY DEF Activities
    <3>3. [work[j] EXCEPT !.at = "prepared"] \in Stage
      BY <3>2 DEF Stages
    <3> HIDE DEF TypeOK, Stage
    <3> QED
      BY <3>1, <3>2, <3>3
  <2> QED
    BY <1>2, <2>3, <2>4 DEF Prepare, vault, counts
<1>3. ASSUME NEW j \in Jobs, Rename(j)
      PROVE  TypeOK'
  <2>1. work' \in [Activities -> Stage]
    <3>1. work' = [work EXCEPT ![j].at = "renamed"]
      BY <1>3 DEF Rename
    <3>2. work \in [Activities -> Stage] /\ j \in Activities
      BY DEF Activities
    <3>3. [work[j] EXCEPT !.at = "renamed"] \in Stage
      BY <3>2 DEF Stages
    <3> HIDE DEF TypeOK, Stage
    <3> QED
      BY <3>1, <3>2, <3>3
  <2>2. page' \in Pages /\ redacted' \subseteq Jobs /\ writes' \in Seq(Jobs)
    BY <1>3 DEF Rename, Pages
  <2> QED
    BY <1>3, <2>1, <2>2 DEF Rename, catalog, counts
<1>4. ASSUME NEW j \in Jobs, WriteFails(j) \/ ReleaseFails(j) \/ CommitMismatch(j)
      PROVE  TypeOK'
  <2>1. j \in Activities
    BY DEF Activities
  <2>2. work' \in [Activities -> Stage]
    <3>1. work' = [work EXCEPT ![j] = Over(j)]
      BY <1>4 DEF WriteFails, ReleaseFails, CommitMismatch
    <3>2. Over(j) \in Stage
      BY <2>1, OverIs
    <3>3. PICK o \in Stage : o = Over(j)
      BY <3>2
    <3>4. work \in [Activities -> Stage]
      OBVIOUS
    <3> QED
      BY ONLY <3>1, <3>3, <3>4
  <2>3. row' \in [Jobs -> Rows] /\ receipt' \in [Jobs -> {"none", "applied", "failed", "uncertain"}]
    <3>1. \E st \in {"failed", "uncertain"} : SaveReceipt(j, st, FALSE)
      BY <1>4 DEF WriteFails, ReleaseFails, CommitMismatch
    <3>2. PICK st \in {"failed", "uncertain"} : /\ row' = [row EXCEPT ![j].status = st, ![j].applied = FALSE]
                                               /\ receipt' = [receipt EXCEPT ![j] = st]
      BY <3>1 DEF SaveReceipt
    <3> HIDE DEF TypeOK
    <3> QED
      BY <3>2, RowTypes
  <2>4. /\ UNCHANGED <<hub, todo, revs, current, page, redacted, writes, crashes, forgets>>
        /\ kept' \in {kept, kept \cup {j}}
    BY <1>4 DEF WriteFails, ReleaseFails, CommitMismatch, vault, counts
  <2> QED
    BY <2>2, <2>3, <2>4
<1>5. ASSUME NEW a \in Activities, Step(a)
      PROVE  TypeOK'
  <2>1. work[a].at \in {"prepared", "renamed", "looked", "receipt"}
    BY <1>5 DEF Step, Revise, ReviseFails, Receipt, Commits
  <2>2. work[a].job \in Jobs
    BY <2>1, WorksOnJob
  <2>3. CASE Revise(a)
    <3>1. row' \in [Jobs -> Rows]
      BY <2>2, <2>3, RowTypes DEF Revise, SaveJob
    <3>2. work' \in [Activities -> Stage]
      <4>1. work' = [work EXCEPT ![a] = [work[a] EXCEPT !.at = "receipt", !.applied = TRUE]]
        BY <2>3 DEF Revise
      <4>2. [work[a] EXCEPT !.at = "receipt", !.applied = TRUE] \in Stage
        <5>1. work[a] \in Stage
          OBVIOUS
        <5>2. [work[a] EXCEPT !.at = "receipt"] \in Stage
          BY <5>1 DEF Stages
        <5> HIDE DEF TypeOK
        <5> QED
          BY <5>1, <5>2 DEF Stages
      <4>3. work \in [Activities -> Stage]
        OBVIOUS
      <4> HIDE DEF Stage, TypeOK
      <4> QED
        BY <4>1, <4>2, <4>3
    <3>3. revs' \in [Revisions -> Pages]
      BY <2>2, <2>3 DEF Revise, Pages
    <3>4. current' \in {0} \cup Revisions
      <4>1. row[work[a].job].next \in 0..NJobs
        BY <2>2, RowTypes
      <4>2. current' \in {row[work[a].job].next, current}
        BY <2>3 DEF Revise
      <4> QED
        BY <4>1, <4>2 DEF Revisions
    <3> QED
      BY <2>3, <3>1, <3>2, <3>3, <3>4 DEF Revise, vault, counts
  <2>4. CASE ReviseFails(a)
    <3>1. work' \in [Activities -> Stage]
      BY <2>4, OverIs DEF ReviseFails
    <3>2. row' \in [Jobs -> Rows] /\ receipt' \in [Jobs -> {"none", "applied", "failed", "uncertain"}]
      <4>1. CASE SaveReceipt(work[a].job, "uncertain", TRUE)
        <5>1. row' = [row EXCEPT ![work[a].job].status = "uncertain", ![work[a].job].applied = TRUE]
          BY <4>1 DEF SaveReceipt
        <5>2. receipt' = [receipt EXCEPT ![work[a].job] = "uncertain"]
          BY <4>1 DEF SaveReceipt
        <5> HIDE DEF TypeOK
        <5> QED
          BY <2>2, <5>1, <5>2, RowTypes
      <4>2. CASE UNCHANGED <<row, receipt>>
        BY <4>2
      <4> QED
        BY <2>4, <4>1, <4>2 DEF ReviseFails
    <3> QED
      BY <2>4, <3>1, <3>2 DEF ReviseFails, vault, counts
  <2>5. CASE Receipt(a)
    <3>1. work' \in [Activities -> Stage]
      BY <2>5, OverIs DEF Receipt
    <3> QED
      BY <2>2, <2>5, <3>1, RowTypes DEF Receipt, SaveReceipt, vault, counts
  <2> QED
    BY <1>5, <2>3, <2>4, <2>5 DEF Step
<1>6. ASSUME NEW p \in Procs, Start(p)
      PROVE  TypeOK'
  BY <1>6 DEF Start, Applying, Rows, catalog, vault, counts
<1>7. ASSUME NEW p \in Procs, Look(p)
      PROVE  TypeOK'
  BY <1>7 DEF Look, catalog, vault, counts, Stage, Stages, Activities, Pages
<1>8. ASSUME NEW p \in Procs, Judge(p)
      PROVE  TypeOK'
  <2>1. work[p].at = "looked" /\ p \in Activities
    BY <1>8 DEF Judge, JudgeMissing, JudgeUntouched, JudgeConflict, Activities
  <2>2. work[p].job \in Jobs /\ work[p].applied \in BOOLEAN
    BY <2>1, WorksOnJob DEF Stage
  <2>3. [work EXCEPT ![p] = Idle] \in [Activities -> Stage]
    BY <2>1 DEF Idle, Stage, Stages, Pages
  <2>4. CASE JudgeMissing(p)
    BY <2>2, <2>3, <2>4, RowTypes DEF JudgeMissing, SaveJob, vault, counts
  <2>5. CASE JudgeUntouched(p)
    BY <2>2, <2>3, <2>5, RowTypes DEF JudgeUntouched, SaveJob, vault, counts
  <2>6. CASE JudgeConflict(p)
    BY <2>2, <2>3, <2>6, RowTypes DEF JudgeConflict, SaveReceipt, vault, counts
  <2> QED
    BY <1>8, <2>4, <2>5, <2>6 DEF Judge
<1>9. ASSUME NEW p \in Procs, Ready(p) \/ Remove(p)
      PROVE  TypeOK'
  BY <1>9 DEF Ready, Remove, process, catalog, vault, counts, Pages
<1>10. ASSUME NEW p \in Procs, Crash(p) \/ Quit(p)
       PROVE  TypeOK'
  <2>1. Down(p) /\ crashes' \in Nat
    BY <1>10 DEF Crash, Quit
  <2>2. work' \in [Activities -> Stage]
    BY <2>1, OverIs DEF Down
  <2>3. /\ DOMAIN todo' = Procs
        /\ \A q \in Procs : /\ DOMAIN todo'[q] \subseteq Jobs
                            /\ \A j \in DOMAIN todo'[q] : todo'[q][j] \in BOOLEAN
    BY <2>1 DEF Down
  <2> QED
    BY <2>1, <2>2, <2>3 DEF Down, catalog, vault
<1>11. CASE UNCHANGED vars
  BY <1>11 DEF vars, process, catalog, vault, counts
<1> QED
  BY <1>1, <1>2, <1>3, <1>4, <1>5, <1>6, <1>7, <1>8, <1>9, <1>10, <1>11 DEF Next, Recover,
     Activities
----------------------------------------------------------------------------

\* What every step leaves of the numbers: a number given is kept.
LEMMA RowNumbers ==
  ASSUME TypeOK, NEW j \in Jobs, NEW s, NEW b, SaveJob(j, s, b)
  PROVE  \A k \in Jobs : row'[k].next = row[k].next
BY DEF TypeOK, SaveJob, Rows

\* A step that writes no page, settles no receipt and keeps the numbers and the
\* pointer has only the places of its activities to answer for.
LEMMA QuietStep ==
  ASSUME Inv, UNCHANGED <<writes, receipt, current, kept>>, page' \in {page, None},
         \A k \in Jobs : row'[k].next = row[k].next, PlacesOK'
  PROVE  ReceiptsOK' /\ VaultOK' /\ NumbersOK' /\ PlacesOK'
<1>1. UNCHANGED Wrote
  BY WroteSame
<1>2. ReceiptsOK' /\ VaultOK'
  BY <1>1 DEF Inv, ReceiptsOK, VaultOK
<1>3. NumbersOK'
  BY DEF Inv, NumbersOK
<1> QED
  BY <1>2, <1>3

\* The call of a job ends, or a recovery returns to rest, with a receipt.
LEMMA SettleStep ==
  ASSUME Inv, NEW a \in Activities, NEW j \in Jobs, NEW s \in {"applied", "failed", "uncertain"},
         UNCHANGED <<writes, current, page>>,
         \A k \in Jobs : row'[k].next = row[k].next,
         receipt' = [receipt EXCEPT ![j] = s], work' = [work EXCEPT ![a] = Over(a)],
         kept' \in {kept, kept \cup {j}}, kept' \subseteq Wrote, s # "failed" => UNCHANGED kept,
         s = "applied" => j \in Wrote,
         s = "failed" => a = j /\ (j \in Wrote <=> j \in kept')
  PROVE  ReceiptsOK' /\ VaultOK' /\ NumbersOK' /\ PlacesOK'
<1> USE DEF Inv
<1>1. UNCHANGED Wrote
  BY WroteSame
<1>2. receipt \in [Jobs -> {"none", "applied", "failed", "uncertain"}] /\ work \in [Activities -> Stage]
  BY DEF TypeOK, Stage
<1>3. ReceiptsOK' /\ VaultOK'
  BY <1>1, <1>2 DEF ReceiptsOK, VaultOK
<1>4. NumbersOK'
  BY DEF NumbersOK
<1>5. ASSUME NEW k \in Jobs PROVE CallOK(k)'
  <2>1. CallOK(k) /\ k \in Activities
    BY DEF PlacesOK, Activities
  <2>2. CASE k = a
    <3>1. work'[k].at = "over"
      BY <1>2, <2>2, OverIs DEF Idle
    <3> QED
      BY <3>1 DEF CallOK
  <2>3. CASE k # a
    <3>1. work'[k] = work[k] /\ (receipt'[k] = "failed" => receipt[k] = "failed")
      BY <1>2, <2>1, <2>3
    <3> QED
      BY <1>1, <2>1, <3>1 DEF CallOK
  <2> QED
    BY <2>2, <2>3
<1>6. ASSUME NEW p \in Procs PROVE RecoveryOK(p)'
  <2>1. RecoveryOK(p) /\ p \in Activities
    BY DEF PlacesOK, Activities
  <2>2. CASE p = a
    <3>1. work'[p] = Idle
      BY <1>2, <2>2, OverIs
    <3> QED
      BY <3>1 DEF RecoveryOK, Idle
  <2>3. CASE p # a
    <3>1. work'[p] = work[p]
      BY <1>2, <2>1, <2>3
    <3> QED
      BY <1>1, <2>1, <3>1 DEF RecoveryOK
  <2> QED
    BY <2>2, <2>3
<1> QED
  BY <1>3, <1>4, <1>5, <1>6 DEF PlacesOK

\* An activity past the rename, or one that found its job's page, works on a job that wrote.
LEMMA CommitsWritten ==
  ASSUME Inv, NEW a \in Activities, Commits(a) \/ work[a].at = "receipt"
  PROVE  work[a].job \in Jobs /\ work[a].job \in Wrote
<1> USE DEF Inv
<1>1. work[a].job \in Jobs
  BY WorksOnJob DEF Commits
<1>2. CASE a \in Jobs
  <2>1. CallOK(a) /\ ~ByRecovery(a)
    BY <1>2 DEF PlacesOK, ByRecovery
  <2> QED
    BY <1>1, <1>2, <2>1 DEF CallOK, Commits
<1>3. CASE a \in Procs
  <2>1. RecoveryOK(a) /\ ByRecovery(a)
    BY <1>3 DEF PlacesOK, ByRecovery
  <2> QED
    BY <1>1, <2>1 DEF RecoveryOK, Commits, Planned
<1> QED
  BY <1>2, <1>3 DEF Activities

----------------------------------------------------------------------------

LEMMA CallStep ==
  ASSUME Inv, NEW j \in Jobs,
         (\E p \in Procs : Resolve(j, p)) \/ Prepare(j) \/ Rename(j)
         \/ WriteFails(j) \/ ReleaseFails(j) \/ CommitMismatch(j)
  PROVE  ReceiptsOK' /\ VaultOK' /\ NumbersOK' /\ PlacesOK'
<1> USE DEF Inv
<1>0. /\ j \in Activities /\ j \notin Procs /\ CallOK(j)
      /\ work \in [Activities -> Stage] /\ row \in [Jobs -> Rows]
  BY DEF Activities, PlacesOK, TypeOK, Stage
<1>1. ASSUME NEW p \in Procs, Resolve(j, p)
      PROVE  ReceiptsOK' /\ VaultOK' /\ NumbersOK' /\ PlacesOK'
  <2>1. UNCHANGED <<writes, receipt, current, kept, page, row>>
    BY <1>1 DEF Resolve, catalog, vault
  <2>2. UNCHANGED Wrote
    BY <2>1, WroteSame
  <2>3. CallOK(j)'
    BY <1>0, <1>1, <2>1, <2>2 DEF Resolve, CallOK, Idle
  <2>4. \A x \in Activities \ {j} : work'[x] = work[x]
    BY <1>0, <1>1 DEF Resolve
  <2>5. \A k \in Jobs \ {j} : CallOK(k)'
    BY <2>1, <2>2, <2>4 DEF PlacesOK, CallOK, Activities
  <2>6. \A q \in Procs : RecoveryOK(q)'
    BY <1>0, <2>1, <2>2, <2>4 DEF PlacesOK, RecoveryOK, Activities
  <2> QED
    BY <2>1, <2>3, <2>5, <2>6, QuietStep DEF PlacesOK
<1>2. CASE Prepare(j)
  <2>1. UNCHANGED <<writes, receipt, current, kept, page>> /\ UNCHANGED Wrote
    BY <1>2, WroteSame DEF Prepare, vault
  <2>2. \A k \in Jobs : row'[k].next = IF k = j THEN current + 1 ELSE row[k].next
    BY <1>0, <1>2 DEF Prepare
  <2>3. row[j].next = 0 /\ current \in Nat
    BY <1>2 DEF PlacesOK, CallOK, Prepare, TypeOK, Revisions
  <2>4. NumbersOK'
    <3>1. ASSUME NEW n \in 1..current PROVE \E k \in Jobs : row'[k].next = n
      <4>1. PICK k \in Jobs : row[k].next = n
        BY DEF NumbersOK
      <4>2. k # j
        BY <2>3, <4>1
      <4> QED
        BY <2>2, <4>1, <4>2
    <3>2. \A k \in Jobs : row'[k].next <= current + 1
      BY <2>2, <2>3 DEF NumbersOK
    <3> QED
      BY <2>1, <3>1, <3>2 DEF NumbersOK
  <2>5. CallOK(j)'
    BY <1>0, <1>2, <2>1, <2>2 DEF Prepare, CallOK
  <2>6. \A x \in Activities \ {j} : work'[x] = work[x]
    BY <1>0, <1>2 DEF Prepare
  <2>7. \A k \in Jobs \ {j} : CallOK(k)'
    BY <2>1, <2>2, <2>6 DEF PlacesOK, CallOK, Activities
  <2>8. \A q \in Procs : RecoveryOK(q)'
    BY <1>0, <2>1, <2>6 DEF PlacesOK, RecoveryOK, Activities
  <2> QED
    BY <2>1, <2>4, <2>5, <2>7, <2>8 DEF PlacesOK, ReceiptsOK, VaultOK
<1>3. CASE Rename(j)
  <2>1. UNCHANGED <<receipt, current, kept, row>> /\ page' = j
    BY <1>3 DEF Rename, catalog
  <2>2. Wrote' = Wrote \cup {j}
    BY <1>3, WroteMore DEF Rename, TypeOK
  <2>3. receipt[j] # "failed"
    BY <1>0, <1>3 DEF CallOK, Rename
  <2>4. ReceiptsOK' /\ VaultOK'
    BY <2>1, <2>2, <2>3 DEF ReceiptsOK, VaultOK
  <2>5. NumbersOK'
    BY <2>1 DEF NumbersOK
  <2>6. CallOK(j)'
    BY <1>0, <1>3, <2>1, <2>2 DEF Rename, CallOK
  <2>7. \A x \in Activities \ {j} : work'[x] = work[x]
    BY <1>0, <1>3 DEF Rename
  <2>8. \A k \in Jobs \ {j} : CallOK(k)'
    BY <2>1, <2>2, <2>7 DEF PlacesOK, CallOK, Activities
  <2>9. \A q \in Procs : RecoveryOK(q)'
    BY <1>0, <2>2, <2>7 DEF PlacesOK, RecoveryOK, Activities
  <2> QED
    BY <2>4, <2>5, <2>6, <2>8, <2>9 DEF PlacesOK
<1>4. CASE WriteFails(j)
  <2>1. j \notin Wrote
    BY <1>0, <1>4 DEF CallOK, WriteFails
  <2>4. j \notin kept /\ kept \subseteq Wrote
    BY <2>1 DEF VaultOK
  <2>2. SaveJob(j, "failed", FALSE) /\ receipt' = [receipt EXCEPT ![j] = "failed"]
    BY <1>4 DEF WriteFails, SaveReceipt, SaveJob
  <2>3. UNCHANGED <<writes, current, kept, page>> /\ work' = [work EXCEPT ![j] = Over(j)]
    BY <1>4 DEF WriteFails, vault
  <2> QED
    BY <1>0, <2>1, <2>2, <2>3, <2>4, RowNumbers, SettleStep
<1>6. CASE ReleaseFails(j)
  <2>1. j \in Wrote /\ kept' = kept \cup {j}
    BY <1>0, <1>6 DEF CallOK, ReleaseFails
  <2>2. SaveJob(j, "failed", FALSE) /\ receipt' = [receipt EXCEPT ![j] = "failed"]
    BY <1>6 DEF ReleaseFails, SaveReceipt, SaveJob
  <2>3. UNCHANGED <<writes, current, page>> /\ work' = [work EXCEPT ![j] = Over(j)]
    BY <1>6 DEF ReleaseFails
  <2>4. j \in kept' /\ kept' \subseteq Wrote
    BY <2>1 DEF VaultOK
  <2> QED
    BY <1>0, <2>1, <2>2, <2>3, <2>4, RowNumbers, SettleStep
<1>5. CASE CommitMismatch(j)
  <2>1. SaveJob(j, "uncertain", FALSE) /\ receipt' = [receipt EXCEPT ![j] = "uncertain"]
    BY <1>5 DEF CommitMismatch, SaveReceipt, SaveJob
  <2>2. UNCHANGED <<writes, current, kept, page>> /\ work' = [work EXCEPT ![j] = Over(j)]
    BY <1>5 DEF CommitMismatch, vault
  <2> QED
    BY <1>0, <2>1, <2>2, RowNumbers, SettleStep DEF VaultOK
<1> QED
  BY <1>1, <1>2, <1>3, <1>4, <1>5, <1>6

LEMMA CommitStep ==
  ASSUME Inv, NEW a \in Activities, Step(a)
  PROVE  ReceiptsOK' /\ VaultOK' /\ NumbersOK' /\ PlacesOK'
<1> USE DEF Inv
<1>0. /\ work[a].job \in Jobs /\ work[a].job \in Wrote
      /\ work \in [Activities -> Stage]
  BY CommitsWritten DEF Step, Revise, ReviseFails, Receipt, TypeOK, Stage
<1>1. CASE Revise(a)
  <2>1. UNCHANGED <<writes, receipt, kept, page>> /\ UNCHANGED Wrote
    BY <1>1, WroteSame DEF Revise, vault
  <2>2. \A k \in Jobs : row'[k].next = row[k].next
    BY <1>0, <1>1, RowNumbers DEF Revise
  <2>3. NumbersOK'
    <3>1. current \in Nat /\ row[work[a].job].next \in Nat /\ \A k \in Jobs : row[k].next \in Nat
      BY <1>0 DEF TypeOK, Rows, Revisions
    <3>2. current' = IF row[work[a].job].next >= current THEN row[work[a].job].next ELSE current
      BY <1>1 DEF Revise
    <3>3. row[work[a].job].next <= current + 1
      BY <1>0 DEF NumbersOK
    <3>4. ASSUME NEW n \in 1..current' PROVE \E k \in Jobs : row'[k].next = n
      <4>1. CASE n \in 1..current
        BY <2>2, <4>1 DEF NumbersOK
      <4>2. CASE n \notin 1..current
        <5>1. n = row[work[a].job].next
          BY <3>1, <3>2, <3>3, <4>2
        <5> QED
          BY <1>0, <2>2, <5>1
      <4> QED
        BY <4>1, <4>2
    <3>5. ASSUME NEW k \in Jobs PROVE row'[k].next <= current' + 1
      <4>1. row[k].next <= current + 1
        BY DEF NumbersOK
      <4> QED
        BY <2>2, <3>1, <3>2, <4>1
    <3> QED
      BY <3>4, <3>5 DEF NumbersOK
  <2>4. \A x \in Activities \ {a} : work'[x] = work[x]
    BY <1>0, <1>1 DEF Revise
  <2>5. work'[a].at = "receipt" /\ work'[a].job = work[a].job
    BY <1>0, <1>1 DEF Revise, Stage
  <2>6. ASSUME NEW k \in Jobs PROVE CallOK(k)'
    <3>1. CallOK(k) /\ k \in Activities
      BY DEF PlacesOK, Activities
    <3>2. CASE k = a
      <4>1. work[k].at = "renamed"
        BY <1>1, <3>2 DEF Revise, Commits, ByRecovery
      <4> QED
        BY <2>1, <2>5, <3>1, <3>2, <4>1 DEF CallOK
    <3>3. CASE k # a
      BY <2>1, <2>2, <2>4, <3>1, <3>3 DEF CallOK
    <3> QED
      BY <3>2, <3>3
  <2>7. ASSUME NEW p \in Procs PROVE RecoveryOK(p)'
    <3>1. RecoveryOK(p) /\ p \in Activities
      BY DEF PlacesOK, Activities
    <3>2. CASE p = a
      BY <1>0, <2>1, <2>5, <3>2 DEF RecoveryOK
    <3>3. CASE p # a
      BY <2>1, <2>4, <3>1, <3>3 DEF RecoveryOK
    <3> QED
      BY <3>2, <3>3
  <2> QED
    BY <2>1, <2>3, <2>6, <2>7 DEF PlacesOK, ReceiptsOK, VaultOK
<1>2. CASE ReviseFails(a)
  <2>1. UNCHANGED <<writes, current, kept, page>> /\ work' = [work EXCEPT ![a] = Over(a)]
    BY <1>2 DEF ReviseFails, vault
  <2>2. CASE SaveReceipt(work[a].job, "uncertain", TRUE)
    <3>1. SaveJob(work[a].job, "uncertain", TRUE) /\ receipt' = [receipt EXCEPT ![work[a].job] = "uncertain"]
      BY <2>2 DEF SaveReceipt, SaveJob
    <3>2. \A k \in Jobs : row'[k].next = row[k].next
      BY <1>0, <3>1, RowNumbers
    <3> DEFINE j == work[a].job
    <3>3. j \in Jobs /\ receipt' = [receipt EXCEPT ![j] = "uncertain"]
      BY <1>0, <3>1
    <3> HIDE DEF j
    <3> QED
      BY <2>1, <3>2, <3>3, SettleStep DEF VaultOK
  <2>3. CASE UNCHANGED <<row, receipt>> /\ a \in Procs
    <3>1. UNCHANGED Wrote
      BY <2>1, WroteSame
    <3>2. work'[a] = Idle /\ \A x \in Activities \ {a} : work'[x] = work[x]
      BY <1>0, <2>1, <2>3, OverIs
    <3>3. ASSUME NEW k \in Jobs PROVE CallOK(k)'
      <4>1. CallOK(k) /\ work'[k] = work[k]
        BY <2>3, <3>2 DEF PlacesOK, Activities
      <4> QED
        BY <2>3, <3>1, <4>1 DEF CallOK
    <3>4. ASSUME NEW p \in Procs PROVE RecoveryOK(p)'
      <4>1. RecoveryOK(p) /\ (work'[p] = work[p] \/ work'[p] = Idle)
        BY <3>2 DEF PlacesOK, Activities
      <4> QED
        BY <3>1, <4>1 DEF RecoveryOK, Idle
    <3> QED
      BY <2>1, <2>3, <3>3, <3>4, QuietStep DEF PlacesOK
  <2> QED
    BY <1>2, <2>2, <2>3 DEF ReviseFails, ByRecovery
<1>3. CASE Receipt(a)
  <2>1. SaveJob(work[a].job, "applied", TRUE) /\ receipt' = [receipt EXCEPT ![work[a].job] = "applied"]
    BY <1>3 DEF Receipt, SaveReceipt, SaveJob
  <2>2. UNCHANGED <<writes, current, kept, page>> /\ work' = [work EXCEPT ![a] = Over(a)]
    BY <1>3 DEF Receipt, vault
  <2>3. \A k \in Jobs : row'[k].next = row[k].next
    BY <1>0, <2>1, RowNumbers
  <2> DEFINE j == work[a].job
  <2>4. j \in Jobs /\ j \in Wrote /\ receipt' = [receipt EXCEPT ![j] = "applied"]
    BY <1>0, <2>1
  <2> HIDE DEF j
  <2> QED
    BY <2>2, <2>3, <2>4, SettleStep DEF VaultOK
<1> QED
  BY <1>1, <1>2, <1>3 DEF Step

LEMMA RecoverStep ==
  ASSUME Inv, NEW p \in Procs, Look(p) \/ Judge(p)
  PROVE  ReceiptsOK' /\ VaultOK' /\ NumbersOK' /\ PlacesOK'
<1> USE DEF Inv
<1>0. /\ p \in Activities /\ p \notin Jobs /\ RecoveryOK(p) /\ Over(p) = Idle
      /\ work \in [Activities -> Stage]
  BY OverIs DEF Activities, PlacesOK, TypeOK, Stage
<1>1. ASSUME UNCHANGED <<writes, receipt, current, kept, page>>, \A k \in Jobs : row'[k].next = row[k].next,
             \A x \in Activities \ {p} : work'[x] = work[x], RecoveryOK(p)'
      PROVE  ReceiptsOK' /\ VaultOK' /\ NumbersOK' /\ PlacesOK'
  <2>1. UNCHANGED Wrote
    BY <1>1, WroteSame
  <2>2. ASSUME NEW k \in Jobs PROVE CallOK(k)'
    <3>1. CallOK(k) /\ work'[k] = work[k]
      BY <1>0, <1>1 DEF PlacesOK, Activities
    <3> QED
      BY <1>1, <2>1, <3>1 DEF CallOK
  <2>3. ASSUME NEW q \in Procs, q # p PROVE RecoveryOK(q)'
    <3>1. RecoveryOK(q) /\ work'[q] = work[q]
      BY <1>1, <2>3 DEF PlacesOK, Activities
    <3> QED
      BY <2>1, <3>1 DEF RecoveryOK
  <2> QED
    BY <1>1, <2>2, <2>3, QuietStep DEF PlacesOK
<1>2. CASE Look(p)
  <2>1. UNCHANGED <<writes, receipt, current, kept, page, row>> /\ UNCHANGED Wrote
    BY <1>2, WroteSame DEF Look, catalog, vault
  <2>2. \A x \in Activities \ {p} : work'[x] = work[x]
    BY <1>0, <1>2 DEF Look
  <2>3. work'[p].at = "looked" /\ work'[p].job \in Jobs /\ work'[p].saw = page
    BY <1>0, <1>2 DEF Look, TypeOK
  <2>4. RecoveryOK(p)'
    BY <2>1, <2>3 DEF RecoveryOK, VaultOK
  <2> QED
    BY <1>1, <2>1, <2>2, <2>4
<1>3. CASE JudgeMissing(p) \/ JudgeUntouched(p)
  <2>1. work[p].job \in Jobs
    BY <1>0, <1>3 DEF RecoveryOK, JudgeMissing, JudgeUntouched
  <2>2. \E s, b : SaveJob(work[p].job, s, b)
    BY <1>3 DEF JudgeMissing, JudgeUntouched
  <2>3. \A k \in Jobs : row'[k].next = row[k].next
    BY <2>1, <2>2, RowNumbers
  <2>4. UNCHANGED <<writes, receipt, current, kept, page>> /\ work' = [work EXCEPT ![p] = Idle]
    BY <1>3 DEF JudgeMissing, JudgeUntouched, vault
  <2>5. RecoveryOK(p)'
    BY <1>0, <2>4 DEF RecoveryOK, Idle
  <2>6. \A x \in Activities \ {p} : work'[x] = work[x]
    BY <1>0, <2>4
  <2> QED
    BY <1>1, <2>3, <2>4, <2>5, <2>6
<1>4. CASE JudgeConflict(p)
  <2> DEFINE j == work[p].job
  <2>1. j \in Jobs
    BY <1>0, <1>4 DEF RecoveryOK, JudgeConflict
  <2>2. SaveJob(j, "uncertain", work[p].applied) /\ receipt' = [receipt EXCEPT ![j] = "uncertain"]
    BY <1>4 DEF JudgeConflict, SaveReceipt, SaveJob
  <2>3. UNCHANGED <<writes, current, kept, page>> /\ work' = [work EXCEPT ![p] = Over(p)]
    BY <1>0, <1>4 DEF JudgeConflict, vault
  <2>4. \A k \in Jobs : row'[k].next = row[k].next
    BY <2>1, <2>2, RowNumbers
  <2> HIDE DEF j
  <2> QED
    BY <1>0, <2>1, <2>2, <2>3, <2>4, SettleStep DEF VaultOK
<1> QED
  BY <1>2, <1>3, <1>4 DEF Judge

LEMMA HubStep ==
  ASSUME Inv, NEW p \in Procs, Start(p) \/ Ready(p) \/ Remove(p) \/ Crash(p) \/ Quit(p)
  PROVE  ReceiptsOK' /\ VaultOK' /\ NumbersOK' /\ PlacesOK'
<1> USE DEF Inv
<1>1. UNCHANGED <<writes, receipt, current, kept, row>> /\ page' \in {page, None}
  BY DEF Start, Ready, Remove, Crash, Quit, Down, catalog, vault
<1>2. UNCHANGED Wrote
  BY <1>1, WroteSame
<1>3. \A x \in Activities : work'[x] = work[x] \/ work'[x] = Over(x)
  BY DEF Start, Ready, Remove, Crash, Quit, Down, process
<1>4. ASSUME NEW k \in Jobs PROVE CallOK(k)'
  <2>1. CallOK(k) /\ k \in Activities
    BY DEF PlacesOK, Activities
  <2>2. CASE work'[k] = work[k]
    BY <1>1, <1>2, <2>1, <2>2 DEF CallOK
  <2>3. CASE work'[k] = Over(k)
    <3>1. work'[k].at = "over"
      BY <2>1, <2>3, OverIs DEF Idle
    <3> QED
      BY <3>1 DEF CallOK
  <2> QED
    BY <1>3, <2>1, <2>2, <2>3
<1>5. ASSUME NEW q \in Procs PROVE RecoveryOK(q)'
  <2>1. RecoveryOK(q) /\ q \in Activities
    BY DEF PlacesOK, Activities
  <2>2. CASE work'[q] = work[q]
    BY <1>2, <2>1, <2>2 DEF RecoveryOK
  <2>3. CASE work'[q] = Idle
    BY <2>3 DEF RecoveryOK, Idle
  <2> QED
    BY <1>3, <2>1, <2>2, <2>3, OverIs
<1> QED
  BY <1>1, <1>4, <1>5, QuietStep DEF PlacesOK

LEMMA InvStep == Inv /\ [Next]_vars => Inv'
<1> SUFFICES ASSUME Inv, [Next]_vars PROVE Inv'
  OBVIOUS
<1>1. TypeOK'
  BY TypeStep
<1>2. CASE UNCHANGED vars
  <2>1. UNCHANGED <<work, row, receipt, current, kept, page, writes>> /\ UNCHANGED Wrote
    BY <1>2, WroteSame DEF vars, process, catalog, vault
  <2>2. PlacesOK'
    BY <2>1 DEF Inv, PlacesOK, CallOK, RecoveryOK
  <2> QED
    BY <1>1, <2>1, <2>2, QuietStep DEF Inv
<1>3. CASE Next
  BY <1>1, <1>3, CallStep, CommitStep, RecoverStep, HubStep DEF Next, Recover, Inv, Activities
<1> QED
  BY <1>2, <1>3

----------------------------------------------------------------------------

LEMMA Invariance == Spec => []Inv
<1>1. Init => Inv
  BY InitInv
<1>2. Inv /\ [Next]_vars => Inv'
  BY InvStep
<1> QED
  BY <1>1, <1>2, PTL DEF Spec

\* The state of the catalog, the vault and the processes is well formed; in particular a
\* revision number never exceeds the number of jobs.
THEOREM TypeCorrect == Spec => []TypeOK
<1>1. Inv => TypeOK
  BY DEF Inv
<1> QED
  BY <1>1, Invariance, PTL

\* No receipt says more or less of the vault than happened, for any number of jobs,
\* processes and crashes: applied is written; failed is not written, but for the jobs whose
\* lock could not be given back after the rename, and of those it says so wrongly.
THEOREM ReceiptsAreTrue == Spec => []ReceiptsTellTheTruth
<1>1. Inv => ReceiptsTellTheTruth
  <2>1. \A j \in Jobs : Written(j) <=> j \in Wrote
    BY DEF Written, Wrote
  <2> QED
    BY <2>1 DEF Inv, ReceiptsOK, ReceiptsTellTheTruth
<1> QED
  BY <1>1, Invariance, PTL

----------------------------------------------------------------------------
(* The chain of revisions against the order of the writes *)

\* Wherever i and j are among the writes, i is before j.
Before(i, j) ==
  \A a, b \in DOMAIN writes : writes[a] = i /\ writes[b] = j => a < b

WroteOnce == \A a, b \in DOMAIN writes : writes[a] = writes[b] => a = b

\* The numbers in use are those up to the current one, each of a job that wrote under it.
ChainOK ==
  /\ \A n \in Revisions : revs[n] # None <=> n <= current
  /\ \A n \in 1..current : revs[n] \in Wrote /\ row[revs[n]].next = n

\* A job chose its number when all lower ones were in use, and wrote after it chose.
NumbersChosenFirst ==
  \A j \in Wrote, m \in 1..current : m < row[j].next => Before(revs[m], j)

\* A job has its number before it writes.
WritersNumbered ==
  \A j \in Jobs : j \in Wrote \/ work[j].at = "prepared" => row[j].next # 0

OrderInv == WroteOnce /\ ChainOK /\ NumbersChosenFirst /\ WritersNumbered

\* A step that writes no page, records no revision and gives no number but to a job
\* that has not written keeps the order.
LEMMA OrderKept ==
  ASSUME Inv, OrderInv, UNCHANGED <<writes, revs, current>>,
         \A k \in Wrote : row'[k].next = row[k].next, WritersNumbered'
  PROVE  OrderInv'
<1>1. UNCHANGED Wrote
  BY WroteSame
<1>2. WroteOnce' /\ ChainOK'
  BY <1>1 DEF OrderInv, WroteOnce, ChainOK
<1>3. ASSUME NEW j \in Wrote', NEW m \in 1..current', m < row'[j].next
      PROVE  Before(revs[m], j)'
  <2>1. Before(revs[m], j)
    BY <1>1, <1>3 DEF OrderInv, NumbersChosenFirst
  <2> QED
    BY <2>1 DEF Before
<1> QED
  BY <1>2, <1>3 DEF OrderInv, NumbersChosenFirst

\* A job that writes does so after all that wrote before it.
LEMMA RenameOrder ==
  ASSUME Inv, OrderInv, NEW j \in Jobs, Rename(j)
  PROVE  OrderInv'
<1>1. /\ j \notin Wrote /\ writes \in Seq(Jobs) /\ writes' = Append(writes, j)
      /\ UNCHANGED <<row, revs, current>>
  BY DEF Rename, Inv, TypeOK, PlacesOK, CallOK, catalog
<1>2. Wrote' = Wrote \cup {j}
  BY <1>1, WroteMore
<1>3. /\ DOMAIN writes = 1..Len(writes) /\ Len(writes) \in Nat
      /\ DOMAIN writes' = 1..(Len(writes) + 1)
      /\ writes'[Len(writes) + 1] = j
      /\ \A a \in DOMAIN writes : writes'[a] = writes[a] /\ writes[a] # j
  BY <1>1 DEF Wrote
<1>4. ASSUME NEW a \in DOMAIN writes'
      PROVE  \/ a \in DOMAIN writes /\ writes'[a] = writes[a] /\ writes'[a] # j
             \/ a = Len(writes) + 1 /\ writes'[a] = j
  <2>1. a \in DOMAIN writes \/ a = Len(writes) + 1
    BY <1>3
  <2> QED
    BY <1>3, <2>1
<1>5. WroteOnce'
  BY <1>4 DEF OrderInv, WroteOnce
<1>6. ChainOK'
  BY <1>1, <1>2 DEF OrderInv, ChainOK
<1>7. ASSUME NEW k \in Wrote', NEW m \in 1..current', m < row'[k].next
      PROVE  Before(revs[m], k)'
  <2>1. revs[m] \in Wrote /\ revs[m] # j
    BY <1>1, <1>7 DEF OrderInv, ChainOK
  <2> SUFFICES ASSUME NEW a \in DOMAIN writes', NEW b \in DOMAIN writes',
                      writes'[a] = revs[m], writes'[b] = k
               PROVE  a < b
    BY <1>1 DEF Before
  <2>2. a \in DOMAIN writes /\ writes[a] = revs[m]
    BY <1>4, <2>1
  <2>3. CASE k = j
    <3>1. b = Len(writes) + 1
      BY <1>4, <2>3
    <3> QED
      BY <1>3, <2>2, <3>1
  <2>4. CASE k # j
    <3>1. b \in DOMAIN writes /\ writes[b] = k /\ k \in Wrote
      BY <1>2, <1>4, <2>4
    <3>2. Before(revs[m], k)
      BY <1>1, <1>7, <3>1 DEF OrderInv, NumbersChosenFirst
    <3> QED
      BY <2>2, <3>1, <3>2 DEF Before
  <2> QED
    BY <2>3, <2>4
<1>8. WritersNumbered'
  <2>1. \A k \in Jobs : work'[k].at = "prepared" => work[k].at = "prepared"
    BY DEF Rename, Inv, TypeOK, Activities
  <2>2. work[j].at = "prepared"
    BY DEF Rename
  <2> QED
    BY <1>1, <1>2, <2>1, <2>2 DEF OrderInv, WritersNumbered
<1> QED
  BY <1>5, <1>6, <1>7, <1>8 DEF OrderInv, NumbersChosenFirst

\* A revision is recorded under the next number, or was recorded before.
LEMMA ReviseOrder ==
  ASSUME Inv, OrderInv, NEW a \in Activities, Revise(a)
  PROVE  OrderInv'
<1> DEFINE j == work[a].job
           n == row[j].next
<1>1. j \in Jobs /\ j \in Wrote
  BY CommitsWritten DEF Revise
<1>2. /\ n \in Nat /\ n <= NJobs /\ n <= current + 1 /\ current \in Nat /\ current <= NJobs
      /\ \A k \in Jobs : row[k].next \in Nat /\ row[k].next <= current + 1
  <2>1. \A k \in Jobs : row[k].next \in 0..NJobs
    BY RowTypes DEF Inv
  <2> QED
    BY <1>1, <2>1 DEF Inv, NumbersOK, TypeOK, Revisions
<1>3. n # 0
  BY <1>1 DEF OrderInv, WritersNumbered
<1>4. /\ UNCHANGED writes /\ UNCHANGED Wrote
      /\ \A k \in Jobs : row'[k].next = row[k].next
      /\ revs' = IF Taken(j) THEN revs ELSE [revs EXCEPT ![n] = j]
      /\ current' = IF n >= current THEN n ELSE current
      /\ ~Conflicting(j)
  BY <1>1, RowNumbers, WroteSame DEF Revise, vault, Inv
<1>5. revs \in [Revisions -> Pages] /\ n \in Revisions
  BY <1>2, <1>3 DEF Inv, TypeOK, Revisions
<1>6. \A k \in Wrote : k # None
  BY DEF Wrote, Inv, TypeOK
<1>9. WritersNumbered'
  <2>1. \A k \in Jobs : work'[k] = work[k] \/ work'[k].at = "receipt"
    <3>1. work \in [Activities -> Stage] /\ work' = [work EXCEPT ![a].at = "receipt", ![a].applied = TRUE]
      BY DEF Revise, Inv, TypeOK, Stage
    <3>2. \A k \in Jobs : k \in Activities
      BY DEF Activities
    <3> QED
      BY <3>1, <3>2 DEF Stage
  <2> QED
    BY <1>4, <2>1 DEF OrderInv, WritersNumbered
<1> HIDE DEF j, n
<1>7. CASE n = current + 1
  <2>1. revs[n] = None
    BY <1>2, <1>5, <1>7 DEF OrderInv, ChainOK
  <2>2. current' = n /\ revs' = [revs EXCEPT ![n] = j]
    BY <1>2, <1>4, <1>7, <2>1 DEF Taken, n
  <2>3. /\ revs'[n] = j
        /\ \A m \in Revisions : m # n => revs'[m] = revs[m]
    BY <1>5, <2>2
  <2> DEFINE Seen == 1..current
  <2>4. current' \in Nat /\ 1..current' = Seen \cup {n} /\ Seen \subseteq Revisions
        /\ n \notin Seen /\ \A k \in Jobs : ~(n < row'[k].next)
        /\ \A m \in Revisions : m <= current' <=> m <= current \/ m = n
    BY <1>2, <1>4, <1>7, <2>2 DEF Revisions
  <2> HIDE DEF Seen
  <2>5. ChainOK'
    <3>1. \A m \in Revisions : revs'[m] # None <=> m <= current'
      BY <1>1, <1>6, <2>3, <2>4 DEF OrderInv, ChainOK
    <3>2. ASSUME NEW m \in 1..current' PROVE revs'[m] \in Wrote /\ row'[revs'[m]].next = m
      <4>1. CASE m = n
        BY <1>1, <1>4, <2>3, <4>1 DEF n
      <4>2. CASE m \in Seen
        <5>1. revs'[m] = revs[m]
          BY <2>3, <2>4, <4>2
        <5>2. revs[m] \in Wrote /\ row[revs[m]].next = m
          BY <4>2 DEF OrderInv, ChainOK, Seen
        <5>3. revs[m] \in Jobs
          BY <5>2 DEF Wrote, Inv, TypeOK
        <5> QED
          BY <1>4, <5>1, <5>2, <5>3
      <4> QED
        BY <2>4, <4>1, <4>2
    <3> QED
      BY <1>4, <3>1, <3>2 DEF ChainOK
  <2>6. ASSUME NEW k \in Wrote', NEW m \in 1..current', m < row'[k].next
        PROVE  Before(revs[m], k)'
    <3>1. k \in Wrote /\ k \in Jobs
      BY <1>4 DEF Wrote, Inv, TypeOK
    <3>2. m \in Seen /\ revs'[m] = revs[m]
      BY <2>3, <2>4, <2>6, <3>1
    <3>3. Before(revs[m], k)
      BY <1>4, <2>6, <3>1, <3>2 DEF OrderInv, NumbersChosenFirst, Seen
    <3> QED
      BY <1>4, <3>2, <3>3 DEF Before
  <2> QED
    BY <1>4, <1>9, <2>5, <2>6 DEF OrderInv, WroteOnce, NumbersChosenFirst
<1>8. CASE n # current + 1
  <2>1. n <= current /\ revs[n] # None
    BY <1>2, <1>5, <1>8 DEF OrderInv, ChainOK
  <2>2. revs' = revs
    BY <1>4, <1>5, <2>1 DEF Taken, n
  <2>3. current' = current
    BY <1>2, <1>4, <2>1
  <2> QED
    <3>1. \A k \in Wrote : row'[k].next = row[k].next
      BY <1>4 DEF Wrote, Inv, TypeOK
    <3> QED
      BY <1>4, <1>9, <2>2, <2>3, <3>1, OrderKept
<1> QED
  BY <1>7, <1>8

\* A step that gives no number and lets no job prepare
LEMMA NumbersStay ==
  ASSUME OrderInv, UNCHANGED writes, \A k \in Jobs : row'[k].next = row[k].next,
         \A k \in Jobs : work'[k].at = "prepared" => work[k].at = "prepared"
  PROVE  WritersNumbered' /\ \A k \in Wrote \cap Jobs : row'[k].next = row[k].next
BY WroteSame DEF OrderInv, WritersNumbered

LEMMA OrderStep == Inv /\ OrderInv /\ [Next]_vars => OrderInv'
<1> SUFFICES ASSUME Inv, OrderInv, [Next]_vars PROVE OrderInv'
  OBVIOUS
<1>0. /\ work \in [Activities -> Stage] /\ row \in [Jobs -> Rows] /\ Wrote \subseteq Jobs
      /\ Jobs \subseteq Activities /\ Procs \subseteq Activities
  BY DEF Inv, TypeOK, Stage, Wrote, Activities
<1> DEFINE Stays == /\ UNCHANGED <<writes, revs, current>>
                    /\ \A k \in Jobs : row'[k].next = row[k].next
                    /\ \A k \in Jobs : work'[k].at = "prepared" => work[k].at = "prepared"
<1>1. Stays => OrderInv'
  BY <1>0, NumbersStay, OrderKept
<1>2. ASSUME NEW a \in Activities, NEW x, work' = [work EXCEPT ![a] = x], x.at # "prepared"
      PROVE  \A k \in Jobs : work'[k].at = "prepared" => work[k].at = "prepared"
  BY <1>0, <1>2
<1>3. ASSUME NEW a \in Activities PROVE Over(a).at # "prepared" /\ Idle.at # "prepared"
  BY OverIs DEF Over, Idle
<1>4. ASSUME NEW j \in Jobs, NEW p \in Procs, Resolve(j, p) PROVE OrderInv'
  <2>1. Stays
    BY <1>0, <1>4 DEF Resolve, catalog, vault, Idle
  <2> QED
    BY <1>1, <2>1
<1>5. ASSUME NEW j \in Jobs, Prepare(j) PROVE OrderInv'
  <2>1. j \notin Wrote /\ j \in Activities
    BY <1>0, <1>5 DEF Prepare, Inv, PlacesOK, CallOK
  <2>2. UNCHANGED <<writes, revs, current>> /\ UNCHANGED Wrote
    BY <1>5, WroteSame DEF Prepare, vault
  <2>3. \A k \in Jobs : row'[k].next = IF k = j THEN current + 1 ELSE row[k].next
    BY <1>0, <1>5 DEF Prepare
  <2>4. \A k \in Jobs \ {j} : work'[k] = work[k]
    BY <1>0, <1>5 DEF Prepare
  <2>5. current + 1 # 0
    BY DEF Inv, TypeOK, Revisions
  <2>6. WritersNumbered'
    BY <2>2, <2>3, <2>4, <2>5 DEF OrderInv, WritersNumbered
  <2>7. \A k \in Wrote : row'[k].next = row[k].next
    BY <1>0, <2>1, <2>3
  <2> QED
    BY <2>2, <2>6, <2>7, OrderKept
<1>6. ASSUME NEW j \in Jobs, WriteFails(j) \/ ReleaseFails(j) \/ CommitMismatch(j)
      PROVE  OrderInv'
  <2>1. \E st \in {"failed", "uncertain"} : SaveJob(j, st, FALSE)
    BY <1>6 DEF WriteFails, ReleaseFails, CommitMismatch, SaveReceipt, SaveJob
  <2>2. \A k \in Jobs : row'[k].next = row[k].next
    BY <2>1, RowNumbers DEF Inv
  <2>3. work' = [work EXCEPT ![j] = Over(j)] /\ UNCHANGED <<writes, revs, current>>
    BY <1>6 DEF WriteFails, ReleaseFails, CommitMismatch, vault
  <2> QED
    BY <1>0, <1>1, <1>2, <1>3, <2>2, <2>3
<1>7. ASSUME NEW a \in Activities, ReviseFails(a) \/ Receipt(a) PROVE OrderInv'
  <2>1. work[a].job \in Jobs
    BY <1>7, CommitsWritten DEF ReviseFails, Receipt
  <2>2. UNCHANGED row \/ \E st, b : SaveJob(work[a].job, st, b)
    BY <1>7 DEF ReviseFails, Receipt, SaveReceipt, SaveJob
  <2>3. \A k \in Jobs : row'[k].next = row[k].next
    BY <2>1, <2>2, RowNumbers DEF Inv
  <2>4. work' = [work EXCEPT ![a] = Over(a)] /\ UNCHANGED <<writes, revs, current>>
    BY <1>7 DEF ReviseFails, Receipt, vault
  <2> QED
    BY <1>1, <1>2, <1>3, <2>3, <2>4
<1>8. ASSUME NEW p \in Procs, Look(p) PROVE OrderInv'
  <2>1. Stays
    BY <1>0, <1>8 DEF Look, catalog, vault
  <2> QED
    BY <1>1, <2>1
<1>9. ASSUME NEW p \in Procs, Judge(p) PROVE OrderInv'
  <2>1. work[p].job \in Jobs
    BY <1>9, <1>0, WorksOnJob DEF Judge, JudgeMissing, JudgeUntouched, JudgeConflict, Inv
  <2>2. \E st, b : SaveJob(work[p].job, st, b)
    BY <1>9 DEF Judge, JudgeMissing, JudgeUntouched, JudgeConflict, SaveReceipt, SaveJob
  <2>3. \A k \in Jobs : row'[k].next = row[k].next
    BY <2>1, <2>2, RowNumbers DEF Inv
  <2>4. work' = [work EXCEPT ![p] = Idle] /\ UNCHANGED <<writes, revs, current>>
    BY <1>9 DEF Judge, JudgeMissing, JudgeUntouched, JudgeConflict, vault
  <2> QED
    BY <1>0, <1>1, <1>2, <1>3, <2>3, <2>4
<1>10. ASSUME NEW p \in Procs, Start(p) \/ Ready(p) \/ Remove(p) \/ Crash(p) \/ Quit(p)
       PROVE  OrderInv'
  <2>1. UNCHANGED <<writes, revs, current, row>>
    BY <1>10 DEF Start, Ready, Remove, Crash, Quit, Down, catalog, vault
  <2>2. \A x \in Activities : work'[x] = work[x] \/ work'[x] = Over(x)
    BY <1>10 DEF Start, Ready, Remove, Crash, Quit, Down, process
  <2>3. \A k \in Jobs : work'[k].at = "prepared" => work[k].at = "prepared"
    BY <1>0, <1>3, <2>2
  <2> QED
    BY <1>1, <2>1, <2>3
<1>11. CASE UNCHANGED vars
  <2>1. Stays
    BY <1>11 DEF vars, process, catalog, vault
  <2> QED
    BY <1>1, <2>1
<1> QED
  BY <1>0, <1>4, <1>5, <1>6, <1>7, <1>8, <1>9, <1>10, <1>11, RenameOrder, ReviseOrder
  DEF Next, Recover, Step

\* The chain of revisions is the order in which the vault was written, for any number of
\* jobs, processes, crashes and recoveries: CompilationCoordinator.prepare takes the number
\* before the write, and saveRevision gives no number twice.
THEOREM RevisionsFollow == Spec => []RevisionsFollowWrites
<1>1. Init => OrderInv
  <2> SUFFICES ASSUME Init PROVE OrderInv
    OBVIOUS
  <2>1. DOMAIN writes = {} /\ Wrote = {} /\ current = 0 /\ 1..current = {}
    BY DEF Init, Wrote
  <2>2. \A n \in Revisions : revs[n] = None /\ ~(n <= current)
    BY <2>1, NJobsAssumption DEF Init, Revisions
  <2>3. \A j \in Jobs : work[j].at # "prepared"
    BY DEF Init, Idle, Activities
  <2> QED
    BY <2>1, <2>2, <2>3 DEF OrderInv, WroteOnce, ChainOK, NumbersChosenFirst, WritersNumbered
<1>2. Inv /\ OrderInv => RevisionsFollowWrites
  <2> SUFFICES ASSUME Inv, OrderInv PROVE RevisionsFollowWrites
    OBVIOUS
  <2>1. ASSUME NEW m \in Revisions, NEW n \in Revisions, m < n, revs[n] # None
        PROVE  /\ Written(revs[m]) /\ Written(revs[n])
               /\ WrittenAt(revs[m]) < WrittenAt(revs[n])
    <3>1. m \in 1..current /\ n \in 1..current
      <4>1. n <= current
        BY <2>1 DEF OrderInv, ChainOK
      <4> QED
        BY <2>1, <4>1 DEF Inv, TypeOK, Revisions
    <3>2. revs[m] \in Wrote /\ revs[n] \in Wrote /\ row[revs[n]].next = n
      BY <3>1 DEF OrderInv, ChainOK
    <3>3. Written(revs[m]) /\ Written(revs[n])
      BY <3>2 DEF Written, Wrote
    <3>4. \A i : Written(i) => WrittenAt(i) \in DOMAIN writes /\ writes[WrittenAt(i)] = i
      BY DEF Written, WrittenAt
    <3>5. Before(revs[m], revs[n])
      BY <2>1, <3>1, <3>2 DEF OrderInv, NumbersChosenFirst
    <3> QED
      BY <3>3, <3>4, <3>5 DEF Before
  <2>2. \A n \in Revisions : n <= current => revs[n] # None
    BY DEF OrderInv, ChainOK
  <2> QED
    BY <2>1, <2>2 DEF RevisionsFollowWrites
<1> QED
  BY <1>1, <1>2, Invariance, OrderStep, PTL DEF Spec

=============================================================================
