--------------------------- MODULE SupervisorProofs ---------------------------
(* What Supervisor guarantees for any number of Tasks, places for processes, workers
   allowed and faults: type correctness, and that a writer works alone.

   The supervisor looks at the records of its workers and at the rows of the runners that
   detached, then awaits, then forks.  So what must be inductive is about three sets at
   once: the workers it keeps a record of, the runners that hold their lease without one,
   and the Tasks it has chosen and not yet launched. *)
EXTENDS Supervisor, FiniteSetTheorems, TLAPS

----------------------------------------------------------------------------
(* The inductive invariant *)

Statuses == {"queued", "waiting", "running", "paused", "blocked", "ended"}

Rows == [status : Statuses, owner : Procs \cup {0}, live : BOOLEAN,
         intent : {"none", "cancel", "pause"}, attempts : Nat]

Places == [at : {"free", "boot", "ready", "run", "left", "dead"}, task : Tasks \cup {0},
           link : {"none", "attached", "closing", "detached", "orphan", "stray"},
           heard : BOOLEAN, told : {"no", "stop", "term"}, hung : BOOLEAN, done : BOOLEAN]

\* A codex runner with its lease, whichever kernel forked it
Leased(p) == proc[p].at = "run" /\ IsCodex(p) /\ Owns(p) /\ proc[p].link # "stray"

\* What the supervisor has to count when it decides what may share the workspace
Occupied == Attached \cup {p \in Procs : Leased(p)}

SharesOK ==
  \A p, q \in Occupied :
    p # q => /\ proc[p].task # proc[q].task
             /\ proc[p].task \notin Writers /\ proc[q].task \notin Writers

\* What was chosen before an await still fits what works, and each other.
LaunchesOK ==
  /\ \A t \in launching, p \in Occupied :
       proc[p].task # t /\ t \notin Writers /\ proc[p].task \notin Writers
  /\ \A t, u \in launching : t # u => t \notin Writers

PlacesOK ==
  \A p \in Procs :
    /\ proc[p].at = "free" => proc[p].link = "none"
    /\ proc[p].at = "boot" => proc[p].link \in {"attached", "stray"}
    /\ proc[p].at = "ready" => ~IsCodex(p)
    /\ proc[p].at # "free" => proc[p].task \in Tasks

SoleInv == TypeOK /\ PlacesOK /\ SharesOK /\ LaunchesOK

----------------------------------------------------------------------------
(* Rows: no operation of the store but a claim makes anybody the holder of a lease *)

\* s follows r and gives nobody a lease.
GivesNone(r, s) == s \in Rows /\ \A p \in Procs : Owned(s, p) => Owned(r, p)

LEMMA OffGivesNone ==
  ASSUME NEW r \in Rows, NEW status \in Statuses
  PROVE  GivesNone(r, Off(r, status))
BY DEF GivesNone, Off, Rows, Owned

LEMMA FailedGivesNone ==
  ASSUME NEW r \in Rows, NEW t \in Tasks, NEW retryable \in BOOLEAN
  PROVE  GivesNone(r, Failed(r, t, retryable))
<1>1. GivesNone(r, r)
  BY DEF GivesNone
<1>2. Failed(r, t, retryable) \in {r, Off(r, "ended"), Off(r, "waiting")}
  BY DEF Failed
<1> QED
  BY <1>1, <1>2, OffGivesNone DEF Statuses

LEMMA ClaimedRow ==
  ASSUME NEW r \in Rows, NEW p \in Procs \cup {0}
  PROVE  /\ Claimed(r, p) \in Rows
         /\ \A q \in Procs : Owned(Claimed(r, p), q) => q = p
<1>1. r.attempts + 1 \in Nat
  BY DEF Rows
<1>2. Claimed(r, p) \in Rows
  BY <1>1 DEF Claimed, Rows, Statuses
<1>3. Claimed(r, p).owner = p
  BY DEF Claimed, Rows
<1> QED
  BY <1>2, <1>3 DEF Owned

LEMMA BurntGivesNone ==
  ASSUME NEW r \in Rows, NEW t \in Tasks, NEW retryable \in BOOLEAN
  PROVE  GivesNone(r, Burnt(r, t, retryable))
<1>1. GivesNone(r, r)
  BY DEF GivesNone
<1>2. Claimed(r, 0) \in Rows /\ \A q \in Procs : ~Owned(Claimed(r, 0), q)
  BY ClaimedRow, SupervisorAssumption
<1>3. GivesNone(Claimed(r, 0), Failed(Claimed(r, 0), t, retryable))
  BY <1>2, FailedGivesNone
<1>4. GivesNone(r, Failed(Claimed(r, 0), t, retryable))
  BY <1>2, <1>3 DEF GivesNone
<1> QED
  BY <1>1, <1>4 DEF Burnt

LEMMA RecoveredGivesNone ==
  ASSUME NEW r \in Rows, NEW t \in Tasks
  PROVE  GivesNone(r, Recovered(r, t))
<1>1. GivesNone(r, r)
  BY DEF GivesNone
<1>2. Recovered(r, t) \in {r, Off(r, "paused"), Off(r, "ended"), Off(r, "queued")}
  BY DEF Recovered
<1> QED
  BY <1>1, <1>2, OffGivesNone DEF Statuses

LEMMA GivesNoneTwice ==
  ASSUME NEW q, NEW r, NEW s, GivesNone(q, r), GivesNone(r, s)
  PROVE  GivesNone(q, s)
BY DEF GivesNone

\* No row gives a lease in this step.
NoLeaseGiven == row' \in [Tasks -> Rows] /\ \A t \in Tasks : GivesNone(row[t], row'[t])

LEMMA SameRows == ASSUME TypeOK, UNCHANGED row PROVE NoLeaseGiven
BY DEF TypeOK, NoLeaseGiven, GivesNone, Rows, Statuses

LEMMA RecoveredRows ==
  ASSUME TypeOK
  PROVE  /\ AllRecovered \in [Tasks -> Rows]
         /\ \A t \in Tasks : GivesNone(row[t], AllRecovered[t])
<1>1. \A t \in Tasks : row[t] \in Rows
  BY DEF TypeOK, Rows, Statuses
<1>2. \A t \in Tasks : GivesNone(row[t], Recovered(row[t], t))
  BY <1>1, RecoveredGivesNone
<1> QED
  BY <1>2 DEF AllRecovered, GivesNone

\* One row is written, over the rows as they are or as recovery leaves them.
LEMMA OneRowWritten ==
  ASSUME TypeOK, NEW rows \in {row, AllRecovered}, NEW t \in Tasks, NEW s,
         GivesNone(rows[t], s), row' = [rows EXCEPT ![t] = s]
  PROVE  NoLeaseGiven
<1>1. rows \in [Tasks -> Rows] /\ \A u \in Tasks : GivesNone(row[u], rows[u])
  <2>1. CASE rows = row
    BY <2>1 DEF TypeOK, GivesNone, Rows, Statuses
  <2>2. CASE rows = AllRecovered
    BY <2>2, RecoveredRows
  <2> QED BY <2>1, <2>2
<1>2. s \in Rows /\ GivesNone(row[t], s)
  BY <1>1, GivesNoneTwice DEF GivesNone
<1>3. row' \in [Tasks -> Rows]
  BY <1>1, <1>2
<1>4. \A u \in Tasks : row'[u] = IF u = t THEN s ELSE rows[u]
  BY <1>1
<1> QED
  BY <1>1, <1>2, <1>3, <1>4 DEF NoLeaseGiven

----------------------------------------------------------------------------
(* Places: what a step of one process may do to the sets the invariant is about *)

\* What the supervisor has to count does not grow.
NothingNew == \A p \in Procs : p \in Occupied' => p \in Occupied /\ proc'[p].task = proc[p].task

LEMMA SharesKept ==
  ASSUME SharesOK, LaunchesOK, NothingNew, launching' \subseteq launching
  PROVE  SharesOK' /\ LaunchesOK'
<1>1. Occupied' \subseteq Procs
  BY DEF Occupied, Attached
<1>2. \A p \in Occupied' : p \in Occupied /\ proc'[p].task = proc[p].task
  BY <1>1 DEF NothingNew
<1>3. SharesOK'
  BY <1>2 DEF SharesOK
<1>4. LaunchesOK'
  BY <1>2 DEF LaunchesOK
<1> QED
  BY <1>3, <1>4

\* All places but p are as they were, and only p can have got a lease.
LEMMA OnePlaceMoves ==
  ASSUME TypeOK, NEW p \in Procs, NEW x, proc' = [proc EXCEPT ![p] = x],
         \A t \in Tasks, q \in Procs : q # p /\ Owned(row'[t], q) => Owned(row[t], q),
         p \in Occupied' => p \in Occupied /\ x.task = proc[p].task
  PROVE  NothingNew
<1>1. proc'[p] = x /\ \A q \in Procs : q # p => proc'[q] = proc[q]
  BY DEF TypeOK
<1>2. \A q \in Procs : q # p /\ Leased(q)' => Leased(q)
  BY <1>1, SupervisorAssumption DEF Leased, IsCodex, Owns
<1> QED
  BY <1>1, <1>2 DEF NothingNew, Occupied, Attached

\* The places stay, and no lease is given.
LEMMA PlacesStay ==
  ASSUME TypeOK, NoLeaseGiven,
         \A p \in Procs : /\ proc'[p].at = proc[p].at /\ proc'[p].task = proc[p].task
                          /\ proc'[p].link = proc[p].link
  PROVE  NothingNew /\ (PlacesOK => PlacesOK')
<1>1. \A p \in Procs : Leased(p)' => Leased(p)
  BY SupervisorAssumption DEF Leased, IsCodex, Owns, NoLeaseGiven, GivesNone
<1> QED
  BY <1>1 DEF NothingNew, Occupied, Attached, PlacesOK, IsCodex

LEMMA PlaceTyped ==
  ASSUME NEW x \in Places
  PROVE  /\ Died(x) \in Places /\ Left(x) \in Places /\ Free \in Places
         /\ Orphaned(x) \in Places
<1>1. Free \in Places
  BY DEF Free, Places
<1>2. Left(x) \in Places
  BY DEF Left, Places
<1>3. Died(x) \in Places
  <2>1. [x EXCEPT !.at = "dead", !.hung = FALSE] \in Places
    BY DEF Places
  <2> QED
    BY <1>1, <2>1 DEF Died
<1>4. Orphaned(x) \in Places
  <2>1. \A link \in {"orphan", "stray"}, told \in {"no", "stop", "term"} :
          [x EXCEPT !.link = link, !.told = told] \in Places
    BY DEF Places
  <2>2. x.told \in {"no", "stop", "term"}
    BY DEF Places
  <2> QED
    BY <1>1, <2>1, <2>2 DEF Orphaned
<1> QED
  BY <1>1, <1>2, <1>3, <1>4

LEMMA TypeParts ==
  ASSUME row' \in [Tasks -> Rows], proc' \in [Procs -> Places], launching' \subseteq Tasks,
         stopping' \in BOOLEAN
  PROVE  TypeOK'
BY DEF TypeOK, Rows, Places, Statuses

LEMMA PartsTyped ==
  ASSUME TypeOK
  PROVE  /\ row \in [Tasks -> Rows] /\ proc \in [Procs -> Places]
         /\ launching \subseteq Tasks /\ stopping \in BOOLEAN
BY DEF TypeOK, Rows, Places, Statuses

----------------------------------------------------------------------------
(* The pump: what it chooses fits what works *)

LEMMA ChoiceFits ==
  ASSUME NEW S, S \subseteq Tasks, NEW idle \in BOOLEAN, NEW n
  PROVE  /\ Choice(S, idle, n) \subseteq S
         /\ ~idle => Choice(S, idle, n) \cap Writers = {}
         /\ \A t, u \in Choice(S, idle, n) : t # u => t \notin Writers
<1>0. S \subseteq Nat
  BY SupervisorAssumption
<1>1. Foremost(S) \subseteq S /\ \A t, u \in Foremost(S) : t = u
  BY <1>0 DEF Foremost
<1>2. Prefix(S, n) \subseteq S
  BY DEF Prefix
<1>3. Prefix(Readers(S), n) \subseteq S
  BY DEF Prefix, Readers
<1>4. ASSUME NEW t \in Prefix(Readers(S), n), t \in Writers PROVE FALSE
  <2>1. t \in Nat /\ t < t
    BY <1>0, <1>4 DEF Prefix, Readers
  <2> QED
    BY <2>1
<1>5. CASE ~idle
  BY <1>2, <1>5 DEF Choice
<1>6. CASE idle
  BY <1>1, <1>3, <1>4, <1>6 DEF Choice
<1> QED
  BY <1>5, <1>6

LEMMA PumpStep ==
  ASSUME SoleInv, Pump
  PROVE  SoleInv'
<1>0. TypeOK /\ PlacesOK /\ SharesOK
  BY DEF SoleInv
<1> DEFINE active == Cardinality(Attached) + Cardinality(DetachedRuns)
           writing == \/ \E p \in Attached : proc[p].task \in Writers
                      \/ DetachedRuns \cap Writers # {}
           chosen == Choice(Ready(row'), active = 0, Limit - active)
<1>1. /\ launching = {} /\ proc' = TerminateStale /\ UNCHANGED stopping
      /\ \/ UNCHANGED <<row, launching>>
         \/ ~writing /\ row' = AllRecovered /\ launching' = chosen
  BY DEF Pump
<1> HIDE DEF active, writing, chosen
<1>2. NoLeaseGiven
  <2>1. CASE UNCHANGED row
    BY <1>0, <2>1, SameRows
  <2>2. CASE row' = AllRecovered
    BY <1>0, <2>2, RecoveredRows DEF NoLeaseGiven
  <2> QED
    BY <1>1, <2>1, <2>2
<1>3. /\ proc' \in [Procs -> Places]
      /\ \A p \in Procs : /\ proc'[p].at = proc[p].at /\ proc'[p].task = proc[p].task
                          /\ proc'[p].link = proc[p].link
  <2>1. proc \in [Procs -> Places]
    BY <1>0, PartsTyped
  <2>2. ASSUME NEW p \in Procs
        PROVE  /\ [proc[p] EXCEPT !.told = "term"] \in Places /\ proc[p] \in Places
               /\ [proc[p] EXCEPT !.told = "term"].at = proc[p].at
               /\ [proc[p] EXCEPT !.told = "term"].task = proc[p].task
               /\ [proc[p] EXCEPT !.told = "term"].link = proc[p].link
    BY <2>1 DEF Places
  <2> QED BY <1>1, <2>2 DEF TerminateStale
<1>4. NothingNew /\ PlacesOK'
  BY <1>0, <1>2, <1>3, PlacesStay
<1>5. \A p \in Occupied' : p \in Occupied /\ proc'[p].task = proc[p].task
  BY <1>4 DEF NothingNew, Occupied, Attached
<1>6. SharesOK'
  BY <1>0, <1>5 DEF SharesOK
<1>7. CASE UNCHANGED <<row, launching>>
  <2>1. TypeOK'
    BY <1>0, <1>1, <1>2, <1>3, <1>7, PartsTyped, TypeParts DEF NoLeaseGiven
  <2>2. LaunchesOK'
    BY <1>1, <1>7 DEF LaunchesOK
  <2> QED
    BY <1>4, <1>6, <2>1, <2>2 DEF SoleInv
<1>8. CASE ~writing /\ row' = AllRecovered /\ launching' = chosen
  <2>1. Ready(row') \subseteq Tasks
    BY DEF Ready
  <2>2. /\ chosen \subseteq Ready(row')
        /\ active # 0 => chosen \cap Writers = {}
        /\ \A t, u \in chosen : t # u => t \notin Writers
    BY <2>1, ChoiceFits DEF chosen
  <2>3. TypeOK'
    BY <1>0, <1>1, <1>2, <1>3, <1>8, <2>1, <2>2, PartsTyped, TypeParts DEF NoLeaseGiven
  \* what works is an attached worker, or a runner DetachedRuns counts
  <2>4. ASSUME NEW p \in Occupied'
        PROVE  p \in Attached \/ (proc[p].task \in DetachedRuns /\ p \in Procs)
    <3>1. p \in Occupied
      BY <1>5
    <3>2. CASE p \notin Attached
      <4>1. Leased(p) /\ p \in Procs
        BY <3>1, <3>2 DEF Occupied
      <4>2. proc[p].task \in Codex /\ row[proc[p].task].status = "running"
        BY <4>1 DEF Leased, IsCodex, Owns, Owned
      <4>3. ~HasWorker(proc[p].task)
        BY <1>0, <3>1, <3>2 DEF HasWorker, SharesOK, Occupied
      <4> QED
        BY <4>1, <4>2, <4>3 DEF DetachedRuns
    <3> QED
      BY <3>2
  <2>5. ASSUME NEW t \in chosen, NEW p \in Occupied' PROVE proc'[p].task # t
    <3>1. row'[t].status = "queued" /\ ~HasWorker(t)
      BY <2>2 DEF Ready
    <3>2. CASE p \in Attached
      BY <1>5, <3>1, <3>2 DEF HasWorker
    <3>3. CASE p \notin Attached
      <4>1. p \in Procs /\ Leased(p)'
        BY <1>3, <1>5, <2>4, <3>3 DEF Occupied, Attached
      <4> QED
        BY <3>1, <4>1 DEF Leased, Owns, Owned
    <3> QED
      BY <3>2, <3>3
  <2>6. \A p \in Occupied' : proc'[p].task \notin Writers
    BY <1>5, <1>8, <2>4 DEF writing
  <2>7. Occupied' # {} => active # 0
    <3>1. IsFiniteSet(Attached) /\ IsFiniteSet(DetachedRuns)
      BY SupervisorAssumption, FS_Subset DEF Attached, DetachedRuns
    <3>2. Cardinality(Attached) \in Nat /\ Cardinality(DetachedRuns) \in Nat
      BY <3>1, FS_CardinalityType
    <3>3. active = 0 => Attached = {} /\ DetachedRuns = {}
      BY <3>1, <3>2, FS_EmptySet DEF active
    <3> QED
      BY <2>4, <3>3
  <2>8. LaunchesOK'
    BY <1>8, <2>2, <2>5, <2>6, <2>7 DEF LaunchesOK
  <2> QED
    BY <1>4, <1>6, <2>3, <2>8 DEF SoleInv
<1> QED
  BY <1>1, <1>7, <1>8

LEMMA LaunchStep ==
  ASSUME SoleInv, Launch
  PROVE  SoleInv'
<1>0. TypeOK /\ PlacesOK /\ SharesOK /\ LaunchesOK
  BY DEF SoleInv
<1>1. PICK t \in launching :
        /\ \/ Fork(t) \/ LaunchFails(t) \/ UNCHANGED <<row, proc>>
        /\ launching' = launching \ {t}
  BY DEF Launch, Foremost
<1>2. t \in Tasks /\ UNCHANGED stopping /\ launching' \subseteq launching
  BY <1>0, <1>1 DEF Launch, TypeOK
<1>3. CASE Fork(t)
  <2>1. PICK p \in FreeSlots :
          proc' = [proc EXCEPT ![p] = [Free EXCEPT !.at = "boot", !.task = t, !.link = "attached"]]
    BY <1>3 DEF Fork
  <2>2. UNCHANGED row /\ p \in Procs /\ proc[p].at = "free"
    BY <1>3 DEF Fork, FreeSlots
  <2> DEFINE x == [Free EXCEPT !.at = "boot", !.task = t, !.link = "attached"]
  <2>3. x \in Places /\ x.at = "boot" /\ x.task = t /\ x.link = "attached"
    BY <1>2 DEF Free, Places
  <2>4. proc'[p] = x /\ \A q \in Procs : q # p => proc'[q] = proc[q]
    BY <1>0, <2>1, <2>2 DEF TypeOK
  <2>5. proc' \in [Procs -> Places]
    BY <1>0, <2>1, <2>3, PartsTyped
  <2> HIDE DEF x
  <2>6. TypeOK'
    BY <1>0, <1>2, <2>2, <2>5, PartsTyped, TypeParts
  <2>7. PlacesOK'
    BY <1>0, <1>2, <2>2, <2>3, <2>4 DEF PlacesOK, IsCodex
  <2>8. \A q \in Occupied' : q # p => q \in Occupied /\ proc'[q].task = proc[q].task
    BY <2>2, <2>4 DEF Occupied, Attached, Leased, IsCodex, Owns
  <2>9. SharesOK'
    <3>1. ASSUME NEW q \in Occupied', q # p
          PROVE  /\ proc'[q].task # t /\ proc'[q].task \notin Writers /\ t \notin Writers
      BY <1>0, <1>1, <2>8, <3>1 DEF LaunchesOK
    <3> QED
      BY <1>0, <2>3, <2>4, <2>8, <3>1 DEF SharesOK
  <2>10. LaunchesOK'
    <3>1. ASSUME NEW u \in launching', NEW q \in Occupied'
          PROVE  proc'[q].task # u /\ u \notin Writers /\ proc'[q].task \notin Writers
      <4>1. CASE q = p
        BY <1>0, <1>1, <2>3, <2>4, <4>1 DEF LaunchesOK
      <4>2. CASE q # p
        BY <1>0, <1>2, <2>8, <4>2 DEF LaunchesOK
      <4> QED
        BY <4>1, <4>2
    <3> QED
      BY <1>0, <1>2, <3>1 DEF LaunchesOK
  <2> QED
    BY <2>6, <2>7, <2>9, <2>10 DEF SoleInv
<1>4. CASE LaunchFails(t) \/ UNCHANGED <<row, proc>>
  <2>1. UNCHANGED proc
    BY <1>4 DEF LaunchFails
  <2>2. NoLeaseGiven
    <3>1. CASE LaunchFails(t)
      <4>1. PICK retryable \in BOOLEAN :
              row' = [AllRecovered EXCEPT ![t] = Burnt(AllRecovered[t], t, retryable)]
        BY <3>1 DEF LaunchFails
      <4>2. GivesNone(AllRecovered[t], Burnt(AllRecovered[t], t, retryable))
        BY <1>0, <1>2, RecoveredRows, BurntGivesNone
      <4> QED
        BY <1>0, <1>2, <4>1, <4>2, OneRowWritten
    <3>2. CASE UNCHANGED row
      BY <1>0, <3>2, SameRows
    <3> QED
      BY <1>4, <3>1, <3>2
  <2>3. NothingNew /\ PlacesOK'
    BY <1>0, <2>1, <2>2, PlacesStay
  <2>4. TypeOK'
    BY <1>0, <1>2, <2>1, <2>2, PartsTyped, TypeParts DEF NoLeaseGiven
  <2> QED
    BY <1>0, <1>2, <2>3, <2>4, SharesKept DEF SoleInv
<1> QED
  BY <1>1, <1>3, <1>4

----------------------------------------------------------------------------
(* One process takes a step *)

PlaceOK(x) ==
  /\ x.at = "free" => x.link = "none"
  /\ x.at = "boot" => x.link \in {"attached", "stray"}
  /\ x.at = "ready" => x.task \notin Codex
  /\ x.at # "free" => x.task \in Tasks

\* p as x counts for no more than it did.
Succeeds(p, x) ==
  /\ x.link \in {"attached", "closing"} => p \in Attached /\ x.task = proc[p].task
  /\ x.at = "run" /\ x.link = "detached" => p \in Occupied /\ x.task = proc[p].task
  /\ x.at = "run" => x.link \notin {"none", "orphan"}

LEMMA PlaceStep ==
  ASSUME SoleInv, NEW p \in Procs, NEW x \in Places, proc' = [proc EXCEPT ![p] = x],
         row' \in [Tasks -> Rows],
         \A t \in Tasks, q \in Procs : q # p /\ Owned(row'[t], q) => Owned(row[t], q),
         UNCHANGED <<launching, stopping>>, PlaceOK(x), Succeeds(p, x)
  PROVE  SoleInv'
<1>0. TypeOK /\ PlacesOK /\ SharesOK /\ LaunchesOK
  BY DEF SoleInv
<1>1. proc'[p] = x /\ \A q \in Procs : q # p => proc'[q] = proc[q]
  BY <1>0 DEF TypeOK
<1>2. TypeOK'
  BY <1>0, PartsTyped, TypeParts
<1>3. PlacesOK'
  BY <1>0, <1>1 DEF PlacesOK, PlaceOK, IsCodex
<1>4. p \in Occupied' => p \in Occupied /\ x.task = proc[p].task
  <2>1. Leased(p)' => x.at = "run" /\ x.link # "stray"
    BY <1>1 DEF Leased
  <2>2. p \in Attached' => x.link \in {"attached", "closing"}
    BY <1>1 DEF Attached
  <2>3. x.link \in {"none", "attached", "closing", "detached", "orphan", "stray"}
    BY DEF Places
  <2> QED
    BY <2>1, <2>2, <2>3 DEF Succeeds, Occupied
<1>5. NothingNew
  BY <1>0, <1>4, OnePlaceMoves
<1> QED
  BY <1>0, <1>2, <1>3, <1>5, SharesKept DEF SoleInv

\* The same for a step in which nobody gets a lease
LEMMA PlaceStepNoLease ==
  ASSUME SoleInv, NEW p \in Procs, NEW x \in Places, proc' = [proc EXCEPT ![p] = x],
         NoLeaseGiven, UNCHANGED <<launching, stopping>>, PlaceOK(x), Succeeds(p, x)
  PROVE  SoleInv'
BY PlaceStep DEF NoLeaseGiven, GivesNone

LEMMA DiedOrLeft ==
  ASSUME SoleInv, NEW p \in Procs, proc[p].at # "free", NEW x,
         x \in {Died(proc[p]), Left(proc[p])}
  PROVE  x \in Places /\ PlaceOK(x) /\ Succeeds(p, x)
<1>1. proc[p] \in Places /\ proc[p].task \in Tasks
  BY PartsTyped DEF SoleInv, PlacesOK
<1>2. x \in Places
  BY <1>1, PlaceTyped
<1>3. \/ x = Free
      \/ x.at \in {"dead", "left"} /\ x.link = proc[p].link /\ x.task = proc[p].task
  BY <1>1 DEF Died, Left, Places
<1>4. PlaceOK(x)
  BY <1>1, <1>3 DEF PlaceOK, Free
<1>5. Succeeds(p, x)
  BY <1>3 DEF Succeeds, Free, Attached
<1> QED
  BY <1>2, <1>4, <1>5

LEMMA FreeIsOK ==
  ASSUME NEW p \in Procs
  PROVE  Free \in Places /\ PlaceOK(Free) /\ Succeeds(p, Free)
BY DEF Free, Places, PlaceOK, Succeeds

\* Only what the supervisor was told of the place changes.
LEMMA HeardStep ==
  ASSUME SoleInv, UNCHANGED <<row, launching>>, stopping' \in BOOLEAN,
         proc' \in [Procs -> Places],
         \A p \in Procs : /\ proc'[p].at = proc[p].at /\ proc'[p].task = proc[p].task
                          /\ proc'[p].link = proc[p].link
  PROVE  SoleInv'
<1>0. TypeOK /\ PlacesOK /\ SharesOK /\ LaunchesOK
  BY DEF SoleInv
<1>1. NothingNew /\ PlacesOK'
  BY <1>0, SameRows, PlacesStay
<1>2. TypeOK'
  BY <1>0, PartsTyped, TypeParts
<1> QED
  BY <1>0, <1>1, <1>2, SharesKept DEF SoleInv

LEMMA RowStep ==
  ASSUME SoleInv, NoLeaseGiven, UNCHANGED <<proc, launching, stopping>>
  PROVE  SoleInv'
<1>0. TypeOK /\ PlacesOK /\ SharesOK /\ LaunchesOK
  BY DEF SoleInv
<1>1. NothingNew /\ PlacesOK'
  BY <1>0, PlacesStay
<1>2. TypeOK'
  BY <1>0, PartsTyped, TypeParts DEF NoLeaseGiven
<1> QED
  BY <1>0, <1>1, <1>2, SharesKept DEF SoleInv

\* Claiming gives a lease to the claimant, over the rows as recovery leaves them.
LEMMA ClaimedRows ==
  ASSUME TypeOK, NEW p \in Procs, NEW t \in Tasks,
         row' = [AllRecovered EXCEPT ![t] = Claimed(@, p)]
  PROVE  /\ row' \in [Tasks -> Rows]
         /\ \A u \in Tasks, q \in Procs : q # p /\ Owned(row'[u], q) => Owned(row[u], q)
<1>1. AllRecovered \in [Tasks -> Rows]
  BY RecoveredRows
<1>2. /\ Claimed(AllRecovered[t], p) \in Rows
      /\ \A q \in Procs : Owned(Claimed(AllRecovered[t], p), q) => q = p
  BY <1>1, ClaimedRow
<1>3. \A u \in Tasks : row'[u] = IF u = t THEN Claimed(AllRecovered[t], p) ELSE AllRecovered[u]
  BY <1>1
<1>4. \A u \in Tasks, q \in Procs : Owned(AllRecovered[u], q) => Owned(row[u], q)
  BY RecoveredRows DEF GivesNone
<1> QED
  BY <1>1, <1>2, <1>3, <1>4

LEMMA BurntRows ==
  ASSUME TypeOK, NEW t \in Tasks, NEW retryable \in BOOLEAN,
         row' = [AllRecovered EXCEPT ![t] = Burnt(@, t, retryable)]
  PROVE  NoLeaseGiven
<1>1. GivesNone(AllRecovered[t], Burnt(AllRecovered[t], t, retryable))
  BY RecoveredRows, BurntGivesNone
<1> QED
  BY <1>1, OneRowWritten

----------------------------------------------------------------------------
(* The actions *)

LEMMA HeardSteps ==
  ASSUME SoleInv, NEW p \in Procs, HearStarted(p) \/ Hang(p) \/ ShutdownTimeout(p)
  PROVE  SoleInv'
<1>0. TypeOK /\ proc \in [Procs -> Places]
  BY PartsTyped DEF SoleInv
<1>1. PICK x \in Places : /\ proc' = [proc EXCEPT ![p] = x] /\ x.at = proc[p].at
                         /\ x.task = proc[p].task /\ x.link = proc[p].link
  <2>0. proc[p] \in Places
    BY <1>0
  <2>1. CASE HearStarted(p)
    <3> DEFINE y == [proc[p] EXCEPT !.heard = TRUE]
    <3>1. y \in Places /\ y.at = proc[p].at /\ y.task = proc[p].task /\ y.link = proc[p].link
      BY <2>0 DEF Places
    <3>2. proc' = [proc EXCEPT ![p] = y]
      BY <2>1 DEF HearStarted
    <3> QED
      BY <3>1, <3>2
  <2>2. CASE Hang(p)
    <3> DEFINE y == [proc[p] EXCEPT !.hung = TRUE]
    <3>1. y \in Places /\ y.at = proc[p].at /\ y.task = proc[p].task /\ y.link = proc[p].link
      BY <2>0 DEF Places
    <3>2. proc' = [proc EXCEPT ![p] = y]
      BY <2>2 DEF Hang
    <3> QED
      BY <3>1, <3>2
  <2>3. CASE ShutdownTimeout(p)
    <3> DEFINE y == [proc[p] EXCEPT !.told = "term"]
    <3>1. y \in Places /\ y.at = proc[p].at /\ y.task = proc[p].task /\ y.link = proc[p].link
      BY <2>0 DEF Places
    <3>2. proc' = [proc EXCEPT ![p] = y]
      BY <2>3 DEF ShutdownTimeout
    <3> QED
      BY <3>1, <3>2
  <2> QED
    BY <2>1, <2>2, <2>3
<1>2. /\ proc' \in [Procs -> Places]
      /\ \A q \in Procs : /\ proc'[q].at = proc[q].at /\ proc'[q].task = proc[q].task
                          /\ proc'[q].link = proc[q].link
  BY <1>0, <1>1
<1>3. UNCHANGED <<row, launching, stopping>>
  BY DEF HearStarted, Hang, ShutdownTimeout
<1> QED
  BY <1>0, <1>2, <1>3, HeardStep DEF TypeOK

LEMMA StopStep ==
  ASSUME SoleInv, Stop
  PROVE  SoleInv'
<1>0. proc \in [Procs -> Places]
  BY PartsTyped DEF SoleInv
<1>1. proc' \in [Procs -> Places]
  BY <1>0 DEF Stop, Places
<1>2. \A q \in Procs : /\ proc'[q].at = proc[q].at /\ proc'[q].task = proc[q].task
                       /\ proc'[q].link = proc[q].link
  BY <1>0 DEF Stop, Places
<1>3. UNCHANGED <<row, launching>> /\ stopping' \in BOOLEAN
  BY DEF Stop
<1> QED
  BY <1>1, <1>2, <1>3, HeardStep

LEMMA HearDetachedStep ==
  ASSUME SoleInv, NEW p \in Procs, HearDetached(p)
  PROVE  SoleInv'
<1>0. TypeOK /\ proc[p] \in Places
  BY PartsTyped DEF SoleInv
<1> DEFINE x == [proc[p] EXCEPT !.link = "detached", !.heard = TRUE]
<1>1. /\ x \in Places /\ x.link = "detached" /\ x.at = proc[p].at /\ x.task = proc[p].task
  BY <1>0 DEF Places
<1>2. proc' = [proc EXCEPT ![p] = x]
  BY DEF HearDetached
<1> HIDE DEF x
<1>3. /\ p \in Attached /\ proc[p].at \in {"run", "left"}
      /\ UNCHANGED <<row, launching, stopping>>
  BY DEF HearDetached, Attached
<1>4. PlaceOK(x) /\ Succeeds(p, x)
  BY <1>1, <1>3 DEF PlaceOK, Succeeds, Occupied, SoleInv, PlacesOK
<1>5. NoLeaseGiven
  BY <1>0, <1>3, SameRows
<1> QED
  BY <1>1, <1>2, <1>3, <1>4, <1>5, PlaceStepNoLease

LEMMA CloseStep ==
  ASSUME SoleInv, NEW p \in Procs, Close(p)
  PROVE  SoleInv'
<1>0. TypeOK /\ proc[p] \in Places /\ proc[p].task \in Tasks /\ row[proc[p].task] \in Rows
  BY PartsTyped DEF SoleInv, PlacesOK, Close
<1>1. NoLeaseGiven
  <2>1. CASE UNCHANGED row
    BY <1>0, <2>1, SameRows
  <2>2. CASE row' = [AllRecovered EXCEPT ![proc[p].task] = Burnt(@, proc[p].task, TRUE)]
    BY <1>0, <2>2, BurntRows
  <2>3. CASE row' = [row EXCEPT ![proc[p].task] = Failed(@, proc[p].task, TRUE)]
    <3>1. GivesNone(row[proc[p].task], Failed(row[proc[p].task], proc[p].task, TRUE))
      BY <1>0, FailedGivesNone
    <3> QED
      BY <1>0, <2>3, <3>1, OneRowWritten
  <2> QED
    BY <2>1, <2>2, <2>3 DEF Close, PersistExit
<1>2. UNCHANGED <<launching, stopping>> /\ proc[p].at = "dead"
  BY DEF Close
<1>3. CASE proc[p].link = "detached"
  <2>1. proc' = [proc EXCEPT ![p] = Free]
    BY <1>3 DEF Close
  <2> QED
    BY <1>1, <1>2, <2>1, FreeIsOK, PlaceStepNoLease
<1>4. CASE proc[p].link = "attached"
  <2> DEFINE x == [proc[p] EXCEPT !.link = "closing"]
  <2>1. x \in Places /\ x.at = "dead" /\ x.link = "closing" /\ x.task = proc[p].task
    BY <1>0, <1>2 DEF Places
  <2>2. proc' = [proc EXCEPT ![p] = x]
    BY <1>4 DEF Close
  <2> HIDE DEF x
  <2>3. PlaceOK(x) /\ Succeeds(p, x)
    BY <1>0, <1>4, <2>1 DEF PlaceOK, Succeeds, Attached
  <2> QED
    BY <1>1, <1>2, <2>1, <2>2, <2>3, PlaceStepNoLease
<1> QED
  BY <1>3, <1>4 DEF Close

LEMMA ForgetStep ==
  ASSUME SoleInv, NEW p \in Procs, Forget(p)
  PROVE  SoleInv'
BY FreeIsOK, SameRows, PlaceStepNoLease DEF Forget, SoleInv

LEMMA DeathStep ==
  ASSUME SoleInv, NEW p \in Procs, Exit(p) \/ Kill(p) \/ CrashWorker(p)
  PROVE  SoleInv'
<1>1. /\ proc' = [proc EXCEPT ![p] = Died(proc[p])] /\ proc[p].at # "free"
      /\ UNCHANGED <<row, launching, stopping>>
  BY DEF Exit, Kill, CrashWorker, Alive
<1>2. Died(proc[p]) \in Places /\ PlaceOK(Died(proc[p])) /\ Succeeds(p, Died(proc[p]))
  BY <1>1, DiedOrLeft
<1> QED
  BY <1>1, <1>2, SameRows, PlaceStepNoLease DEF SoleInv

\* p begins to work on its Task, whose lease it has just taken.
LEMMA ClaimsStep ==
  ASSUME SoleInv, NEW p \in Procs, UNCHANGED <<launching, stopping>>,
         proc[p].at = "boot" \/ (proc[p].at = "ready" /\ ~IsCodex(p)),
         row' = [AllRecovered EXCEPT ![proc[p].task] = Claimed(@, p)],
         proc' = [proc EXCEPT ![p].at = "run"]
  PROVE  SoleInv'
<1>0. TypeOK /\ PlacesOK /\ SharesOK /\ LaunchesOK /\ proc[p] \in Places
      /\ proc[p].task \in Tasks
  BY PartsTyped DEF SoleInv, PlacesOK
<1> DEFINE x == [proc[p] EXCEPT !.at = "run"]
<1>1. x \in Places /\ x.at = "run" /\ x.link = proc[p].link /\ x.task = proc[p].task
  BY <1>0 DEF Places
<1>2. proc' = [proc EXCEPT ![p] = x]
  OBVIOUS
<1> HIDE DEF x
<1>3. /\ row' \in [Tasks -> Rows]
      /\ \A t \in Tasks, q \in Procs : q # p /\ Owned(row'[t], q) => Owned(row[t], q)
  BY <1>0, ClaimedRows
<1>4. proc'[p] = x /\ \A q \in Procs : q # p => proc'[q] = proc[q]
  BY <1>0, <1>2 DEF TypeOK
<1>5. p \in Occupied' => p \in Occupied /\ x.task = proc[p].task
  <2>1. proc[p].link \in {"attached", "closing"} => p \in Occupied
    BY DEF Occupied, Attached
  <2>2. p \in Attached' => proc[p].link \in {"attached", "closing"}
    BY <1>1, <1>4 DEF Attached
  <2>3. Leased(p)' => proc[p].link = "attached"
    BY <1>0, <1>1, <1>4 DEF Leased, IsCodex, PlacesOK
  <2> QED
    BY <1>1, <2>1, <2>2, <2>3 DEF Occupied
<1>6. NothingNew
  BY <1>0, <1>2, <1>3, <1>5, OnePlaceMoves
<1>7. PlacesOK'
  BY <1>0, <1>1, <1>4 DEF PlacesOK, IsCodex
<1>8. TypeOK'
  BY <1>0, <1>1, <1>2, <1>3, PartsTyped, TypeParts
<1> QED
  BY <1>0, <1>6, <1>7, <1>8, SharesKept DEF SoleInv

LEMMA BootStep ==
  ASSUME SoleInv, NEW p \in Procs, Boot(p)
  PROVE  SoleInv'
<1>0. /\ TypeOK /\ proc[p].at = "boot" /\ proc[p] \in Places /\ proc[p].task \in Tasks
      /\ proc[p].link \in {"attached", "stray"} /\ UNCHANGED <<launching, stopping>>
  BY PartsTyped DEF SoleInv, PlacesOK, Boot
<1>1. CASE proc' = [proc EXCEPT ![p] = Died(proc[p])]
  <2>1. NoLeaseGiven
    <3>1. ASSUME NEW retryable \in BOOLEAN,
                 row' = [AllRecovered EXCEPT ![proc[p].task] = Burnt(@, proc[p].task, retryable)]
          PROVE  NoLeaseGiven
      BY <1>0, <3>1, BurntRows
    <3>2. CASE UNCHANGED row
      BY <1>0, <3>2, SameRows
    <3>3. CASE row' = AllRecovered
      BY <1>0, <3>3, RecoveredRows DEF NoLeaseGiven
    <3>4. ASSUME row' = [AllRecovered EXCEPT ![proc[p].task] = Claimed(@, p)],
                 proc' = [proc EXCEPT ![p].at = "run"]
          PROVE  FALSE
      <4>1. proc'[p].at = "run"
        BY <1>0, <3>4 DEF TypeOK
      <4>2. proc'[p] = Died(proc[p])
        BY <1>0, <1>1 DEF TypeOK
      <4>3. Died(proc[p]).at # "run"
        BY <1>0 DEF Died, Free, Places
      <4> QED
        BY <4>1, <4>2, <4>3
    <3> QED
      BY <3>1, <3>2, <3>3, <3>4 DEF Boot
  <2>2. Died(proc[p]) \in Places /\ PlaceOK(Died(proc[p])) /\ Succeeds(p, Died(proc[p]))
    BY <1>0, DiedOrLeft
  <2> QED
    BY <1>0, <1>1, <2>1, <2>2, PlaceStepNoLease
<1>2. CASE ~IsCodex(p) /\ UNCHANGED row /\ proc' = [proc EXCEPT ![p] = [@ EXCEPT !.at = "ready"]]
  <2> DEFINE x == [proc[p] EXCEPT !.at = "ready"]
  <2>1. x \in Places /\ x.at = "ready" /\ x.link = proc[p].link /\ x.task = proc[p].task
    BY <1>0 DEF Places
  <2>2. proc' = [proc EXCEPT ![p] = x]
    BY <1>2
  <2> HIDE DEF x
  <2>3. PlaceOK(x) /\ Succeeds(p, x)
    BY <1>0, <1>2, <2>1 DEF PlaceOK, Succeeds, Attached, IsCodex
  <2> QED
    BY <1>0, <1>2, <2>1, <2>2, <2>3, SameRows, PlaceStepNoLease
<1>3. CASE /\ row' = [AllRecovered EXCEPT ![proc[p].task] = Claimed(@, p)]
           /\ proc' = [proc EXCEPT ![p].at = "run"]
  <2>1. proc[p].at = "boot" \/ (proc[p].at = "ready" /\ ~IsCodex(p))
    BY <1>0
  <2>2. UNCHANGED <<launching, stopping>>
    BY <1>0
  <2> QED
    BY <1>3, <2>1, <2>2, ClaimsStep
<1>4. CASE /\ ~IsCodex(p) /\ UNCHANGED row
           /\ proc' = [proc EXCEPT ![p] = IF @.told = "no" THEN [@ EXCEPT !.at = "ready"]
                                         ELSE Died(@)]
  <2>1. CASE proc[p].told = "no"
    BY <1>2, <1>4, <2>1
  <2>2. CASE proc[p].told # "no"
    BY <1>1, <1>4, <2>2
  <2> QED
    BY <2>1, <2>2
<1>5. \/ proc' = [proc EXCEPT ![p] = Died(@)]
      \/ /\ ~IsCodex(p) /\ UNCHANGED row
         /\ proc' = [proc EXCEPT ![p] = IF @.told = "no" THEN [@ EXCEPT !.at = "ready"]
                                       ELSE Died(@)]
      \/ /\ row' = [AllRecovered EXCEPT ![proc[p].task] = Claimed(@, p)]
         /\ proc' = [proc EXCEPT ![p].at = "run"]
  BY DEF Boot
<1> QED
  BY <1>1, <1>3, <1>4, <1>5

LEMMA ClaimStep ==
  ASSUME SoleInv, NEW p \in Procs, Claim(p)
  PROVE  SoleInv'
<1>0. /\ TypeOK /\ proc[p].at = "ready" /\ ~IsCodex(p) /\ UNCHANGED <<launching, stopping>>
  BY DEF SoleInv, PlacesOK, Claim
<1>1. CASE /\ row' = [AllRecovered EXCEPT ![proc[p].task] = Claimed(@, p)]
           /\ proc' = [proc EXCEPT ![p].at = "run"]
  BY <1>0, <1>1, ClaimsStep
<1>2. CASE row' = AllRecovered /\ proc' = [proc EXCEPT ![p] = Left(proc[p])]
  <2>1. NoLeaseGiven
    BY <1>0, <1>2, RecoveredRows DEF NoLeaseGiven
  <2>2. Left(proc[p]) \in Places /\ PlaceOK(Left(proc[p])) /\ Succeeds(p, Left(proc[p]))
    BY <1>0, DiedOrLeft
  <2> QED
    BY <1>0, <1>2, <2>1, <2>2, PlaceStepNoLease
<1> QED
  BY <1>1, <1>2 DEF Claim

LEMMA SettleStep ==
  ASSUME SoleInv, NEW p \in Procs, Settle(p)
  PROVE  SoleInv'
<1>0. /\ TypeOK /\ proc[p].at = "run" /\ proc[p].task \in Tasks
      /\ row[proc[p].task] \in Rows /\ UNCHANGED <<launching, stopping>>
      /\ proc' = [proc EXCEPT ![p] = Left(proc[p])]
  BY PartsTyped DEF SoleInv, PlacesOK, Settle
<1>1. \A r \in Outcomes(p, row[proc[p].task]) : GivesNone(row[proc[p].task], r)
  BY <1>0, OffGivesNone, FailedGivesNone DEF Outcomes, Statuses
<1>2. GivesNone(row[proc[p].task], Settled(row[proc[p].task]))
  BY <1>0, OffGivesNone DEF Settled, Statuses
<1>3. UNCHANGED row \/ \E r : /\ GivesNone(row[proc[p].task], r)
                              /\ row' = [row EXCEPT ![proc[p].task] = r]
  BY <1>1, <1>2 DEF Settle
<1>4. NoLeaseGiven
  BY <1>0, <1>3, SameRows, OneRowWritten
<1>5. Left(proc[p]) \in Places /\ PlaceOK(Left(proc[p])) /\ Succeeds(p, Left(proc[p]))
  BY <1>0, DiedOrLeft
<1> QED
  BY <1>0, <1>4, <1>5, PlaceStepNoLease

LEMMA RefusedStep ==
  ASSUME SoleInv, NEW p \in Procs, Refused(p)
  PROVE  SoleInv'
<1> DEFINE x == [proc[p] EXCEPT !.at = "left"]
<1>0. /\ TypeOK /\ proc[p].at = "run" /\ proc[p].task \in Tasks /\ proc[p] \in Places
      /\ UNCHANGED <<launching, stopping>> /\ proc' = [proc EXCEPT ![p] = x]
  BY PartsTyped DEF SoleInv, PlacesOK, Refused
<1>1. \/ UNCHANGED row
      \/ \E retryable \in BOOLEAN :
           row' = [AllRecovered EXCEPT ![proc[p].task] = Burnt(@, proc[p].task, retryable)]
  BY DEF Refused
<1>2. NoLeaseGiven
  BY <1>0, <1>1, SameRows, BurntRows
<1>3. x \in Places /\ x.at = "left" /\ x.link = proc[p].link /\ x.task = proc[p].task
  BY <1>0 DEF Places
<1> HIDE DEF x
<1>4. PlaceOK(x) /\ Succeeds(p, x)
  BY <1>0, <1>3 DEF PlaceOK, Succeeds, Attached
<1> QED
  BY <1>0, <1>2, <1>3, <1>4, PlaceStepNoLease

LEMMA ClockStep ==
  ASSUME SoleInv, NEW t \in Tasks,
         RetryDue(t) \/ Lapse(t) \/ (\E i \in {"cancel", "pause"} : Command(t, i))
  PROVE  SoleInv'
<1>0. TypeOK /\ row[t] \in Rows
  BY PartsTyped DEF SoleInv
<1>1. UNCHANGED <<proc, launching, stopping>>
  BY DEF RetryDue, Lapse, Command
<1>2. CASE RetryDue(t)
  <2>1. row' = [row EXCEPT ![t] = [row[t] EXCEPT !.status = "queued"]]
    BY <1>2 DEF RetryDue
  <2>2. GivesNone(row[t], [row[t] EXCEPT !.status = "queued"])
    BY <1>0 DEF GivesNone, Rows, Statuses, Owned
  <2>3. NoLeaseGiven
    BY <1>0, <2>1, <2>2, OneRowWritten
  <2> QED
    BY <1>1, <2>3, RowStep
<1>3. CASE Lapse(t)
  <2>1. row' = [row EXCEPT ![t] = [row[t] EXCEPT !.live = FALSE]]
    BY <1>3 DEF Lapse
  <2>2. GivesNone(row[t], [row[t] EXCEPT !.live = FALSE])
    BY <1>0 DEF GivesNone, Rows, Owned
  <2>3. NoLeaseGiven
    BY <1>0, <2>1, <2>2, OneRowWritten
  <2> QED
    BY <1>1, <2>3, RowStep
<1>4. ASSUME NEW i \in {"cancel", "pause"}, Command(t, i) PROVE SoleInv'
  <2>1. \/ \E status \in Statuses : row' = [row EXCEPT ![t] = Off(row[t], status)]
        \/ row' = [row EXCEPT ![t] = [row[t] EXCEPT !.intent = i]]
    BY <1>4 DEF Command, Statuses
  <2>2. \A status \in Statuses : GivesNone(row[t], Off(row[t], status))
    BY <1>0, OffGivesNone
  <2>3. GivesNone(row[t], [row[t] EXCEPT !.intent = i])
    BY <1>0 DEF GivesNone, Rows, Owned
  <2>4. NoLeaseGiven
    BY <1>0, <2>1, <2>2, <2>3, OneRowWritten
  <2> QED
    BY <1>1, <2>4, RowStep
<1> QED
  BY <1>2, <1>3, <1>4

LEMMA RestartStep ==
  ASSUME SoleInv, Restart
  PROVE  SoleInv'
<1>0. /\ TypeOK /\ PlacesOK /\ SharesOK /\ LaunchesOK
      /\ proc \in [Procs -> Places] /\ UNCHANGED row /\ launching' = {} /\ stopping' = FALSE
  BY PartsTyped DEF SoleInv, Restart
<1>1. \A p \in Procs : proc'[p] = Orphaned(proc[p])
  BY DEF Restart
<1>2. proc' \in [Procs -> Places]
  BY <1>0, PlaceTyped DEF Restart
<1>3. ASSUME NEW p \in Procs
      PROVE  \/ proc'[p] = Free
             \/ proc'[p] = proc[p] /\ proc[p].link \in Lost
             \/ /\ proc'[p].at = proc[p].at /\ proc'[p].task = proc[p].task
                /\ proc'[p].link = IF proc[p].at = "boot" THEN "stray" ELSE "orphan"
                /\ proc[p].link \in {"attached", "detached"}
  <2>1. proc[p] \in Places
    BY <1>0
  <2> QED
    BY <1>1, <2>1 DEF Orphaned, Places
<1>4. PlacesOK'
  BY <1>0, <1>3 DEF PlacesOK, IsCodex, Free
<1>5. NothingNew
  <2>1. ASSUME NEW p \in Procs, p \in Occupied'
        PROVE  p \in Occupied /\ proc'[p].task = proc[p].task
    <3>1. p \notin Attached'
      BY <1>3 DEF Attached, Free, Lost
    <3>2. Leased(p)'
      BY <2>1, <3>1 DEF Occupied
    <3>3. proc'[p].at = "run" /\ proc'[p].task = proc[p].task /\ proc[p].at = "run"
      BY <1>3, <3>2 DEF Leased, Free
    <3>4. Leased(p)
      BY <1>0, <1>3, <3>2, <3>3 DEF Leased, IsCodex, Owns, Free
    <3> QED
      BY <3>3, <3>4 DEF Occupied
  <2> QED
    BY <2>1 DEF NothingNew
<1>6. TypeOK'
  BY <1>0, <1>2, PartsTyped, TypeParts
<1> QED
  BY <1>0, <1>4, <1>5, <1>6, SharesKept DEF SoleInv

----------------------------------------------------------------------------
(* The theorems *)

LEMMA InitSole == Init => SoleInv
<1> SUFFICES ASSUME Init PROVE SoleInv
  OBVIOUS
<1>1. TypeOK
  BY DEF Init, TypeOK, Free
<1>2. PlacesOK
  BY DEF Init, PlacesOK, Free
<1>3. Occupied = {} /\ launching = {}
  BY DEF Init, Occupied, Attached, Leased, Free
<1> QED
  BY <1>1, <1>2, <1>3 DEF SoleInv, SharesOK, LaunchesOK

LEMMA SoleStep == SoleInv /\ [Next]_vars => SoleInv'
<1> SUFFICES ASSUME SoleInv, [Next]_vars PROVE SoleInv'
  OBVIOUS
<1>1. ASSUME NEW p \in Procs, WorkerStep(p) PROVE SoleInv'
  BY <1>1, BootStep, ClaimStep, SettleStep, RefusedStep, DeathStep DEF WorkerStep
<1>2. ASSUME NEW p \in Procs, KernelStep(p) PROVE SoleInv'
  BY <1>2, CloseStep, ForgetStep, HeardSteps DEF KernelStep
<1>3. ASSUME Recover PROVE SoleInv'
  BY <1>3, RecoveredRows, RowStep DEF Recover, NoLeaseGiven, SoleInv
<1>4. CASE UNCHANGED vars
  BY <1>4, SameRows, RowStep DEF vars, SoleInv
<1> QED
  BY <1>1, <1>2, <1>3, <1>4, PumpStep, LaunchStep, StopStep, RestartStep, HeardSteps,
     HearDetachedStep, DeathStep, ClockStep
  DEF Next

\* Rows, processes, records and choices keep their types, for any Tasks, limits and faults.
THEOREM TypeCorrect == Spec => []TypeOK
<1>1. SoleInv => TypeOK
  BY DEF SoleInv
<1> QED
  BY <1>1, InitSole, SoleStep, PTL DEF Spec

\* A writer works alone and a Task has one worker, for any number of Tasks and workers:
\* pump counts the runners that detached with the workers it has a record of, so what it
\* chose before the awaits of launch fits whatever detaches, exits, is stopped or is left
\* behind by a kernel meanwhile, because nobody but a launch adds to what it counts.
THEOREM WritersWorkAlone == Spec => []SoleWriter
<1>1. SoleInv => SoleWriter
  <2>1. \A p \in Procs : Working(p) => p \in Occupied
    BY DEF Working, Occupied, Attached, Leased
  <2> QED
    BY <2>1 DEF SoleInv, SharesOK, SoleWriter
<1> QED
  BY <1>1, InitSole, SoleStep, PTL DEF Spec

----------------------------------------------------------------------------
(* The contract of the Task table *)

RowOK(r) == r.status # "running" => ~r.live /\ r.intent = "none"

\* What a store operation makes of a row: one step of the contract, and a row in order.
Moves(r, s) == RowOK(s) /\ Contract!TaskStep(View(r), View(s))

LEMMA SameMoves == ASSUME NEW r, RowOK(r) PROVE Moves(r, r)
BY DEF Moves, Contract!TaskStep

LEMMA OffMoves ==
  ASSUME NEW r \in Rows, RowOK(r), NEW status \in Statuses \ {"running"},
         status = "ended" \/ r.intent # "cancel" \/ r.status # "running", r.status # "ended"
  PROVE  Moves(r, Off(r, status))
<1>1. CASE status = "ended"
  BY <1>1 DEF Moves, RowOK, Off, Rows, Statuses, View, Contract!TaskStep, Contract!End,
              Contract!Gone, Contract!Loose
<1>2. CASE status # "ended"
  BY <1>2 DEF Moves, RowOK, Off, Rows, Statuses, View, Contract!TaskStep, Contract!Release,
              Contract!Loose
<1> QED
  BY <1>1, <1>2

LEMMA FailedMoves ==
  ASSUME NEW r \in Rows, RowOK(r), NEW t \in Tasks, NEW retryable \in BOOLEAN,
         r.status = "running"
  PROVE  Moves(r, Failed(r, t, retryable))
BY SameMoves, OffMoves DEF Failed, Statuses

LEMMA RecoveredMoves ==
  ASSUME NEW r \in Rows, RowOK(r), NEW t \in Tasks
  PROVE  Moves(r, Recovered(r, t))
BY SameMoves, OffMoves DEF Recovered, Statuses

\* A claim, and a claim that is recorded as failed at once, after the recovery they begin with.
LEMMA ClaimedMoves ==
  ASSUME NEW r \in Rows, RowOK(r), NEW t \in Tasks, NEW p,
         Recovered(r, t).status = "queued"
  PROVE  Moves(r, Claimed(Recovered(r, t), p))
<1>1. \/ r.status = "queued" /\ Recovered(r, t) = r
      \/ /\ r.status = "running" /\ ~r.live /\ r.intent # "cancel"
         /\ Recovered(r, t) = Off(r, "queued")
  BY DEF Recovered, Off
<1>2. CASE r.status = "queued" /\ Recovered(r, t) = r
  BY <1>2 DEF Moves, RowOK, Claimed, Rows, View, Contract!TaskStep, Contract!Begin, Contract!Open,
     Contract!Held
<1>3. CASE /\ r.status = "running" /\ ~r.live /\ r.intent # "cancel"
           /\ Recovered(r, t) = Off(r, "queued")
  BY <1>3 DEF Moves, RowOK, Claimed, Off, Rows, View, Contract!TaskStep, Contract!Begin,
              Contract!Open, Contract!Held
<1> QED
  BY <1>1, <1>2, <1>3

LEMMA BurntMoves ==
  ASSUME NEW r \in Rows, RowOK(r), NEW t \in Tasks, NEW retryable \in BOOLEAN
  PROVE  Moves(r, Burnt(Recovered(r, t), t, retryable))
<1> DEFINE q == Recovered(r, t)
<1>1. CASE q.status # "queued"
  BY <1>1, RecoveredMoves DEF Burnt
<1>2. CASE q.status = "queued"
  <2>1. \/ r.status = "queued" /\ q = r
        \/ r.status = "running" /\ ~r.live /\ r.intent # "cancel" /\ q = Off(r, "queued")
    BY <1>2 DEF Recovered, Off
  <2> HIDE DEF q
  <2>2. q.intent = "none" /\ q \in Rows /\ q.attempts = r.attempts
    BY <2>1 DEF RowOK, Off, Rows, Statuses
  <2>3. Burnt(q, t, retryable) \in {Off(Claimed(q, 0), "ended"), Off(Claimed(q, 0), "waiting")}
    BY <1>2, <2>2 DEF Burnt, Failed, Claimed, Rows
  <2>4. /\ View(Off(Claimed(q, 0), "ended")) = Contract!Gone
        /\ View(Off(Claimed(q, 0), "waiting")) = Contract!Loose("idle", r.attempts + 1)
    BY <2>2 DEF View, Off, Claimed, Rows, Contract!Gone, Contract!Loose
  <2>5. Contract!Open(View(r)) /\ View(r).attempts = r.attempts
    BY <2>1 DEF View, Contract!Open, RowOK
  <2>6. \A status \in {"ended", "waiting"} : RowOK(Off(Claimed(q, 0), status))
    BY <2>2 DEF RowOK, Off, Claimed, Rows
  <2>7. Moves(r, Burnt(q, t, retryable))
    BY <2>3, <2>4, <2>5, <2>6
    DEF Moves, Contract!TaskStep, Contract!Burn, Contract!End, Contract!Open
  <2> QED
    BY <2>7 DEF q
<1> QED
  BY <1>1, <1>2

RowsOK == \A t \in Tasks : RowOK(row[t])

AllMove == \A t \in Tasks : Moves(row[t], row'[t])

LEMMA NoRowMoves == ASSUME RowsOK, UNCHANGED row PROVE AllMove
BY SameMoves DEF RowsOK, AllMove

LEMMA OneRowMoves ==
  ASSUME TypeOK, RowsOK, NEW t \in Tasks, NEW s, Moves(row[t], s), row' = [row EXCEPT ![t] = s]
  PROVE  AllMove
<1>1. \A u \in Tasks : row'[u] = IF u = t THEN s ELSE row[u]
  BY DEF TypeOK
<1> QED
  BY <1>1, SameMoves DEF RowsOK, AllMove

LEMMA RecoveredMove ==
  ASSUME TypeOK, RowsOK, row' = AllRecovered PROVE AllMove
<1>1. \A t \in Tasks : row[t] \in Rows /\ row'[t] = Recovered(row[t], t)
  BY DEF TypeOK, Rows, Statuses, AllRecovered
<1> QED
  BY <1>1, RecoveredMoves DEF RowsOK, AllMove

LEMMA RecoveredAndOneMoves ==
  ASSUME TypeOK, RowsOK, NEW t \in Tasks, NEW s, Moves(row[t], s),
         row' = [AllRecovered EXCEPT ![t] = s]
  PROVE  AllMove
<1>1. \A u \in Tasks : /\ row[u] \in Rows
                       /\ row'[u] = IF u = t THEN s ELSE Recovered(row[u], u)
  BY DEF TypeOK, Rows, Statuses, AllRecovered
<1> QED
  BY <1>1, RecoveredMoves DEF RowsOK, AllMove

LEMMA BurntMove ==
  ASSUME TypeOK, RowsOK, NEW t \in Tasks, NEW retryable \in BOOLEAN,
         row' = [AllRecovered EXCEPT ![t] = Burnt(@, t, retryable)]
  PROVE  AllMove
<1>1. row[t] \in Rows /\ AllRecovered[t] = Recovered(row[t], t)
  BY DEF TypeOK, Rows, Statuses, AllRecovered
<1>2. Moves(row[t], Burnt(AllRecovered[t], t, retryable))
  BY <1>1, BurntMoves DEF RowsOK
<1> QED
  BY <1>2, RecoveredAndOneMoves

LEMMA ClaimedMove ==
  ASSUME TypeOK, RowsOK, NEW t \in Tasks, NEW p, AllRecovered[t].status = "queued",
         row' = [AllRecovered EXCEPT ![t] = Claimed(@, p)]
  PROVE  AllMove
<1>1. row[t] \in Rows /\ AllRecovered[t] = Recovered(row[t], t)
  BY DEF TypeOK, Rows, Statuses, AllRecovered
<1>2. Moves(row[t], Claimed(AllRecovered[t], p))
  BY <1>1, ClaimedMoves DEF RowsOK
<1> QED
  BY <1>2, RecoveredAndOneMoves

LEMMA SettleMoves ==
  ASSUME SoleInv, RowsOK, NEW p \in Procs, Settle(p)
  PROVE  AllMove
<1> DEFINE t == proc[p].task
<1>1. TypeOK /\ t \in Tasks /\ row[t] \in Rows /\ RowOK(row[t])
  BY PartsTyped DEF SoleInv, PlacesOK, RowsOK, Settle
<1>2. Owns(p) => row[t].status = "running"
  BY DEF Owns, Owned
<1>3. CASE UNCHANGED row
  BY <1>3, NoRowMoves
<1>4. ASSUME Owns(p), row[t].intent # "none", row' = [row EXCEPT ![t] = Settled(@)]
      PROVE  AllMove
  <2>1. Moves(row[t], Settled(row[t]))
    BY <1>1, <1>2, <1>4, OffMoves DEF Settled, Statuses
  <2> QED
    BY <1>1, <1>4, <2>1, OneRowMoves
<1>5. ASSUME Owns(p), row[t].intent = "none", NEW r \in Outcomes(p, row[t]),
             row' = [row EXCEPT ![t] = r]
      PROVE  AllMove
  <2>1. CASE \E status \in {"ended", "blocked", "queued"} : r = Off(row[t], status)
    BY <1>1, <1>2, <1>5, <2>1, OffMoves, OneRowMoves DEF Statuses
  <2>2. CASE r = Failed(row[t], t, TRUE)
    BY <1>1, <1>2, <1>5, <2>2, FailedMoves, OneRowMoves
  <2> QED
    BY <1>5, <2>1, <2>2 DEF Outcomes
<1> QED
  BY <1>3, <1>4, <1>5 DEF Settle

LEMMA ClockMoves ==
  ASSUME TypeOK, RowsOK, NEW t \in Tasks,
         RetryDue(t) \/ Lapse(t) \/ \E i \in {"cancel", "pause"} : Command(t, i)
  PROVE  AllMove
<1>1. row[t] \in Rows /\ RowOK(row[t])
  BY DEF TypeOK, Rows, Statuses, RowsOK
<1>2. CASE RetryDue(t)
  <2> DEFINE s == [row[t] EXCEPT !.status = "queued"]
  <2>1. RowOK(s) /\ View(s) = View(row[t])
    BY <1>1, <1>2 DEF RowOK, RetryDue, View, Rows, Statuses
  <2>2. Moves(row[t], s) /\ row' = [row EXCEPT ![t] = s]
    BY <1>2, <2>1 DEF Moves, Contract!TaskStep, RetryDue
  <2> QED
    BY <2>2, OneRowMoves
<1>3. CASE Lapse(t)
  <2> DEFINE s == [row[t] EXCEPT !.live = FALSE]
  <2>1. RowOK(s) /\ Contract!Lapse(View(row[t]), View(s))
    BY <1>1, <1>3 DEF RowOK, Lapse, View, Rows, Statuses, Contract!Lapse, Contract!Held
  <2>2. Moves(row[t], s) /\ row' = [row EXCEPT ![t] = s]
    BY <1>3, <2>1 DEF Moves, Contract!TaskStep, Lapse
  <2> QED
    BY <2>2, OneRowMoves
<1>4. ASSUME NEW i \in {"cancel", "pause"}, Command(t, i) PROVE AllMove
  <2>1. CASE /\ row[t].status \in {"queued", "waiting"}
             /\ row' = [row EXCEPT ![t] = Off(@, IF i = "pause" THEN "paused" ELSE "ended")]
    BY <1>1, <2>1, OffMoves, OneRowMoves DEF Statuses
  <2>2. CASE /\ row[t].status = "running" /\ row[t].intent = "none"
             /\ row' = [row EXCEPT ![t].intent = i]
    <3> DEFINE s == [row[t] EXCEPT !.intent = i]
    <3>1. /\ RowOK(s)
          /\ i = "cancel" => Contract!AskToCancel(View(row[t]), View(s))
          /\ i = "pause" => View(s) = View(row[t])
      BY <1>1, <2>2 DEF RowOK, View, Rows, Statuses, Contract!AskToCancel, Contract!Held
    <3>2. Moves(row[t], s)
      BY <3>1 DEF Moves, Contract!TaskStep
    <3> QED
      BY <2>2, <3>2, OneRowMoves
  <2> QED
    BY <1>4, <2>1, <2>2 DEF Command
<1> QED
  BY <1>2, <1>3, <1>4

LEMMA WorkerMoves ==
  ASSUME SoleInv, RowsOK, NEW p \in Procs,
         Boot(p) \/ Claim(p) \/ Close(p) \/ Refused(p)
  PROVE  AllMove
<1> DEFINE t == proc[p].task
<1>1. TypeOK /\ t \in Tasks /\ row[t] \in Rows /\ RowOK(row[t])
  BY PartsTyped DEF SoleInv, PlacesOK, RowsOK, Boot, Claim, Close, Refused
<1>2. CASE UNCHANGED row
  BY <1>2, NoRowMoves
<1>3. CASE row' = AllRecovered
  BY <1>1, <1>3, RecoveredMove
<1>4. ASSUME NEW retryable \in BOOLEAN, row' = [AllRecovered EXCEPT ![t] = Burnt(@, t, retryable)]
      PROVE  AllMove
  BY <1>1, <1>4, BurntMove
<1>5. CASE AllRecovered[t].status = "queued" /\ row' = [AllRecovered EXCEPT ![t] = Claimed(@, p)]
  BY <1>1, <1>5, ClaimedMove
<1>6. CASE Owned(row[t], p) /\ row' = [row EXCEPT ![t] = Failed(@, t, TRUE)]
  BY <1>1, <1>6, FailedMoves, OneRowMoves DEF Owned
<1>7. Boot(p) => \/ UNCHANGED row \/ row' = AllRecovered
                 \/ \E retryable \in BOOLEAN : row' = [AllRecovered EXCEPT ![t] = Burnt(@, t, retryable)]
                 \/ /\ AllRecovered[t].status = "queued"
                    /\ row' = [AllRecovered EXCEPT ![t] = Claimed(@, p)]
  BY DEF Boot
<1>8. Claim(p) => \/ row' = AllRecovered
                  \/ /\ AllRecovered[t].status = "queued"
                     /\ row' = [AllRecovered EXCEPT ![t] = Claimed(@, p)]
  BY DEF Claim
<1>9. Close(p) => \/ UNCHANGED row
                  \/ row' = [AllRecovered EXCEPT ![t] = Burnt(@, t, TRUE)]
                  \/ Owned(row[t], p) /\ row' = [row EXCEPT ![t] = Failed(@, t, TRUE)]
  BY DEF Close, PersistExit
<1>10. Refused(p) => \/ UNCHANGED row
                     \/ \E retryable \in BOOLEAN :
                          row' = [AllRecovered EXCEPT ![t] = Burnt(@, t, retryable)]
  BY DEF Refused
<1> QED
  BY <1>2, <1>3, <1>4, <1>5, <1>6, <1>7, <1>8, <1>9, <1>10

LEMMA NextMoves == SoleInv /\ RowsOK /\ [Next]_vars => AllMove
<1> SUFFICES ASSUME SoleInv, RowsOK, [Next]_vars PROVE AllMove
  OBVIOUS
<1>1. TypeOK
  BY DEF SoleInv
<1>2. CASE UNCHANGED row
  BY <1>2, NoRowMoves
<1>3. CASE row' = AllRecovered
  BY <1>1, <1>3, RecoveredMove
<1>4. ASSUME NEW t \in Tasks, LaunchFails(t) PROVE AllMove
  BY <1>1, <1>4, BurntMove DEF LaunchFails
<1>5. ASSUME NEW p \in Procs,
             WorkerStep(p) \/ KernelStep(p) \/ HearStarted(p) \/ HearDetached(p)
             \/ CrashWorker(p) \/ Hang(p)
      PROVE  AllMove
  <2>1. Boot(p) \/ Claim(p) \/ Close(p) \/ Refused(p) \/ Settle(p) \/ UNCHANGED row
    BY <1>5 DEF WorkerStep, KernelStep, Exit, Kill, Forget, ShutdownTimeout, HearStarted,
                HearDetached, CrashWorker, Hang
  <2> QED
    BY <1>2, <2>1, WorkerMoves, SettleMoves
<1>6. Launch => UNCHANGED row \/ \E t \in Tasks : LaunchFails(t)
  BY <1>1 DEF Launch, Fork, Foremost, TypeOK
<1>7. Pump \/ Stop \/ Restart \/ Recover => UNCHANGED row \/ row' = AllRecovered
  BY DEF Pump, Stop, Restart, Recover
<1>8. UNCHANGED vars => UNCHANGED row
  BY DEF vars
<1> QED
  BY <1>1, <1>2, <1>3, <1>4, <1>5, <1>6, <1>7, <1>8, ClockMoves DEF Next

LEMMA InitContract == Init => RowsOK /\ Contract!ContractInit
<1> SUFFICES ASSUME Init PROVE RowsOK /\ Contract!ContractInit
  OBVIOUS
<1> DEFINE r == [status |-> "queued", owner |-> 0, live |-> FALSE, intent |-> "none",
                 attempts |-> 0]
<1>1. \A t \in Tasks : row[t] = r
  BY DEF Init
<1>2. RowOK(r) /\ View(r) = Contract!New
  BY DEF RowOK, View, Contract!New, Contract!Loose
<1> HIDE DEF r
<1> QED
  BY <1>1, <1>2 DEF RowsOK, Contract!ContractInit

LEMMA ContractStep == AllMove => RowsOK' /\ Contract!ContractNext
<1> SUFFICES ASSUME AllMove PROVE RowsOK' /\ Contract!ContractNext
  OBVIOUS
<1>1. \A t \in Tasks : Contract!TaskStep(View(row[t]), View(row'[t]))
  BY DEF AllMove, Moves
<1>2. \A t \in Tasks : /\ [u \in Tasks |-> View(row[u])][t] = View(row[t])
                       /\ [u \in Tasks |-> View(row[u])]'[t] = View(row'[t])
  OBVIOUS
<1>3. Contract!ContractNext
  BY <1>1, <1>2, Zenon DEF Contract!ContractNext
<1> QED
  BY <1>3 DEF AllMove, Moves, RowsOK

\* What pump, workers, exits, stops and kernels that die do to the rows is what TaskContract
\* allows: the columns left out here decide nothing of it.
THEOREM ImplementsContract == Spec => KeepsContract
<1>1. Init => SoleInv /\ RowsOK
  BY InitSole, InitContract
<1>2. SoleInv /\ RowsOK /\ [Next]_vars => SoleInv' /\ RowsOK' /\ Contract!ContractNext
  BY SoleStep, NextMoves, ContractStep
<1> QED
  BY <1>1, <1>2, InitContract, PTL DEF Spec, KeepsContract, Contract!ContractSpec

===============================================================================
