--------------------------- MODULE DispatcherProofs ---------------------------
(***************************************************************************)
(* Proofs about Dispatcher for any Tasks, Sessions, priorities, limits and *)
(* faults.  activeSessions is the Sessions of the Runs under way; a Task   *)
(* some Run was aborted for is still queued and reserved, or has ended;    *)
(* no Tool is in flight before a Run begins.                               *)
(***************************************************************************)
EXTENDS Dispatcher, FiniteSetTheorems, WellFoundedInduction, TLAPS

Rows == [status : {"absent", "queued", "running", "ended"},
         due : BOOLEAN, bound : BOOLEAN, cancel : BOOLEAN, live : BOOLEAN,
         attempts : Nat, max : Nat]

Reasons == {"none", "lease", "force", "cancel", "stop", "preempt", "idle"}

Execs == [at : {"none", "workspace", "run", "finalize", "closing"}, why : Reasons,
          tools : SUBSET Kinds, by : Tasks \cup {0}, cancel : BOOLEAN, lost : BOOLEAN]

\* A Task that made a Run give way waits for its turn, reserved, or needs it no more.
VictimOK(c) ==
  victims[c] = {} \/ /\ \E t \in Tasks : victims[c] = {t}
                     /\ (c \in reserved /\ row[c].status = "queued") \/ row[c].status = "ended"

VictimsOK == \A c \in Tasks : VictimOK(c)

ToolsOK == \A t \in Tasks : exec[t].at \in {"none", "workspace"} => exec[t].tools = {}

Inv == TypeOK /\ SessionHasOneRun /\ VictimsOK /\ ToolsOK

USE DispatcherAssumption

----------------------------------------------------------------------------
(* The first of some Tasks *)

LEMMA EarlierOrder ==
  /\ \A t, u, v \in Tasks : Earlier(t, u) /\ Earlier(u, v) => Earlier(t, v)
  /\ \A t \in Tasks : ~Earlier(t, t)
  /\ \A t, u \in Tasks : t # u => Earlier(t, u) \/ Earlier(u, t)
<1>1. \A t \in Tasks : t \in Nat /\ Priority[t] \in Nat
  OBVIOUS
<1> QED
  BY <1>1 DEF Earlier

LEMMA StrictlyInside ==
  ASSUME NEW S, NEW A \in SUBSET S, NEW B \in SUBSET S, A \subseteq B, A # B
  PROVE  <<A, B>> \in StrictSubsetOrdering(S)
BY DEF StrictSubsetOrdering

\* claimNext and reserveReadyPreemption take a Task of those they choose from.
LEMMA FirstIsOne ==
  ASSUME NEW S \in SUBSET Tasks, S # {}
  PROVE  FirstOf(S) \in S
<1> DEFINE before(t) == {u \in S : Earlier(u, t)}
           T == {before(t) : t \in S}
<1>1. IsFiniteSet(S)
  BY FS_Subset
<1>2. T \subseteq FiniteSubsetsOf(S) /\ T # {}
  <2>1. \A t \in S : before(t) \in SUBSET S /\ IsFiniteSet(before(t))
    BY <1>1, FS_Subset
  <2> HIDE DEF before
  <2>2. \A t \in S : before(t) \in FiniteSubsetsOf(S)
    BY <2>1 DEF FiniteSubsetsOf
  <2> QED
    BY <2>2
<1>3. PICK X \in T : \A Y \in T : <<Y, X>> \notin StrictSubsetOrdering(S)
  <2> HIDE DEF T
  <2>1. IsWellFoundedOn(StrictSubsetOrdering(S), FiniteSubsetsOf(S))
    BY FS_StrictSubsetOrderingWellFounded
  <2> QED
    BY <1>2, <2>1, WFMin
<1>4. PICK t \in S : X = before(t)
  OBVIOUS
<1>5. ASSUME NEW u \in S, u # t
      PROVE  Earlier(t, u)
  <2>1. SUFFICES ASSUME Earlier(u, t) PROVE FALSE
    BY <1>5, EarlierOrder
  <2>2. before(u) \subseteq before(t)
    BY <2>1, EarlierOrder
  <2>3. u \in before(t) /\ u \notin before(u)
    BY <2>1, EarlierOrder
  <2>4. before(u) \in SUBSET S /\ before(t) \in SUBSET S /\ before(u) \in T
    OBVIOUS
  <2> HIDE DEF before, T
  <2>5. <<before(u), before(t)>> \in StrictSubsetOrdering(S)
    BY <2>2, <2>3, <2>4, StrictlyInside
  <2> QED
    BY <1>3, <1>4, <2>4, <2>5
<1> QED
  BY <1>5 DEF FirstOf
----------------------------------------------------------------------------
(* What the operations on rows and executions return *)

LEMMA Typed ==
  ASSUME TypeOK
  PROVE  /\ row \in [Tasks -> Rows] /\ exec \in [Tasks -> Execs]
         /\ reserved \in SUBSET Tasks /\ victims \in [Tasks -> SUBSET Tasks]
BY DEF TypeOK, Rows, Execs, Reasons

LEMMA Fixed == Absent \in Rows /\ Ended \in Rows /\ Ended.status = "ended" /\ Idle \in Execs
<1>1. Absent \in Rows
  BY DEF Absent, Rows
<1>2. Ended \in Rows /\ Ended.status = "ended"
  BY DEF Ended, Absent, Rows
<1>3. Idle \in Execs
  BY DEF Idle, Execs, Reasons
<1> QED
  BY <1>1, <1>2, <1>3

LEMMA QueuedRow ==
  ASSUME NEW r \in Rows, NEW due \in BOOLEAN
  PROVE  /\ Queued(r, due) \in Rows /\ Queued(r, due).status = "queued"
         /\ Queued(r, due).due = due
BY DEF Queued, Rows

\* No operation but a claim and a cancel takes a Task out of the queue, or back from its end.
Keeps(r, q) == r.status # "running" => q = r

LEMMA RowOps ==
  ASSUME NEW r \in Rows
  PROVE  /\ Recovered(r) \in Rows /\ Keeps(r, Recovered(r))
         /\ Settled(r) \in Rows /\ Keeps(r, Settled(r))
         /\ Preempted(r) \in Rows /\ Keeps(r, Preempted(r))
         /\ Requeued(r) \in Rows /\ Keeps(r, Requeued(r))
         /\ \A b \in BOOLEAN : Failed(r, b) \in Rows /\ Keeps(r, Failed(r, b))
         /\ Superseded(r) \in Rows /\ (Superseded(r) = r \/ Superseded(r) = Ended)
<1>1. [Queued(r, TRUE) EXCEPT !.max = @ + 1] \in Rows
  <2>1. ASSUME NEW q \in Rows PROVE [q EXCEPT !.max = @ + 1] \in Rows
    BY DEF Rows
  <2> QED
    BY <2>1, QueuedRow
<1>2. Queued(r, TRUE) \in Rows /\ Queued(r, FALSE) \in Rows /\ Ended \in Rows
  BY QueuedRow, Fixed
<1>3. Recovered(r) \in Rows /\ Keeps(r, Recovered(r))
  BY <1>2 DEF Recovered, Keeps
<1>4. Settled(r) \in Rows /\ Keeps(r, Settled(r))
  BY <1>2 DEF Settled, Keeps
<1>5. Preempted(r) \in Rows /\ Keeps(r, Preempted(r))
  BY <1>1 DEF Preempted, Fenced, Leased, Keeps
<1>6. Requeued(r) \in Rows /\ Keeps(r, Requeued(r))
  BY <1>2 DEF Requeued, Fenced, Leased, Keeps
<1>7. ASSUME NEW b \in BOOLEAN PROVE Failed(r, b) \in Rows /\ Keeps(r, Failed(r, b))
  BY <1>2 DEF Failed, Fenced, Leased, Keeps
<1>8. Superseded(r) \in Rows /\ (Superseded(r) = r \/ Superseded(r) = Ended)
  BY <1>2 DEF Superseded
<1> QED
  BY <1>3, <1>4, <1>5, <1>6, <1>7, <1>8

LEMMA RecoveredRows ==
  ASSUME row \in [Tasks -> Rows]
  PROVE  AllRecovered \in [Tasks -> Rows] /\ \A t \in Tasks : Keeps(row[t], AllRecovered[t])
BY RowOps DEF AllRecovered

LEMMA AbortedExec ==
  ASSUME NEW x \in Execs, NEW why \in Reasons
  PROVE  /\ Aborted(x, why) \in Execs
         /\ Aborted(x, why).at = x.at /\ Aborted(x, why).tools = x.tools
         /\ Aborted(x, why).lost = x.lost
         /\ Aborted(x, why).why \in {x.why, why}
         /\ x.why # "none" => Aborted(x, why).why = x.why
BY DEF Aborted, Execs

LEMMA CancelledExec ==
  ASSUME NEW x \in Execs
  PROVE  /\ CancelledRun(x) \in Execs
         /\ CancelledRun(x).at = x.at /\ CancelledRun(x).tools = x.tools
         /\ CancelledRun(x).why = x.why \/ (CancelledRun(x).why = "cancel" /\ x.tools \subseteq {"shell"})
<1> DEFINE y == [x EXCEPT !.cancel = TRUE]
<1>1. y \in Execs /\ y.at = x.at /\ y.tools = x.tools /\ y.why = x.why
  BY DEF Execs
<1>2. "cancel" \in Reasons
  BY DEF Reasons
<1> HIDE DEF y
<1>3. CancelledRun(x) = IF x.tools \subseteq {"shell"} THEN Aborted(y, "cancel") ELSE y
  BY DEF CancelledRun, y
<1> QED
  BY <1>1, <1>2, <1>3, AbortedExec

LEMMA StoppedExec ==
  ASSUME NEW x \in Execs
  PROVE  /\ StoppedRun(x) \in Execs
         /\ StoppedRun(x).at = x.at /\ StoppedRun(x).tools = x.tools
         /\ StoppedRun(x).why = x.why \/ x.tools = {}
<1>1. "stop" \in Reasons
  BY DEF Reasons
<1> QED
  BY <1>1, AbortedExec DEF StoppedRun
----------------------------------------------------------------------------
(* Steps that keep the Runs, and what they were aborted for *)

\* Executions may change, but nobody enters or leaves a Session.
LEMMA SameRuns ==
  ASSUME SessionHasOneRun, UNCHANGED <<home, busy>>, \A t \in Tasks : exec'[t].at = exec[t].at
  PROVE  SessionHasOneRun'
<1>1. \A t \in Tasks : OwnsSession(t)' <=> OwnsSession(t)
  BY DEF OwnsSession
<1> QED
  BY <1>1 DEF SessionHasOneRun

\* Whether a Task that some Run was aborted for may still be waiting.
Waits(c) == row[c].status = "queued" => row'[c].status \in {"queued", "ended"}

LEMMA SameVictims ==
  ASSUME VictimsOK, NEW S \in SUBSET Tasks, reserved' = reserved \ S,
         \A c \in S : row'[c].status # "queued" \/ row[c].status # "queued" \/ victims'[c] = {},
         \A c \in Tasks : victims'[c] = {} \/ /\ victims'[c] = victims[c] /\ Waits(c)
                                              /\ row[c].status = "ended" => row'[c].status = "ended"
  PROVE  VictimsOK'
<1> SUFFICES ASSUME NEW c \in Tasks, victims'[c] # {} PROVE VictimOK(c)'
  BY DEF VictimsOK, VictimOK
<1>1. VictimOK(c) /\ victims'[c] = victims[c] /\ Waits(c) /\ (row[c].status = "ended" => row'[c].status = "ended")
  BY DEF VictimsOK
<1>2. CASE row[c].status = "ended"
  BY <1>1, <1>2 DEF VictimOK
<1>3. CASE c \in reserved /\ row[c].status = "queued"
  <2>1. CASE row'[c].status = "ended"
    BY <1>1, <2>1 DEF VictimOK
  <2>2. CASE row'[c].status = "queued"
    <3>1. c \in reserved'
      BY <1>3, <2>2
    <3> QED
      BY <1>1, <2>2, <3>1 DEF VictimOK
  <2> QED
    BY <1>1, <1>3, <2>1, <2>2 DEF Waits
<1> QED
  BY <1>1, <1>2, <1>3 DEF VictimOK

\* checkPreemption chooses one Task that no Run was aborted for yet.
LEMMA PreemptionStep ==
  ASSUME TypeOK, VictimsOK, NEW t \in Tasks, NEW x \in Execs,
         row' \in [Tasks -> Rows],
         \A c \in Tasks : Waits(c) /\ (row[c].status = "ended" => row'[c].status = "ended"),
         CheckedPreemption(t, x, row')
  PROVE  /\ \E y \in Execs : /\ exec' = [exec EXCEPT ![t] = y]
                             /\ y.at = x.at /\ y.tools = x.tools
                             /\ y.why = x.why \/ x.tools = {}
         /\ reserved' \in SUBSET Tasks /\ victims' \in [Tasks -> SUBSET Tasks]
         /\ VictimsOK'
<1> USE Typed
<1>1. CASE ~MayPreempt(x)
  <2>1. exec' = [exec EXCEPT ![t] = x] /\ UNCHANGED <<reserved, victims>>
    BY <1>1 DEF CheckedPreemption
  <2>2. VictimsOK'
    BY <2>1 DEF VictimsOK, VictimOK, Waits
  <2> QED
    BY <2>1, <2>2
<1>2. CASE MayPreempt(x) /\ Rivals(t, row') = {}
  <2>1. exec' = [exec EXCEPT ![t] = x] /\ UNCHANGED victims
        /\ reserved' = {c \in reserved : row'[c].status = "queued"}
    BY <1>2 DEF CheckedPreemption, StillReserved
  <2>2. VictimsOK'
    BY <2>1 DEF VictimsOK, VictimOK, Waits
  <2> QED
    BY <2>1, <2>2
<1>3. CASE MayPreempt(x) /\ Rivals(t, row') # {}
  <2>1. Rivals(t, row') \in SUBSET Tasks
    BY DEF Rivals, Ready
  <2>2. PICK c \in Rivals(t, row') : c = FirstOf(Rivals(t, row'))
    BY <1>3, <2>1, FirstIsOne
  <2> DEFINE z == [x EXCEPT !.by = c]
  <2>3. c \in Tasks /\ row'[c].status = "queued" /\ c \notin reserved
    BY <2>2 DEF Rivals, Ready, StillReserved
  <2>4. /\ exec' = [exec EXCEPT ![t] = Aborted(z, "preempt")]
        /\ reserved' = {d \in reserved : row'[d].status = "queued"} \cup {c}
        /\ victims' = [victims EXCEPT ![c] = @ \cup {t}]
    BY <1>3, <2>2 DEF CheckedPreemption, StillReserved
  <2>5. z \in Execs /\ z.at = x.at /\ z.tools = x.tools
    <3>1. c \in Tasks \cup {0}
      BY <2>3
    <3> QED
      BY <3>1 DEF Execs
  <2>6. "preempt" \in Reasons /\ x.tools = {}
    BY <1>3 DEF Reasons, MayPreempt
  <2> HIDE DEF z
  <2>7. PICK y \in Execs : /\ y = Aborted(z, "preempt")
                           /\ y.at = x.at /\ y.tools = x.tools
    BY <2>5, <2>6, AbortedExec
  <2>8. victims[c] = {}
    BY <2>3 DEF VictimsOK, VictimOK, Waits
  <2>9. victims'[c] = {t} /\ \A d \in Tasks \ {c} : victims'[d] = victims[d]
    BY <2>3, <2>4, <2>8
  <2>10. VictimOK(c)'
    BY <2>3, <2>4, <2>9 DEF VictimOK
  <2>11. \A d \in Tasks \ {c} : VictimOK(d)'
    BY <2>4, <2>9 DEF VictimsOK, VictimOK, Waits
  <2>12. reserved' \in SUBSET Tasks /\ victims' \in [Tasks -> SUBSET Tasks]
    BY <2>3, <2>4
  <2> QED
    BY <2>4, <2>6, <2>7, <2>10, <2>11, <2>12 DEF VictimsOK
<1> QED
  BY <1>1, <1>2, <1>3
----------------------------------------------------------------------------
(* What each step shows: the invariant, and that it cuts no Tool *)

Cut(t) ==
  /\ exec[t].why = "none" /\ exec'[t].why # "none" /\ exec[t].tools # {} /\ exec'[t].tools # {}
  /\ ~(exec'[t].why = "lease" \/ (exec'[t].why = "cancel" /\ exec'[t].tools \subseteq {"shell"}))

Good == TypeOK' /\ SessionHasOneRun' /\ VictimsOK' /\ ToolsOK' /\ \A t \in Tasks : ~Cut(t)

Same == UNCHANGED busy
Enters(t) == home[t] \notin busy /\ busy' = busy \cup {home[t]}
Leaves(t) == busy' = busy \ {home[t]}

\* A step of one execution: it stays where it is, or enters or leaves its Session.
LEMMA OneExecution ==
  ASSUME Inv, NEW t \in Tasks, NEW y \in Execs, exec' = [exec EXCEPT ![t] = y],
         UNCHANGED home, row' \in [Tasks -> Rows], reserved' \in SUBSET Tasks,
         victims' \in [Tasks -> SUBSET Tasks], stopping' \in {"no", "stop", "force"}, VictimsOK',
         y.at \in {"none", "workspace"} => y.tools = {},
         \/ y.why \in {"none", "lease", exec[t].why} \/ y.tools = {} \/ exec[t].tools = {}
         \/ y.why = "cancel" /\ y.tools \subseteq {"shell"},
         \/ Same /\ y.at = exec[t].at
         \/ Same /\ exec[t].at \in {"none", "workspace"} /\ y.at \in {"none", "workspace"}
         \/ Same /\ OwnsSession(t) /\ y.at \in {"run", "finalize", "closing"}
         \/ Enters(t) /\ exec[t].at = "workspace" /\ y.at = "run"
         \/ Leaves(t) /\ OwnsSession(t) /\ y.at = "none"
  PROVE  Good
<1> USE DEF Inv
<1>1. exec \in [Tasks -> Execs]
  BY Typed
<1>2. exec'[t] = y /\ \A u \in Tasks \ {t} : exec'[u] = exec[u]
  BY <1>1
<1>3. exec' \in [Tasks -> Execs]
  BY <1>1
<1>4. TypeOK'
  BY <1>3 DEF TypeOK, Rows, Execs, Reasons
<1>5. ToolsOK'
  BY <1>2 DEF ToolsOK
<1>6. \A u \in Tasks : ~Cut(u)
  BY <1>2 DEF Cut
<1>7. \A u \in Tasks \ {t} : OwnsSession(u)' <=> OwnsSession(u)
  BY <1>2 DEF OwnsSession
<1>8. SessionHasOneRun'
  <2>1. CASE Same /\ (OwnsSession(t)' <=> OwnsSession(t))
    BY <1>7, <2>1 DEF SessionHasOneRun, Same
  <2>2. CASE Enters(t) /\ ~OwnsSession(t) /\ OwnsSession(t)'
    BY <1>7, <2>2 DEF SessionHasOneRun, Enters
  <2>3. CASE Leaves(t) /\ OwnsSession(t) /\ ~OwnsSession(t)'
    <3> DEFINE O == {u \in Tasks : OwnsSession(u)}
    <3>1. busy = {home[u] : u \in O} /\ \A u \in O : home[u] = home[t] => u = t
      BY <2>3 DEF SessionHasOneRun
    <3>2. O' = O \ {t}
      BY <1>7, <2>3
    <3>3. busy' = {home[u] : u \in O \ {t}}
      BY <2>3, <3>1 DEF Leaves
    <3>4. busy' = {home[u] : u \in O'}
      BY <3>2, <3>3
    <3>5. \A u, v \in Tasks : OwnsSession(u)' /\ OwnsSession(v)' /\ home[u] = home[v] => u = v
      BY <1>7, <2>3 DEF SessionHasOneRun
    <3> QED
      BY <3>4, <3>5 DEF SessionHasOneRun
  <2> QED
    BY <1>2, <2>1, <2>2, <2>3 DEF OwnsSession
<1> QED
  BY <1>4, <1>5, <1>6, <1>8 DEF Good

\* A step that leaves every execution as it is.
LEMMA NoExecution ==
  ASSUME Inv, UNCHANGED <<home, exec, busy>>, row' \in [Tasks -> Rows], reserved' \in SUBSET Tasks,
         victims' \in [Tasks -> SUBSET Tasks], stopping' \in {"no", "stop", "force"}, VictimsOK'
  PROVE  Good
<1> USE DEF Inv
<1>1. TypeOK'
  BY DEF TypeOK, Rows
<1>2. SessionHasOneRun'
  BY SameRuns
<1>3. ToolsOK' /\ \A u \in Tasks : ~Cut(u)
  BY DEF ToolsOK, Cut
<1> QED
  BY <1>1, <1>2, <1>3 DEF Good

LEMMA QueueStep ==
  ASSUME Inv, NEW t \in Tasks, Enqueue(t) \/ Due(t) \/ Lapse(t)
  PROVE  Good
<1> USE DEF Inv
<1>1. row \in [Tasks -> Rows]
  BY Typed
<1>2. PICK q \in Rows : row' = [row EXCEPT ![t] = q] /\ (q.status = row[t].status \/ row[t].status = "absent")
  <2>1. CASE Enqueue(t)
    <3> DEFINE q == [Queued(row[t], TRUE) EXCEPT !.bound = t \in Known]
    <3>1. q \in Rows
      <4>1. Queued(row[t], TRUE) \in Rows
        BY <1>1, QueuedRow
      <4>2. ASSUME NEW r \in Rows, NEW b \in BOOLEAN PROVE [r EXCEPT !.bound = b] \in Rows
        BY DEF Rows
      <4>3. (t \in Known) \in BOOLEAN
        OBVIOUS
      <4> QED
        BY <4>1, <4>2, <4>3, Zenon
    <3> QED
      BY <2>1, <3>1 DEF Enqueue
  <2>2. CASE Due(t)
    <3>1. [row[t] EXCEPT !.due = TRUE] \in Rows /\ [row[t] EXCEPT !.due = TRUE].status = row[t].status
      BY <1>1 DEF Rows
    <3> QED
      BY <1>1, <2>2, <3>1 DEF Due
  <2>3. CASE Lapse(t)
    <3>1. [row[t] EXCEPT !.live = FALSE] \in Rows /\ [row[t] EXCEPT !.live = FALSE].status = row[t].status
      BY <1>1 DEF Rows
    <3> QED
      BY <1>1, <2>3, <3>1 DEF Lapse
  <2> QED
    BY <2>1, <2>2, <2>3
<1>3. UNCHANGED <<home, exec, busy, reserved, stopping, victims>>
  BY DEF Enqueue, Due, Lapse
<1>4. row' \in [Tasks -> Rows] /\ \A c \in Tasks : Waits(c) /\ (row[c].status = "ended" => row'[c].status = "ended")
  BY <1>1, <1>2 DEF Waits
<1>5. VictimsOK'
  <2>1. reserved' = reserved \ {}
    BY <1>3
  <2> QED
    BY <1>3, <1>4, <2>1, SameVictims
<1> QED
  BY <1>3, <1>4, <1>5, NoExecution, Typed DEF TypeOK

LEMMA ClaimStep ==
  ASSUME Inv, NEW t \in Tasks, Claim(t)
  PROVE  Good
<1> USE DEF Inv
<1>1. /\ row \in [Tasks -> Rows] /\ exec \in [Tasks -> Execs]
      /\ reserved \in SUBSET Tasks /\ victims \in [Tasks -> SUBSET Tasks]
  BY Typed
<1>2. AllRecovered \in [Tasks -> Rows] /\ \A c \in Tasks : Keeps(row[c], AllRecovered[c])
  BY <1>1, RecoveredRows
<1>3. PICK q \in Rows : row' = [AllRecovered EXCEPT ![t] = q]
  <2>1. [AllRecovered[t] EXCEPT !.status = "running", !.due = FALSE, !.live = TRUE, !.attempts = @ + 1] \in Rows
    <3>1. ASSUME NEW r \in Rows
          PROVE  [r EXCEPT !.status = "running", !.due = FALSE, !.live = TRUE, !.attempts = @ + 1] \in Rows
      <4>1. r.attempts + 1 \in Nat
        BY DEF Rows
      <4>2. [r EXCEPT !.status = "running", !.due = FALSE, !.live = TRUE] \in Rows
        BY DEF Rows
      <4> QED
        BY <4>1, <4>2 DEF Rows
    <3> QED
      BY <1>2, <3>1
  <2> QED
    BY <2>1, Fixed DEF Claim
<1>4. row' \in [Tasks -> Rows] /\ \A c \in Tasks \ {t} : Keeps(row[c], row'[c])
  BY <1>2, <1>3
<1>5. reserved' = reserved \ {t} /\ victims' = [victims EXCEPT ![t] = {}] /\ UNCHANGED <<home, busy, stopping>>
  BY DEF Claim
<1>6. VictimsOK'
  <2>1. \A c \in Tasks \ {t} : Waits(c) /\ (row[c].status = "ended" => row'[c].status = "ended")
    BY <1>4 DEF Keeps, Waits
  <2>2. victims'[t] = {} /\ \A c \in Tasks \ {t} : victims'[c] = victims[c]
    BY <1>1, <1>5
  <2>3. \A c \in {t} : row'[c].status # "queued" \/ row[c].status # "queued" \/ victims'[c] = {}
    BY <2>2
  <2>4. {t} \in SUBSET Tasks
    OBVIOUS
  <2> QED
    BY <1>5, <2>1, <2>2, <2>3, <2>4, SameVictims
<1>7. reserved' \in SUBSET Tasks /\ victims' \in [Tasks -> SUBSET Tasks] /\ stopping' \in {"no", "stop", "force"}
  BY <1>1, <1>5 DEF TypeOK
<1>8. CASE UNCHANGED exec
  BY <1>4, <1>5, <1>6, <1>7, <1>8, NoExecution
<1>9. CASE ~Active(t) /\ exec' = [exec EXCEPT ![t] = [Idle EXCEPT !.at = "workspace"]]
  <2>1. PICK y \in Execs : y = [Idle EXCEPT !.at = "workspace"]
    <3>1. ASSUME NEW x \in Execs PROVE [x EXCEPT !.at = "workspace"] \in Execs
      BY DEF Execs
    <3> QED
      BY <3>1, Fixed
  <2>2. y.at = "workspace" /\ y.why = "none" /\ y.tools = {}
    BY <2>1 DEF Idle
  <2>3. exec[t].at = "none"
    BY <1>9 DEF Active
  <2> QED
    BY <1>4, <1>5, <1>6, <1>7, <1>9, <2>1, <2>2, <2>3, OneExecution DEF Same
<1> QED
  BY <1>1, <1>8, <1>9 DEF Claim
\* Rows that change within the queue, or end, with the executions as they were.
LEMMA RowsWait ==
  ASSUME TypeOK, row' \in [Tasks -> Rows], \A c \in Tasks : Keeps(row[c], row'[c]) \/ row'[c] = Ended
  PROVE  \A c \in Tasks : Waits(c) /\ (row[c].status = "ended" => row'[c].status = "ended")
BY Fixed DEF Keeps, Waits

LEMMA RowsVictims ==
  ASSUME Inv, row' \in [Tasks -> Rows], \A c \in Tasks : Keeps(row[c], row'[c]) \/ row'[c] = Ended,
         UNCHANGED <<reserved, victims>>
  PROVE  VictimsOK'
<1>1. reserved' = reserved \ {}
  OBVIOUS
<1> QED
  BY <1>1, RowsWait, SameVictims DEF Inv

LEMMA OneRow ==
  ASSUME Inv, NEW t \in Tasks, NEW q \in Rows, Keeps(row[t], q) \/ q = Ended,
         row' = [row EXCEPT ![t] = q]
  PROVE  row' \in [Tasks -> Rows] /\ \A c \in Tasks : Keeps(row[c], row'[c]) \/ row'[c] = Ended
<1>1. row \in [Tasks -> Rows]
  BY Typed DEF Inv
<1>2. \A c \in Tasks : Keeps(row[c], row[c])
  BY DEF Keeps
<1> QED
  BY <1>1, <1>2

LEMMA RecoverStep ==
  ASSUME Inv, Recover
  PROVE  Good
<1>1. row' \in [Tasks -> Rows] /\ \A c \in Tasks : Keeps(row[c], row'[c])
  BY RecoveredRows, Typed DEF Recover, Inv
<1>2. UNCHANGED <<home, exec, busy, reserved, stopping, victims>>
  BY DEF Recover
<1>3. VictimsOK'
  BY <1>1, <1>2, RowsVictims
<1> QED
  BY <1>1, <1>2, <1>3, NoExecution, Typed DEF Inv, TypeOK

\* The claimed Task leaves the Runs under way, or never had one.
LEMMA ExecTypes ==
  ASSUME Inv, NEW t \in Tasks
  PROVE  /\ row[t] \in Rows /\ exec[t] \in Execs
         /\ row \in [Tasks -> Rows] /\ reserved \in SUBSET Tasks /\ victims \in [Tasks -> SUBSET Tasks]
         /\ stopping \in {"no", "stop", "force"}
         /\ Idle \in Execs /\ Idle.at = "none" /\ Idle.why = "none" /\ Idle.tools = {}
BY Typed, Fixed DEF Inv, TypeOK, Idle

\* What an assignment to one field of an execution leaves of it.
LEMMA ExecEdits ==
  ASSUME NEW x \in Execs
  PROVE  /\ \A a \in {"finalize", "closing"} :
              LET y == [x EXCEPT !.at = a]
              IN  y \in Execs /\ y.at = a /\ y.why = x.why /\ y.tools = x.tools
         /\ LET y == [x EXCEPT !.why = "idle"]
            IN  y \in Execs /\ y.at = x.at /\ y.tools = x.tools
         /\ LET y == [x EXCEPT !.lost = TRUE]
            IN  y \in Execs /\ y.at = x.at /\ y.why = x.why /\ y.tools = x.tools
         /\ \A T \in SUBSET Kinds :
              LET y == [x EXCEPT !.tools = T]
              IN  y \in Execs /\ y.at = x.at /\ y.why = x.why /\ y.tools = T
BY DEF Execs, Reasons

\* How a Run ends that does not complete.
LEMMA RejectedIs ==
  ASSUME Inv, NEW t \in Tasks, Rejected(t), OwnsSession(t)
  PROVE  /\ \E q \in Rows : (Keeps(row[t], q) \/ q = Ended) /\ row' = [row EXCEPT ![t] = q]
         /\ \/ Leave(t)
            \/ exec' = [exec EXCEPT ![t].at = "closing"] /\ UNCHANGED busy
<1>1. row \in [Tasks -> Rows] /\ row[t] \in Rows
  BY ExecTypes
<1>2. row[t] \in Rows /\ Keeps(row[t], row[t]) /\ row = [row EXCEPT ![t] = row[t]]
  BY <1>1 DEF Keeps
<1>3. \E q \in Rows : (Keeps(row[t], q) \/ q = Ended) /\ row' = [row EXCEPT ![t] = q]
  <2>1. CASE UNCHANGED row
    BY <1>2, <2>1
  <2>2. CASE row' = [row EXCEPT ![t] = Settled(@)]
    BY <1>1, <2>2, RowOps
  <2>3. CASE row' = [row EXCEPT ![t] = Superseded(@)]
    BY <1>1, <1>2, <2>3, RowOps
  <2>4. CASE row' = [row EXCEPT ![t] = Preempted(@)]
    BY <1>1, <2>4, RowOps
  <2>5. CASE row' = [row EXCEPT ![t] = Requeued(@)]
    BY <1>1, <2>5, RowOps
  <2>6. CASE \E retryable \in BOOLEAN : row' = [row EXCEPT ![t] = Failed(@, retryable)]
    BY <1>1, <2>6, RowOps
  <2> QED
    BY <2>1, <2>2, <2>3, <2>4, <2>5, <2>6 DEF Rejected
<1>4. Leave(t) \/ (exec' = [exec EXCEPT ![t].at = "closing"] /\ UNCHANGED busy)
  BY DEF Rejected
<1> QED
  BY <1>3, <1>4

\* The Run ends: its execution goes, or only the ledger remains to be closed.
LEMMA EndStep ==
  ASSUME Inv, NEW t \in Tasks, RunThrows(t) \/ Complete(t) \/ Close(t)
  PROVE  Good
<1>0. /\ row[t] \in Rows /\ exec[t] \in Execs /\ row \in [Tasks -> Rows]
      /\ reserved \in SUBSET Tasks /\ victims \in [Tasks -> SUBSET Tasks]
      /\ stopping \in {"no", "stop", "force"}
      /\ Idle \in Execs /\ Idle.at = "none" /\ Idle.why = "none" /\ Idle.tools = {}
  BY ExecTypes
<1>1. OwnsSession(t) /\ UNCHANGED <<home, reserved, stopping, victims>>
  BY DEF RunThrows, Complete, Close, OwnsSession
<1>2. \/ Leave(t)
      \/ exec' = [exec EXCEPT ![t].at = "closing"] /\ UNCHANGED busy
  BY <1>0, <1>1, RejectedIs DEF RunThrows, Complete, Close
<1>3. \E q \in Rows : (Keeps(row[t], q) \/ q = Ended) /\ row' = [row EXCEPT ![t] = q]
  <2>1. CASE Rejected(t)
    BY <1>0, <1>1, <2>1, RejectedIs
  <2>2. CASE row' = [row EXCEPT ![t] = Ended]
    BY <2>2, Fixed
  <2>3. CASE UNCHANGED row
    <3>1. Keeps(row[t], row[t]) /\ row' = [row EXCEPT ![t] = row[t]]
      BY <1>0, <2>3 DEF Keeps
    <3> QED
      BY <1>0, <3>1
  <2> QED
    BY <2>1, <2>2, <2>3 DEF RunThrows, Complete, Close
<1>4. row' \in [Tasks -> Rows] /\ \A c \in Tasks : Keeps(row[c], row'[c]) \/ row'[c] = Ended
  BY <1>0, <1>3, OneRow
<1>5. VictimsOK'
  BY <1>0, <1>1, <1>4, RowsVictims
<1>6. CASE Leave(t)
  <2>1. exec' = [exec EXCEPT ![t] = Idle] /\ Leaves(t)
    BY <1>6 DEF Leave, Leaves
  <2> QED
    BY <1>0, <1>1, <1>4, <1>5, <2>1, OneExecution
<1>7. CASE exec' = [exec EXCEPT ![t].at = "closing"] /\ UNCHANGED busy
  <2>1. PICK y \in Execs : y = [exec[t] EXCEPT !.at = "closing"]
    BY <1>0, ExecEdits
  <2>2. y.at = "closing" /\ y.why = exec[t].why
    BY <1>0, <2>1, ExecEdits
  <2>3. exec' = [exec EXCEPT ![t] = y]
    BY <1>7, <2>1
  <2> QED
    BY <1>0, <1>1, <1>4, <1>5, <1>7, <2>2, <2>3, OneExecution DEF Same
<1> QED
  BY <1>2, <1>6, <1>7

\* Timers, events of the Run and its answer: only its own execution changes.
LEMMA RunStep ==
  ASSUME Inv, NEW t \in Tasks,
         LoseLease(t) \/ GoQuiet(t) \/ CallTools(t) \/ ToolOutput(t) \/ RunReturns(t)
  PROVE  Good
<1>0. /\ row[t] \in Rows /\ exec[t] \in Execs /\ row \in [Tasks -> Rows]
      /\ reserved \in SUBSET Tasks /\ victims \in [Tasks -> SUBSET Tasks]
      /\ stopping \in {"no", "stop", "force"}
      /\ Idle \in Execs /\ Idle.at = "none" /\ Idle.why = "none" /\ Idle.tools = {}
  BY ExecTypes
<1>1. UNCHANGED <<home, row, busy, reserved, stopping, victims>>
  BY DEF LoseLease, GoQuiet, CallTools, ToolOutput, RunReturns
<1>2. row' \in [Tasks -> Rows] /\ \A c \in Tasks : Keeps(row[c], row'[c]) \/ row'[c] = Ended
  BY <1>0, <1>1 DEF Keeps
<1>3. VictimsOK'
  BY <1>0, <1>1, <1>2, RowsVictims
<1>4. ASSUME NEW y \in Execs, exec' = [exec EXCEPT ![t] = y],
             \/ y.at = exec[t].at
             \/ OwnsSession(t) /\ y.at \in {"run", "finalize", "closing"},
             exec[t].at \in {"none", "workspace"} => y.tools = exec[t].tools,
             \/ y.why \in {"none", "lease", exec[t].why} \/ y.tools = {} \/ exec[t].tools = {}
             \/ y.why = "cancel" /\ y.tools \subseteq {"shell"}
      PROVE  Good
  <2>1. y.at \in {"none", "workspace"} => y.tools = {}
    BY <1>4 DEF Inv, ToolsOK, OwnsSession
  <2> QED
    BY <1>0, <1>1, <1>2, <1>3, <1>4, <2>1, OneExecution DEF Same
<1>5. CASE LoseLease(t)
  <2>1. PICK x \in Execs : x = [exec[t] EXCEPT !.lost = TRUE]
    BY <1>0, ExecEdits
  <2>2. x.at = exec[t].at /\ x.tools = exec[t].tools /\ x.why = exec[t].why
    BY <1>0, <2>1, ExecEdits
  <2>3. "lease" \in Reasons
    BY DEF Reasons
  <2>4. exec' = [exec EXCEPT ![t] = Aborted(x, "lease")]
    BY <1>5, <2>1 DEF LoseLease
  <2>5. PICK y \in Execs : y = Aborted(x, "lease")
    BY <2>3, AbortedExec
  <2>6. y.at = x.at /\ y.tools = x.tools /\ y.why \in {x.why, "lease"}
    BY <2>3, <2>5, AbortedExec
  <2> QED
    BY <1>4, <2>2, <2>4, <2>5, <2>6
<1>6. CASE GoQuiet(t)
  <2>1. PICK y \in Execs : y = [exec[t] EXCEPT !.why = "idle"]
    BY <1>0, ExecEdits
  <2>2. y.at = exec[t].at /\ y.tools = exec[t].tools
    BY <1>0, <2>1, ExecEdits
  <2>3. exec[t].tools = {} /\ exec' = [exec EXCEPT ![t] = y]
    BY <1>6, <2>1 DEF GoQuiet
  <2> QED
    BY <1>4, <2>2, <2>3
<1>7. CASE CallTools(t)
  <2>1. PICK calls \in Turns : exec' = [exec EXCEPT ![t].tools = calls]
    BY <1>7 DEF CallTools
  <2>2. calls \in SUBSET Kinds
    BY <2>1
  <2>3. PICK y \in Execs : y = [exec[t] EXCEPT !.tools = calls]
    BY <1>0, <2>2, ExecEdits
  <2>4. y.at = exec[t].at /\ y.why = exec[t].why
    BY <1>0, <2>2, <2>3, ExecEdits
  <2>5. exec[t].at = "run" /\ exec' = [exec EXCEPT ![t] = y]
    BY <1>7, <2>1, <2>3 DEF CallTools
  <2> QED
    BY <1>4, <2>4, <2>5
<1>8. CASE ToolOutput(t)
  <2>1. PICK k \in exec[t].tools :
          exec' = [exec EXCEPT ![t] = AfterOutput([exec[t] EXCEPT !.tools = @ \ {k}], row[t].cancel)]
    BY <1>8 DEF ToolOutput
  <2> DEFINE left == exec[t].tools \ {k}
  <2>0. left \in SUBSET Kinds
    BY <1>0 DEF Execs
  <2>2. PICK x \in Execs : x = [exec[t] EXCEPT !.tools = @ \ {k}]
    BY <1>0, <2>0, ExecEdits
  <2>3. x.at = exec[t].at /\ x.why = exec[t].why
    BY <1>0, <2>0, <2>2, ExecEdits
  <2>7. exec[t].at = "run"
    BY <1>8 DEF ToolOutput
  <2>4. PICK y \in Execs : y = AfterOutput(x, row[t].cancel)
    BY CancelledExec, StoppedExec DEF AfterOutput
  <2>5. y.at = x.at /\ (y.why = x.why \/ y.tools = {} \/ (y.why = "cancel" /\ y.tools \subseteq {"shell"}))
    BY <2>4, CancelledExec, StoppedExec DEF AfterOutput
  <2>6. exec' = [exec EXCEPT ![t] = y]
    BY <2>1, <2>2, <2>4
  <2> QED
    BY <1>4, <2>3, <2>5, <2>6, <2>7
<1>9. CASE RunReturns(t)
  <2>1. PICK y \in Execs : y = [exec[t] EXCEPT !.at = "finalize"]
    BY <1>0, ExecEdits
  <2>2. y.at = "finalize" /\ y.why = exec[t].why
    BY <1>0, <2>1, ExecEdits
  <2>3. exec[t].at = "run" /\ exec' = [exec EXCEPT ![t] = y]
    BY <1>9, <2>1 DEF RunReturns
  <2> QED
    BY <1>4, <2>2, <2>3 DEF OwnsSession
<1> QED
  BY <1>5, <1>6, <1>7, <1>8, <1>9
\* The workspace is known: the Task is refused, put back, or enters its Session.
LEMMA ResolveStep ==
  ASSUME Inv, NEW t \in Tasks, Resolve(t)
  PROVE  Good
<1>0. /\ row[t] \in Rows /\ exec[t] \in Execs /\ row \in [Tasks -> Rows] /\ exec \in [Tasks -> Execs]
      /\ reserved \in SUBSET Tasks /\ victims \in [Tasks -> SUBSET Tasks]
      /\ stopping \in {"no", "stop", "force"}
      /\ Idle \in Execs /\ Idle.at = "none" /\ Idle.why = "none" /\ Idle.tools = {}
  BY ExecTypes, Typed DEF Inv
<1>1. exec[t].at = "workspace" /\ exec[t].tools = {} /\ UNCHANGED <<home, stopping>>
  BY DEF Resolve, Inv, ToolsOK
<1>2. CASE BindRefused(t) \/ PutBack(t)
  <2>1. exec' = [exec EXCEPT ![t] = Idle] /\ UNCHANGED <<busy, reserved, victims>>
    BY <1>2 DEF BindRefused, PutBack
  <2>2. \E q \in Rows : (Keeps(row[t], q) \/ q = Ended) /\ row' = [row EXCEPT ![t] = q]
    <3>1. CASE BindRefused(t)
      <4>1. row' = [row EXCEPT ![t] = row[t]] \/ row' = [row EXCEPT ![t] = Settled(row[t])]
        BY <3>1 DEF BindRefused
      <4>2. Keeps(row[t], row[t])
        BY DEF Keeps
      <4> QED
        BY <1>0, <4>1, <4>2, RowOps
    <3>2. CASE PutBack(t)
      <4>1. PICK r \in Rows : r = Requeued(row[t])
        BY <1>0, RowOps
      <4>2. [r EXCEPT !.bound = TRUE] \in Rows
        BY DEF Rows
      <4>3. row' = [row EXCEPT ![t] = [r EXCEPT !.bound = TRUE]] /\ row[t].status = "running"
        BY <3>2, <4>1 DEF PutBack, Fenced, Leased
      <4>4. Keeps(row[t], [r EXCEPT !.bound = TRUE])
        BY <4>3 DEF Keeps
      <4> QED
        BY <4>2, <4>3, <4>4
    <3> QED
      BY <1>2, <3>1, <3>2
  <2>3. row' \in [Tasks -> Rows] /\ \A c \in Tasks : Keeps(row[c], row'[c]) \/ row'[c] = Ended
    BY <1>0, <2>2, OneRow
  <2>4. VictimsOK'
    BY <2>1, <2>3, RowsVictims
  <2> QED
    BY <1>0, <1>1, <2>1, <2>3, <2>4, OneExecution DEF Same
<1>3. CASE EnterRun(t)
  <2> DEFINE R == IF MayPreempt(Restarted(t)) THEN AllRecovered ELSE row
  <2>1. R \in [Tasks -> Rows] /\ \A c \in Tasks : Keeps(row[c], R[c])
    BY <1>0, RecoveredRows DEF Keeps
  <2>2. row' = [R EXCEPT ![t].bound = TRUE] /\ row[t].status = "running"
    BY <1>3 DEF EnterRun, Fenced, Leased
  <2> HIDE DEF R
  <2>3. row' \in [Tasks -> Rows] /\ \A c \in Tasks : Keeps(row[c], row'[c])
    <3>1. ASSUME NEW r \in Rows PROVE [r EXCEPT !.bound = TRUE] \in Rows
      BY DEF Rows
    <3>2. \A c \in Tasks \ {t} : row'[c] = R[c]
      BY <2>1, <2>2
    <3> QED
      BY <2>1, <2>2, <3>1, <3>2 DEF Keeps
  <2>4. \A c \in Tasks : Waits(c) /\ (row[c].status = "ended" => row'[c].status = "ended")
    BY <2>3, RowsWait DEF Inv
  <2>5. PICK x \in Execs : /\ x = Restarted(t) /\ x.at = "run" /\ x.tools = {}
    <3> DEFINE why == IF exec[t].lost THEN "lease" ELSE IF stopping = "force" THEN "force" ELSE "none"
    <3>1. why \in Reasons
      BY DEF Reasons
    <3>2. Restarted(t) = [exec[t] EXCEPT !.at = "run", !.why = why]
      BY DEF Restarted
    <3> HIDE DEF why
    <3>3. ASSUME NEW e \in Execs, NEW w \in Reasons
          PROVE  [e EXCEPT !.at = "run", !.why = w] \in Execs
      BY DEF Execs
    <3>4. PICK w \in Reasons : w = why
      BY <3>1
    <3>5. PICK e \in Execs : e = exec[t]
      BY <1>0
    <3>6. PICK y \in Execs : y = [e EXCEPT !.at = "run", !.why = w]
      BY <3>3
    <3>7. y.at = "run" /\ y.tools = {}
      <4>1. y.at = "run" /\ y.tools = e.tools
        BY <3>6 DEF Execs
      <4> QED
        BY <1>1, <3>5, <4>1
    <3>8. y = Restarted(t)
      BY <3>2, <3>4, <3>5, <3>6
    <3> QED
      BY <3>7, <3>8
  <2>6. CheckedPreemption(t, x, row') /\ Enters(t)
    BY <1>3, <2>5 DEF EnterRun, Enters
  <2>7. /\ \E y \in Execs : /\ exec' = [exec EXCEPT ![t] = y]
                            /\ y.at = x.at /\ y.tools = x.tools
                            /\ y.why = x.why \/ x.tools = {}
        /\ reserved' \in SUBSET Tasks /\ victims' \in [Tasks -> SUBSET Tasks]
        /\ VictimsOK'
    <3>1. TypeOK /\ VictimsOK
      BY DEF Inv
    <3>2. row' \in [Tasks -> Rows]
      BY <2>3
    <3>3. CheckedPreemption(t, x, row')
      BY <2>6
    <3> QED
      BY ONLY <2>4, <3>1, <3>2, <3>3, PreemptionStep, x \in Execs, t \in Tasks
  <2>8. PICK y \in Execs : /\ exec' = [exec EXCEPT ![t] = y]
                           /\ y.at = "run" /\ y.tools = {}
    BY <2>5, <2>7
  <2> QED
    BY <1>0, <1>1, <2>3, <2>6, <2>7, <2>8, OneExecution
<1> QED
  BY <1>2, <1>3 DEF Resolve

LEMMA CheckStep ==
  ASSUME Inv, NEW t \in Tasks, CheckPreemption(t)
  PROVE  Good
<1>0. row \in [Tasks -> Rows] /\ exec[t] \in Execs /\ stopping \in {"no", "stop", "force"}
  BY ExecTypes
<1>1. row' \in [Tasks -> Rows] /\ \A c \in Tasks : Keeps(row[c], row'[c])
  BY <1>0, RecoveredRows DEF CheckPreemption
<1>2. \A c \in Tasks : Waits(c) /\ (row[c].status = "ended" => row'[c].status = "ended")
  BY <1>1, RowsWait DEF Inv
<1>3. exec[t].tools = {} /\ UNCHANGED <<home, busy, stopping>> /\ CheckedPreemption(t, exec[t], row')
  BY DEF CheckPreemption, MayPreempt
<1>4. PICK x \in Execs : x = exec[t]
  BY <1>0
<1>5. /\ \E y \in Execs : /\ exec' = [exec EXCEPT ![t] = y]
                          /\ y.at = x.at /\ y.tools = x.tools
                          /\ y.why = x.why \/ x.tools = {}
      /\ reserved' \in SUBSET Tasks /\ victims' \in [Tasks -> SUBSET Tasks]
      /\ VictimsOK'
  <2>1. TypeOK /\ VictimsOK
    BY DEF Inv
  <2>2. row' \in [Tasks -> Rows]
    BY <1>1
  <2>3. CheckedPreemption(t, x, row')
    BY <1>3, <1>4
  <2> QED
    BY ONLY <1>2, <2>1, <2>2, <2>3, PreemptionStep, x \in Execs, t \in Tasks
<1>6. PICK y \in Execs : /\ exec' = [exec EXCEPT ![t] = y]
                         /\ y.at = exec[t].at /\ y.tools = {}
  BY <1>3, <1>4, <1>5
<1> QED
  BY <1>0, <1>1, <1>3, <1>5, <1>6, OneExecution DEF Same

LEMMA CancelStep ==
  ASSUME Inv, NEW t \in Tasks, Cancel(t)
  PROVE  Good
<1>0. /\ row[t] \in Rows /\ exec[t] \in Execs /\ row \in [Tasks -> Rows] /\ exec \in [Tasks -> Execs]
      /\ reserved \in SUBSET Tasks /\ victims \in [Tasks -> SUBSET Tasks]
      /\ stopping \in {"no", "stop", "force"}
  BY ExecTypes, Typed DEF Inv
<1>1. UNCHANGED <<home, busy, reserved, stopping>> /\ victims' = [victims EXCEPT ![t] = {}]
  BY DEF Cancel
<1>2. row' \in [Tasks -> Rows] /\ \A c \in Tasks \ {t} : row'[c] = row[c]
  <2>1. [row[t] EXCEPT !.cancel = TRUE] \in Rows
    BY <1>0 DEF Rows
  <2> QED
    BY <1>0, <2>1, Fixed DEF Cancel
<1>3. VictimsOK'
  <2>1. victims'[t] = {} /\ \A c \in Tasks \ {t} : victims'[c] = victims[c]
    BY <1>0, <1>1
  <2>2. \A c \in Tasks \ {t} : Waits(c) /\ (row[c].status = "ended" => row'[c].status = "ended")
    BY <1>2 DEF Waits
  <2>3. reserved' = reserved \ {}
    BY <1>1
  <2> QED
    BY <2>1, <2>2, <2>3, SameVictims DEF Inv
<1>4. CASE UNCHANGED exec
  BY <1>0, <1>1, <1>2, <1>3, <1>4, NoExecution
<1>5. CASE exec' = [exec EXCEPT ![t] = CancelledRun(@)]
  <2>1. PICK y \in Execs : y = CancelledRun(exec[t])
    BY <1>0, CancelledExec
  <2>2. y.at = exec[t].at /\ y.tools = exec[t].tools
        /\ (y.why = exec[t].why \/ (y.why = "cancel" /\ y.tools \subseteq {"shell"}))
    BY <1>0, <2>1, CancelledExec
  <2>3. exec' = [exec EXCEPT ![t] = y]
    BY <1>5, <2>1
  <2>4. y.at \in {"none", "workspace"} => y.tools = {}
    BY <2>2 DEF Inv, ToolsOK
  <2> QED
    BY <1>0, <1>1, <1>2, <1>3, <2>2, <2>3, <2>4, OneExecution DEF Same
<1> QED
  BY <1>4, <1>5 DEF Cancel

\* A step of the kernel itself: every execution changes, and no row.
LEMMA KernelStep ==
  ASSUME Inv, Stop \/ Restart
  PROVE  Good
<1>0. exec \in [Tasks -> Execs] /\ victims \in [Tasks -> SUBSET Tasks] /\ UNCHANGED <<home, row>>
  BY Typed DEF Stop, Restart, Inv
<1>1. CASE Stop
  <2>1. UNCHANGED <<busy, reserved, victims>> /\ stopping' \in {"no", "stop", "force"}
    BY <1>1 DEF Stop
  <2>2. \A t \in Tasks : /\ exec'[t] \in Execs /\ exec'[t].at = exec[t].at /\ exec'[t].tools = exec[t].tools
                         /\ exec'[t].why = exec[t].why \/ exec[t].tools = {}
    <3>1. CASE exec' = [t \in Tasks |-> StoppedRun(exec[t])]
      BY <1>0, <3>1, StoppedExec
    <3>2. CASE exec' = [t \in Tasks |-> Aborted(exec[t], "force")] /\ \A t \in Tasks : exec[t].tools = {}
      <4>1. "force" \in Reasons
        BY DEF Reasons
      <4> QED
        BY <1>0, <3>2, <4>1, AbortedExec
    <3> QED
      BY <1>1, <3>1, <3>2 DEF Stop
  <2>3. exec' \in [Tasks -> Execs]
    BY <1>1, <2>2 DEF Stop
  <2>4. TypeOK'
    BY <1>0, <2>1, <2>3 DEF Inv, TypeOK, Execs, Reasons
  <2>5. SessionHasOneRun'
    BY <1>0, <2>1, <2>2, SameRuns DEF Inv
  <2>6. VictimsOK'
    BY <1>0, <2>1 DEF Inv, VictimsOK, VictimOK
  <2>7. ToolsOK' /\ \A t \in Tasks : ~Cut(t)
    BY <2>2 DEF Inv, ToolsOK, Cut
  <2> QED
    BY <2>4, <2>5, <2>6, <2>7 DEF Good
<1>2. CASE Restart
  <2>1. /\ exec' = [t \in Tasks |-> Idle] /\ victims' = [t \in Tasks |-> {}]
        /\ busy' = {} /\ reserved' = {} /\ stopping' = "no"
    BY <1>2 DEF Restart
  <2>2. \A t \in Tasks : exec'[t] = Idle /\ Idle.at = "none" /\ Idle.tools = {} /\ victims'[t] = {}
    BY <2>1 DEF Idle
  <2>3. TypeOK'
    BY <1>0, <2>1, Fixed DEF Inv, TypeOK, Execs, Reasons
  <2>4. SessionHasOneRun'
    BY <2>1, <2>2 DEF SessionHasOneRun, OwnsSession
  <2>5. VictimsOK' /\ ToolsOK' /\ \A t \in Tasks : ~Cut(t)
    BY <2>2 DEF VictimsOK, VictimOK, ToolsOK, Cut
  <2> QED
    BY <2>3, <2>4, <2>5 DEF Good
<1> QED
  BY <1>1, <1>2

----------------------------------------------------------------------------

LEMMA InitInv == Init => Inv
<1> SUFFICES ASSUME Init PROVE Inv
  OBVIOUS
<1>1. \A t \in Tasks : exec[t] = Idle /\ Idle.at = "none" /\ Idle.tools = {} /\ victims[t] = {}
  BY DEF Init, Idle
<1>2. TypeOK
  BY Fixed DEF Init, TypeOK, Rows, Execs, Reasons
<1>3. SessionHasOneRun
  BY <1>1 DEF Init, SessionHasOneRun, OwnsSession
<1>4. VictimsOK /\ ToolsOK
  BY <1>1 DEF VictimsOK, VictimOK, ToolsOK
<1> QED
  BY <1>2, <1>3, <1>4 DEF Inv

LEMMA GoodStep == Inv /\ [Next]_vars => Good
<1> SUFFICES ASSUME Inv, [Next]_vars PROVE Good
  OBVIOUS
<1>1. CASE UNCHANGED vars
  <2>1. UNCHANGED <<home, row, exec, busy, reserved, stopping, victims>>
    BY <1>1 DEF vars
  <2>2. VictimsOK'
    BY <2>1 DEF Inv, VictimsOK, VictimOK
  <2> QED
    BY <2>1, <2>2, NoExecution, Typed DEF Inv, TypeOK
<1>2. CASE Next
  BY <1>2, QueueStep, ClaimStep, ResolveStep, CheckStep, RunStep, EndStep, CancelStep, RecoverStep,
     KernelStep DEF Next, Proceed, AbortedRunEnds
<1> QED
  BY <1>1, <1>2

LEMMA InvStep == Inv /\ [Next]_vars => Inv'
BY GoodStep DEF Good, Inv

LEMMA Invariance == Spec => []Inv
<1>1. Init => Inv
  BY InitInv
<1>2. Inv /\ [Next]_vars => Inv'
  BY InvStep
<1> QED
  BY <1>1, <1>2, PTL DEF Spec

\* Rows, executions and reservations are well formed for any Tasks, limits and faults.
THEOREM TypeCorrect == Spec => []TypeOK
<1>1. Inv => TypeOK
  BY DEF Inv
<1> QED
  BY <1>1, Invariance, PTL

\* One Run per Session, and activeSessions names exactly the Sessions of the Runs under
\* way: for any number of Tasks and Sessions, and whatever is claimed twice, put back,
\* aborted or restarted.
THEOREM OneRun == Spec => []SessionHasOneRun
<1>1. Inv => SessionHasOneRun
  BY DEF Inv
<1> QED
  BY <1>1, Invariance, PTL

\* However many Runs are under way, a Task that may preempt makes one of them give way.
THEOREM OneGivesWay == Spec => []OneVictimEach
<1>1. Inv => OneVictimEach
  <2> SUFFICES ASSUME Inv, NEW t \in Tasks PROVE Cardinality(victims[t]) <= 1
    BY DEF OneVictimEach
  <2>1. victims[t] = {} \/ \E u \in Tasks : victims[t] = {u}
    BY DEF Inv, VictimsOK, VictimOK
  <2>2. CASE victims[t] = {}
    BY <2>2, FS_EmptySet
  <2>3. ASSUME NEW u \in Tasks, victims[t] = {u} PROVE Cardinality(victims[t]) <= 1
    <3>1. Cardinality({u}) = 1
      BY FS_Singleton
    <3> QED
      BY <2>3, <3>1
  <2> QED
    BY <2>1, <2>2, <2>3
<1> QED
  BY <1>1, Invariance, PTL

\* No step aborts a Run with a Tool in flight, but for a lost lease or a cancel while
\* every Tool is run_shell.
THEOREM NoToolIsCut == Spec => ToolsNotCut
<1>1. Inv /\ [Next]_vars =>
        [\A t \in Tasks :
           exec[t].why = "none" /\ exec'[t].why # "none" /\ exec[t].tools # {} /\ exec'[t].tools # {}
             => exec'[t].why = "lease" \/ (exec'[t].why = "cancel" /\ exec'[t].tools \subseteq {"shell"})]_vars
  BY GoodStep DEF Good, Cut
<1> QED
  BY <1>1, Invariance, PTL DEF Spec, ToolsNotCut

----------------------------------------------------------------------------
(* The contract of the Task table *)

RowOK(r) == r.status # "running" => ~r.live /\ ~r.cancel

\* What a store operation makes of a row: one step of the contract, and a row in order.
Moves(r, s) == RowOK(s) /\ Contract!TaskStep(View(r), View(s))

LEMMA SameMoves == ASSUME NEW r, RowOK(r) PROVE Moves(r, r)
BY DEF Moves, Contract!TaskStep

\* due, bound and max are not what the contract is about.
Alike(q, s) == /\ s.status = q.status /\ s.live = q.live
               /\ s.cancel = q.cancel /\ s.attempts = q.attempts

LEMMA AlikeMoves ==
  ASSUME NEW r, NEW q, NEW s, Moves(r, q), Alike(q, s) PROVE Moves(r, s)
BY DEF Moves, RowOK, View, Alike

LEMMA EndedMoves ==
  ASSUME NEW r \in Rows, RowOK(r), r.status \in {"queued", "running"} PROVE Moves(r, Ended)
<1>1. View(Ended) = Contract!Gone /\ RowOK(Ended)
  BY DEF View, Ended, Absent, RowOK, Contract!Gone, Contract!Loose
<1>2. View(r).state \in {"idle", "held"}
  BY DEF View
<1> QED
  BY <1>1, <1>2 DEF Moves, Contract!TaskStep, Contract!End

LEMMA QueuedMoves ==
  ASSUME NEW r \in Rows, RowOK(r), r.status = "running", ~r.cancel, NEW due \in BOOLEAN
  PROVE  Moves(r, Queued(r, due))
<1>1. RowOK(Queued(r, due)) /\ View(Queued(r, due)) = Contract!Loose("idle", r.attempts)
  BY DEF Queued, RowOK, View, Rows, Contract!Loose
<1>2. View(r).state = "held" /\ ~View(r).cancel /\ View(r).attempts = r.attempts
  BY DEF View
<1> QED
  BY <1>1, <1>2 DEF Moves, Contract!TaskStep, Contract!Release

LEMMA RowOpsMove ==
  ASSUME NEW r \in Rows, RowOK(r)
  PROVE  /\ Moves(r, Recovered(r)) /\ Moves(r, Settled(r)) /\ Moves(r, Superseded(r))
         /\ Moves(r, Preempted(r)) /\ Moves(r, Requeued(r))
         /\ \A b \in BOOLEAN : Moves(r, Failed(r, b))
<1>1. Moves(r, r)
  BY SameMoves
<1>2. r.status \in {"queued", "running"} => Moves(r, Ended)
  BY EndedMoves
<1>3. \A due \in BOOLEAN : r.status = "running" /\ ~r.cancel => Moves(r, Queued(r, due))
  BY QueuedMoves
<1>4. Fenced(r) => r.status = "running" /\ ~r.cancel
  BY DEF Fenced, Leased
<1>5. Alike(Queued(r, TRUE), [Queued(r, TRUE) EXCEPT !.max = @ + 1])
  BY DEF Alike, Queued, Rows
<1>6. Moves(r, Preempted(r))
  BY <1>1, <1>3, <1>4, <1>5, AlikeMoves DEF Preempted
<1>7. Moves(r, Recovered(r)) /\ Moves(r, Settled(r)) /\ Moves(r, Superseded(r))
  BY <1>1, <1>2, <1>3 DEF Recovered, Settled, Superseded
<1>8. Moves(r, Requeued(r)) /\ \A b \in BOOLEAN : Moves(r, Failed(r, b))
  BY <1>1, <1>2, <1>3, <1>4 DEF Requeued, Failed
<1> QED
  BY <1>6, <1>7, <1>8

\* The claim of a Task, after the recovery it begins with.
ClaimedRow(q) == [q EXCEPT !.status = "running", !.due = FALSE, !.live = TRUE, !.attempts = @ + 1]

LEMMA ClaimedMoves ==
  ASSUME NEW r \in Rows, RowOK(r), Recovered(r).status = "queued"
  PROVE  Moves(r, ClaimedRow(Recovered(r))) /\ Moves(r, Ended)
<1>1. \/ r.status = "queued" /\ Recovered(r) = r
      \/ r.status = "running" /\ ~r.live /\ ~r.cancel /\ Recovered(r) = Queued(r, TRUE)
  BY DEF Recovered, Ended, Absent
<1>2. Contract!Open(View(r)) /\ View(r).attempts = r.attempts
  BY <1>1 DEF View, Contract!Open
<1>3. /\ RowOK(ClaimedRow(Recovered(r)))
      /\ View(ClaimedRow(Recovered(r))) = Contract!Held(TRUE, FALSE, r.attempts + 1)
  BY <1>1 DEF RowOK, ClaimedRow, Queued, Rows, View, Contract!Held
<1>4. Moves(r, ClaimedRow(Recovered(r)))
  BY <1>2, <1>3 DEF Moves, Contract!TaskStep, Contract!Begin
<1> QED
  BY <1>1, <1>4, EndedMoves

RowsOK == \A t \in Tasks : RowOK(row[t])

AllMove == \A t \in Tasks : Moves(row[t], row'[t])

LEMMA NoRowMoves == ASSUME RowsOK, UNCHANGED row PROVE AllMove
BY SameMoves DEF RowsOK, AllMove

LEMMA OneRowMoves ==
  ASSUME TypeOK, RowsOK, NEW t \in Tasks, NEW s, Moves(row[t], s), row' = [row EXCEPT ![t] = s]
  PROVE  AllMove
<1>1. \A u \in Tasks : row'[u] = IF u = t THEN s ELSE row[u]
  BY DEF TypeOK
<1> QED
  BY <1>1, SameMoves DEF RowsOK, AllMove

LEMMA RecoveredMove ==
  ASSUME TypeOK, RowsOK, row' = AllRecovered PROVE AllMove
<1>1. \A t \in Tasks : row[t] \in Rows /\ row'[t] = Recovered(row[t])
  BY Typed DEF AllRecovered
<1> QED
  BY <1>1, RowOpsMove DEF RowsOK, AllMove

LEMMA RecoveredAndOneMoves ==
  ASSUME TypeOK, RowsOK, NEW t \in Tasks, NEW s, Moves(row[t], s),
         row' = [AllRecovered EXCEPT ![t] = s]
  PROVE  AllMove
<1>1. \A u \in Tasks : /\ row[u] \in Rows
                       /\ row'[u] = IF u = t THEN s ELSE Recovered(row[u])
  BY Typed DEF AllRecovered
<1> QED
  BY <1>1, RowOpsMove DEF RowsOK, AllMove

LEMMA QueueMoves ==
  ASSUME TypeOK, RowsOK, NEW t \in Tasks, Enqueue(t) \/ Due(t) \/ Cancel(t) \/ Lapse(t)
  PROVE  AllMove
<1>1. row[t] \in Rows /\ RowOK(row[t])
  BY Typed DEF RowsOK
<1>2. CASE Enqueue(t)
  <2> DEFINE s == [Queued(row[t], TRUE) EXCEPT !.bound = t \in Known]
  <2>1. RowOK(s) /\ View(s) = View(row[t])
    BY <1>1, <1>2 DEF RowOK, View, Queued, Rows, Enqueue
  <2>2. Moves(row[t], s) /\ row' = [row EXCEPT ![t] = s]
    BY <1>2, <2>1 DEF Moves, Contract!TaskStep, Enqueue
  <2> QED
    BY <2>2, OneRowMoves
<1>3. CASE Due(t)
  <2> DEFINE s == [row[t] EXCEPT !.due = TRUE]
  <2>1. Alike(row[t], s)
    BY <1>1 DEF Alike, Rows
  <2>2. Moves(row[t], s) /\ row' = [row EXCEPT ![t] = s]
    BY <1>1, <1>3, <2>1, SameMoves, AlikeMoves DEF Due
  <2> QED
    BY <2>2, OneRowMoves
<1>4. CASE Cancel(t)
  <2>1. CASE row[t].status = "queued" /\ row' = [row EXCEPT ![t] = Ended]
    BY <1>1, <2>1, EndedMoves, OneRowMoves
  <2>2. CASE row[t].status = "running" /\ row' = [row EXCEPT ![t].cancel = TRUE]
    <3> DEFINE s == [row[t] EXCEPT !.cancel = TRUE]
    <3>1. RowOK(s) /\ Contract!AskToCancel(View(row[t]), View(s))
      BY <1>1, <2>2 DEF RowOK, View, Rows, Contract!AskToCancel, Contract!Held
    <3>2. Moves(row[t], s)
      BY <3>1 DEF Moves, Contract!TaskStep
    <3> QED
      BY <2>2, <3>2, OneRowMoves
  <2> QED
    BY <1>4, <2>1, <2>2 DEF Cancel
<1>5. CASE Lapse(t)
  <2> DEFINE s == [row[t] EXCEPT !.live = FALSE]
  <2>1. RowOK(s) /\ Contract!Lapse(View(row[t]), View(s))
    BY <1>1, <1>5 DEF RowOK, Lapse, Leased, View, Rows, Contract!Lapse, Contract!Held
  <2>2. Moves(row[t], s) /\ row' = [row EXCEPT ![t] = s]
    BY <1>5, <2>1 DEF Moves, Contract!TaskStep, Lapse
  <2> QED
    BY <2>2, OneRowMoves
<1> QED
  BY <1>2, <1>3, <1>4, <1>5

LEMMA ClaimMoves ==
  ASSUME TypeOK, RowsOK, NEW t \in Tasks, Claim(t), t \in Claimable(AllRecovered)
  PROVE  AllMove
<1>1. row[t] \in Rows /\ RowOK(row[t]) /\ AllRecovered[t] = Recovered(row[t])
  BY Typed DEF RowsOK, AllRecovered
<1>2. Recovered(row[t]).status = "queued"
  BY <1>1 DEF Claimable, Ready
<1>3. Moves(row[t], ClaimedRow(AllRecovered[t])) /\ Moves(row[t], Ended)
  BY <1>1, <1>2, ClaimedMoves
<1>4. \/ row' = [AllRecovered EXCEPT ![t] = ClaimedRow(AllRecovered[t])]
      \/ row' = [AllRecovered EXCEPT ![t] = Ended]
  BY DEF Claim, ClaimedRow
<1> QED
  BY <1>3, <1>4, RecoveredAndOneMoves

\* The writes of the Runs: each is one of the store operations on the row of its Task.
LEMMA RunMoves ==
  ASSUME TypeOK, RowsOK, NEW t \in Tasks,
         BindRefused(t) \/ PutBack(t) \/ EnterRun(t) \/ Rejected(t) \/ Complete(t)
  PROVE  AllMove
<1>1. row[t] \in Rows /\ RowOK(row[t]) /\ row \in [Tasks -> Rows]
  BY Typed DEF RowsOK
<1>2. CASE UNCHANGED row
  BY <1>2, NoRowMoves
<1>3. ASSUME NEW s, Moves(row[t], s), row' = [row EXCEPT ![t] = s] PROVE AllMove
  BY <1>3, OneRowMoves
<1>4. CASE BindRefused(t)
  <2>1. UNCHANGED row \/ row' = [row EXCEPT ![t] = Settled(row[t])]
    BY <1>1, <1>4 DEF BindRefused
  <2> QED
    BY <1>1, <1>2, <1>3, <2>1, RowOpsMove
<1>5. CASE PutBack(t)
  <2> DEFINE s == [Requeued(row[t]) EXCEPT !.bound = TRUE]
  <2>1. Alike(Requeued(row[t]), s)
    BY <1>1, RowOps DEF Alike, Rows
  <2>2. Moves(row[t], s) /\ row' = [row EXCEPT ![t] = s]
    BY <1>1, <1>5, <2>1, RowOpsMove, AlikeMoves DEF PutBack
  <2> QED
    BY <1>3, <2>2
<1>6. CASE EnterRun(t)
  <2>1. CASE row' = [row EXCEPT ![t].bound = TRUE]
    <3>1. Alike(row[t], [row[t] EXCEPT !.bound = TRUE])
      BY <1>1 DEF Alike, Rows
    <3>2. Moves(row[t], [row[t] EXCEPT !.bound = TRUE])
      BY <1>1, <3>1, SameMoves, AlikeMoves
    <3> QED
      BY <1>3, <2>1, <3>2
  <2>2. CASE row' = [AllRecovered EXCEPT ![t].bound = TRUE]
    <3>1. AllRecovered[t] = Recovered(row[t]) /\ Recovered(row[t]) \in Rows
      BY <1>1, RowOps DEF AllRecovered
    <3>2. Alike(Recovered(row[t]), [Recovered(row[t]) EXCEPT !.bound = TRUE])
      BY <3>1 DEF Alike, Rows
    <3>3. Moves(row[t], [AllRecovered[t] EXCEPT !.bound = TRUE])
      BY <1>1, <3>1, <3>2, RowOpsMove, AlikeMoves
    <3> QED
      BY <2>2, <3>3, RecoveredAndOneMoves
  <2> QED
    BY <1>6, <2>1, <2>2 DEF EnterRun
<1>7. ASSUME Rejected(t) PROVE AllMove
  <2>1. \/ UNCHANGED row
        \/ \E s \in {Settled(row[t]), Superseded(row[t]), Preempted(row[t]), Requeued(row[t])}
                    \cup {Failed(row[t], b) : b \in BOOLEAN} : row' = [row EXCEPT ![t] = s]
    BY <1>7 DEF Rejected
  <2> QED
    BY <1>1, <1>2, <1>3, <2>1, RowOpsMove
<1>8. CASE Complete(t)
  <2>1. Rejected(t) \/ (Fenced(row[t]) /\ row' = [row EXCEPT ![t] = Ended])
    BY <1>8 DEF Complete
  <2> QED
    BY <1>1, <1>3, <1>7, <2>1, EndedMoves DEF Fenced, Leased
<1> QED
  BY <1>4, <1>5, <1>6, <1>7, <1>8

LEMMA NextMoves == Inv /\ RowsOK /\ [Next]_vars => AllMove
<1> SUFFICES ASSUME Inv, RowsOK, [Next]_vars PROVE AllMove
  OBVIOUS
<1>1. TypeOK
  BY DEF Inv
<1>2. CASE UNCHANGED row
  BY <1>2, NoRowMoves
<1>3. CASE row' = AllRecovered
  BY <1>1, <1>3, RecoveredMove
<1>4. ASSUME NEW t \in Tasks, Claim(t) PROVE AllMove
  <2>1. Claimable(AllRecovered) \in SUBSET Tasks
    BY DEF Claimable, Ready
  <2>2. t \in Claimable(AllRecovered)
    BY <1>4, <2>1, FirstIsOne DEF Claim
  <2> QED
    BY <1>1, <1>4, <2>2, ClaimMoves
<1>5. ASSUME NEW t \in Tasks,
             Resolve(t) \/ RunThrows(t) \/ Complete(t) \/ ToolOutput(t) \/ Close(t)
             \/ LoseLease(t) \/ GoQuiet(t) \/ CallTools(t) \/ RunReturns(t)
      PROVE  AllMove
  <2>1. \/ BindRefused(t) \/ PutBack(t) \/ EnterRun(t) \/ Rejected(t) \/ Complete(t)
        \/ UNCHANGED row
    BY <1>5 DEF Resolve, RunThrows, ToolOutput, Close, LoseLease, GoQuiet, CallTools, RunReturns
  <2> QED
    BY <1>1, <1>2, <2>1, RunMoves
<1>6. \A t \in Tasks : CheckPreemption(t) => row' = AllRecovered
  BY DEF CheckPreemption
<1>7. Recover \/ Stop \/ Restart => UNCHANGED row \/ row' = AllRecovered
  BY DEF Recover, Stop, Restart
<1>8. UNCHANGED vars => UNCHANGED row
  BY DEF vars
<1> QED
  BY <1>1, <1>2, <1>3, <1>4, <1>5, <1>6, <1>7, <1>8, QueueMoves DEF Next, Proceed, AbortedRunEnds

LEMMA InitContract == Init => RowsOK /\ Contract!ContractInit
<1> SUFFICES ASSUME Init PROVE RowsOK /\ Contract!ContractInit
  OBVIOUS
<1>1. \A t \in Tasks : row[t] = Absent
  BY DEF Init
<1>2. RowOK(Absent) /\ View(Absent) = Contract!New
  BY DEF RowOK, Absent, View, Contract!New, Contract!Loose
<1> QED
  BY <1>1, <1>2 DEF RowsOK, Contract!ContractInit

LEMMA ContractStep == AllMove => RowsOK' /\ Contract!ContractNext
<1> SUFFICES ASSUME AllMove PROVE RowsOK' /\ Contract!ContractNext
  OBVIOUS
<1>1. \A t \in Tasks : Contract!TaskStep(View(row[t]), View(row'[t]))
  BY DEF AllMove, Moves
<1>2. \A t \in Tasks : /\ [u \in Tasks |-> View(row[u])][t] = View(row[t])
                       /\ [u \in Tasks |-> View(row[u])]'[t] = View(row'[t])
  OBVIOUS
<1>3. Contract!ContractNext
  BY <1>1, <1>2, Zenon DEF Contract!ContractNext
<1> QED
  BY <1>3 DEF AllMove, Moves, RowsOK

\* What claims, put-backs, preemptions, aborts, stops and cancels do to the rows is what
\* TaskContract allows: the columns left out here decide nothing of it.
THEOREM ImplementsContract == Spec => KeepsContract
<1>1. Init => Inv /\ RowsOK
  BY InitInv, InitContract
<1>2. Inv /\ RowsOK /\ [Next]_vars => Inv' /\ RowsOK' /\ Contract!ContractNext
  BY InvStep, NextMoves, ContractStep
<1> QED
  BY <1>1, <1>2, InitContract, PTL DEF Spec, KeepsContract, Contract!ContractSpec

=============================================================================
