--------------------------- MODULE SchedulesProofs ---------------------------
(* What holds of every schedule, whatever its kind, interval, clock and number *)
(* of occurrences: the types, one outstanding occurrence, and nothing of a     *)
(* removed schedule but what ran at the removal or was asked for again.        *)
EXTENDS Schedules, TLAPS

(* A row still present has a time on the clock, so it never looks like Gone.   *)
DueInv == row = Gone \/ row.due \in Nat

Inv == TypeOK /\ DueInv /\ OneOutstanding /\ RemovedScheduleRests

-----------------------------------------------------------------------------
(* The next time of the raster is a time of the clock.                         *)
LEMMA NextDueIsNat ==
  ASSUME NEW p \in Nat, p <= now, now \in Nat
  PROVE  NextDue(p) \in Nat
<1> DEFINE k == (now - p) \div Every + 1
<1>1. Every \in Nat /\ Every > 0
  BY BoundsAssumption
<1>2. k \in Nat
  BY <1>1
<1>3. k * Every \in Nat
  BY <1>1, <1>2
<1> HIDE DEF k
<1>4. p + k * Every \in Nat
  BY <1>3
<1> QED
  BY <1>4 DEF k, NextDue

OccRow == [status : Statuses, slot : Int, current : BOOLEAN,
           mayEnd : BOOLEAN, attempts : Nat]

(* The types of the occurrences through each operation on them.                *)
LEMMA OccTyped ==
  ASSUME NEW tasks \in [Occ -> OccRow], NEW o \in Occ
  PROVE  Outdated(tasks) \in [Occ -> OccRow]
  BY DEF Outdated, OccRow

LEMMA LeftTyped ==
  ASSUME occ \in [Occ -> OccRow], NEW o \in Occ, NEW status \in Statuses
  PROVE  Left(o, status) \in [Occ -> OccRow]
  BY DEF Left, OccRow

LEMMA SweptTyped ==
  ASSUME occ \in [Occ -> OccRow]
  PROVE  Swept \in [Occ -> OccRow]
  BY DEF Swept, OccRow, Statuses

LEMMA EmittedTyped ==
  ASSUME occ \in [Occ -> OccRow], row.due \in Int
  PROVE  Emitted \in [Occ -> OccRow]
  BY DEF Emitted, OccRow, Statuses

-----------------------------------------------------------------------------
LEMMA InitInv == Init => Inv
<1> SUFFICES ASSUME Init PROVE Inv
  OBVIOUS
<1> USE BoundsAssumption DEF Init, Gone, Absent
<1>1. TypeOK
  <2>1. kind \in {"at", "interval", "watch"}
    OBVIOUS
  <2>2. row \in [on : BOOLEAN, due : Int]
    <3> PICK d \in 1..(Every + 1) : row = [on |-> TRUE, due |-> d]
      OBVIOUS
    <3> QED
      OBVIOUS
  <2> QED
    BY <2>1, <2>2 DEF TypeOK, Statuses
<1>2. DueInv
  BY DEF DueInv
<1>3. OneOutstanding /\ RemovedScheduleRests
  BY DEF OneOutstanding, RemovedScheduleRests, With, Present
<1> QED
  BY <1>1, <1>2, <1>3 DEF Inv

-----------------------------------------------------------------------------
(* Every step keeps the types.                                                 *)
LEMMA TypeStep == Inv /\ [Next]_vars => TypeOK'
<1> SUFFICES ASSUME Inv, [Next]_vars PROVE TypeOK'
  OBVIOUS
<1> DEFINE RowOK == row' \in [on : BOOLEAN, due : Int]
           OccOK == occ' \in [Occ -> OccRow]
           RestOK == /\ kind' \in {"at", "interval", "watch"} /\ authority' \in BOOLEAN
                     /\ now' \in Nat /\ edits' \in Nat /\ owner' \in Nat
                     /\ revived' \subseteq Occ /\ spared' \subseteq Occ
<1>0. /\ row \in [on : BOOLEAN, due : Int] /\ occ \in [Occ -> OccRow]
      /\ Present => row.due \in Nat
      /\ \A S : With(S) \subseteq Occ
  BY DEF Inv, TypeOK, OccRow, DueInv, Present, With
<1> SUFFICES RowOK /\ OccOK /\ RestOK
  BY DEF Inv, TypeOK, OccRow
<1>1. ASSUME Removed PROVE RowOK /\ OccOK /\ spared' \subseteq Occ
  BY <1>0, <1>1, SweptTyped DEF Removed, Gone, Inv, TypeOK
<1>2. CASE Update
  <2>1. RowOK
    <3>1. now \in Nat /\ Every \in Nat
      BY BoundsAssumption DEF Inv, TypeOK
    <3>2. [row EXCEPT !.on = FALSE] \in [on : BOOLEAN, due : Int]
      BY <1>0
    <3>3. \A d \in (now + 1)..(now + Every) :
             [on |-> TRUE, due |-> d] \in [on : BOOLEAN, due : Int]
      BY <3>1
    <3> QED
      BY <1>0, <1>2, <3>2, <3>3 DEF Update
  <2>2. OccOK
    <3>1. Outdated(occ) \in [Occ -> OccRow]
      BY ZenonT(40), <1>0 DEF Outdated, OccRow
    <3>2. occ' = occ \/ occ' = Outdated(occ)
      BY <1>2 DEF Update
    <3> QED
      BY <1>0, <3>1, <3>2
  <2>3. kind' \in {"at", "interval", "watch"}
    BY <1>2 DEF Update, Inv, TypeOK
  <2> QED
    BY <1>2, <2>1, <2>2, <2>3 DEF Update, Inv, TypeOK
<1>3. CASE Remove
  BY <1>1, <1>3 DEF Remove, Inv, TypeOK
<1>4. CASE Wake
  BY <1>0, <1>4 DEF Wake, Inv, TypeOK
<1>5. CASE EmitDue
  <2>1. row.due \in Nat /\ row.due <= now /\ now \in Nat
    BY <1>0, <1>5 DEF EmitDue, Inv, TypeOK
  <2>2. NextDue(row.due) \in Nat
    BY <2>1, NextDueIsNat
  <2>3. RowOK
    <3>1. [row EXCEPT !.on = FALSE] \in [on : BOOLEAN, due : Int]
      BY <1>0
    <3>2. [row EXCEPT !.due = NextDue(row.due)] \in [on : BOOLEAN, due : Int]
      BY <1>0, <2>2
    <3> QED
      BY <1>5, <3>1, <3>2 DEF EmitDue
  <2>4. OccOK
    BY <1>0, <1>5, EmittedTyped DEF EmitDue
  <2> QED
    BY <1>5, <2>3, <2>4 DEF EmitDue, Inv, TypeOK
<1>6. CASE Tick \/ LoseAuthority \/ UNCHANGED vars
  <2>1. /\ UNCHANGED <<kind, row, occ, edits, owner, revived, spared>>
        /\ now' = now \/ now' = now + 1
        /\ authority' = authority \/ authority' = FALSE
    BY <1>6 DEF Tick, LoseAuthority, vars
  <2>2. authority' \in BOOLEAN
    BY <2>1 DEF Inv, TypeOK
  <2>3. now' \in Nat
    BY <2>1 DEF Inv, TypeOK
  <2> QED
    BY <1>0, <2>1, <2>2, <2>3 DEF Inv, TypeOK
<1>7. ASSUME NEW o \in Occ,
             Start(o) \/ Finish(o) \/ Fail(o) \/ Control(o) \/ Resume(o) \/ RetryDeadLetter(o)
      PROVE  RowOK /\ OccOK /\ RestOK
  <2>1. occ[o] \in OccRow
    BY <1>0
  <2>2. OccOK
    <3>1. CASE Start(o)
      BY <1>0, <2>1, <3>1 DEF Start, OccRow, Statuses, Present
    <3>2. CASE Finish(o)
      <4> PICK status \in {"ended", "dead_letter", "blocked"} :
             occ' = IF Present THEN Outdated(Left(o, status)) ELSE Left(o, status)
        BY <3>2 DEF Finish
      <4>1. Left(o, status) \in [Occ -> OccRow]
        BY <1>0, LeftTyped DEF Statuses
      <4> QED
        BY <1>0, <4>1, OccTyped
    <3>3. CASE Fail(o) \/ Control(o)
      BY <1>0, <3>3, LeftTyped DEF Fail, Control, Statuses
    <3>4. CASE Resume(o)
      <4> PICK note \in BOOLEAN :
             occ' = [occ EXCEPT ![o].status = "queued", ![o].current = @ /\ ~note]
        BY <3>4 DEF Resume
      <4>1. (occ[o].current /\ ~note) \in BOOLEAN
        OBVIOUS
      <4> HIDE <3>4
      <4> DEFINE still == occ[o].current /\ ~note
      <4>2. occ' = [occ EXCEPT ![o] = [occ[o] EXCEPT !.status = "queued", !.current = still]]
        OBVIOUS
      <4> HIDE DEF still
      <4>3. [occ[o] EXCEPT !.status = "queued", !.current = still] \in OccRow
        BY <2>1, <4>1 DEF OccRow, Statuses, still
      <4> QED
        BY <1>0, <4>2, <4>3
    <3>5. CASE RetryDeadLetter(o)
      BY <1>0, <2>1, <3>5 DEF RetryDeadLetter, OccRow, Statuses
    <3> QED
      BY <1>7, <3>1, <3>2, <3>3, <3>4, <3>5
  <2> QED
    BY <1>0, <1>7, <2>2 DEF Start, Finish, Fail, Control, Resume, RetryDeadLetter, Inv, TypeOK
<1>8. ASSUME NEW o \in Occ, CompleteCurrent(o) PROVE RowOK /\ OccOK /\ RestOK
  BY <1>1, <1>8 DEF CompleteCurrent, Inv, TypeOK
<1> QED
  BY <1>2, <1>3, <1>4, <1>5, <1>6, <1>7, <1>8 DEF Next

(* A row that is still present keeps a time of the clock.                      *)
LEMMA DueStep == Inv /\ [Next]_vars => DueInv'
<1> SUFFICES ASSUME Inv, [Next]_vars PROVE DueInv'
  OBVIOUS
<1>1. /\ row \in [on : BOOLEAN, due : Int] /\ now \in Nat
      /\ Present => row.due \in Nat
  BY DEF Inv, TypeOK, DueInv, Present
<1>2. CASE Update
  BY <1>1, <1>2, BoundsAssumption DEF Update, DueInv
<1>3. CASE Wake
  BY <1>1, <1>3 DEF Wake, DueInv
<1>4. CASE EmitDue
  <2>1. NextDue(row.due) \in Nat
    BY <1>1, <1>4, NextDueIsNat DEF EmitDue
  <2> QED
    BY <1>1, <1>4, <2>1 DEF EmitDue, DueInv
<1>5. CASE Removed
  BY <1>5 DEF Removed, DueInv
<1>6. CASE UNCHANGED row
  BY <1>6 DEF DueInv, Inv
<1> QED
  BY <1>2, <1>3, <1>4, <1>5, <1>6
  DEF Next, vars, Remove, Tick, LoseAuthority, Start, Finish, Fail, CompleteCurrent,
      Control, Resume, RetryDeadLetter
-----------------------------------------------------------------------------
(* Every step but an emission and the owner's retry of a dead letter leaves    *)
(* what is outstanding or lets go of some of it; an emission finds nothing     *)
(* outstanding.                                                                *)
LEMMA OneStep == Inv /\ [Next]_vars => OneOutstanding'
<1> SUFFICES ASSUME Inv, [Next]_vars PROVE OneOutstanding'
  OBVIOUS
<1> DEFINE S == {"queued", "running", "paused", "blocked"}
           Same == \A p \in Occ : occ'[p].status \in S => occ[p].status \in S
<1>0. occ \in [Occ -> OccRow] /\ revived \subseteq Occ
  BY DEF Inv, TypeOK, OccRow
<1>1. ASSUME Same, revived \subseteq revived' PROVE OneOutstanding'
  BY <1>1 DEF Inv, OneOutstanding, With
<1>2. CASE UNCHANGED <<occ, revived>>
  BY <1>1, <1>2
<1>3. ASSUME Removed, UNCHANGED revived PROVE OneOutstanding'
  BY <1>0, <1>1, <1>3 DEF Removed, Swept, OccRow
<1>4. CASE EmitDue
  <2>1. \A p \in Occ : occ[p].status \notin S
    BY <1>4 DEF EmitDue, Outstanding, With
  <2>2. CASE UNCHANGED occ
    BY <1>1, <1>4, <2>2 DEF EmitDue
  <2>3. CASE occ' = Emitted
    <3> DEFINE o == CHOOSE f \in Free : \A g \in Free : f <= g
    <3>1. \A p \in Occ : p # o => occ'[p] = occ[p]
      BY <1>0, <2>3 DEF Emitted
    <3> HIDE DEF o
    <3> QED
      BY <2>1, <3>1 DEF OneOutstanding, With
  <2> QED
    BY <1>4, <2>2, <2>3 DEF EmitDue
<1>5. ASSUME NEW o \in Occ, Start(o) \/ Fail(o) \/ Control(o) \/ Resume(o)
      PROVE  OneOutstanding'
  BY <1>0, <1>1, <1>5 DEF Start, Fail, Control, Resume, Left, OccRow
<1>6. ASSUME NEW o \in Occ, Finish(o) PROVE OneOutstanding'
  BY <1>0, <1>1, <1>6 DEF Finish, Outdated, Left, OccRow
<1>7. ASSUME NEW o \in Occ, RetryDeadLetter(o) PROVE OneOutstanding'
  <2>1. \A p \in Occ : p # o => occ'[p] = occ[p]
    BY <1>0, <1>7 DEF RetryDeadLetter
  <2>2. revived' = revived \cup {o}
    BY <1>7 DEF RetryDeadLetter
  <2> QED
    BY <2>1, <2>2 DEF Inv, OneOutstanding, With
<1>8. CASE Update
  BY <1>0, <1>1, <1>8 DEF Update, Outdated, OccRow
<1> QED
  BY <1>2, <1>3, <1>4, <1>5, <1>6, <1>7, <1>8
  DEF Next, vars, Remove, Wake, Tick, LoseAuthority, CompleteCurrent

(* A removed row stays away, and what it leaves in the queue or running was    *)
(* running at the removal or is asked for by the owner.                        *)
LEMMA RestStep == Inv /\ [Next]_vars => RemovedScheduleRests'
<1> SUFFICES ASSUME Inv, [Next]_vars, ~Present' PROVE With({"queued", "running"})' \subseteq spared'
  BY DEF RemovedScheduleRests
<1> DEFINE Kept == \A p \in Occ : occ'[p].status \in {"queued", "running"}
                                 => occ[p].status \in {"queued", "running"} \/ p \in spared'
<1>0. /\ occ \in [Occ -> OccRow] /\ spared \subseteq Occ
      /\ row \in [on : BOOLEAN, due : Int] /\ now \in Nat
      /\ Present => row.due \in Nat
  BY DEF Inv, TypeOK, OccRow, DueInv, Present
<1>1. ASSUME ~Present, Kept, spared \subseteq spared'
      PROVE  With({"queued", "running"})' \subseteq spared'
  BY <1>1 DEF Inv, RemovedScheduleRests, With
<1>2. CASE Removed
  BY <1>0, <1>2 DEF Removed, Swept, With, OccRow
<1>3. CASE Update
  BY <1>0, <1>3, BoundsAssumption DEF Update, Present, Gone
<1>4. CASE Wake
  BY <1>0, <1>4 DEF Wake, Present, Gone
<1>5. CASE EmitDue
  <2>1. NextDue(row.due) \in Nat
    BY <1>0, <1>5, NextDueIsNat DEF EmitDue
  <2> QED
    BY <1>0, <1>5, <2>1 DEF EmitDue, Present, Gone
<1>6. ASSUME UNCHANGED row PROVE ~Present
  BY <1>6 DEF Present, Gone
<1>7. CASE UNCHANGED <<row, occ, spared>>
  BY <1>1, <1>6, <1>7
<1>8. ASSUME NEW o \in Occ,
             Start(o) \/ Fail(o) \/ Control(o) \/ Resume(o) \/ RetryDeadLetter(o)
      PROVE  With({"queued", "running"})' \subseteq spared'
  BY <1>0, <1>1, <1>6, <1>8 DEF Start, Fail, Control, Resume, RetryDeadLetter, Left, OccRow
<1>9. ASSUME NEW o \in Occ, Finish(o) PROVE With({"queued", "running"})' \subseteq spared'
  BY <1>0, <1>1, <1>6, <1>9 DEF Finish, Left, OccRow
<1> QED
  BY <1>2, <1>3, <1>4, <1>5, <1>7, <1>8, <1>9
  DEF Next, vars, Remove, Tick, LoseAuthority, CompleteCurrent

LEMMA InvStep == Inv /\ [Next]_vars => Inv'
  BY TypeStep, DueStep, OneStep, RestStep DEF Inv

-----------------------------------------------------------------------------
(* The row, the occurrences and the counters keep their types.                 *)
THEOREM TypeCorrect == Spec => []TypeOK
<1>1. Inv => TypeOK
  BY DEF Inv
<1> QED
  BY <1>1, InitInv, InvStep, PTL DEF Spec

(* emitDue never makes a second occurrence beside one that is queued, running, *)
(* paused or blocked, whatever the owner, the clock and the workers do.        *)
THEOREM OccurrencesAreSingle == Spec => []OneOutstanding
<1>1. Inv => OneOutstanding
  BY DEF Inv
<1> QED
  BY <1>1, InitInv, InvStep, PTL DEF Spec

(* After remove nothing of the schedule waits or runs but what ran at that     *)
(* moment or was resumed or retried since.                                     *)
THEOREM RemovalHolds == Spec => []RemovedScheduleRests
<1>1. Inv => RemovedScheduleRests
  BY DEF Inv
<1> QED
  BY <1>1, InitInv, InvStep, PTL DEF Spec
=============================================================================
