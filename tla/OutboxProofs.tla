----------------------------- MODULE OutboxProofs -----------------------------
(* What Outbox guarantees for every set of messages and routes, every lease, attempt
   limit, backoff and number of crashes: a message has its effect once per licence,
   what is recorded as sent was delivered, and no dead letter is silent. *)
EXTENDS Outbox, FiniteSetTheorems, TLAPS

----------------------------------------------------------------------------
(* The inductive invariant *)

\* A row against what was done for it outside; the row is a parameter because a claim
\* first gives expired rows up and then takes one.
RowIn(row, r) ==
  /\ Outstanding(r) <= retries[r] + 1
  /\ row.status \in {"absent", "pending"} => Outstanding(r) <= retries[r]
  /\ row.status = "absent" => retries[r] = 0 /\ row.route = System
  /\ row.status = "sent" => delivered[r] > 0
  /\ row.status = "sending" => row.attempts > 0
  /\ r[2] > 0 => row.route = System

\* DeadLettersAreReported, of any outbox table
ReportedIn(rows) ==
  \A p \in Posts : LET r == <<p, 0>> IN
    /\ rows[r].route # System =>
         \A k \in 1..(MaxRetries + 1) :
           rows[<<p, k>>].status # "absent" <=>
             \/ k <= retries[r]
             \/ k = retries[r] + 1 /\ rows[r].status \in {"dead_letter", "archived"}
    /\ rows[r].route = System =>
         \A k \in 1..(MaxRetries + 1) : rows[<<p, k>>].status = "absent"

TableOK(rows) ==
  /\ rows \in [Rows -> OutboxRows]
  /\ \A r \in Rows : RowIn(rows[r], r)
  /\ ReportedIn(rows)

IInv ==
  /\ TypeOK
  /\ TableOK(outbox)
  /\ \A r \in Rows : flight[r] = "done" => delivered[r] > 0

----------------------------------------------------------------------------
(* Types *)

LEMMA RowTypes ==
  ASSUME NEW rows \in [Rows -> OutboxRows], NEW r \in Rows
  PROVE  /\ rows[r] \in OutboxRows
         /\ rows[r].status \in OutboxStatuses /\ rows[r].route \in Routes
         /\ rows[r].attempts \in Nat
         /\ r = <<r[1], r[2]>> /\ r[1] \in Posts /\ r[2] \in 0..(MaxRetries + 1)
BY DEF OutboxRows, Rows

LEMMA ReleasedType ==
  ASSUME NEW row \in OutboxRows, NEW status \in OutboxStatuses, NEW delay \in Nat
  PROVE  /\ Released(row, status, delay) \in OutboxRows
         /\ Released(row, status, delay).status = status
         /\ Released(row, status, delay).route = row.route
         /\ Released(row, status, delay).attempts = row.attempts
BY DEF Released, OutboxRows, NoProcess

\* created_at is a natural number: the table is finite.
LEMMA InsertedType ==
  ASSUME NEW route \in Routes
  PROVE  /\ Inserted(route) \in OutboxRows
         /\ Inserted(route).status = "pending" /\ Inserted(route).route = route
<1>1. IsFiniteSet(0..(MaxRetries + 1))
  BY OutboxNumbers, FS_Interval
<1>2. IsFiniteSet(Rows)
  BY <1>1, OutboxNames, FS_Product DEF Rows
<1>3. Cardinality(Present) \in Nat
  BY <1>2, FS_Subset, FS_CardinalityType DEF Present
<1> QED BY <1>3 DEF Inserted, OutboxRows, OutboxStatuses, NoProcess

LEMMA OutstandingType ==
  ASSUME TypeOK, NEW r \in Rows
  PROVE  Outstanding(r) \in Nat /\ retries[r] \in Nat
<1>1. delivered[r] \in Nat /\ stray[r] \in Nat
  BY DEF TypeOK
<1>2. retries[r] \in 0..MaxRetries
  BY DEF TypeOK
<1> QED BY <1>1, <1>2, OutboxNumbers DEF Outstanding

\* The row of a message, and the row of the notice of its current licence
LEMMA NoticeRow ==
  ASSUME TypeOK, NEW r \in Rows
  PROVE  /\ Notice(r) \in Rows
         /\ \A p \in Posts, k \in 0..(MaxRetries + 1) :
              <<p, k>> = Notice(r) <=> r[1] = p /\ k = retries[r] + 1
<1>1. retries[r] \in 0..MaxRetries /\ r[1] \in Posts
  BY DEF TypeOK, Rows
<1>2. retries[r] + 1 \in 0..(MaxRetries + 1)
  BY <1>1, OutboxNumbers
<1> QED BY <1>1, <1>2 DEF Notice, Rows

LEMMA MessageRow ==
  ASSUME NEW p \in Posts
  PROVE  /\ <<p, 0>> \in Rows
         /\ \A k \in 1..(MaxRetries + 1) : <<p, k>> \in Rows /\ <<p, k>> # <<p, 0>>
BY OutboxNumbers DEF Rows

----------------------------------------------------------------------------
(* Giving rows up *)

\* Only sending rows are given up: they become dead letters, each message outside the
\* system channel gets the notice of its licence, and nothing else changes.
LEMMA BuriedRows ==
  ASSUME IInv, NEW dead, dead \subseteq {r \in Rows : outbox[r].status = "sending"}
  PROVE  /\ Buried(dead) \in [Rows -> OutboxRows]
         /\ \A r \in dead : Buried(dead)[r].status = "dead_letter"
                            /\ Buried(dead)[r].route = outbox[r].route
         /\ \A r \in Rows \ dead :
              IF \E d \in dead : outbox[d].route # System /\ r = Notice(d)
                THEN /\ Buried(dead)[r].status = "pending" /\ Buried(dead)[r].route = System
                     /\ outbox[r].status = "absent"
                ELSE Buried(dead)[r] = outbox[r]
<1>1. TypeOK /\ System \in Routes /\ outbox \in [Rows -> OutboxRows]
  BY OutboxNames DEF IInv, TypeOK
<1>2. ASSUME NEW r \in dead
      PROVE  /\ Released(outbox[r], "dead_letter", 0) \in OutboxRows
             /\ Released(outbox[r], "dead_letter", 0).status = "dead_letter"
             /\ Released(outbox[r], "dead_letter", 0).route = outbox[r].route
  <2>1. outbox[r] \in OutboxRows /\ "dead_letter" \in OutboxStatuses /\ 0 \in Nat
    BY <1>1, <1>2, RowTypes DEF OutboxStatuses
  <2> QED BY <2>1, ReleasedType
<1>3. /\ Inserted(System) \in OutboxRows
      /\ Inserted(System).status = "pending" /\ Inserted(System).route = System
  BY <1>1, InsertedType
<1>4. ASSUME NEW d \in dead, outbox[d].route # System
      PROVE  outbox[Notice(d)].status = "absent"
  <2>1. d \in Rows /\ outbox[d].status = "sending" /\ RowIn(outbox[d], d)
    BY DEF IInv, TableOK
  <2>2. d = <<d[1], 0>> /\ d[1] \in Posts
    <3>1. d = <<d[1], d[2]>> /\ d[1] \in Posts /\ d[2] \in 0..(MaxRetries + 1)
      BY <1>1, <2>1, RowTypes
    <3>2. ~(d[2] > 0)
      BY <1>4, <2>1 DEF RowIn
    <3>3. d[2] = 0
      BY <3>1, <3>2, OutboxNumbers
    <3> QED BY <3>1, <3>3
  <2>3. retries[d] \in 0..MaxRetries
    BY <1>1, <2>1 DEF TypeOK
  <2>4. retries[d] + 1 \in 1..(MaxRetries + 1) /\ ~(retries[d] + 1 <= retries[d])
    BY <2>3, OutboxNumbers
  <2>5. outbox[<<d[1], retries[d] + 1>>].status # "absent" <=>
          \/ retries[d] + 1 <= retries[d]
          \/ outbox[d].status \in {"dead_letter", "archived"}
    BY <1>4, <2>2, <2>4 DEF IInv, TableOK, ReportedIn
  <2> QED BY <2>1, <2>4, <2>5 DEF Notice
<1>5. \A r \in Rows : Buried(dead)[r] =
        IF r \in dead THEN Released(outbox[r], "dead_letter", 0)
        ELSE IF \E d \in dead : outbox[d].route # System /\ r = Notice(d) THEN Inserted(System)
        ELSE outbox[r]
  BY DEF Buried
<1>6. \A r \in Rows : Buried(dead)[r] \in OutboxRows
  BY <1>1, <1>2, <1>3, <1>5, RowTypes
<1>7. Buried(dead) = [r \in Rows |-> Buried(dead)[r]]
  BY DEF Buried
<1>8. Buried(dead) \in [Rows -> OutboxRows]
  BY <1>6, <1>7
<1> QED BY <1>2, <1>3, <1>4, <1>5, <1>8

LEMMA BuriedOK ==
  ASSUME IInv, NEW dead, dead \subseteq {r \in Rows : outbox[r].status = "sending"}
  PROVE  TableOK(Buried(dead))
<1> DEFINE T == Buried(dead)
<1>1. TypeOK /\ TableOK(outbox)
  BY DEF IInv
<1>2. T \in [Rows -> OutboxRows]
  BY BuriedRows
<1>3. \A r \in dead : r \in Rows /\ T[r].status = "dead_letter" /\ T[r].route = outbox[r].route
  BY BuriedRows
<1>4. \A r \in Rows \ dead :
        IF \E d \in dead : outbox[d].route # System /\ r = Notice(d)
          THEN T[r].status = "pending" /\ T[r].route = System /\ outbox[r].status = "absent"
          ELSE T[r] = outbox[r]
  BY BuriedRows
<1> HIDE DEF T
<1>5. ASSUME NEW r \in Rows PROVE RowIn(T[r], r)
  <2>1. RowIn(outbox[r], r)
    BY <1>1 DEF TableOK
  <2>2. CASE r \in dead
    BY <1>3, <2>1, <2>2 DEF RowIn
  <2>3. CASE r \notin dead
    BY <1>4, <2>1, <2>3 DEF RowIn
  <2> QED BY <2>2, <2>3
<1>6. ASSUME NEW p \in Posts, NEW k \in 1..(MaxRetries + 1)
      PROVE  /\ T[<<p, 0>>].route # System =>
                  (T[<<p, k>>].status # "absent" <=>
                     \/ k <= retries[<<p, 0>>]
                     \/ /\ k = retries[<<p, 0>>] + 1
                        /\ T[<<p, 0>>].status \in {"dead_letter", "archived"})
             /\ T[<<p, 0>>].route = System => T[<<p, k>>].status = "absent"
  <2> DEFINE r == <<p, 0>>
             n == <<p, k>>
  <2>1. r \in Rows /\ n \in Rows /\ k \in 0..(MaxRetries + 1) /\ ~(0 = retries[r] + 1)
    <3>1. r \in Rows /\ n \in Rows
      BY MessageRow
    <3>2. retries[r] \in 0..MaxRetries
      BY <1>1, <3>1 DEF TypeOK
    <3> QED BY <3>1, <3>2, OutboxNumbers
  <2>2. /\ outbox[r].route # System =>
              (outbox[n].status # "absent" <=>
                 \/ k <= retries[r]
                 \/ k = retries[r] + 1 /\ outbox[r].status \in {"dead_letter", "archived"})
        /\ outbox[r].route = System => outbox[n].status = "absent"
    BY <1>1 DEF TableOK, ReportedIn
  <2>3. \A d \in dead : outbox[d].route # System => d = <<d[1], 0>> /\ d[1] \in Posts
    <3> SUFFICES ASSUME NEW d \in dead, outbox[d].route # System
                 PROVE  d = <<d[1], 0>> /\ d[1] \in Posts
      OBVIOUS
    <3>1. d = <<d[1], d[2]>> /\ d[1] \in Posts /\ d[2] \in 0..(MaxRetries + 1)
      BY <1>1, <1>3, RowTypes DEF TypeOK
    <3>2. ~(d[2] > 0)
      BY <1>1, <1>3 DEF TableOK, RowIn
    <3>3. d[2] = 0
      BY <3>1, <3>2, OutboxNumbers
    <3> QED BY <3>1, <3>3
  <2>4. \A d \in dead : outbox[d].route # System /\ n = Notice(d) <=>
                          d = r /\ outbox[r].route # System /\ k = retries[r] + 1
    <3> SUFFICES ASSUME NEW d \in dead
                 PROVE outbox[d].route # System /\ n = Notice(d) <=>
                          d = r /\ outbox[r].route # System /\ k = retries[r] + 1
      OBVIOUS
    <3>1. n = Notice(d) <=> d[1] = p /\ k = retries[d] + 1
      BY <1>1, <1>3, <2>1, NoticeRow
    <3>2. outbox[d].route # System => d = <<d[1], 0>>
      BY <2>3
    <3>3. r[1] = p
      OBVIOUS
    <3> QED BY <3>1, <3>2, <3>3
  <2>5. ~\E d \in dead : outbox[d].route # System /\ r = Notice(d)
    <3>1. 0 \in 0..(MaxRetries + 1)
      BY OutboxNumbers
    <3>2. \A d \in dead : r = Notice(d) => 0 = retries[d] + 1
      BY <1>1, <1>3, <3>1, NoticeRow
    <3>3. \A d \in dead : retries[d] \in Nat
      BY <1>1, <1>3, OutstandingType
    <3> QED BY <3>2, <3>3
  <2>6. T[r].route = outbox[r].route
        /\ (r \in dead => T[r].status = "dead_letter" /\ outbox[r].status = "sending")
        /\ (r \notin dead => T[r] = outbox[r])
    BY <1>3, <1>4, <2>1, <2>5
  <2>7. CASE r \in dead /\ outbox[r].route # System /\ k = retries[r] + 1
    <3>1. outbox[n].status = "absent"
      <4>1. ~(k <= retries[r])
        BY <1>1, <2>1, <2>7, OutstandingType
      <4> QED BY <2>2, <2>6, <2>7, <4>1
    <3>2. n \notin dead
      BY <3>1
    <3>3. T[n].status = "pending"
      BY <1>4, <2>1, <2>4, <2>7, <3>2
    <3> QED BY <2>6, <2>7, <3>3
  <2>8. CASE ~(r \in dead /\ outbox[r].route # System /\ k = retries[r] + 1)
    <3>1. T[n].status # "absent" <=> outbox[n].status # "absent"
      BY <1>3, <1>4, <2>1, <2>4, <2>8
    <3> QED BY <2>2, <2>6, <2>8, <3>1
  <2> QED BY <2>7, <2>8
<1>7. ReportedIn(T)
  BY <1>6 DEF ReportedIn
<1> QED BY <1>2, <1>5, <1>7 DEF TableOK, T

----------------------------------------------------------------------------
(* The steps *)

\* A step after which the table still fits what was done outside so far, that asks for
\* nothing more, keeps the invariant.
LEMMA TableStep ==
  ASSUME IInv, TypeOK', TableOK(outbox'), UNCHANGED retries,
         \A r \in Rows : Outstanding(r)' <= Outstanding(r) /\ delivered'[r] >= delivered[r],
         \A r \in Rows : flight'[r] = "done" => delivered'[r] > 0
  PROVE  IInv'
<1>1. \A r \in Rows : /\ Outstanding(r) \in Nat /\ Outstanding(r)' \in Nat /\ retries[r] \in Nat
                      /\ delivered[r] \in Nat /\ delivered'[r] \in Nat
  <2>1. \A r \in Rows : Outstanding(r) \in Nat /\ retries[r] \in Nat
    BY OutstandingType DEF IInv
  <2>2. \A r \in Rows : Outstanding(r)' \in Nat
    <3>1. \A r \in Rows : /\ delivered'[r] \in Nat /\ stray'[r] \in Nat
      BY DEF TypeOK
    <3> QED BY <3>1 DEF Outstanding
  <2> QED BY <2>1, <2>2 DEF TypeOK, IInv
<1>2. ASSUME NEW r \in Rows PROVE RowIn(outbox[r], r)'
  <2>1. RowIn(outbox'[r], r)
    BY DEF TableOK
  <2> HIDE DEF Outstanding
  <2> QED BY <1>1, <2>1 DEF RowIn
<1>3. ReportedIn(outbox)'
  BY DEF TableOK, ReportedIn
<1> QED BY <1>2, <1>3 DEF IInv, TableOK, TypeOK

\* Two tables with the same routes, absent rows and given-up rows are reported alike.
LEMMA SameReport ==
  ASSUME NEW T, ReportedIn(T), NEW U,
         \A s \in Rows : /\ U[s].route = T[s].route
                         /\ U[s].status = "absent" <=> T[s].status = "absent"
                         /\ U[s].status \in {"dead_letter", "archived"} <=>
                              T[s].status \in {"dead_letter", "archived"}
  PROVE  ReportedIn(U)
<1>1. ASSUME NEW p \in Posts, NEW k \in 1..(MaxRetries + 1)
      PROVE  /\ U[<<p, 0>>].route # System =>
                  (U[<<p, k>>].status # "absent" <=>
                     \/ k <= retries[<<p, 0>>]
                     \/ /\ k = retries[<<p, 0>>] + 1
                        /\ U[<<p, 0>>].status \in {"dead_letter", "archived"})
             /\ U[<<p, 0>>].route = System => U[<<p, k>>].status = "absent"
  <2>1. <<p, 0>> \in Rows /\ <<p, k>> \in Rows
    BY MessageRow
  <2>2. /\ T[<<p, 0>>].route # System =>
              (T[<<p, k>>].status # "absent" <=>
                 \/ k <= retries[<<p, 0>>]
                 \/ /\ k = retries[<<p, 0>>] + 1
                    /\ T[<<p, 0>>].status \in {"dead_letter", "archived"})
        /\ T[<<p, 0>>].route = System => T[<<p, k>>].status = "absent"
    BY DEF ReportedIn
  <2> QED BY <2>1, <2>2
<1> QED BY <1>1 DEF ReportedIn

LEMMA TickStep == ASSUME IInv, Tick PROVE IInv'
<1> DEFINE T == [r \in Rows |-> [outbox[r] EXCEPT !.lease = CountDown(@), !.delay = CountDown(@)]]
<1>1. TypeOK /\ outbox' = T /\ UNCHANGED <<ownerRoute, daemon, flight, stray, delivered, retries>>
  BY DEF IInv, Tick
<1>2. \A r \in Rows : outbox[r] \in OutboxRows
  BY <1>1, RowTypes DEF TypeOK
<1>3. ASSUME NEW r \in Rows PROVE T[r] \in OutboxRows
  <2>1. outbox[r] \in OutboxRows /\ outbox[r].lease \in Nat /\ outbox[r].delay \in Nat
    BY <1>2 DEF OutboxRows
  <2>2. CountDown(outbox[r].lease) \in Nat /\ CountDown(outbox[r].delay) \in Nat
    BY <2>1 DEF CountDown
  <2> QED BY <2>1, <2>2 DEF OutboxRows
<1>4. outbox' \in [Rows -> OutboxRows]
  BY <1>1, <1>3
<1>5. \A r \in Rows : /\ outbox'[r].status = outbox[r].status /\ outbox'[r].route = outbox[r].route
                      /\ outbox'[r].attempts = outbox[r].attempts
  BY <1>1, <1>2 DEF OutboxRows
<1>6. TypeOK'
  BY <1>1, <1>4 DEF TypeOK
<1>7. \A r \in Rows : RowIn(outbox'[r], r)
  BY <1>5 DEF RowIn, IInv, TableOK
<1>8. ReportedIn(outbox')
  <2>1. ReportedIn(outbox)
    BY DEF IInv, TableOK
  <2> HIDE DEF T
  <2> QED BY <1>5, <2>1, SameReport
<1>9. \A r \in Rows : Outstanding(r)' = Outstanding(r) /\ delivered'[r] = delivered[r]
  BY <1>1 DEF Outstanding
<1>10. \A r \in Rows : Outstanding(r) \in Nat /\ delivered[r] \in Nat
  BY <1>1, OutstandingType DEF TypeOK
<1>11. TableOK(outbox')
  BY <1>4, <1>7, <1>8 DEF TableOK
<1>12. \A r \in Rows : flight'[r] = "done" => delivered'[r] > 0
  BY <1>1 DEF IInv
<1>13. UNCHANGED retries
  BY <1>1
<1> HIDE DEF T
<1> QED BY <1>6, <1>9, <1>10, <1>11, <1>12, <1>13, TableStep

LEMMA CrashStep == ASSUME IInv, Crash PROVE IInv'
<1>1. TypeOK /\ UNCHANGED <<outbox, ownerRoute, delivered, retries>>
  BY DEF IInv, Crash
<1>2. \A r \in Rows : flight[r] \in {"none", "asked", "done"} /\ stray[r] \in Nat /\ delivered[r] \in Nat
  BY <1>1 DEF TypeOK
<1>3. daemon' \in Processes
  BY <1>1, OutboxNumbers DEF Crash, TypeOK, Processes
<1>4. TypeOK'
  BY <1>1, <1>2, <1>3 DEF Crash, TypeOK
<1>5. \A r \in Rows : Outstanding(r)' = Outstanding(r) /\ flight'[r] = "none"
  BY <1>1, <1>2 DEF Crash, Outstanding
<1>6. \A r \in Rows : Outstanding(r) \in Nat
  BY <1>1, OutstandingType
<1>7. TableOK(outbox')
  BY <1>1 DEF IInv
<1> QED BY <1>1, <1>2, <1>4, <1>5, <1>6, <1>7, TableStep

LEMMA ObserveStep == ASSUME IInv, NEW route \in Routes, ObserveOwnerRoute(route) PROVE IInv'
<1>1. TypeOK /\ UNCHANGED <<outbox, daemon, flight, stray, delivered, retries>>
  BY DEF IInv, ObserveOwnerRoute
<1>2. TypeOK'
  BY <1>1 DEF ObserveOwnerRoute, TypeOK
<1>3. \A r \in Rows : Outstanding(r)' = Outstanding(r) /\ Outstanding(r) \in Nat
  BY <1>1, OutstandingType DEF Outstanding
<1>4. \A r \in Rows : delivered[r] \in Nat
  BY <1>1 DEF TypeOK
<1> QED BY <1>1, <1>2, <1>3, <1>4, TableStep DEF IInv

LEMMA InsertStep == ASSUME IInv, NEW p \in Posts, NEW route \in Routes, Insert(p, route) PROVE IInv'
<1> DEFINE r == <<p, 0>>
<1>1. /\ TypeOK /\ outbox \in [Rows -> OutboxRows] /\ r \in Rows
      /\ outbox[r].status = "absent"
      /\ outbox' = [outbox EXCEPT ![r] = Inserted(route)]
      /\ UNCHANGED <<ownerRoute, daemon, flight, stray, delivered, retries>>
  BY MessageRow DEF IInv, TypeOK, Insert
<1>2. outbox'[r].status = "pending" /\ outbox'[r].route = route
      /\ \A s \in Rows : s # r => outbox'[s] = outbox[s]
  BY <1>1, InsertedType
<1>3. outbox' \in [Rows -> OutboxRows]
  BY <1>1, InsertedType
<1>4. TypeOK'
  BY <1>1, <1>3 DEF TypeOK
<1>5. retries[r] = 0 /\ outbox[r].route = System
  BY <1>1 DEF IInv, TableOK, RowIn
<1>6. ASSUME NEW s \in Rows PROVE RowIn(outbox'[s], s)
  <2>1. RowIn(outbox[s], s)
    BY DEF IInv, TableOK
  <2>2. s = r => ~(s[2] > 0)
    OBVIOUS
  <2> QED BY <1>1, <1>2, <2>1, <2>2 DEF RowIn
<1>7. ReportedIn(outbox')
  <2>1. ASSUME NEW q \in Posts, NEW k \in 1..(MaxRetries + 1)
        PROVE  /\ outbox'[<<q, 0>>].route # System =>
                    (outbox'[<<q, k>>].status # "absent" <=>
                       \/ k <= retries[<<q, 0>>]
                       \/ /\ k = retries[<<q, 0>>] + 1
                          /\ outbox'[<<q, 0>>].status \in {"dead_letter", "archived"})
               /\ outbox'[<<q, 0>>].route = System => outbox'[<<q, k>>].status = "absent"
    <3>1. outbox'[<<q, k>>] = outbox[<<q, k>>]
      BY <1>2, MessageRow
    <3>2. /\ outbox[<<q, 0>>].route # System =>
                    (outbox[<<q, k>>].status # "absent" <=>
                       \/ k <= retries[<<q, 0>>]
                       \/ /\ k = retries[<<q, 0>>] + 1
                          /\ outbox[<<q, 0>>].status \in {"dead_letter", "archived"})
          /\ outbox[<<q, 0>>].route = System => outbox[<<q, k>>].status = "absent"
      BY DEF IInv, TableOK, ReportedIn
    <3>3. CASE q # p
      <4>1. <<q, 0>> \in Rows /\ <<q, 0>> # r
        BY <3>3, MessageRow
      <4> QED BY <1>2, <3>1, <3>2, <4>1
    <3>4. CASE q = p
      <4>1. ~(k <= retries[<<q, 0>>])
        BY <1>5, <3>4
      <4> QED BY <1>2, <1>5, <3>1, <3>2, <3>4, <4>1
    <3> QED BY <3>3, <3>4
  <2> QED BY <1>1, <2>1 DEF ReportedIn
<1>8. \A s \in Rows : Outstanding(s)' = Outstanding(s) /\ Outstanding(s) \in Nat /\ delivered[s] \in Nat
  BY <1>1, OutstandingType DEF Outstanding, TypeOK
<1> QED BY <1>1, <1>3, <1>4, <1>6, <1>7, <1>8, TableStep DEF TableOK, IInv

\* A claim of a row that nothing is asked for: it is sending, and its sink is asked.
LEMMA ClaimedOK ==
  ASSUME IInv, NEW T, TableOK(T), NEW r \in Rows, T[r].status = "pending", flight[r] = "none",
         outbox' = [T EXCEPT ![r].status = "sending", ![r].attempts = @ + 1,
                             ![r].owner = daemon, ![r].lease = LeaseTicks],
         flight' = [flight EXCEPT ![r] = "asked"],
         ownerRoute' \in Routes \cup {NoRoute},
         UNCHANGED <<daemon, stray, delivered, retries>>
  PROVE  IInv'
<1>1. TypeOK /\ T \in [Rows -> OutboxRows]
  BY DEF IInv, TableOK
<1>2. T[r] \in OutboxRows
  BY <1>1
<1> DEFINE row == [T[r] EXCEPT !.status = "sending", !.attempts = @ + 1, !.owner = daemon,
                               !.lease = LeaseTicks]
<1>3. outbox' = [T EXCEPT ![r] = row]
  BY <1>1, <1>2 DEF OutboxRows
<1>4. /\ row \in OutboxRows /\ row.status = "sending" /\ row.route = T[r].route
      /\ row.attempts > 0
  BY <1>1, <1>2, OutboxNumbers DEF OutboxRows, OutboxStatuses, TypeOK
<1> HIDE DEF row
<1>5. outbox' \in [Rows -> OutboxRows]
  BY <1>1, <1>3, <1>4
<1>6. TypeOK'
  BY <1>1, <1>5, OutboxNumbers DEF TypeOK
<1>7. /\ outbox'[r] = row
      /\ \A s \in Rows : s # r => outbox'[s] = T[s]
  BY <1>1, <1>3
<1>8. /\ Outstanding(r)' = Outstanding(r) + 1
      /\ \A s \in Rows : s # r => Outstanding(s)' = Outstanding(s)
  <2>1. flight'[r] = "asked" /\ \A s \in Rows : s # r => flight'[s] = flight[s]
    BY <1>1 DEF TypeOK
  <2>2. delivered[r] \in Nat /\ stray[r] \in Nat
    BY <1>1 DEF TypeOK
  <2> QED BY <2>1, <2>2 DEF Outstanding
<1>9. \A s \in Rows : Outstanding(s) \in Nat /\ retries[s] \in Nat
  BY <1>1, OutstandingType
<1>10. ASSUME NEW s \in Rows PROVE RowIn(outbox[s], s)'
  <2>1. RowIn(T[s], s)
    BY DEF TableOK
  <2>2. CASE s = r
    <3>1. Outstanding(r)' <= retries'[r] + 1
      BY <1>8, <1>9, <2>1, <2>2 DEF RowIn
    <3>2. outbox'[r].status = "sending" /\ outbox'[r].attempts > 0
          /\ outbox'[r].route = T[r].route
      BY <1>4, <1>7
    <3>3. r[2] > 0 => T[r].route = System
      BY <2>1, <2>2 DEF RowIn
    <3> QED BY <2>2, <3>1, <3>2, <3>3 DEF RowIn
  <2>3. CASE s # r
    BY <1>7, <1>8, <1>9, <2>1, <2>3 DEF RowIn
  <2> QED BY <2>2, <2>3
<1>11. ReportedIn(outbox)'
  <2>1. \A s \in Rows : /\ outbox'[s].route = T[s].route
                        /\ outbox'[s].status = "absent" <=> T[s].status = "absent"
                        /\ outbox'[s].status \in {"dead_letter", "archived"} <=>
                             T[s].status \in {"dead_letter", "archived"}
    BY <1>4, <1>7
  <2>2. ReportedIn(T)
    BY DEF TableOK
  <2>3. ReportedIn(outbox')
    BY ZenonT(40), <2>1, <2>2, SameReport
  <2> QED BY <1>1, <2>3 DEF ReportedIn
<1>12. \A s \in Rows : flight'[s] = "done" => delivered'[s] > 0
  BY <1>1 DEF TypeOK, IInv
<1> QED BY <1>5, <1>6, <1>10, <1>11, <1>12 DEF IInv, TableOK

LEMMA ClaimStep == ASSUME IInv, Claim PROVE IInv'
<1>1. TypeOK /\ UNCHANGED <<daemon, stray, delivered, retries>>
  BY DEF IInv, Claim
<1>2. Expired \subseteq {r \in Rows : outbox[r].status = "sending"}
  BY DEF Expired
<1>3. TableOK(Buried(Expired))
  BY <1>2, BuriedOK
<1>4. ownerRoute' \in Routes \cup {NoRoute}
  BY <1>1 DEF Claim, OwnerRouteAfter, TypeOK
<1>5. CASE outbox' = Buried(Expired) /\ UNCHANGED flight
  <2>1. TypeOK'
    BY <1>1, <1>3, <1>4, <1>5 DEF TypeOK, TableOK
  <2>2. \A r \in Rows : Outstanding(r)' = Outstanding(r) /\ Outstanding(r) \in Nat
                        /\ delivered[r] \in Nat
    BY <1>1, <1>5, OutstandingType DEF Outstanding, TypeOK
  <2> QED BY <1>1, <1>3, <1>5, <2>1, <2>2, TableStep DEF IInv
<1>6. ASSUME NEW r \in NextUp(Buried(Expired)),
             outbox' = [Buried(Expired) EXCEPT ![r].status = "sending", ![r].attempts = @ + 1,
                                               ![r].owner = daemon, ![r].lease = LeaseTicks],
             flight' = [flight EXCEPT ![r] = "asked"]
      PROVE  IInv'
  <2>1. /\ r \in Rows /\ Buried(Expired)[r].status = "pending"
        /\ Buried(Expired)[r].route \notin {outbox[s].route : s \in InFlight}
    BY <1>6 DEF NextUp, Candidates
  <2>2. flight[r] = "none"
    <3> SUFFICES ASSUME flight[r] # "none" PROVE FALSE
      OBVIOUS
    <3>1. r \in InFlight
      BY <2>1 DEF InFlight
    <3>2. r \notin Expired /\ Buried(Expired)[r] # outbox[r]
      BY <1>2, <2>1, <3>1, BuriedRows
    <3>3. Buried(Expired)[r].route = System /\ outbox[r].status = "absent"
      BY <1>2, <2>1, <3>2, BuriedRows
    <3>4. outbox[r].route = System
      BY <2>1, <3>3 DEF IInv, TableOK, RowIn
    <3> QED BY <2>1, <3>1, <3>3, <3>4
  <2> QED BY <1>1, <1>3, <1>4, <1>6, <2>1, <2>2, ClaimedOK
<1> QED BY <1>5, <1>6 DEF Claim, ClaimAfter

LEMMA ActStep == ASSUME IInv, NEW r \in Rows, Act(r) PROVE IInv'
<1>1. /\ TypeOK /\ flight[r] = "asked" /\ flight' = [flight EXCEPT ![r] = "done"]
      /\ delivered' = [delivered EXCEPT ![r] = @ + 1]
      /\ UNCHANGED <<outbox, ownerRoute, daemon, stray, retries>>
  BY DEF IInv, Act
<1>2. TypeOK'
  BY <1>1 DEF TypeOK
<1>3. \A s \in Rows : delivered[s] \in Nat /\ stray[s] \in Nat /\ Outstanding(s) \in Nat
  BY <1>1, OutstandingType DEF TypeOK
<1>4. \A s \in Rows : Outstanding(s)' = Outstanding(s) /\ delivered'[s] >= delivered[s]
  BY <1>1, <1>3 DEF Outstanding, TypeOK
<1>5. \A s \in Rows : flight'[s] = "done" => delivered'[s] > 0
  BY <1>1, <1>3 DEF TypeOK, IInv
<1> HIDE DEF Outstanding
<1> QED BY <1>1, <1>2, <1>3, <1>4, <1>5, TableStep DEF IInv

LEMMA StrayStep == ASSUME IInv, NEW r \in Rows, NEW acted \in BOOLEAN, StrayEnds(r, acted) PROVE IInv'
<1>1. /\ TypeOK /\ stray[r] > 0 /\ stray' = [stray EXCEPT ![r] = @ - 1]
      /\ delivered' = [delivered EXCEPT ![r] = IF acted THEN @ + 1 ELSE @]
      /\ UNCHANGED <<outbox, ownerRoute, daemon, flight, retries>>
  BY DEF IInv, StrayEnds
<1>2. \A s \in Rows : delivered[s] \in Nat /\ stray[s] \in Nat /\ Outstanding(s) \in Nat
  BY <1>1, OutstandingType DEF TypeOK
<1>3. \A s \in Rows : /\ delivered'[s] \in Nat /\ stray'[s] \in Nat
                      /\ delivered'[s] + stray'[s] <= delivered[s] + stray[s]
                      /\ delivered'[s] >= delivered[s]
  BY <1>1, <1>2 DEF TypeOK
<1>4. TypeOK'
  BY <1>1, <1>3 DEF TypeOK
<1>5. \A s \in Rows : Outstanding(s)' <= Outstanding(s)
  BY <1>1, <1>2, <1>3 DEF Outstanding
<1>6. \A s \in Rows : flight'[s] = "done" => delivered'[s] > 0
  BY <1>1, <1>2, <1>3 DEF IInv
<1> QED BY <1>1, <1>3, <1>4, <1>5, <1>6, TableStep DEF IInv

LEMMA CompleteStep == ASSUME IInv, NEW r \in Rows, NEW stored \in BOOLEAN, Complete(r, stored) PROVE IInv'
<1>1. /\ TypeOK /\ flight[r] = "done" /\ flight' = [flight EXCEPT ![r] = "none"]
      /\ UNCHANGED <<ownerRoute, daemon, stray, delivered, retries>>
  BY DEF IInv, Complete
<1>2. \A s \in Rows : Outstanding(s)' = Outstanding(s) /\ Outstanding(s) \in Nat /\ delivered[s] \in Nat
  BY <1>1, OutstandingType DEF Outstanding, TypeOK
<1>3. \A s \in Rows : flight'[s] = "done" => delivered'[s] > 0
  BY <1>1 DEF TypeOK, IInv
<1>4. CASE UNCHANGED outbox
  <2>1. TypeOK'
    BY <1>1, <1>4 DEF TypeOK
  <2> QED BY <1>1, <1>2, <1>3, <1>4, <2>1, TableStep DEF IInv
<1>5. CASE Held(r) /\ outbox' = [outbox EXCEPT ![r] = Released(outbox[r], "sent", 0)]
  <2> DEFINE row == Released(outbox[r], "sent", 0)
  <2>1. outbox[r] \in OutboxRows /\ "sent" \in OutboxStatuses /\ 0 \in Nat
        /\ outbox[r].status = "sending"
    BY <1>1, <1>5, RowTypes DEF TypeOK, OutboxStatuses, Held
  <2>2. row \in OutboxRows /\ row.status = "sent" /\ row.route = outbox[r].route
    BY <2>1, ReleasedType
  <2>3. outbox'[r] = row /\ \A s \in Rows : s # r => outbox'[s] = outbox[s]
    BY <1>1, <1>5 DEF TypeOK
  <2> HIDE DEF row
  <2>4. outbox' \in [Rows -> OutboxRows]
    BY <1>1, <1>5, <2>2 DEF TypeOK, row
  <2>5. TypeOK'
    BY <1>1, <2>4 DEF TypeOK
  <2>6. delivered[r] > 0
    BY <1>1 DEF IInv
  <2>7. \A s \in Rows : RowIn(outbox'[s], s)
    BY <2>2, <2>3, <2>6 DEF IInv, TableOK, RowIn
  <2>8. ReportedIn(outbox')
    <3>1. ReportedIn(outbox)
      BY DEF IInv, TableOK
    <3>2. \A s \in Rows : /\ outbox'[s].route = outbox[s].route
                          /\ outbox'[s].status = "absent" <=> outbox[s].status = "absent"
                          /\ outbox'[s].status \in {"dead_letter", "archived"} <=>
                               outbox[s].status \in {"dead_letter", "archived"}
      BY <2>1, <2>2, <2>3
    <3> QED BY <3>1, <3>2, SameReport
  <2> QED BY <1>1, <1>2, <1>3, <2>4, <2>5, <2>7, <2>8, TableStep DEF TableOK
<1> QED BY <1>4, <1>5 DEF Complete

LEMMA FailStep ==
  ASSUME IInv, NEW r \in Rows, NEW kind \in FailureKinds, NEW stored \in BOOLEAN, Fail(r, kind, stored)
  PROVE  IInv'
<1> DEFINE dead == IF stored /\ Held(r) /\ outbox[r].attempts >= AttemptsAllowed(kind)
                     THEN {r} ELSE {}
<1>1. /\ TypeOK /\ flight[r] # "none"
      /\ kind # "uncertain" => flight[r] = "asked"
      /\ flight' = [flight EXCEPT ![r] = "none"]
      /\ stray' = IF kind = "uncertain" /\ flight[r] = "asked"
                    THEN [stray EXCEPT ![r] = @ + 1] ELSE stray
      /\ UNCHANGED <<daemon, delivered, retries>>
      /\ ownerRoute' = OwnerRouteAfter(dead)
  BY DEF IInv, Fail
<1>2. \A s \in Rows : /\ delivered[s] \in Nat /\ stray[s] \in Nat /\ stray'[s] \in Nat
                      /\ flight'[s] = IF s = r THEN "none" ELSE flight[s]
                      /\ stray'[s] = IF s = r /\ kind = "uncertain" /\ flight[r] = "asked"
                                       THEN stray[s] + 1 ELSE stray[s]
  BY <1>1 DEF TypeOK
<1>3. \A s \in Rows : Outstanding(s)' <= Outstanding(s)
  BY <1>1, <1>2 DEF Outstanding
<1>4. flight' \in [Rows -> {"none", "asked", "done"}] /\ stray' \in [Rows -> Nat]
      /\ ownerRoute' \in Routes \cup {NoRoute}
  BY <1>1, <1>2 DEF TypeOK, OwnerRouteAfter
<1>5. \A s \in Rows : flight'[s] = "done" => delivered'[s] > 0
  BY <1>1, <1>2 DEF IInv
<1>6. CASE stored /\ Held(r) /\ dead = {}
  <2> DEFINE row == Released(outbox[r], "pending", Backoff[outbox[r].attempts])
  <2>1. /\ outbox[r] \in OutboxRows /\ "pending" \in OutboxStatuses
        /\ outbox[r].status = "sending" /\ outbox[r].attempts \in Nat
    BY <1>1, <1>6, RowTypes DEF TypeOK, OutboxStatuses, Held
  <2>2. outbox[r].attempts > 0
    BY <2>1 DEF IInv, TableOK, RowIn
  <2>3. kind = "retryable" /\ outbox[r].attempts < MaxAttempts
    BY <1>6, <2>1, <2>2, OutboxNumbers DEF AttemptsAllowed, FailureKinds
  <2>4. Backoff[outbox[r].attempts] \in Nat
    <3>1. outbox[r].attempts \in Attempts
      BY <2>1, <2>2, <2>3, OutboxNumbers DEF Attempts
    <3> QED BY <3>1, OutboxNumbers
  <2>5. row \in OutboxRows /\ row.status = "pending" /\ row.route = outbox[r].route
    BY <2>1, <2>4, ReleasedType
  <2>6. outbox' = [outbox EXCEPT ![r] = row]
    BY <1>6 DEF Fail
  <2>7. outbox'[r] = row /\ \A s \in Rows : s # r => outbox'[s] = outbox[s]
    BY <1>1, <2>6 DEF TypeOK
  <2> HIDE DEF row
  <2>8. outbox' \in [Rows -> OutboxRows]
    BY <1>1, <2>5, <2>6 DEF TypeOK
  <2>9. TypeOK'
    BY <1>1, <1>4, <2>8 DEF TypeOK
  <2>10. Outstanding(r)' + 1 = Outstanding(r) /\ flight[r] = "asked"
    BY <1>1, <1>2, <2>3 DEF Outstanding
  <2>11. \A s \in Rows : /\ Outstanding(s) \in Nat /\ Outstanding(s)' \in Nat
                         /\ retries[s] \in Nat /\ retries'[s] = retries[s]
    BY <1>1, <2>9, OutstandingType, <1>2 DEF Outstanding
  <2>12. ASSUME NEW s \in Rows PROVE RowIn(outbox[s], s)'
    <3>1. RowIn(outbox[s], s)
      BY DEF IInv, TableOK
    <3> HIDE DEF Outstanding
    <3>2. CASE s = r
      BY <1>1, <2>1, <2>5, <2>7, <2>10, <2>11, <3>1, <3>2 DEF RowIn
    <3>3. CASE s # r
      BY <1>1, <1>3, <2>7, <2>11, <3>1, <3>3 DEF RowIn
    <3> QED BY <3>2, <3>3
  <2>13. ReportedIn(outbox')
    <3>1. ReportedIn(outbox)
      BY DEF IInv, TableOK
    <3>2. \A s \in Rows : /\ outbox'[s].route = outbox[s].route
                          /\ outbox'[s].status = "absent" <=> outbox[s].status = "absent"
                          /\ outbox'[s].status \in {"dead_letter", "archived"} <=>
                               outbox[s].status \in {"dead_letter", "archived"}
      BY <2>1, <2>5, <2>7
    <3> QED BY <3>1, <3>2, SameReport
  <2>14. ReportedIn(outbox)'
    BY <1>1, <2>13 DEF ReportedIn
  <2> QED BY <1>5, <2>8, <2>9, <2>12, <2>14 DEF IInv, TableOK
<1>7. CASE ~(stored /\ Held(r) /\ dead = {})
  <2>1. outbox' = Buried(dead)
    BY <1>7 DEF Fail
  <2>2. dead \subseteq {s \in Rows : outbox[s].status = "sending"}
    BY DEF Held
  <2> HIDE DEF dead
  <2>3. TableOK(outbox')
    BY <2>1, <2>2, BuriedOK
  <2>4. TypeOK'
    BY <1>1, <1>4, <2>3 DEF TypeOK, TableOK
  <2>5. \A s \in Rows : delivered'[s] >= delivered[s]
    BY <1>1, <1>2
  <2> QED BY <1>1, <1>3, <1>5, <2>3, <2>4, <2>5, TableStep
<1> QED BY <1>6, <1>7

LEMMA RetryStep == ASSUME IInv, NEW r \in Rows, RetryDeadLetter(r) PROVE IInv'
<1> DEFINE row == [Released(outbox[r], "pending", 0) EXCEPT !.attempts = 0]
<1>1. /\ TypeOK /\ outbox[r].status = "dead_letter" /\ retries[r] < MaxRetries
      /\ retries' = [retries EXCEPT ![r] = @ + 1]
      /\ outbox' = [outbox EXCEPT ![r] = row]
      /\ UNCHANGED <<ownerRoute, daemon, flight, stray, delivered>>
  BY DEF IInv, RetryDeadLetter, RetryBound
<1>2. row \in OutboxRows /\ row.status = "pending" /\ row.route = outbox[r].route
  <2>1. outbox[r] \in OutboxRows /\ "pending" \in OutboxStatuses /\ 0 \in Nat
    BY <1>1, RowTypes DEF TypeOK, OutboxStatuses
  <2>2. /\ Released(outbox[r], "pending", 0) \in OutboxRows
        /\ Released(outbox[r], "pending", 0).status = "pending"
        /\ Released(outbox[r], "pending", 0).route = outbox[r].route
    BY <2>1, ReleasedType
  <2> QED BY <2>2 DEF OutboxRows
<1> HIDE DEF row
<1>3. outbox'[r] = row /\ \A s \in Rows : s # r => outbox'[s] = outbox[s]
  BY <1>1 DEF TypeOK
<1>4. outbox' \in [Rows -> OutboxRows]
  BY <1>1, <1>2 DEF TypeOK
<1>5. retries[r] + 1 \in 0..MaxRetries
  BY <1>1, OutboxNumbers DEF TypeOK
<1>6. TypeOK'
  BY <1>1, <1>4, <1>5 DEF TypeOK
<1>7. /\ retries'[r] = retries[r] + 1
      /\ \A s \in Rows : s # r => retries'[s] = retries[s]
  BY <1>1 DEF TypeOK
<1>8. \A s \in Rows : Outstanding(s)' = Outstanding(s) /\ Outstanding(s) \in Nat /\ retries[s] \in Nat
  BY <1>1, OutstandingType DEF Outstanding
<1>9. ASSUME NEW s \in Rows PROVE RowIn(outbox[s], s)'
  <2>1. RowIn(outbox[s], s)
    BY DEF IInv, TableOK
  <2> HIDE DEF Outstanding
  <2>2. CASE s = r
    BY <1>1, <1>2, <1>3, <1>7, <1>8, <2>1, <2>2 DEF RowIn
  <2>3. CASE s # r
    BY <1>1, <1>3, <1>7, <1>8, <2>1, <2>3 DEF RowIn
  <2> QED BY <2>2, <2>3
<1>10. ReportedIn(outbox)'
  <2>1. ASSUME NEW p \in Posts, NEW k \in 1..(MaxRetries + 1)
        PROVE  /\ outbox'[<<p, 0>>].route # System =>
                    (outbox'[<<p, k>>].status # "absent" <=>
                       \/ k <= retries'[<<p, 0>>]
                       \/ /\ k = retries'[<<p, 0>>] + 1
                          /\ outbox'[<<p, 0>>].status \in {"dead_letter", "archived"})
               /\ outbox'[<<p, 0>>].route = System => outbox'[<<p, k>>].status = "absent"
    <3> DEFINE m == <<p, 0>>
               n == <<p, k>>
    <3>1. m \in Rows /\ n \in Rows /\ m # n /\ retries[m] \in Nat
      BY <1>8, MessageRow
    <3>2. /\ outbox[m].route # System =>
                (outbox[n].status # "absent" <=>
                   \/ k <= retries[m]
                   \/ k = retries[m] + 1 /\ outbox[m].status \in {"dead_letter", "archived"})
          /\ outbox[m].route = System => outbox[n].status = "absent"
      BY DEF IInv, TableOK, ReportedIn
    <3>3. outbox'[n].status = "absent" <=> outbox[n].status = "absent"
      BY <1>1, <1>2, <1>3, <3>1
    <3>4. CASE m # r
      <4>1. outbox'[m] = outbox[m] /\ retries'[m] = retries[m]
        BY <1>3, <1>7, <3>1, <3>4
      <4> QED BY <3>2, <3>3, <4>1
    <3>5. CASE m = r
      <4>1. outbox'[m].status = "pending" /\ outbox'[m].route = outbox[m].route
            /\ retries'[m] = retries[m] + 1
        BY <1>2, <1>3, <1>7, <3>5
      <4>2. k <= retries[m] + 1 <=> k <= retries[m] \/ k = retries[m] + 1
        BY <3>1
      <4> QED BY <1>1, <3>2, <3>3, <3>5, <4>1, <4>2
    <3> QED BY <3>4, <3>5
  <2> QED BY <2>1 DEF ReportedIn
<1>11. \A s \in Rows : flight'[s] = "done" => delivered'[s] > 0
  BY <1>1 DEF IInv
<1> QED BY <1>4, <1>6, <1>9, <1>10, <1>11 DEF IInv, TableOK

LEMMA ArchiveStep == ASSUME IInv, NEW r \in Rows, ArchiveDeadLetter(r) PROVE IInv'
<1>1. /\ TypeOK /\ outbox[r].status = "dead_letter"
      /\ outbox' = [outbox EXCEPT ![r].status = "archived"]
      /\ UNCHANGED <<ownerRoute, daemon, flight, stray, delivered, retries>>
  BY DEF IInv, ArchiveDeadLetter
<1>2. outbox[r] \in OutboxRows
  BY <1>1, RowTypes DEF TypeOK
<1>3. /\ outbox'[r].status = "archived" /\ outbox'[r].route = outbox[r].route
      /\ outbox'[r] \in OutboxRows
      /\ \A s \in Rows : s # r => outbox'[s] = outbox[s]
  BY <1>1, <1>2 DEF OutboxRows, OutboxStatuses, TypeOK
<1>4. outbox' \in [Rows -> OutboxRows]
  BY <1>1, <1>3 DEF TypeOK
<1>5. TypeOK'
  BY <1>1, <1>4 DEF TypeOK
<1>6. \A s \in Rows : RowIn(outbox'[s], s)
  BY <1>1, <1>3 DEF IInv, TableOK, RowIn
<1>7. ReportedIn(outbox')
  <2>1. ReportedIn(outbox)
    BY DEF IInv, TableOK
  <2>2. \A s \in Rows : /\ outbox'[s].route = outbox[s].route
                        /\ outbox'[s].status = "absent" <=> outbox[s].status = "absent"
                        /\ outbox'[s].status \in {"dead_letter", "archived"} <=>
                             outbox[s].status \in {"dead_letter", "archived"}
    BY <1>1, <1>3
  <2> QED BY <2>1, <2>2, SameReport
<1>8. \A s \in Rows : Outstanding(s)' = Outstanding(s) /\ Outstanding(s) \in Nat /\ delivered[s] \in Nat
  BY <1>1, OutstandingType DEF Outstanding, TypeOK
<1>9. TableOK(outbox')
  BY <1>4, <1>6, <1>7 DEF TableOK
<1>10. \A s \in Rows : flight'[s] = "done" => delivered'[s] > 0
  BY <1>1 DEF IInv
<1> QED BY <1>1, <1>5, <1>8, <1>9, <1>10, TableStep

----------------------------------------------------------------------------
(* The inductive invariant, and what follows from it *)

LEMMA InitIInv == Init => IInv
<1> SUFFICES ASSUME Init PROVE IInv
  OBVIOUS
<1>1. TypeOK
  BY OutboxNames, OutboxNumbers
  DEF Init, TypeOK, OutboxRows, OutboxStatuses, Processes, NoProcess
<1>2. \A r \in Rows : RowIn(outbox[r], r) /\ flight[r] # "done"
  BY DEF Init, RowIn, Outstanding
<1>3. ReportedIn(outbox)
  BY MessageRow DEF Init, ReportedIn
<1> QED BY <1>1, <1>2, <1>3 DEF IInv, TableOK, TypeOK

LEMMA StepIInv == IInv /\ [Next]_vars => IInv'
<1> SUFFICES ASSUME IInv, [Next]_vars PROVE IInv'
  OBVIOUS
<1>1. ASSUME UNCHANGED vars PROVE IInv'
  BY <1>1 DEF vars, IInv, TypeOK, TableOK, RowIn, ReportedIn, Outstanding
<1>2. ASSUME Tick \/ Crash \/ Claim PROVE IInv'
  BY <1>2, TickStep, CrashStep, ClaimStep
<1>3. ASSUME NEW route \in Routes, ObserveOwnerRoute(route) PROVE IInv'
  BY <1>3, ObserveStep
<1>4. ASSUME NEW p \in Posts, NEW route \in Routes, Insert(p, route) PROVE IInv'
  BY <1>4, InsertStep
<1>5. ASSUME NEW r \in Rows, Act(r) \/ RetryDeadLetter(r) \/ ArchiveDeadLetter(r) PROVE IInv'
  BY <1>5, ActStep, RetryStep, ArchiveStep
<1>6. ASSUME NEW r \in Rows, NEW acted \in BOOLEAN, StrayEnds(r, acted) PROVE IInv'
  BY <1>6, StrayStep
<1>7. ASSUME NEW r \in Rows, Answer(r) PROVE IInv'
  BY <1>7, CompleteStep, FailStep DEF Answer
<1> QED BY <1>1, <1>2, <1>3, <1>4, <1>5, <1>6, <1>7 DEF Next

\* The outbox table, the deliveries in flight and the history keep their types, for any
\* number of messages, routes, crashes and retries.
THEOREM TypeCorrect == Spec => []TypeOK
<1>1. IInv => TypeOK
  BY DEF IInv
<1> QED BY <1>1, InitIInv, StepIInv, PTL DEF Spec

\* outbox-store.ts never returns a sending row to pending unless the sink reported a
\* definite failure, and gives an expired one up: so whatever crashes, times out or is
\* answered late, a message has its effect at most once per licence.
THEOREM OneEffectPerLicence == Spec => []AtMostOncePerLicence
<1>1. IInv => AtMostOncePerLicence
  BY DEF IInv, TableOK, RowIn, AtMostOncePerLicence
<1> QED BY <1>1, InitIInv, StepIInv, PTL DEF Spec

\* complete() is only called after the sink confirmed: what the table shows as sent did
\* happen outside.
THEOREM SentWasDelivered == Spec => []SentMeansDelivered
<1>1. IInv => SentMeansDelivered
  BY DEF IInv, TableOK, RowIn, SentMeansDelivered
<1> QED BY <1>1, InitIInv, StepIInv, PTL DEF Spec

\* recordDeadLetter is reached by the failing delivery and by the expired lease alike:
\* each licence that ended in a dead letter has exactly one system notice.
THEOREM NoSilentDeadLetter == Spec => []DeadLettersAreReported
<1>1. IInv => DeadLettersAreReported
  BY DEF IInv, TableOK, ReportedIn, DeadLettersAreReported
<1> QED BY <1>1, InitIInv, StepIInv, PTL DEF Spec

----------------------------------------------------------------------------
(* The outbox implements the delivery contract *)

\* The refinement mapping of Outbox!Contract, as functions of the state
Licences == [p \in Posts |->
              IF outbox[<<p, 0>>].status = "absent" THEN 0 ELSE retries[<<p, 0>>] + 1]
Effects == [p \in Posts |-> delivered[<<p, 0>>]]
Told == [p \in Posts |-> {k \in 1..(MaxRetries + 1) : outbox[<<p, k>>].status # "absent"}]

\* A step that changes none of them is a stuttering step of the contract.
LEMMA SameView ==
  ASSUME \A p \in Posts :
           /\ outbox'[<<p, 0>>].status = "absent" <=> outbox[<<p, 0>>].status = "absent"
           /\ retries'[<<p, 0>>] = retries[<<p, 0>>]
           /\ delivered'[<<p, 0>>] = delivered[<<p, 0>>]
           /\ \A k \in 1..(MaxRetries + 1) :
                outbox'[<<p, k>>].status = "absent" <=> outbox[<<p, k>>].status = "absent"
  PROVE  UNCHANGED <<Licences, Effects, Told>>
BY DEF Licences, Effects, Told

\* Giving rows up tells the owner of the messages among them that are not for the
\* system channel, each for its current licence.
LEMMA BuryingTells ==
  ASSUME IInv, NEW dead, dead \subseteq {r \in Rows : outbox[r].status = "sending"},
         \A r \in Rows : outbox'[r].status = "absent" <=> Buried(dead)[r].status = "absent",
         UNCHANGED <<retries, delivered>>
  PROVE  \E given \in SUBSET Posts : Contract!Tell(given)
<1> DEFINE given == {p \in Posts : <<p, 0>> \in dead /\ outbox[<<p, 0>>].route # System}
<1>1. TypeOK /\ TableOK(outbox)
  BY DEF IInv
<1>2. \A p \in Posts : /\ <<p, 0>> \in Rows
                       /\ \A k \in 1..(MaxRetries + 1) : <<p, k>> \in Rows
                                                        /\ k \in 0..(MaxRetries + 1)
  <2>1. \A k \in 1..(MaxRetries + 1) : k \in 0..(MaxRetries + 1)
    BY OutboxNumbers
  <2> QED BY <2>1, MessageRow
<1>3. \A r \in dead : r \in Rows /\ outbox[r].status = "sending" /\ outbox'[r].status # "absent"
  BY BuriedRows
<1>4. ASSUME NEW d \in dead, outbox[d].route # System
      PROVE  d[1] \in given /\ d = <<d[1], 0>>
  <2>1. d = <<d[1], d[2]>> /\ d[1] \in Posts /\ d[2] \in 0..(MaxRetries + 1)
    BY <1>1, <1>3, RowTypes DEF TypeOK
  <2>2. ~(d[2] > 0)
    BY <1>1, <1>3, <1>4 DEF TableOK, RowIn
  <2>3. d[2] = 0
    BY <2>1, <2>2, OutboxNumbers
  <2> QED BY <1>4, <2>1, <2>3
<1>5. \A p \in given : Licences[p] = retries[<<p, 0>>] + 1 /\ Licences[p] > 0
  <2>1. \A p \in given : retries[<<p, 0>>] \in Nat
    BY <1>1, <1>2, OutstandingType
  <2>2. \A p \in given : outbox[<<p, 0>>].status = "sending"
    BY <1>3
  <2>3. \A p \in given : Licences[p] = retries[<<p, 0>>] + 1
    BY <2>2 DEF Licences
  <2> HIDE DEF given
  <2>4. ASSUME NEW p \in given PROVE Licences[p] > 0
    <3> DEFINE n == retries[<<p, 0>>]
    <3>1. n \in Nat /\ Licences[p] = n + 1
      BY <2>1, <2>3
    <3> HIDE DEF n
    <3>2. n + 1 > 0
      BY <3>1
    <3> QED BY <3>1, <3>2
  <2> QED BY <2>3, <2>4
<1>6. ASSUME NEW p \in Posts, NEW k \in 1..(MaxRetries + 1)
      PROVE  outbox'[<<p, k>>].status # "absent" <=>
               outbox[<<p, k>>].status # "absent" \/ (p \in given /\ k = Licences[p])
  <2>1. <<p, k>> \in Rows /\ k \in 0..(MaxRetries + 1)
    BY <1>2
  <2>2. (\E d \in dead : outbox[d].route # System /\ <<p, k>> = Notice(d)) <=>
          p \in given /\ k = Licences[p]
    <3>1. \A d \in dead : <<p, k>> = Notice(d) <=> d[1] = p /\ k = retries[d] + 1
      BY <1>1, <1>3, <2>1, NoticeRow
    <3>2. ASSUME NEW d \in dead, outbox[d].route # System, <<p, k>> = Notice(d)
          PROVE  p \in given /\ k = Licences[p]
      <4>1. d[1] = p /\ k = retries[d] + 1
        BY <3>1, <3>2
      <4>2. d[1] \in given /\ d = <<d[1], 0>>
        BY <1>4, <3>2
      <4>3. p \in given /\ d = <<p, 0>>
        BY <4>1, <4>2
      <4> HIDE DEF given
      <4> QED BY <1>5, <4>1, <4>3
    <3>3. ASSUME p \in given, k = Licences[p]
          PROVE  \E d \in dead : outbox[d].route # System /\ <<p, k>> = Notice(d)
      <4>1. <<p, 0>> \in dead /\ outbox[<<p, 0>>].route # System
        BY <3>3
      <4>2. <<p, k>> = Notice(<<p, 0>>)
        BY <1>5, <3>1, <3>3, <4>1
      <4> QED BY <4>1, <4>2
    <3> QED BY <3>2, <3>3
  <2>3. CASE <<p, k>> \in dead
    BY <1>3, <2>3
  <2>4. CASE <<p, k>> \notin dead
    BY <2>1, <2>2, <2>4, BuriedRows
  <2> QED BY <2>3, <2>4
<1>7. \A p \in given : Licences[p] \in 1..(MaxRetries + 1)
  <2>1. \A p \in given : retries[<<p, 0>>] \in 0..MaxRetries
    BY <1>1, <1>2 DEF TypeOK
  <2> QED BY <1>5, <2>1, OutboxNumbers
<1>8. \A p \in given : Licences[p] \notin Told[p]
  <2>1. ASSUME NEW p \in given PROVE outbox[<<p, retries[<<p, 0>>] + 1>>].status = "absent"
    <3>1. outbox[<<p, 0>>].status = "sending" /\ outbox[<<p, 0>>].route # System /\ p \in Posts
      BY <1>3
    <3>2. retries[<<p, 0>>] + 1 \in 1..(MaxRetries + 1)
          /\ ~(retries[<<p, 0>>] + 1 <= retries[<<p, 0>>])
      <4>1. retries[<<p, 0>>] \in 0..MaxRetries
        BY <1>1, <1>2 DEF TypeOK
      <4> QED BY <4>1, OutboxNumbers
    <3> QED BY <1>1, <3>1, <3>2 DEF TableOK, ReportedIn
  <2> QED BY <1>5, <2>1 DEF Told
<1>9. Licences' = Licences /\ Effects' = Effects
  <2>1. \A p \in Posts : outbox'[<<p, 0>>].status = "absent" <=> outbox[<<p, 0>>].status = "absent"
    <3> SUFFICES ASSUME NEW p \in Posts
                 PROVE outbox'[<<p, 0>>].status = "absent" <=> outbox[<<p, 0>>].status = "absent"
      OBVIOUS
    <3>1. ~\E d \in dead : <<p, 0>> = Notice(d)
      <4>1. 0 \in 0..(MaxRetries + 1)
        BY OutboxNumbers
      <4>2. \A d \in dead : <<p, 0>> = Notice(d) => 0 = retries[d] + 1
        BY <1>1, <1>3, <4>1, NoticeRow
      <4>3. \A d \in dead : retries[d] \in Nat
        BY <1>1, <1>3, OutstandingType
      <4> QED BY <4>2, <4>3
    <3> QED BY <1>2, <1>3, <3>1, BuriedRows
  <2> QED BY <2>1 DEF Licences, Effects
<1>10. Told' = [p \in Posts |-> IF p \in given THEN Told[p] \cup {Licences[p]} ELSE Told[p]]
  <2> HIDE DEF given
  <2>1. \A p \in Posts : {k \in 1..(MaxRetries + 1) : outbox'[<<p, k>>].status # "absent"} =
          IF p \in given THEN Told[p] \cup {Licences[p]} ELSE Told[p]
    BY <1>6, <1>7 DEF Told
  <2> QED BY <2>1 DEF Told
<1>11. given \in SUBSET Posts
  OBVIOUS
<1> HIDE DEF given
<1>12. PICK G \in SUBSET Posts : G = given
  BY <1>11
<1>13. Contract!Tell(G)
  <2>1. \A p \in G : Licences[p] > 0 /\ Licences[p] \notin Told[p]
    BY <1>5, <1>8, <1>12
  <2>2. Told' = [p \in Posts |-> IF p \in G THEN Told[p] \cup {Licences[p]} ELSE Told[p]]
    BY <1>10, <1>12
  <2> QED BY <2>1, <2>2, <1>9, Zenon DEF Contract!Tell, Licences, Effects, Told
<1> QED BY <1>13

\* A step that leaves the view as it is stutters.
LEMMA SameViewStutters ==
  ASSUME UNCHANGED <<Licences, Effects, Told>>
  PROVE  [Contract!ContractNext]_(Contract!contract)
BY Zenon DEF Licences, Effects, Told, Contract!contract

LEMMA BuryingStep ==
  ASSUME IInv, NEW dead, dead \subseteq {r \in Rows : outbox[r].status = "sending"},
         \A r \in Rows : outbox'[r].status = "absent" <=> Buried(dead)[r].status = "absent",
         UNCHANGED <<retries, delivered>>
  PROVE  [Contract!ContractNext]_(Contract!contract)
<1>1. \E given \in SUBSET Posts : Contract!Tell(given)
  BY BuryingTells
<1> QED BY <1>1 DEF Contract!ContractNext

\* Inserting a message and retrying its dead letter each grant one licence.
LEMMA LicensingStep ==
  ASSUME IInv, NEW p \in Posts, UNCHANGED delivered,
         \/ \E route \in Routes : Insert(p, route)
         \/ RetryDeadLetter(<<p, 0>>)
  PROVE  [Contract!ContractNext]_(Contract!contract)
<1> DEFINE m == <<p, 0>>
<1>1. /\ TypeOK /\ TableOK(outbox) /\ m \in Rows
      /\ \A q \in Posts : /\ <<q, 0>> \in Rows /\ (q # p => <<q, 0>> # m)
                          /\ \A k \in 1..(MaxRetries + 1) : <<q, k>> \in Rows /\ <<q, k>> # m
  BY MessageRow DEF IInv
<1>2. \A r \in Rows : r # m => outbox'[r] = outbox[r] /\ retries'[r] = retries[r]
  BY <1>1 DEF Insert, RetryDeadLetter, TypeOK
<1>3. outbox'[m].status # "absent" /\ Licences[p] + 1 = retries'[m] + 1
  <2>1. ASSUME NEW route \in Routes, Insert(p, route)
        PROVE  outbox'[m].status # "absent" /\ Licences[p] + 1 = retries'[m] + 1
    <3>1. outbox'[m] = Inserted(route) /\ outbox[m].status = "absent" /\ retries'[m] = retries[m]
      BY <1>1, <2>1 DEF Insert, TypeOK
    <3>2. retries[m] = 0
      BY <1>1, <3>1 DEF TableOK, RowIn
    <3> QED BY <3>1, <3>2, InsertedType DEF Licences
  <2>2. ASSUME RetryDeadLetter(m)
        PROVE  outbox'[m].status # "absent" /\ Licences[p] + 1 = retries'[m] + 1
    <3>1. /\ outbox'[m] = [Released(outbox[m], "pending", 0) EXCEPT !.attempts = 0]
          /\ outbox[m].status = "dead_letter" /\ retries'[m] = retries[m] + 1
      BY <1>1, <2>2 DEF RetryDeadLetter, TypeOK
    <3>2. /\ Released(outbox[m], "pending", 0) \in OutboxRows
          /\ Released(outbox[m], "pending", 0).status = "pending"
      <4>1. outbox[m] \in OutboxRows /\ "pending" \in OutboxStatuses /\ 0 \in Nat
        BY <1>1, RowTypes DEF TypeOK, OutboxStatuses
      <4> QED BY <4>1, ReleasedType
    <3>3. outbox'[m].status = "pending"
      BY <3>1, <3>2 DEF OutboxRows
    <3>4. Licences[p] = retries[m] + 1
      BY <3>1 DEF Licences
    <3> QED BY <3>1, <3>3, <3>4
  <2> QED BY <2>1, <2>2
<1>4. Licences' = [Licences EXCEPT ![p] = @ + 1]
  <2>1. ASSUME NEW q \in Posts
        PROVE  (IF outbox'[<<q, 0>>].status = "absent" THEN 0 ELSE retries'[<<q, 0>>] + 1) =
                 IF q = p THEN Licences[p] + 1 ELSE Licences[q]
    <3>1. CASE q = p
      BY <1>3, <3>1
    <3>2. CASE q # p
      BY <1>1, <1>2, <3>2 DEF Licences
    <3> QED BY <3>1, <3>2
  <2>2. Licences' = [q \in Posts |-> IF q = p THEN Licences[p] + 1 ELSE Licences[q]]
    BY <2>1 DEF Licences
  <2>3. [Licences EXCEPT ![p] = @ + 1] =
          [q \in Posts |-> IF q = p THEN Licences[p] + 1 ELSE Licences[q]]
    BY DEF Licences
  <2> QED BY <2>2, <2>3
<1>5. Effects' = Effects
  BY DEF Effects
<1>6. Told' = Told
  BY <1>1, <1>2 DEF Told
<1>7. Contract!License(p)
  BY <1>4, <1>5, <1>6, Zenon DEF Contract!License, Licences, Effects, Told
<1> QED BY <1>7 DEF Contract!ContractNext

\* The effect of a message happens within its licences.
LEMMA EffectStep ==
  ASSUME IInv, NEW p \in Posts, UNCHANGED <<outbox, retries>>,
         delivered' = [delivered EXCEPT ![<<p, 0>>] = @ + 1],
         \/ flight[<<p, 0>>] = "asked"
         \/ stray[<<p, 0>>] > 0
  PROVE  [Contract!ContractNext]_(Contract!contract)
<1> DEFINE m == <<p, 0>>
<1>1. /\ TypeOK /\ m \in Rows /\ RowIn(outbox[m], m)
      /\ \A q \in Posts : <<q, 0>> \in Rows /\ (q # p => <<q, 0>> # m)
  BY MessageRow DEF IInv, TableOK
<1>2. delivered[m] \in Nat /\ stray[m] \in Nat /\ retries[m] \in Nat
  BY <1>1, OutstandingType DEF TypeOK
<1>3. delivered[m] < Outstanding(m)
  BY <1>2 DEF Outstanding
<1>4. Outstanding(m) \in Nat
  BY <1>1, OutstandingType
<1>5. Effects[p] < Licences[p]
  <2>1. outbox[m].status # "absent"
    BY <1>1, <1>2, <1>3, <1>4 DEF RowIn
  <2>2. delivered[m] < retries[m] + 1
    BY <1>1, <1>2, <1>3, <1>4 DEF RowIn
  <2> QED BY <2>1, <2>2 DEF Effects, Licences
<1>6. Effects' = [Effects EXCEPT ![p] = @ + 1]
  <2>1. \A q \in Posts : delivered'[<<q, 0>>] = IF q = p THEN delivered[m] + 1 ELSE delivered[<<q, 0>>]
    BY <1>1 DEF TypeOK
  <2> QED BY <2>1 DEF Effects
<1>7. Licences' = Licences /\ Told' = Told
  BY DEF Licences, Told
<1>8. Contract!Effect(p)
  BY <1>5, <1>6, <1>7, Zenon DEF Contract!Effect, Licences, Effects, Told
<1> QED BY <1>8 DEF Contract!ContractNext

LEMMA RowCases ==
  ASSUME NEW r \in Rows
  PROVE  /\ (r[1] \in Posts /\ r = <<r[1], 0>>) \/ r[2] # 0
         /\ r[2] # 0 => \A p \in Posts : <<p, 0>> # r
<1>1. \A p \in Posts : <<p, 0>>[2] = 0
  OBVIOUS
<1> QED BY <1>1 DEF Rows

\* What happens to the row of a notice is nothing to the contract.
LEMMA NoticeStep ==
  ASSUME IInv, NEW r \in Rows, r[2] # 0, outbox[r].status # "absent",
         \A s \in Rows : s # r => /\ outbox'[s] = outbox[s] /\ retries'[s] = retries[s]
                                  /\ delivered'[s] = delivered[s],
         outbox'[r].status # "absent"
  PROVE  [Contract!ContractNext]_(Contract!contract)
<1>1. \A p \in Posts : <<p, 0>> \in Rows /\ <<p, 0>> # r
  BY MessageRow, RowCases
<1>2. \A p \in Posts, k \in 1..(MaxRetries + 1) :
        outbox'[<<p, k>>].status = "absent" <=> outbox[<<p, k>>].status = "absent"
  BY MessageRow
<1> QED BY <1>1, <1>2, SameView, SameViewStutters

LEMMA ContractStep ==
  ASSUME IInv, [Next]_vars
  PROVE  [Contract!ContractNext]_(Contract!contract)
<1>1. TypeOK /\ TableOK(outbox) /\ outbox \in [Rows -> OutboxRows]
  BY DEF IInv, TypeOK
<1>2. ASSUME UNCHANGED <<outbox, retries, delivered>> PROVE [Contract!ContractNext]_(Contract!contract)
  BY <1>2, SameView, SameViewStutters
<1>3. CASE UNCHANGED vars \/ Crash \/ \E route \in Routes : ObserveOwnerRoute(route)
  BY <1>2, <1>3 DEF vars, Crash, ObserveOwnerRoute
<1>4. CASE Tick
  <2>1. \A r \in Rows : outbox'[r].status = outbox[r].status
    BY <1>1, <1>4 DEF Tick, OutboxRows
  <2>2. UNCHANGED <<retries, delivered>>
    BY <1>4 DEF Tick
  <2> QED BY <2>1, <2>2, MessageRow, SameView, SameViewStutters
<1>5. CASE Claim
  <2>1. Expired \subseteq {r \in Rows : outbox[r].status = "sending"}
    BY DEF Expired
  <2>2. UNCHANGED <<retries, delivered>>
    BY <1>5 DEF Claim
  <2>3. \A r \in Rows : outbox'[r].status = "absent" <=> Buried(Expired)[r].status = "absent"
    <3>1. Buried(Expired) \in [Rows -> OutboxRows]
      BY <2>1, BuriedRows
    <3>2. CASE outbox' = Buried(Expired)
      BY <3>2
    <3>3. ASSUME NEW r \in NextUp(Buried(Expired)),
                 outbox' = [Buried(Expired) EXCEPT ![r].status = "sending", ![r].attempts = @ + 1,
                                                   ![r].owner = daemon, ![r].lease = LeaseTicks]
          PROVE  \A s \in Rows : outbox'[s].status = "absent" <=> Buried(Expired)[s].status = "absent"
      <4> DEFINE T == Buried(Expired)
                 row == [T[r] EXCEPT !.status = "sending", !.attempts = @ + 1,
                                     !.owner = daemon, !.lease = LeaseTicks]
      <4>1. r \in Rows /\ T[r].status = "pending" /\ T \in [Rows -> OutboxRows]
        BY <3>1, <3>3 DEF NextUp, Candidates
      <4>2. outbox' = [T EXCEPT ![r] = row]
        BY <3>3
      <4>3. row.status = "sending"
        BY <4>1 DEF OutboxRows
      <4> HIDE DEF T, row
      <4>4. outbox'[r] = row /\ \A s \in Rows : s # r => outbox'[s] = T[s]
        BY <4>1, <4>2
      <4>5. \A s \in Rows : outbox'[s].status = "absent" <=> T[s].status = "absent"
        BY <4>1, <4>3, <4>4
      <4> QED BY <4>5 DEF T
    <3> QED BY <1>5, <3>2, <3>3 DEF Claim, ClaimAfter
  <2> QED BY <2>1, <2>2, <2>3, BuryingStep
<1>6. ASSUME NEW p \in Posts, NEW route \in Routes, Insert(p, route)
      PROVE [Contract!ContractNext]_(Contract!contract)
  BY <1>6, LicensingStep DEF Insert
<1>7. ASSUME NEW r \in Rows, RetryDeadLetter(r)
      PROVE [Contract!ContractNext]_(Contract!contract)
  <2>1. CASE r[1] \in Posts /\ r = <<r[1], 0>>
    BY <1>7, <2>1, LicensingStep DEF RetryDeadLetter
  <2>2. CASE r[2] # 0
    <3>1. /\ outbox[r].status = "dead_letter"
          /\ \A s \in Rows : s # r => /\ outbox'[s] = outbox[s] /\ retries'[s] = retries[s]
                                      /\ delivered'[s] = delivered[s]
      BY <1>1, <1>7 DEF RetryDeadLetter, TypeOK
    <3>2. outbox'[r] = [Released(outbox[r], "pending", 0) EXCEPT !.attempts = 0]
      BY <1>1, <1>7 DEF RetryDeadLetter
    <3>3. /\ Released(outbox[r], "pending", 0) \in OutboxRows
          /\ Released(outbox[r], "pending", 0).status = "pending"
      <4>1. outbox[r] \in OutboxRows /\ "pending" \in OutboxStatuses /\ 0 \in Nat
        BY <1>1, RowTypes DEF OutboxStatuses
      <4> QED BY <4>1, ReleasedType
    <3>4. outbox'[r].status = "pending"
      BY <3>2, <3>3 DEF OutboxRows
    <3> QED BY <2>2, <3>1, <3>4, NoticeStep
  <2> QED BY <2>1, <2>2, RowCases
<1>8. ASSUME NEW r \in Rows, ArchiveDeadLetter(r)
      PROVE [Contract!ContractNext]_(Contract!contract)
  <2>1. /\ outbox[r].status = "dead_letter" /\ outbox' = [outbox EXCEPT ![r].status = "archived"]
        /\ UNCHANGED <<retries, delivered>>
    BY <1>8 DEF ArchiveDeadLetter
  <2>2. \A s \in Rows : outbox'[s].status = "absent" <=> outbox[s].status = "absent"
    BY <1>1, <2>1 DEF OutboxRows
  <2> QED BY <2>1, <2>2, MessageRow, SameView, SameViewStutters
<1>9. ASSUME NEW r \in Rows,
             UNCHANGED <<outbox, retries>>,
             delivered' = [delivered EXCEPT ![r] = @ + 1],
             flight[r] = "asked" \/ stray[r] > 0
      PROVE [Contract!ContractNext]_(Contract!contract)
  <2>1. CASE r[1] \in Posts /\ r = <<r[1], 0>>
    BY <1>9, <2>1, EffectStep
  <2>2. CASE r[2] # 0
    <3>1. \A p \in Posts : delivered'[<<p, 0>>] = delivered[<<p, 0>>]
      BY <1>1, <1>9, <2>2, MessageRow, RowCases DEF TypeOK
    <3> QED BY <1>9, <3>1, SameView, SameViewStutters
  <2> QED BY <2>1, <2>2, RowCases
<1>10. ASSUME NEW r \in Rows, Act(r) PROVE [Contract!ContractNext]_(Contract!contract)
  BY <1>9, <1>10 DEF Act
<1>11. ASSUME NEW r \in Rows, NEW acted \in BOOLEAN, StrayEnds(r, acted)
       PROVE [Contract!ContractNext]_(Contract!contract)
  <2>1. CASE acted
    BY <1>9, <1>11, <2>1 DEF StrayEnds
  <2>2. CASE ~acted
    <3>1. UNCHANGED <<outbox, retries>> /\ delivered' = [delivered EXCEPT ![r] = delivered[r]]
      BY <1>11, <2>2 DEF StrayEnds
    <3>2. UNCHANGED delivered
      BY <1>1, <3>1 DEF TypeOK
    <3> QED BY <1>2, <3>1, <3>2
  <2> QED BY <2>1, <2>2
<1>12. ASSUME NEW r \in Rows, UNCHANGED <<retries, delivered>>, NEW row \in OutboxRows,
              row.status # "absent", outbox[r].status # "absent",
              outbox' = [outbox EXCEPT ![r] = row]
       PROVE [Contract!ContractNext]_(Contract!contract)
  <2>1. \A s \in Rows : outbox'[s].status = "absent" <=> outbox[s].status = "absent"
    BY <1>1, <1>12
  <2> QED BY <1>12, <2>1, MessageRow, SameView, SameViewStutters
<1>13. ASSUME NEW r \in Rows, NEW stored \in BOOLEAN, Complete(r, stored)
       PROVE [Contract!ContractNext]_(Contract!contract)
  <2>1. UNCHANGED <<retries, delivered>>
    BY <1>13 DEF Complete
  <2>2. CASE stored /\ Held(r)
    <3>1. outbox[r] \in OutboxRows /\ "sent" \in OutboxStatuses /\ 0 \in Nat
      BY <1>1, RowTypes DEF OutboxStatuses
    <3>2. Released(outbox[r], "sent", 0) \in OutboxRows
          /\ Released(outbox[r], "sent", 0).status # "absent"
      BY <3>1, ReleasedType
    <3>3. outbox' = [outbox EXCEPT ![r] = Released(outbox[r], "sent", 0)]
          /\ outbox[r].status # "absent"
      BY <1>13, <2>2 DEF Complete, Held
    <3> QED BY <1>12, <2>1, <3>2, <3>3
  <2>3. CASE ~(stored /\ Held(r))
    BY <1>2, <1>13, <2>3 DEF Complete
  <2> QED BY <2>2, <2>3
<1>14. ASSUME NEW r \in Rows, NEW kind \in FailureKinds, NEW stored \in BOOLEAN, Fail(r, kind, stored)
       PROVE [Contract!ContractNext]_(Contract!contract)
  <2> DEFINE dead == IF stored /\ Held(r) /\ outbox[r].attempts >= AttemptsAllowed(kind)
                       THEN {r} ELSE {}
  <2>1. UNCHANGED <<retries, delivered>>
    BY <1>14 DEF Fail
  <2>2. CASE stored /\ Held(r) /\ dead = {}
    <3>1. outbox[r] \in OutboxRows /\ outbox[r].status = "sending"
      BY <1>1, <2>2, RowTypes DEF Held
    <3>2. outbox' = [outbox EXCEPT ![r] = Released(outbox[r], "pending", Backoff[outbox[r].attempts])]
      BY <1>14, <2>2 DEF Fail
    <3>3. Released(outbox[r], "pending", Backoff[outbox[r].attempts]).status = "pending"
      BY <3>1 DEF Released, OutboxRows
    <3>4. \A s \in Rows : outbox'[s].status = "absent" <=> outbox[s].status = "absent"
      BY <1>1, <3>1, <3>2, <3>3
    <3> QED BY <2>1, <3>4, MessageRow, SameView, SameViewStutters
  <2>3. CASE ~(stored /\ Held(r) /\ dead = {})
    <3>1. outbox' = Buried(dead)
      BY <1>14, <2>3 DEF Fail
    <3>2. dead \subseteq {s \in Rows : outbox[s].status = "sending"}
      BY DEF Held
    <3> HIDE DEF dead
    <3>3. PICK D : D = dead
      OBVIOUS
    <3>4. D \subseteq {s \in Rows : outbox[s].status = "sending"}
          /\ \A s \in Rows : outbox'[s].status = "absent" <=> Buried(D)[s].status = "absent"
      BY <3>1, <3>2, <3>3
    <3> QED BY <2>1, <3>4, BuryingStep
  <2> QED BY <2>2, <2>3
<1> QED BY <1>3, <1>4, <1>5, <1>6, <1>7, <1>8, <1>10, <1>11, <1>13, <1>14 DEF Next, Answer

LEMMA ContractInitially == Init => Contract!ContractInit
<1> SUFFICES ASSUME Init PROVE Contract!ContractInit
  OBVIOUS
<1>1. Licences = [p \in Posts |-> 0] /\ Effects = [p \in Posts |-> 0] /\ Told = [p \in Posts |-> {}]
  BY MessageRow DEF Init, Licences, Effects, Told
<1> QED BY <1>1, Zenon DEF Contract!ContractInit, Licences, Effects, Told

\* The whole machinery of claims, leases, late answers, recovery and notices behaves as
\* the contract says: effects only within licences, and one report per licence.
THEOREM ImplementsContract == Spec => KeepsContract
BY InitIInv, StepIInv, ContractInitially, ContractStep, PTL
DEF Spec, KeepsContract, Contract!ContractSpec

\* OwnerRouteAfter is applied wherever rows are given up: the route of a new dead
\* letter is not the owner's route any more.
LEMMA BuryingForgets ==
  ASSUME TypeOK, NEW dead, NEW r \in dead, r \in Rows, outbox[r].route # System
  PROVE  OwnerRouteAfter(dead) # outbox[r].route
<1>1. outbox[r].route \in Routes
  BY RowTypes DEF TypeOK
<1> QED BY <1>1, OutboxNames DEF OwnerRouteAfter

LEMMA DeadRouteStep ==
  ASSUME IInv, [Next]_vars, NEW r \in Rows, outbox[r].status # "dead_letter",
         outbox'[r].status = "dead_letter", outbox[r].route # System
  PROVE  ownerRoute' # outbox[r].route
<1>1. TypeOK /\ outbox \in [Rows -> OutboxRows] /\ outbox[r] \in OutboxRows
  BY DEF IInv, TypeOK
<1>2. ASSUME NEW dead, dead \subseteq {s \in Rows : outbox[s].status = "sending"},
             Buried(dead)[r].status = "dead_letter", ownerRoute' = OwnerRouteAfter(dead)
      PROVE  ownerRoute' # outbox[r].route
  <2>1. r \in dead
    BY <1>2, BuriedRows
  <2> QED BY <1>1, <1>2, <2>1, BuryingForgets
<1>3. CASE Claim
  <2>1. Expired \subseteq {s \in Rows : outbox[s].status = "sending"}
    BY DEF Expired
  <2>2. Buried(Expired) \in [Rows -> OutboxRows]
    BY <2>1, BuriedRows
  <2>3. Buried(Expired)[r].status = "dead_letter"
    <3>1. CASE outbox' = Buried(Expired)
      BY <3>1
    <3>2. ASSUME NEW q \in NextUp(Buried(Expired)),
                 outbox' = [Buried(Expired) EXCEPT ![q].status = "sending", ![q].attempts = @ + 1,
                                                   ![q].owner = daemon, ![q].lease = LeaseTicks]
          PROVE  Buried(Expired)[r].status = "dead_letter"
      <4> DEFINE T == Buried(Expired)
                 row == [T[q] EXCEPT !.status = "sending", !.attempts = @ + 1,
                                     !.owner = daemon, !.lease = LeaseTicks]
      <4>1. q \in Rows /\ T \in [Rows -> OutboxRows]
        BY <2>2, <3>2 DEF NextUp, Candidates
      <4>2. outbox' = [T EXCEPT ![q] = row]
        BY <3>2
      <4>3. row.status = "sending"
        BY <4>1 DEF OutboxRows
      <4> HIDE DEF T, row
      <4>4. T[r].status = "dead_letter"
        BY <4>1, <4>2, <4>3
      <4> QED BY <4>4 DEF T
    <3> QED BY <1>3, <3>1, <3>2 DEF Claim, ClaimAfter
  <2>4. ownerRoute' = OwnerRouteAfter(Expired)
    BY <1>3 DEF Claim
  <2>5. PICK D : D = Expired
    OBVIOUS
  <2> QED BY <1>2, <2>1, <2>3, <2>4, <2>5
<1>4. ASSUME NEW q \in Rows, NEW kind \in FailureKinds, NEW stored \in BOOLEAN, Fail(q, kind, stored)
      PROVE  ownerRoute' # outbox[r].route
  <2> DEFINE dead == IF stored /\ Held(q) /\ outbox[q].attempts >= AttemptsAllowed(kind)
                       THEN {q} ELSE {}
  <2>1. dead \subseteq {s \in Rows : outbox[s].status = "sending"}
    BY DEF Held
  <2>2. ownerRoute' = OwnerRouteAfter(dead)
    BY <1>4 DEF Fail
  <2>3. CASE stored /\ Held(q) /\ dead = {}
    <3>1. outbox' = [outbox EXCEPT ![q] = Released(outbox[q], "pending", Backoff[outbox[q].attempts])]
      BY <1>4, <2>3 DEF Fail
    <3>2. outbox[q] \in OutboxRows
      BY <1>1
    <3>3. Released(outbox[q], "pending", Backoff[outbox[q].attempts]).status = "pending"
      BY <3>2 DEF Released, OutboxRows
    <3> QED BY <1>1, <3>1, <3>3
  <2>4. CASE ~(stored /\ Held(q) /\ dead = {})
    <3>1. outbox' = Buried(dead)
      BY <1>4, <2>4 DEF Fail
    <3> HIDE DEF dead
    <3>2. PICK D : D = dead
      OBVIOUS
    <3> QED BY <1>2, <2>1, <2>2, <3>1, <3>2
  <2> QED BY <2>3, <2>4
<1>5. ASSUME NEW p \in Posts, NEW route \in Routes, Insert(p, route) PROVE FALSE
  <2>1. Inserted(route).status # "dead_letter"
    BY InsertedType
  <2> QED BY <1>1, <1>5, <2>1, MessageRow DEF Insert
<1>6. ASSUME NEW q \in Rows, NEW stored \in BOOLEAN, Complete(q, stored) PROVE FALSE
  <2>1. Released(outbox[q], "sent", 0).status = "sent"
    BY <1>1 DEF Released, OutboxRows
  <2> QED BY <1>1, <1>6, <2>1 DEF Complete
<1>7. ASSUME NEW q \in Rows, RetryDeadLetter(q) PROVE FALSE
  <2>1. [Released(outbox[q], "pending", 0) EXCEPT !.attempts = 0].status = "pending"
    BY <1>1 DEF Released, OutboxRows
  <2> QED BY <1>1, <1>7, <2>1 DEF RetryDeadLetter
<1>8. ASSUME NEW q \in Rows, ArchiveDeadLetter(q) PROVE FALSE
  BY <1>1, <1>8 DEF ArchiveDeadLetter, OutboxRows
<1>9. Tick => FALSE
  BY <1>1 DEF Tick, OutboxRows
<1>10. (\/ UNCHANGED vars \/ Crash
        \/ \E route \in Routes : ObserveOwnerRoute(route)
        \/ \E q \in Rows : Act(q) \/ \E acted \in BOOLEAN : StrayEnds(q, acted)) => FALSE
  BY DEF vars, Crash, ObserveOwnerRoute, Act, StrayEnds
<1> QED BY <1>3, <1>4, <1>5, <1>6, <1>7, <1>8, <1>9, <1>10 DEF Next, Answer

\* A conversation whose delivery was given up is not used as the owner's again until
\* the owner is seen there, however the row became a dead letter.
THEOREM DeadRoutesAreForgotten == Spec => DeadRouteForgotten
<1>1. IInv /\ [Next]_vars =>
        [\A r \in Rows :
           /\ outbox[r].status # "dead_letter" /\ outbox'[r].status = "dead_letter"
           /\ outbox[r].route # System
           => ownerRoute' # outbox[r].route]_vars
  BY DeadRouteStep
<1> QED BY <1>1, InitIInv, StepIInv, PTL DEF Spec, DeadRouteForgotten

----------------------------------------------------------------------------
(* The order of deliveries *)

\* A row whose turn has not come yet, and a row whose sink was asked.
Fresh(r) == outbox[r].status = "pending" /\ outbox[r].attempts = 0 /\ retries[r] = 0
Tried(r) == outbox[r].status = "sending" \/ Outstanding(r) > 0

\* FirstTriesInOrder is not inductive: it needs every request that may still be acted on
\* to count as a try, that new rows are the youngest, and that a fresh row is due.
OrderInv ==
  /\ \A r, s \in Rows :
       /\ outbox[r].route = outbox[s].route
       /\ outbox[r].born < outbox[s].born
       /\ Tried(s)
       => ~Fresh(r)
  /\ \A r \in Present : outbox[r].born < Cardinality(Present)
  /\ \A r \in Rows : Fresh(r) => outbox[r].delay = 0

\* What any step does to a row: it keeps its place, or takes the last one.
RowStep(r) ==
  /\ outbox[r].status # "absent" =>
       /\ outbox'[r].status # "absent"
       /\ outbox'[r].route = outbox[r].route
       /\ outbox'[r].born = outbox[r].born
       /\ Fresh(r)' => Fresh(r)
  /\ outbox[r].status = "absent" /\ outbox'[r].status # "absent" =>
       outbox'[r].born = Cardinality(Present)
  /\ Fresh(r)' => outbox'[r].delay = 0

\* Whatever a step newly tries overtakes nothing fresh.
InOrder ==
  /\ \A r \in Rows : RowStep(r)
  /\ \A s \in Rows : Tried(s)' =>
       \/ Tried(s)
       \/ \A r \in Rows : outbox'[r].route = outbox'[s].route
                          /\ outbox'[r].born < outbox'[s].born => ~Fresh(r)'

LEMMA RowsFinite == IsFiniteSet(Rows)
<1>1. IsFiniteSet(0..(MaxRetries + 1))
  BY OutboxNumbers, FS_Interval
<1> QED BY <1>1, OutboxNames, FS_Product DEF Rows

\* A row that is in flight, or may still be acted on, is in the table.
LEMMA TriedPresent ==
  ASSUME IInv, NEW r \in Rows, Tried(r) \/ r \in InFlight
  PROVE  r \in Present
<1>1. TypeOK /\ RowIn(outbox[r], r) /\ (flight[r] = "done" => delivered[r] > 0)
  BY DEF IInv, TableOK
<1>2. /\ delivered[r] \in Nat /\ stray[r] \in Nat /\ flight[r] \in {"none", "asked", "done"}
  BY <1>1 DEF TypeOK
<1>3. CASE Tried(r)
  BY <1>1, <1>2, <1>3, OutstandingType DEF Tried, RowIn, Present
<1>4. CASE r \in InFlight
  <2>1. Outstanding(r) > 0
    BY <1>1, <1>2, <1>4 DEF InFlight, Outstanding
  <2> QED BY <1>1, <2>1, OutstandingType DEF RowIn, Present
<1> QED BY <1>3, <1>4

\* A step in order keeps the order.
LEMMA OrderStep ==
  ASSUME IInv, IInv', OrderInv, InOrder
  PROVE  OrderInv'
<1> USE DEF InOrder
<1>1. Present \subseteq Present' /\ IsFiniteSet(Present')
  BY RowsFinite, FS_Subset DEF Present, RowStep
<1>2. /\ Cardinality(Present) \in Nat /\ Cardinality(Present') \in Nat
      /\ Cardinality(Present) <= Cardinality(Present')
      /\ Cardinality(Present) = Cardinality(Present') => Present = Present'
  BY <1>1, FS_Subset, FS_CardinalityType
<1>3. \A r \in Rows : outbox[r].born \in Nat /\ outbox'[r].born \in Nat
  BY DEF IInv, TypeOK, OutboxRows
<1>4. ASSUME NEW r \in Rows, NEW s \in Rows, outbox'[r].route = outbox'[s].route,
             outbox'[r].born < outbox'[s].born, Tried(s)'
      PROVE  ~Fresh(r)'
  <2>1. CASE Tried(s)
    <3>1. s \in Present
      BY <2>1, TriedPresent
    <3>2. /\ outbox'[s].route = outbox[s].route /\ outbox'[s].born = outbox[s].born
          /\ outbox[s].born < Cardinality(Present)
      BY <3>1 DEF Present, RowStep, OrderInv
    <3>3. CASE outbox[r].status # "absent"
      BY <1>4, <2>1, <3>2, <3>3 DEF RowStep, OrderInv
    <3>4. CASE outbox[r].status = "absent"
      <4> SUFFICES ASSUME Fresh(r)' PROVE FALSE
        OBVIOUS
      <4>1. outbox'[r].born = Cardinality(Present)
        BY <3>4 DEF RowStep, Fresh
      <4> QED BY <1>2, <1>3, <1>4, <3>2, <4>1
    <3> QED BY <3>3, <3>4
  <2>2. CASE ~Tried(s)
    BY <1>4, <2>2
  <2> QED BY <2>1, <2>2
<1>5. ASSUME NEW r \in Present'
      PROVE  outbox'[r].born < Cardinality(Present')
  <2>1. r \in Rows
    BY <1>5 DEF Present
  <2>2. CASE outbox[r].status # "absent"
    <3>1. outbox'[r].born = outbox[r].born /\ outbox[r].born < Cardinality(Present)
      BY <2>1, <2>2 DEF RowStep, OrderInv, Present
    <3> QED BY <1>2, <1>3, <2>1, <3>1
  <2>3. CASE outbox[r].status = "absent"
    <3>1. outbox'[r].born = Cardinality(Present) /\ r \notin Present
      BY <1>5, <2>1, <2>3 DEF RowStep, Present
    <3>2. Cardinality(Present) # Cardinality(Present')
      BY <1>2, <1>5, <3>1
    <3> QED BY <1>2, <3>1, <3>2
  <2> QED BY <2>2, <2>3
<1>6. \A r \in Rows : Fresh(r)' => outbox'[r].delay = 0
  BY DEF RowStep
<1> QED BY <1>4, <1>5, <1>6 DEF OrderInv

\* Rows that are given up keep their places, and their notices take the last one.
LEMMA BuriedPlaces ==
  ASSUME IInv, NEW dead, dead \subseteq {s \in Rows : outbox[s].status = "sending"},
         NEW r \in Rows
  PROVE  /\ outbox[r].status # "absent" =>
              /\ Buried(dead)[r].status # "absent"
              /\ Buried(dead)[r].route = outbox[r].route
              /\ Buried(dead)[r].born = outbox[r].born
              /\ Buried(dead)[r].status = "dead_letter" \/ Buried(dead)[r] = outbox[r]
         /\ outbox[r].status = "absent" =>
              Buried(dead)[r] = outbox[r] \/ Buried(dead)[r] = Inserted(System)
<1>1. outbox[r] \in OutboxRows
  BY DEF IInv, TypeOK
<1>2. Buried(dead)[r] =
        IF r \in dead THEN Released(outbox[r], "dead_letter", 0)
        ELSE IF \E d \in dead : outbox[d].route # System /\ r = Notice(d) THEN Inserted(System)
        ELSE outbox[r]
  BY DEF Buried
<1>3. CASE r \in dead
  BY <1>1, <1>2, <1>3 DEF Released, OutboxRows
<1>4. CASE r \notin dead /\ \E d \in dead : outbox[d].route # System /\ r = Notice(d)
  BY <1>2, <1>4, BuriedRows
<1>5. CASE r \notin dead /\ ~\E d \in dead : outbox[d].route # System /\ r = Notice(d)
  BY <1>2, <1>5
<1> QED BY <1>3, <1>4, <1>5

\* An inserted row is due at once and takes the last place.
LEMMA InsertedPlace ==
  ASSUME NEW route
  PROVE  /\ Inserted(route).born = Cardinality(Present) /\ Inserted(route).delay = 0
         /\ Inserted(route).status = "pending"
  BY DEF Inserted

\* A step that leaves the table, up to its timers, and the retries alone keeps every place.
LEMMA PlacesKept ==
  ASSUME OrderInv, UNCHANGED retries, NEW r \in Rows,
         \/ outbox'[r] = outbox[r]
         \/ /\ outbox'[r].status = outbox[r].status /\ outbox'[r].route = outbox[r].route
            /\ outbox'[r].born = outbox[r].born /\ outbox'[r].attempts = outbox[r].attempts
            /\ outbox[r].delay = 0 => outbox'[r].delay = 0
  PROVE  RowStep(r)
  BY DEF RowStep, Fresh, OrderInv

\* Giving rows up, as a whole step.
LEMMA BuriedPlacesStep ==
  ASSUME IInv, OrderInv, NEW dead, dead \subseteq {s \in Rows : outbox[s].status = "sending"},
         outbox' = Buried(dead), UNCHANGED retries, NEW r \in Rows
  PROVE  RowStep(r)
<1>1. CASE outbox'[r] = outbox[r]
  BY <1>1, PlacesKept
<1>2. CASE outbox[r].status # "absent" /\ outbox'[r].status = "dead_letter"
  BY <1>2, BuriedPlaces DEF RowStep, Fresh
<1>3. CASE outbox[r].status = "absent" /\ outbox'[r] = Inserted(System)
  BY <1>3, InsertedPlace DEF RowStep
<1> QED BY <1>1, <1>2, <1>3, BuriedPlaces

\* The claimed row: of the table T it is taken from, only its own row changes.
LEMMA ClaimedPlace ==
  ASSUME NEW T \in [Rows -> OutboxRows], NEW q \in Rows,
         outbox' = [T EXCEPT ![q].status = "sending", ![q].attempts = @ + 1,
                             ![q].owner = daemon, ![q].lease = LeaseTicks]
  PROVE  /\ outbox'[q].status = "sending"
         /\ outbox'[q].route = T[q].route /\ outbox'[q].born = T[q].born
         /\ \A r \in Rows : r # q => outbox'[r] = T[r]
<1> DEFINE row == [T[q] EXCEPT !.status = "sending", !.attempts = @ + 1, !.owner = daemon,
                               !.lease = LeaseTicks]
<1>1. T[q] \in OutboxRows
  OBVIOUS
<1>2. outbox' = [T EXCEPT ![q] = row]
  BY <1>1 DEF OutboxRows
<1>3. row.status = "sending" /\ row.route = T[q].route /\ row.born = T[q].born
  BY <1>1 DEF OutboxRows
<1> HIDE DEF row
<1> QED BY <1>2, <1>3

\* A claim takes the oldest due row of a free route, so nothing fresh is older there.
LEMMA ClaimOrder ==
  ASSUME IInv, OrderInv, Claim
  PROVE  InOrder
<1>1. TypeOK /\ UNCHANGED <<daemon, stray, delivered, retries>>
  BY DEF IInv, Claim
<1>2. Expired \subseteq {s \in Rows : outbox[s].status = "sending"}
  BY DEF Expired
<1> DEFINE T == Buried(Expired)
<1>3. T \in [Rows -> OutboxRows]
  BY <1>2, BuriedRows
<1>4. CASE outbox' = T /\ UNCHANGED flight
  <2>1. \A r \in Rows : RowStep(r)
    BY <1>1, <1>2, <1>4, BuriedPlacesStep
  <2>2. ASSUME NEW s \in Rows, Tried(s)'
        PROVE  Tried(s)
    <3>1. Outstanding(s)' = Outstanding(s)
      BY <1>1, <1>4 DEF Outstanding
    <3>2. CASE outbox'[s].status = "sending"
      BY <1>2, <1>4, <3>2, BuriedPlaces, InsertedPlace DEF Tried
    <3> QED BY <2>2, <3>1, <3>2 DEF Tried
  <2> QED BY <2>1, <2>2 DEF InOrder
<1>5. ASSUME NEW q \in NextUp(T),
             outbox' = [T EXCEPT ![q].status = "sending", ![q].attempts = @ + 1,
                                 ![q].owner = daemon, ![q].lease = LeaseTicks],
             flight' = [flight EXCEPT ![q] = "asked"]
      PROVE  InOrder
  <2>1. /\ q \in Rows /\ T[q].status = "pending" /\ T[q].delay = 0
        /\ T[q].route \notin {outbox[s].route : s \in InFlight}
    BY <1>5 DEF NextUp, Candidates
  <2> HIDE DEF T
  <2>2. /\ outbox'[q].status = "sending"
        /\ outbox'[q].route = T[q].route /\ outbox'[q].born = T[q].born
        /\ \A r \in Rows : r # q => outbox'[r] = T[r]
    BY <1>3, <1>5, <2>1, ClaimedPlace
  <2>3. \A r \in Rows :
          /\ outbox[r].status # "absent" =>
               /\ T[r].status # "absent" /\ T[r].route = outbox[r].route
               /\ T[r].born = outbox[r].born
               /\ T[r].status = "dead_letter" \/ T[r] = outbox[r]
          /\ outbox[r].status = "absent" => T[r] = outbox[r] \/ T[r] = Inserted(System)
    BY <1>2, BuriedPlaces DEF T
  <2>4. ASSUME NEW r \in Rows
        PROVE  RowStep(r)
    <3>1. CASE r = q
      BY <2>1, <2>2, <2>3, <3>1, InsertedPlace DEF RowStep, Fresh
    <3>2. CASE r # q
      BY <1>1, <2>2, <2>3, <3>2, InsertedPlace DEF RowStep, Fresh, OrderInv
    <3> QED BY <3>1, <3>2
  <2>5. ASSUME NEW s \in Rows, s # q, Tried(s)'
        PROVE  Tried(s)
    <3>1. Outstanding(s)' = Outstanding(s)
      BY <1>1, <1>5, <2>5 DEF Outstanding, TypeOK
    <3>2. CASE outbox'[s].status = "sending"
      BY <2>2, <2>3, <2>5, <3>2, InsertedPlace DEF Tried
    <3> QED BY <2>5, <3>1, <3>2 DEF Tried
  <2>6. ASSUME NEW r \in Rows, outbox'[r].route = outbox'[q].route,
               outbox'[r].born < outbox'[q].born, Fresh(r)'
        PROVE  FALSE
    <3>1. r # q /\ outbox'[r] = T[r]
      BY <2>2, <2>6 DEF Fresh
    <3>2. outbox'[r].delay = 0
      BY <2>4, <2>6 DEF RowStep
    <3>3. r \in Candidates(T)
      BY <2>1, <2>2, <2>6, <3>1, <3>2 DEF Candidates, Fresh
    <3>4. T[q].born <= T[r].born
      BY <1>5, <3>3 DEF NextUp
    <3>5. T[q].born \in Nat /\ T[r].born \in Nat
      BY <1>3, <2>1 DEF OutboxRows
    <3> QED BY <2>2, <2>6, <3>1, <3>4, <3>5
  <2> QED BY <2>4, <2>5, <2>6 DEF InOrder
<1> QED BY <1>4, <1>5 DEF Claim, ClaimAfter

\* Steps other than a claim newly try nothing; all of them keep the rows in their places.
LEMMA NextInOrder == IInv /\ OrderInv /\ [Next]_vars => InOrder
<1> SUFFICES ASSUME IInv, OrderInv, [Next]_vars PROVE InOrder
  OBVIOUS
<1>0. TypeOK
  BY DEF IInv
<1>r. \A r \in Rows : outbox[r] \in OutboxRows
  BY <1>0 DEF TypeOK
<1>o. \A s \in Rows : delivered[s] \in Nat /\ stray[s] \in Nat /\ Outstanding(s) \in Nat
  BY <1>0, OutstandingType DEF TypeOK
<1>1. CASE UNCHANGED vars
  <2>1. \A r \in Rows : RowStep(r)
    BY <1>1, PlacesKept DEF vars
  <2>2. \A s \in Rows : Tried(s)' => Tried(s)
    BY <1>1 DEF vars, Tried, Outstanding
  <2> QED BY <2>1, <2>2 DEF InOrder
<1>2. CASE Tick
  <2>1. \A r \in Rows : /\ outbox'[r].status = outbox[r].status
                        /\ outbox'[r].route = outbox[r].route
                        /\ outbox'[r].born = outbox[r].born
                        /\ outbox'[r].attempts = outbox[r].attempts
                        /\ outbox'[r].delay = CountDown(outbox[r].delay)
    BY <1>2, <1>r DEF Tick, OutboxRows
  <2>2. CountDown(0) = 0
    BY DEF CountDown
  <2>3. \A r \in Rows : RowStep(r)
    BY <1>2, <2>1, <2>2, PlacesKept DEF Tick
  <2>4. \A s \in Rows : Tried(s)' => Tried(s)
    <3>1. \A s \in Rows : Outstanding(s)' = Outstanding(s)
      BY <1>2 DEF Tick, Outstanding
    <3> QED BY <2>1, <3>1 DEF Tried
  <2> QED BY <2>3, <2>4 DEF InOrder
<1>3. ASSUME UNCHANGED <<outbox, retries>>, \A s \in Rows : Outstanding(s)' <= Outstanding(s),
             \A s \in Rows : Outstanding(s)' \in Int
      PROVE  InOrder
  <2>1. \A r \in Rows : RowStep(r)
    BY <1>3, PlacesKept
  <2>2. \A s \in Rows : Tried(s)' => Tried(s)
    BY <1>3, <1>o DEF Tried
  <2> QED BY <2>1, <2>2 DEF InOrder
<1>4. CASE Crash
  <2>1. \A s \in Rows : Outstanding(s)' = Outstanding(s)
    BY <1>4, <1>o DEF Crash, Outstanding
  <2> QED BY <1>3, <1>4, <1>o, <2>1 DEF Crash
<1>5. ASSUME NEW route \in Routes, ObserveOwnerRoute(route) PROVE InOrder
  <2>1. \A s \in Rows : Outstanding(s)' = Outstanding(s)
    BY <1>5 DEF ObserveOwnerRoute, Outstanding
  <2> QED BY <1>3, <1>5, <1>o, <2>1 DEF ObserveOwnerRoute
<1>6. ASSUME NEW r \in Rows, Act(r) PROVE InOrder
  <2>1. \A s \in Rows : Outstanding(s)' = Outstanding(s)
    BY <1>0, <1>6, <1>o DEF Act, Outstanding, TypeOK
  <2> QED BY <1>3, <1>6, <1>o, <2>1 DEF Act
<1>7. ASSUME NEW r \in Rows, NEW acted \in BOOLEAN, StrayEnds(r, acted) PROVE InOrder
  <2>1. ASSUME NEW s \in Rows
        PROVE  Outstanding(s)' <= Outstanding(s) /\ Outstanding(s)' \in Int
    <3>1. CASE s = r
      BY <1>0, <1>7, <1>o, <3>1 DEF StrayEnds, Outstanding, TypeOK
    <3>2. CASE s # r
      <4>1. Outstanding(s)' = Outstanding(s)
        BY <1>0, <1>7, <3>2 DEF StrayEnds, Outstanding, TypeOK
      <4> QED BY <1>o, <4>1
    <3> QED BY <3>1, <3>2
  <2> QED BY <1>3, <1>7, <2>1 DEF StrayEnds
<1>8. CASE Claim
  BY <1>8, ClaimOrder
<1>9. ASSUME NEW p \in Posts, NEW route \in Routes, Insert(p, route) PROVE InOrder
  <2>1. <<p, 0>> \in Rows /\ outbox' = [outbox EXCEPT ![<<p, 0>>] = Inserted(route)]
    BY <1>9, MessageRow DEF Insert
  <2>2. \A r \in Rows : RowStep(r)
    <3> SUFFICES ASSUME NEW r \in Rows PROVE RowStep(r)
      OBVIOUS
    <3>1. CASE r = <<p, 0>>
      BY <1>0, <1>9, <2>1, <3>1, InsertedPlace DEF Insert, RowStep, TypeOK
    <3>2. CASE r # <<p, 0>>
      BY <1>0, <1>9, <2>1, <3>2, PlacesKept DEF Insert, TypeOK
    <3> QED BY <3>1, <3>2
  <2>3. ASSUME NEW s \in Rows, Tried(s)'
        PROVE  Tried(s)
    <3>1. Outstanding(s)' = Outstanding(s)
      BY <1>9 DEF Insert, Outstanding
    <3>2. s # <<p, 0>> => outbox'[s] = outbox[s]
      BY <1>0, <2>1 DEF TypeOK
    <3>3. s = <<p, 0>> => outbox'[s].status = "pending"
      BY <1>0, <2>1, InsertedPlace DEF TypeOK
    <3> QED BY <2>3, <3>1, <3>2, <3>3 DEF Tried
  <2> QED BY <2>2, <2>3 DEF InOrder
<1>10. ASSUME NEW q \in Rows, Held(q), NEW row, outbox' = [outbox EXCEPT ![q] = row],
              row.route = outbox[q].route, row.born = outbox[q].born,
              row.status \notin {"absent", "sending"},
              row.status = "pending" => row.attempts > 0,
              row.attempts \in Nat, UNCHANGED retries
       PROVE  /\ \A r \in Rows : RowStep(r)
              /\ \A s \in Rows : outbox'[s].status = "sending" => outbox[s].status = "sending"
  <2>1. outbox'[q] = row /\ \A r \in Rows : r # q => outbox'[r] = outbox[r]
    BY <1>0, <1>10 DEF TypeOK
  <2>2. RowStep(q)
    BY <1>10, <2>1 DEF RowStep, Fresh, Held
  <2> QED BY <1>10, <2>1, <2>2, PlacesKept
<1>11. ASSUME NEW q \in Rows, NEW stored \in BOOLEAN, Complete(q, stored) PROVE InOrder
  <2>1. \A s \in Rows : Outstanding(s)' = Outstanding(s)
    BY <1>0, <1>11 DEF Complete, Outstanding, TypeOK
  <2>2. CASE stored /\ Held(q)
    <3>1. outbox' = [outbox EXCEPT ![q] = Released(outbox[q], "sent", 0)]
      BY <1>11, <2>2 DEF Complete
    <3>2. LET row == Released(outbox[q], "sent", 0) IN
            /\ row.route = outbox[q].route /\ row.born = outbox[q].born
            /\ row.status = "sent" /\ row.attempts \in Nat
      BY <1>r DEF Released, OutboxRows
    <3>3. /\ \A r \in Rows : RowStep(r)
          /\ \A s \in Rows : outbox'[s].status = "sending" => outbox[s].status = "sending"
      BY <1>10, <1>11, <2>2, <3>1, <3>2 DEF Complete
    <3> QED BY <2>1, <3>3 DEF Tried, InOrder
  <2>3. CASE ~(stored /\ Held(q))
    BY <1>3, <1>11, <1>o, <2>1, <2>3 DEF Complete
  <2> QED BY <2>2, <2>3
<1>12. ASSUME NEW q \in Rows, NEW kind \in FailureKinds, NEW stored \in BOOLEAN,
              Fail(q, kind, stored)
       PROVE  InOrder
  <2> DEFINE dead == IF stored /\ Held(q) /\ outbox[q].attempts >= AttemptsAllowed(kind)
                       THEN {q} ELSE {}
  <2>1. dead \subseteq {s \in Rows : outbox[s].status = "sending"}
    BY DEF Held
  <2>2. \A s \in Rows : Outstanding(s)' <= Outstanding(s) /\ Outstanding(s)' \in Int
    <3> SUFFICES ASSUME NEW s \in Rows
                 PROVE  Outstanding(s)' <= Outstanding(s) /\ Outstanding(s)' \in Int
      OBVIOUS
    <3>1. CASE s = q
      BY <1>0, <1>12, <1>o, <3>1 DEF Fail, Outstanding, TypeOK
    <3>2. CASE s # q
      <4>1. Outstanding(s)' = Outstanding(s)
        BY <1>0, <1>12, <3>2 DEF Fail, Outstanding, TypeOK
      <4> QED BY <1>o, <4>1
    <3> QED BY <3>1, <3>2
  <2>3. CASE stored /\ Held(q) /\ dead = {}
    <3> DEFINE row == Released(outbox[q], "pending", Backoff[outbox[q].attempts])
    <3>1. outbox' = [outbox EXCEPT ![q] = row] /\ UNCHANGED retries
      BY <1>12, <2>3 DEF Fail
    <3>2. outbox[q].attempts > 0
      BY <2>3 DEF Held, IInv, TableOK, RowIn
    <3>3. /\ row.route = outbox[q].route /\ row.born = outbox[q].born
          /\ row.status = "pending" /\ row.attempts = outbox[q].attempts /\ row.attempts \in Nat
      BY <1>r DEF Released, OutboxRows
    <3> HIDE DEF row
    <3>4. /\ \A r \in Rows : RowStep(r)
          /\ \A s \in Rows : outbox'[s].status = "sending" => outbox[s].status = "sending"
      BY <1>10, <2>3, <3>1, <3>2, <3>3
    <3> QED BY <1>o, <2>2, <3>4 DEF Tried, InOrder
  <2>4. CASE ~(stored /\ Held(q) /\ dead = {})
    <3>1. outbox' = Buried(dead) /\ UNCHANGED retries
      BY <1>12, <2>4 DEF Fail
    <3> HIDE DEF dead
    <3>2. PICK D : D = dead
      OBVIOUS
    <3>3. \A r \in Rows : RowStep(r)
      BY <2>1, <3>1, <3>2, BuriedPlacesStep
    <3>4. \A s \in Rows : outbox'[s].status = "sending" => outbox[s].status = "sending"
      BY <2>1, <3>1, <3>2, BuriedPlaces, InsertedPlace
    <3> QED BY <1>o, <2>2, <3>3, <3>4 DEF Tried, InOrder
  <2> QED BY <2>3, <2>4
<1>13. ASSUME NEW q \in Rows, RetryDeadLetter(q) PROVE InOrder
  <2> DEFINE row == [Released(outbox[q], "pending", 0) EXCEPT !.attempts = 0]
  <2>1. row.route = outbox[q].route /\ row.born = outbox[q].born /\ row.status = "pending"
    BY <1>r DEF Released, OutboxRows
  <2>2. outbox' = [outbox EXCEPT ![q] = row] /\ outbox[q].status = "dead_letter"
    BY <1>13 DEF RetryDeadLetter
  <2> HIDE DEF row
  <2>3. outbox'[q] = row /\ \A r \in Rows : r # q => outbox'[r] = outbox[r]
    BY <1>0, <2>2 DEF TypeOK
  <2>4. retries'[q] > 0 /\ \A r \in Rows : r # q => retries'[r] = retries[r]
    <3>1. retries[q] \in 0..MaxRetries /\ retries' = [retries EXCEPT ![q] = @ + 1]
      BY <1>0, <1>13 DEF RetryDeadLetter, TypeOK
    <3> QED BY <1>0, <3>1, OutboxNumbers DEF TypeOK
  <2>5. ASSUME NEW r \in Rows PROVE RowStep(r)
    <3>1. CASE r = q
      BY <2>1, <2>2, <2>3, <2>4, <3>1 DEF RowStep, Fresh
    <3>2. CASE r # q
      BY <2>3, <2>4, <3>2 DEF RowStep, Fresh, OrderInv
    <3> QED BY <3>1, <3>2
  <2>6. \A s \in Rows : Tried(s)' => Tried(s)
    <3>1. \A s \in Rows : Outstanding(s)' = Outstanding(s)
      BY <1>13 DEF RetryDeadLetter, Outstanding
    <3> QED BY <2>1, <2>3, <3>1 DEF Tried
  <2> QED BY <2>5, <2>6 DEF InOrder
<1>14. ASSUME NEW q \in Rows, ArchiveDeadLetter(q) PROVE InOrder
  <2> DEFINE row == [outbox[q] EXCEPT !.status = "archived"]
  <2>1. row.route = outbox[q].route /\ row.born = outbox[q].born /\ row.status = "archived"
    BY <1>r DEF OutboxRows
  <2>2. outbox' = [outbox EXCEPT ![q] = row] /\ outbox[q].status = "dead_letter"
    BY <1>14 DEF ArchiveDeadLetter
  <2> HIDE DEF row
  <2>3. outbox'[q] = row /\ \A r \in Rows : r # q => outbox'[r] = outbox[r]
    BY <1>0, <2>2 DEF TypeOK
  <2>4. ASSUME NEW r \in Rows PROVE RowStep(r)
    <3>1. CASE r = q
      BY <2>1, <2>2, <2>3, <3>1 DEF RowStep, Fresh
    <3>2. CASE r # q
      BY <1>14, <2>3, <3>2, PlacesKept DEF ArchiveDeadLetter
    <3> QED BY <3>1, <3>2
  <2>5. \A s \in Rows : Tried(s)' => Tried(s)
    <3>1. \A s \in Rows : Outstanding(s)' = Outstanding(s)
      BY <1>14 DEF ArchiveDeadLetter, Outstanding
    <3> QED BY <2>1, <2>3, <3>1 DEF Tried
  <2> QED BY <2>4, <2>5 DEF InOrder
<1> QED BY <1>1, <1>2, <1>4, <1>5, <1>6, <1>7, <1>8, <1>9, <1>11, <1>12, <1>13, <1>14
        DEF Next, Answer

LEMMA NextOrder == IInv /\ IInv' /\ OrderInv /\ [Next]_vars => OrderInv'
  BY NextInOrder, OrderStep

LEMMA InitOrder == Init => OrderInv
<1> SUFFICES ASSUME Init PROVE OrderInv
  OBVIOUS
<1>1. \A r \in Rows : outbox[r].status = "absent" /\ outbox[r].born = 0
  BY DEF Init
<1> QED BY <1>1 DEF OrderInv, Present, Fresh

\* claim takes the oldest due row of a route nobody is delivering on, and a row only
\* waits after it was tried: the first tries of a conversation are in order.
THEOREM FirstTriesKeepOrder == Spec => []FirstTriesInOrder
<1>1. IInv /\ OrderInv => FirstTriesInOrder
  <2> SUFFICES ASSUME IInv, OrderInv, NEW r \in Rows, NEW s \in Rows,
                      outbox[r].route = outbox[s].route, outbox[r].born < outbox[s].born,
                      outbox[s].status = "sending" \/ delivered[s] > 0
               PROVE  \/ outbox[r].status # "pending" \/ outbox[r].attempts > 0
                      \/ retries[r] > 0 \/ outbox[r].status = "absent"
    BY DEF FirstTriesInOrder
  <2>1. TypeOK
    BY DEF IInv
  <2>2. delivered[s] \in Nat /\ stray[s] \in Nat /\ outbox[r].attempts \in Nat
        /\ retries[r] \in Nat
    BY <2>1, RowTypes, OutstandingType DEF TypeOK
  <2>3. Tried(s)
    BY <2>2 DEF Tried, Outstanding
  <2> QED BY <2>2, <2>3 DEF OrderInv, Fresh
<1> QED BY <1>1, InitIInv, StepIInv, InitOrder, NextOrder, PTL DEF Spec

----------------------------------------------------------------------------
(* One delivery per route *)

\* A step that opens no delivery: those open stay on their routes.
LEMMA NothingOpened ==
  ASSUME IInv, OneDeliveryPerRoute, InOrder, InFlight' \subseteq InFlight
  PROVE  OneDeliveryPerRoute'
<1>1. IsFiniteSet(InFlight)
  BY RowsFinite, FS_Subset DEF InFlight
<1>2. /\ Cardinality(InFlight) \in Nat /\ Cardinality(InFlight') \in Nat
      /\ Cardinality(InFlight') <= Cardinality(InFlight)
  BY <1>1, FS_Subset, FS_CardinalityType
<1>3. Cardinality(InFlight') <= Concurrency
  BY <1>2, OutboxNumbers DEF OneDeliveryPerRoute
<1>4. \A r \in InFlight' : r \in Rows /\ outbox'[r].route = outbox[r].route
  BY TriedPresent DEF InOrder, RowStep, Present, InFlight
<1>5. \A r, s \in InFlight' : outbox'[r].route = outbox'[s].route => r = s
  BY <1>4 DEF OneDeliveryPerRoute
<1> QED BY <1>3, <1>5 DEF OneDeliveryPerRoute

\* A claim opens one delivery, below the limit and on a free route.
LEMMA ClaimOpens ==
  ASSUME IInv, OneDeliveryPerRoute, InOrder, Claim
  PROVE  OneDeliveryPerRoute'
<1>1. Expired \subseteq {s \in Rows : outbox[s].status = "sending"} /\ TypeOK
  BY DEF Expired, IInv
<1> DEFINE T == Buried(Expired)
<1>2. T \in [Rows -> OutboxRows]
  BY <1>1, BuriedRows
<1>3. CASE UNCHANGED flight
  BY <1>3, NothingOpened DEF InFlight
<1>4. ASSUME NEW q \in NextUp(T),
             outbox' = [T EXCEPT ![q].status = "sending", ![q].attempts = @ + 1,
                                 ![q].owner = daemon, ![q].lease = LeaseTicks],
             flight' = [flight EXCEPT ![q] = "asked"]
      PROVE  OneDeliveryPerRoute'
  <2>1. q \in Rows /\ T[q].route \notin {outbox[s].route : s \in InFlight}
    BY <1>4 DEF NextUp, Candidates
  <2> HIDE DEF T
  <2>2. outbox'[q].route = T[q].route
    BY <1>2, <1>4, <2>1, ClaimedPlace
  <2>3. InFlight' = InFlight \cup {q}
    BY <1>1, <1>4, <2>1 DEF InFlight, TypeOK
  <2>4. \A r \in InFlight : outbox'[r].route = outbox[r].route
    BY TriedPresent DEF InOrder, RowStep, Present, InFlight
  <2>5. \A r, s \in InFlight' : outbox'[r].route = outbox'[s].route => r = s
    BY <2>1, <2>2, <2>3, <2>4 DEF OneDeliveryPerRoute
  <2>6. IsFiniteSet(InFlight)
    BY RowsFinite, FS_Subset DEF InFlight
  <2>7. /\ Cardinality(InFlight) \in Nat
        /\ Cardinality(InFlight') = Cardinality(InFlight)
             \/ Cardinality(InFlight') = Cardinality(InFlight) + 1
    BY <2>3, <2>6, FS_CardinalityType, FS_AddElement
  <2>8. Cardinality(InFlight) < Concurrency
    BY DEF Claim
  <2>9. Cardinality(InFlight') <= Concurrency
    BY <2>7, <2>8, OutboxNumbers
  <2> QED BY <2>5, <2>9 DEF OneDeliveryPerRoute
<1> QED BY <1>3, <1>4 DEF Claim, ClaimAfter

LEMMA NextDeliveries == IInv /\ OrderInv /\ OneDeliveryPerRoute /\ [Next]_vars => OneDeliveryPerRoute'
<1> SUFFICES ASSUME IInv, OrderInv, OneDeliveryPerRoute, [Next]_vars PROVE OneDeliveryPerRoute'
  OBVIOUS
<1>0. InOrder /\ TypeOK
  BY NextInOrder DEF IInv
<1>1. CASE Claim
  BY <1>0, <1>1, ClaimOpens
<1>2. ASSUME UNCHANGED flight PROVE OneDeliveryPerRoute'
  BY <1>0, <1>2, NothingOpened DEF InFlight
<1>3. ASSUME NEW r \in Rows, NEW at, flight' = [flight EXCEPT ![r] = at],
             at = "none" \/ flight[r] # "none"
      PROVE  OneDeliveryPerRoute'
  <2>1. InFlight' \subseteq InFlight
    BY <1>0, <1>3 DEF InFlight, TypeOK
  <2> QED BY <1>0, <2>1, NothingOpened
<1>4. CASE Crash
  <2>1. InFlight' \subseteq InFlight
    BY <1>4 DEF Crash, InFlight
  <2> QED BY <1>0, <2>1, NothingOpened
<1>5. ASSUME NEW r \in Rows, Act(r) \/ Answer(r) PROVE OneDeliveryPerRoute'
  BY <1>3, <1>5 DEF Act, Answer, Complete, Fail
<1>6. CASE \/ UNCHANGED vars \/ Tick
           \/ \E route \in Routes : ObserveOwnerRoute(route)
           \/ \E p \in Posts, route \in Routes : Insert(p, route)
           \/ \E r \in Rows : \/ \E acted \in BOOLEAN : StrayEnds(r, acted)
                             \/ RetryDeadLetter(r) \/ ArchiveDeadLetter(r)
  BY <1>2, <1>6 DEF vars, Tick, ObserveOwnerRoute, Insert, StrayEnds, RetryDeadLetter,
                    ArchiveDeadLetter
<1> QED BY <1>1, <1>4, <1>5, <1>6 DEF Next

\* The coordinator claims only below its concurrency and only rows of routes it is not
\* delivering on, and a row never changes its route: one delivery is open per route.
THEOREM OneDeliveryEach == Spec => []OneDeliveryPerRoute
<1>1. Init => OneDeliveryPerRoute
  <2> SUFFICES ASSUME Init PROVE OneDeliveryPerRoute
    OBVIOUS
  <2>1. InFlight = {}
    BY DEF Init, InFlight
  <2> QED BY <2>1, OutboxNumbers, FS_EmptySet DEF OneDeliveryPerRoute
<1> QED BY <1>1, InitIInv, StepIInv, InitOrder, NextOrder, NextDeliveries, PTL DEF Spec
===============================================================================
