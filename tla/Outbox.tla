------------------------------- MODULE Outbox -------------------------------
(***************************************************************************)
(* The transactional outbox: the rows of src/src/daemon/outbox-store.ts,   *)
(* the delivery coordinator of dispatcher-delivery.ts that claims them,    *)
(* and the sinks (notifier.ts, connectors.ts) that carry them out of the   *)
(* daemon.  A store operation is one SQLite transaction, hence one action; *)
(* a delivery is a claim, an effect outside and the recording of what the  *)
(* sink answered, with crashes, expiry and the owner in between.           *)
(*                                                                         *)
(* A row is named <<p, 0>> for the message p and <<p, k>> for the system   *)
(* notice inserted when the k-th licence to send p ended in dead_letter.   *)
(* `lease` and `delay` count ticks down, as in TaskStore.                  *)
(***************************************************************************)
EXTENDS Integers, FiniteSets

CONSTANTS
  Posts,         \* messages inserted by task completions, failures and blocks
  Routes,        \* exact (channel, target) pairs
  System,        \* the local notification route
  NoRoute,       \* no recent owner route
  LeaseTicks,    \* sending lease
  MaxAttempts,   \* attempts of a retryable failure before dead_letter
  Backoff,       \* retry delay after the n-th attempt
  Concurrency,   \* deliveries in flight
  MaxRetries,    \* bound: explicit retries of one dead letter explored
  MaxRestarts    \* bound: daemon crashes explored

Rows == Posts \X (0..(MaxRetries + 1))
Attempts == 1..MaxAttempts
Processes == 1..(MaxRestarts + 1)
NoProcess == 0

ASSUME OutboxNames ==
  /\ IsFiniteSet(Posts)
  /\ System \in Routes
  /\ NoRoute \notin Routes

ASSUME OutboxNumbers ==
  /\ LeaseTicks \in Nat \ {0}
  /\ MaxAttempts \in Nat \ {0}
  /\ Backoff \in [Attempts -> Nat]
  /\ Concurrency \in Nat \ {0}
  /\ MaxRetries \in Nat
  /\ MaxRestarts \in Nat

VARIABLES
  outbox,      \* the outbox table
  ownerRoute,  \* the remembered owner route of attention_state
  daemon,      \* the running daemon process, a fresh lease owner after each crash
  flight,      \* the process' open delivery of a row: the sink was asked, or has acted
  stray,       \* requests to a sink that nobody waits for any more
  delivered,   \* history: how often the effect of a row happened outside
  retries      \* history: explicit retries of a row by the owner

vars == <<outbox, ownerRoute, daemon, flight, stray, delivered, retries>>

OutboxStatuses == {"absent", "pending", "sending", "sent", "dead_letter", "archived"}

OutboxRows ==
  [status : OutboxStatuses, route : Routes, attempts : Nat,
   owner : Processes \cup {NoProcess}, lease : Nat, delay : Nat, born : Nat]

TypeOK ==
  /\ outbox \in [Rows -> OutboxRows]
  /\ ownerRoute \in Routes \cup {NoRoute}
  /\ daemon \in Processes
  /\ flight \in [Rows -> {"none", "asked", "done"}]
  /\ stray \in [Rows -> Nat]
  /\ delivered \in [Rows -> Nat]
  /\ retries \in [Rows -> 0..MaxRetries]

----------------------------------------------------------------------------
(* Row updates *)

Present == {r \in Rows : outbox[r].status # "absent"}

\* created_at of a row: rows of one transaction are created at the same time
Inserted(route) ==
  [status |-> "pending", route |-> route, attempts |-> 0, owner |-> NoProcess,
   lease |-> 0, delay |-> 0, born |-> Cardinality(Present)]

Released(row, status, delay) ==
  [row EXCEPT !.status = status, !.owner = NoProcess, !.lease = 0, !.delay = delay]

Notice(r) == <<r[1], retries[r] + 1>>

\* mutant of Buried: the dead letter is silent
BuriedSilently(dead) ==
  [r \in Rows |-> IF r \in dead THEN Released(outbox[r], "dead_letter", 0) ELSE outbox[r]]

\* recordDeadLetter: a dead letter outside the system channel gets a system notice
Buried(dead) ==
  [r \in Rows |->
     IF r \in dead THEN Released(outbox[r], "dead_letter", 0)
     ELSE IF \E d \in dead : outbox[d].route # System /\ r = Notice(d) THEN Inserted(System)
     ELSE outbox[r]]

\* clearOwnerRoute: a route that failed is no longer the owner's
OwnerRouteAfter(dead) ==
  IF \E d \in dead : outbox[d].route # System /\ outbox[d].route = ownerRoute
    THEN NoRoute ELSE ownerRoute

\* mutant of Expired: a process only gives its own deliveries up
ExpiredOwn ==
  {r \in Rows : outbox[r].status = "sending" /\ outbox[r].lease = 0 /\ outbox[r].owner = daemon}

Expired == {r \in Rows : outbox[r].status = "sending" /\ outbox[r].lease = 0}

InFlight == {r \in Rows : flight[r] # "none"}

----------------------------------------------------------------------------
Init ==
  /\ outbox = [r \in Rows |->
       [status |-> "absent", route |-> System, attempts |-> 0, owner |-> NoProcess,
        lease |-> 0, delay |-> 0, born |-> 0]]
  /\ ownerRoute = NoRoute
  /\ daemon = 1
  /\ flight = [r \in Rows |-> "none"]
  /\ stray = [r \in Rows |-> 0]
  /\ delivered = [r \in Rows |-> 0]
  /\ retries = [r \in Rows |-> 0]

CountDown(n) == IF n > 0 THEN n - 1 ELSE 0

Tick ==
  /\ \E r \in Rows : outbox[r].lease > 0 \/ outbox[r].delay > 0
  /\ outbox' = [r \in Rows |-> [outbox[r] EXCEPT !.lease = CountDown(@), !.delay = CountDown(@)]]
  /\ UNCHANGED <<ownerRoute, daemon, flight, stray, delivered, retries>>

\* The requests of a dead daemon may still be acted on: a connector is a child process.
Crash ==
  /\ daemon <= MaxRestarts
  /\ daemon' = daemon + 1
  /\ stray' = [r \in Rows |-> IF flight[r] = "asked" THEN stray[r] + 1 ELSE stray[r]]
  /\ flight' = [r \in Rows |-> "none"]
  /\ UNCHANGED <<outbox, ownerRoute, delivered, retries>>

\* An owner command from a connector conversation is where the owner is now.
ObserveOwnerRoute(route) ==
  /\ route # System
  /\ ownerRoute' = route
  /\ UNCHANGED <<outbox, daemon, flight, stray, delivered, retries>>

\* Insert: to the event's own reply route, else the recent owner route or the default
\* route of the configuration, which is System here.
Insert(p, route) ==
  /\ outbox[<<p, 0>>].status = "absent"
  /\ outbox' = [outbox EXCEPT ![<<p, 0>>] = Inserted(route)]
  /\ UNCHANGED <<ownerRoute, daemon, flight, stray, delivered, retries>>

\* mutant of Candidates: rows are not kept to one delivery per route
CandidatesAnyRoute(rows) ==
  {r \in Rows : rows[r].status = "pending" /\ rows[r].delay = 0}

\* pending, due, and not on a route this process is delivering on
Candidates(rows) ==
  {r \in Rows : /\ rows[r].status = "pending" /\ rows[r].delay = 0
                /\ rows[r].route \notin {outbox[s].route : s \in InFlight}}

\* mutant of NextUp: whichever row the index yields
NextUpAny(rows) == Candidates(rows)

NextUp(rows) ==
  {r \in Candidates(rows) : \A s \in Candidates(rows) : rows[r].born <= rows[s].born}

ClaimAfter(rows) ==
  \/ /\ Candidates(rows) = {} /\ Expired # {}
     /\ outbox' = rows
     /\ UNCHANGED flight
  \/ \E r \in NextUp(rows) :
       /\ outbox' = [rows EXCEPT ![r].status = "sending", ![r].attempts = @ + 1,
                                 ![r].owner = daemon, ![r].lease = LeaseTicks]
       /\ flight' = [flight EXCEPT ![r] = "asked"]

\* mutant of Claim: an expired delivery goes back to pending
ClaimReplaying ==
  /\ Cardinality(InFlight) < Concurrency
  /\ ClaimAfter([r \in Rows |-> IF r \in Expired THEN Released(outbox[r], "pending", 0)
                                ELSE outbox[r]])
  /\ UNCHANGED <<ownerRoute, daemon, stray, delivered, retries>>

\* Expired deliveries are given up, then the oldest due row is claimed and its sink
\* asked to deliver; the coordinator does all of it without giving up control.
Claim ==
  /\ Cardinality(InFlight) < Concurrency
  /\ ClaimAfter(Buried(Expired))
  /\ ownerRoute' = OwnerRouteAfter(Expired)
  /\ UNCHANGED <<daemon, stray, delivered, retries>>

----------------------------------------------------------------------------
(* Outside *)

Act(r) ==
  /\ flight[r] = "asked"
  /\ flight' = [flight EXCEPT ![r] = "done"]
  /\ delivered' = [delivered EXCEPT ![r] = @ + 1]
  /\ UNCHANGED <<outbox, ownerRoute, daemon, stray, retries>>

\* A request nobody waits for is acted on late, or lost.
StrayEnds(r, acted) ==
  /\ stray[r] > 0
  /\ stray' = [stray EXCEPT ![r] = @ - 1]
  /\ delivered' = [delivered EXCEPT ![r] = IF acted THEN @ + 1 ELSE @]
  /\ UNCHANGED <<outbox, ownerRoute, daemon, flight, retries>>

----------------------------------------------------------------------------
(* The sink answered *)

Held(r) == outbox[r].status = "sending" /\ outbox[r].owner = daemon

\* mutant of Complete: recorded before the sink answered
CompleteEarly(r, stored) ==
  /\ flight[r] # "none"
  /\ flight' = [flight EXCEPT ![r] = "none"]
  /\ outbox' = IF stored /\ Held(r)
                 THEN [outbox EXCEPT ![r] = Released(@, "sent", 0)] ELSE outbox
  /\ UNCHANGED <<ownerRoute, daemon, stray, delivered, retries>>

\* A confirmed delivery whose row cannot be completed any more, or whose write fails
\* (stored is FALSE), is only logged; the lease then runs out.
Complete(r, stored) ==
  /\ flight[r] = "done"
  /\ flight' = [flight EXCEPT ![r] = "none"]
  /\ outbox' = IF stored /\ Held(r)
                 THEN [outbox EXCEPT ![r] = Released(@, "sent", 0)] ELSE outbox
  /\ UNCHANGED <<ownerRoute, daemon, stray, delivered, retries>>

FailureKinds == {"retryable", "permanent", "uncertain"}

\* mutant of AttemptsAllowed: an uncertain failure is retried like any other
AttemptsAllowedAlways(kind) == IF kind = "permanent" THEN 1 ELSE MaxAttempts

AttemptsAllowed(kind) == IF kind = "retryable" THEN MaxAttempts ELSE 1

\* A sink that reports a definite failure has not acted; a timeout, an interruption
\* or a missing answer is uncertain, whether it has acted or will.
Fail(r, kind, stored) ==
  LET dead == IF stored /\ Held(r) /\ outbox[r].attempts >= AttemptsAllowed(kind)
                THEN {r} ELSE {}
  IN /\ flight[r] # "none"
     /\ kind # "uncertain" => flight[r] = "asked"
     /\ flight' = [flight EXCEPT ![r] = "none"]
     /\ stray' = IF kind = "uncertain" /\ flight[r] = "asked"
                   THEN [stray EXCEPT ![r] = @ + 1] ELSE stray
     /\ outbox' = IF stored /\ Held(r) /\ dead = {}
                    THEN [outbox EXCEPT ![r] = Released(@, "pending", Backoff[@.attempts])]
                    ELSE Buried(dead)
     /\ ownerRoute' = OwnerRouteAfter(dead)
     /\ UNCHANGED <<daemon, delivered, retries>>

----------------------------------------------------------------------------
(* The owner *)

\* bound: one row is retried, at most MaxRetries times
RetryBound(r) == retries[r] < MaxRetries /\ \A s \in Rows \ {r} : retries[s] = 0

RetryDeadLetter(r) ==
  /\ outbox[r].status = "dead_letter"
  /\ RetryBound(r)
  /\ retries' = [retries EXCEPT ![r] = @ + 1]
  /\ outbox' = [outbox EXCEPT ![r] = [Released(@, "pending", 0) EXCEPT !.attempts = 0]]
  /\ UNCHANGED <<ownerRoute, daemon, flight, stray, delivered>>

ArchiveDeadLetter(r) ==
  /\ outbox[r].status = "dead_letter"
  /\ outbox' = [outbox EXCEPT ![r].status = "archived"]
  /\ UNCHANGED <<ownerRoute, daemon, flight, stray, delivered, retries>>

----------------------------------------------------------------------------
Answer(r) ==
  \/ \E stored \in BOOLEAN : Complete(r, stored)
  \/ \E kind \in FailureKinds, stored \in BOOLEAN : Fail(r, kind, stored)

Next ==
  \/ Tick
  \/ Crash
  \/ Claim
  \/ \E route \in Routes : ObserveOwnerRoute(route)
  \/ \E p \in Posts, route \in Routes : Insert(p, route)
  \/ \E r \in Rows :
       \/ Act(r)
       \/ \E acted \in BOOLEAN : StrayEnds(r, acted)
       \/ Answer(r)
       \/ RetryDeadLetter(r)
       \/ ArchiveDeadLetter(r)

Spec == Init /\ [][Next]_vars

\* Time passes, the dispatcher loop polls the outbox, and every delivery is answered:
\* each sink bounds its wait with a timeout.
FairSpec ==
  /\ Spec
  /\ WF_vars(Tick)
  /\ WF_vars(Claim)
  /\ \A r \in Rows : WF_vars(Answer(r))

----------------------------------------------------------------------------
(* Properties *)

Outstanding(r) == delivered[r] + stray[r] + (IF flight[r] = "asked" THEN 1 ELSE 0)

\* A message has its effect at most once per licence (the insertion and each explicit
\* retry by the owner), counting requests that may still be acted on, whatever crashes,
\* expired leases, lost answers and failed writes happen.
AtMostOncePerLicence ==
  \A r \in Rows :
    /\ Outstanding(r) <= retries[r] + 1
    /\ outbox[r].status \in {"absent", "pending"} => Outstanding(r) <= retries[r]

\* A row is only recorded as sent when its effect did happen outside.
SentMeansDelivered ==
  \A r \in Rows : outbox[r].status = "sent" => delivered[r] > 0

\* Every dead letter outside the system channel has its own system notice, one per
\* licence that ended in one, and a message that is not given up has none for its
\* current licence: no silent end and no second report, also through lease recovery.
DeadLettersAreReported ==
  \A p \in Posts : LET r == <<p, 0>> IN
    /\ outbox[r].route # System =>
         \A k \in 1..(MaxRetries + 1) :
           outbox[<<p, k>>].status # "absent" <=>
             \/ k <= retries[r]
             \/ k = retries[r] + 1 /\ outbox[r].status \in {"dead_letter", "archived"}
    /\ outbox[r].route = System =>
         \A k \in 1..(MaxRetries + 1) : outbox[<<p, k>>].status = "absent"

\* On one route an older message is overtaken only after it was tried: nothing is sent
\* around a message that never had its turn.
FirstTriesInOrder ==
  \A r, s \in Rows :
    /\ outbox[r].route = outbox[s].route
    /\ outbox[r].born < outbox[s].born
    /\ outbox[s].status = "sending" \/ delivered[s] > 0
    => outbox[r].status # "pending" \/ outbox[r].attempts > 0 \/ retries[r] > 0
         \/ outbox[r].status = "absent"

\* One process never has two deliveries open on one route, so a dead conversation
\* delays only itself; and at most Concurrency deliveries are open.
OneDeliveryPerRoute ==
  /\ \A r, s \in InFlight : outbox[r].route = outbox[s].route => r = s
  /\ Cardinality(InFlight) <= Concurrency

\* A route whose delivery was given up is no longer used as the owner's route,
\* whichever of the two ways the row became a dead letter.
DeadRouteForgotten ==
  [][\A r \in Rows :
       /\ outbox[r].status # "dead_letter" /\ outbox'[r].status = "dead_letter"
       /\ outbox[r].route # System
       => ownerRoute' # outbox[r].route]_vars

\* Nothing stays in the outbox for ever: every row is sent, or given up and reported.
EveryRowSettles ==
  \A r \in Rows :
    outbox[r].status \in {"pending", "sending"} ~>
      outbox[r].status \in {"sent", "dead_letter", "archived"}

\* The outbox keeps the promise of DeliveryContract for the messages posted to it.
Contract == INSTANCE DeliveryContract WITH
  Messages <- Posts,
  licences <- [p \in Posts |->
                 IF outbox[<<p, 0>>].status = "absent" THEN 0 ELSE retries[<<p, 0>>] + 1],
  effects <- [p \in Posts |-> delivered[<<p, 0>>]],
  told <- [p \in Posts |->
             {k \in 1..(MaxRetries + 1) : outbox[<<p, k>>].status # "absent"}]

KeepsContract == Contract!ContractSpec
=============================================================================
