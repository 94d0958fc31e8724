-------------------------- MODULE StateFileProofs --------------------------
(***************************************************************************)
(* Proofs about StateFile for any set of processes and any fault bounds.   *)
(* `OneOwner` is why removals by name are safe while undisturbed: a gate   *)
(* exists only while its owner is alive behind it, so no gate is ever      *)
(* removed by another process, one process at a time inspects the lock,    *)
(* and what it evicts is a dead process's.  `LookSound` is what a pending  *)
(* inspection may conclude from the half it has read, as long as the file  *)
(* it read first still has the name.  `OneValue` adds what the holder of   *)
(* the lock knows of the file.                                             *)
(***************************************************************************)
EXTENDS StateFile, TLAPS

GateOwned ==
  /\ \A p \in Procs : at[p] \in GatePlaces => gate # NoFile /\ gate.owner = p
  /\ gate # NoFile => at[gate.owner] \in GatePlaces /\ ~gate.old
  /\ \A p \in Procs : at[p] \notin {"ungate", "unlinkGate"}

LockOwned ==
  /\ \A p \in Procs : at[p] \in HeldPlaces =>
       lock # NoFile /\ lock.owner = p /\ (lock.written <=> at[p] # "fill")
  /\ lock # NoFile /\ ~lock.written =>
       at[lock.owner] \in {"fill", "dead"} /\ (lock.old => Dead(lock.owner))
  /\ \A p \in Procs : at[p] = "evict" => lock # NoFile /\ Dead(lock.owner)

Sound(p) ==
  /\ lock # NoFile
  /\ source[p] \in Procs => source[p] = lock.owner
  /\ source[p] = "empty" /\ (stamp[p] = "old" \/ lock.old) => Dead(lock.owner)
  /\ stamp[p] = "old" /\ ~lock.written => Dead(lock.owner)

LookSound == \A p \in Procs : fresh[p] => Sound(p)

OneOwner == Undisturbed => GateOwned /\ LockOwned /\ LookSound

HolderKnows ==
  \A p \in Procs :
    /\ at[p] = "mutate" => view[p] = file.holds /\ marker = "none"
    /\ at[p] = "mark" => file.health = "corrupt"
    /\ at[p] \in {"quarantine", "seal"} => marker # "none"

OneValue == Undisturbed => HolderKnows /\ (marker # "none" => file.health # "ok")

USE NoFileAssumption, SourceAssumption

----------------------------------------------------------------------------
(* The variables keep their types. *)

\* Opening, writing and finding lock files gives lock files.
LEMMA FilesTyped ==
  ASSUME NEW p \in Procs, NEW f \in LockFiles \cup {NoFile}
  PROVE  Opened(p) \in LockFiles /\ Filled(f, p) \in LockFiles \cup {NoFile}
  BY DEF LockFiles, Opened, Filled

\* A lock file that grows old stays its owner's.
LEMMA OldFiles ==
  ASSUME NEW f \in LockFiles
  PROVE  LET g == [f EXCEPT !.old = TRUE] IN
           g \in LockFiles /\ g.owner = f.owner /\ g.written = f.written
  BY DEF LockFiles

\* Every step keeps the types.
LEMMA TypeStep == TypeOK /\ [Next]_vars => TypeOK'
<1> SUFFICES ASSUME TypeOK, [Next]_vars PROVE TypeOK'
  OBVIOUS
<1> USE DEF vars, looks, locks, data, faults, Places, Trying, GatePlaces, HeldPlaces
<1>1. ASSUME NEW p \in Procs, Acquire(p) PROVE TypeOK'
  <2>1. at' \in [Procs -> Places]
    BY <1>1, SMTT(60) DEF TypeOK, Acquire, Go, CheckGate, CompareGate, UnlinkGate, CreateLock,
       FillLock, OpenGate, FillGate, ReadSource,
       StatLock, Judge, Decide, EvictLock, LeaveGate, LockGone, Forget
  <2>2. lock' \in LockFiles \cup {NoFile} /\ gate' \in LockFiles \cup {NoFile}
    BY <1>1, FilesTyped DEF TypeOK, Acquire, CheckGate, CompareGate, UnlinkGate, CreateLock,
       FillLock, OpenGate, FillGate, ReadSource,
       StatLock, Judge, Decide, EvictLock, LeaveGate, LockGone, Forget
  <2>3. seen' \in [Procs -> LockFiles \cup {NoFile}]
    BY <1>1 DEF TypeOK, Acquire, CheckGate, CompareGate, UnlinkGate, CreateLock, FillLock,
       OpenGate, FillGate, ReadSource,
       StatLock, Judge, Decide, EvictLock, LeaveGate, LockGone, Forget
  <2>4. source' \in [Procs -> {"unread", "empty"} \cup Procs]
    <3>1. lock # NoFile => lock.owner \in Procs
      BY DEF TypeOK, LockFiles
    <3>2. CASE ReadSource(p)
      BY <3>1, <3>2 DEF ReadSource, Forget, TypeOK
    <3>3. CASE ~ReadSource(p)
      BY <1>1, <3>3 DEF TypeOK, Acquire, CheckGate, CompareGate, UnlinkGate, CreateLock, FillLock,
         OpenGate, FillGate, StatLock, Judge, Decide, EvictLock, LeaveGate, LockGone, Forget
    <3> QED BY <3>2, <3>3
  <2>5. stamp' \in [Procs -> {"unread", "young", "old"}]
    BY <1>1 DEF TypeOK, Acquire, CheckGate, CompareGate, UnlinkGate, CreateLock, FillLock,
       OpenGate, FillGate, ReadSource, StatLock, Judge, Decide, EvictLock, LeaveGate, LockGone, Forget
  <2>6. fresh' \in [Procs -> BOOLEAN]
    BY <1>1 DEF TypeOK, Acquire, CheckGate, CompareGate, UnlinkGate, CreateLock, FillLock,
       OpenGate, FillGate, ReadSource, StatLock, Judge, Decide, EvictLock, LeaveGate, LockGone, Forget
  <2>7. misjudged' \in BOOLEAN
    BY <1>1 DEF TypeOK, faults, Acquire, CheckGate, CompareGate, UnlinkGate, CreateLock, FillLock,
       OpenGate, FillGate, ReadSource, StatLock, Judge, Decide, EvictLock, LeaveGate
  <2>8. UNCHANGED <<data, updates, crashes, gateDeaths, stalls, corruptions>>
    BY <1>1 DEF faults, Acquire, CheckGate, CompareGate, UnlinkGate, CreateLock, FillLock,
       OpenGate, FillGate, ReadSource, StatLock, Judge, Decide, EvictLock, LeaveGate
  <2> QED BY <2>1, <2>2, <2>3, <2>4, <2>5, <2>6, <2>7, <2>8 DEF TypeOK
<1>2. ASSUME NEW p \in Procs, Update(p) PROVE TypeOK'
  <2>1. at' \in [Procs -> Places]
    BY <1>2, SMTT(60) DEF TypeOK, Update, Go, Load, Commit, Abstain, MarkCorrupt, Quarantine,
       SealMarker, ReadOwnLock, UnlinkLock, LockGone
  <2>2. file' \in [health : {"ok", "corrupt", "missing"}, holds : SUBSET Procs]
    BY <1>2 DEF TypeOK, Update, Load, Commit, Abstain, MarkCorrupt, Quarantine, SealMarker,
       ReadOwnLock, UnlinkLock, LockGone
  <2>3. marker' \in {"none", "blocking", "quarantined"} /\ view' \in [Procs -> SUBSET Procs]
    BY <1>2 DEF TypeOK, Update, Load, Commit, Abstain, MarkCorrupt, Quarantine, SealMarker,
       ReadOwnLock, UnlinkLock, LockGone
  <2>4. /\ lock' \in LockFiles \cup {NoFile} /\ fresh' \in [Procs -> BOOLEAN]
        /\ UNCHANGED <<seen, source, stamp, gate, faults>>
    BY <1>2 DEF TypeOK, Update, Load, Commit, Abstain, MarkCorrupt, Quarantine, SealMarker,
       ReadOwnLock, UnlinkLock, LockGone
  <2> QED BY <2>1, <2>2, <2>3, <2>4 DEF TypeOK
<1>3. ASSUME NEW p \in Procs, Begin(p) \/ GiveUp(p) \/ FillFails(p) \/ ReleaseFails(p) PROVE TypeOK'
  <2>1. at' \in [Procs -> Places] /\ updates' \in Nat
    BY <1>3 DEF TypeOK, Begin, GiveUp, FillFails, ReleaseFails, LockGone, Go
  <2>2. lock' \in LockFiles \cup {NoFile} /\ fresh' \in [Procs -> BOOLEAN]
    BY <1>3 DEF TypeOK, Begin, GiveUp, FillFails, ReleaseFails, LockGone
  <2>3. /\ UNCHANGED <<seen, source, stamp, gate, data>>
        /\ UNCHANGED <<crashes, gateDeaths, stalls, misjudged, corruptions>>
    BY <1>3 DEF Begin, GiveUp, FillFails, ReleaseFails, LockGone
  <2> QED BY <2>1, <2>2, <2>3 DEF TypeOK
<1>4. ASSUME NEW p \in Procs, Crash(p) PROVE TypeOK'
  BY <1>4 DEF TypeOK, Crash, Go, Forget
<1>5. CASE AgeLock \/ AgeGate
  <2>1. lock' \in LockFiles \cup {NoFile} /\ gate' \in LockFiles \cup {NoFile}
    BY <1>5, OldFiles DEF TypeOK, AgeLock, AgeGate
  <2>2. /\ stalls' \in Nat
        /\ UNCHANGED <<at, seen, looks, data, updates, crashes, gateDeaths, misjudged, corruptions>>
    BY <1>5 DEF TypeOK, AgeLock, AgeGate, Stall
  <2> QED BY <2>1, <2>2 DEF TypeOK
<1>6. ASSUME NEW p \in Procs, AgeStamp(p) PROVE TypeOK'
  BY <1>6 DEF TypeOK, AgeStamp, Stall
<1>7. CASE Corrupt
  BY <1>7 DEF TypeOK, Corrupt
<1>8. CASE UNCHANGED vars
  BY <1>8 DEF TypeOK
<1> QED BY <1>1, <1>2, <1>3, <1>4, <1>5, <1>6, <1>7, <1>8 DEF Next

\* The first state has the types.
LEMMA TypeInit == Init => TypeOK
<1> SUFFICES ASSUME Init PROVE TypeOK
  OBVIOUS
<1>1. /\ at \in [Procs -> Places]
      /\ source \in [Procs -> {"unread", "empty"} \cup Procs]
      /\ stamp \in [Procs -> {"unread", "young", "old"}]
      /\ fresh \in [Procs -> BOOLEAN]
  BY DEF Init, Places
<1>2. /\ seen \in [Procs -> LockFiles \cup {NoFile}]
      /\ view \in [Procs -> SUBSET Procs]
      /\ file \in [health : {"ok", "corrupt", "missing"}, holds : SUBSET Procs]
      /\ misjudged \in BOOLEAN
  BY DEF Init
<1> QED BY <1>1, <1>2 DEF Init, TypeOK

\* The variables always have their types: the places of acquireLock and updateWhen
\* lead to one another and nowhere else.
THEOREM TypeCorrect == Spec => []TypeOK
<1>1. Init => TypeOK
  BY TypeInit
<1> QED BY <1>1, TypeStep, PTL DEF Spec

----------------------------------------------------------------------------
(* One process at a time behind the gate, and one at a time behind the lock. *)

\* What is disturbed stays disturbed.
LEMMA DisturbedForGood ==
  ASSUME TypeOK, [Next]_vars, Undisturbed'
  PROVE  Undisturbed
<1> USE DEF vars, faults, Undisturbed
<1>1. ASSUME NEW p \in Procs, Acquire(p) PROVE Undisturbed
  <2>1. CASE Judge(p)
    <3>1. gateDeaths = 0 /\ stalls = 0 /\ ~misjudged'
      BY <2>1 DEF Judge, Decide
    <3>2. ~misjudged
      BY <2>1, <3>1 DEF Judge, Decide
    <3> QED BY <3>1, <3>2
  <2>2. CASE ~Judge(p)
    BY <1>1, <2>2 DEF Acquire, CheckGate, CompareGate, UnlinkGate, CreateLock, FillLock, OpenGate,
       FillGate, ReadSource, StatLock, EvictLock, LeaveGate
  <2> QED BY <2>1, <2>2
<1>2. ASSUME NEW p \in Procs, Update(p) \/ Begin(p) \/ GiveUp(p) \/ FillFails(p) \/ ReleaseFails(p)
      PROVE  Undisturbed
  BY <1>2 DEF Update, Load, Commit, Abstain, MarkCorrupt, Quarantine, SealMarker, ReadOwnLock,
     UnlinkLock, Begin, GiveUp, FillFails, ReleaseFails
<1>3. ASSUME NEW p \in Procs, Crash(p) \/ AgeStamp(p) PROVE Undisturbed
  BY <1>3 DEF TypeOK, Crash, AgeStamp, Stall
<1>4. CASE AgeLock \/ AgeGate \/ Corrupt \/ UNCHANGED vars
  BY <1>4 DEF TypeOK, AgeLock, AgeGate, Stall, Corrupt
<1> QED BY <1>1, <1>2, <1>3, <1>4 DEF Next

\* The owners of lock files are processes.
LEMMA Owners ==
  ASSUME TypeOK
  PROVE  (lock # NoFile => lock \in LockFiles /\ lock.owner \in Procs)
         /\ (gate # NoFile => gate \in LockFiles /\ gate.owner \in Procs)
  BY DEF TypeOK, LockFiles

\* A process that stays on its side of the gate leaves its ownership as it is.
LEMMA GateStays ==
  ASSUME TypeOK, GateOwned, NEW p \in Procs, UNCHANGED gate,
         \A q \in Procs \ {p} : at'[q] = at[q],
         at[p] \in GatePlaces <=> at'[p] \in GatePlaces,
         at'[p] \notin {"ungate", "unlinkGate"}
  PROVE  GateOwned'
<1>1. \A q \in Procs : at'[q] \in GatePlaces => gate' # NoFile /\ gate'.owner = q
  BY DEF GateOwned
<1>2. gate' # NoFile => at'[gate'.owner] \in GatePlaces /\ ~gate'.old
  BY Owners DEF GateOwned
<1>3. \A q \in Procs : at'[q] \notin {"ungate", "unlinkGate"}
  BY DEF GateOwned
<1> QED BY <1>1, <1>2, <1>3 DEF GateOwned

\* So does one that stays on its side of the lock, or leaves it.
LEMMA LockStays ==
  ASSUME TypeOK, LockOwned, NEW p \in Procs, UNCHANGED lock,
         \A q \in Procs \ {p} : at'[q] = at[q],
         at'[p] \in HeldPlaces => at[p] \in HeldPlaces,
         at[p] # "fill", at'[p] # "fill", at[p] # "dead", at'[p] # "evict"
  PROVE  LockOwned'
<1>1. \A q \in Procs : at'[q] \in HeldPlaces =>
        lock' # NoFile /\ lock'.owner = q /\ (lock'.written <=> at'[q] # "fill")
  BY DEF LockOwned
<1>2. lock' # NoFile /\ ~lock'.written =>
        at'[lock'.owner] \in {"fill", "dead"} /\ (lock'.old => at'[lock'.owner] = "dead")
  BY Owners DEF LockOwned, Dead
<1>3. \A q \in Procs : at'[q] = "evict" => lock' # NoFile /\ at'[lock'.owner] = "dead"
  BY Owners DEF LockOwned, Dead
<1> QED BY <1>1, <1>2, <1>3 DEF LockOwned, Dead

\* Looks stay sound while neither they nor the lock change: the dead stay dead.
LEMMA LooksStay ==
  ASSUME TypeOK, LookSound, UNCHANGED <<looks, lock>>,
         \A q \in Procs : at[q] = "dead" => at'[q] = "dead"
  PROVE  LookSound'
  BY Owners DEF LookSound, Sound, looks, Dead

\* Of a lock file that is gone nothing is concluded.
LEMMA LooksGone ==
  ASSUME LockGone
  PROVE  LookSound'
  BY DEF LockGone, LookSound

\* What one inspection does leaves the others as sound as they were.
LEMMA LookAlone ==
  ASSUME TypeOK, LookSound, NEW p \in Procs, UNCHANGED lock,
         \A q \in Procs : at[q] = "dead" => at'[q] = "dead",
         \A q \in Procs \ {p} :
           fresh'[q] = fresh[q] /\ source'[q] = source[q] /\ stamp'[q] = stamp[q],
         fresh'[p] => Sound(p)'
  PROVE  LookSound'
  BY Owners DEF LookSound, Sound, Dead

\* An inspection that is over leaves nothing behind.
LEMMA Forgotten ==
  ASSUME TypeOK, NEW p \in Procs, Forget(p)
  PROVE  /\ \A q \in Procs \ {p} :
              fresh'[q] = fresh[q] /\ source'[q] = source[q] /\ stamp'[q] = stamp[q]
         /\ ~fresh'[p]
  BY DEF TypeOK, Forget

\* Every step keeps the owners of the gate and of the lock in place.
LEMMA OwnerStep == TypeOK /\ OneOwner /\ [Next]_vars => OneOwner'
<1> SUFFICES ASSUME TypeOK, GateOwned, LockOwned, LookSound, Undisturbed, Undisturbed', [Next]_vars
             PROVE  GateOwned' /\ LockOwned' /\ LookSound'
  BY DisturbedForGood DEF OneOwner
<1> USE DEF vars, looks, locks, data, faults, GatePlaces, HeldPlaces, Go
<1>1. ASSUME NEW p \in Procs, Begin(p) \/ GiveUp(p) PROVE GateOwned' /\ LockOwned' /\ LookSound'
  BY <1>1, GateStays, LockStays, LooksStay DEF TypeOK, Begin, GiveUp
<1>2. ASSUME NEW p \in Procs, CheckGate(p) PROVE GateOwned' /\ LockOwned' /\ LookSound'
  <2>1. ~(gate # NoFile /\ Abandoned(gate))
    BY Owners DEF GateOwned, Abandoned, Dead
  <2> QED BY <1>2, <2>1, GateStays, LockStays, LooksStay DEF TypeOK, CheckGate
<1>3. ASSUME NEW p \in Procs, CompareGate(p) \/ UnlinkGate(p) PROVE FALSE
  BY <1>3 DEF CompareGate, UnlinkGate, GateOwned
<1>4. ASSUME NEW p \in Procs, CreateLock(p) PROVE GateOwned' /\ LockOwned' /\ LookSound'
  <2>1. GateOwned'
    BY <1>4, GateStays DEF TypeOK, CreateLock
  <2>2. CASE lock # NoFile
    BY <1>4, <2>1, <2>2, LockStays, LooksStay DEF TypeOK, CreateLock
  <2>3. CASE lock = NoFile
    <3>1. lock' # NoFile /\ lock'.owner = p /\ ~lock'.written /\ ~lock'.old /\ at'[p] = "fill"
      BY <1>4, <2>3, FilesTyped DEF TypeOK, CreateLock, Opened
    <3>2. \A q \in Procs \ {p} : at'[q] = at[q] /\ at[q] \notin HeldPlaces \cup {"evict"}
      BY <1>4, <2>3 DEF TypeOK, CreateLock, LockOwned
    <3>3. LookSound'
      BY <1>4, <2>3 DEF CreateLock, LookSound, Sound
    <3> QED BY <2>1, <3>1, <3>2, <3>3 DEF LockOwned, Dead
  <2> QED BY <2>2, <2>3
<1>5. ASSUME NEW p \in Procs, FillLock(p) PROVE GateOwned' /\ LockOwned' /\ LookSound'
  <2>1. GateOwned'
    BY <1>5, GateStays DEF TypeOK, FillLock
  <2>2. lock # NoFile /\ lock.owner = p /\ ~Dead(p)
    BY <1>5 DEF FillLock, LockOwned, Dead
  <2>3. lock' # NoFile /\ lock'.owner = p /\ lock'.written /\ ~lock'.old /\ at'[p] = "load"
    <3>1. lock' = Filled(lock, p) /\ at'[p] = "load"
      BY <1>5 DEF TypeOK, FillLock
    <3>2. lock \in LockFiles /\ lock' = [lock EXCEPT !.written = TRUE, !.old = FALSE]
      BY <2>2, <3>1, Owners DEF Filled
    <3>3. lock' # NoFile /\ lock'.owner = lock.owner /\ lock'.written /\ ~lock'.old
      BY <3>2 DEF LockFiles
    <3> QED BY <2>2, <3>1, <3>3
  <2>4. \A q \in Procs \ {p} : at'[q] = at[q] /\ at[q] \notin HeldPlaces \cup {"evict"}
    BY <1>5, <2>2 DEF TypeOK, FillLock, LockOwned
  <2>5. LookSound'
    BY <1>5, <2>2, <2>3 DEF FillLock, LookSound, Sound
  <2> QED BY <2>1, <2>3, <2>4, <2>5 DEF LockOwned, Dead
<1>6. ASSUME NEW p \in Procs, FillFails(p) \/ UnlinkLock(p)
      PROVE  GateOwned' /\ LockOwned' /\ LookSound'
  <2>1. GateOwned'
    BY <1>6, GateStays DEF TypeOK, FillFails, UnlinkLock
  <2>2. lock.owner = p /\ lock' = NoFile /\ at'[p] = "idle" /\ ~Dead(p)
    BY <1>6 DEF TypeOK, FillFails, UnlinkLock, LockOwned, LockGone, Dead
  <2>3. \A q \in Procs \ {p} : at'[q] = at[q] /\ at[q] \notin HeldPlaces \cup {"evict"}
    BY <1>6, <2>2 DEF TypeOK, FillFails, UnlinkLock, LockOwned
  <2>4. LookSound'
    BY <1>6, LooksGone DEF FillFails, UnlinkLock
  <2> QED BY <2>1, <2>2, <2>3, <2>4 DEF LockOwned, Dead
<1>7. ASSUME NEW p \in Procs, OpenGate(p) PROVE GateOwned' /\ LockOwned' /\ LookSound'
  <2>1. LockOwned' /\ LookSound'
    BY <1>7, LockStays, LooksStay DEF TypeOK, OpenGate
  <2>2. CASE gate # NoFile
    BY <1>7, <2>1, <2>2, GateStays DEF TypeOK, OpenGate
  <2>3. CASE gate = NoFile
    <3>1. gate' # NoFile /\ gate'.owner = p /\ ~gate'.old /\ at'[p] = "fillGate"
      BY <1>7, <2>3, FilesTyped DEF TypeOK, OpenGate, Opened
    <3>2. \A q \in Procs \ {p} : at'[q] = at[q] /\ at[q] \notin GatePlaces
      BY <1>7, <2>3 DEF TypeOK, OpenGate, GateOwned
    <3> QED BY <2>1, <3>1, <3>2 DEF GateOwned
  <2> QED BY <2>2, <2>3
<1>8. ASSUME NEW p \in Procs, FillGate(p) PROVE GateOwned' /\ LockOwned' /\ LookSound'
  <2>1. LockOwned' /\ LookSound'
    BY <1>8, LockStays, LooksStay DEF TypeOK, FillGate
  <2>2. gate # NoFile /\ gate.owner = p
    BY <1>8 DEF FillGate, GateOwned
  <2>3. gate' # NoFile /\ gate'.owner = p /\ ~gate'.old /\ at'[p] = "inspect"
    <3>1. gate' = Filled(gate, p) /\ at'[p] = "inspect"
      BY <1>8 DEF TypeOK, FillGate
    <3>2. gate \in LockFiles /\ gate' = [gate EXCEPT !.written = TRUE, !.old = FALSE]
      BY <2>2, <3>1, Owners DEF Filled
    <3>3. gate' # NoFile /\ gate'.owner = gate.owner /\ gate'.written /\ ~gate'.old
      BY <3>2 DEF LockFiles
    <3> QED BY <2>2, <3>1, <3>3
  <2>4. \A q \in Procs \ {p} : at'[q] = at[q] /\ at[q] \notin GatePlaces
    BY <1>8, <2>2 DEF TypeOK, FillGate, GateOwned
  <2> QED BY <2>1, <2>3, <2>4 DEF GateOwned
<1>9. ASSUME NEW p \in Procs, ReadSource(p) \/ StatLock(p)
      PROVE  GateOwned' /\ LockOwned' /\ LookSound'
  <2>1. /\ UNCHANGED locks /\ at[p] = "inspect" /\ at'[p] \in {"inspect", "leave"}
        /\ \A q \in Procs \ {p} : at'[q] = at[q]
    BY <1>9 DEF TypeOK, ReadSource, StatLock
  <2>2. GateOwned' /\ LockOwned'
    BY <2>1, GateStays, LockStays
  <2>3. CASE lock = NoFile
    <3>1. Forget(p)
      BY <1>9, <2>3 DEF ReadSource, StatLock
    <3> QED BY <2>1, <2>2, <3>1, LookAlone, Forgotten
  <2>4. CASE lock # NoFile
    <3>1. \A q \in Procs \ {p} :
            fresh'[q] = fresh[q] /\ source'[q] = source[q] /\ stamp'[q] = stamp[q]
      BY <1>9, <2>4 DEF TypeOK, ReadSource, StatLock
    <3>2. ASSUME fresh'[p], ReadSource(p) PROVE Sound(p)'
      <4>1. /\ source'[p] = IF lock.written THEN lock.owner ELSE "empty"
            /\ stamp'[p] = stamp[p] /\ (fresh[p] \/ stamp[p] = "unread")
        BY <2>4, <3>2 DEF TypeOK, ReadSource
      <4>2. stamp[p] = "old" /\ ~lock.written => Dead(lock.owner)
        BY <4>1 DEF LookSound, Sound
      <4>3. lock.old /\ ~lock.written => Dead(lock.owner)
        BY <2>4 DEF LockOwned
      <4>4. lock.owner \in Procs /\ (Dead(lock.owner) <=> Dead(lock.owner)')
        BY <2>1, <2>4, Owners DEF Dead
      <4> QED BY <2>1, <2>4, <4>1, <4>2, <4>3, <4>4 DEF Sound
    <3>3. ASSUME fresh'[p], StatLock(p) PROVE Sound(p)'
      <4>1. /\ stamp'[p] = IF lock.old THEN "old" ELSE "young"
            /\ source'[p] = source[p] /\ (fresh[p] \/ source[p] = "unread")
        BY <2>4, <3>3 DEF TypeOK, StatLock
      <4>2. /\ source[p] \in Procs => source[p] = lock.owner
            /\ source[p] = "empty" /\ lock.old => Dead(lock.owner)
        BY <4>1 DEF LookSound, Sound
      <4>3. lock.old /\ ~lock.written => Dead(lock.owner)
        BY <2>4 DEF LockOwned
      <4>4. lock.owner \in Procs /\ (Dead(lock.owner) <=> Dead(lock.owner)')
        BY <2>1, <2>4, Owners DEF Dead
      <4> QED BY <2>1, <2>4, <4>1, <4>2, <4>3, <4>4 DEF Sound
    <3> QED BY <1>9, <2>1, <2>2, <3>1, <3>2, <3>3, LookAlone
  <2> QED BY <2>3, <2>4
<1>10. ASSUME NEW p \in Procs, Judge(p) PROVE GateOwned' /\ LockOwned' /\ LookSound'
  <2>1. /\ UNCHANGED locks /\ at[p] = "inspect" /\ at'[p] \in {"evict", "leave"}
        /\ \A q \in Procs \ {p} : at'[q] = at[q]
    BY <1>10 DEF TypeOK, Judge, Decide
  <2>2. GateOwned'
    BY <2>1, GateStays
  <2>3. LookSound'
    BY <1>10, <2>1, LookAlone, Forgotten DEF Judge, Decide
  <2>4. CASE at'[p] # "evict"
    BY <2>1, <2>2, <2>3, <2>4, LockStays
  <2>5. CASE at'[p] = "evict"
    <3>1. IF source[p] = "empty" THEN stamp[p] = "old" ELSE Dead(source[p])
      BY <1>10, <2>5 DEF TypeOK, Judge, Decide
    <3>2. fresh[p]
      BY <1>10, <3>1 DEF Judge, Decide, Undisturbed
    <3>3. source[p] \in Procs \cup {"empty"}
      BY <1>10 DEF TypeOK, Judge, Decide
    <3>4. lock # NoFile /\ at[lock.owner] = "dead" /\ lock.owner \in Procs
      BY <3>1, <3>2, <3>3, Owners DEF LookSound, Sound, Dead
    <3> QED BY <2>1, <2>2, <2>3, <2>5, <3>4 DEF LockOwned, Dead
  <2> QED BY <2>4, <2>5
<1>11. ASSUME NEW p \in Procs, EvictLock(p) PROVE GateOwned' /\ LockOwned' /\ LookSound'
  <2>1. GateOwned'
    BY <1>11, GateStays DEF TypeOK, EvictLock
  <2>2. lock # NoFile /\ at[lock.owner] = "dead" /\ lock' = NoFile /\ at'[p] = "leave"
    BY <1>11 DEF TypeOK, EvictLock, LockGone, LockOwned, Dead
  <2>3. \A q \in Procs \ {p} : at'[q] = at[q] /\ at[q] \notin HeldPlaces \cup {"evict"}
    <3>1. \A q \in Procs \ {p} : at'[q] = at[q] /\ at[q] # "evict"
      BY <1>11 DEF TypeOK, EvictLock, GateOwned
    <3>2. \A q \in Procs : at[q] \notin HeldPlaces
      BY <2>2 DEF LockOwned
    <3> QED BY <3>1, <3>2
  <2>4. LookSound'
    BY <1>11, LooksGone DEF EvictLock
  <2> QED BY <2>1, <2>2, <2>3, <2>4 DEF LockOwned, Dead
<1>12. ASSUME NEW p \in Procs, LeaveGate(p) PROVE GateOwned' /\ LockOwned' /\ LookSound'
  <2>1. LockOwned' /\ LookSound'
    BY <1>12, LockStays, LooksStay DEF TypeOK, LeaveGate
  <2>2. gate' = NoFile /\ at'[p] = "gate"
    BY <1>12 DEF TypeOK, LeaveGate
  <2>3. \A q \in Procs \ {p} : at'[q] = at[q] /\ at[q] \notin GatePlaces
    BY <1>12 DEF TypeOK, LeaveGate, GateOwned
  <2> QED BY <2>1, <2>2, <2>3 DEF GateOwned
<1>13. ASSUME NEW p \in Procs, Load(p) \/ Commit(p) \/ Abstain(p) \/ MarkCorrupt(p) \/ Quarantine(p)
                \/ SealMarker(p) \/ ReadOwnLock(p) \/ ReleaseFails(p)
       PROVE  GateOwned' /\ LockOwned' /\ LookSound'
  <2>1. UNCHANGED <<looks, locks>> /\ \A q \in Procs \ {p} : at'[q] = at[q]
    BY <1>13 DEF TypeOK, Load, Commit, Abstain, MarkCorrupt, Quarantine, SealMarker, ReadOwnLock,
       ReleaseFails
  <2>2. at[p] \in HeldPlaces \ {"fill"}
    BY <1>13 DEF Load, Commit, Abstain, MarkCorrupt, Quarantine, SealMarker, ReadOwnLock,
       ReleaseFails
  <2>3. at'[p] \in (HeldPlaces \ {"fill"}) \cup {"idle"}
    BY <1>13, <2>2 DEF TypeOK, Load, Commit, Abstain, MarkCorrupt, Quarantine, SealMarker,
       ReadOwnLock, ReleaseFails
  <2> QED BY <2>1, <2>2, <2>3, GateStays, LockStays, LooksStay
<1>14. ASSUME NEW p \in Procs, Crash(p) PROVE GateOwned' /\ LockOwned' /\ LookSound'
  <2>1. at[p] \notin GatePlaces /\ at'[p] = "dead" /\ UNCHANGED locks
    BY <1>14 DEF Crash, Undisturbed, TypeOK
  <2>2. \A q \in Procs \ {p} : at'[q] = at[q]
    BY <1>14 DEF Crash, TypeOK
  <2>3. GateOwned'
    BY <2>1, <2>2, GateStays
  <2>4. LookSound'
    BY <1>14, <2>1, <2>2, LookAlone, Forgotten DEF Crash
  <2> QED BY <2>1, <2>2, <2>3, <2>4, Owners DEF LockOwned, Dead
<1>15. CASE AgeLock
  <2>1. lock # NoFile /\ lock' = [lock EXCEPT !.old = TRUE] /\ UNCHANGED <<at, looks, gate>>
    BY <1>15 DEF AgeLock
  <2>2. lock' # NoFile /\ lock'.owner = lock.owner /\ lock'.written = lock.written
    BY <2>1, Owners, OldFiles
  <2>3. ~HeldUp
    BY <1>15 DEF TypeOK, AgeLock, Stall, Undisturbed
  <2>4. ~lock.written => Dead(lock.owner)
    BY <2>3 DEF HeldUp
  <2>5. \A p \in Procs : fresh[p] /\ source[p] = "empty" => Dead(lock.owner)
    BY <2>3 DEF HeldUp
  <2>6. GateOwned'
    BY <2>1 DEF GateOwned
  <2>7. LockOwned'
    BY <2>1, <2>2, <2>4 DEF LockOwned, Dead
  <2>8. LookSound'
    BY <2>1, <2>2, <2>4, <2>5 DEF LookSound, Sound, Dead
  <2> QED BY <2>6, <2>7, <2>8
<1>16. CASE AgeGate
  BY <1>16 DEF TypeOK, AgeGate, Stall, Undisturbed, GateOwned, Dead
<1>17. ASSUME NEW p \in Procs, AgeStamp(p) PROVE GateOwned' /\ LockOwned' /\ LookSound'
  <2>1. UNCHANGED <<at, locks>>
    BY <1>17 DEF AgeStamp
  <2>2. fresh[p] => Dead(lock.owner)
    BY <1>17 DEF TypeOK, AgeStamp, Stall, Undisturbed
  <2>3. \A q \in Procs \ {p} :
          fresh'[q] = fresh[q] /\ source'[q] = source[q] /\ stamp'[q] = stamp[q]
    BY <1>17 DEF TypeOK, AgeStamp
  <2>4. fresh'[p] => Sound(p)'
    BY <1>17, <2>1, <2>2 DEF AgeStamp, LookSound, Sound, Dead
  <2>5. LookSound'
    BY <2>1, <2>3, <2>4, LookAlone
  <2> QED BY <2>1, <2>5 DEF GateOwned, LockOwned, Dead
<1>18. CASE Corrupt
  BY <1>18, LooksStay DEF Corrupt, GateOwned, LockOwned, Dead
<1>19. CASE UNCHANGED vars
  BY <1>19, LooksStay DEF GateOwned, LockOwned, Dead
<1> QED BY <1>1, <1>2, <1>3, <1>4, <1>5, <1>6, <1>7, <1>8, <1>9, <1>10, <1>11, <1>12, <1>13,
           <1>14, <1>15, <1>16, <1>17, <1>18, <1>19 DEF Next, Acquire, Update

\* acquireLock lets one process at a time through, however many contend and die at the
\* lock itself, as long as none dies with its gate in place, no live one's empty file
\* passes for 5 s old, and none evicts by what it read of a file that was replaced since.
THEOREM Exclusion == Spec => []ExclusiveUpdates
<1>1. Init => TypeOK /\ OneOwner
  BY TypeInit DEF Init, OneOwner, GateOwned, LockOwned, LookSound, GatePlaces, HeldPlaces
<1>2. OneOwner => ExclusiveUpdates
  BY DEF OneOwner, LockOwned, ExclusiveUpdates
<1> QED BY <1>1, <1>2, TypeStep, OwnerStep, PTL DEF Spec

----------------------------------------------------------------------------
(* What the lock protects *)

\* Every step keeps what the holder of the lock knows of the file.
LEMMA ValueStep == TypeOK /\ OneOwner /\ OneValue /\ [Next]_vars => OneValue'
<1> SUFFICES ASSUME TypeOK, LockOwned, HolderKnows, marker # "none" => file.health # "ok",
                    Undisturbed, Undisturbed', [Next]_vars
             PROVE  HolderKnows' /\ (marker' # "none" => file'.health # "ok")
  BY DisturbedForGood DEF OneOwner, OneValue
<1> USE DEF vars, looks, locks, data, faults, HolderKnows, Go
<1>0. \A p, q \in Procs : at[p] \in HeldPlaces /\ at[q] \in HeldPlaces => p = q
  BY DEF LockOwned
<1>1. ASSUME NEW p \in Procs, Acquire(p) \/ Begin(p) \/ GiveUp(p) \/ FillFails(p) \/ ReleaseFails(p)
      PROVE  HolderKnows' /\ (marker' # "none" => file'.health # "ok")
  <2>1. UNCHANGED data /\ \A q \in Procs \ {p} : at'[q] = at[q]
    BY <1>1 DEF TypeOK, Acquire, CheckGate, CompareGate, UnlinkGate, CreateLock, FillLock,
       OpenGate, FillGate, ReadSource, StatLock, Judge, Decide, EvictLock, LeaveGate, Begin, GiveUp,
       FillFails, ReleaseFails
  <2>2. at'[p] \notin {"mutate", "mark", "quarantine", "seal"}
    BY <1>1 DEF TypeOK, Acquire, CheckGate, CompareGate, UnlinkGate, CreateLock, FillLock,
       OpenGate, FillGate, ReadSource, StatLock, Judge, Decide, EvictLock, LeaveGate, Begin, GiveUp,
       FillFails, ReleaseFails
  <2> QED BY <2>1, <2>2
<1>2. ASSUME NEW p \in Procs, Load(p)
      PROVE  HolderKnows' /\ (marker' # "none" => file'.health # "ok")
  BY <1>2 DEF TypeOK, Load
<1>3. ASSUME NEW p \in Procs, Commit(p)
      PROVE  HolderKnows' /\ (marker' # "none" => file'.health # "ok")
  BY <1>0, <1>3 DEF TypeOK, Commit, HeldPlaces
<1>4. ASSUME NEW p \in Procs, Abstain(p)
      PROVE  HolderKnows' /\ (marker' # "none" => file'.health # "ok")
  BY <1>4 DEF TypeOK, Abstain
<1>5. ASSUME NEW p \in Procs, MarkCorrupt(p)
      PROVE  HolderKnows' /\ (marker' # "none" => file'.health # "ok")
  BY <1>0, <1>5 DEF TypeOK, MarkCorrupt, HeldPlaces
<1>6. ASSUME NEW p \in Procs, Quarantine(p) \/ SealMarker(p)
      PROVE  HolderKnows' /\ (marker' # "none" => file'.health # "ok")
  BY <1>0, <1>6 DEF TypeOK, Quarantine, SealMarker, HeldPlaces
<1>7. ASSUME NEW p \in Procs, ReadOwnLock(p) \/ UnlinkLock(p) \/ Crash(p)
      PROVE  HolderKnows' /\ (marker' # "none" => file'.health # "ok")
  BY <1>7 DEF TypeOK, ReadOwnLock, UnlinkLock, Crash
<1>8. ASSUME NEW p \in Procs, AgeStamp(p)
      PROVE  HolderKnows' /\ (marker' # "none" => file'.health # "ok")
  BY <1>8 DEF AgeStamp
<1>9. CASE Corrupt
  BY <1>9 DEF TypeOK, Corrupt
<1>10. CASE UNCHANGED vars
  BY <1>10
<1>11. CASE AgeLock \/ AgeGate
  BY <1>11 DEF AgeLock, AgeGate
<1> QED BY <1>1, <1>2, <1>3, <1>4, <1>5, <1>6, <1>7, <1>8, <1>9, <1>10, <1>11 DEF Next, Update

\* Undisturbed, an update is written over the value that was there, never over an older
\* one, and never over a file that was marked as damaged.
THEOREM NothingLost == Spec => NoLostUpdate
<1> DEFINE IInv == TypeOK /\ OneOwner /\ OneValue
<1>1. Init => IInv
  BY TypeInit DEF Init, OneOwner, GateOwned, LockOwned, LookSound, GatePlaces, HeldPlaces,
     OneValue, HolderKnows
<1>2. IInv /\ [Next]_vars => IInv'
  BY TypeStep, OwnerStep, ValueStep
<1>3. ASSUME IInv, [Next]_vars, Undisturbed, file'.health = "ok"
      PROVE  file.holds \subseteq file'.holds /\ marker = "none"
  <2>1. HolderKnows /\ (marker # "none" => file.health # "ok")
    BY <1>3 DEF OneValue
  <2>2. ASSUME NEW p \in Procs, Commit(p)
        PROVE  file.holds \subseteq file'.holds /\ marker = "none"
    BY <1>3, <2>1, <2>2 DEF HolderKnows, Commit, TypeOK
  <2>3. ASSUME file' = file PROVE file.holds \subseteq file'.holds /\ marker = "none"
    BY <1>3, <2>1, <2>3
  <2>4. \/ \E p \in Procs : Commit(p) \/ Quarantine(p)
        \/ Corrupt
        \/ file' = file
    BY <1>3 DEF Next, vars, data, Acquire, CheckGate, CompareGate, UnlinkGate, CreateLock,
       FillLock, OpenGate, FillGate, ReadSource, StatLock, Judge, Decide, EvictLock, LeaveGate, Update,
       Load, Abstain, MarkCorrupt, SealMarker, ReadOwnLock, UnlinkLock, Begin, GiveUp, FillFails,
       ReleaseFails, Crash, AgeStamp, AgeLock, AgeGate
  <2>5. ASSUME Corrupt \/ \E p \in Procs : Quarantine(p) PROVE FALSE
    BY <1>3, <2>5 DEF Corrupt, Quarantine, TypeOK
  <2> QED BY <2>2, <2>3, <2>4, <2>5
<1>4. IInv /\ [Next]_vars
        => [Undisturbed /\ file'.health = "ok" => file.holds \subseteq file'.holds /\ marker = "none"]_vars
  BY <1>3
<1> QED BY <1>1, <1>2, <1>4, PTL DEF Spec, NoLostUpdate
=============================================================================
