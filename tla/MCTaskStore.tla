---------------------------- MODULE MCTaskStore ----------------------------
(* Small instances of TaskStore: a background task whose completion wakes a
   review task, and an ordinary routed task. *)
EXTENDS TaskStore, TLC

CONSTANTS t1, t2, o1, o2, x1, s1, s2

OneExecutor == [t \in Tasks |-> x1]
EvenPriority == [t \in Tasks |-> 50]
UrgentFirst == (t1 :> 50) @@ (t2 :> 90)
HomeSession == [t \in Tasks |-> s1]
Reviewed == (t1 :> t2) @@ (t2 :> NoTask)
Unreviewed == [t \in Tasks |-> NoTask]
ShortBackoff == [n \in Attempts |-> 1]

OwnerSymmetry == Permutations(Owners)
=============================================================================
