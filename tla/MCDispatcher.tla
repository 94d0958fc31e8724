---------------------------- MODULE MCDispatcher ----------------------------
(* An instance of Dispatcher for TLC: Tasks 1 and 3 share a Session and rank  *)
(* above Task 2, which has another.  Task 3 corrects Task 1, and both are      *)
(* urgent for Task 2.                                                          *)
EXTENDS Dispatcher

MCTasks == 1..3
MCHomes == {<<"A", "B", "A">>}
MCPriority == [t \in MCTasks |-> IF t = 2 THEN 1 ELSE 2]
MCOwned == MCTasks
MCKnown == {1}
MCTurns == {{"shell"}, {"shell", "other"}}
=============================================================================
