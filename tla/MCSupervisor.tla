---------------------------- MODULE MCSupervisor ----------------------------
(* Instances of Supervisor for TLC: a reader, a codex writer and a mimi       *)
(* writer, which may try twice.                                               *)
EXTENDS Supervisor

MCTasks == 1..3
MCWriters == {2, 3}
MCCodex == {2}
MCMaxAttempts == [t \in MCTasks |-> IF t = 3 THEN 2 ELSE 1]
MCProcs == 1..3
=============================================================================
