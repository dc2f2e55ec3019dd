------------------------ MODULE MC_DbWriteCoordinator ------------------------
(* Instances of DbWriteCoordinator for TLC. *)
EXTENDS DbWriteCoordinator, TLC

CONSTANTS f1, f2, f3, p1, r1, m1

(* Three tool calls against an embedding persist and its retry callback.    *)
PersistJobs == {f1, f2, f3, p1, r1}
PersistBackground == {p1, r1}
PersistCallback == [j \in Jobs |-> IF j = p1 THEN r1 ELSE NoJob]

(* A tool call, the persist and its callback, and a checkpoint.             *)
CheckpointJobs == {f1, p1, r1, m1}
CheckpointBackground == {p1, r1, m1}
CheckpointMaintenance == {m1}

NoMaintenance == {}

(* Tool calls differ in nothing but their names.                            *)
ToolCalls == Permutations({f1, f2, f3})
=============================================================================
