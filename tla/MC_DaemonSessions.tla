--------------------------- MODULE MC_DaemonSessions ---------------------------
(* Instances of DaemonSessions for TLC. *)
EXTENDS DaemonSessions

CONSTANT a1

(* One adapter, which may drop its connection and say hello on another.     *)
OneAdapter == [c \in Conns |-> a1]
=============================================================================
