----------------------------- MODULE MC_EmbedJobs -----------------------------
(* Instances of EmbedJobs for TLC. *)
EXTENDS EmbedJobs, TLC

(* Tasks, and texts, differ in nothing but their names.                     *)
Alike == Permutations(Tasks) \cup Permutations(Texts)
=============================================================================
