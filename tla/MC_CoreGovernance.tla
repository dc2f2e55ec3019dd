--------------------------- MODULE MC_CoreGovernance ---------------------------
(* Instances of CoreGovernance for TLC. *)
EXTENDS CoreGovernance, TLC

(* A short reason, and a long one in which a secret is replaced by a longer *)
(* placeholder.                                                             *)
PlainNote == {[raw |-> 5, kept |-> 5]}
TwoNotes == {[raw |-> 5, kept |-> 5], [raw |-> 40, kept |-> 46]}

Alike == Permutations(Memories)
=============================================================================
