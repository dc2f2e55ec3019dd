----------------------------- MODULE MC_Memories -----------------------------
(***************************************************************************)
(* Memories and their relations, and the tags memories are filed under.    *)
(* The two share no variable, so one of them runs in a behaviour and the   *)
(* other stands still in one initial state.                                *)
(***************************************************************************)
EXTENDS MC_MemoryGraph, MC_TagCatalog

VARIABLE part

memoriesVars == <<part, gvars, tagVars>>

GraphIdle ==
  /\ db = SeedDb(0, {}, FALSE)
  /\ job = [c \in Callers |-> Idle]
  /\ direct = FALSE /\ calls = 0

MemoriesInit ==
  /\ part \in {"graph", "tags"}
  /\ IF part = "graph" THEN GraphInit ELSE GraphIdle
  /\ TagInit

MemoriesNext ==
  \/ part = "graph" /\ GraphNext /\ UNCHANGED <<part, tagVars>>
  \/ part = "tags" /\ TagNext /\ UNCHANGED <<part, gvars>>

MemoriesSpec == MemoriesInit /\ [][MemoriesNext]_memoriesVars
=============================================================================
