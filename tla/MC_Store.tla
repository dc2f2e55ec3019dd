------------------------------- MODULE MC_Store -------------------------------
(***************************************************************************)
(* The database beneath the memories: the coordinator through which all    *)
(* writes go, the schema a daemon brings up to date before it opens the    *)
(* coordinator, and the registry of embedding generations.  They share no  *)
(* variable, so one of them runs in a behaviour and the others stand still *)
(* in one initial state.                                                   *)
(***************************************************************************)
EXTENDS MC_DbWriteCoordinator, SchemaMigration, EmbeddingGenerations

VARIABLE part

storeVars == <<part, vars, mvars, genVars>>

MigIdle ==
  /\ disk = Found(NewDatabase, <<>>)
  /\ pending = disk
  /\ boot = [at |-> "down", ext |-> TRUE]
  /\ tally = [starts |-> 0, errors |-> 0, served |-> 0]
  /\ past = [rows |-> disk.rel, archived |-> {}]

GenIdle ==
  /\ gens = [g \in Generations |-> Unregistered(CHOOSE s \in GenSpecs : TRUE)]
  /\ switches = <<>>
  /\ verdict = [ok |-> FALSE, gen |-> NoGen, spec |-> CHOOSE s \in GenSpecs : TRUE]

StoreInit ==
  /\ part \in {"writer", "schema", "generations"}
  /\ Init
  /\ IF part = "schema" THEN MigInit ELSE MigIdle
  /\ IF part = "generations" THEN GenInit ELSE GenIdle

\* Only the writer must always have something to do or have ended well.
StoreNext ==
  \/ part = "writer" /\ Next /\ UNCHANGED <<part, mvars, genVars>>
  \/ part = "schema" /\ MigNext /\ UNCHANGED <<part, vars, genVars>>
  \/ part = "generations" /\ GenNext /\ UNCHANGED <<part, vars, mvars>>
  \/ part # "writer" /\ UNCHANGED storeVars

StoreSpec == StoreInit /\ [][StoreNext]_storeVars
=============================================================================
