------------------------ MODULE DurableRecords_proofs ------------------------
(***************************************************************************)
(* Five records that outlive the processes that write them, for any number *)
(* of entries, starts and kills: the registry of embedding generations,    *)
(* the database that a startup brings to its present schema, the ledger of *)
(* a retrieval experiment, the files its judging goes through, and the     *)
(* artifacts of a preregistered two-arm confirmation.                      *)
(*                                                                         *)
(* GenInv adds to GenerationsSound the types and that a verdict names a    *)
(* registered generation; without them a recorded vector could not be told *)
(* from a write to the active generation.  MigInv says how far the open    *)
(* transaction is when it marks version 3, and KeptInv what the committed  *)
(* database and the open transaction keep of every row ever written.       *)
(* LedgerInv says what each step of the one orchestrator that holds the    *)
(* lock finds on disk.  JudgingInv ties each file of the judging to the    *)
(* one it was made from.  FreshInv says that every set of grades on file   *)
(* is what the panel told, and that a decision keeps the evidence it was   *)
(* computed from.                                                          *)
(***************************************************************************)
EXTENDS EmbeddingGenerations, SchemaMigration, BakeoffLedger, BakeoffJudging, FreshDevelopment,
        FiniteSetTheorems, SequenceTheorems, WellFoundedInduction, TLAPS

GenRows == [state : {"none", "building", "ready", "active"}, spec : GenSpecs,
            expected : Nat, rows : SUBSET GenSources, health : BOOLEAN]

GenTypes ==
  /\ gens \in [Generations -> GenRows]
  /\ switches \in Seq([gen : Generations, prev : Generations \cup {NoGen}])
  /\ verdict \in [ok : BOOLEAN, gen : Generations \cup {NoGen}, spec : GenSpecs]
  /\ verdict.ok => verdict.gen \in Generations

Chained ==
  \A i \in 1..Len(switches) :
    switches[i].prev = IF i = 1 \/ switches[i - 1].gen = switches[i].gen THEN NoGen
                       ELSE switches[i - 1].gen

LastActive == Actives = IF switches = <<>> THEN {} ELSE {switches[Len(switches)].gen}

AllComplete == \A g \in Actives : Complete(g)

GenInv == GenTypes /\ LastActive /\ Chained /\ AllComplete /\ GuardStands

(* A set with at most one element counts at most one.                       *)
LEMMA AtMostOne ==
  ASSUME NEW S, NEW x, S = {} \/ S = {x}
  PROVE  Cardinality(S) <= 1
<1>1. CASE S = {}
  <2>1. Cardinality(S) = 0
    BY <1>1, FS_EmptySet, Zenon
  <2> QED BY <2>1
<1>2. CASE S = {x}
  <2>1. Cardinality(S) = 1
    BY <1>2, FS_Singleton, Zenon
  <2> QED BY <2>1
<1> QED BY <1>1, <1>2

(* The last entry of a sequence is one of its values.                       *)
LEMMA LastIsMember ==
  ASSUME NEW E, NEW s \in Seq(E), s # <<>>
  PROVE  s[Len(s)] \in E
<1>1. Len(s) \in 1..Len(s)
  OBVIOUS
<1> QED BY <1>1

(* What the invariant says is what the registry promises.                   *)
LEMMA GenInvSound == GenInv => GenerationsSound
<1> SUFFICES ASSUME GenInv PROVE GenerationsSound
  OBVIOUS
<1>1. Actives = {} \/ Actives = {switches[Len(switches)].gen}
  BY DEF GenInv, LastActive
<1>2. Cardinality(Actives) <= 1
  BY <1>1, AtMostOne
<1>3. DOMAIN switches = 1..Len(switches)
  BY DEF GenInv, GenTypes
<1> QED
  BY <1>2, <1>3 DEF GenInv, GenerationsSound, ActiveIsComplete, AllComplete, SwitchesChain,
     LastActive, Chained

(* A step that leaves the log alone and keeps every active row and every    *)
(* specification keeps the rest.                                            *)
LEMMA RowStep ==
  ASSUME GenInv, gens' \in [Generations -> GenRows], UNCHANGED <<switches, verdict>>,
         \A g \in Generations :
            /\ gens[g].state = "active" => gens'[g] = gens[g]
            /\ gens'[g].state = "active" => gens[g].state = "active"
            /\ gens[g].state \in {"active", "ready"} =>
                 gens'[g].spec = gens[g].spec /\ gens'[g].state = gens[g].state
  PROVE  GenInv'
<1>1. Actives' = Actives
  BY DEF Actives
<1>2. AllComplete'
  BY <1>1 DEF GenInv, AllComplete, Complete, Embedded, Actives
<1>3. GuardStands'
  BY DEF GenInv, GenTypes, GuardStands
<1>4. GenTypes' /\ LastActive' /\ Chained'
  BY <1>1 DEF GenInv, GenTypes, LastActive, Chained
<1> QED BY <1>2, <1>3, <1>4 DEF GenInv

(* Activation appends to the chain and leaves one active generation.        *)
LEMMA SwitchStep == GenInv /\ ActivateGeneration => GenInv'
<1> SUFFICES ASSUME GenInv, ActivateGeneration PROVE GenInv'
  OBVIOUS
<1>1. PICK g \in Generations :
        /\ gens[g].state \in {"ready", "active"} /\ Complete(g)
        /\ gens' = Switched(g)
        /\ switches' = Append(switches, [gen |-> g, prev |-> Previous(g)])
  BY DEF ActivateGeneration
<1>2. gens \in [Generations -> GenRows] /\ UNCHANGED verdict
  BY DEF GenInv, GenTypes, ActivateGeneration
<1>3. \A h \in Generations :
        /\ gens'[h] \in GenRows /\ gens'[h].spec = gens[h].spec /\ gens'[h].rows = gens[h].rows
        /\ gens'[h].expected = gens[h].expected /\ gens'[h].health = gens[h].health
        /\ gens'[h].state = IF h = g THEN "active"
                            ELSE IF gens[h].state = "active" THEN "ready" ELSE gens[h].state
  BY <1>1, <1>2 DEF Switched, GenRows
<1>4. gens' \in [Generations -> GenRows]
  BY <1>1, <1>3 DEF Switched
<1>5. Actives' = {g}
  BY <1>3 DEF Actives, GenRows
<1>6. Previous(g) = IF switches = <<>> \/ switches[Len(switches)].gen = g THEN NoGen
                    ELSE switches[Len(switches)].gen
  <2>1. CASE Actives \ {g} = {}
    BY <2>1 DEF GenInv, LastActive, Previous
  <2>2. CASE Actives \ {g} # {}
    <3>1. Actives \ {g} = {switches[Len(switches)].gen} /\ switches # <<>>
          /\ switches[Len(switches)].gen # g
      BY <2>2 DEF GenInv, LastActive
    <3> QED BY <2>2, <3>1 DEF Previous
  <2> QED BY <2>1, <2>2
<1>7. switches \in Seq([gen : Generations, prev : Generations \cup {NoGen}])
  BY DEF GenInv, GenTypes
<1>8. Previous(g) \in Generations \cup {NoGen}
  <2>1. CASE switches = <<>>
    BY <1>6, <2>1
  <2>2. CASE switches # <<>>
    <3>1. switches[Len(switches)] \in [gen : Generations, prev : Generations \cup {NoGen}]
      BY <1>7, <2>2, LastIsMember
    <3> QED BY <1>6, <3>1
  <2> QED BY <2>1, <2>2
<1>9. /\ switches' \in Seq([gen : Generations, prev : Generations \cup {NoGen}])
      /\ Len(switches') = Len(switches) + 1
      /\ switches'[Len(switches) + 1] = [gen |-> g, prev |-> Previous(g)]
      /\ \A i \in 1..Len(switches) : switches'[i] = switches[i]
  BY <1>1, <1>7, <1>8
<1>10. GenTypes'
  BY <1>2, <1>4, <1>9 DEF GenInv, GenTypes
<1>11. LastActive'
  BY <1>5, <1>9 DEF LastActive
<1>12. Chained'
  <2> SUFFICES ASSUME NEW i \in 1..Len(switches')
               PROVE  switches'[i].prev =
                        IF i = 1 \/ switches'[i - 1].gen = switches'[i].gen THEN NoGen
                        ELSE switches'[i - 1].gen
    BY DEF Chained
  <2>0. Len(switches) \in Nat /\ (switches = <<>> <=> Len(switches) = 0)
    BY <1>7
  <2>1. CASE i \in 1..Len(switches)
    <3>1. i = 1 \/ i - 1 \in 1..Len(switches)
      BY <2>0, <2>1
    <3> QED BY <1>9, <2>1, <3>1 DEF GenInv, Chained
  <2>2. CASE i = Len(switches) + 1
    <3>1. switches'[i].gen = g /\ switches'[i].prev = Previous(g)
      BY <1>9, <2>2
    <3>2. CASE Len(switches) = 0
      BY <1>6, <2>0, <2>2, <3>1, <3>2
    <3>3. CASE Len(switches) # 0
      <4>1. i - 1 = Len(switches) /\ i # 1 /\ Len(switches) \in 1..Len(switches)
        BY <2>0, <2>2, <3>3
      <4>2. switches'[i - 1] = switches[Len(switches)]
        BY <1>9, <4>1
      <4> QED BY <1>6, <2>0, <3>1, <3>3, <4>1, <4>2
    <3> QED BY <3>2, <3>3
  <2> QED BY <1>9, <2>0, <2>1, <2>2
<1>13. AllComplete'
  <2>1. Complete(g)'
    BY <1>1, <1>3 DEF Complete, Embedded
  <2> QED BY <1>5, <2>1 DEF AllComplete
<1>14. GuardStands'
  BY <1>2, <1>3 DEF GenInv, GenTypes, GuardStands
<1> QED BY <1>10, <1>11, <1>12, <1>13, <1>14 DEF GenInv

(* Every operation of embedding_generations.py keeps the invariant.         *)
LEMMA GenInvStep == GenInv /\ [GenNext]_genVars => GenInv'
<1> SUFFICES ASSUME GenInv, [GenNext]_genVars PROVE GenInv'
  OBVIOUS
<1>0. gens \in [Generations -> GenRows]
  BY DEF GenInv, GenTypes
<1>1. CASE RegisterGeneration
  <2>1. PICK g \in Generations, s \in GenSpecs, n \in 1..Cardinality(GenSources) :
          /\ gens[g].state = "none"
          /\ gens' = [gens EXCEPT ![g] = [state |-> "building", spec |-> s, expected |-> n,
                                          rows |-> {}, health |-> FALSE]]
    BY <1>1 DEF RegisterGeneration
  <2>2. [state |-> "building", spec |-> s, expected |-> n, rows |-> {}, health |-> FALSE]
          \in GenRows
    BY DEF GenRows
  <2>3. gens' \in [Generations -> GenRows]
    BY <1>0, <2>1, <2>2
  <2> QED BY <1>0, <1>1, <2>1, <2>3, RowStep DEF RegisterGeneration
<1>2. CASE RecordVector
  <2>1. PICK g \in Generations, e \in GenSources :
          gens[g].state \in Writable /\ gens' = [gens EXCEPT ![g].rows = @ \cup {e}]
    BY <1>2 DEF RecordVector
  <2>2. [gens[g] EXCEPT !.rows = @ \cup {e}] \in GenRows
    BY <1>0 DEF GenRows
  <2>3. /\ gens' \in [Generations -> GenRows]
        /\ gens'[g].state = gens[g].state /\ gens'[g].spec = gens[g].spec
        /\ \A h \in Generations \ {g} : gens'[h] = gens[h]
    BY <1>0, <2>1, <2>2 DEF GenRows
  <2> QED BY <1>0, <1>2, <2>1, <2>3, RowStep DEF RecordVector, Writable
<1>3. CASE MarkReady
  <2>1. PICK g \in Generations :
          /\ gens[g].state = "building"
          /\ gens' = [gens EXCEPT ![g].state = "ready", ![g].health = TRUE]
    BY <1>3 DEF MarkReady
  <2>2. /\ gens' \in [Generations -> GenRows] /\ gens'[g].state = "ready"
        /\ \A h \in Generations \ {g} : gens'[h] = gens[h]
    BY <1>0, <2>1 DEF GenRows
  <2> QED BY <1>0, <1>3, <2>1, <2>2, RowStep DEF MarkReady
<1>4. CASE ActivateGeneration
  BY <1>4, SwitchStep
<1>5. CASE ValidateActive
  <2>1. PICK s \in GenSpecs :
          verdict' = IF \E g \in Actives : GuardPasses(g, s)
                     THEN [ok |-> TRUE, gen |-> CHOOSE g \in Actives : GuardPasses(g, s), spec |-> s]
                     ELSE [ok |-> FALSE, gen |-> NoGen, spec |-> s]
    BY <1>5 DEF ValidateActive
  <2>2. UNCHANGED <<gens, switches>>
    BY <1>5 DEF ValidateActive
  <2>3. (verdict' \in [ok : BOOLEAN, gen : Generations \cup {NoGen}, spec : GenSpecs])
        /\ (verdict'.ok => /\ verdict'.gen \in Generations
                           /\ gens[verdict'.gen].spec = verdict'.spec
                           /\ gens[verdict'.gen].state = "active")
    <3>1. CASE \E g \in Actives : GuardPasses(g, s)
      <4>1. PICK c : c = CHOOSE g \in Actives : GuardPasses(g, s)
        OBVIOUS
      <4>2. c \in Actives /\ GuardPasses(c, s)
        BY <3>1, <4>1
      <4>3. c \in Generations /\ gens[c].state = "active" /\ gens[c].spec = s
        BY <4>2 DEF Actives, GuardPasses
      <4>4. verdict' = [ok |-> TRUE, gen |-> c, spec |-> s]
        BY <2>1, <3>1, <4>1
      <4> QED BY <4>3, <4>4
    <3>2. CASE ~ \E g \in Actives : GuardPasses(g, s)
      BY <2>1, <3>2
    <3> QED BY <3>1, <3>2
  <2>4. GenTypes' /\ GuardStands'
    BY <2>2, <2>3 DEF GenInv, GenTypes, GuardStands
  <2>5. LastActive' /\ Chained' /\ AllComplete'
    BY <2>2 DEF GenInv, LastActive, Chained, AllComplete, Actives, Complete, Embedded
  <2> QED BY <2>4, <2>5 DEF GenInv
<1>6. CASE UNCHANGED genVars
  BY <1>6 DEF genVars, GenInv, GenTypes, LastActive, Chained, AllComplete, GuardStands, Actives,
     Complete, Embedded
<1> QED BY <1>1, <1>2, <1>3, <1>4, <1>5, <1>6 DEF GenNext

(* A registry without generations keeps its promise.                        *)
LEMMA GenInvInit == GenInit => GenInv
<1> SUFFICES ASSUME GenInit PROVE GenInv
  OBVIOUS
<1>1. PICK s \in GenSpecs : gens = [g \in Generations |-> Unregistered(s)]
  BY DEF GenInit
<1>2. (CHOOSE t \in GenSpecs : TRUE) \in GenSpecs
  BY <1>1
<1>3. Unregistered(s) \in GenRows
  BY DEF Unregistered, GenRows
<1>4. GenTypes
  BY <1>1, <1>2, <1>3 DEF GenInit, GenTypes
<1>5. Actives = {}
  BY <1>1 DEF Actives, Unregistered
<1>6. LastActive /\ Chained /\ AllComplete /\ GuardStands
  BY <1>5 DEF GenInit, LastActive, Chained, AllComplete, GuardStands
<1> QED BY <1>4, <1>6 DEF GenInv

(* However generations are registered, filled, sealed, switched and rolled  *)
(* back: one complete generation is active, the log of switches is a chain  *)
(* that ends in it, and what the startup guard found stays true.            *)
THEOREM GenerationsHold == GenSpec => []GenerationsSound
<1>1. GenSpec => []GenInv
  BY GenInvInit, GenInvStep, PTL DEF GenSpec
<1> QED BY <1>1, GenInvSound, PTL

-----------------------------------------------------------------------------
(* The lifecycle migration                                                  *)

DbFields == {"shape", "rel", "linked", "archived", "vectors", "hashed", "searchable", "backlog"}
ShapeFields == {"owner", "harness", "index", "registry", "fts", "chunk", "ledger", "ver"}
Places == {"down", "init", "v1", "v2", "v3", "commit", "serving", "refused"}

IsDb(d) ==
  /\ d = [f \in DbFields |-> d[f]] /\ d.shape = [g \in ShapeFields |-> d.shape[g]]
  /\ d.shape.ver \in Nat

(* Until version 3 is marked only callers have archived.                    *)
Unarchived(d, gone) == d.shape.ver < 3 => d.archived \subseteq gone

(* The open transaction marks version 3 at its last step, and then no       *)
(* archived memory keeps a vector.                                          *)
MarksLast(d, b, at) ==
  b.shape.ver >= 3 /\ d.shape.ver < 3 => at = "commit" /\ b.archived \cap b.vectors = {}

MigInv ==
  /\ IsDb(disk) /\ IsDb(pending) /\ boot \in [at : Places, ext : BOOLEAN]
  /\ past = [f \in {"rows", "archived"} |-> past[f]]
  /\ Unarchived(disk, past.archived) /\ Unarchived(pending, past.archived)
  /\ MarksLast(disk, pending, boot.at)

(* A step that neither archives, nor drops a vector, nor marks a version.   *)
Same(d, b) ==
  /\ IsDb(b) /\ b.shape.ver = d.shape.ver /\ b.archived = d.archived /\ b.vectors = d.vectors

(* Two such steps.                                                          *)
LEMMA SameTwice == ASSUME NEW d, NEW b, NEW c, Same(d, b), Same(b, c) PROVE Same(d, c)
BY DEF Same

(* It leaves a database.                                                    *)
LEMMA SameIsDb == ASSUME NEW d, NEW b, Same(d, b) PROVE IsDb(b)
BY DEF Same

(* None.                                                                    *)
LEMMA SameDb == ASSUME NEW d, IsDb(d) PROVE Same(d, d)
BY DEF Same

(* A mark of the shape other than the version.                              *)
LEMMA ShapeSet ==
  ASSUME NEW d, IsDb(d), NEW g \in ShapeFields \ {"ver"}, NEW v, NEW b,
         b = [d EXCEPT !["shape"] = [d.shape EXCEPT ![g] = v]]
  PROVE  Same(d, b)
<1> DEFINE sh == [d.shape EXCEPT ![g] = v]
<1>1. d = [f \in DbFields |-> d[f]] /\ d.shape = [h \in ShapeFields |-> d.shape[h]] /\ d.shape.ver \in Nat
  BY DEF IsDb
<1>2. "ver" \in ShapeFields /\ "ver" # g
  BY DEF ShapeFields
<1>3. sh = [h \in ShapeFields |-> sh[h]] /\ sh.ver = d.shape.ver
  BY <1>1, <1>2
<1> HIDE DEF sh
<1>4. b = [d EXCEPT !["shape"] = sh]
  BY DEF sh
<1>5. {"shape", "archived", "vectors"} \subseteq DbFields
  BY DEF DbFields
<1>6. b = [f \in DbFields |-> b[f]] /\ b.shape = sh /\ b.archived = d.archived /\ b.vectors = d.vectors
  BY <1>1, <1>4, <1>5
<1> HIDE <1>1, <1>4
<1> QED BY <1>1, <1>3, <1>6 DEF Same, IsDb

(* A column that holds neither marks, nor archived memories, nor vectors.   *)
LEMMA FieldSet ==
  ASSUME NEW d, IsDb(d), NEW f \in DbFields \ {"shape", "archived", "vectors"}, NEW v, NEW b,
         b = [d EXCEPT ![f] = v]
  PROVE  Same(d, b)
<1>1. d = [x \in DbFields |-> d[x]] /\ d.shape = [h \in ShapeFields |-> d.shape[h]] /\ d.shape.ver \in Nat
  BY DEF IsDb
<1>2. {"shape", "archived", "vectors"} \subseteq DbFields
  BY DEF DbFields
<1>3. b = [x \in DbFields |-> b[x]] /\ b.shape = d.shape /\ b.archived = d.archived /\ b.vectors = d.vectors
  BY <1>1, <1>2
<1> QED BY <1>1, <1>3 DEF Same, IsDb

(* What the steps before the versions leave alone.                          *)
LEMMA TablesSame == ASSUME NEW d, IsDb(d) PROVE Same(d, EnsureTables(d))
<1> DEFINE d1 == RenameOwner(d)
           d2 == BackfillMetadata(d1)
           d3 == WidenHarness(d2)
           d4 == RelationIndex(d3)
           d5 == SeedRegistry(d4)
           d6 == EnsureFts(d5)
<1>0. /\ {"owner", "harness", "index", "registry", "fts"} \subseteq ShapeFields \ {"ver"}
      /\ {"hashed", "rel", "searchable"} \subseteq DbFields \ {"shape", "archived", "vectors"}
  BY DEF ShapeFields, DbFields
<1>1. Same(d, d1)
  <2>1. d1 = [d EXCEPT !["shape"] = [d.shape EXCEPT !["owner"] = "agent_id"]]
    BY DEF RenameOwner
  <2> QED BY <1>0, <2>1, ShapeSet
<1> HIDE DEF d1
<1>2. Same(d1, d2)
  <2>1. d2 = [d1 EXCEPT !["hashed"] = Notes]
    BY DEF BackfillMetadata
  <2>2. IsDb(d1)
    BY <1>1, SameIsDb
  <2> QED BY <1>0, <2>1, <2>2, FieldSet
<1> HIDE DEF d2
<1>3. Same(d2, d3)
  <2>1. d3 = [d2 EXCEPT !["shape"] = [d2.shape EXCEPT !["harness"] = "new"]]
    BY DEF WidenHarness
  <2>2. IsDb(d2)
    BY <1>2, SameIsDb
  <2> QED BY <1>0, <2>1, <2>2, ShapeSet
<1> HIDE DEF d3
<1>4. Same(d3, d4)
  <2> DEFINE rows == [i \in DedupKept(d3.rel) |-> d3.rel[i]]
             e == [d3 EXCEPT !["shape"] = [d3.shape EXCEPT !["index"] = TRUE]]
  <2>0. IsDb(d3)
    BY <1>3, SameIsDb
  <2>1. CASE d3.shape.index
    <3>1. d4 = d3
      BY <2>1 DEF RelationIndex
    <3> QED BY <2>0, <3>1, SameDb
  <2>2. CASE ~d3.shape.index
    <3>1. Same(d3, e)
      BY <1>0, <2>0, ShapeSet
    <3>2. d4 = [e EXCEPT !["rel"] = rows]
      BY <2>2 DEF RelationIndex
    <3> HIDE DEF e, rows, d4
    <3>3. Same(e, d4)
      <4>1. IsDb(e)
        BY <3>1, SameIsDb
      <4> QED BY <1>0, <3>2, <4>1, FieldSet
    <3> QED BY <3>1, <3>3, SameTwice
  <2> QED BY <2>1, <2>2
<1> HIDE DEF d4
<1>5. Same(d4, d5)
  <2> DEFINE v == IF d4.shape.registry = "none" THEN "right" ELSE d4.shape.registry
  <2>1. d5 = [d4 EXCEPT !["shape"] = [d4.shape EXCEPT !["registry"] = v]]
    BY DEF SeedRegistry
  <2> HIDE DEF v
  <2>2. IsDb(d4)
    BY <1>4, SameIsDb
  <2> QED BY <1>0, <2>1, <2>2, ShapeSet
<1> HIDE DEF d5
<1>6. Same(d5, d6)
  <2> DEFINE v == IF d5.shape.fts THEN d5.searchable ELSE Notes
             e == [d5 EXCEPT !["shape"] = [d5.shape EXCEPT !["fts"] = TRUE]]
  <2>0. IsDb(d5)
    BY <1>5, SameIsDb
  <2>1. Same(d5, e)
    BY <1>0, <2>0, ShapeSet
  <2>2. d6 = [e EXCEPT !["searchable"] = v]
    <3>1. "searchable" # "shape"
      OBVIOUS
    <3> QED BY <3>1 DEF EnsureFts
  <2> HIDE DEF e, v, d6
  <2>3. Same(e, d6)
    <3>1. IsDb(e)
      BY <2>1, SameIsDb
    <3> QED BY <1>0, <2>2, <3>1, FieldSet
  <2> QED BY <2>1, <2>3, SameTwice
<1>7. EnsureTables(d) = d6
  BY DEF EnsureTables, d1, d2, d3, d4, d5
<1> HIDE DEF d6
<1>8. Same(d, d3)
  BY <1>1, <1>2, <1>3, SameTwice
<1>9. Same(d, d6)
  BY <1>4, <1>5, <1>6, <1>8, SameTwice
<1> QED BY <1>7, <1>9

(* Nor do the vector tables, the ledger and the triggers.                   *)
LEMMA VectorsAndLedgerSame == ASSUME NEW d, IsDb(d) PROVE Same(d, EnsureVectorsAndLedger(d))
<1> DEFINE d1 == MigrateChunks(d)
           d2 == InitVectors(d1)
           d3 == EnsureLedger(d2)
<1>0. {"chunk", "ledger"} \subseteq ShapeFields \ {"ver"}
  BY DEF ShapeFields
<1>1. Same(d, d1)
  <2> DEFINE v == IF d.shape.chunk = "old" THEN "new" ELSE d.shape.chunk
  <2>1. d1 = [d EXCEPT !["shape"] = [d.shape EXCEPT !["chunk"] = v]]
    BY DEF MigrateChunks
  <2> HIDE DEF v
  <2> QED BY <1>0, <2>1, ShapeSet
<1> HIDE DEF d1
<1>2. Same(d1, d2)
  <2> DEFINE v == IF d1.shape.chunk = "absent" /\ boot.ext THEN "new" ELSE d1.shape.chunk
  <2>1. d2 = [d1 EXCEPT !["shape"] = [d1.shape EXCEPT !["chunk"] = v]]
    BY DEF InitVectors
  <2> HIDE DEF v
  <2>2. IsDb(d1)
    BY <1>1, SameIsDb
  <2> QED BY <1>0, <2>1, <2>2, ShapeSet
<1> HIDE DEF d2
<1>3. Same(d2, d3)
  <2>1. d3 = [d2 EXCEPT !["shape"] = [d2.shape EXCEPT !["ledger"] = "nullable_cwd"]]
    BY DEF EnsureLedger
  <2>2. IsDb(d2)
    BY <1>2, SameIsDb
  <2> QED BY <1>0, <2>1, <2>2, ShapeSet
<1>4. EnsureVectorsAndLedger(d) = d3
  BY DEF EnsureVectorsAndLedger, RecreateTriggers, d1, d2
<1> HIDE DEF d3
<1> QED BY <1>1, <1>2, <1>3, <1>4, SameTwice

(* What the invariant says.                                                 *)
LEMMA MigParts ==
  MigInv => /\ IsDb(disk) /\ IsDb(pending) /\ boot \in [at : Places, ext : BOOLEAN]
            /\ boot.at \in Places /\ disk.shape.ver \in Nat /\ pending.shape.ver \in Nat
            /\ Unarchived(disk, past.archived) /\ Unarchived(pending, past.archived)
            /\ MarksLast(disk, pending, boot.at)
BY DEF MigInv, IsDb

(* Startup goes on to another place.                                        *)
LEMMA GoneTo ==
  ASSUME MigInv, NEW p \in Places, Goto(p)
  PROVE  boot' \in [at : Places, ext : BOOLEAN] /\ boot'.at = p
BY MigParts DEF Goto

(* The transaction goes on with nothing archived and no version marked.     *)
LEMMA SameOK ==
  ASSUME MigInv, boot.at # "commit", Same(pending, pending'), UNCHANGED <<disk, past>>,
         boot' \in [at : Places, ext : BOOLEAN]
  PROVE  MigInv'
<1>1. /\ IsDb(pending') /\ pending'.shape.ver = pending.shape.ver /\ pending'.archived = pending.archived
  BY DEF Same
<1>2. Unarchived(pending', past'.archived)
  BY <1>1, MigParts DEF Unarchived
<1>3. MarksLast(disk, pending', boot'.at)
  BY <1>1, MigParts DEF MarksLast
<1> QED BY <1>1, <1>2, <1>3 DEF MigInv

(* The transaction marks an earlier version.                                *)
LEMMA MarkOK ==
  ASSUME MigInv, IsDb(pending'), pending'.shape.ver < 3, pending'.archived \subseteq past.archived,
         UNCHANGED <<disk, past>>, boot' \in [at : Places, ext : BOOLEAN]
  PROVE  MigInv'
<1>1. Unarchived(pending', past'.archived)
  BY DEF Unarchived
<1>2. pending'.shape.ver \in Nat
  BY DEF IsDb
<1>3. MarksLast(disk, pending', boot'.at)
  BY <1>2 DEF MarksLast
<1> QED BY <1>1, <1>3 DEF MigInv

(* No transaction is open.                                                  *)
LEMMA DiskOK ==
  ASSUME MigInv, pending' = disk', IsDb(disk'), Unarchived(disk', past'.archived),
         boot' \in [at : Places, ext : BOOLEAN], past' = [f \in {"rows", "archived"} |-> past'[f]]
  PROVE  MigInv'
<1>1. disk'.shape.ver \in Nat
  BY DEF IsDb
<1>2. MarksLast(disk', disk', boot'.at)
  BY <1>1 DEF MarksLast
<1> QED BY <1>2 DEF MigInv

(* A daemon starts.                                                         *)
LEMMA StartupOK == ASSUME MigInv, Startup PROVE MigInv'
<1>1. PICK ext \in BOOLEAN : boot' = [at |-> "init", ext |-> ext]
  BY DEF Startup
<1>2. boot' \in [at : Places, ext : BOOLEAN]
  BY <1>1 DEF Places
<1>3. pending' = disk' /\ UNCHANGED <<disk, past>>
  BY DEF Startup
<1> QED BY <1>2, <1>3, MigParts, DiskOK DEF MigInv

(* The steps before the versions.                                           *)
LEMMA EnsureSchemaOK == ASSUME MigInv, EnsureSchema PROVE MigInv'
<1>1. /\ boot.at = "init" /\ pending' = EnsureVectorsAndLedger(EnsureTables(pending)) /\ Goto("v1")
      /\ UNCHANGED <<disk, past>>
  BY DEF EnsureSchema, At
<1>2. boot' \in [at : Places, ext : BOOLEAN]
  <2>1. "v1" \in Places
    BY DEF Places
  <2> QED BY <1>1, <2>1, GoneTo
<1> DEFINE b == EnsureTables(pending)
<1>3. Same(pending, b)
  BY MigParts, TablesSame
<1> HIDE DEF b
<1>4. Same(b, EnsureVectorsAndLedger(b))
  BY <1>3, SameIsDb, VectorsAndLedgerSame
<1>5. Same(pending, pending')
  BY <1>1, <1>3, <1>4, SameTwice DEF b
<1> QED BY <1>1, <1>2, <1>5, SameOK

(* A start that is refused, and a crash.                                    *)
LEMMA DroppedOK == ASSUME MigInv, Refuse \/ Crash PROVE MigInv'
<1>1. pending' = disk' /\ UNCHANGED <<disk, past>> /\ (Goto("refused") \/ Goto("down"))
  BY DEF Refuse, Crash
<1>2. boot' \in [at : Places, ext : BOOLEAN]
  <2>1. "refused" \in Places /\ "down" \in Places
    BY DEF Places
  <2> QED BY <1>1, <2>1, GoneTo
<1> QED BY <1>1, <1>2, MigParts, DiskOK DEF MigInv

(* The database marked with a version.                                      *)
Marked(d, v) == [d EXCEPT !["shape"] = [d.shape EXCEPT !["ver"] = v]]

(* A mark archives nothing.                                                 *)
LEMMA VersionSet ==
  ASSUME NEW d, IsDb(d), NEW v \in Nat
  PROVE  /\ IsDb(Marked(d, v)) /\ Marked(d, v).shape.ver = v
         /\ Marked(d, v).archived = d.archived /\ Marked(d, v).vectors = d.vectors
<1> DEFINE b == Marked(d, v)
           sh == [d.shape EXCEPT !["ver"] = v]
<1>1. d = [f \in DbFields |-> d[f]] /\ d.shape = [h \in ShapeFields |-> d.shape[h]]
  BY DEF IsDb
<1>2. "ver" \in ShapeFields
  BY DEF ShapeFields
<1>3. sh = [h \in ShapeFields |-> sh[h]] /\ sh.ver = v
  BY <1>1, <1>2
<1> HIDE DEF sh
<1>4. b = [d EXCEPT !["shape"] = sh]
  BY DEF sh, Marked
<1> HIDE DEF b
<1>5. {"shape", "archived", "vectors"} \subseteq DbFields
  BY DEF DbFields
<1>6. b = [f \in DbFields |-> b[f]] /\ b.shape = sh /\ b.archived = d.archived /\ b.vectors = d.vectors
  BY <1>1, <1>4, <1>5
<1>7. IsDb(b)
  BY <1>3, <1>6 DEF IsDb
<1> QED BY <1>3, <1>6, <1>7 DEF b

(* Version 1: the legacy events are dismissed, or some of them.             *)
LEMMA TrackAOK == ASSUME MigInv, TrackAVersion1 PROVE MigInv'
<1>1. boot.at = "v1" /\ Goto("v2") /\ UNCHANGED <<disk, past>>
  BY DEF TrackAVersion1, At
<1>2. boot' \in [at : Places, ext : BOOLEAN]
  <2>1. "v2" \in Places
    BY DEF Places
  <2> QED BY <1>1, <2>1, GoneTo
<1>3. "backlog" \in DbFields \ {"shape", "archived", "vectors"}
  BY DEF DbFields
<1>4. CASE pending' = pending
  BY <1>1, <1>2, <1>4, MigParts, SameDb, SameOK
<1>5. CASE pending.shape.ver < 1 /\ pending' = [pending EXCEPT !.backlog = {}, !.shape.ver = 1]
  <2> DEFINE e == [pending EXCEPT !["backlog"] = {}]
  <2>1. Same(pending, e)
    BY <1>3, MigParts, FieldSet
  <2>2. pending' = Marked(e, 1)
    BY <1>5 DEF Marked
  <2> HIDE DEF e
  <2>3. IsDb(pending') /\ pending'.shape.ver = 1 /\ pending'.archived = e.archived
    <3>1. IsDb(e) /\ 1 \in Nat
      BY <2>1, SameIsDb
    <3>2. IsDb(Marked(e, 1)) /\ Marked(e, 1).shape.ver = 1 /\ Marked(e, 1).archived = e.archived
      BY <3>1, VersionSet
    <3> QED BY <2>2, <3>2
  <2>4. pending'.archived \subseteq past.archived
    BY <1>5, <2>1, <2>3, MigParts DEF Same, Unarchived
  <2> QED BY <1>1, <1>2, <2>3, <2>4, MarkOK
<1>6. CASE \E left \in SUBSET pending.backlog : pending' = [pending EXCEPT !.backlog = left]
  <2>1. PICK left \in SUBSET pending.backlog : pending' = [pending EXCEPT !["backlog"] = left]
    BY <1>6
  <2>2. Same(pending, pending')
    BY <1>3, <2>1, MigParts, FieldSet
  <2> QED BY <1>1, <1>2, <2>2, SameOK
<1> QED BY <1>4, <1>5, <1>6 DEF TrackAVersion1

(* Rows, registry and history are rewritten.                                *)
LEMMA DriftSame ==
  ASSUME NEW d, IsDb(d), NEW rel, NEW linked
  PROVE  Same(d, [d EXCEPT !.rel = rel, !.shape.registry = "right", !.linked = linked])
<1> DEFINE d1 == [d EXCEPT !["rel"] = rel]
           d2 == [d1 EXCEPT !["shape"] = [d1.shape EXCEPT !["registry"] = "right"]]
           d3 == [d2 EXCEPT !["linked"] = linked]
<1>0. /\ {"rel", "linked"} \subseteq DbFields \ {"shape", "archived", "vectors"}
      /\ "registry" \in ShapeFields \ {"ver"}
  BY DEF DbFields, ShapeFields
<1>1. [d EXCEPT !.rel = rel, !.shape.registry = "right", !.linked = linked] = d3
  OBVIOUS
<1>2. Same(d, d1)
  BY <1>0, FieldSet
<1> HIDE DEF d1
<1>3. Same(d1, d2)
  BY <1>0, <1>2, SameIsDb, ShapeSet
<1> HIDE DEF d2
<1>4. Same(d2, d3)
  BY <1>0, <1>3, SameIsDb, FieldSet
<1> HIDE DEF d3
<1> QED BY <1>1, <1>2, <1>3, <1>4, SameTwice

(* Version 2: the drifted predicates, wholly or up to an error.             *)
LEMMA PredicateOK == ASSUME MigInv, PredicateVersion PROVE MigInv'
<1>1. boot.at = "v2" /\ Goto("v3") /\ UNCHANGED <<disk, past>>
  BY DEF PredicateVersion, At
<1>2. boot' \in [at : Places, ext : BOOLEAN]
  <2>1. "v3" \in Places
    BY DEF Places
  <2> QED BY <1>1, <2>1, GoneTo
<1>3. CASE pending' = pending
  BY <1>1, <1>2, <1>3, MigParts, SameDb, SameOK
<1>4. CASE Version2Due(pending) /\ pending' = PredicateVersion2(pending)
  <2> DEFINE r == RenameAll(pending.rel)
             e == [pending EXCEPT !.rel = r, !.shape.registry = "right", !.linked = TRUE]
  <2> HIDE DEF r
  <2>1. Same(pending, e)
    BY MigParts, DriftSame
  <2>2. pending' = Marked(e, 2)
    BY <1>4 DEF PredicateVersion2, Marked, r
  <2> HIDE DEF e
  <2>3. IsDb(pending') /\ pending'.shape.ver = 2 /\ pending'.archived = e.archived
    <3>1. IsDb(e) /\ 2 \in Nat
      BY <2>1, SameIsDb
    <3>2. IsDb(Marked(e, 2)) /\ Marked(e, 2).shape.ver = 2 /\ Marked(e, 2).archived = e.archived
      BY <3>1, VersionSet
    <3> QED BY <2>2, <3>2
  <2>4. pending'.archived \subseteq past.archived
    <3>1. pending.shape.ver < 3
      BY <1>4, MigParts DEF Version2Due
    <3> QED BY <2>1, <2>3, <3>1, MigParts DEF Same, Unarchived
  <2> QED BY <1>1, <1>2, <2>3, <2>4, MarkOK
<1>5. CASE pending' \in Version2Partial(pending)
  <2>1. Same(pending, pending')
    <3>1. CASE \E rel \in RenameStages(pending.rel) : pending' = [pending EXCEPT !.rel = rel]
      <4>1. PICK rel \in RenameStages(pending.rel) : pending' = [pending EXCEPT !["rel"] = rel]
        BY <3>1
      <4>2. "rel" \in DbFields \ {"shape", "archived", "vectors"}
        BY DEF DbFields
      <4> QED BY <4>1, <4>2, MigParts, FieldSet
    <3>2. CASE \E b \in BOOLEAN :
                 pending' = [pending EXCEPT !.rel = RenameAll(@), !.shape.registry = "right", !.linked = b]
      <4> DEFINE r == RenameAll(pending.rel)
      <4>1. PICK b \in BOOLEAN :
              pending' = [pending EXCEPT !.rel = r, !.shape.registry = "right", !.linked = b]
        BY <3>2
      <4> HIDE DEF r
      <4> QED BY <4>1, MigParts, DriftSame
    <3> QED BY <1>5, <3>1, <3>2 DEF Version2Partial
  <2> QED BY <1>1, <1>2, <2>1, SameOK
<1> QED BY <1>3, <1>4, <1>5 DEF PredicateVersion

(* Version 3 completed: whoever is archived loses text row and vectors.     *)
LEMMA LifecycleSet ==
  ASSUME NEW d, IsDb(d)
  PROVE  /\ IsDb(LifecycleInvariants(d))
         /\ LifecycleInvariants(d).archived \cap LifecycleInvariants(d).vectors = {}
<1> DEFINE rel == WithoutSelf(d.rel)
           gone == d.archived \cup SafeTargets(rel)
           se == d.searchable \ gone
           ve == d.vectors \ gone
           sh == [d.shape EXCEPT !["ver"] = 3]
           b == [d EXCEPT !.rel = rel, !.archived = gone, !.searchable = se, !.vectors = ve, !.shape = sh]
<1>1. d = [f \in DbFields |-> d[f]] /\ d.shape = [h \in ShapeFields |-> d.shape[h]]
  BY DEF IsDb
<1>2. LifecycleInvariants(d) = b
  BY DEF LifecycleInvariants
<1>3. gone \cap ve = {}
  OBVIOUS
<1>4. sh = [h \in ShapeFields |-> sh[h]] /\ sh.ver = 3
  BY <1>1 DEF ShapeFields
<1> HIDE DEF rel, gone, se, ve, sh
<1>5. {"shape", "archived", "vectors"} \subseteq DbFields
  BY DEF DbFields
<1>6. b = [f \in DbFields |-> b[f]] /\ b.shape = sh /\ b.archived = gone /\ b.vectors = ve
  BY <1>1, <1>5
<1> HIDE DEF b
<1> QED BY <1>2, <1>3, <1>4, <1>6 DEF IsDb

(* Version 3: completed, or rolled back to the savepoint.                   *)
LEMMA LifecycleOK == ASSUME MigInv, LifecycleVersion PROVE MigInv'
<1>1. boot.at = "v3" /\ Goto("commit") /\ UNCHANGED <<disk, past>>
  BY DEF LifecycleVersion, At
<1>2. boot' \in [at : Places, ext : BOOLEAN] /\ boot'.at = "commit"
  <2>1. "commit" \in Places
    BY DEF Places
  <2> QED BY <1>1, <2>1, GoneTo
<1>3. CASE pending' = pending
  BY <1>1, <1>2, <1>3, MigParts, SameDb, SameOK
<1>4. CASE pending' = LifecycleInvariants(pending)
  <2>1. IsDb(pending') /\ pending'.archived \cap pending'.vectors = {}
    BY <1>4, MigParts, LifecycleSet
  <2>2. pending'.shape.ver = 3
    <3> DEFINE sh == [pending.shape EXCEPT !["ver"] = 3]
    <3>1. pending'.shape = sh
      BY <1>4, MigParts DEF LifecycleInvariants, IsDb, DbFields
    <3>2. sh.ver = 3
      BY MigParts DEF IsDb, ShapeFields
    <3> QED BY <3>1, <3>2
  <2>3. Unarchived(pending', past'.archived) /\ MarksLast(disk', pending', boot'.at)
    BY <1>2, <2>1, <2>2 DEF Unarchived, MarksLast
  <2> QED BY <1>1, <1>2, <2>1, <2>3 DEF MigInv
<1> QED BY <1>3, <1>4 DEF LifecycleVersion, RolledBack

(* The transaction is committed.                                            *)
LEMMA CommitOK == ASSUME MigInv, Commit PROVE MigInv'
<1>1. disk' = pending /\ UNCHANGED <<pending, past>> /\ Goto("serving")
  BY DEF Commit
<1>2. boot' \in [at : Places, ext : BOOLEAN]
  <2>1. "serving" \in Places
    BY DEF Places
  <2> QED BY <1>1, <2>1, GoneTo
<1>3. IsDb(disk') /\ Unarchived(disk', past'.archived) /\ pending' = disk'
  BY <1>1, MigParts
<1>4. past' = [f \in {"rows", "archived"} |-> past'[f]]
  BY <1>1 DEF MigInv
<1> QED BY <1>2, <1>3, <1>4, DiskOK

(* A caller relates two memories.                                           *)
LEMMA ServeRelationOK == ASSUME MigInv, ServeRelation PROVE MigInv'
<1>1. PICK s \in Notes, t \in Notes :
        LET r == RelRow(s, "resolves", t, TRUE)
            n == Len(past.rows) + 1
        IN  /\ disk' = [disk EXCEPT !.rel = [i \in DOMAIN @ \cup {n} |-> IF i = n THEN r ELSE @[i]]]
            /\ past' = [past EXCEPT !.rows = Append(@, r)]
  BY DEF ServeRelation
<1> DEFINE r == RelRow(s, "resolves", t, TRUE)
           n == Len(past.rows) + 1
           rel == [i \in DOMAIN disk.rel \cup {n} |-> IF i = n THEN r ELSE disk.rel[i]]
           rows == Append(past.rows, r)
<1>2. disk' = [disk EXCEPT !["rel"] = rel] /\ past' = [past EXCEPT !["rows"] = rows]
  BY <1>1
<1>3. pending' = disk' /\ boot' = boot
  BY DEF ServeRelation
<1> HIDE DEF rel, rows
<1>4. "rel" \in DbFields \ {"shape", "archived", "vectors"}
  BY DEF DbFields
<1>5. Same(disk, disk')
  BY <1>2, <1>4, MigParts, FieldSet
<1>6. past' = [f \in {"rows", "archived"} |-> past'[f]] /\ past'.archived = past.archived
  BY <1>2 DEF MigInv
<1>7. IsDb(disk') /\ Unarchived(disk', past'.archived)
  BY <1>5, <1>6, MigParts DEF Same, Unarchived
<1> QED BY <1>3, <1>6, <1>7, MigParts, DiskOK

(* A caller archives a memory.                                              *)
LEMMA ServeArchiveOK == ASSUME MigInv, ServeArchive PROVE MigInv'
<1>1. PICK m \in Notes \ disk.archived :
        /\ disk' = [disk EXCEPT !.archived = @ \cup {m}, !.searchable = @ \ {m},
                                !.vectors = IF boot.ext THEN @ \ {m} ELSE @]
        /\ past' = [past EXCEPT !.archived = @ \cup {m}]
  BY DEF ServeArchive
<1> DEFINE ar == disk.archived \cup {m}
           se == disk.searchable \ {m}
           ve == IF boot.ext THEN disk.vectors \ {m} ELSE disk.vectors
           pa == past.archived \cup {m}
<1>2. /\ disk' = [disk EXCEPT !.archived = ar, !.searchable = se, !.vectors = ve]
      /\ past' = [past EXCEPT !.archived = pa]
  BY <1>1
<1>3. pending' = disk' /\ boot' = boot
  BY DEF ServeArchive
<1>4. disk.archived \subseteq past.archived => ar \subseteq pa
  OBVIOUS
<1> HIDE DEF ar, se, ve, pa
<1>5. disk = [f \in DbFields |-> disk[f]] /\ disk.shape = [h \in ShapeFields |-> disk.shape[h]]
  BY MigParts DEF IsDb
<1>6. disk' = [f \in DbFields |-> disk'[f]] /\ disk'.shape = disk.shape /\ disk'.archived = ar
  <2>1. {"shape", "archived", "searchable", "vectors"} \subseteq DbFields
    BY DEF DbFields
  <2> QED BY <1>2, <1>5, <2>1
<1>7. past' = [f \in {"rows", "archived"} |-> past'[f]] /\ past'.archived = pa
  BY <1>2 DEF MigInv
<1>8. IsDb(disk')
  BY <1>5, <1>6, MigParts DEF IsDb
<1>9. Unarchived(disk', past'.archived)
  BY <1>4, <1>6, <1>7, MigParts DEF Unarchived
<1> QED BY <1>3, <1>7, <1>8, <1>9, MigParts, DiskOK

(* A database of any earlier release has archived nothing by version 3.     *)
LEMMA MigStart == MigInit => MigInv
<1> SUFFICES ASSUME MigInit PROVE MigInv
  OBVIOUS
<1>1. PICK shape \in Shapes : \E rows \in RowsOf(shape) : disk = Found(shape, rows)
  BY DEF MigInit
<1>2. PICK rows \in RowsOf(shape) : disk = Found(shape, rows)
  BY <1>1
<1>3. shape = [h \in ShapeFields |-> shape[h]] /\ shape.ver \in Nat
  BY <1>1 DEF Shapes, NewDatabase, Oldest, Swept, Renaming, Torn, Foreign, ShapeFields
<1>4. disk = [f \in DbFields |-> disk[f]] /\ disk.shape = shape /\ disk.archived = {}
  BY <1>2 DEF Found, DbFields
<1>5. IsDb(disk)
  BY <1>3, <1>4 DEF IsDb
<1>6. pending = disk /\ boot = [at |-> "down", ext |-> TRUE] /\ past = [rows |-> disk.rel, archived |-> {}]
  BY DEF MigInit
<1>7. boot \in [at : Places, ext : BOOLEAN] /\ past = [f \in {"rows", "archived"} |-> past[f]]
  BY <1>6 DEF Places
<1>8. Unarchived(disk, past.archived)
  BY <1>4 DEF Unarchived
<1>9. MarksLast(disk, pending, boot.at)
  BY <1>3, <1>4, <1>6 DEF MarksLast
<1> QED BY <1>5, <1>6, <1>7, <1>8, <1>9 DEF MigInv

(* Every step of startup, every crash and every served write.               *)
LEMMA MigStep == MigInv /\ [MigNext]_mvars => MigInv'
<1> SUFFICES ASSUME MigInv, [MigNext]_mvars PROVE MigInv'
  OBVIOUS
<1>1. CASE UNCHANGED mvars
  BY <1>1 DEF mvars, MigInv
<1> QED BY <1>1, StartupOK, EnsureSchemaOK, DroppedOK, TrackAOK, PredicateOK, LifecycleOK, CommitOK,
           ServeRelationOK, ServeArchiveOK DEF MigNext

(* For any memories, relations, releases, startups, caught errors and       *)
(* crashes: a commit of startup that leaves the database below version 3    *)
(* has archived no memory, and the one that marks version 3 leaves no       *)
(* archived memory with a vector.                                           *)
THEOREM LifecycleStaysWhole == MigSpec => LifecycleAllOrNothing
<1>1. MigInv /\ [MigNext]_mvars => MigInv'
  BY MigStep
<1>2. MigInv /\ [MigNext]_mvars =>
        [disk' # disk /\ boot.at = "commit" =>
           IF disk'.shape.ver < 3 THEN MigArchived(disk') = {}
           ELSE disk.shape.ver < 3 => disk'.archived \cap disk'.vectors = {}]_mvars
  <2> SUFFICES ASSUME MigInv, MigNext, disk' # disk, boot.at = "commit"
               PROVE  IF disk'.shape.ver < 3 THEN MigArchived(disk') = {}
                      ELSE disk.shape.ver < 3 => disk'.archived \cap disk'.vectors = {}
    OBVIOUS
  <2>1. Commit
    BY DEF MigNext, Startup, EnsureSchema, Refuse, TrackAVersion1, PredicateVersion, LifecycleVersion,
           Crash, ServeRelation, ServeArchive, At
  <2>2. disk' = pending
    BY <2>1 DEF Commit
  <2>3. CASE disk'.shape.ver < 3
    BY <2>2, <2>3, MigParts DEF MigArchived, Unarchived
  <2>4. CASE ~(disk'.shape.ver < 3)
    BY <2>2, <2>4, MigParts DEF MarksLast
  <2> QED BY <2>3, <2>4
<1> QED BY <1>1, <1>2, MigStart, PTL DEF MigSpec, LifecycleAllOrNothing

-----------------------------------------------------------------------------
(* The facts a migration keeps                                              *)

(* What a row says, in the closed vocabulary.                               *)
Said(r) == Triple(Renamed(r))

(* The rows of a database that has had n of them.                           *)
Relations(rel, n) == DOMAIN rel \subseteq 1..n /\ rel \in [DOMAIN rel -> RowSet]

(* Renaming a row changes neither whether it is open nor whether it relates *)
(* a memory to itself, and leaves nothing to rename.                        *)
LEMMA RowRenamed ==
  ASSUME NEW r \in RowSet
  PROVE  /\ Renamed(r) \in RowSet /\ ~ IsAlias(Renamed(r).pred) /\ Renamed(r).open = r.open
         /\ Renamed(Renamed(r)) = Renamed(r) /\ Said(Renamed(r)) = Said(r)
         /\ (~ IsAlias(r.pred) => Renamed(r) = r)
         /\ Said(r)[1] = Said(r)[3] <=> r.src = r.tgt
<1>1. DOMAIN PREDICATE_ALIASES = {"fixes", "resolved_by"}
  BY DEF PREDICATE_ALIASES
<1>2. PREDICATE_ALIASES["fixes"].to = "resolves" /\ PREDICATE_ALIASES["fixes"].swap = FALSE
  BY DEF PREDICATE_ALIASES
<1>3. PREDICATE_ALIASES["resolved_by"].to = "resolves" /\ PREDICATE_ALIASES["resolved_by"].swap = TRUE
  BY DEF PREDICATE_ALIASES
<1>4. r.src \in Notes /\ r.tgt \in Notes /\ r.open \in BOOLEAN /\ r.pred \in Canonical \cup DOMAIN PREDICATE_ALIASES
  BY DEF RowSet
<1>5. ~ IsAlias("resolves") /\ ~ IsAlias("supersedes")
  BY <1>1 DEF IsAlias
<1>6. CASE ~ IsAlias(r.pred)
  <2>1. Renamed(r) = r
    BY <1>6 DEF Renamed
  <2>2. Said(r)[1] = r.src /\ Said(r)[3] = r.tgt
    BY <2>1 DEF Said, Triple
  <2> QED BY <1>6, <2>1, <2>2 DEF Said
<1>7. CASE r.pred = "fixes"
  <2> DEFINE q == RelRow(r.src, "resolves", r.tgt, r.open)
  <2>1. Renamed(r) = q
    BY <1>1, <1>2, <1>7 DEF Renamed, IsAlias
  <2>2. q \in RowSet /\ q.pred = "resolves" /\ q.open = r.open /\ q.src = r.src /\ q.tgt = r.tgt
    BY <1>4 DEF RelRow, RowSet, Canonical
  <2> HIDE DEF q
  <2>3. Renamed(q) = q
    BY <1>5, <2>2 DEF Renamed
  <2>4. Said(r)[1] = r.src /\ Said(r)[3] = r.tgt
    BY <2>1, <2>2 DEF Said, Triple
  <2>5. IsAlias(r.pred)
    BY <1>1, <1>7 DEF IsAlias
  <2> QED BY <1>5, <2>1, <2>2, <2>3, <2>4, <2>5 DEF Said
<1>8. CASE r.pred = "resolved_by"
  <2> DEFINE q == RelRow(r.tgt, "resolves", r.src, r.open)
  <2>1. Renamed(r) = q
    BY <1>1, <1>3, <1>8 DEF Renamed, IsAlias
  <2>2. q \in RowSet /\ q.pred = "resolves" /\ q.open = r.open /\ q.src = r.tgt /\ q.tgt = r.src
    BY <1>4 DEF RelRow, RowSet, Canonical
  <2> HIDE DEF q
  <2>3. Renamed(q) = q
    BY <1>5, <2>2 DEF Renamed
  <2>4. Said(r)[1] = r.tgt /\ Said(r)[3] = r.src
    BY <2>1, <2>2 DEF Said, Triple
  <2>5. IsAlias(r.pred)
    BY <1>1, <1>8 DEF IsAlias
  <2> QED BY <1>5, <2>1, <2>2, <2>3, <2>4, <2>5 DEF Said
<1> QED BY <1>1, <1>6, <1>7, <1>8 DEF IsAlias

(* A closed row says what it said.                                          *)
LEMMA RowClosed ==
  ASSUME NEW r \in RowSet, NEW b \in BOOLEAN
  PROVE  LET q == [r EXCEPT !.open = b]
         IN  /\ q \in RowSet /\ q.open = b /\ q.src = r.src /\ q.tgt = r.tgt /\ q.pred = r.pred
             /\ Triple(q) = Triple(r) /\ Said(q) = Said(r)
<1> DEFINE q == [r EXCEPT !.open = b]
<1>1. q \in RowSet /\ q.open = b /\ q.src = r.src /\ q.tgt = r.tgt /\ q.pred = r.pred
  BY DEF RowSet
<1> HIDE DEF q
<1>2. Triple(q) = Triple(r)
  BY <1>1 DEF Triple
<1>3. Said(q) = Said(r)
  BY <1>1 DEF Said, Triple, Renamed, RelRow
<1> QED BY <1>1, <1>2, <1>3 DEF q

(* Rows that are one triple say the same.                                   *)
LEMMA TripleSaid ==
  ASSUME NEW r \in RowSet, NEW q \in RowSet, Triple(r) = Triple(q) PROVE Said(r) = Said(q)
<1>1. r.src = q.src /\ r.pred = q.pred /\ r.tgt = q.tgt
  BY DEF Triple
<1> QED BY <1>1 DEF Said, Triple, Renamed, RelRow

-----------------------------------------------------------------------------
(* NoFactLost and half of OneOpenEach, for the rows of one database.        *)
Told(rel, rows) ==
  \A n \in DOMAIN rows :
    IF n \in DOMAIN rel THEN Said(rel[n]) = Said(rows[n]) /\ (rel[n].open => rows[n].open)
    ELSE rows[n].open /\ \E i \in DOMAIN rel : Said(rel[i]) = Said(rows[n])

Stands(rel, rows) ==
  \A n \in DOMAIN rows :
    rows[n].open /\ rows[n].src # rows[n].tgt => \E i \in ActiveIds(rel) : Said(rel[i]) = Said(rows[n])

(* What a rewriting of the rows may do: drop an open row another row says,  *)
(* close rows, and close no fact that stands between two memories.          *)
Keeps(rel, b) ==
  /\ DOMAIN b \subseteq DOMAIN rel
  /\ \A i \in DOMAIN b : Said(b[i]) = Said(rel[i]) /\ (b[i].open => rel[i].open)
  /\ \A i \in DOMAIN rel : i \notin DOMAIN b => rel[i].open /\ \E j \in DOMAIN b : Said(b[j]) = Said(rel[i])
  /\ \A i \in ActiveIds(rel) :
       rel[i].src # rel[i].tgt => \E j \in ActiveIds(b) : Said(b[j]) = Said(rel[i])

(* Then nothing is lost.                                                    *)
LEMMA KeptIsTold ==
  ASSUME NEW rel, NEW b, NEW rows, Relations(rel, Len(rows)), rows \in Seq(RowSet), Keeps(rel, b), Told(rel, rows),
         Stands(rel, rows)
  PROVE  Told(b, rows) /\ Stands(b, rows)
<1>0. DOMAIN rel \subseteq DOMAIN rows /\ \A i \in DOMAIN rel : rel[i] \in RowSet
  BY DEF Relations
<1>1. ASSUME NEW n \in DOMAIN rows, n \in DOMAIN b
      PROVE  Said(b[n]) = Said(rows[n]) /\ (b[n].open => rows[n].open)
  BY <1>1 DEF Keeps, Told
<1>2. ASSUME NEW n \in DOMAIN rows, n \notin DOMAIN b
      PROVE  rows[n].open /\ \E i \in DOMAIN b : Said(b[i]) = Said(rows[n])
  <2>1. CASE n \in DOMAIN rel
    <3>1. rel[n].open /\ \E j \in DOMAIN b : Said(b[j]) = Said(rel[n])
      BY <1>2, <2>1 DEF Keeps
    <3> QED BY <2>1, <3>1 DEF Told
  <2>2. CASE n \notin DOMAIN rel
    <3>1. rows[n].open /\ \E i \in DOMAIN rel : Said(rel[i]) = Said(rows[n])
      BY <2>2 DEF Told
    <3>2. PICK i \in DOMAIN rel : Said(rel[i]) = Said(rows[n])
      BY <3>1
    <3>3. \E j \in DOMAIN b : Said(b[j]) = Said(rel[i])
      BY DEF Keeps
    <3> QED BY <3>1, <3>2, <3>3
  <2> QED BY <2>1, <2>2
<1>3. ASSUME NEW n \in DOMAIN rows, rows[n].open, rows[n].src # rows[n].tgt
      PROVE  \E i \in ActiveIds(b) : Said(b[i]) = Said(rows[n])
  <2>1. PICK i \in ActiveIds(rel) : Said(rel[i]) = Said(rows[n])
    BY <1>3 DEF Stands
  <2>2. rows[n] \in RowSet /\ rel[i] \in RowSet
    BY <1>0 DEF ActiveIds
  <2>3. rel[i].src # rel[i].tgt
    BY <1>3, <2>1, <2>2, RowRenamed
  <2>4. \E j \in ActiveIds(b) : Said(b[j]) = Said(rel[i])
    BY <2>3 DEF Keeps
  <2> QED BY <2>1, <2>4
<1> QED BY <1>1, <1>2, <1>3 DEF Told, Stands

(* Of a set of row numbers one is least.                                    *)
LEMMA LeastRow ==
  ASSUME NEW S \in SUBSET Nat, S # {} PROVE \E x \in S : \A y \in S : x <= y
<1>1. IsWellFoundedOn({ss \in Nat \X Nat : ss[1] < ss[2]}, Nat)
  BY NatLessThanWellFounded, Zenon DEF OpToRel
<1>2. PICK x \in S : \A y \in S : ~(<<y, x>> \in {ss \in Nat \X Nat : ss[1] < ss[2]})
  BY <1>1, WFMin, Zenon
<1>3. ASSUME NEW y \in S PROVE x <= y
  <2>1. x \in Nat /\ y \in Nat /\ <<y, x>> \in Nat \X Nat
    OBVIOUS
  <2>2. ~(y < x)
    BY <1>2, <2>1
  <2> QED BY <2>1, <2>2
<1> QED BY <1>3

(* What a rewriting leaves.                                                 *)
Rewrites(rel, b, n) ==
  Relations(b, n) /\ Keeps(rel, b) /\ (~ Duplicated(rel) => ~ Duplicated(b))

(* The deduplication of the active rows.                                    *)
LEMMA DedupKeeps ==
  ASSUME NEW rel, NEW n \in Nat, Relations(rel, n)
  PROVE  LET b == [i \in DedupKept(rel) |-> rel[i]] IN Rewrites(rel, b, n) /\ ~ Duplicated(b)
<1> DEFINE b == [i \in DedupKept(rel) |-> rel[i]]
<1>1. /\ DOMAIN b = DedupKept(rel) /\ \A i \in DOMAIN b : b[i] = rel[i]
      /\ DOMAIN b \subseteq DOMAIN rel
  BY DEF DedupKept
<1>2. DOMAIN rel \in SUBSET Nat /\ \A i \in DOMAIN rel : rel[i] \in RowSet
  BY DEF Relations
<1> HIDE DEF b
<1>3. Relations(b, n)
  <2>1. b = [i \in DOMAIN b |-> b[i]]
    BY <1>1 DEF b
  <2> QED BY <1>1, <1>2, <2>1 DEF Relations
<1>4. ASSUME NEW i \in ActiveIds(rel)
      PROVE  \E j \in ActiveIds(b) : Triple(rel[j]) = Triple(rel[i]) /\ b[j] = rel[j]
  <2> DEFINE S == {j \in ActiveIds(rel) : Triple(rel[j]) = Triple(rel[i])}
  <2>1. S # {} /\ S \in SUBSET Nat
    BY <1>2 DEF ActiveIds
  <2>2. PICK j \in S : \A k \in S : j <= k
    BY <2>1, LeastRow
  <2>3. j \in DedupKept(rel)
    BY <2>2 DEF DedupKept, ActiveIds
  <2> QED BY <1>1, <2>2, <2>3 DEF ActiveIds
<1>5. ASSUME NEW i \in ActiveIds(rel) PROVE \E j \in ActiveIds(b) : Said(b[j]) = Said(rel[i])
  <2>1. PICK j \in ActiveIds(b) : Triple(rel[j]) = Triple(rel[i]) /\ b[j] = rel[j]
    BY <1>4
  <2>2. rel[i] \in RowSet /\ rel[j] \in RowSet
    BY <1>1, <1>2 DEF ActiveIds
  <2> QED BY <2>1, <2>2, TripleSaid
<1>6. ASSUME NEW i \in DOMAIN rel, i \notin DOMAIN b PROVE i \in ActiveIds(rel)
  BY <1>1, <1>6 DEF DedupKept, ActiveIds
<1>7. Keeps(rel, b)
  <2>1. \A i \in DOMAIN b : Said(b[i]) = Said(rel[i]) /\ (b[i].open => rel[i].open)
    BY <1>1
  <2>2. ActiveIds(b) \subseteq DOMAIN b
    BY DEF ActiveIds
  <2>3. \A i \in ActiveIds(rel) : rel[i].open
    BY DEF ActiveIds
  <2>4. \A i \in DOMAIN rel : i \notin DOMAIN b => rel[i].open /\ \E j \in DOMAIN b : Said(b[j]) = Said(rel[i])
    BY <1>5, <1>6, <2>2, <2>3
  <2> QED BY <1>1, <1>5, <2>1, <2>4 DEF Keeps
<1>8. ASSUME NEW i \in ActiveIds(b), NEW j \in ActiveIds(b), i # j, Triple(b[i]) = Triple(b[j]) PROVE FALSE
  <2>1. i \in ActiveIds(rel) /\ j \in ActiveIds(rel) /\ Triple(rel[i]) = Triple(rel[j])
    BY <1>1, <1>8 DEF ActiveIds
  <2>2. i <= j /\ j <= i
    BY <1>1, <2>1 DEF ActiveIds, DedupKept
  <2> QED BY <1>2, <1>8, <2>1, <2>2 DEF ActiveIds
<1>9. ~ Duplicated(b)
  BY <1>8 DEF Duplicated
<1> QED BY <1>3, <1>7, <1>9 DEF Rewrites, b

(* The active rows of the old vocabulary, any of them.                      *)
LEMMA ActiveKeeps ==
  ASSUME NEW rel, NEW n \in Nat, Relations(rel, n), NEW ids
  PROVE  LET b == RenameActive(rel, ids)
         IN  /\ Rewrites(rel, b, n) /\ DOMAIN b = DOMAIN rel
             /\ DOMAIN rel \subseteq ids => \A i \in ActiveIds(b) : ~ IsAlias(b[i].pred)
<1> DEFINE b == RenameActive(rel, ids)
           Old(i) == i \in ids /\ rel[i].open /\ IsAlias(rel[i].pred)
<1>1. DOMAIN rel \in SUBSET Nat /\ \A i \in DOMAIN rel : rel[i] \in RowSet
  BY DEF Relations
<1>2. DOMAIN b = DOMAIN rel /\ b = [i \in DOMAIN b |-> b[i]]
  BY DEF RenameActive
<1>3. \A i \in DOMAIN rel :
        /\ ~ Old(i) => b[i] = rel[i]
        /\ Old(i) /\ Said(rel[i]) \in Taken(rel, i) => b[i] = [rel[i] EXCEPT !.open = FALSE]
        /\ Old(i) /\ Said(rel[i]) \notin Taken(rel, i) => b[i] = Renamed(rel[i])
  BY DEF RenameActive, Said
<1> HIDE DEF b
<1>4. ASSUME NEW i \in DOMAIN rel
      PROVE  b[i] \in RowSet /\ Said(b[i]) = Said(rel[i]) /\ (b[i].open => rel[i].open)
  <2>1. CASE ~ Old(i)
    BY <1>1, <1>3, <2>1
  <2>2. CASE Old(i) /\ Said(rel[i]) \in Taken(rel, i)
    BY <1>1, <1>3, <2>2, RowClosed
  <2>3. CASE Old(i) /\ Said(rel[i]) \notin Taken(rel, i)
    <3>1. b[i] = Renamed(rel[i]) /\ rel[i] \in RowSet
      BY <1>1, <1>3, <2>3
    <3> QED BY <3>1, RowRenamed
  <2> QED BY <2>1, <2>2, <2>3
<1>5. Relations(b, n)
  BY <1>2, <1>4 DEF Relations
<1>6. ASSUME NEW i \in ActiveIds(rel) PROVE \E j \in ActiveIds(b) : Said(b[j]) = Said(rel[i])
  <2> DEFINE S == {j \in ActiveIds(rel) : Said(rel[j]) = Said(rel[i])}
  <2>1. S # {} /\ S \in SUBSET Nat
    BY <1>1 DEF ActiveIds
  <2>2. CASE \E j \in S : ~ IsAlias(rel[j].pred)
    <3>1. PICK j \in S : ~ IsAlias(rel[j].pred)
      BY <2>2
    <3>2. b[j] = rel[j]
      BY <1>3, <3>1 DEF ActiveIds
    <3> QED BY <1>2, <3>1, <3>2 DEF ActiveIds
  <2>3. CASE \A j \in S : IsAlias(rel[j].pred)
    <3>1. PICK j \in S : \A k \in S : j <= k
      BY <2>1, LeastRow
    <3>2. Said(rel[j]) \notin Taken(rel, j)
      <4>1. ASSUME NEW k \in ActiveIds(rel), k < j \/ ~ IsAlias(rel[k].pred), Said(rel[k]) = Said(rel[j]) PROVE FALSE
        <5>1. k \in S
          BY <3>1, <4>1
        <5>2. j <= k /\ IsAlias(rel[k].pred) /\ j \in Nat /\ k \in Nat
          BY <2>1, <2>3, <3>1, <5>1
        <5> QED BY <4>1, <5>2
      <4> QED BY <4>1 DEF Taken, Said
    <3>3. b[j].open
      <4>1. j \in DOMAIN rel /\ rel[j].open /\ rel[j] \in RowSet
        BY <1>1, <3>1 DEF ActiveIds
      <4>2. b[j] = rel[j] \/ b[j] = Renamed(rel[j])
        BY <1>3, <3>2, <4>1
      <4> QED BY <4>1, <4>2, RowRenamed
    <3>4. j \in DOMAIN rel /\ Said(rel[j]) = Said(rel[i])
      BY <3>1 DEF ActiveIds
    <3>5. Said(b[j]) = Said(rel[i])
      BY <1>4, <3>4
    <3> QED BY <1>2, <3>3, <3>4, <3>5 DEF ActiveIds
  <2> QED BY <2>2, <2>3
<1>7. Keeps(rel, b)
  BY <1>2, <1>4, <1>6 DEF Keeps
<1>8. ASSUME NEW i \in ActiveIds(b) PROVE i \in ActiveIds(rel) /\ (Old(i) => b[i] = Renamed(rel[i]) /\ Said(rel[i]) \notin Taken(rel, i))
  <2>1. i \in DOMAIN rel /\ b[i].open /\ rel[i] \in RowSet
    BY <1>1, <1>2 DEF ActiveIds
  <2>2. Said(rel[i]) \in Taken(rel, i) /\ Old(i) => FALSE
    BY <1>3, <2>1, RowClosed
  <2>3. rel[i].open
    BY <1>4, <2>1
  <2> QED BY <1>3, <2>1, <2>2, <2>3 DEF ActiveIds
<1>9. ASSUME DOMAIN rel \subseteq ids, NEW i \in ActiveIds(b) PROVE ~ IsAlias(b[i].pred)
  <2>1. i \in DOMAIN rel /\ rel[i] \in RowSet /\ rel[i].open
    BY <1>1, <1>8 DEF ActiveIds
  <2>2. CASE IsAlias(rel[i].pred)
    <3>1. b[i] = Renamed(rel[i])
      BY <1>8, <1>9, <2>1, <2>2
    <3> QED BY <2>1, <3>1, RowRenamed
  <2>3. CASE ~ IsAlias(rel[i].pred)
    <3>1. b[i] = rel[i]
      BY <1>3, <2>1, <2>3
    <3> QED BY <2>3, <3>1
  <2> QED BY <2>2, <2>3
<1>10. ASSUME ~ Duplicated(rel), NEW i \in ActiveIds(b), NEW j \in ActiveIds(b), i < j, Triple(b[i]) = Triple(b[j])
       PROVE  FALSE
  <2>1. /\ i \in ActiveIds(rel) /\ j \in ActiveIds(rel) /\ i \in DOMAIN rel /\ j \in DOMAIN rel
        /\ rel[i] \in RowSet /\ rel[j] \in RowSet /\ b[i] \in RowSet /\ b[j] \in RowSet
    BY <1>1, <1>4, <1>8 DEF ActiveIds
  <2>2. Said(rel[i]) = Said(rel[j])
    BY <1>4, <1>10, <2>1, TripleSaid
  <2>3. b[i].pred = b[j].pred
    BY <1>10 DEF Triple
  <2>4. CASE Old(i) /\ Old(j)
    <3>1. Said(rel[i]) \in Taken(rel, j)
      BY <1>10, <2>1 DEF Taken, Said
    <3> QED BY <1>8, <2>2, <2>4, <3>1
  <2>5. CASE Old(i) /\ ~ Old(j)
    <3>1. ~ IsAlias(b[i].pred) /\ b[j] = rel[j]
      BY <1>3, <1>8, <2>1, <2>5, RowRenamed
    <3>2. Said(rel[j]) \in Taken(rel, i)
      BY <2>1, <2>3, <3>1 DEF Taken, Said
    <3> QED BY <1>8, <2>2, <2>5, <3>2
  <2>6. CASE ~ Old(i) /\ Old(j)
    <3>1. ~ IsAlias(b[j].pred) /\ b[i] = rel[i]
      BY <1>3, <1>8, <2>1, <2>6, RowRenamed
    <3>2. Said(rel[i]) \in Taken(rel, j)
      BY <2>1, <2>3, <3>1 DEF Taken, Said
    <3> QED BY <1>8, <2>2, <2>6, <3>2
  <2>7. CASE ~ Old(i) /\ ~ Old(j)
    <3>1. b[i] = rel[i] /\ b[j] = rel[j]
      BY <1>3, <2>1, <2>7
    <3>2. i # j
      BY <1>1, <1>10, <2>1
    <3> QED BY <1>10, <2>1, <3>1, <3>2 DEF Duplicated
  <2> QED BY <2>4, <2>5, <2>6, <2>7
<1>11. ~ Duplicated(rel) => ~ Duplicated(b)
  <2>1. \A i, j \in ActiveIds(b) : i # j => i < j \/ j < i
    BY <1>1, <1>2 DEF ActiveIds
  <2> QED BY <1>10, <2>1 DEF Duplicated
<1> QED BY <1>2, <1>5, <1>7, <1>9, <1>11 DEF Rewrites, b

(* The closed rows of the old vocabulary, any of them.                      *)
LEMMA ClosedKeeps ==
  ASSUME NEW rel, NEW n \in Nat, Relations(rel, n), NEW ids
  PROVE  LET b == RenameClosed(rel, ids)
         IN  /\ Rewrites(rel, b, n) /\ DOMAIN b = DOMAIN rel
             /\ \A i \in DOMAIN b :
                  i \in ids /\ (\A j \in ActiveIds(rel) : ~ IsAlias(rel[j].pred)) => ~ IsAlias(b[i].pred)
<1> DEFINE b == RenameClosed(rel, ids)
<1>1. \A i \in DOMAIN rel : rel[i] \in RowSet
  BY DEF Relations
<1>2. DOMAIN b = DOMAIN rel /\ b = [i \in DOMAIN b |-> b[i]]
  BY DEF RenameClosed
<1>3. \A i \in DOMAIN rel : b[i] = IF i \in ids /\ ~ rel[i].open THEN Renamed(rel[i]) ELSE rel[i]
  BY DEF RenameClosed
<1> HIDE DEF b
<1>4. ASSUME NEW i \in DOMAIN rel
      PROVE  /\ b[i] \in RowSet /\ Said(b[i]) = Said(rel[i]) /\ b[i].open = rel[i].open
             /\ rel[i].open => b[i] = rel[i]
  BY <1>1, <1>3, RowRenamed
<1>5. Relations(b, n)
  BY <1>2, <1>4 DEF Relations
<1>6. ActiveIds(b) = ActiveIds(rel) /\ \A i \in ActiveIds(rel) : b[i] = rel[i]
  BY <1>2, <1>4 DEF ActiveIds
<1>7. Keeps(rel, b)
  <2>1. \A i \in ActiveIds(rel) : \E j \in ActiveIds(b) : Said(b[j]) = Said(rel[i])
    BY <1>6
  <2> QED BY <1>2, <1>4, <2>1 DEF Keeps
<1>8. ~ Duplicated(rel) => ~ Duplicated(b)
  BY <1>6 DEF Duplicated
<1>9. ASSUME NEW i \in DOMAIN b, i \in ids, \A j \in ActiveIds(rel) : ~ IsAlias(rel[j].pred)
      PROVE  ~ IsAlias(b[i].pred)
  <2>1. CASE rel[i].open
    BY <1>2, <1>4, <1>9, <2>1 DEF ActiveIds
  <2>2. CASE ~ rel[i].open
    <3>1. b[i] = Renamed(rel[i]) /\ rel[i] \in RowSet
      BY <1>1, <1>2, <1>3, <1>9, <2>2
    <3> QED BY <3>1, RowRenamed
  <2> QED BY <2>1, <2>2
<1> QED BY <1>2, <1>5, <1>7, <1>8, <1>9 DEF Rewrites, b

(* The closing of the rows that relate a memory to itself.                  *)
LEMMA SelfKeeps ==
  ASSUME NEW rel, NEW n \in Nat, Relations(rel, n)
  PROVE  LET b == WithoutSelf(rel)
         IN  /\ Rewrites(rel, b, n) /\ DOMAIN b = DOMAIN rel
             /\ \A i \in DOMAIN rel : b[i].pred = rel[i].pred
<1> DEFINE b == WithoutSelf(rel)
<1>1. \A i \in DOMAIN rel : rel[i] \in RowSet
  BY DEF Relations
<1>2. DOMAIN b = DOMAIN rel /\ b = [i \in DOMAIN b |-> b[i]]
  BY DEF WithoutSelf
<1>3. \A i \in DOMAIN rel : b[i] = [rel[i] EXCEPT !.open = rel[i].open /\ rel[i].src # rel[i].tgt]
  BY DEF WithoutSelf
<1> HIDE DEF b
<1>4. ASSUME NEW i \in DOMAIN rel
      PROVE  /\ b[i] \in RowSet /\ Said(b[i]) = Said(rel[i]) /\ b[i].pred = rel[i].pred
             /\ Triple(b[i]) = Triple(rel[i])
             /\ b[i].open <=> rel[i].open /\ rel[i].src # rel[i].tgt
  <2> DEFINE v == rel[i].open /\ rel[i].src # rel[i].tgt
  <2>1. v \in BOOLEAN
    OBVIOUS
  <2>2. b[i] = [rel[i] EXCEPT !.open = v]
    BY <1>3
  <2> HIDE DEF v
  <2>3. /\ b[i] \in RowSet /\ Said(b[i]) = Said(rel[i]) /\ b[i].pred = rel[i].pred
        /\ Triple(b[i]) = Triple(rel[i]) /\ b[i].open = v
    BY <1>1, <2>1, <2>2, RowClosed
  <2> QED BY <2>3 DEF v
<1>5. Relations(b, n)
  BY <1>2, <1>4 DEF Relations
<1>6. ActiveIds(b) = {i \in ActiveIds(rel) : rel[i].src # rel[i].tgt}
  BY <1>2, <1>4 DEF ActiveIds
<1>7. Keeps(rel, b)
  <2>1. \A i \in ActiveIds(rel) : rel[i].src # rel[i].tgt => \E j \in ActiveIds(b) : Said(b[j]) = Said(rel[i])
    BY <1>4, <1>6 DEF ActiveIds
  <2> QED BY <1>2, <1>4, <2>1 DEF Keeps
<1>8. ~ Duplicated(rel) => ~ Duplicated(b)
  <2>1. ActiveIds(b) \subseteq ActiveIds(rel) /\ \A i \in ActiveIds(b) : Triple(b[i]) = Triple(rel[i])
    BY <1>4, <1>6 DEF ActiveIds
  <2> QED BY <2>1 DEF Duplicated
<1> QED BY <1>2, <1>4, <1>5, <1>7, <1>8 DEF Rewrites, b

-----------------------------------------------------------------------------
(* The rows of a database that has lost nothing of what was written.        *)
RowsKept(rel, rows) ==
  Relations(rel, Len(rows)) /\ Told(rel, rows) /\ Stands(rel, rows)

(* A rewriting of such rows.                                                *)
LEMMA RewriteKeeps ==
  ASSUME NEW rel, NEW b, NEW rows, rows \in Seq(RowSet), RowsKept(rel, rows), Rewrites(rel, b, Len(rows))
  PROVE  RowsKept(b, rows)
BY KeptIsTold DEF RowsKept, Rewrites

(* Every stage of the renaming.                                             *)
LEMMA StageKeeps ==
  ASSUME NEW rel, NEW rows, rows \in Seq(RowSet), RowsKept(rel, rows), NEW b \in RenameStages(rel) \cup {RenameAll(rel)}
  PROVE  RowsKept(b, rows) /\ (~ Duplicated(rel) => ~ Duplicated(b))
<1>1. Len(rows) \in Nat /\ Relations(rel, Len(rows))
  BY LenProperties DEF RowsKept
<1>2. CASE \E ids : b = RenameActive(rel, ids)
  <2>1. Rewrites(rel, b, Len(rows))
    BY <1>1, <1>2, ActiveKeeps
  <2> QED BY <2>1, RewriteKeeps DEF Rewrites
<1>3. CASE \E ids : b = RenameClosed(ActiveRenamed(rel), ids)
  <2> DEFINE a == RenameActive(rel, DOMAIN rel)
  <2>1. Rewrites(rel, a, Len(rows))
    BY <1>1, ActiveKeeps
  <2> HIDE DEF a
  <2>2. Relations(a, Len(rows))
    BY <2>1 DEF Rewrites
  <2>3. Rewrites(a, b, Len(rows))
    BY <1>1, <1>3, <2>2, ClosedKeeps DEF ActiveRenamed, a
  <2>4. RowsKept(a, rows)
    BY <2>1, RewriteKeeps
  <2> QED BY <2>1, <2>3, <2>4, RewriteKeeps DEF Rewrites
<1> QED BY <1>2, <1>3 DEF RenameStages, RenameAll

(* The whole renaming leaves no row of the old vocabulary, open or closed.  *)
LEMMA AllRenamed ==
  ASSUME NEW rel, NEW n \in Nat, Relations(rel, n)
  PROVE  \A i \in DOMAIN RenameAll(rel) : ~ IsAlias(RenameAll(rel)[i].pred)
<1> DEFINE a == RenameActive(rel, DOMAIN rel)
<1>1. Relations(a, n) /\ DOMAIN a = DOMAIN rel /\ \A i \in ActiveIds(a) : ~ IsAlias(a[i].pred)
  BY ActiveKeeps DEF Rewrites
<1>2. RenameAll(rel) = RenameClosed(a, DOMAIN rel)
  BY DEF RenameAll, ActiveRenamed
<1> HIDE DEF a
<1> DEFINE b == RenameClosed(a, DOMAIN rel)
<1>3. DOMAIN b = DOMAIN a /\ \A i \in DOMAIN b :
        i \in DOMAIN rel /\ (\A j \in ActiveIds(a) : ~ IsAlias(a[j].pred)) => ~ IsAlias(b[i].pred)
  BY <1>1, ClosedKeeps
<1> HIDE DEF b
<1>4. \A i \in DOMAIN b : ~ IsAlias(b[i].pred)
  BY <1>1, <1>3
<1> QED BY <1>2, <1>4 DEF b

(* Of the memories the lifecycle migration archives, whichever of them are  *)
(* taken, one is superseded by a memory that is not: otherwise they would   *)
(* follow each other round, all of their component, which has one link less *)
(* than members.                                                            *)
LEMMA SafeHaveHeirs ==
  ASSUME NEW rel, NEW n \in Nat, Relations(rel, n), NEW S \in SUBSET SafeTargets(rel), S # {}
  PROVE  \E i \in Supersedes(rel) : rel[i].tgt \in S /\ rel[i].src \notin S
<1> SUFFICES ASSUME \A i \in Supersedes(rel) : rel[i].tgt \in S => rel[i].src \in S PROVE FALSE
  OBVIOUS
<1> DEFINE edges == Supersedes(rel)
<1>1. IsFiniteSet(edges) /\ \A i \in edges : rel[i].src \in Notes /\ rel[i].tgt \in Notes
  <2>1. edges \subseteq 1..n /\ edges \subseteq DOMAIN rel
    BY DEF Supersedes, ActiveIds, Relations
  <2>2. IsFiniteSet(edges)
    BY <2>1, FS_Interval, FS_Subset
  <2>3. \A i \in DOMAIN rel : rel[i] \in RowSet
    BY DEF Relations
  <2> QED BY <2>1, <2>2, <2>3 DEF RowSet
<1>2. SafeTargets(rel) =
        {rel[i].tgt : i \in {e \in edges : Linear(edges, rel, Component(edges, rel, rel[e].tgt))}}
  BY DEF SafeTargets
<1>3. \A i \in edges : rel[i].tgt \in S => rel[i].src \in S
  OBVIOUS
<1> HIDE DEF edges
<1>4. PICK e \in edges : rel[e].tgt \in S /\ Linear(edges, rel, Component(edges, rel, rel[e].tgt))
  BY <1>2
<1> DEFINE m == rel[e].tgt
           C == Component(edges, rel, m)
           Shut(c) == \A i \in edges : rel[i].src \in c <=> rel[i].tgt \in c
           inside == {i \in edges : rel[i].src \in C}
<1>5. C = {k \in Notes : \A c \in SUBSET Notes : m \in c /\ Shut(c) => k \in c}
  BY DEF Component
<1>6. C \in SUBSET Notes /\ m \in C /\ Shut(C) /\ \A c \in SUBSET Notes : m \in c /\ Shut(c) => C \subseteq c
  <2>1. C \in SUBSET Notes /\ m \in C /\ \A c \in SUBSET Notes : m \in c /\ Shut(c) => C \subseteq c
    BY <1>1, <1>4, <1>5
  <2>2. ASSUME NEW i \in edges, rel[i].src \in C PROVE rel[i].tgt \in C
    BY <1>1, <1>5, <2>2
  <2>3. ASSUME NEW i \in edges, rel[i].tgt \in C PROVE rel[i].src \in C
    BY <1>1, <1>5, <2>3
  <2> QED BY <2>1, <2>2, <2>3
<1>7. /\ \A i, j \in inside : i # j => rel[i].src # rel[j].src /\ rel[i].tgt # rel[j].tgt
      /\ Cardinality(inside) = Cardinality(C) - 1
  BY <1>4 DEF Linear
<1>8. m \in S /\ S \in SUBSET SafeTargets(rel)
  BY <1>4
<1> HIDE DEF m, C
<1> DEFINE T == S \cap C
           J == {i \in edges : rel[i].tgt \in T}
           f == [i \in J |-> rel[i].tgt]
           g == [i \in J |-> rel[i].src]
<1>9. J \subseteq inside /\ IsFiniteSet(J) /\ \A i \in J : rel[i].src \in T
  <2>1. J \subseteq edges
    OBVIOUS
  <2>2. IsFiniteSet(J)
    BY <1>1, <2>1, FS_Subset
  <2> QED BY <1>3, <1>6, <2>2
<1>10. f \in Surjection(J, T) /\ f \in Injection(J, T)
  <2>1. \A x \in T : \E i \in J : rel[i].tgt = x
    BY <1>2, <1>8
  <2>2. f \in [J -> T] /\ \A x \in T : \E i \in J : f[i] = x
    BY <2>1
  <2>3. \A i, j \in J : f[i] = f[j] => i = j
    BY <1>7, <1>9
  <2> QED BY <2>2, <2>3 DEF Surjection, Injection, IsInjective
<1>11. IsFiniteSet(T) /\ Cardinality(T) = Cardinality(J)
  BY <1>9, <1>10, FS_Surjection
<1>12. g \in Injection(J, T)
  <2>1. g \in [J -> T]
    BY <1>9
  <2>2. \A i, j \in J : g[i] = g[j] => i = j
    BY <1>7, <1>9
  <2> QED BY <2>1, <2>2 DEF Injection, IsInjective
<1>13. g \in Surjection(J, T)
  BY <1>11, <1>12, FS_Injection
<1>14. \A x \in T : \E j \in J : rel[j].src = x
  BY <1>13 DEF Surjection
<1>15. Shut(T)
  <2>1. ASSUME NEW i \in edges, rel[i].src \in T PROVE rel[i].tgt \in T
    <3>1. PICK j \in J : rel[j].src = rel[i].src
      BY <1>14, <2>1
    <3>2. i \in inside /\ j \in inside
      BY <1>9, <2>1
    <3>3. i = j
      BY <1>7, <3>1, <3>2
    <3> QED BY <3>3
  <2> QED BY <1>9, <2>1
<1>16. C = T
  <2>1. T \in SUBSET Notes /\ m \in T
    BY <1>6, <1>8
  <2>2. C \subseteq T
    BY <1>6, <1>15, <2>1
  <2> QED BY <2>2
<1>17. J = inside
  BY <1>9, <1>15, <1>16
<1>18. Cardinality(T) = Cardinality(T) - 1 /\ Cardinality(T) \in Nat
  <2>1. Cardinality(T) \in Nat
    BY <1>11, FS_CardinalityType
  <2>2. Cardinality(inside) = Cardinality(T) /\ Cardinality(C) = Cardinality(T)
    BY <1>11, <1>16, <1>17
  <2> QED BY <1>7, <2>1, <2>2
<1> HIDE DEF T
<1> QED BY <1>18

-----------------------------------------------------------------------------
(* SupersededHasHeir, for any rows and memories.                            *)
Heir(rel, gone) ==
  \A s \in SUBSET gone : s # {} => \E i \in Supersedes(rel) : rel[i].tgt \in s /\ rel[i].src \notin s

(* MarkedIsRenamed, for any database.                                       *)
Finished(d) ==
  d.shape.ver >= 2 =>
    /\ d.shape.index /\ d.shape.registry = "right" /\ d.linked
    /\ \A i \in DOMAIN d.rel : ~ IsAlias(d.rel[i].pred)

InNotes(d) == d.archived \cup d.vectors \cup d.searchable \cup d.hashed \subseteq Notes

(* What a database keeps of the rows ever written and of the memories that  *)
(* callers archived.                                                        *)
Kept(d, rows, gone) ==
  /\ IsDb(d) /\ d.shape.ver \in 0..3 /\ InNotes(d) /\ RowsKept(d.rel, rows) /\ Finished(d)
  /\ d.shape.index => ~ Duplicated(d.rel)
  /\ Unarchived(d, gone) /\ Heir(d.rel, d.archived \ gone)

(* Column f, or mark g of the shape, is v and the rest as it was.           *)
ColumnIs(d, b, f, v) ==
  IsDb(b) /\ b[f] = v /\ \A x \in DbFields : x # f => b[x] = d[x]
MarkIs(d, b, g, v) ==
  /\ IsDb(b) /\ b.shape[g] = v /\ \A h \in ShapeFields : h # g => b.shape[h] = d.shape[h]
  /\ \A f \in DbFields : f # "shape" => b[f] = d[f]

(* One mark of the shape.                                                   *)
LEMMA ShapePut ==
  ASSUME NEW d, IsDb(d), NEW g \in ShapeFields, NEW v, g = "ver" => v \in Nat, NEW b,
         b = [d EXCEPT !["shape"] = [d.shape EXCEPT ![g] = v]]
  PROVE  MarkIs(d, b, g, v)
<1> DEFINE sh == [d.shape EXCEPT ![g] = v]
<1>1. d = [f \in DbFields |-> d[f]] /\ d.shape = [h \in ShapeFields |-> d.shape[h]] /\ d.shape.ver \in Nat
  BY DEF IsDb
<1>2. /\ sh = [h \in ShapeFields |-> sh[h]] /\ sh[g] = v
      /\ \A h \in ShapeFields : h # g => sh[h] = d.shape[h]
  BY <1>1
<1>3. "ver" \in ShapeFields /\ "shape" \in DbFields
  BY DEF ShapeFields, DbFields
<1>4. sh.ver \in Nat
  BY <1>1, <1>2, <1>3
<1>5. b = [d EXCEPT !["shape"] = sh]
  OBVIOUS
<1> HIDE DEF sh
<1>6. b = [f \in DbFields |-> b[f]] /\ b.shape = sh /\ \A f \in DbFields : f # "shape" => b[f] = d[f]
  BY <1>1, <1>3, <1>5
<1> HIDE <1>1, <1>5
<1> QED BY <1>2, <1>4, <1>6 DEF IsDb, MarkIs

(* One column.                                                              *)
LEMMA FieldPut ==
  ASSUME NEW d, IsDb(d), NEW f \in DbFields, f # "shape", NEW v, NEW b, b = [d EXCEPT ![f] = v]
  PROVE  ColumnIs(d, b, f, v)
<1>1. d = [x \in DbFields |-> d[x]] /\ d.shape = [h \in ShapeFields |-> d.shape[h]] /\ d.shape.ver \in Nat
  BY DEF IsDb
<1>2. "shape" \in DbFields
  BY DEF DbFields
<1>3. b = [x \in DbFields |-> b[x]] /\ b[f] = v /\ \A x \in DbFields : x # f => b[x] = d[x]
  BY <1>1
<1>4. b.shape = d.shape
  BY <1>2, <1>3
<1> QED BY <1>1, <1>3, <1>4 DEF IsDb, ColumnIs

(* Databases that agree on what is kept.                                    *)
LEMMA KeptAlike ==
  ASSUME NEW d, NEW b, NEW rows, NEW gone, Kept(d, rows, gone), IsDb(b), InNotes(b),
         b.shape.ver = d.shape.ver, b.shape.index = d.shape.index, b.shape.registry = d.shape.registry,
         b.rel = d.rel, b.linked = d.linked, b.archived = d.archived
  PROVE  Kept(b, rows, gone)
BY DEF Kept, Finished, Unarchived

(* As much is kept of b as of d, and the index stands as it stood.          *)
Follows(d, b, rows, gone) == Kept(b, rows, gone) /\ b.shape.index = d.shape.index

(* A mark of the shape that says nothing of rows or versions.               *)
LEMMA KeptShape ==
  ASSUME NEW d, NEW rows, NEW gone, Kept(d, rows, gone),
         NEW g \in {"owner", "harness", "fts", "chunk", "ledger"}, NEW v, NEW b,
         b = [d EXCEPT !["shape"] = [d.shape EXCEPT ![g] = v]]
  PROVE  Follows(d, b, rows, gone)
<1>1. /\ g \in ShapeFields /\ g \notin {"ver", "index", "registry"}
      /\ {"ver", "index", "registry"} \subseteq ShapeFields
  BY DEF ShapeFields
<1>2. {"rel", "linked", "archived", "vectors", "searchable", "hashed"} \subseteq DbFields \ {"shape"}
  BY DEF DbFields
<1>3. IsDb(d) /\ InNotes(d)
  BY DEF Kept
<1>4. /\ IsDb(b) /\ \A h \in ShapeFields : h # g => b.shape[h] = d.shape[h]
      /\ \A f \in DbFields : f # "shape" => b[f] = d[f]
  <2>1. MarkIs(d, b, g, v)
    BY <1>1, <1>3, ShapePut
  <2> QED BY <2>1 DEF MarkIs
<1>5. b.shape.ver = d.shape.ver /\ b.shape.index = d.shape.index /\ b.shape.registry = d.shape.registry
  BY <1>1, <1>4
<1>6. /\ b.rel = d.rel /\ b.linked = d.linked /\ b.archived = d.archived /\ b.vectors = d.vectors
      /\ b.searchable = d.searchable /\ b.hashed = d.hashed
  BY <1>2, <1>4
<1>7. InNotes(b)
  BY <1>3, <1>6 DEF InNotes
<1> QED BY <1>4, <1>5, <1>6, <1>7, KeptAlike DEF Follows

(* The hashes, the text index or the backlog of legacy events.              *)
LEMMA KeptField ==
  ASSUME NEW d, NEW rows, NEW gone, Kept(d, rows, gone), NEW f \in {"hashed", "searchable", "backlog"},
         NEW v, f # "backlog" => v \subseteq Notes, NEW b, b = [d EXCEPT ![f] = v]
  PROVE  Follows(d, b, rows, gone)
<1>1. f \in DbFields /\ f # "shape" /\ f \notin {"rel", "linked", "archived", "vectors"}
  BY DEF DbFields
<1>2. {"shape", "rel", "linked", "archived", "vectors", "searchable", "hashed"} \subseteq DbFields
  BY DEF DbFields
<1>3. IsDb(d) /\ InNotes(d)
  BY DEF Kept
<1>4. IsDb(b) /\ b[f] = v /\ \A x \in DbFields : x # f => b[x] = d[x]
  <2>1. ColumnIs(d, b, f, v)
    BY <1>1, <1>3, FieldPut
  <2> QED BY <2>1 DEF ColumnIs
<1>5. b.shape = d.shape
  BY <1>1, <1>2, <1>4
<1>6. b.rel = d.rel /\ b.linked = d.linked /\ b.archived = d.archived /\ b.vectors = d.vectors
  BY <1>1, <1>2, <1>4
<1>7. b.searchable \subseteq Notes /\ b.hashed \subseteq Notes
  <2>1. d.searchable \subseteq Notes /\ d.hashed \subseteq Notes
    BY <1>3 DEF InNotes
  <2>2. CASE f = "hashed"
    <3>1. b.hashed = v /\ b.searchable = d.searchable
      BY <1>2, <1>4, <2>2
    <3> QED BY <2>1, <2>2, <3>1
  <2>3. CASE f = "searchable"
    <3>1. b.searchable = v /\ b.hashed = d.hashed
      BY <1>2, <1>4, <2>3
    <3> QED BY <2>1, <2>3, <3>1
  <2>4. CASE f = "backlog"
    <3>1. b.searchable = d.searchable /\ b.hashed = d.hashed
      BY <1>2, <1>4, <2>4
    <3> QED BY <2>1, <3>1
  <2> QED BY <2>2, <2>3, <2>4
<1>8. InNotes(b)
  BY <1>3, <1>6, <1>7 DEF InNotes
<1> QED BY <1>4, <1>5, <1>6, <1>8, KeptAlike DEF Follows

(* The rows, once: the index is made and old duplicates are dropped.        *)
LEMMA KeptIndex ==
  ASSUME NEW d, NEW rows, NEW gone, rows \in Seq(RowSet), Kept(d, rows, gone)
  PROVE  Kept(RelationIndex(d), rows, gone) /\ RelationIndex(d).shape.index
<1>1. CASE d.shape.index
  BY <1>1 DEF RelationIndex
<1>2. CASE ~ d.shape.index
  <2> DEFINE r == [i \in DedupKept(d.rel) |-> d.rel[i]]
             e == [d EXCEPT !["shape"] = [d.shape EXCEPT !["index"] = TRUE]]
             b == [e EXCEPT !["rel"] = r]
  <2>1. RelationIndex(d) = b
    BY <1>2 DEF RelationIndex
  <2>2. RowsKept(r, rows) /\ ~ Duplicated(r)
    <3>1. Len(rows) \in Nat /\ Relations(d.rel, Len(rows))
      BY LenProperties DEF Kept, RowsKept
    <3>2. Rewrites(d.rel, r, Len(rows)) /\ ~ Duplicated(r)
      BY <3>1, DedupKeeps
    <3> HIDE DEF r
    <3> QED BY <3>2, RewriteKeeps DEF Kept
  <2> HIDE DEF r
  <2>3. {"ver", "index"} \subseteq ShapeFields /\ {"shape", "rel", "archived", "vectors", "searchable", "hashed"} \subseteq DbFields
    BY DEF ShapeFields, DbFields
  <2>4. IsDb(d) /\ InNotes(d) /\ ~ (d.shape.ver >= 2) /\ d.shape.ver \in 0..3 /\ Unarchived(d, gone)
    BY <1>2 DEF Kept, Finished
  <2>5. /\ IsDb(e) /\ e.shape.index = TRUE /\ e.shape.ver = d.shape.ver
        /\ e.archived = d.archived /\ e.vectors = d.vectors /\ e.searchable = d.searchable /\ e.hashed = d.hashed
    <3>1. /\ IsDb(e) /\ e.shape["index"] = TRUE /\ \A h \in ShapeFields : h # "index" => e.shape[h] = d.shape[h]
          /\ \A f \in DbFields : f # "shape" => e[f] = d[f]
      <4>1. MarkIs(d, e, "index", TRUE)
        BY <2>3, <2>4, ShapePut
      <4> HIDE DEF e
      <4> QED BY <4>1 DEF MarkIs
    <3> QED BY <2>3, <3>1
  <2> HIDE DEF e
  <2>6. /\ IsDb(b) /\ b.shape = e.shape /\ b.rel = r /\ b.archived = d.archived /\ b.vectors = d.vectors
        /\ b.searchable = d.searchable /\ b.hashed = d.hashed
    <3>1. IsDb(b) /\ b["rel"] = r /\ \A x \in DbFields : x # "rel" => b[x] = e[x]
      <4>1. ColumnIs(e, b, "rel", r)
        BY <2>3, <2>5, FieldPut
      <4> QED BY <4>1 DEF ColumnIs
    <3> QED BY <2>3, <2>5, <3>1
  <2> HIDE DEF b
  <2>7. InNotes(b)
    BY <2>4, <2>6 DEF InNotes
  <2>8. Finished(b) /\ Unarchived(b, gone) /\ b.shape.ver \in 0..3 /\ b.shape.index
    BY <2>4, <2>5, <2>6 DEF Finished, Unarchived
  <2>9. Heir(b.rel, b.archived \ gone)
    <3>1. b.archived \subseteq gone
      BY <2>4, <2>8, <2>5, <2>6 DEF Unarchived
    <3> QED BY <3>1 DEF Heir
  <2> QED BY <2>1, <2>2, <2>6, <2>7, <2>8, <2>9 DEF Kept
<1> QED BY <1>1, <1>2

(* The registry: seeded where there is none.                                *)
LEMMA KeptRegistry ==
  ASSUME NEW d, NEW rows, NEW gone, Kept(d, rows, gone)
  PROVE  Kept(SeedRegistry(d), rows, gone) /\ SeedRegistry(d).shape.index = d.shape.index
<1> DEFINE v == IF d.shape.registry = "none" THEN "right" ELSE d.shape.registry
           b == [d EXCEPT !["shape"] = [d.shape EXCEPT !["registry"] = v]]
<1>1. SeedRegistry(d) = b
  BY DEF SeedRegistry
<1>2. d.shape.registry = "right" => v = "right"
  OBVIOUS
<1> HIDE DEF v
<1>3. /\ {"ver", "index", "registry"} \subseteq ShapeFields
      /\ {"rel", "linked", "archived", "vectors", "searchable", "hashed"} \subseteq DbFields \ {"shape"}
  BY DEF ShapeFields, DbFields
<1>4. IsDb(d) /\ InNotes(d)
  BY DEF Kept
<1>5. MarkIs(d, b, "registry", v)
  BY <1>3, <1>4, ShapePut
<1> HIDE DEF b
<1>6. IsDb(b) /\ b.shape.ver = d.shape.ver /\ b.shape.index = d.shape.index /\ b.shape.registry = v
  BY <1>3, <1>5 DEF MarkIs
<1>7. /\ b.rel = d.rel /\ b.linked = d.linked /\ b.archived = d.archived /\ b.vectors = d.vectors
      /\ b.searchable = d.searchable /\ b.hashed = d.hashed
  BY <1>3, <1>5 DEF MarkIs
<1>8. InNotes(b)
  BY <1>4, <1>7 DEF InNotes
<1>9. Finished(b) /\ Unarchived(b, gone)
  BY <1>2, <1>6, <1>7 DEF Kept, Finished, Unarchived
<1> QED BY <1>1, <1>6, <1>7, <1>8, <1>9 DEF Kept

(* The steps before the versions.                                           *)
LEMMA KeptTables ==
  ASSUME NEW d, NEW rows, NEW gone, rows \in Seq(RowSet), Kept(d, rows, gone)
  PROVE  Kept(EnsureTables(d), rows, gone) /\ EnsureTables(d).shape.index
<1> DEFINE d1 == RenameOwner(d)
           d2 == BackfillMetadata(d1)
           d3 == WidenHarness(d2)
           d4 == RelationIndex(d3)
           d5 == SeedRegistry(d4)
           d6 == EnsureFts(d5)
<1>1. Kept(d1, rows, gone)
  <2>1. d1 = [d EXCEPT !["shape"] = [d.shape EXCEPT !["owner"] = "agent_id"]]
    BY DEF RenameOwner
  <2> HIDE DEF d1
  <2> QED BY <2>1, KeptShape DEF Follows
<1> HIDE DEF d1
<1>2. Kept(d2, rows, gone)
  <2>1. d2 = [d1 EXCEPT !["hashed"] = Notes]
    BY DEF BackfillMetadata
  <2> HIDE DEF d2
  <2> QED BY <1>1, <2>1, KeptField DEF Follows
<1> HIDE DEF d2
<1>3. Kept(d3, rows, gone)
  <2>1. d3 = [d2 EXCEPT !["shape"] = [d2.shape EXCEPT !["harness"] = "new"]]
    BY DEF WidenHarness
  <2> HIDE DEF d3
  <2> QED BY <1>2, <2>1, KeptShape DEF Follows
<1> HIDE DEF d3
<1>4. Kept(d4, rows, gone) /\ d4.shape.index
  BY <1>3, KeptIndex
<1> HIDE DEF d4
<1>5. Kept(d5, rows, gone) /\ d5.shape.index
  BY <1>4, KeptRegistry
<1> HIDE DEF d5
<1>6. Kept(d6, rows, gone) /\ d6.shape.index
  <2> DEFINE v == IF d5.shape.fts THEN d5.searchable ELSE Notes
             e == [d5 EXCEPT !["shape"] = [d5.shape EXCEPT !["fts"] = TRUE]]
  <2>1. v \subseteq Notes
    BY <1>5 DEF Kept, InNotes
  <2>2. Kept(e, rows, gone) /\ e.shape.index
    <3> HIDE DEF e
    <3>1. e = [d5 EXCEPT !["shape"] = [d5.shape EXCEPT !["fts"] = TRUE]]
      BY DEF e
    <3>2. Follows(d5, e, rows, gone)
      BY <1>5, <3>1, KeptShape
    <3> QED BY <1>5, <3>2 DEF Follows
  <2>3. d6 = [e EXCEPT !["searchable"] = v]
    <3>1. "searchable" # "shape"
      OBVIOUS
    <3> QED BY <3>1 DEF EnsureFts
  <2> HIDE DEF e, v, d6
  <2>4. Follows(e, d6, rows, gone)
    BY <2>1, <2>2, <2>3, KeptField
  <2> QED BY <2>2, <2>4 DEF Follows
<1>7. EnsureTables(d) = d6
  BY DEF EnsureTables, d1, d2, d3, d4, d5
<1> HIDE DEF d6
<1> QED BY <1>6, <1>7

(* The vector tables, the ledger and the triggers.                          *)
LEMMA KeptLedger ==
  ASSUME NEW d, NEW rows, NEW gone, Kept(d, rows, gone), d.shape.index
  PROVE  Kept(EnsureVectorsAndLedger(d), rows, gone) /\ EnsureVectorsAndLedger(d).shape.index
<1> DEFINE d1 == MigrateChunks(d)
           d2 == InitVectors(d1)
           d3 == EnsureLedger(d2)
<1>1. Kept(d1, rows, gone) /\ d1.shape.index
  <2> DEFINE v == IF d.shape.chunk = "old" THEN "new" ELSE d.shape.chunk
  <2>1. d1 = [d EXCEPT !["shape"] = [d.shape EXCEPT !["chunk"] = v]]
    BY DEF MigrateChunks
  <2> HIDE DEF v, d1
  <2>2. Follows(d, d1, rows, gone)
    BY <2>1, KeptShape
  <2> QED BY <2>2 DEF Follows
<1> HIDE DEF d1
<1>2. Kept(d2, rows, gone) /\ d2.shape.index
  <2> DEFINE v == IF d1.shape.chunk = "absent" /\ boot.ext THEN "new" ELSE d1.shape.chunk
  <2>1. d2 = [d1 EXCEPT !["shape"] = [d1.shape EXCEPT !["chunk"] = v]]
    BY DEF InitVectors
  <2> HIDE DEF v, d2
  <2>2. Follows(d1, d2, rows, gone)
    BY <1>1, <2>1, KeptShape
  <2> QED BY <1>1, <2>2 DEF Follows
<1> HIDE DEF d2
<1>3. Kept(d3, rows, gone) /\ d3.shape.index
  <2>1. d3 = [d2 EXCEPT !["shape"] = [d2.shape EXCEPT !["ledger"] = "nullable_cwd"]]
    BY DEF EnsureLedger
  <2> HIDE DEF d3
  <2>2. Follows(d2, d3, rows, gone)
    BY <1>2, <2>1, KeptShape
  <2> QED BY <1>2, <2>2 DEF Follows
<1>4. EnsureVectorsAndLedger(d) = d3
  BY DEF EnsureVectorsAndLedger, RecreateTriggers, d1, d2
<1> HIDE DEF d3
<1> QED BY <1>3, <1>4

(* The same database but for its rows, and as much kept.                    *)
RowsBecome(d, b, r, rows, gone) == Kept(b, rows, gone) /\ b.shape = d.shape /\ b.rel = r

(* The rows of a database whose version 2 is still due.                     *)
LEMMA KeptRows ==
  ASSUME NEW d, NEW rows, NEW gone, rows \in Seq(RowSet), Kept(d, rows, gone), d.shape.ver < 2,
         NEW r \in RenameStages(d.rel) \cup {RenameAll(d.rel)}, NEW b, b = [d EXCEPT !["rel"] = r]
  PROVE  RowsBecome(d, b, r, rows, gone)
<1>1. {"shape", "rel", "linked", "archived", "vectors", "searchable", "hashed"} \subseteq DbFields
  BY DEF DbFields
<1>2. IsDb(d) /\ InNotes(d) /\ d.shape.ver \in 0..3 /\ RowsKept(d.rel, rows) /\ Unarchived(d, gone)
  BY DEF Kept
<1>3. RowsKept(r, rows) /\ (~ Duplicated(d.rel) => ~ Duplicated(r))
  BY <1>2, StageKeeps
<1>4. ColumnIs(d, b, "rel", r)
  BY <1>1, <1>2, FieldPut
<1>5. /\ IsDb(b) /\ b.shape = d.shape /\ b.rel = r /\ b.archived = d.archived /\ b.vectors = d.vectors
      /\ b.searchable = d.searchable /\ b.hashed = d.hashed
  BY <1>1, <1>4 DEF ColumnIs
<1>6. InNotes(b)
  BY <1>2, <1>5 DEF InNotes
<1>7. ~ (b.shape.ver >= 2) /\ b.shape.ver \in 0..3
  BY <1>2, <1>5
<1>8. Finished(b) /\ Unarchived(b, gone)
  BY <1>2, <1>5, <1>7 DEF Finished, Unarchived
<1>9. b.archived \subseteq gone
  BY <1>2, <1>5 DEF Unarchived
<1>10. Heir(b.rel, b.archived \ gone)
  BY <1>9 DEF Heir
<1>11. b.shape.index => ~ Duplicated(b.rel)
  BY <1>3, <1>5 DEF Kept
<1> QED BY <1>3, <1>5, <1>6, <1>7, <1>8, <1>10, <1>11 DEF Kept, RowsBecome

(* Rows, registry and history of such a database.                           *)
LEMMA KeptDrift ==
  ASSUME NEW d, NEW rows, NEW gone, rows \in Seq(RowSet), Kept(d, rows, gone), d.shape.ver < 2, NEW linked
  PROVE  LET b == [d EXCEPT !.rel = RenameAll(@), !.shape.registry = "right", !.linked = linked]
         IN  /\ Kept(b, rows, gone) /\ b.rel = RenameAll(d.rel) /\ b.linked = linked
             /\ b.shape.registry = "right" /\ b.shape.index = d.shape.index /\ b.shape.ver = d.shape.ver
<1> DEFINE r == RenameAll(d.rel)
           d1 == [d EXCEPT !["rel"] = r]
           d2 == [d1 EXCEPT !["shape"] = [d1.shape EXCEPT !["registry"] = "right"]]
           d3 == [d2 EXCEPT !["linked"] = linked]
<1>0. /\ {"ver", "index", "registry"} \subseteq ShapeFields
      /\ {"shape", "rel", "linked", "archived", "vectors", "searchable", "hashed"} \subseteq DbFields
  BY DEF ShapeFields, DbFields
<1>1. [d EXCEPT !.rel = RenameAll(@), !.shape.registry = "right", !.linked = linked] = d3
  OBVIOUS
<1>2. Kept(d1, rows, gone) /\ d1.shape = d.shape /\ d1.rel = r
  <2>1. r \in RenameStages(d.rel) \cup {RenameAll(d.rel)} /\ d1 = [d EXCEPT !["rel"] = r]
    OBVIOUS
  <2> HIDE DEF d1, r
  <2>2. RowsBecome(d, d1, r, rows, gone)
    BY <2>1, KeptRows
  <2> QED BY <2>2 DEF RowsBecome
<1> HIDE DEF d1, r
<1>3. IsDb(d1) /\ InNotes(d1) /\ d1.shape.ver \in 0..3 /\ Unarchived(d1, gone)
  BY <1>2 DEF Kept
<1>4. MarkIs(d1, d2, "registry", "right")
  BY <1>0, <1>3, ShapePut
<1> HIDE DEF d2
<1>5. /\ IsDb(d2) /\ d2.shape.ver = d.shape.ver /\ d2.shape.index = d.shape.index /\ d2.shape.registry = "right"
      /\ d2.rel = r /\ d2.archived = d1.archived /\ d2.vectors = d1.vectors
      /\ d2.searchable = d1.searchable /\ d2.hashed = d1.hashed
  <2>1. /\ IsDb(d2) /\ d2.shape.ver = d.shape.ver /\ d2.shape.index = d.shape.index
        /\ d2.shape.registry = "right"
    BY <1>0, <1>2, <1>4 DEF MarkIs
  <2> QED BY <1>0, <1>2, <1>4, <2>1 DEF MarkIs
<1>6. ColumnIs(d2, d3, "linked", linked)
  BY <1>0, <1>5, FieldPut
<1> HIDE DEF d3
<1>7. /\ IsDb(d3) /\ d3.shape = d2.shape /\ d3.linked = linked
      /\ d3.rel = r /\ d3.archived = d1.archived /\ d3.vectors = d1.vectors
      /\ d3.searchable = d1.searchable /\ d3.hashed = d1.hashed
  BY <1>0, <1>5, <1>6 DEF ColumnIs
<1>8. InNotes(d3)
  BY <1>3, <1>7 DEF InNotes
<1>9. ~ (d3.shape.ver >= 2) /\ d3.shape.ver \in 0..3
  BY <1>2, <1>3, <1>5, <1>7
<1>10. Finished(d3) /\ Unarchived(d3, gone)
  BY <1>2, <1>3, <1>5, <1>7, <1>9 DEF Finished, Unarchived
<1>11. Kept(d3, rows, gone)
  BY <1>2, <1>5, <1>7, <1>8, <1>9, <1>10 DEF Kept
<1> QED BY <1>1, <1>5, <1>7, <1>11 DEF r

(* Version 2 marked.                                                        *)
LEMMA KeptVersion2 ==
  ASSUME NEW d, NEW rows, NEW gone, rows \in Seq(RowSet), Kept(d, rows, gone), d.shape.ver < 2, d.shape.index
  PROVE  Kept(PredicateVersion2(d), rows, gone) /\ PredicateVersion2(d).shape.index
<1> DEFINE e == [d EXCEPT !.rel = RenameAll(@), !.shape.registry = "right", !.linked = TRUE]
           b == [e EXCEPT !["shape"] = [e.shape EXCEPT !["ver"] = 2]]
<1>1. PredicateVersion2(d) = b
  <2> DEFINE r == RenameAll(d.rel)
  <2>1. e = [d EXCEPT !.rel = r, !.shape.registry = "right", !.linked = TRUE]
    OBVIOUS
  <2>2. PredicateVersion2(d) = [d EXCEPT !.rel = r, !.shape.registry = "right", !.linked = TRUE, !.shape.ver = 2]
    BY DEF PredicateVersion2
  <2> HIDE DEF r
  <2> QED BY <2>1, <2>2
<1>2. /\ Kept(e, rows, gone) /\ e.rel = RenameAll(d.rel) /\ e.linked = TRUE
      /\ e.shape.registry = "right" /\ e.shape.index = d.shape.index /\ e.shape.ver = d.shape.ver
  BY KeptDrift
<1>3. \A i \in DOMAIN e.rel : ~ IsAlias(e.rel[i].pred)
  <2>1. Len(rows) \in Nat /\ Relations(d.rel, Len(rows))
    BY LenProperties DEF Kept, RowsKept
  <2>2. \A i \in DOMAIN RenameAll(d.rel) : ~ IsAlias(RenameAll(d.rel)[i].pred)
    BY <2>1, AllRenamed
  <2> HIDE DEF e
  <2> QED BY <1>2, <2>2
<1> HIDE DEF e
<1>4. /\ {"ver", "index", "registry"} \subseteq ShapeFields
      /\ {"rel", "linked", "archived", "vectors", "searchable", "hashed"} \subseteq DbFields \ {"shape"}
  BY DEF ShapeFields, DbFields
<1>5. IsDb(e) /\ InNotes(e) /\ Unarchived(e, gone) /\ d.shape.ver \in 0..3
  BY <1>2 DEF Kept
<1>6. MarkIs(e, b, "ver", 2)
  BY <1>4, <1>5, ShapePut
<1> HIDE DEF b
<1>7. IsDb(b) /\ b.shape.ver = 2 /\ b.shape.index = e.shape.index /\ b.shape.registry = "right"
  <2>1. IsDb(b) /\ b.shape["ver"] = 2 /\ \A h \in ShapeFields : h # "ver" => b.shape[h] = e.shape[h]
    BY <1>6 DEF MarkIs
  <2> QED BY <1>2, <1>4, <2>1
<1>8. /\ b.rel = e.rel /\ b.linked = e.linked /\ b.archived = e.archived /\ b.vectors = e.vectors
      /\ b.searchable = e.searchable /\ b.hashed = e.hashed
  BY <1>4, <1>6 DEF MarkIs
<1>9. InNotes(b)
  BY <1>5, <1>8 DEF InNotes
<1>10. b.shape.index
  BY <1>2, <1>7
<1>11. Finished(b)
  BY <1>2, <1>3, <1>7, <1>8, <1>10 DEF Finished
<1>12. Unarchived(b, gone) /\ b.archived \subseteq gone
  BY <1>2, <1>5, <1>8 DEF Unarchived
<1>13. Heir(b.rel, b.archived \ gone)
  BY <1>12 DEF Heir
<1>14. b.shape.index => ~ Duplicated(b.rel)
  BY <1>2, <1>7, <1>8 DEF Kept
<1>15. RowsKept(b.rel, rows) /\ b.shape.ver \in 0..3
  BY <1>2, <1>7, <1>8 DEF Kept
<1> QED BY <1>1, <1>7, <1>9, <1>10, <1>11, <1>12, <1>13, <1>14, <1>15 DEF Kept

(* Version 1 marked, and version 2 left half-way.                           *)
LEMMA KeptPartial ==
  ASSUME NEW d, NEW rows, NEW gone, rows \in Seq(RowSet), Kept(d, rows, gone), d.shape.ver < 2, d.shape.index,
         NEW b \in Version2Partial(d)
  PROVE  Kept(b, rows, gone) /\ b.shape.index
<1>1. CASE \E r \in RenameStages(d.rel) : b = [d EXCEPT !.rel = r]
  <2>1. PICK r \in RenameStages(d.rel) : b = [d EXCEPT !["rel"] = r]
    BY <1>1
  <2>2. RowsBecome(d, b, r, rows, gone)
    BY <2>1, KeptRows
  <2> QED BY <2>2 DEF RowsBecome
<1>2. CASE \E l \in BOOLEAN : b = [d EXCEPT !.rel = RenameAll(@), !.shape.registry = "right", !.linked = l]
  <2>1. PICK l \in BOOLEAN : b = [d EXCEPT !.rel = RenameAll(@), !.shape.registry = "right", !.linked = l]
    BY <1>2
  <2> DEFINE e == [d EXCEPT !.rel = RenameAll(@), !.shape.registry = "right", !.linked = l]
  <2>2. /\ Kept(e, rows, gone) /\ e.rel = RenameAll(d.rel) /\ e.linked = l
        /\ e.shape.registry = "right" /\ e.shape.index = d.shape.index /\ e.shape.ver = d.shape.ver
    BY KeptDrift
  <2>3. b = e
    BY <2>1
  <2> HIDE DEF e
  <2> QED BY <2>2, <2>3
<1> QED BY <1>1, <1>2 DEF Version2Partial

(* Version 3 completed.                                                     *)
LEMMA KeptLifecycle ==
  ASSUME NEW d, NEW rows, NEW gone, rows \in Seq(RowSet), Kept(d, rows, gone), d.shape.ver = 2
  PROVE  Kept(LifecycleInvariants(d), rows, gone) /\ LifecycleInvariants(d).shape.index
<1> DEFINE rel == WithoutSelf(d.rel)
           go == d.archived \cup SafeTargets(rel)
           se == d.searchable \ go
           ve == d.vectors \ go
           sh == [d.shape EXCEPT !["ver"] = 3]
           b == [d EXCEPT !.rel = rel, !.archived = go, !.searchable = se, !.vectors = ve, !.shape = sh]
<1>1. d = [f \in DbFields |-> d[f]] /\ d.shape = [h \in ShapeFields |-> d.shape[h]]
  BY DEF Kept, IsDb
<1>2. LifecycleInvariants(d) = b
  BY DEF LifecycleInvariants
<1>3. /\ d.shape.index /\ d.shape.registry = "right" /\ d.linked
      /\ \A i \in DOMAIN d.rel : ~ IsAlias(d.rel[i].pred)
  BY DEF Kept, Finished
<1>4. /\ sh = [h \in ShapeFields |-> sh[h]] /\ sh.ver = 3 /\ sh.index = d.shape.index
      /\ sh.registry = d.shape.registry
  BY <1>1 DEF ShapeFields
<1>5. Len(rows) \in Nat /\ Relations(d.rel, Len(rows))
  BY LenProperties DEF Kept, RowsKept
<1>6. /\ Rewrites(d.rel, rel, Len(rows)) /\ DOMAIN rel = DOMAIN d.rel
      /\ \A i \in DOMAIN d.rel : rel[i].pred = d.rel[i].pred
  BY <1>5, SelfKeeps
<1> HIDE DEF rel
<1>7. RowsKept(rel, rows)
  BY <1>6, RewriteKeeps DEF Kept
<1>8. ~ Duplicated(rel)
  BY <1>3, <1>6 DEF Rewrites, Kept
<1>9. d.archived \subseteq gone
  BY DEF Kept, Unarchived
<1>10. Relations(rel, Len(rows))
  BY <1>6 DEF Rewrites
<1>11. Heir(rel, go \ gone)
  <2>1. go \ gone \subseteq SafeTargets(rel)
    BY <1>9
  <2>2. ASSUME NEW s \in SUBSET (go \ gone), s # {}
        PROVE  \E i \in Supersedes(rel) : rel[i].tgt \in s /\ rel[i].src \notin s
    <3>1. s \in SUBSET SafeTargets(rel)
      BY <2>1
    <3> QED BY <1>5, <1>10, <2>2, <3>1, SafeHaveHeirs
  <2> QED BY <2>2 DEF Heir
<1>12. SafeTargets(rel) \subseteq Notes
  <2>1. Supersedes(rel) \subseteq DOMAIN rel
    BY DEF Supersedes, ActiveIds
  <2>2. \A i \in DOMAIN rel : rel[i].tgt \in Notes
    BY <1>10 DEF Relations, RowSet
  <2> QED BY <2>1, <2>2 DEF SafeTargets
<1>13. go \cup ve \cup se \cup d.hashed \subseteq Notes
  BY <1>12 DEF Kept, InNotes
<1> HIDE DEF go, se, ve, sh
<1>14. {"shape", "archived", "vectors", "rel", "linked", "searchable", "hashed"} \subseteq DbFields
  BY DEF DbFields
<1>15. b = [f \in DbFields |-> b[f]]
  BY <1>1
<1>16. /\ b.shape = sh /\ b.archived = go /\ b.vectors = ve
       /\ b.rel = rel /\ b.searchable = se /\ b.hashed = d.hashed /\ b.linked = d.linked
  BY <1>1, <1>14
<1> HIDE DEF b
<1>17. IsDb(b)
  <2>1. b.shape = [h \in ShapeFields |-> b.shape[h]] /\ b.shape.ver \in Nat
    BY <1>4, <1>16
  <2> HIDE <1>1, <1>4, <1>16
  <2> QED BY <1>15, <2>1 DEF IsDb
<1>18. InNotes(b)
  BY <1>13, <1>16 DEF InNotes
<1>19. b.shape.ver = 3 /\ b.shape.index /\ b.shape.registry = "right" /\ b.linked
  BY <1>3, <1>4, <1>16
<1>20. Finished(b)
  <2>1. \A i \in DOMAIN rel : ~ IsAlias(rel[i].pred)
    BY <1>3, <1>6
  <2> QED BY <1>16, <1>19, <2>1 DEF Finished
<1>21. Unarchived(b, gone)
  BY <1>19 DEF Unarchived
<1>22. Heir(b.rel, b.archived \ gone)
  BY <1>11, <1>16
<1>23. RowsKept(b.rel, rows) /\ ~ Duplicated(b.rel) /\ b.shape.ver \in 0..3
  BY <1>7, <1>8, <1>16, <1>19
<1> QED BY <1>2, <1>17, <1>18, <1>19, <1>20, <1>21, <1>22, <1>23 DEF Kept

-----------------------------------------------------------------------------
(* The committed database and the open transaction keep everything; no      *)
(* transaction is open where startup has not begun, was refused or is over; *)
(* the versions run on a database that has its unique index.                *)
KeptInv ==
  /\ past.rows \in Seq(RowSet)
  /\ Kept(disk, past.rows, past.archived) /\ Kept(pending, past.rows, past.archived)
  /\ boot.at \in {"down", "init", "refused", "serving"} => pending = disk
  /\ boot.at \in {"v1", "v2", "v3", "commit"} => pending.shape.index
  /\ RefusedForShape

(* Startup goes on.                                                         *)
LEMMA KeptOn ==
  ASSUME KeptInv, NEW p \in {"v1", "v2", "v3", "commit"}, boot'.at = p, UNCHANGED <<disk, past>>,
         Kept(pending', past.rows, past.archived), pending'.shape.index
  PROVE  KeptInv'
<1>1. past'.rows \in Seq(RowSet) /\ Kept(disk', past'.rows, past'.archived) /\ Kept(pending', past'.rows, past'.archived)
  BY DEF KeptInv
<1>2. /\ boot'.at \in {"down", "init", "refused", "serving"} => pending' = disk'
      /\ boot'.at \in {"v1", "v2", "v3", "commit"} => pending'.shape.index
      /\ boot'.at # "refused"
  OBVIOUS
<1>3. RefusedForShape'
  BY <1>2 DEF RefusedForShape, At
<1> QED BY <1>1, <1>2, <1>3 DEF KeptInv

(* No transaction is open any more.                                         *)
LEMMA KeptShut ==
  ASSUME past'.rows \in Seq(RowSet), Kept(disk', past'.rows, past'.archived), pending' = disk',
         boot'.at \in {"down", "init", "refused", "serving"}, RefusedForShape'
  PROVE  KeptInv'
BY DEF KeptInv

(* The renaming of drifted predicates never meets the unique index.         *)
LEMMA NeverAborts ==
  ASSUME NEW d, NEW rows, NEW gone, rows \in Seq(RowSet), Kept(d, rows, gone)
  PROVE  ~ DriftAborts(d)
<1> SUFFICES ASSUME d.shape.index, NEW r \in RenameStages(d.rel), Duplicated(r) PROVE FALSE
  BY DEF DriftAborts
<1>1. RowsKept(d.rel, rows) /\ ~ Duplicated(d.rel)
  BY DEF Kept
<1> QED BY <1>1, StageKeeps

(* A daemon starts, is refused or crashes.                                  *)
LEMMA StartupKept == ASSUME MigInv, KeptInv, Startup \/ Refuse \/ Crash PROVE KeptInv'
<1>1. CASE Startup
  <2>1. PICK ext \in BOOLEAN : boot' = [at |-> "init", ext |-> ext]
    BY <1>1 DEF Startup
  <2>2. boot'.at = "init" /\ pending' = disk' /\ UNCHANGED <<disk, past>>
    BY <1>1, <2>1 DEF Startup
  <2>3. RefusedForShape'
    BY <2>2 DEF RefusedForShape, At
  <2> QED BY <2>2, <2>3, KeptShut DEF KeptInv
<1>2. CASE Crash
  <2>1. Goto("down") /\ pending' = disk' /\ UNCHANGED <<disk, past>> /\ "down" \in Places
    BY <1>2 DEF Crash, Places
  <2>2. boot'.at = "down"
    BY <2>1, GoneTo
  <2>3. RefusedForShape'
    BY <2>2 DEF RefusedForShape, At
  <2> QED BY <2>1, <2>2, <2>3, KeptShut DEF KeptInv
<1>3. CASE Refuse
  <2>1. Goto("refused") /\ pending' = disk' /\ UNCHANGED <<disk, past>> /\ "refused" \in Places
    BY <1>3 DEF Refuse, Places
  <2>2. boot'.at = "refused" /\ boot'.ext = boot.ext
    <3>1. boot'.at = "refused"
      BY <2>1, GoneTo
    <3>2. boot'.ext = boot.ext
      BY <2>1, MigParts DEF Goto
    <3> QED BY <3>1, <3>2
  <2>3. ~ DriftAborts(pending)
    BY NeverAborts DEF KeptInv
  <2>4. boot.at = "init" /\ Refuses(pending)
    BY <1>3, <2>3 DEF Refuse, At
  <2>5. Refuses(disk)
    BY <2>4 DEF KeptInv
  <2>6. RefusedForShape'
    BY <2>1, <2>2, <2>5 DEF Refuses, RefusedForShape, At
  <2> QED BY <2>1, <2>2, <2>6, KeptShut DEF KeptInv
<1> QED BY <1>1, <1>2, <1>3

(* The steps before the versions.                                           *)
LEMMA SchemaKept == ASSUME MigInv, KeptInv, EnsureSchema PROVE KeptInv'
<1>1. /\ pending' = EnsureVectorsAndLedger(EnsureTables(pending)) /\ Goto("v1") /\ UNCHANGED <<disk, past>>
      /\ "v1" \in Places
  BY DEF EnsureSchema, Places
<1>2. boot'.at = "v1"
  BY <1>1, GoneTo
<1> DEFINE b == EnsureTables(pending)
<1>3. Kept(b, past.rows, past.archived) /\ b.shape.index
  BY KeptTables DEF KeptInv
<1> HIDE DEF b
<1>4. Kept(EnsureVectorsAndLedger(b), past.rows, past.archived) /\ EnsureVectorsAndLedger(b).shape.index
  BY <1>3, KeptLedger
<1>5. pending' = EnsureVectorsAndLedger(b)
  BY <1>1 DEF b
<1> QED BY <1>1, <1>2, <1>4, <1>5, KeptOn

(* Version 1.                                                               *)
LEMMA TrackAKept == ASSUME MigInv, KeptInv, TrackAVersion1 PROVE KeptInv'
<1>1. boot.at = "v1" /\ Goto("v2") /\ UNCHANGED <<disk, past>> /\ "v2" \in Places
  BY DEF TrackAVersion1, At, Places
<1>2. boot'.at = "v2"
  BY <1>1, GoneTo
<1>3. Kept(pending, past.rows, past.archived) /\ pending.shape.index
  BY <1>1 DEF KeptInv
<1>4. CASE pending' = pending
  BY <1>1, <1>2, <1>3, <1>4, KeptOn
<1>5. CASE pending.shape.ver < 1 /\ pending' = [pending EXCEPT !.backlog = {}, !.shape.ver = 1]
  <2> DEFINE e == [pending EXCEPT !["backlog"] = {}]
             b == [e EXCEPT !["shape"] = [e.shape EXCEPT !["ver"] = 1]]
  <2>1. pending' = b
    BY <1>5
  <2>2. Follows(pending, e, past.rows, past.archived)
    BY <1>3, KeptField
  <2> HIDE DEF e
  <2>3. Kept(e, past.rows, past.archived) /\ e.shape.index
    BY <1>3, <2>2 DEF Follows
  <2>4. e.shape = pending.shape
    <3>1. "shape" \in DbFields /\ "backlog" \in DbFields
      BY DEF DbFields
    <3>2. ColumnIs(pending, e, "backlog", {})
      BY <3>1, MigParts, FieldPut DEF e
    <3> QED BY <3>1, <3>2 DEF ColumnIs
  <2>5. /\ {"ver", "index", "registry"} \subseteq ShapeFields
        /\ {"rel", "linked", "archived", "vectors", "searchable", "hashed"} \subseteq DbFields \ {"shape"}
    BY DEF ShapeFields, DbFields
  <2>6. IsDb(e) /\ InNotes(e) /\ Unarchived(e, past.archived) /\ e.shape.ver < 1 /\ e.shape.ver \in Nat
    BY <1>5, <2>3, <2>4 DEF Kept, IsDb
  <2>7. MarkIs(e, b, "ver", 1)
    BY <2>5, <2>6, ShapePut
  <2> HIDE DEF b
  <2>8. IsDb(b) /\ b.shape.ver = 1 /\ b.shape.index = e.shape.index
    <3>1. IsDb(b) /\ b.shape["ver"] = 1 /\ \A h \in ShapeFields : h # "ver" => b.shape[h] = e.shape[h]
      BY <2>7 DEF MarkIs
    <3> QED BY <2>5, <3>1
  <2>9. /\ b.rel = e.rel /\ b.linked = e.linked /\ b.archived = e.archived /\ b.vectors = e.vectors
        /\ b.searchable = e.searchable /\ b.hashed = e.hashed
    BY <2>5, <2>7 DEF MarkIs
  <2>10. InNotes(b)
    BY <2>6, <2>9 DEF InNotes
  <2>11. Unarchived(b, past.archived) /\ b.archived \subseteq past.archived
    BY <2>6, <2>9 DEF Unarchived
  <2>12. Heir(b.rel, b.archived \ past.archived)
    BY <2>11 DEF Heir
  <2>13. Finished(b) /\ b.shape.ver \in 0..3 /\ b.shape.index
    BY <2>3, <2>8 DEF Finished
  <2>14. RowsKept(b.rel, past.rows) /\ ~ Duplicated(b.rel)
    BY <2>3, <2>9 DEF Kept
  <2>15. Kept(b, past.rows, past.archived)
    BY <2>8, <2>10, <2>11, <2>12, <2>13, <2>14 DEF Kept
  <2> QED BY <1>1, <1>2, <2>1, <2>13, <2>15, KeptOn
<1>6. CASE \E left \in SUBSET pending.backlog : pending' = [pending EXCEPT !.backlog = left]
  <2>1. PICK left \in SUBSET pending.backlog : pending' = [pending EXCEPT !["backlog"] = left]
    BY <1>6
  <2>2. Follows(pending, pending', past.rows, past.archived)
    BY <1>3, <2>1, KeptField
  <2> QED BY <1>1, <1>2, <1>3, <2>2, KeptOn DEF Follows
<1> QED BY <1>4, <1>5, <1>6 DEF TrackAVersion1

(* Version 2.                                                               *)
LEMMA PredicateKept == ASSUME MigInv, KeptInv, PredicateVersion PROVE KeptInv'
<1>1. boot.at = "v2" /\ Goto("v3") /\ UNCHANGED <<disk, past>> /\ "v3" \in Places
  BY DEF PredicateVersion, At, Places
<1>2. boot'.at = "v3"
  BY <1>1, GoneTo
<1>3. /\ Kept(pending, past.rows, past.archived) /\ pending.shape.index /\ past.rows \in Seq(RowSet)
      /\ Version2Due(pending) => pending.shape.ver < 2
  BY <1>1 DEF KeptInv, Version2Due
<1>4. CASE pending' = pending
  BY <1>1, <1>2, <1>3, <1>4, KeptOn
<1>5. CASE Version2Due(pending) /\ pending' = PredicateVersion2(pending)
  <2>1. Kept(pending', past.rows, past.archived) /\ pending'.shape.index
    BY <1>3, <1>5, KeptVersion2
  <2> QED BY <1>1, <1>2, <2>1, KeptOn
<1>6. CASE Version2Due(pending) /\ pending' \in Version2Partial(pending)
  <2>1. Kept(pending', past.rows, past.archived) /\ pending'.shape.index
    BY <1>3, <1>6, KeptPartial
  <2> QED BY <1>1, <1>2, <2>1, KeptOn
<1> QED BY <1>4, <1>5, <1>6 DEF PredicateVersion

(* Version 3.                                                               *)
LEMMA LifecycleKept == ASSUME MigInv, KeptInv, LifecycleVersion PROVE KeptInv'
<1>1. boot.at = "v3" /\ Goto("commit") /\ UNCHANGED <<disk, past>> /\ "commit" \in Places
  BY DEF LifecycleVersion, At, Places
<1>2. boot'.at = "commit"
  BY <1>1, GoneTo
<1>3. Kept(pending, past.rows, past.archived) /\ pending.shape.index /\ past.rows \in Seq(RowSet)
  BY <1>1 DEF KeptInv
<1>4. CASE pending' = pending
  BY <1>1, <1>2, <1>3, <1>4, KeptOn
<1>5. CASE Version3Due(pending) /\ pending' = LifecycleInvariants(pending)
  <2>1. Kept(pending', past.rows, past.archived) /\ pending'.shape.index
    BY <1>3, <1>5, KeptLifecycle DEF Version3Due
  <2> QED BY <1>1, <1>2, <2>1, KeptOn
<1> QED BY <1>4, <1>5 DEF LifecycleVersion, RolledBack

(* The commit.                                                              *)
LEMMA CommitKept == ASSUME MigInv, KeptInv, Commit PROVE KeptInv'
<1>1. disk' = pending /\ pending' = pending /\ past' = past /\ Goto("serving") /\ "serving" \in Places
  BY DEF Commit, Places
<1>2. boot'.at = "serving"
  BY <1>1, GoneTo
<1>3. RefusedForShape'
  BY <1>2 DEF RefusedForShape, At
<1>4. past'.rows \in Seq(RowSet) /\ Kept(disk', past'.rows, past'.archived) /\ pending' = disk'
  BY <1>1 DEF KeptInv
<1> QED BY <1>2, <1>3, <1>4, KeptShut

(* Rows b are rows rel with r added, and keep what was written with it.     *)
Adds(rel, b, rows, r) ==
  /\ Append(rows, r) \in Seq(RowSet) /\ RowsKept(b, Append(rows, r))
  /\ ~ Duplicated(rel) => ~ Duplicated(b)
  /\ DOMAIN rel \subseteq DOMAIN b /\ \A i \in DOMAIN rel : b[i] = rel[i]
  /\ \A i \in DOMAIN b : i \notin DOMAIN rel => b[i] = r

(* One more open row, of a triple that no active row has.                   *)
LEMMA RowAdded ==
  ASSUME NEW rel, NEW rows, rows \in Seq(RowSet), RowsKept(rel, rows), NEW r \in RowSet, r.open, ~ IsAlias(r.pred),
         ~ \E i \in ActiveIds(rel) : Triple(rel[i]) = Triple(r),
         NEW b, b = [i \in DOMAIN rel \cup {Len(rows) + 1} |-> IF i = Len(rows) + 1 THEN r ELSE rel[i]]
  PROVE  Adds(rel, b, rows, r)
<1> DEFINE n == Len(rows) + 1
           more == Append(rows, r)
<1>1. /\ Len(rows) \in Nat /\ n \in Nat /\ DOMAIN rel \subseteq 1..Len(rows) /\ n \notin DOMAIN rel
      /\ DOMAIN rows = 1..Len(rows) /\ \A i \in DOMAIN rel : rel[i] \in RowSet
  <2>1. Len(rows) \in Nat /\ DOMAIN rows = 1..Len(rows)
    BY LenProperties
  <2>2. DOMAIN rel \subseteq 1..Len(rows) /\ \A i \in DOMAIN rel : rel[i] \in RowSet
    BY DEF RowsKept, Relations
  <2> QED BY <2>1, <2>2
<1>2. /\ more \in Seq(RowSet) /\ Len(more) = n /\ DOMAIN more = 1..n
      /\ more[n] = r /\ \A i \in 1..Len(rows) : more[i] = rows[i]
  <2>1. more \in Seq(RowSet) /\ Len(more) = n /\ more[n] = r /\ \A i \in 1..Len(rows) : more[i] = rows[i]
    BY AppendProperties
  <2>2. DOMAIN more = 1..n
    BY <2>1, LenProperties
  <2> QED BY <2>1, <2>2
<1>3. /\ DOMAIN b = DOMAIN rel \cup {n} /\ b = [i \in DOMAIN b |-> b[i]]
      /\ b[n] = r /\ \A i \in DOMAIN rel : b[i] = rel[i]
  BY <1>1
<1> HIDE DEF more, n
<1>4. 1..n = 1..Len(rows) \cup {n} /\ n \notin 1..Len(rows)
  BY <1>1 DEF n
<1>5. ActiveIds(b) = ActiveIds(rel) \cup {n}
  BY <1>1, <1>3 DEF ActiveIds
<1>6. Relations(b, n)
  BY <1>1, <1>3, <1>4 DEF Relations
<1>7. Told(b, more)
  <2>1. ASSUME NEW k \in DOMAIN more, k \in DOMAIN b
        PROVE  Said(b[k]) = Said(more[k]) /\ (b[k].open => more[k].open)
    <3>1. CASE k = n
      BY <1>2, <1>3, <3>1
    <3>2. CASE k # n
      <4>1. k \in DOMAIN rel /\ k \in DOMAIN rows /\ b[k] = rel[k] /\ more[k] = rows[k]
        BY <1>1, <1>2, <1>3, <2>1, <3>2
      <4> QED BY <4>1 DEF RowsKept, Told
    <3> QED BY <3>1, <3>2
  <2>2. ASSUME NEW k \in DOMAIN more, k \notin DOMAIN b
        PROVE  more[k].open /\ \E i \in DOMAIN b : Said(b[i]) = Said(more[k])
    <3>1. k \in DOMAIN rows /\ k \notin DOMAIN rel /\ more[k] = rows[k]
      BY <1>1, <1>2, <1>3, <1>4, <2>2
    <3>2. rows[k].open /\ \E i \in DOMAIN rel : Said(rel[i]) = Said(rows[k])
      BY <3>1 DEF RowsKept, Told
    <3> QED BY <1>3, <3>1, <3>2
  <2> QED BY <2>1, <2>2 DEF Told
<1>8. Stands(b, more)
  <2>1. ASSUME NEW k \in DOMAIN more, more[k].open, more[k].src # more[k].tgt
        PROVE  \E i \in ActiveIds(b) : Said(b[i]) = Said(more[k])
    <3>1. CASE k = n
      BY <1>2, <1>3, <1>5, <3>1
    <3>2. CASE k # n
      <4>1. k \in DOMAIN rows /\ more[k] = rows[k]
        BY <1>1, <1>2, <1>4, <3>2
      <4>2. PICK i \in ActiveIds(rel) : Said(rel[i]) = Said(rows[k])
        BY <2>1, <4>1 DEF RowsKept, Stands
      <4>3. i \in ActiveIds(b) /\ b[i] = rel[i]
        BY <1>3, <1>5 DEF ActiveIds
      <4> QED BY <4>1, <4>2, <4>3
    <3> QED BY <3>1, <3>2
  <2> QED BY <2>1 DEF Stands
<1>9. RowsKept(b, more)
  BY <1>2, <1>6, <1>7, <1>8 DEF RowsKept
<1>10. ~ Duplicated(rel) => ~ Duplicated(b)
  <2>1. \A i \in ActiveIds(rel) : b[i] = rel[i] /\ Triple(b[i]) # Triple(r)
    BY <1>3 DEF ActiveIds
  <2>2. ASSUME NEW i \in ActiveIds(b), NEW j \in ActiveIds(b), i # j, Triple(b[i]) = Triple(b[j])
        PROVE  i \in ActiveIds(rel) /\ j \in ActiveIds(rel) /\ Triple(rel[i]) = Triple(rel[j])
    <3>1. i \in ActiveIds(rel) \/ i = n
      BY <1>5
    <3>2. j \in ActiveIds(rel) \/ j = n
      BY <1>5
    <3>3. Triple(b[n]) = Triple(r)
      BY <1>3
    <3>4. i \in ActiveIds(rel) /\ j \in ActiveIds(rel)
      BY <2>1, <2>2, <3>1, <3>2, <3>3
    <3>5. b[i] = rel[i] /\ b[j] = rel[j]
      BY <2>1, <3>4
    <3> QED BY <2>2, <3>4, <3>5
  <2> QED BY <2>2 DEF Duplicated
<1>11. \A i \in DOMAIN b : i \notin DOMAIN rel => b[i] = r
  BY <1>3
<1>12. more = Append(rows, r)
  BY DEF more
<1> QED BY <1>2, <1>3, <1>9, <1>10, <1>11, <1>12 DEF Adds

(* A caller relates two memories.                                           *)
LEMMA RelationKept == ASSUME MigInv, KeptInv, ServeRelation PROVE KeptInv'
<1>1. PICK s \in Notes, t \in Notes :
        LET r == RelRow(s, "resolves", t, TRUE)
            n == Len(past.rows) + 1
        IN  /\ ~ \E i \in ActiveIds(disk.rel) : Triple(disk.rel[i]) = Triple(r)
            /\ disk' = [disk EXCEPT !.rel = [i \in DOMAIN @ \cup {n} |-> IF i = n THEN r ELSE @[i]]]
            /\ past' = [past EXCEPT !.rows = Append(@, r)]
  BY DEF ServeRelation
<1> DEFINE r == RelRow(s, "resolves", t, TRUE)
           n == Len(past.rows) + 1
           rel == [i \in DOMAIN disk.rel \cup {n} |-> IF i = n THEN r ELSE disk.rel[i]]
           rows == Append(past.rows, r)
<1>2. /\ disk' = [disk EXCEPT !["rel"] = rel] /\ past' = [past EXCEPT !["rows"] = rows]
      /\ ~ \E i \in ActiveIds(disk.rel) : Triple(disk.rel[i]) = Triple(r)
  BY <1>1
<1>3. pending' = disk' /\ boot' = boot /\ boot.at = "serving"
  BY DEF ServeRelation, At
<1>4. r \in RowSet /\ r.open /\ r.pred = "resolves"
  BY DEF RowSet, RelRow, Canonical
<1>5. ~ IsAlias(r.pred)
  BY <1>4 DEF IsAlias, PREDICATE_ALIASES
<1>6. past.rows \in Seq(RowSet) /\ Kept(disk, past.rows, past.archived) /\ RowsKept(disk.rel, past.rows)
  BY DEF KeptInv, Kept
<1> HIDE DEF r
<1>7. /\ rows \in Seq(RowSet) /\ RowsKept(rel, rows) /\ (~ Duplicated(disk.rel) => ~ Duplicated(rel))
      /\ DOMAIN disk.rel \subseteq DOMAIN rel /\ \A i \in DOMAIN disk.rel : rel[i] = disk.rel[i]
      /\ \A i \in DOMAIN rel : i \notin DOMAIN disk.rel => rel[i] = r
  <2>1. rel = [i \in DOMAIN disk.rel \cup {Len(past.rows) + 1} |-> IF i = Len(past.rows) + 1 THEN r ELSE disk.rel[i]]
    OBVIOUS
  <2> HIDE DEF rel
  <2>2. Adds(disk.rel, rel, past.rows, r)
    BY <1>2, <1>4, <1>5, <1>6, <2>1, RowAdded
  <2> QED BY <2>2 DEF Adds
<1> HIDE DEF rel, rows
<1>8. past'.rows = rows /\ past'.archived = past.archived
  BY <1>2 DEF MigInv
<1>9. {"shape", "rel", "linked", "archived", "vectors", "searchable", "hashed"} \subseteq DbFields
  BY DEF DbFields
<1>10. IsDb(disk) /\ InNotes(disk)
  BY <1>6 DEF Kept
<1>11. ColumnIs(disk, disk', "rel", rel)
  BY <1>2, <1>9, <1>10, FieldPut
<1>12. /\ IsDb(disk') /\ disk'.shape = disk.shape /\ disk'.rel = rel /\ disk'.linked = disk.linked
       /\ disk'.archived = disk.archived /\ disk'.vectors = disk.vectors
       /\ disk'.searchable = disk.searchable /\ disk'.hashed = disk.hashed
  BY <1>9, <1>11 DEF ColumnIs
<1>13. InNotes(disk')
  BY <1>10, <1>12 DEF InNotes
<1>14. Finished(disk')
  <2>1. (\A i \in DOMAIN disk.rel : ~ IsAlias(disk.rel[i].pred)) => \A i \in DOMAIN rel : ~ IsAlias(rel[i].pred)
    BY <1>5, <1>7
  <2> QED BY <1>6, <1>12, <2>1 DEF Kept, Finished
<1>15. Unarchived(disk', past'.archived)
  BY <1>6, <1>8, <1>12 DEF Kept, Unarchived
<1>16. Heir(disk'.rel, disk'.archived \ past'.archived)
  <2>1. Supersedes(disk.rel) \subseteq Supersedes(rel) /\ \A i \in Supersedes(disk.rel) : rel[i] = disk.rel[i]
    BY <1>7 DEF Supersedes, ActiveIds
  <2>2. Heir(disk.rel, disk.archived \ past.archived)
    BY <1>6 DEF Kept
  <2>3. Heir(rel, disk.archived \ past.archived)
    BY <2>1, <2>2 DEF Heir
  <2> QED BY <1>8, <1>12, <2>3
<1>17. disk'.shape.ver \in 0..3 /\ (disk'.shape.index => ~ Duplicated(disk'.rel))
  BY <1>6, <1>7, <1>12 DEF Kept
<1>18. Kept(disk', past'.rows, past'.archived)
  BY <1>7, <1>8, <1>12, <1>13, <1>14, <1>15, <1>16, <1>17 DEF Kept
<1>19. RefusedForShape'
  BY <1>3 DEF RefusedForShape, At
<1> QED BY <1>3, <1>7, <1>8, <1>18, <1>19, KeptShut

(* A caller archives a memory.                                              *)
LEMMA ArchiveKept == ASSUME MigInv, KeptInv, ServeArchive PROVE KeptInv'
<1>1. PICK m \in Notes \ disk.archived :
        /\ disk' = [disk EXCEPT !.archived = @ \cup {m}, !.searchable = @ \ {m},
                                !.vectors = IF boot.ext THEN @ \ {m} ELSE @]
        /\ past' = [past EXCEPT !.archived = @ \cup {m}]
  BY DEF ServeArchive
<1> DEFINE ar == disk.archived \cup {m}
           se == disk.searchable \ {m}
           ve == IF boot.ext THEN disk.vectors \ {m} ELSE disk.vectors
           pa == past.archived \cup {m}
<1>2. /\ disk' = [disk EXCEPT !.archived = ar, !.searchable = se, !.vectors = ve]
      /\ past' = [past EXCEPT !.archived = pa]
  BY <1>1
<1>3. pending' = disk' /\ boot' = boot /\ boot.at = "serving"
  BY DEF ServeArchive, At
<1>4. Kept(disk, past.rows, past.archived) /\ past.rows \in Seq(RowSet)
  BY DEF KeptInv
<1>5. /\ disk.archived \subseteq past.archived => ar \subseteq pa
      /\ ar \ pa \subseteq disk.archived \ past.archived
  OBVIOUS
<1>6. ar \cup ve \cup se \cup disk.hashed \subseteq Notes
  BY <1>4 DEF Kept, InNotes
<1> HIDE DEF ar, se, ve, pa
<1>7. disk = [f \in DbFields |-> disk[f]] /\ disk.shape = [h \in ShapeFields |-> disk.shape[h]]
  BY MigParts DEF IsDb
<1>8. disk' = [f \in DbFields |-> disk'[f]]
  BY <1>2, <1>7
<1>9. /\ disk'.shape = disk.shape /\ disk'.archived = ar /\ disk'.searchable = se /\ disk'.vectors = ve
      /\ disk'.rel = disk.rel /\ disk'.linked = disk.linked /\ disk'.hashed = disk.hashed
  <2>1. {"shape", "rel", "linked", "archived", "vectors", "searchable", "hashed"} \subseteq DbFields
    BY DEF DbFields
  <2> QED BY <1>2, <1>7, <2>1
<1>10. past'.rows = past.rows /\ past'.archived = pa
  BY <1>2 DEF MigInv
<1>11. IsDb(disk')
  <2>1. disk'.shape = [h \in ShapeFields |-> disk'.shape[h]] /\ disk'.shape.ver \in Nat
    BY <1>7, <1>9, MigParts
  <2> HIDE <1>2, <1>7, <1>9
  <2> QED BY <1>8, <2>1 DEF IsDb
<1>12. InNotes(disk')
  BY <1>6, <1>9 DEF InNotes
<1>13. Finished(disk') /\ disk'.shape.ver \in 0..3 /\ (disk'.shape.index => ~ Duplicated(disk'.rel))
  BY <1>4, <1>9 DEF Kept, Finished
<1>14. Unarchived(disk', past'.archived)
  BY <1>4, <1>5, <1>9, <1>10 DEF Kept, Unarchived
<1>15. Heir(disk'.rel, disk'.archived \ past'.archived)
  <2>1. Heir(disk.rel, disk.archived \ past.archived)
    BY <1>4 DEF Kept
  <2>2. Heir(disk.rel, ar \ pa)
    BY <1>5, <2>1 DEF Heir
  <2> QED BY <1>9, <1>10, <2>2
<1>16. RowsKept(disk'.rel, past'.rows)
  BY <1>4, <1>9, <1>10 DEF Kept
<1>17. Kept(disk', past'.rows, past'.archived)
  BY <1>11, <1>12, <1>13, <1>14, <1>15, <1>16 DEF Kept
<1>18. RefusedForShape'
  BY <1>3 DEF RefusedForShape, At
<1> QED BY <1>3, <1>4, <1>10, <1>17, <1>18, KeptShut

(* What is kept is what FactsKept says.                                     *)
LEMMA KeptIsFacts == ASSUME MigInv, KeptInv PROVE FactsKept
<1>1. /\ Kept(disk, past.rows, past.archived) /\ Kept(pending, past.rows, past.archived)
      /\ past.rows \in Seq(RowSet) /\ RefusedForShape
  BY DEF KeptInv
<1>2. Len(past.rows) \in Nat /\ DOMAIN past.rows = 1..Len(past.rows) /\ \A n \in DOMAIN past.rows : past.rows[n] \in RowSet
  BY <1>1, LenProperties
<1>3. ASSUME NEW d \in {disk, pending}
      PROVE  /\ d.shape.ver \in 0..3 /\ DOMAIN d.rel \subseteq 1..Len(past.rows)
             /\ \A i \in DOMAIN d.rel : d.rel[i] \in RowSet
             /\ d.archived \cup d.vectors \cup d.searchable \cup d.hashed \subseteq Notes
  <2>1. Kept(d, past.rows, past.archived)
    BY <1>1
  <2> QED BY <2>1 DEF Kept, InNotes, RowsKept, Relations
<1>4. MigTypeOK
  <2>1. boot.at \in {"down", "init", "v1", "v2", "v3", "commit", "serving", "refused"}
    BY MigParts DEF Places
  <2> QED BY <1>3, <2>1 DEF MigTypeOK
<1>5. \A i \in DOMAIN disk.rel : disk.rel[i] \in RowSet
  BY <1>3
<1>6. Told(disk.rel, past.rows) /\ Stands(disk.rel, past.rows) /\ Finished(disk)
      /\ (disk.shape.index => ~ Duplicated(disk.rel)) /\ Heir(disk.rel, disk.archived \ past.archived)
  BY <1>1 DEF Kept, RowsKept
<1>7. NoFactLost
  <2>1. ASSUME NEW n \in DOMAIN past.rows, n \in DOMAIN disk.rel
        PROVE  /\ Triple(Renamed(disk.rel[n])) = Triple(Renamed(past.rows[n]))
               /\ Renamed(disk.rel[n]).open => Renamed(past.rows[n]).open
    <3>1. Said(disk.rel[n]) = Said(past.rows[n]) /\ (disk.rel[n].open => past.rows[n].open)
      BY <1>6, <2>1 DEF Told
    <3>2. Renamed(disk.rel[n]).open = disk.rel[n].open /\ Renamed(past.rows[n]).open = past.rows[n].open
      BY <1>2, <1>5, <2>1, RowRenamed
    <3> QED BY <3>1, <3>2 DEF Said
  <2>2. ASSUME NEW n \in DOMAIN past.rows, n \notin DOMAIN disk.rel
        PROVE  /\ Renamed(past.rows[n]).open
               /\ \E i \in DOMAIN disk.rel : Triple(Renamed(disk.rel[i])) = Triple(Renamed(past.rows[n]))
    <3>1. past.rows[n].open /\ \E i \in DOMAIN disk.rel : Said(disk.rel[i]) = Said(past.rows[n])
      BY <1>6, <2>2 DEF Told
    <3>2. Renamed(past.rows[n]).open = past.rows[n].open
      BY <1>2, <2>2, RowRenamed
    <3> QED BY <3>1, <3>2 DEF Said
  <2> QED BY <2>1, <2>2 DEF NoFactLost
<1>8. MarkedIsRenamed
  BY <1>6 DEF MarkedIsRenamed, Finished
<1>9. OneOpenEach
  <2>1. ASSUME disk.shape.ver >= 2, NEW n \in DOMAIN past.rows, past.rows[n].open,
               past.rows[n].src # past.rows[n].tgt
        PROVE  Cardinality({i \in ActiveIds(disk.rel) : Triple(disk.rel[i]) = Triple(Renamed(past.rows[n]))}) = 1
    <3> DEFINE T == Triple(Renamed(past.rows[n]))
               S == {i \in ActiveIds(disk.rel) : Triple(disk.rel[i]) = T}
    <3>1. PICK i \in ActiveIds(disk.rel) : Said(disk.rel[i]) = Said(past.rows[n])
      BY <1>6, <2>1 DEF Stands
    <3>2. disk.shape.index /\ \A j \in DOMAIN disk.rel : ~ IsAlias(disk.rel[j].pred)
      BY <1>6, <2>1 DEF Finished
    <3>3. i \in DOMAIN disk.rel
      BY DEF ActiveIds
    <3>4. Renamed(disk.rel[i]) = disk.rel[i]
      BY <3>2, <3>3 DEF Renamed
    <3>5. i \in S
      BY <3>1, <3>4 DEF Said
    <3>6. \A j \in S : j = i
      BY <1>6, <3>2, <3>5 DEF Duplicated
    <3>7. S = {i}
      BY <3>5, <3>6
    <3> HIDE DEF S
    <3>8. Cardinality(S) = 1
      BY <3>7, FS_Singleton
    <3> QED BY <3>8 DEF S
  <2> QED BY <2>1 DEF OneOpenEach
<1>10. SupersededHasHeir
  BY <1>6 DEF SupersededHasHeir, MigArchived, Heir
<1> QED BY <1>1, <1>4, <1>7, <1>8, <1>9, <1>10 DEF FactsKept

(* A database of any earlier release.                                       *)
LEMMA KeptStart == MigInit => KeptInv
<1> SUFFICES ASSUME MigInit PROVE KeptInv
  OBVIOUS
<1>1. PICK shape \in Shapes : \E rows \in RowsOf(shape) : disk = Found(shape, rows)
  BY DEF MigInit
<1>2. PICK rows \in RowsOf(shape) : disk = Found(shape, rows)
  BY <1>1
<1>3. /\ pending = disk /\ boot = [at |-> "down", ext |-> TRUE]
      /\ past = [rows |-> disk.rel, archived |-> {}]
  BY DEF MigInit
<1>4. /\ shape.ver \in {0, 1, 2} /\ (shape.ver >= 2 => shape = Renaming)
      /\ shape = NewDatabase => ~ shape.index /\ ~ (shape.ver >= 2)
  BY <1>1 DEF Shapes, NewDatabase, Oldest, Swept, Renaming, Torn, Foreign
<1>5. Renaming.index /\ Renaming.registry = "right"
  BY DEF Renaming
<1>6. /\ disk.shape = shape /\ disk.rel = rows /\ disk.linked = (shape.ver >= 2) /\ disk.archived = {}
      /\ disk.vectors \subseteq Notes /\ disk.hashed \subseteq Notes /\ disk.searchable \subseteq Notes
  BY <1>2 DEF Found
<1>7. MigInv
  BY MigStart
<1>8. /\ rows \in Seq(RowSet) /\ (shape.index => ~ Duplicated(rows))
      /\ shape.ver >= 2 => \A i \in DOMAIN rows : ~ IsAlias(rows[i].pred)
  <2>1. CASE shape = NewDatabase
    <3>1. rows = <<>>
      BY <1>2, <2>1 DEF RowsOf
    <3>2. rows \in Seq(RowSet)
      BY <3>1
    <3> QED BY <1>4, <2>1, <3>2
  <2>2. CASE shape # NewDatabase
    <3>1. /\ rows \in UNION {[1..n -> RowSet] : n \in 0..OldRows}
          /\ shape.index => ~ Duplicated(rows)
          /\ shape.ver >= 2 => \A i \in DOMAIN rows : ~ IsAlias(rows[i].pred)
      BY <1>2, <2>2 DEF RowsOf
    <3>2. PICK n \in 0..OldRows : rows \in [1..n -> RowSet]
      BY <3>1
    <3>3. n \in Nat
      BY <3>2
    <3>4. rows \in Seq(RowSet)
      BY <3>2, <3>3, SeqDef
    <3> QED BY <3>1, <3>4
  <2> QED BY <2>1, <2>2
<1>9. RowsKept(rows, rows)
  <2>1. DOMAIN rows = 1..Len(rows) /\ rows \in [1..Len(rows) -> RowSet]
    BY <1>8, LenProperties
  <2>2. Relations(rows, Len(rows))
    BY <2>1 DEF Relations
  <2>3. Told(rows, rows)
    BY DEF Told
  <2>4. Stands(rows, rows)
    BY DEF Stands, ActiveIds
  <2> QED BY <2>2, <2>3, <2>4 DEF RowsKept
<1>10. Kept(disk, rows, {})
  <2>1. IsDb(disk) /\ disk.shape.ver \in 0..3
    BY <1>4, <1>6, <1>7, MigParts
  <2>2. InNotes(disk)
    BY <1>6 DEF InNotes
  <2>3. Finished(disk)
    <3>1. disk.shape.ver >= 2 => disk.shape.index /\ disk.shape.registry = "right" /\ disk.linked
      BY <1>4, <1>5, <1>6
    <3>2. disk.shape.ver >= 2 => \A i \in DOMAIN disk.rel : ~ IsAlias(disk.rel[i].pred)
      BY <1>6, <1>8
    <3> QED BY <3>1, <3>2 DEF Finished
  <2>4. Unarchived(disk, {}) /\ Heir(disk.rel, disk.archived \ {})
    BY <1>6 DEF Unarchived, Heir
  <2>5. RowsKept(disk.rel, rows) /\ (disk.shape.index => ~ Duplicated(disk.rel))
    BY <1>6, <1>8, <1>9
  <2> QED BY <2>1, <2>2, <2>3, <2>4, <2>5 DEF Kept
<1>11. past.rows = rows /\ past.archived = {}
  BY <1>3, <1>6
<1>12. RefusedForShape
  BY <1>3 DEF RefusedForShape, At
<1> QED BY <1>3, <1>8, <1>10, <1>11, <1>12 DEF KeptInv

(* Every step.                                                              *)
LEMMA KeptStep == ASSUME MigInv, KeptInv, [MigNext]_mvars PROVE KeptInv'
<1>1. CASE UNCHANGED mvars
  BY <1>1 DEF mvars, KeptInv, RefusedForShape, At
<1> QED BY <1>1, StartupKept, SchemaKept, TrackAKept, PredicateKept, LifecycleKept, CommitKept,
           RelationKept, ArchiveKept DEF MigNext

(* For any memories, relations, releases, startups, caught errors, crashes  *)
(* and served writes: no relation ever written is lost or said the other    *)
(* way round, of the rows that meet in one triple exactly one stays open, a *)
(* database marked with a version is one whose migration is whole, a memory *)
(* the migration archives is superseded by one it left alone, and startup   *)
(* is refused for a shape only, never for what the rows say.                *)
THEOREM FactsStayKept == MigSpec => []FactsKept
<1>1. MigInit => MigInv /\ KeptInv
  BY MigStart, KeptStart
<1>2. (MigInv /\ KeptInv) /\ [MigNext]_mvars => (MigInv /\ KeptInv)'
  BY MigStep, KeptStep
<1>3. MigInv /\ KeptInv => FactsKept
  BY KeptIsFacts
<1> QED BY <1>1, <1>2, <1>3, PTL DEF MigSpec

-----------------------------------------------------------------------------
(* The ledger of an experiment                                              *)

RunFields == {"spec", "history", "checkpoint", "index", "receipts"}
ClerkFields == {"pc", "chain", "spec"}

IsSeq(s) == \E S : s \in Seq(S)

(* One chain to each place of the history, a step longer than the last.     *)
Grown(h) ==
  /\ IsSeq(h)
  /\ \A i \in 1..Len(h) : IsSeq(h[i]) /\ Len(h[i]) = i

(* Each entry continues the one before along an allowed edge.               *)
Linked(h) ==
  /\ \A i \in 1..Len(h) : Front(h[i]) = IF i = 1 THEN <<>> ELSE h[i - 1]
  /\ \A i \in 2..Len(h) : Last(h[i]).state \in Allowed(Last(h[i - 1]).state)

(* The evidence of a last step bears out its verdict.                       *)
Borne(last, spec) ==
  last.state \in Terminal =>
    \E w \in {a \in last.evidence : a.kind = "DevelopmentWinner"},
       b \in {a \in last.evidence : a.kind = "BlindEvaluation"},
       u \in {a \in last.evidence : a.kind = "BlindUnlock"},
       r \in {a \in last.evidence : a.kind = "BlindQueryManifestReceipt"} :
       /\ {w.run, b.run, u.run, r.run} = {spec}
       /\ b.pipeline = w.pipeline /\ u.winner = w /\ r.winner = w
       /\ r.unlock = u
       /\ b.gates = (last.state = "PROMOTED")

(* The next entry of a history.                                             *)
Continues(h, c, spec) ==
  /\ IsSeq(c) /\ Len(c) = Len(h) + 1
  /\ Front(c) = IF h = <<>> THEN <<>> ELSE Last(h)
  /\ h # <<>> => Last(c).state \in Allowed(Last(Last(h)).state)
  /\ Borne(Last(c), spec)

(* What the orchestrator with the lock finds.                               *)
AtWork(k, l) ==
  /\ k.pc \in {"idle", "spec", "history", "checkpoint", "record", "receipt"}
  /\ k.pc = "spec" =>
       /\ k.spec # NoSpec /\ l.history = <<>> /\ l.index = <<>>
       /\ Continues(<<>>, k.chain, k.spec)
  /\ k.pc = "history" =>
       l.spec # NoSpec /\ l.index = l.history /\ Continues(l.history, k.chain, l.spec)
  /\ k.pc \in {"checkpoint", "record"} =>
       l.history # <<>> /\ k.chain = Last(l.history) /\ Len(l.history) = Len(l.index) + 1
  /\ k.pc = "receipt" => k.chain \in ToSet(l.index)

(* The copies begin the history, the receipts are of copies.                *)
Copied(l) ==
  /\ IsSeq(l.index) /\ IsSeq(l.receipts)
  /\ Len(l.index) <= Len(l.history)
  /\ \A i \in 1..Len(l.index) : l.index[i] = l.history[i]
  /\ ToSet(l.receipts) \subseteq ToSet(l.index)

(* The run directory, whoever is in it.                                     *)
OnFile(l) ==
  /\ l = [f \in RunFields |-> l[f]]
  /\ Grown(l.history) /\ Linked(l.history) /\ Copied(l)
  /\ \A i \in 1..Len(l.history) : Borne(Last(l.history[i]), l.spec)
  /\ l.spec = NoSpec => l.history = <<>>

IsClerk(k) == k = [f \in ClerkFields |-> k[f]]
AllResting(o) == \A p \in Orchestrators \ {o} : clerk[p].pc = "idle"

LedgerInv ==
  /\ OnFile(ledger)
  /\ clerk = [o \in Orchestrators |-> clerk[o]]
  /\ \A o \in Orchestrators : IsClerk(clerk[o]) /\ AtWork(clerk[o], ledger)
  /\ \A o \in Orchestrators : clerk[o].pc # "idle" => AllResting(o)
  /\ BlindReadsAuthorized

(* What a sequence becomes by one more element.                             *)
LEMMA OneMore ==
  ASSUME NEW s, IsSeq(s), NEW e
  PROVE  /\ IsSeq(Append(s, e)) /\ Len(s) \in Nat /\ Len(Append(s, e)) = Len(s) + 1
         /\ Append(s, e) # <<>> /\ Last(Append(s, e)) = e /\ Front(Append(s, e)) = s
         /\ \A i \in 1..Len(s) : Append(s, e)[i] = s[i]
         /\ Append(s, e)[Len(s) + 1] = e
<1>1. PICK S : s \in Seq(S)
  BY DEF IsSeq
<1>2. s \in Seq(S \cup {e}) /\ e \in S \cup {e}
  BY <1>1
<1>3. Append(s, e) \in Seq(S \cup {e}) /\ Len(s) \in Nat
  BY <1>2
<1>4. Len(Append(s, e)) = Len(s) + 1 /\ Append(s, e)[Len(s) + 1] = e
      /\ \A i \in 1..Len(s) : Append(s, e)[i] = s[i]
  BY <1>2
<1>5. Append(s, e) # <<>>
  BY <1>3, <1>4
<1>6. Front(Append(s, e)) = s
  <2>1. Front(Append(s, e)) = SubSeq(Append(s, e), 1, Len(s))
    BY <1>3, <1>4 DEF Front
  <2>2. SubSeq(Append(s, e), 1, Len(s)) \in Seq(S \cup {e})
        /\ Len(SubSeq(Append(s, e), 1, Len(s))) = Len(s)
        /\ \A i \in 1..Len(s) : SubSeq(Append(s, e), 1, Len(s))[i] = s[i]
    BY <1>3, <1>4
  <2>. QED
    BY <2>1, <2>2, <1>2
<1>. QED
  BY <1>3, <1>4, <1>5, <1>6 DEF IsSeq, Last

(* A sequence is empty when it has no length.                               *)
LEMMA NoLength ==
  ASSUME NEW s, IsSeq(s)
  PROVE  Len(s) \in Nat /\ (s = <<>> <=> Len(s) = 0)
BY DEF IsSeq

(* Two sequences that agree at every place are one.                         *)
LEMMA AgreeEverywhere ==
  ASSUME NEW s, NEW t, IsSeq(s), IsSeq(t), Len(s) = Len(t),
         \A i \in 1..Len(s) : s[i] = t[i]
  PROVE  s = t
<1>1. PICK S : s \in Seq(S)
  BY DEF IsSeq
<1>2. PICK T : t \in Seq(T)
  BY DEF IsSeq
<1>. QED
  BY <1>1, <1>2

(* The next entry keeps a history grown and linked.                         *)
LEMMA NextEntry ==
  ASSUME NEW h, NEW c, NEW s, Grown(h), Linked(h), Continues(h, c, s)
  PROVE  Grown(Append(h, c)) /\ Linked(Append(h, c))
<1>1. /\ IsSeq(Append(h, c)) /\ Len(h) \in Nat /\ Len(Append(h, c)) = Len(h) + 1
      /\ \A i \in 1..Len(h) : Append(h, c)[i] = h[i]
      /\ Append(h, c)[Len(h) + 1] = c
  BY OneMore DEF Grown
<1>2. h = <<>> <=> Len(h) = 0
  BY NoLength DEF Grown
<1>3. Grown(Append(h, c))
  <2>1. ASSUME NEW i \in 1..Len(Append(h, c))
        PROVE  IsSeq(Append(h, c)[i]) /\ Len(Append(h, c)[i]) = i
    <3>1. CASE i \in 1..Len(h)
      BY <3>1, <1>1 DEF Grown
    <3>2. CASE i = Len(h) + 1
      BY <3>2, <1>1 DEF Continues
    <3>. QED
      BY <3>1, <3>2, <1>1
  <2>. QED
    BY <2>1, <1>1 DEF Grown
<1>4. ASSUME NEW i \in 1..Len(Append(h, c))
      PROVE  Front(Append(h, c)[i]) = IF i = 1 THEN <<>> ELSE Append(h, c)[i - 1]
  <2>1. CASE i \in 1..Len(h)
    <3>1. i = 1 \/ i - 1 \in 1..Len(h)
      BY <2>1, <1>1
    <3>. QED
      BY <2>1, <3>1, <1>1 DEF Linked
  <2>2. CASE i = Len(h) + 1 /\ i = 1
    BY <2>2, <1>1, <1>2 DEF Continues
  <2>3. CASE i = Len(h) + 1 /\ i # 1
    <3>1. h # <<>> /\ i - 1 = Len(h) /\ Len(h) \in 1..Len(h)
      BY <2>3, <1>1, <1>2
    <3>2. Front(c) = h[Len(h)]
      BY <3>1 DEF Continues, Last
    <3>. QED
      BY <2>3, <3>1, <3>2, <1>1
  <2>. QED
    BY <2>1, <2>2, <2>3, <1>1
<1>5. ASSUME NEW i \in 2..Len(Append(h, c))
      PROVE  Last(Append(h, c)[i]).state \in Allowed(Last(Append(h, c)[i - 1]).state)
  <2>1. CASE i \in 2..Len(h)
    <3>1. i - 1 \in 1..Len(h) /\ i \in 1..Len(h)
      BY <2>1, <1>1
    <3>. QED
      BY <2>1, <3>1, <1>1 DEF Linked
  <2>2. CASE i = Len(h) + 1
    <3>1. h # <<>> /\ i - 1 = Len(h) /\ Len(h) \in 1..Len(h)
      BY <2>2, <1>1, <1>2
    <3>2. Last(c).state \in Allowed(Last(h[Len(h)]).state)
      BY <3>1 DEF Continues, Last
    <3>. QED
      BY <2>2, <3>1, <3>2, <1>1
  <2>. QED
    BY <2>1, <2>2, <1>1
<1>. QED
  BY <1>3, <1>4, <1>5 DEF Linked

(* What _validate_transition_artifact accepts bears the step out.           *)
LEMMA AcceptedIsBorne ==
  ASSUME NEW target, NEW s, NEW e \in Accepted(target, s)
  PROVE  Borne(Step(target, e), s)
<1>. SUFFICES ASSUME target \in Terminal
     PROVE \E w \in {a \in e : a.kind = "DevelopmentWinner"},
              b \in {a \in e : a.kind = "BlindEvaluation"},
              u \in {a \in e : a.kind = "BlindUnlock"},
              r \in {a \in e : a.kind = "BlindQueryManifestReceipt"} :
              /\ {w.run, b.run, u.run, r.run} = {s}
              /\ b.pipeline = w.pipeline /\ u.winner = w /\ r.winner = w
              /\ r.unlock = u
              /\ b.gates = (target = "PROMOTED")
  BY DEF Borne, Step
<1>1. e \in TerminalEvidence(target, s)
  BY DEF Accepted, Terminal, StageKind
<1>2. PICK w \in WinnersOf(s) :
        \E c \in Custody(s, w) : \E d \in Verdicts(target, s, c) :
           e = {c.winner, c.evaluation, c.unlock, c.receipt, d}
  BY <1>1 DEF TerminalEvidence
<1>3. PICK c \in Custody(s, w) : \E d \in Verdicts(target, s, c) :
           e = {c.winner, c.evaluation, c.unlock, c.receipt, d}
  BY <1>2
<1>4. PICK d \in Verdicts(target, s, c) :
           e = {c.winner, c.evaluation, c.unlock, c.receipt, d}
  BY <1>3
<1>5. PICK b \in AllEvaluations, r \in SignedReceipts :
        /\ b.run = s /\ b.pipeline = w.pipeline
        /\ ValidReceipt(r, s, w, r.unlock)
        /\ c = [winner |-> w, evaluation |-> b, unlock |-> r.unlock, receipt |-> r]
  BY DEF Custody
<1>6. c.winner = w /\ c.evaluation = b /\ c.unlock = r.unlock /\ c.receipt = r
  BY <1>5
<1>7. w.kind = "DevelopmentWinner" /\ w.run = s
  BY DEF WinnersOf, AllWinners, Winner, ValidWinner
<1>8. b.kind = "BlindEvaluation" /\ b.gates \in BOOLEAN
  BY DEF AllEvaluations, Evaluation
<1>9. r.unlock = Unlock(s, w) /\ r = ManifestReceipt(s, w, r.unlock, r.file)
  BY <1>5 DEF ValidReceipt, ValidUnlock
<1>10. /\ r.unlock.kind = "BlindUnlock" /\ r.unlock.run = s /\ r.unlock.winner = w
       /\ r.kind = "BlindQueryManifestReceipt" /\ r.run = s /\ r.winner = w
  <2>1. Unlock(s, w).kind = "BlindUnlock" /\ Unlock(s, w).run = s
        /\ Unlock(s, w).winner = w
    BY DEF Unlock
  <2>2. ASSUME NEW u, NEW f
        PROVE  /\ ManifestReceipt(s, w, u, f).kind = "BlindQueryManifestReceipt"
               /\ ManifestReceipt(s, w, u, f).run = s
               /\ ManifestReceipt(s, w, u, f).winner = w
    BY DEF ManifestReceipt
  <2>3. r.unlock.kind = "BlindUnlock" /\ r.unlock.run = s /\ r.unlock.winner = w
    BY <2>1, <1>9
  <2>4. r.kind = "BlindQueryManifestReceipt" /\ r.run = s /\ r.winner = w
    BY <2>2, <1>9
  <2>. QED
    BY <2>3, <2>4
<1>11. b.gates = (target = "PROMOTED")
  <2>1. d.promotion = d.gates /\ d.gates = c.evaluation.gates
        /\ d.promotion = (target = "PROMOTED")
    BY DEF Verdicts, ValidDecision
  <2>. QED
    BY <2>1, <1>6
<1>12. w \in e /\ b \in e /\ r.unlock \in e /\ r \in e
  BY <1>4, <1>6
<1>13. {w.run, b.run, r.unlock.run, r.run} = {s}
  BY <1>7, <1>5, <1>10
<1>. QED
  BY <1>5, <1>7, <1>8, <1>10, <1>11, <1>12, <1>13

(* The orchestrator that holds the lock acts, the others rest.              *)
LEMMA OneActs ==
  ASSUME LedgerInv, NEW o \in Orchestrators, NEW k, AllResting(o), IsClerk(k),
         clerk' = [clerk EXCEPT ![o] = k], OnFile(ledger'), AtWork(k, ledger'),
         signed' = signed, opened' = opened
  PROVE  LedgerInv'
<1>1. clerk' = [p \in Orchestrators |-> clerk'[p]]
  BY DEF LedgerInv
<1>2. clerk'[o] = k /\ \A p \in Orchestrators \ {o} : clerk'[p] = clerk[p]
  BY DEF LedgerInv
<1>3. ASSUME NEW p \in Orchestrators
      PROVE  IsClerk(clerk'[p]) /\ AtWork(clerk'[p], ledger')
  <2>1. CASE p = o
    BY <2>1, <1>2
  <2>2. CASE p # o
    <3>1. clerk'[p].pc = "idle" /\ clerk'[p] = clerk[p]
      BY <2>2, <1>2 DEF AllResting
    <3>2. IsClerk(clerk[p])
      BY DEF LedgerInv
    <3>. QED
      BY <3>1, <3>2 DEF AtWork
  <2>. QED
    BY <2>1, <2>2
<1>4. ASSUME NEW p \in Orchestrators, clerk'[p].pc # "idle"
      PROVE  \A q \in Orchestrators \ {p} : clerk'[q].pc = "idle"
  <2>1. \A q \in Orchestrators \ {o} : clerk'[q].pc = "idle"
    BY <1>2 DEF AllResting
  <2>. QED
    BY <1>4, <2>1
<1>5. BlindReadsAuthorized'
  BY DEF LedgerInv, BlindReadsAuthorized
<1>. QED
  BY <1>1, <1>3, <1>4, <1>5 DEF LedgerInv, AllResting

(* A checkpoint that verifies is the newest entry, and every entry has its  *)
(* copy.                                                                    *)
LEMMA VerifiedIsNewest ==
  ASSUME OnFile(ledger), Verifies(ledger)
  PROVE  /\ ledger.history # <<>> /\ ledger.checkpoint = Last(ledger.history)
         /\ ledger.index = ledger.history
         /\ IsSeq(ledger.checkpoint) /\ Len(ledger.checkpoint) = Len(ledger.history)
<1>. DEFINE h == ledger.history
            x == ledger.index
<1>1. /\ h # <<>> /\ Last(h) = ledger.checkpoint
      /\ x # <<>> /\ Last(x) = ledger.checkpoint
  BY DEF Verifies, Loads
<1>2. /\ IsSeq(h) /\ IsSeq(x) /\ Len(x) <= Len(h)
      /\ \A i \in 1..Len(h) : IsSeq(h[i]) /\ Len(h[i]) = i
      /\ \A i \in 1..Len(x) : x[i] = h[i]
  BY DEF OnFile, Grown, Copied
<1>3. Len(h) \in Nat /\ Len(x) \in Nat /\ Len(h) # 0 /\ Len(x) # 0
  BY <1>1, <1>2, NoLength
<1>4. Len(h) \in 1..Len(h) /\ Len(x) \in 1..Len(x) /\ Len(x) \in 1..Len(h)
  BY <1>2, <1>3
<1>5. Len(Last(h)) = Len(h) /\ IsSeq(Last(h)) /\ Len(Last(x)) = Len(x)
  BY <1>2, <1>4 DEF Last
<1>6. Len(x) = Len(h)
  BY <1>1, <1>5
<1>7. x = h
  BY <1>2, <1>6, AgreeEverywhere
<1>. QED
  BY <1>1, <1>5, <1>7

(* What resting orchestrators leave free.                                   *)
LEMMA RestingClerk == IsClerk(Resting) /\ \A l : AtWork(Resting, l)
BY DEF Resting, IsClerk, ClerkFields, AtWork

(* The run directory starts empty and nobody is in it.                      *)
LEMMA LedgerInitHolds == LedgerInit => LedgerInv
<1>. SUFFICES ASSUME LedgerInit PROVE LedgerInv
  OBVIOUS
<1>1. ledger = EmptyRun /\ clerk = [o \in Orchestrators |-> Resting] /\ opened = {}
  BY DEF LedgerInit
<1>2. /\ EmptyRun = [f \in RunFields |-> EmptyRun[f]]
      /\ EmptyRun.history = <<>> /\ EmptyRun.index = <<>> /\ EmptyRun.receipts = <<>>
  BY DEF EmptyRun, RunFields
<1>3. IsSeq(<<>>) /\ Len(<<>>) = 0 /\ ToSet(<<>>) = {}
  BY DEF IsSeq, ToSet
<1>4. Grown(<<>>) /\ Linked(<<>>)
  BY <1>3 DEF Grown, Linked
<1>5. Copied(EmptyRun)
  BY <1>2, <1>3 DEF Copied
<1>6. OnFile(ledger)
  BY <1>1, <1>2, <1>3, <1>4, <1>5 DEF OnFile
<1>7. \A o \in Orchestrators : clerk[o] = Resting /\ clerk[o].pc = "idle"
  BY <1>1 DEF Resting
<1>8. clerk = [o \in Orchestrators |-> clerk[o]]
  BY <1>1
<1>9. BlindReadsAuthorized
  BY <1>1 DEF BlindReadsAuthorized
<1>. QED
  BY <1>6, <1>7, <1>8, <1>9, RestingClerk DEF LedgerInv

(* initialize finds no history: the spec is written before the first entry. *)
LEMMA InitializeKeeps ==
  ASSUME LedgerInv, NEW o \in Orchestrators, NEW s \in Experiments, Initialize(o, s)
  PROVE  LedgerInv'
<1>. DEFINE c == <<Step("SPEC_FROZEN", {})>>
            k == [pc |-> "spec", spec |-> s, chain |-> c]
<1>1. /\ clerk' = [clerk EXCEPT ![o] = k] /\ ledger' = ledger
      /\ signed' = signed /\ opened' = opened
      /\ ledger.spec = NoSpec /\ ledger.index = <<>>
  BY DEF Initialize
<1>2. AllResting(o)
  BY DEF Initialize, LockFree, AllResting
<1>3. OnFile(ledger) /\ ledger.history = <<>>
  BY <1>1 DEF LedgerInv, OnFile
<1>4. IsSeq(<<>>) /\ Len(<<>>) = 0 /\ c = Append(<<>>, Step("SPEC_FROZEN", {}))
  BY DEF IsSeq
<1>5. IsSeq(c) /\ Len(c) = 1 /\ Front(c) = <<>> /\ Last(c) = Step("SPEC_FROZEN", {})
  <2>1. ASSUME NEW e
        PROVE  /\ IsSeq(Append(<<>>, e)) /\ Len(Append(<<>>, e)) = Len(<<>>) + 1
               /\ Last(Append(<<>>, e)) = e /\ Front(Append(<<>>, e)) = <<>>
    BY <1>4, OneMore
  <2>. HIDE DEF c
  <2>2. Len(c) = 0 + 1
    BY <2>1, <1>4
  <2>. QED
    BY <2>1, <2>2, <1>4
<1>6. Borne(Step("SPEC_FROZEN", {}), s)
  BY DEF Borne, Step, Terminal
<1>7. Continues(<<>>, c, s)
  <2>. HIDE DEF c
  <2>. QED
    BY <1>4, <1>5, <1>6 DEF Continues
<1>8. k.pc = "spec" /\ k.spec = s /\ k.chain = c
  OBVIOUS
<1>9. IsClerk(k)
  BY DEF IsClerk, ClerkFields
<1>10. s # NoSpec
  BY LedgerConstants
<1>. HIDE DEF k, c
<1>11. AtWork(k, ledger')
  BY <1>1, <1>3, <1>7, <1>8, <1>10 DEF AtWork
<1>. QED
  BY <1>1, <1>2, <1>3, <1>9, <1>11, OneActs

(* advance computes the next entry from the checkpoint it verified.         *)
LEMMA AdvanceKeeps ==
  ASSUME LedgerInv, NEW o \in Orchestrators, NEW s \in Experiments, Advance(o, s)
  PROVE  LedgerInv'
<1>1. PICK target \in Allowed(Last(ledger.checkpoint).state) :
      \E e \in Accepted(target, s) :
        clerk' = [clerk EXCEPT ![o] =
          [pc |-> "history", spec |-> s,
           chain |-> Append(ledger.checkpoint, Step(target, e))]]
  BY DEF Advance
<1>2. PICK e \in Accepted(target, s) :
        clerk' = [clerk EXCEPT ![o] =
          [pc |-> "history", spec |-> s,
           chain |-> Append(ledger.checkpoint, Step(target, e))]]
  BY <1>1
<1>. DEFINE c == Append(ledger.checkpoint, Step(target, e))
            k == [pc |-> "history", spec |-> s, chain |-> c]
<1>3. /\ clerk' = [clerk EXCEPT ![o] = k] /\ ledger' = ledger
      /\ signed' = signed /\ opened' = opened
      /\ ledger.spec = s /\ Verifies(ledger)
  BY <1>2 DEF Advance
<1>4. AllResting(o)
  BY DEF Advance, LockFree, AllResting
<1>5. OnFile(ledger)
  BY DEF LedgerInv
<1>6. /\ ledger.history # <<>> /\ ledger.checkpoint = Last(ledger.history)
      /\ ledger.index = ledger.history
      /\ IsSeq(ledger.checkpoint) /\ Len(ledger.checkpoint) = Len(ledger.history)
  BY <1>3, <1>5, VerifiedIsNewest
<1>7. /\ IsSeq(c) /\ Len(c) = Len(ledger.history) + 1
      /\ Front(c) = Last(ledger.history) /\ Last(c) = Step(target, e)
  BY <1>6, OneMore
<1>8. Borne(Step(target, e), s)
  BY AcceptedIsBorne
<1>9. Step(target, e).state \in Allowed(Last(Last(ledger.history)).state)
  BY <1>6 DEF Step
<1>10. k.pc = "history" /\ k.chain = c
  OBVIOUS
<1>11. IsClerk(k)
  BY DEF IsClerk, ClerkFields
<1>12. s # NoSpec
  BY LedgerConstants
<1>. HIDE DEF k, c
<1>13. Continues(ledger.history, c, s)
  BY <1>6, <1>7, <1>8, <1>9 DEF Continues
<1>14. AtWork(k, ledger')
  BY <1>3, <1>6, <1>10, <1>12, <1>13 DEF AtWork
<1>. QED
  BY <1>3, <1>4, <1>5, <1>11, <1>14, OneActs

(* Who is not idle holds the lock, and finds what its step rests on.        *)
LEMMA Holder ==
  ASSUME LedgerInv, NEW o \in Orchestrators, clerk[o].pc # "idle"
  PROVE  AllResting(o) /\ IsClerk(clerk[o]) /\ AtWork(clerk[o], ledger) /\ OnFile(ledger)
BY DEF LedgerInv

(* A later place of the program, the rest of the clerk as it was.           *)
LEMMA MovedOn ==
  ASSUME LedgerInv, NEW o \in Orchestrators, NEW pc, IsClerk(clerk[o])
  PROVE  /\ IsClerk([clerk[o] EXCEPT !.pc = pc])
         /\ [clerk[o] EXCEPT !.pc = pc].pc = pc
         /\ [clerk[o] EXCEPT !.pc = pc].chain = clerk[o].chain
         /\ [clerk EXCEPT ![o].pc = pc] = [clerk EXCEPT ![o] = [clerk[o] EXCEPT !.pc = pc]]
BY DEF IsClerk, ClerkFields, LedgerInv

(* The frozen spec is written into a directory with no history.             *)
LEMMA WriteSpecKeeps ==
  ASSUME LedgerInv, NEW o \in Orchestrators, WriteSpec(o)
  PROVE  LedgerInv'
<1>. DEFINE k == [clerk[o] EXCEPT !.pc = "history"]
<1>1. clerk[o].pc = "spec" /\ clerk[o].pc # "idle"
  BY DEF WriteSpec
<1>2. AllResting(o) /\ IsClerk(clerk[o]) /\ AtWork(clerk[o], ledger) /\ OnFile(ledger)
  BY <1>1, Holder
<1>3. IsClerk(k) /\ k.pc = "history" /\ k.chain = clerk[o].chain
      /\ clerk' = [clerk EXCEPT ![o] = k]
  BY <1>2, MovedOn DEF WriteSpec
<1>4. ledger' = [ledger EXCEPT !.spec = clerk[o].spec] /\ signed' = signed
      /\ opened' = opened
  BY DEF WriteSpec
<1>5. ledger = [f \in RunFields |-> ledger[f]]
  BY <1>2 DEF OnFile
<1>6. /\ ledger' = [f \in RunFields |-> ledger'[f]] /\ ledger'.spec = clerk[o].spec
      /\ ledger'.history = ledger.history /\ ledger'.index = ledger.index
      /\ ledger'.receipts = ledger.receipts
  BY <1>4, <1>5 DEF RunFields
<1>7. /\ clerk[o].spec # NoSpec /\ ledger.history = <<>> /\ ledger.index = <<>>
      /\ Continues(<<>>, clerk[o].chain, clerk[o].spec)
  BY <1>1, <1>2 DEF AtWork
<1>8. Copied(ledger')
  BY <1>2, <1>6 DEF OnFile, Copied
<1>9. Len(<<>>) = 0
  OBVIOUS
<1>10. OnFile(ledger')
  BY <1>2, <1>6, <1>7, <1>8, <1>9 DEF OnFile
<1>. HIDE DEF k
<1>11. AtWork(k, ledger')
  BY <1>3, <1>6, <1>7 DEF AtWork
<1>. QED
  BY <1>2, <1>3, <1>4, <1>10, <1>11, OneActs

(* The entry the holder of the lock computed is the next one.               *)
LEMMA WriteHistoryKeeps ==
  ASSUME LedgerInv, NEW o \in Orchestrators, WriteHistory(o)
  PROVE  LedgerInv'
<1>. DEFINE k == [clerk[o] EXCEPT !.pc = "checkpoint"]
            h == ledger.history
            c == clerk[o].chain
<1>1. clerk[o].pc = "history" /\ clerk[o].pc # "idle"
  BY DEF WriteHistory
<1>2. AllResting(o) /\ IsClerk(clerk[o]) /\ AtWork(clerk[o], ledger) /\ OnFile(ledger)
  BY <1>1, Holder
<1>3. IsClerk(k) /\ k.pc = "checkpoint" /\ k.chain = c /\ clerk' = [clerk EXCEPT ![o] = k]
  BY <1>2, MovedOn DEF WriteHistory
<1>4. ledger' = [ledger EXCEPT !.history = Append(h, c)] /\ signed' = signed
      /\ opened' = opened
  BY DEF WriteHistory
<1>5. ledger = [f \in RunFields |-> ledger[f]]
  BY <1>2 DEF OnFile
<1>6. /\ ledger' = [f \in RunFields |-> ledger'[f]] /\ ledger'.spec = ledger.spec
      /\ ledger'.history = Append(h, c) /\ ledger'.index = ledger.index
      /\ ledger'.receipts = ledger.receipts
  BY <1>4, <1>5 DEF RunFields
<1>7. ledger.spec # NoSpec /\ ledger.index = h /\ Continues(h, c, ledger.spec)
  BY <1>1, <1>2 DEF AtWork
<1>8. Grown(h) /\ Linked(h) /\ IsSeq(h) /\ Copied(ledger)
      /\ \A i \in 1..Len(h) : Borne(Last(h[i]), ledger.spec)
  BY <1>2 DEF OnFile, Grown
<1>9. Grown(Append(h, c)) /\ Linked(Append(h, c))
  BY <1>7, <1>8, NextEntry
<1>10. /\ Len(h) \in Nat /\ Len(Append(h, c)) = Len(h) + 1
       /\ Append(h, c) # <<>> /\ Last(Append(h, c)) = c
       /\ \A i \in 1..Len(h) : Append(h, c)[i] = h[i]
       /\ Append(h, c)[Len(h) + 1] = c
  BY <1>8, OneMore
<1>11. Borne(Last(c), ledger.spec)
  BY <1>7 DEF Continues
<1>. HIDE DEF k, c, h
<1>12. \A i \in 1..Len(Append(h, c)) : Borne(Last(Append(h, c)[i]), ledger.spec)
  <2>. SUFFICES ASSUME NEW i \in 1..Len(Append(h, c))
       PROVE Borne(Last(Append(h, c)[i]), ledger.spec)
    OBVIOUS
  <2>1. i \in 1..Len(h) \/ i = Len(h) + 1
    BY <1>10
  <2>. QED
    BY <2>1, <1>8, <1>10, <1>11
<1>13. Copied(ledger')
  <2>1. /\ IsSeq(ledger'.index) /\ IsSeq(ledger'.receipts)
        /\ ToSet(ledger'.receipts) \subseteq ToSet(ledger'.index)
    BY <1>6, <1>8 DEF Copied
  <2>2. Len(ledger'.index) <= Len(ledger'.history)
        /\ \A i \in 1..Len(ledger'.index) : ledger'.index[i] = ledger'.history[i]
    BY <1>6, <1>7, <1>10
  <2>. QED
    BY <2>1, <2>2 DEF Copied
<1>14. OnFile(ledger')
  BY <1>6, <1>7, <1>9, <1>12, <1>13 DEF OnFile
<1>15. AtWork(k, ledger')
  <2>1. Len(ledger'.history) = Len(ledger'.index) + 1
    BY <1>6, <1>7, <1>10
  <2>. QED
    BY <2>1, <1>3, <1>6, <1>10 DEF AtWork
<1>. QED
  BY <1>2, <1>3, <1>4, <1>14, <1>15, OneActs

(* The checkpoint is not part of the chain.                                 *)
LEMMA WriteCheckpointKeeps ==
  ASSUME LedgerInv, NEW o \in Orchestrators, WriteCheckpoint(o)
  PROVE  LedgerInv'
<1>. DEFINE k == [clerk[o] EXCEPT !.pc = "record"]
<1>1. clerk[o].pc = "checkpoint" /\ clerk[o].pc # "idle"
  BY DEF WriteCheckpoint
<1>2. AllResting(o) /\ IsClerk(clerk[o]) /\ AtWork(clerk[o], ledger) /\ OnFile(ledger)
  BY <1>1, Holder
<1>3. IsClerk(k) /\ k.pc = "record" /\ k.chain = clerk[o].chain
      /\ clerk' = [clerk EXCEPT ![o] = k]
  BY <1>2, MovedOn DEF WriteCheckpoint
<1>4. ledger' = [ledger EXCEPT !.checkpoint = clerk[o].chain] /\ signed' = signed
      /\ opened' = opened
  BY DEF WriteCheckpoint
<1>5. ledger = [f \in RunFields |-> ledger[f]]
  BY <1>2 DEF OnFile
<1>6. /\ ledger' = [f \in RunFields |-> ledger'[f]] /\ ledger'.spec = ledger.spec
      /\ ledger'.history = ledger.history /\ ledger'.index = ledger.index
      /\ ledger'.receipts = ledger.receipts
  BY <1>4, <1>5 DEF RunFields
<1>7. Copied(ledger')
  BY <1>2, <1>6 DEF OnFile, Copied
<1>8. OnFile(ledger')
  BY <1>2, <1>6, <1>7 DEF OnFile
<1>. HIDE DEF k
<1>9. AtWork(k, ledger')
  BY <1>1, <1>2, <1>3, <1>6 DEF AtWork
<1>. QED
  BY <1>2, <1>3, <1>4, <1>8, <1>9, OneActs

(* The copy made after an entry is of that entry.                           *)
LEMMA RecordCheckpointKeeps ==
  ASSUME LedgerInv, NEW o \in Orchestrators, RecordCheckpoint(o)
  PROVE  LedgerInv'
<1>. DEFINE k == [clerk[o] EXCEPT !.pc = "receipt"]
            h == ledger.history
            x == ledger.index
            c == clerk[o].chain
            follows == Front(c) = IF x = <<>> THEN <<>> ELSE Last(x)
<1>1. clerk[o].pc = "record" /\ clerk[o].pc # "idle"
  BY DEF RecordCheckpoint
<1>2. AllResting(o) /\ IsClerk(clerk[o]) /\ AtWork(clerk[o], ledger) /\ OnFile(ledger)
  BY <1>1, Holder
<1>3. CASE follows
  <2>1. /\ ledger' = [ledger EXCEPT !.index = Append(x, c)]
        /\ clerk' = [clerk EXCEPT ![o] = [clerk[o] EXCEPT !.pc = "receipt"]]
        /\ signed' = signed /\ opened' = opened
    BY <1>3 DEF RecordCheckpoint
  <2>2. IsClerk(k) /\ k.pc = "receipt" /\ k.chain = c
    BY <1>2, MovedOn
  <2>3. ledger = [f \in RunFields |-> ledger[f]]
    BY <1>2 DEF OnFile
  <2>4. /\ ledger' = [f \in RunFields |-> ledger'[f]] /\ ledger'.spec = ledger.spec
        /\ ledger'.history = h /\ ledger'.index = Append(x, c)
        /\ ledger'.receipts = ledger.receipts
    BY <2>1, <2>3 DEF RunFields
  <2>5. c = Last(h) /\ Len(h) = Len(x) + 1
    BY <1>1, <1>2 DEF AtWork
  <2>6. /\ IsSeq(x) /\ IsSeq(ledger.receipts) /\ ToSet(ledger.receipts) \subseteq ToSet(x)
        /\ \A i \in 1..Len(x) : x[i] = h[i]
    BY <1>2 DEF OnFile, Copied
  <2>7. /\ IsSeq(Append(x, c)) /\ Len(x) \in Nat /\ Len(Append(x, c)) = Len(x) + 1
        /\ \A i \in 1..Len(x) : Append(x, c)[i] = x[i]
        /\ Append(x, c)[Len(x) + 1] = c
    BY <2>6, OneMore
  <2>8. /\ DOMAIN x = 1..Len(x) /\ DOMAIN Append(x, c) = 1..Len(Append(x, c))
    BY <2>6, <2>7 DEF IsSeq
  <2>9. ToSet(x) \subseteq ToSet(Append(x, c)) /\ c \in ToSet(Append(x, c))
    <3>1. Len(x) + 1 \in DOMAIN Append(x, c) /\ DOMAIN x \subseteq DOMAIN Append(x, c)
      BY <2>7, <2>8
    <3>. QED
      BY <3>1, <2>7, <2>8 DEF ToSet
  <2>10. \A i \in 1..Len(Append(x, c)) : Append(x, c)[i] = h[i]
    <3>. SUFFICES ASSUME NEW i \in 1..Len(Append(x, c)) PROVE Append(x, c)[i] = h[i]
      OBVIOUS
    <3>1. i \in 1..Len(x) \/ i = Len(x) + 1
      BY <2>7
    <3>. QED
      BY <3>1, <2>5, <2>6, <2>7 DEF Last
  <2>. HIDE DEF k, h, x, c, follows
  <2>11. Copied(ledger')
    BY <2>4, <2>5, <2>6, <2>7, <2>9, <2>10 DEF Copied
  <2>12. OnFile(ledger')
    BY <1>2, <2>4, <2>11 DEF OnFile, h
  <2>13. AtWork(k, ledger')
    BY <2>2, <2>4, <2>9 DEF AtWork
  <2>. QED
    BY <1>2, <2>1, <2>2, <2>12, <2>13, OneActs DEF k
<1>4. CASE ~follows
  <2>1. ledger' = ledger /\ clerk' = [clerk EXCEPT ![o] = Resting]
        /\ signed' = signed /\ opened' = opened
    BY <1>4 DEF RecordCheckpoint
  <2>. QED
    BY <1>2, <2>1, OneActs, RestingClerk
<1>. QED
  BY <1>3, <1>4

(* A receipt is of a checkpoint that was copied.                            *)
LEMMA RecordReceiptKeeps ==
  ASSUME LedgerInv, NEW o \in Orchestrators, RecordReceipt(o)
  PROVE  LedgerInv'
<1>. DEFINE x == ledger.receipts
            c == clerk[o].chain
<1>1. clerk[o].pc = "receipt" /\ clerk[o].pc # "idle"
  BY DEF RecordReceipt
<1>2. AllResting(o) /\ IsClerk(clerk[o]) /\ AtWork(clerk[o], ledger) /\ OnFile(ledger)
  BY <1>1, Holder
<1>3. /\ ledger' = [ledger EXCEPT !.receipts = Append(x, c)]
      /\ clerk' = [clerk EXCEPT ![o] = Resting]
      /\ signed' = signed /\ opened' = opened
  BY DEF RecordReceipt
<1>4. ledger = [f \in RunFields |-> ledger[f]]
  BY <1>2 DEF OnFile
<1>5. /\ ledger' = [f \in RunFields |-> ledger'[f]] /\ ledger'.spec = ledger.spec
      /\ ledger'.history = ledger.history /\ ledger'.index = ledger.index
      /\ ledger'.receipts = Append(x, c)
  BY <1>3, <1>4 DEF RunFields
<1>6. c \in ToSet(ledger.index)
  BY <1>1, <1>2 DEF AtWork
<1>7. Copied(ledger)
  BY <1>2 DEF OnFile
<1>8. IsSeq(x) /\ ToSet(x) \subseteq ToSet(ledger.index)
  BY <1>7 DEF Copied
<1>9. /\ IsSeq(Append(x, c)) /\ Len(x) \in Nat /\ Len(Append(x, c)) = Len(x) + 1
      /\ \A i \in 1..Len(x) : Append(x, c)[i] = x[i]
      /\ Append(x, c)[Len(x) + 1] = c
  BY <1>8, OneMore
<1>10. /\ DOMAIN x = 1..Len(x) /\ DOMAIN Append(x, c) = 1..Len(Append(x, c))
  BY <1>8, <1>9 DEF IsSeq
<1>11. ToSet(Append(x, c)) \subseteq ToSet(ledger.index)
  <2>. SUFFICES ASSUME NEW i \in DOMAIN Append(x, c) PROVE Append(x, c)[i] \in ToSet(ledger.index)
    BY DEF ToSet
  <2>1. CASE i = Len(x) + 1
    BY <2>1, <1>6, <1>9
  <2>2. CASE i \in DOMAIN x
    <3>1. x[i] \in ToSet(x)
      BY <2>2 DEF ToSet
    <3>. QED
      BY <2>2, <3>1, <1>8, <1>9, <1>10
  <2>. QED
    BY <2>1, <2>2, <1>9, <1>10
<1>. HIDE DEF x, c
<1>12. Copied(ledger')
  BY <1>5, <1>7, <1>9, <1>11 DEF Copied
<1>13. OnFile(ledger')
  BY <1>2, <1>5, <1>12 DEF OnFile
<1>. QED
  BY <1>2, <1>3, <1>13, OneActs, RestingClerk

(* A kill leaves the files and frees the lock.                              *)
LEMMA KillClerkKeeps ==
  ASSUME LedgerInv, NEW o \in Orchestrators, KillClerk(o)
  PROVE  LedgerInv'
<1>1. clerk[o].pc # "idle" /\ ledger' = ledger /\ clerk' = [clerk EXCEPT ![o] = Resting]
      /\ signed' = signed /\ opened' = opened
  BY DEF KillClerk
<1>2. AllResting(o) /\ OnFile(ledger)
  BY <1>1, Holder
<1>. QED
  BY <1>1, <1>2, OneActs, RestingClerk

(* Nobody moves in the run directory.                                       *)
LEMMA DirectoryRests ==
  ASSUME LedgerInv, ledger' = ledger, clerk' = clerk, BlindReadsAuthorized'
  PROVE  LedgerInv'
BY DEF LedgerInv, AllResting

(* What the custodian signed stays signed.                                  *)
LEMMA SignedStays ==
  ASSUME LedgerInv, BuildBlindUnlock \/ BuildManifestReceipt
  PROVE  LedgerInv'
<1>1. ledger' = ledger /\ clerk' = clerk /\ opened' = opened /\ signed \subseteq signed'
  <2>1. CASE BuildBlindUnlock
    BY <2>1 DEF BuildBlindUnlock
  <2>2. CASE BuildManifestReceipt
    BY <2>2 DEF BuildManifestReceipt
  <2>. QED
    BY <2>1, <2>2
<1>2. BlindReadsAuthorized'
  BY <1>1 DEF LedgerInv, BlindReadsAuthorized
<1>. QED
  BY <1>1, <1>2, DirectoryRests

(* authorize_blind_file lets through what an unlock and its receipt cover.  *)
LEMMA AuthorizeKeeps ==
  ASSUME LedgerInv, AuthorizeBlindFile
  PROVE  LedgerInv'
<1>1. ledger' = ledger /\ clerk' = clerk /\ signed' = signed
  BY DEF AuthorizeBlindFile
<1>2. PICK s \in Experiments, w \in AllWinners, u \in SignedUnlocks,
           r \in SignedReceipts, bytes \in QueryFiles :
       /\ Authorized(s, w, u, r, bytes)
       /\ opened' = opened \cup {[spec |-> s, winner |-> w, bytes |-> bytes]}
  BY DEF AuthorizeBlindFile
<1>3. /\ u \in signed /\ r \in signed /\ u = Unlock(s, w)
      /\ r = ManifestReceipt(s, w, Unlock(s, w), bytes)
  BY <1>2 DEF Authorized, ValidUnlock, ValidReceipt, SignedUnlocks, SignedReceipts
<1>4. BlindReadsAuthorized'
  <2>. SUFFICES ASSUME NEW read \in opened'
       PROVE  /\ Unlock(read.spec, read.winner) \in signed
              /\ ManifestReceipt(read.spec, read.winner,
                                 Unlock(read.spec, read.winner), read.bytes) \in signed
    BY <1>1 DEF BlindReadsAuthorized
  <2>1. CASE read \in opened
    BY <2>1 DEF LedgerInv, BlindReadsAuthorized
  <2>2. CASE read = [spec |-> s, winner |-> w, bytes |-> bytes]
    <3>1. read.spec = s /\ read.winner = w /\ read.bytes = bytes
      BY <2>2
    <3>. QED
      BY <3>1, <1>3
  <2>. QED
    BY <2>1, <2>2, <1>2
<1>. QED
  BY <1>1, <1>4, DirectoryRests

(* LedgerInv is inductive.                                                  *)
LEMMA LedgerNextKeeps ==
  ASSUME LedgerInv, [LedgerNext]_ledgerVars
  PROVE  LedgerInv'
<1>1. ASSUME NEW o \in Orchestrators, NEW s \in Experiments,
             Initialize(o, s) \/ Advance(o, s)
      PROVE  LedgerInv'
  BY <1>1, InitializeKeeps, AdvanceKeeps
<1>2. ASSUME NEW o \in Orchestrators,
             \/ WriteSpec(o) \/ WriteHistory(o) \/ WriteCheckpoint(o)
             \/ RecordCheckpoint(o) \/ RecordReceipt(o) \/ KillClerk(o)
      PROVE  LedgerInv'
  BY <1>2, WriteSpecKeeps, WriteHistoryKeeps, WriteCheckpointKeeps,
     RecordCheckpointKeeps, RecordReceiptKeeps, KillClerkKeeps
<1>3. CASE BuildBlindUnlock \/ BuildManifestReceipt \/ AuthorizeBlindFile
  BY <1>3, SignedStays, AuthorizeKeeps
<1>4. CASE UNCHANGED ledgerVars
  <2>1. ledger' = ledger /\ clerk' = clerk /\ signed' = signed /\ opened' = opened
    BY <1>4 DEF ledgerVars
  <2>2. BlindReadsAuthorized'
    BY <2>1 DEF LedgerInv, BlindReadsAuthorized
  <2>. QED
    BY <2>1, <2>2, DirectoryRests
<1>. QED
  BY <1>1, <1>2, <1>3, <1>4 DEF LedgerNext

(* What agrees at every place up to its end is a prefix.                    *)
LEMMA AgreeingIsPrefix ==
  ASSUME NEW s, NEW t, IsSeq(s), IsSeq(t), Len(s) <= Len(t),
         \A i \in 1..Len(s) : s[i] = t[i]
  PROVE  IsPrefix(s, t)
<1>1. PICK S : s \in Seq(S)
  BY DEF IsSeq
<1>2. PICK T : t \in Seq(T)
  BY DEF IsSeq
<1>3. Len(s) \in Nat /\ Len(t) \in Nat
  BY NoLength
<1>4. SubSeq(s, 1, Len(s)) \in Seq(S) /\ Len(SubSeq(s, 1, Len(s))) = Len(s)
      /\ \A i \in 1..Len(s) : SubSeq(s, 1, Len(s))[i] = s[i]
  BY <1>1, <1>3
<1>5. SubSeq(t, 1, Len(s)) \in Seq(T) /\ Len(SubSeq(t, 1, Len(s))) = Len(s)
      /\ \A i \in 1..Len(s) : SubSeq(t, 1, Len(s))[i] = t[i]
  BY <1>2, <1>3
<1>6. SubSeq(s, 1, Len(s)) = SubSeq(t, 1, Len(s))
  BY <1>4, <1>5
<1>. QED
  BY <1>6 DEF IsPrefix

(* LedgerInv says all that a state of a sound record is to satisfy.         *)
LEMMA LedgerInvImplies ==
  ASSUME LedgerInv
  PROVE  LedgerChained /\ VerdictCoherent /\ BlindReadsAuthorized
<1>1. /\ Grown(ledger.history) /\ Linked(ledger.history) /\ Copied(ledger)
      /\ \A i \in 1..Len(ledger.history) : Borne(Last(ledger.history[i]), ledger.spec)
  BY DEF LedgerInv, OnFile
<1>2. IsPrefix(ledger.index, ledger.history)
  BY <1>1, AgreeingIsPrefix DEF Copied, Grown
<1>3. LedgerChained
  BY <1>1, <1>2 DEF LedgerChained, ChainIntact, Linked, Copied
<1>4. VerdictCoherent
  BY <1>1 DEF VerdictCoherent, Borne
<1>. QED
  BY <1>3, <1>4 DEF LedgerInv

(* A step leaves the history or continues it, and nothing continues a       *)
(* terminal entry.                                                          *)
LEMMA HistoryFinal ==
  ASSUME LedgerInv, [LedgerNext]_ledgerVars
  PROVE  /\ IsPrefix(ledger.history, ledger'.history)
         /\ (ledger.history # <<>> /\ Last(Last(ledger.history)).state \in Terminal
               => ledger'.history = ledger.history)
<1>1. IsSeq(ledger.history) /\ Len(ledger.history) \in Nat
  BY NoLength DEF LedgerInv, OnFile, Grown
<1>2. CASE ledger'.history = ledger.history
  BY <1>1, <1>2, AgreeingIsPrefix
<1>3. ASSUME NEW o \in Orchestrators, WriteHistory(o)
      PROVE  /\ IsPrefix(ledger.history, ledger'.history)
             /\ ~(ledger.history # <<>> /\ Last(Last(ledger.history)).state \in Terminal)
  <2>1. clerk[o].pc = "history" /\ AtWork(clerk[o], ledger) /\ OnFile(ledger)
    BY <1>3, Holder DEF WriteHistory
  <2>2. Continues(ledger.history, clerk[o].chain, ledger.spec)
    BY <2>1 DEF AtWork
  <2>3. ledger'.history = Append(ledger.history, clerk[o].chain)
    BY <1>3, <2>1 DEF WriteHistory, OnFile, RunFields
  <2>4. IsPrefix(ledger.history, ledger'.history)
    <3>1. /\ IsSeq(ledger'.history) /\ Len(ledger'.history) = Len(ledger.history) + 1
          /\ \A i \in 1..Len(ledger.history) : ledger'.history[i] = ledger.history[i]
      BY <1>1, <2>3, OneMore
    <3>2. Len(ledger.history) <= Len(ledger'.history)
      BY <1>1, <3>1
    <3>. QED
      BY <1>1, <3>1, <3>2, AgreeingIsPrefix
  <2>5. \A state \in Terminal : Allowed(state) = {}
    BY DEF Terminal, Allowed
  <2>. QED
    BY <2>2, <2>4, <2>5 DEF Continues
<1>4. ledger = [f \in RunFields |-> ledger[f]]
  BY DEF LedgerInv, OnFile
<1>5. ASSUME NEW o \in Orchestrators,
             \/ WriteSpec(o) \/ WriteCheckpoint(o) \/ RecordCheckpoint(o)
             \/ RecordReceipt(o) \/ KillClerk(o)
      PROVE  ledger'.history = ledger.history
  <2>1. CASE WriteSpec(o)
    BY <2>1, <1>4 DEF WriteSpec, RunFields
  <2>2. CASE WriteCheckpoint(o)
    BY <2>2, <1>4 DEF WriteCheckpoint, RunFields
  <2>3. CASE RecordCheckpoint(o)
    <3>1. ledger' = ledger
          \/ ledger' = [ledger EXCEPT !.index = Append(ledger.index, clerk[o].chain)]
      BY <2>3 DEF RecordCheckpoint
    <3>. QED
      BY <3>1, <1>4 DEF RunFields
  <2>4. CASE RecordReceipt(o)
    BY <2>4, <1>4 DEF RecordReceipt, RunFields
  <2>5. CASE KillClerk(o)
    BY <2>5 DEF KillClerk
  <2>. QED
    BY <1>5, <2>1, <2>2, <2>3, <2>4, <2>5
<1>6. ASSUME \/ \E o \in Orchestrators, s \in Experiments : Initialize(o, s) \/ Advance(o, s)
             \/ BuildBlindUnlock \/ BuildManifestReceipt \/ AuthorizeBlindFile
             \/ UNCHANGED ledgerVars
      PROVE  ledger'.history = ledger.history
  BY <1>6 DEF Initialize, Advance, BuildBlindUnlock, BuildManifestReceipt,
     AuthorizeBlindFile, ledgerVars
<1>. QED
  BY <1>2, <1>3, <1>5, <1>6 DEF LedgerNext

(***************************************************************************)
(* The record of an experiment can be trusted, for any number of           *)
(* orchestrators, experiments and kills: _write_checkpoint,                *)
(* _record_checkpoint and _record_receipt under _run_lock keep one chain   *)
(* of allowed steps with its copies and receipts behind it, a terminal     *)
(* entry carries the evidence its verdict says, blind queries are read     *)
(* only under the unlock and the receipt of the winner named, and history  *)
(* is never rewritten nor continued past PROMOTED or RETAINED.             *)
(***************************************************************************)
THEOREM LedgerStaysSound == LedgerSpec => LedgerSound
<1>1. LedgerInit => LedgerInv
  BY LedgerInitHolds
<1>2. LedgerInv /\ [LedgerNext]_ledgerVars => LedgerInv'
  BY LedgerNextKeeps
<1>3. LedgerInv => LedgerChained /\ VerdictCoherent /\ BlindReadsAuthorized
  BY LedgerInvImplies
<1>4. LedgerInv /\ [LedgerNext]_ledgerVars =>
        [/\ IsPrefix(ledger.history, ledger'.history)
         /\ (ledger.history # <<>> /\ Last(Last(ledger.history)).state \in Terminal
               => ledger'.history = ledger.history)]_ledgerVars
  BY HistoryFinal
<1>. QED
  BY <1>1, <1>2, <1>3, <1>4, PTL DEF LedgerSpec, LedgerSound, TerminalFinal

-----------------------------------------------------------------------------
(* The judging of an experiment                                             *)

(* A ranking is of documents of the corpus.                                 *)
IsBundle(b) == ToSet(b.ranking) \subseteq Docs

Bundled ==
  /\ bundle = [c \in Contenders |-> bundle[c]]
  /\ \A c \in Contenders : bundle[c] # NotWritten => IsBundle(bundle[c])

(* What the files of the judging hold, whatever they were made from.        *)
Shown == Docs \cup SourceDocs

IsAnswer(a) == a.to \in Seq(Shown) /\ a.meant \in [ToSet(a.to) -> Grades]

RawOk(r, a) ==
  /\ r.grades \in [DOMAIN r.grades -> Grades]
  /\ r.under = a.to => r.grades = a.meant

(* The labels against the raw artifacts they name.                          *)
GradeStands(l, d) ==
  d \notin l.arbitrated =>
    /\ Cardinality({j \in Roles : l.from[j].grades[d] = l.grade[d]}) >= 2
    /\ d \in SourceDocs => l.grade[d] = 2

LabelsOk(l) ==
  /\ \A j \in Roles : l.from[j] # NotWritten /\ DOMAIN l.from[j].grades = DOMAIN l.grade
  /\ \A d \in DOMAIN l.grade : GradeStands(l, d)

Handed ==
  /\ matrix # NotWritten => matrix \in SUBSET Shown
  /\ packet = [j \in Roles |-> packet[j]] /\ mapping = [j \in Roles |-> mapping[j]]
  /\ \A j \in Roles : packet[j] # NotWritten => packet[j] \in Seq(Shown)
  /\ \A j \in Roles : mapping[j] # NotWritten => mapping[j] \in Seq(Shown)

Judged ==
  /\ answer = [j \in Roles |-> answer[j]] /\ raw = [j \in Roles |-> raw[j]]
  /\ said = [j \in Roles |-> said[j]]
  /\ \A j \in Roles : answer[j] # NotWritten => IsAnswer(answer[j])
  /\ \A j \in Roles : raw[j] # NotWritten => RawOk(raw[j], said[j])
  /\ labels # NotWritten => LabelsOk(labels)

JudgingInv == Bundled /\ Handed /\ Judged

(* Two of three count two.                                                  *)
LEMMA TwoOfThree ==
  ASSUME NEW a, NEW b, NEW c, a # b, a # c, b # c, NEW S \in SUBSET {a, b, c}
  PROVE  /\ Cardinality(S) \in Nat
         /\ Cardinality(S) >= 2 <=>
              (a \in S /\ b \in S) \/ (a \in S /\ c \in S) \/ (b \in S /\ c \in S)
         /\ Cardinality(S) = 3 <=> S = {a, b, c}
<1>. DEFINE N(T, x) == IF x \in T THEN 1 ELSE 0
<1>1. IsFiniteSet(S \cap {a}) /\ Cardinality(S \cap {a}) = N(S, a)
  <2>1. CASE a \in S
    <3>1. S \cap {a} = {a}
      BY <2>1
    <3>2. IsFiniteSet({a}) /\ Cardinality({a}) = 1
      BY FS_Singleton
    <3>. QED
      BY <2>1, <3>1, <3>2
  <2>2. CASE a \notin S
    <3>1. S \cap {a} = {}
      BY <2>2
    <3>. QED
      BY <2>2, <3>1, FS_EmptySet
  <2>. QED
    BY <2>1, <2>2
<1>2. /\ IsFiniteSet(S \cap {a, b})
      /\ Cardinality(S \cap {a, b}) = N(S, a) + N(S, b)
  <2>1. CASE b \in S
    <3>1. S \cap {a, b} = (S \cap {a}) \cup {b} /\ b \notin S \cap {a}
      BY <2>1
    <3>2. /\ IsFiniteSet((S \cap {a}) \cup {b})
          /\ Cardinality((S \cap {a}) \cup {b}) =
               IF b \in S \cap {a} THEN Cardinality(S \cap {a})
               ELSE Cardinality(S \cap {a}) + 1
      BY <1>1, FS_AddElement
    <3>. QED
      BY <2>1, <3>1, <3>2, <1>1
  <2>2. CASE b \notin S
    <3>1. S \cap {a, b} = S \cap {a}
      BY <2>2
    <3>. QED
      BY <2>2, <3>1, <1>1
  <2>. QED
    BY <2>1, <2>2
<1>3. Cardinality(S) = N(S, a) + N(S, b) + N(S, c)
  <2>1. CASE c \in S
    <3>1. S = (S \cap {a, b}) \cup {c} /\ c \notin S \cap {a, b}
      BY <2>1
    <3>2. Cardinality((S \cap {a, b}) \cup {c}) =
            IF c \in S \cap {a, b} THEN Cardinality(S \cap {a, b})
            ELSE Cardinality(S \cap {a, b}) + 1
      BY <1>2, FS_AddElement
    <3>. QED
      BY <2>1, <3>1, <3>2, <1>2
  <2>2. CASE c \notin S
    <3>1. S = S \cap {a, b}
      BY <2>2
    <3>. QED
      BY <2>2, <3>1, <1>2
  <2>. QED
    BY <2>1, <2>2
<1>4. S = {a, b, c} <=> a \in S /\ b \in S /\ c \in S
  OBVIOUS
<1>. QED
  BY <1>3, <1>4

(* There are three judges.                                                  *)
LEMMA ThreeJudges == \E a, b, c : a # b /\ a # c /\ b # c /\ Roles = {a, b, c}
<1>1. IsFiniteSet(Roles) /\ Cardinality(Roles) = 3
  BY JudgingAssumption
<1>2. PICK f : f \in Bijection(1..3, Roles)
  <2>1. ExistsBijection(1..3, Roles)
    BY <1>1, FS_CardinalityType
  <2>. QED
    BY <2>1 DEF ExistsBijection
<1>3. f \in [1..3 -> Roles] /\ IsInjective(f) /\ \A r \in Roles : \E i \in 1..3 : f[i] = r
  BY <1>2 DEF Bijection, Injection, Surjection
<1>4. 1 \in 1..3 /\ 2 \in 1..3 /\ 3 \in 1..3
  OBVIOUS
<1>5. f[1] # f[2] /\ f[1] # f[3] /\ f[2] # f[3]
  <2>1. DOMAIN f = 1..3
    BY <1>3
  <2>. QED
    BY <1>3, <1>4, <2>1 DEF IsInjective
<1>6. Roles = {f[1], f[2], f[3]}
  <2>1. \A i \in 1..3 : i = 1 \/ i = 2 \/ i = 3
    OBVIOUS
  <2>. QED
    BY <1>3, <1>4, <2>1
<1>. QED
  BY <1>5, <1>6

(* merge_all_judgments: what is not escalated is the grade of two judges.   *)
LEMMA TwoAgree ==
  ASSUME NEW d, \A j \in Roles : raw[j].grades[d] \in Grades, ~ Escalated(d)
  PROVE  /\ Cardinality({j \in Roles : raw[j].grades[d] = MedianOf(d)}) >= 2
         /\ d \in SourceDocs => MedianOf(d) = 2
<1>1. PICK a, b, c : a # b /\ a # c /\ b # c /\ Roles = {a, b, c}
  BY ThreeJudges
<1>. DEFINE x == raw[a].grades[d]
            y == raw[b].grades[d]
            z == raw[c].grades[d]
            Two(p, q, r) == (p /\ q) \/ (p /\ r) \/ (q /\ r)
<1>2. x \in Grades /\ y \in Grades /\ z \in Grades
  BY <1>1
<1>3. ASSUME NEW S \in SUBSET Roles
      PROVE  Cardinality(S) \in Nat /\ (Cardinality(S) >= 2 <=> Two(a \in S, b \in S, c \in S))
  BY <1>1, TwoOfThree
<1>4. ASSUME NEW g \in Nat
      PROVE  AtLeast(d, g) \in Nat /\ (AtLeast(d, g) >= 2 <=> Two(x >= g, y >= g, z >= g))
  <2>. DEFINE S == {j \in Roles : raw[j].grades[d] >= g}
  <2>1. S \in SUBSET Roles
    OBVIOUS
  <2>2. (a \in S <=> x >= g) /\ (b \in S <=> y >= g) /\ (c \in S <=> z >= g)
    BY <1>1
  <2>3. AtLeast(d, g) = Cardinality(S)
    BY DEF AtLeast
  <2>. HIDE DEF S, x, y, z
  <2>. QED
    BY <1>3, <2>1, <2>2, <2>3
<1>5. x = y \/ x = z \/ y = z
  <2>1. SUFFICES ASSUME x # y, x # z, y # z PROVE Cardinality(Votes(d)) = 3
    BY DEF Escalated
  <2>2. Votes(d) = {x, y, z}
    BY <1>1 DEF Votes
  <2>. HIDE DEF x, y, z
  <2>3. {x, y, z} \in SUBSET {x, y, z}
    OBVIOUS
  <2>4. Cardinality({x, y, z}) = 3
    BY <2>1, <2>3, TwoOfThree
  <2>. QED
    BY <2>2, <2>4
<1>. DEFINE P(g) == AtLeast(d, g) >= 2 /\ AtLeast(d, g + 1) < 2
<1>6. \A g \in Grades : P(g) <=> Two(x = g, y = g, z = g)
  <2>. SUFFICES ASSUME NEW g \in Grades PROVE P(g) <=> Two(x = g, y = g, z = g)
    OBVIOUS
  <2>1. g \in Nat /\ g + 1 \in Nat
    BY DEF Grades
  <2>2. P(g) <=> Two(x >= g, y >= g, z >= g) /\ ~ Two(x >= g + 1, y >= g + 1, z >= g + 1)
    <3>1. AtLeast(d, g) >= 2 <=> Two(x >= g, y >= g, z >= g)
      BY <1>4, <2>1
    <3>2. AtLeast(d, g + 1) < 2 <=> ~ Two(x >= g + 1, y >= g + 1, z >= g + 1)
      BY <1>4, <2>1
    <3>. QED
      BY <3>1, <3>2
  <2>3. x \in Nat /\ y \in Nat /\ z \in Nat /\ g \in Nat
    BY <1>2 DEF Grades
  <2>. HIDE DEF P, x, y, z
  <2>. QED
    BY <1>5, <2>2, <2>3
<1>7. \E g \in Grades : P(g)
  <2>. HIDE DEF P, x, y, z
  <2>. QED
    BY <1>2, <1>5, <1>6
<1>8. MedianOf(d) \in Grades /\ P(MedianOf(d))
  BY <1>7 DEF MedianOf
<1>9. Two(x = MedianOf(d), y = MedianOf(d), z = MedianOf(d))
  BY <1>6, <1>8
<1>10. Cardinality({j \in Roles : raw[j].grades[d] = MedianOf(d)}) >= 2
  <2>. DEFINE S == {j \in Roles : raw[j].grades[d] = MedianOf(d)}
  <2>1. S \in SUBSET Roles
    OBVIOUS
  <2>2. (a \in S <=> x = MedianOf(d)) /\ (b \in S <=> y = MedianOf(d))
        /\ (c \in S <=> z = MedianOf(d))
    BY <1>1
  <2>3. Two(a \in S, b \in S, c \in S)
    BY <1>9, <2>2
  <2>. HIDE DEF S
  <2>4. Cardinality(S) >= 2
    BY <1>3, <2>1, <2>3
  <2>. QED
    BY <2>4 DEF S
<1>11. d \in SourceDocs => MedianOf(d) = 2
  <2>1. d \in SourceDocs => ~(MedianOf(d) < 2)
    BY DEF Escalated
  <2>. QED
    BY <1>8, <2>1 DEF Grades
<1>. QED
  BY <1>10, <1>11

(* No file is written at the start.                                         *)
LEMMA JudgingInitHolds == JudgingInit => JudgingInv
<1>. SUFFICES ASSUME JudgingInit PROVE JudgingInv
  OBVIOUS
<1>1. Bundled
  BY DEF JudgingInit, Bundled
<1>2. Handed
  BY DEF JudgingInit, Handed
<1>3. Judged
  BY DEF JudgingInit, Judged
<1>. QED
  BY <1>1, <1>2, <1>3 DEF JudgingInv

(* Each part stands when its variables do.                                  *)
LEMMA HandedStands ==
  ASSUME Handed, matrix' = matrix, packet' = packet, mapping' = mapping
  PROVE  Handed'
BY DEF Handed, Shown

LEMMA JudgedStands ==
  ASSUME Judged, answer' = answer, raw' = raw, said' = said, labels' = labels
  PROVE  Judged'
BY DEF Judged

(* A cell ranks documents of the corpus, run for the first time or again.   *)
LEMMA ExecuteCellKeeps ==
  ASSUME JudgingInv, NEW c \in Contenders, ExecuteCell(c)
  PROVE  JudgingInv'
<1>1. /\ matrix' = matrix /\ packet' = packet /\ mapping' = mapping
      /\ answer' = answer /\ raw' = raw /\ said' = said /\ labels' = labels
  BY DEF ExecuteCell
<1>2. PICK ranking \in Rankings(c), failed \in BOOLEAN :
       bundle' = [bundle EXCEPT ![c] =
         [ranking |-> IF failed THEN <<>> ELSE ranking, failed |-> failed]]
  BY DEF ExecuteCell
<1>. DEFINE b == [ranking |-> IF failed THEN <<>> ELSE ranking, failed |-> failed]
<1>3. b.ranking = IF failed THEN <<>> ELSE ranking
  OBVIOUS
<1>4. ToSet(ranking) \subseteq Docs
  <2>1. PICK n \in Lengths(c) : ranking \in [1..n -> Docs]
    BY DEF Rankings
  <2>. QED
    BY <2>1 DEF ToSet
<1>5. ToSet(<<>>) = {}
  BY DEF ToSet
<1>6. bundle' = [bundle EXCEPT ![c] = b]
  BY <1>2
<1>. HIDE DEF b
<1>7. IsBundle(b)
  BY <1>3, <1>4, <1>5 DEF IsBundle
<1>8. Bundled
  BY DEF JudgingInv
<1>9. Bundled'
  BY <1>6, <1>7, <1>8 DEF Bundled
<1>. QED
  BY <1>1, <1>9, HandedStands, JudgedStands DEF JudgingInv

(* The pool is of documents of the corpus and the declared sources.         *)
LEMMA MatrixKeeps ==
  ASSUME JudgingInv, BuildJudgingMatrix \/ BuildBlindJudgingMatrix
  PROVE  JudgingInv'
<1>1. /\ matrix' = Pool /\ BundlesComplete /\ bundle' = bundle
      /\ packet' = packet /\ mapping' = mapping
      /\ answer' = answer /\ raw' = raw /\ said' = said /\ labels' = labels
  BY DEF BuildJudgingMatrix, BuildBlindJudgingMatrix
<1>2. Entered \subseteq Contenders
  BY JudgingAssumption DEF Entered
<1>3. \A c \in Entered : ToSet(bundle[c].ranking) \subseteq Docs
  BY <1>1, <1>2 DEF JudgingInv, Bundled, IsBundle, BundlesComplete
<1>4. matrix' \in SUBSET Shown
  BY <1>1, <1>3 DEF Shown, Pool, Ranked
<1>5. Handed'
  BY <1>1, <1>4 DEF JudgingInv, Handed, Shown
<1>6. Bundled'
  BY <1>1 DEF JudgingInv, Bundled
<1>. QED
  BY <1>1, <1>5, <1>6, JudgedStands DEF JudgingInv

(* An order of the pool is a list of its documents.                         *)
LEMMA OrderIsList ==
  ASSUME NEW m \in SUBSET Shown, NEW s \in Orders(m)
  PROVE  s \in Seq(Shown)
<1>1. IsFiniteSet(m)
  <2>1. IsFiniteSet(Shown)
    BY JudgingAssumption, FS_Union DEF Shown
  <2>. QED
    BY <2>1, FS_Subset
<1>2. Cardinality(m) \in Nat
  BY <1>1, FS_CardinalityType
<1>3. s \in [1..Cardinality(m) -> Shown]
  BY DEF Orders
<1>. QED
  BY <1>2, <1>3

(* Packet and mapping are lists, also of two different writings.            *)
LEMMA WritePacketKeeps ==
  ASSUME JudgingInv, NEW j \in Roles, WritePacket(j)
  PROVE  JudgingInv'
<1>1. /\ matrix # NotWritten /\ matrix' = matrix /\ bundle' = bundle
      /\ answer' = answer /\ raw' = raw /\ said' = said /\ labels' = labels
  BY DEF WritePacket
<1>0. PICK order \in Orders(matrix) :
        \E pair \in {<<order, order>>} \cup CutShort(order, mapping[j]) :
          /\ packet' = [packet EXCEPT ![j] = pair[1]]
          /\ mapping' = [mapping EXCEPT ![j] = pair[2]]
  BY DEF WritePacket
<1>2. PICK pair \in {<<order, order>>} \cup CutShort(order, mapping[j]) :
          /\ packet' = [packet EXCEPT ![j] = pair[1]]
          /\ mapping' = [mapping EXCEPT ![j] = pair[2]]
  BY <1>0
<1>. DEFINE p == pair[1]
            m == pair[2]
<1>3. /\ packet' = [packet EXCEPT ![j] = p] /\ mapping' = [mapping EXCEPT ![j] = m]
      /\ p \in {order, NotWritten} /\ m \in {order, mapping[j], NotWritten}
  <2>1. \/ pair = <<order, order>> \/ pair = <<NotWritten, mapping[j]>>
        \/ pair = <<order, mapping[j]>> \/ pair = <<order, NotWritten>>
    BY <1>2 DEF CutShort
  <2>. QED
    BY <1>2, <2>1
<1>. HIDE DEF p, m
<1>4. Handed
  BY DEF JudgingInv
<1>5. order \in Seq(Shown)
  BY <1>1, <1>4, OrderIsList DEF Handed
<1>6. Handed'
  <2>1. ASSUME NEW k \in Roles, packet'[k] # NotWritten PROVE packet'[k] \in Seq(Shown)
    <3>1. CASE k = j
      BY <2>1, <3>1, <1>3, <1>4, <1>5 DEF Handed
    <3>2. CASE k # j
      BY <2>1, <3>2, <1>3, <1>4 DEF Handed
    <3>. QED
      BY <3>1, <3>2
  <2>2. ASSUME NEW k \in Roles, mapping'[k] # NotWritten PROVE mapping'[k] \in Seq(Shown)
    <3>1. CASE k = j
      BY <2>2, <3>1, <1>3, <1>4, <1>5 DEF Handed
    <3>2. CASE k # j
      BY <2>2, <3>2, <1>3, <1>4 DEF Handed
    <3>. QED
      BY <3>1, <3>2
  <2>3. /\ packet' = [k \in Roles |-> packet'[k]] /\ mapping' = [k \in Roles |-> mapping'[k]]
        /\ matrix' # NotWritten => matrix' \in SUBSET Shown
    BY <1>1, <1>3, <1>4 DEF Handed
  <2>. QED
    BY <2>1, <2>2, <2>3 DEF Handed, Shown
<1>7. Bundled'
  BY <1>1 DEF JudgingInv, Bundled
<1>. QED
  BY <1>1, <1>6, <1>7, JudgedStands DEF JudgingInv

(* An answer grades what its packet showed.                                 *)
LEMMA AnswerKeeps ==
  ASSUME JudgingInv, NEW j \in Roles, Answer(j)
  PROVE  JudgingInv'
<1>1. /\ packet[j] # NotWritten /\ matrix' = matrix /\ bundle' = bundle
      /\ packet' = packet /\ mapping' = mapping
      /\ raw' = raw /\ said' = said /\ labels' = labels
  BY DEF Answer
<1>2. PICK opinion \in Opinions :
        answer' = [answer EXCEPT ![j] =
          [to |-> packet[j], meant |-> [d \in ToSet(packet[j]) |-> opinion[d]]]]
  BY DEF Answer
<1>. DEFINE meant == [d \in ToSet(packet[j]) |-> opinion[d]]
            a == [to |-> packet[j], meant |-> meant]
<1>3. IsAnswer(a)
  <2>1. packet[j] \in Seq(Shown)
    BY <1>1 DEF JudgingInv, Handed
  <2>2. \A d \in ToSet(packet[j]) : d \in Shown
    BY <2>1 DEF ToSet
  <2>3. opinion \in [Shown -> Grades]
    BY JudgingAssumption DEF Shown
  <2>4. meant \in [ToSet(packet[j]) -> Grades]
    BY <2>2, <2>3
  <2>. HIDE DEF meant
  <2>. QED
    BY <2>1, <2>4 DEF IsAnswer
<1>4. answer' = [answer EXCEPT ![j] = a]
  BY <1>2
<1>. HIDE DEF a
<1>5. Judged
  BY DEF JudgingInv
<1>6. /\ answer' = [k \in Roles |-> answer'[k]]
      /\ \A k \in Roles : answer'[k] # NotWritten => IsAnswer(answer'[k])
  BY <1>3, <1>4, <1>5 DEF Judged
<1>7. Judged'
  BY <1>1, <1>5, <1>6 DEF Judged
<1>8. Bundled'
  BY <1>1 DEF JudgingInv, Bundled
<1>. QED
  BY <1>1, <1>7, <1>8, HandedStands DEF JudgingInv

(* validate_labels: a mapping as long as the answered packet yields grades, *)
(* and the mapping made with that packet takes each back to its document.   *)
LEMMA PositionsRead ==
  ASSUME NEW order \in Seq(Shown), NEW a, IsAnswer(a), Len(a.to) = Len(order)
  PROVE  /\ ByPosition(order, a) \in [ToSet(order) -> Grades]
         /\ order = a.to => ByPosition(order, a) = a.meant
<1>. DEFINE at(d) == CHOOSE i \in DOMAIN order : order[i] = d
<1>1. \A d \in ToSet(order) : \E i \in DOMAIN order : order[i] = d
  BY DEF ToSet
<1>2. \A d \in ToSet(order) : at(d) \in DOMAIN order /\ order[at(d)] = d
  BY <1>1
<1>3. DOMAIN order = DOMAIN a.to
  BY DEF IsAnswer
<1>4. \A i \in DOMAIN a.to : a.to[i] \in ToSet(a.to)
  BY DEF ToSet
<1>5. \A i \in DOMAIN a.to : a.meant[a.to[i]] \in Grades
  BY <1>4 DEF IsAnswer
<1>6. ByPosition(order, a) = [d \in ToSet(order) |-> a.meant[a.to[at(d)]]]
  BY DEF ByPosition, GradeAt
<1>. HIDE DEF at
<1>7. \A d \in ToSet(order) : a.meant[a.to[at(d)]] \in Grades
  BY <1>2, <1>3, <1>5
<1>8. ASSUME order = a.to PROVE ByPosition(order, a) = a.meant
  <2>1. \A d \in ToSet(order) : a.meant[a.to[at(d)]] = a.meant[d]
    BY <1>2, <1>8
  <2>2. a.meant = [d \in ToSet(order) |-> a.meant[d]]
    BY <1>8 DEF IsAnswer
  <2>. QED
    BY <1>6, <2>1, <2>2
<1>. QED
  BY <1>6, <1>7, <1>8

(* ingest_labels takes any answer that is as long as the mapping.           *)
LEMMA IngestKeeps ==
  ASSUME JudgingInv, NEW j \in Roles, IngestLabels(j)
  PROVE  JudgingInv'
<1>1. /\ answer[j] # NotWritten /\ mapping[j] # NotWritten
      /\ Len(answer[j].to) = Len(mapping[j])
      /\ raw' = [raw EXCEPT ![j] = RawLabels(j)] /\ said' = [said EXCEPT ![j] = answer[j]]
      /\ matrix' = matrix /\ bundle' = bundle /\ packet' = packet /\ mapping' = mapping
      /\ answer' = answer /\ labels' = labels
  BY DEF IngestLabels
<1>2. Judged /\ Handed
  BY DEF JudgingInv
<1>3. mapping[j] \in Seq(Shown) /\ IsAnswer(answer[j])
  BY <1>1, <1>2 DEF Judged, Handed
<1>4. /\ ByPosition(mapping[j], answer[j]) \in [ToSet(mapping[j]) -> Grades]
      /\ mapping[j] = answer[j].to => ByPosition(mapping[j], answer[j]) = answer[j].meant
  BY <1>1, <1>3, PositionsRead
<1>5. /\ RawLabels(j).grades = ByPosition(mapping[j], answer[j])
      /\ RawLabels(j).under = mapping[j]
  BY DEF RawLabels
<1>6. RawOk(RawLabels(j), answer[j])
  BY <1>4, <1>5 DEF RawOk
<1>7. /\ raw' = [k \in Roles |-> raw'[k]] /\ said' = [k \in Roles |-> said'[k]]
      /\ raw'[j] = RawLabels(j) /\ said'[j] = answer[j]
      /\ \A k \in Roles \ {j} : raw'[k] = raw[k] /\ said'[k] = said[k]
  BY <1>1, <1>2 DEF Judged
<1>8. ASSUME NEW k \in Roles, raw'[k] # NotWritten PROVE RawOk(raw'[k], said'[k])
  <2>1. CASE k = j
    BY <2>1, <1>6, <1>7
  <2>2. CASE k # j
    BY <1>8, <2>2, <1>2, <1>7 DEF Judged
  <2>. QED
    BY <2>1, <2>2
<1>9. Judged'
  BY <1>1, <1>2, <1>7, <1>8 DEF Judged
<1>10. Bundled'
  BY <1>1 DEF JudgingInv, Bundled
<1>. QED
  BY <1>1, <1>9, <1>10, HandedStands DEF JudgingInv

(* The merged grade is the arbitrator's or that of two judges.              *)
LEMMA MergeKeeps ==
  ASSUME JudgingInv, MergeJudgments
  PROVE  JudgingInv'
<1>1. /\ RawComplete /\ matrix' = matrix /\ bundle' = bundle
      /\ packet' = packet /\ mapping' = mapping
      /\ answer' = answer /\ raw' = raw /\ said' = said
  BY DEF MergeJudgments
<1>2. PICK ruling \in [{d \in matrix : Escalated(d)} -> Grades] :
       labels' =
         [grade |-> [d \in matrix |->
            IF d \in DOMAIN ruling THEN ruling[d] ELSE MedianOf(d)],
          arbitrated |-> DOMAIN ruling, from |-> raw]
  BY DEF MergeJudgments
<1>3. Judged
  BY DEF JudgingInv
<1>4. DOMAIN ruling = {d \in matrix : Escalated(d)}
  OBVIOUS
<1>5. /\ labels'.from = raw /\ labels'.arbitrated = {d \in matrix : Escalated(d)}
      /\ DOMAIN labels'.grade = matrix
      /\ \A d \in matrix : ~ Escalated(d) => labels'.grade[d] = MedianOf(d)
  BY <1>2, <1>4
<1>6. /\ \A j \in Roles : raw[j] # NotWritten /\ DOMAIN raw[j].grades = matrix
      /\ \A j \in Roles : raw[j].grades \in [matrix -> Grades]
  BY <1>1, <1>3 DEF RawComplete, Judged, RawOk
<1>7. ASSUME NEW d \in matrix PROVE GradeStands(labels', d)
  <2>1. SUFFICES ASSUME ~ Escalated(d)
        PROVE  /\ Cardinality({j \in Roles : labels'.from[j].grades[d] = labels'.grade[d]}) >= 2
               /\ d \in SourceDocs => labels'.grade[d] = 2
    BY <1>5 DEF GradeStands
  <2>2. \A j \in Roles : raw[j].grades[d] \in Grades
    BY <1>6
  <2>3. /\ Cardinality({j \in Roles : raw[j].grades[d] = MedianOf(d)}) >= 2
        /\ d \in SourceDocs => MedianOf(d) = 2
    BY <2>1, <2>2, TwoAgree
  <2>. QED
    BY <1>5, <2>1, <2>3
<1>8. LabelsOk(labels')
  BY <1>5, <1>6, <1>7 DEF LabelsOk
<1>9. Judged'
  BY <1>1, <1>3, <1>8 DEF Judged
<1>10. Bundled'
  BY <1>1 DEF JudgingInv, Bundled
<1>. QED
  BY <1>1, <1>9, <1>10, HandedStands DEF JudgingInv

(* An evaluation closes its phase and leaves the next one no files.         *)
LEMMA EvaluateKeeps ==
  ASSUME JudgingInv, EvaluateDevelopment \/ EvaluateBlind
  PROVE  JudgingInv'
<1>1. NoFiles
  BY DEF EvaluateDevelopment, EvaluateBlind
<1>2. Bundled' /\ Handed'
  BY <1>1 DEF NoFiles, Bundled, Handed
<1>3. Judged'
  BY <1>1 DEF NoFiles, Judged
<1>. QED
  BY <1>2, <1>3 DEF JudgingInv

(* JudgingInv is inductive.                                                 *)
LEMMA JudgingNextKeeps ==
  ASSUME JudgingInv, [JudgingNext]_judgingVars
  PROVE  JudgingInv'
<1>1. ASSUME NEW c \in Contenders, ExecuteCell(c)
      PROVE  JudgingInv'
  BY <1>1, ExecuteCellKeeps
<1>2. ASSUME NEW j \in Roles, WritePacket(j) \/ Answer(j) \/ IngestLabels(j)
      PROVE  JudgingInv'
  BY <1>2, WritePacketKeeps, AnswerKeeps, IngestKeeps
<1>3. CASE \/ BuildJudgingMatrix \/ BuildBlindJudgingMatrix
           \/ MergeJudgments \/ EvaluateDevelopment \/ EvaluateBlind
  BY <1>3, MatrixKeeps, MergeKeeps, EvaluateKeeps
<1>4. CASE UNCHANGED judgingVars
  <2>1. /\ bundle' = bundle /\ matrix' = matrix /\ packet' = packet /\ mapping' = mapping
        /\ answer' = answer /\ raw' = raw /\ said' = said /\ labels' = labels
    BY <1>4 DEF judgingVars
  <2>2. Bundled'
    BY <2>1 DEF JudgingInv, Bundled
  <2>. QED
    BY <2>1, <2>2, HandedStands, JudgedStands DEF JudgingInv
<1>. QED
  BY <1>1, <1>2, <1>3, <1>4 DEF JudgingNext

(* What the evaluation asks of the files as they are, against the labels.   *)
JudgedAtEnd(d) ==
  /\ d \in DOMAIN labels.grade
  /\ \A j \in Roles : d \in DOMAIN raw[j].grades
  /\ Settled(d, [j \in Roles |-> raw[j].grades[d]])
  /\ (\A j \in Roles : InStep(j)) => Settled(d, [j \in Roles |-> said[j].meant[d]])

(* A phase ends only on labels merged from the raw artifacts of that        *)
(* moment, over a pool that holds what was ranked.                          *)
LEMMA PhaseEndsJudged ==
  ASSUME JudgingInv, [JudgingNext]_judgingVars, phase' # phase
  PROVE  \A d \in Ranked : JudgedAtEnd(d)
<1>1. Evaluable
  BY DEF JudgingNext, judgingVars, ExecuteCell, BuildJudgingMatrix,
     BuildBlindJudgingMatrix, WritePacket, Answer, IngestLabels,
     MergeJudgments, EvaluateDevelopment, EvaluateBlind
<1>2. /\ labels # NotWritten /\ DOMAIN labels.grade = matrix /\ labels.from = raw
      /\ Ranked \subseteq matrix
  BY <1>1 DEF Evaluable, LabelsCoverPool, PoolIdentity, Pool
<1>3. LabelsOk(labels) /\ \A j \in Roles : raw[j] # NotWritten => RawOk(raw[j], said[j])
  BY <1>2 DEF JudgingInv, Judged
<1>4. \A j \in Roles : raw[j] # NotWritten /\ DOMAIN raw[j].grades = matrix
  BY <1>2, <1>3 DEF LabelsOk
<1>. SUFFICES ASSUME NEW d \in Ranked PROVE JudgedAtEnd(d)
  OBVIOUS
<1>5. d \in DOMAIN labels.grade /\ \A j \in Roles : d \in DOMAIN raw[j].grades
  BY <1>2, <1>4
<1>6. d \notin labels.arbitrated =>
        /\ Cardinality({j \in Roles : raw[j].grades[d] = labels.grade[d]}) >= 2
        /\ d \in SourceDocs => labels.grade[d] = 2
  BY <1>2, <1>3, <1>5 DEF LabelsOk, GradeStands
<1>7. ASSUME NEW given, \A j \in Roles : given[j] = raw[j].grades[d]
      PROVE  Settled(d, given)
  <2>1. {j \in Roles : given[j] = labels.grade[d]}
          = {j \in Roles : raw[j].grades[d] = labels.grade[d]}
    BY <1>7
  <2>. QED
    BY <2>1, <1>6 DEF Settled
<1>8. Settled(d, [j \in Roles |-> raw[j].grades[d]])
  BY <1>7
<1>9. ASSUME \A j \in Roles : InStep(j)
      PROVE  Settled(d, [j \in Roles |-> said[j].meant[d]])
  <2>1. \A j \in Roles : raw[j].grades = said[j].meant
    BY <1>3, <1>4, <1>9 DEF RawOk, InStep
  <2>. QED
    BY <1>7, <2>1
<1>. QED
  BY <1>5, <1>8, <1>9 DEF JudgedAtEnd

(***************************************************************************)
(* A bakeoff is decided on judgments that stand, for any number of         *)
(* contenders and documents and whatever is made, answered, ingested or    *)
(* merged again in between: an evaluation ends only on labels merged from  *)
(* the three raw artifacts of that moment, over all its contenders rank,   *)
(* with no disagreement left to stand (_load_raw_labels,                   *)
(* validate_bundle_rankings, merge_judgments).  That a grade lies on the   *)
(* document its judge meant it for needs the mapping of the packet it      *)
(* answered, which the code does not ask for.                              *)
(***************************************************************************)
THEOREM JudgingStaysSound == JudgingSpec => JudgingSound
<1>1. JudgingInit => JudgingInv
  BY JudgingInitHolds
<1>2. JudgingInv /\ [JudgingNext]_judgingVars => JudgingInv'
  BY JudgingNextKeeps
<1>3. JudgingInv => LabelsLandWhereGiven
  BY DEF JudgingInv, Judged, RawOk, InStep, LabelsLandWhereGiven
<1>4. JudgingInv /\ [JudgingNext]_judgingVars =>
        [phase' # phase =>
           \A d \in Ranked :
             /\ d \in DOMAIN labels.grade
             /\ \A j \in Roles : d \in DOMAIN raw[j].grades
             /\ Settled(d, [j \in Roles |-> raw[j].grades[d]])
             /\ (\A j \in Roles : InStep(j)) =>
                   Settled(d, [j \in Roles |-> said[j].meant[d]])
        ]_judgingVars
  BY PhaseEndsJudged DEF JudgedAtEnd
<1>. QED
  BY <1>1, <1>2, <1>3, <1>4, PTL DEF JudgingSpec, JudgingSound, WinnerFullyJudged

-----------------------------------------------------------------------------
(* Lists of documents and their orders                                      *)

RankedBy(S, P) ==
  /\ P \in [S -> SUBSET S]
  /\ \A x \in S : x \notin P[x]
  /\ \A x, y \in S : x \in P[y] => P[x] \subseteq P[y]
  /\ \A x, y \in S : x # y => x \in P[y] \/ y \in P[x]

(* Of two things in a strict order, the one behind has more ahead of it.    *)
LEMMA MoreAhead ==
  ASSUME NEW S, IsFiniteSet(S), NEW P, RankedBy(S, P), NEW x \in S, NEW y \in S, x \in P[y]
  PROVE  Cardinality(P[x]) < Cardinality(P[y])
<1>1. P[y] \in SUBSET S /\ P[x] \in SUBSET P[y] /\ P[x] # P[y]
  BY DEF RankedBy
<1>2. IsFiniteSet(P[y]) /\ Cardinality(P[y]) \in Nat
  BY <1>1, FS_Subset, FS_CardinalityType
<1>3. IsFiniteSet(P[x]) /\ Cardinality(P[x]) \in Nat /\ Cardinality(P[x]) <= Cardinality(P[y])
  BY <1>1, <1>2, FS_Subset, FS_CardinalityType
<1>4. Cardinality(P[x]) # Cardinality(P[y])
  BY <1>1, <1>2, FS_Subset
<1> QED BY <1>2, <1>3, <1>4

(* The numbers of things ahead are 0 to one less than the size of the set.  *)
LEMMA EveryRankHeld ==
  ASSUME NEW S, IsFiniteSet(S), NEW P, RankedBy(S, P)
  PROVE  /\ \A x \in S : Cardinality(P[x]) + 1 \in 1..Cardinality(S)
         /\ \A i \in 1..Cardinality(S) : \E x \in S : Cardinality(P[x]) = i - 1
         /\ \A x, y \in S : Cardinality(P[x]) = Cardinality(P[y]) => x = y
<1> DEFINE n == Cardinality(S)
           f == [x \in S |-> Cardinality(P[x]) + 1]
<1>1. n \in Nat
  BY FS_CardinalityType
<1>2. ASSUME NEW x \in S PROVE Cardinality(P[x]) \in Nat /\ Cardinality(P[x]) < n
  <2>1. P[x] \in SUBSET S /\ P[x] # S
    BY DEF RankedBy
  <2>2. IsFiniteSet(P[x]) /\ Cardinality(P[x]) <= n /\ Cardinality(P[x]) # n
    BY <2>1, FS_Subset
  <2>3. Cardinality(P[x]) \in Nat
    BY <2>2, FS_CardinalityType
  <2> QED BY <1>1, <2>2, <2>3
<1>3. ASSUME NEW x \in S, NEW y \in S, x # y PROVE Cardinality(P[x]) # Cardinality(P[y])
  <2>1. x \in P[y] \/ y \in P[x]
    BY <1>3 DEF RankedBy
  <2>2. Cardinality(P[x]) < Cardinality(P[y]) \/ Cardinality(P[y]) < Cardinality(P[x])
    BY <2>1, MoreAhead
  <2> QED BY <2>2, <1>2
<1>4. f \in [S -> 1..n] /\ \A x, y \in S : f[x] = f[y] => x = y
  BY <1>1, <1>2, <1>3
<1>5. f \in Injection(S, 1..n)
  BY <1>4 DEF Injection, IsInjective
<1>6. IsFiniteSet(1..n) /\ Cardinality(1..n) = n
  BY <1>1, FS_Interval
<1>7. f \in Surjection(S, 1..n)
  BY <1>5, <1>6, FS_Injection
<1>8. ASSUME NEW i \in 1..n PROVE \E x \in S : Cardinality(P[x]) = i - 1
  <2>1. PICK x \in S : f[x] = i
    BY <1>7 DEF Surjection
  <2>2. Cardinality(P[x]) + 1 = i
    BY <2>1
  <2> QED BY <1>2, <2>2
<1>9. \A x \in S : Cardinality(P[x]) + 1 \in 1..n
  BY <1>1, <1>2
<1> QED BY <1>3, <1>8, <1>9

(* So one thing is first, and so on.                                        *)
LEMMA RankHeld ==
  ASSUME NEW S, IsFiniteSet(S), NEW P, RankedBy(S, P), NEW i \in 1..Cardinality(S)
  PROVE  \E x \in S : Cardinality(P[x]) = i - 1
BY EveryRankHeld

(* A finite set of integers has a lowest one,                               *)
LEMMA LowestThere ==
  ASSUME NEW V, IsFiniteSet(V), V \subseteq Int, V # {}
  PROVE  \E v \in V : \A w \in V : v <= w
<1> DEFINE P == [v \in V |-> {w \in V : w < v}]
<1>1. RankedBy(V, P)
  <2>1. \A x, y \in V : x # y => x < y \/ y < x
    OBVIOUS
  <2>2. P \in [V -> SUBSET V] /\ \A x \in V : x \notin P[x]
    OBVIOUS
  <2>3. \A x, y \in V : x \in P[y] => P[x] \subseteq P[y]
    <3> SUFFICES ASSUME NEW x \in V, NEW y \in V, x \in P[y], NEW w \in P[x] PROVE w \in P[y]
      OBVIOUS
    <3> QED OBVIOUS
  <2>4. \A x, y \in V : x # y => x \in P[y] \/ y \in P[x]
    BY <2>1
  <2> QED BY <2>2, <2>3, <2>4 DEF RankedBy
<1>2. Cardinality(V) \in Nat /\ Cardinality(V) # 0
  BY FS_CardinalityType, FS_EmptySet
<1>3. \E v \in V : Cardinality(P[v]) = 1 - 1
  <2> HIDE DEF P
  <2>1. \A i \in 1..Cardinality(V) : \E v \in V : Cardinality(P[v]) = i - 1
    BY <1>1, RankHeld
  <2> QED BY <1>2, <2>1
<1>4. PICK v \in V : Cardinality(P[v]) = 0
  BY <1>3
<1>5. IsFiniteSet(P[v])
  BY FS_Subset
<1>6. P[v] = {}
  BY <1>4, <1>5, FS_EmptySet
<1> QED BY <1>6

(* and a highest one.                                                       *)
LEMMA HighestThere ==
  ASSUME NEW V, IsFiniteSet(V), V \subseteq Int, V # {}
  PROVE  \E v \in V : \A w \in V : v >= w
<1> DEFINE P == [v \in V |-> {w \in V : w > v}]
<1>1. RankedBy(V, P)
  <2>1. \A x, y \in V : x # y => x < y \/ y < x
    OBVIOUS
  <2>2. P \in [V -> SUBSET V] /\ \A x \in V : x \notin P[x]
    OBVIOUS
  <2>3. \A x, y \in V : x \in P[y] => P[x] \subseteq P[y]
    <3> SUFFICES ASSUME NEW x \in V, NEW y \in V, x \in P[y], NEW w \in P[x] PROVE w \in P[y]
      OBVIOUS
    <3> QED OBVIOUS
  <2>4. \A x, y \in V : x # y => x \in P[y] \/ y \in P[x]
    BY <2>1
  <2> QED BY <2>2, <2>3, <2>4 DEF RankedBy
<1>2. Cardinality(V) \in Nat /\ Cardinality(V) # 0
  BY FS_CardinalityType, FS_EmptySet
<1>3. \E v \in V : Cardinality(P[v]) = 1 - 1
  <2> HIDE DEF P
  <2>1. \A i \in 1..Cardinality(V) : \E v \in V : Cardinality(P[v]) = i - 1
    BY <1>1, RankHeld
  <2> QED BY <1>2, <2>1
<1>4. PICK v \in V : Cardinality(P[v]) = 0
  BY <1>3
<1>5. IsFiniteSet(P[v])
  BY FS_Subset
<1>6. P[v] = {}
  BY <1>4, <1>5, FS_EmptySet
<1> QED BY <1>6

(* What a function makes of a finite set is finite.                         *)
LEMMA FiniteImage ==
  ASSUME NEW S, IsFiniteSet(S), NEW f
  PROVE  IsFiniteSet({f[x] : x \in S})
<1> DEFINE T == {f[x] : x \in S}
           g == [x \in S |-> f[x]]
<1>1. g \in Surjection(S, T)
  BY DEF Surjection
<1> QED BY <1>1, FS_Surjection

(* A list has finitely many documents, each with a first place.             *)
LEMMA ListedDocs ==
  ASSUME NEW X, NEW s \in Seq(X)
  PROVE  /\ DocsOf(s) \subseteq X /\ IsFiniteSet(DocsOf(s))
         /\ \A d \in DocsOf(s) : Place(s, d) \in 1..Len(s) /\ s[Place(s, d)] = d
<1>1. Len(s) \in Nat /\ \A i \in 1..Len(s) : s[i] \in X
  OBVIOUS
<1>2. DocsOf(s) \subseteq X
  BY <1>1 DEF DocsOf
<1>3. IsFiniteSet(1..Len(s))
  BY <1>1, FS_Interval
<1>4. IsFiniteSet(DocsOf(s))
  BY <1>3, FiniteImage DEF DocsOf
<1>5. ASSUME NEW d \in DocsOf(s) PROVE Place(s, d) \in 1..Len(s) /\ s[Place(s, d)] = d
  <2> DEFINE V == {i \in 1..Len(s) : s[i] = d}
  <2>1. V \in SUBSET (1..Len(s)) /\ V \subseteq Int
    OBVIOUS
  <2>2. V # {}
    BY DEF DocsOf
  <2>3. IsFiniteSet(V)
    BY <1>3, <2>1, FS_Subset
  <2>4. PICK i \in V : \A j \in V : i <= j
    <3> HIDE DEF V
    <3> QED BY <2>1, <2>2, <2>3, LowestThere
  <2>5. \A j \in 1..(i - 1) : s[j] # d
    <3> SUFFICES ASSUME NEW j \in 1..(i - 1), s[j] = d PROVE FALSE
      OBVIOUS
    <3>1. j \in V /\ j < i
      BY <1>1
    <3> QED BY <2>4, <3>1
  <2>6. \E k \in 1..Len(s) : s[k] = d /\ \A j \in 1..(k - 1) : s[j] # d
    BY <2>5
  <2> QED BY <2>6, Zenon DEF Place
<1> QED BY <1>2, <1>4, <1>5

(* The first documents of a list are a list.                                *)
LEMMA FirstsList ==
  ASSUME NEW X, NEW s \in Seq(X)
  PROVE  Firsts(s) \in Seq(X)
<1> DEFINE m == IF Len(s) < FreshTop THEN Len(s) ELSE FreshTop
<1>1. FreshTop \in Nat
  BY FreshAssumption
<1>2. m \in Int /\ m <= Len(s) /\ 1 \in Int /\ \A i \in 1..m : s[i] \in X
  BY <1>1
<1>3. SubSeq(s, 1, m) \in Seq(X)
  <2> HIDE DEF m
  <2> QED BY <1>2, SubSeqProperties
<1> QED BY <1>3 DEF Firsts

(* Ordering a list drops its repeats and nothing else.                      *)
LEMMA ByScoreKeeps ==
  ASSUME NEW X, NEW s \in Seq(X), NEW score, \A d \in DocsOf(s) : score[d] \in Int
  PROVE  ByScore(s, score) \in Seq(X) /\ DocsOf(ByScore(s, score)) = DocsOf(s)
<1> DEFINE D == DocsOf(s)
           entry == [d \in D |-> [doc |-> d, score |-> score[d], place |-> Place(s, d)]]
           K == {[doc |-> d, score |-> score[d], place |-> Place(s, d)] : d \in D}
           n == Cardinality(K)
           Ahead(x, y) == x.score > y.score \/ (x.score = y.score /\ x.place < y.place)
           P == [x \in K |-> {y \in K : Ahead(y, x)}]
           Nth(i) == CHOOSE x \in K : Cardinality({y \in K : Ahead(y, x)}) = i - 1
           e == ByScore(s, score)
<1>1. D \subseteq X /\ IsFiniteSet(D)
  BY ListedDocs
<1>2. ASSUME NEW x \in K
      PROVE  x.doc \in D /\ x.score \in Int /\ x.place \in Int /\ x = entry[x.doc] /\ s[x.place] = x.doc
  <2>1. PICK d \in D : x = [doc |-> d, score |-> score[d], place |-> Place(s, d)]
    OBVIOUS
  <2>2. Place(s, d) \in Int /\ s[Place(s, d)] = d
    BY ListedDocs
  <2> QED BY <2>1, <2>2
<1>3. IsFiniteSet(K) /\ n \in Nat
  <2>1. K = {entry[d] : d \in D}
    OBVIOUS
  <2>2. IsFiniteSet({entry[d] : d \in D})
    <3> HIDE DEF entry, D
    <3> QED BY <1>1, FiniteImage
  <2> QED BY <2>1, <2>2, FS_CardinalityType
<1>4. \A d \in D : entry[d] \in K /\ entry[d].doc = d
  OBVIOUS
<1>5. e = [i \in 1..n |-> Nth(i).doc]
  BY DEF ByScore
<1> HIDE DEF K, e, entry, D
<1>6. RankedBy(K, P)
  <2>1. \A x, y \in K : x # y => Ahead(x, y) \/ Ahead(y, x)
    BY <1>2
  <2>2. \A x, y, z \in K : Ahead(x, y) /\ Ahead(y, z) => Ahead(x, z)
    BY <1>2
  <2>3. \A x \in K : ~ Ahead(x, x)
    BY <1>2
  <2> HIDE DEF Ahead
  <2> QED BY <2>1, <2>2, <2>3 DEF RankedBy
<1> HIDE DEF Ahead
<1>7. ASSUME NEW i \in 1..n PROVE Nth(i) \in K /\ Cardinality(P[Nth(i)]) = i - 1
  <2>1. PICK z \in K : Cardinality(P[z]) = i - 1
    <3> HIDE DEF P
    <3> QED BY <1>3, <1>6, RankHeld
  <2>2. \E x \in K : Cardinality({y \in K : Ahead(y, x)}) = i - 1
    BY <2>1
  <2>3. Nth(i) \in K /\ Cardinality({y \in K : Ahead(y, Nth(i))}) = i - 1
    BY <2>2, Zenon
  <2> HIDE DEF Nth
  <2> QED BY <2>3
<1> HIDE DEF Nth
<1>8. e \in [1..n -> D] /\ DOMAIN e = 1..n
  BY <1>2, <1>5, <1>7
<1>9. e \in Seq(X) /\ Len(e) = n
  BY <1>1, <1>3, <1>8
<1>10. ASSUME NEW d \in D PROVE \E i \in 1..n : e[i] = d
  <2> DEFINE x == entry[d]
             i == Cardinality(P[x]) + 1
  <2>1. x \in K /\ x.doc = d
    BY <1>4
  <2> HIDE DEF P, x
  <2>2. /\ \A y \in K : Cardinality(P[y]) + 1 \in 1..n
        /\ \A y, z \in K : Cardinality(P[y]) = Cardinality(P[z]) => y = z
    BY <1>3, <1>6, EveryRankHeld
  <2>3. i \in 1..n
    BY <2>1, <2>2
  <2>4. Nth(i) \in K /\ Cardinality(P[Nth(i)]) = i - 1
    BY <1>7, <2>3
  <2>5. Cardinality(P[x]) \in Int
    <3>1. P[x] \in SUBSET K
      BY <1>6, <2>1 DEF RankedBy
    <3> QED BY <1>3, <3>1, FS_Subset, FS_CardinalityType
  <2>6. Cardinality(P[Nth(i)]) = Cardinality(P[x])
    BY <2>4, <2>5
  <2>7. Nth(i) = x
    BY <2>1, <2>2, <2>4, <2>6
  <2> HIDE DEF i
  <2> QED BY <1>5, <2>1, <2>3, <2>7
<1>11. DocsOf(e) = D
  <2>1. DocsOf(e) \subseteq D
    BY <1>8, <1>9 DEF DocsOf
  <2>2. D \subseteq DocsOf(e)
    BY <1>9, <1>10 DEF DocsOf
  <2> QED BY <2>1, <2>2
<1> QED BY <1>9, <1>11 DEF e, D

-----------------------------------------------------------------------------
(* Scores are numbers                                                       *)

(* What a channel says of a document is an integer.                         *)
LEMMA FeatureIsInt ==
  ASSUME NEW X, NEW ids \in Seq(X), NEW scores \in Seq(Int), Len(scores) = Len(ids), NEW d
  PROVE  ChannelFeature(ids, scores, d) \in Int
<1> DEFINE vals == {scores[i] : i \in 1..Len(ids)}
           low == CHOOSE v \in vals : \A w \in vals : v <= w
           high == CHOOSE v \in vals : \A w \in vals : v >= w
<1>1. Len(ids) \in Nat /\ \A i \in 1..Len(ids) : scores[i] \in Int
  OBVIOUS
<1>2. IsFiniteSet(vals) /\ vals \subseteq Int
  <2>1. IsFiniteSet(1..Len(ids))
    BY <1>1, FS_Interval
  <2> QED BY <1>1, <2>1, FiniteImage
<1>3. ids # <<>> => low \in Int /\ high \in Int
  <2> SUFFICES ASSUME ids # <<>> PROVE low \in Int /\ high \in Int
    OBVIOUS
  <2>1. vals # {}
    <3>1. 1 \in 1..Len(ids)
      OBVIOUS
    <3> QED BY <3>1
  <2> HIDE DEF vals
  <2>2. \E v \in vals : \A w \in vals : v <= w
    BY <1>2, <2>1, LowestThere
  <2>3. \E v \in vals : \A w \in vals : v >= w
    BY <1>2, <2>1, HighestThere
  <2>4. low \in vals
    BY <2>2, Zenon
  <2>5. high \in vals
    BY <2>3, Zenon
  <2> QED BY <1>2, <2>4, <2>5
<1>4. In(ids, d) => scores[Place(ids, d)] \in Int
  <2> SUFFICES ASSUME In(ids, d) PROVE scores[Place(ids, d)] \in Int
    OBVIOUS
  <2>1. d \in DocsOf(ids)
    BY DEF In, DocsOf
  <2>2. Place(ids, d) \in 1..Len(ids)
    BY <2>1, ListedDocs
  <2> QED BY <1>1, <2>2
<1>5. ChannelFeature(ids, scores, d) =
        CASE ids = <<>> -> 0
          [] ids # <<>> /\ low = high -> IF In(ids, d) THEN 1 ELSE 0
          [] OTHER -> IF In(ids, d) THEN Fine * (scores[Place(ids, d)] - low)
                      ELSE -(high - low)
  BY DEF ChannelFeature
<1> HIDE DEF low, high
<1>6. Fine * (scores[Place(ids, d)] - low) \in Int \/ ~ (ids # <<>> /\ In(ids, d))
  BY <1>3, <1>4 DEF Fine
<1>7. -(high - low) \in Int \/ ids = <<>>
  BY <1>3
<1> QED BY <1>5, <1>6, <1>7

(* So are the ends of the span of a pool.                                   *)
LEMMA SpanIsInt ==
  ASSUME NEW pool, IsFiniteSet(pool), pool # {}, NEW f, \A d \in pool : f[d] \in Int
  PROVE  PoolSpan(f, pool).low \in Int /\ PoolSpan(f, pool).span \in Int
<1> DEFINE vals == {f[d] : d \in pool}
           low == CHOOSE v \in vals : \A w \in vals : v <= w
           high == CHOOSE v \in vals : \A w \in vals : v >= w
<1>1. IsFiniteSet(vals) /\ vals \subseteq Int /\ vals # {}
  BY FiniteImage
<1>2. low \in Int /\ high \in Int
  <2> HIDE DEF vals
  <2>1. \E v \in vals : \A w \in vals : v <= w
    BY <1>1, LowestThere
  <2>2. \E v \in vals : \A w \in vals : v >= w
    BY <1>1, HighestThere
  <2>3. low \in vals
    BY <2>1, Zenon
  <2>4. high \in vals
    BY <2>2, Zenon
  <2> QED BY <1>1, <2>3, <2>4
<1>3. PoolSpan(f, pool) = [low |-> low, span |-> high - low]
  BY DEF PoolSpan
<1> HIDE DEF low, high
<1> QED BY <1>2, <1>3

(* The candidate's score of a document of a list is an integer.             *)
LEMMA RerankIsInt ==
  ASSUME NEW c, IsCell(c), NEW X, NEW list \in Seq(X)
  PROVE  \A d \in DocsOf(list) : RerankScores(c, list)[d] \in Int
<1> DEFINE docs == DocsOf(list)
           bm25 == [i \in 1..Len(c.lex.raw) |-> -c.lex.raw[i]]
           lexF == [d \in docs |-> ChannelFeature(c.lex.ids, bm25, d)]
           denseF == [d \in docs |-> ChannelFeature(c.dense.ids, c.dense.scores, d)]
<1> SUFFICES ASSUME NEW d \in docs PROVE RerankScores(c, list)[d] \in Int
  OBVIOUS
<1>1. IsFiniteSet(docs) /\ docs # {}
  BY ListedDocs
<1>2. bm25 \in Seq(Int) /\ Len(bm25) = Len(c.lex.ids)
  BY DEF IsCell
<1>3. \A x \in docs : lexF[x] \in Int
  <2> HIDE DEF bm25
  <2>1. c.lex.ids \in Seq({c.lex.ids[i] : i \in DOMAIN c.lex.ids})
    BY DEF IsCell, IsList
  <2> QED BY <1>2, <2>1, FeatureIsInt
<1>4. \A x \in docs : denseF[x] \in Int
  <2>1. c.dense.ids \in Seq({c.dense.ids[i] : i \in DOMAIN c.dense.ids})
    BY DEF IsCell, IsList
  <2>2. c.dense.scores \in Seq(Int) /\ Len(c.dense.scores) = Len(c.dense.ids)
    BY DEF IsCell
  <2> QED BY <2>1, <2>2, FeatureIsInt
<1>5. RerankScores(c, list)[d] = RerankScore(lexF, denseF, docs, d)
  BY DEF RerankScores
<1> HIDE DEF lexF, denseF, docs
<1>6. PoolSpan(lexF, docs).low \in Int /\ PoolSpan(lexF, docs).span \in Int
  BY <1>1, <1>3, SpanIsInt
<1>7. PoolSpan(denseF, docs).low \in Int /\ PoolSpan(denseF, docs).span \in Int
  BY <1>1, <1>4, SpanIsInt
<1>8. RerankScore(lexF, denseF, docs, d) \in Int
  <2> DEFINE ls == IF PoolSpan(lexF, docs).span = 0 THEN 1 ELSE PoolSpan(lexF, docs).span
             es == IF PoolSpan(denseF, docs).span = 0 THEN 1 ELSE PoolSpan(denseF, docs).span
             x == lexF[d] - PoolSpan(lexF, docs).low
             y == denseF[d] - PoolSpan(denseF, docs).low
  <2>1. ls \in Int /\ es \in Int /\ x \in Int /\ y \in Int
    BY <1>3, <1>4, <1>6, <1>7
  <2>2. RerankScore(lexF, denseF, docs, d) = 3 * x * es + 2 * y * ls
    BY DEF RerankScore, PinnedCandidate
  <2> HIDE DEF ls, es, x, y
  <2>3. 3 * x * es \in Int /\ 2 * y * ls \in Int
    BY <2>1
  <2> QED BY <2>2, <2>3
<1> QED BY <1>5, <1>8

(* The share a channel gives a document is an integer.                      *)
LEMMA ShareIsInt ==
  ASSUME NEW X, NEW s \in Seq(X), NEW d
  PROVE  RrfShare(s, d) \in Int
<1>1. RrfK \in Nat
  BY FreshAssumption
<1>2. CASE In(s, d)
  <2>1. d \in DocsOf(s)
    BY <1>2 DEF In, DocsOf
  <2> DEFINE p == Place(s, d)
             a == (RrfK + 1) * (RrfK + 2)
             b == RrfK + p
  <2>2. p \in 1..Len(s) /\ Len(s) \in Nat
    BY <2>1, ListedDocs
  <2>3. a \in Int /\ b \in Int /\ b > 0
    <3> HIDE DEF p
    <3> QED BY <1>1, <2>2
  <2>4. RrfShare(s, d) = a \div b
    BY <1>2 DEF RrfShare
  <2> HIDE DEF a, b
  <2> QED BY <2>3, <2>4
<1>3. CASE ~ In(s, d)
  BY <1>3 DEF RrfShare
<1> QED BY <1>2, <1>3

(* Both arms return the same documents of a cell.                           *)
LEMMA ArmsReturnTheSame ==
  ASSUME NEW c, IsCell(c)
  PROVE  DocsOf(RankingOf("baseline", c)) = DocsOf(RankingOf("candidate", c))
<1>1. CASE Cardinality(c.title) = 1
  BY <1>1 DEF RankingOf
<1>2. CASE Cardinality(c.title) # 1
  <2> DEFINE X == {c.lex.ids[i] : i \in DOMAIN c.lex.ids} \cup {c.dense.ids[i] : i \in DOMAIN c.dense.ids}
             u == UnionOf(c)
             shares == [d \in DocsOf(u) |-> RrfScore(c, d)]
             pool == RrfPool(c)
             scores == RerankScores(c, pool)
  <2>1. c.lex.ids \in Seq(X) /\ c.dense.ids \in Seq(X)
    BY DEF IsCell, IsList
  <2>2. u \in Seq(X)
    BY <2>1 DEF UnionOf
  <2>3. \A d \in DocsOf(u) : shares[d] \in Int
    <3> SUFFICES ASSUME NEW d \in DocsOf(u) PROVE RrfScore(c, d) \in Int
      OBVIOUS
    <3>1. RrfShare(c.lex.ids, d) \in Int /\ RrfShare(c.dense.ids, d) \in Int
      <4> HIDE DEF X
      <4> QED BY <2>1, ShareIsInt
    <3> QED BY <3>1 DEF RrfScore
  <2>4. pool = Firsts(ByScore(u, shares))
    BY DEF RrfPool
  <2> HIDE DEF X, u, shares, pool
  <2>5. ByScore(u, shares) \in Seq(X)
    BY <2>2, <2>3, ByScoreKeeps
  <2>6. pool \in Seq(X)
    BY <2>4, <2>5, FirstsList
  <2>7. \A d \in DocsOf(pool) : scores[d] \in Int
    BY <2>6, RerankIsInt
  <2>8. DocsOf(ByScore(pool, scores)) = DocsOf(pool)
    <3> HIDE DEF scores
    <3> QED BY <2>6, <2>7, ByScoreKeeps
  <2> QED BY <1>2, <2>8 DEF RankingOf, Reranked, pool
<1> QED BY <1>1, <1>2

-----------------------------------------------------------------------------
(* Review packets                                                           *)

PacketCount == (Len(FreshQueries) + PacketSize - 1) \div PacketSize

PacketEnd(i) == IF i * PacketSize < Len(FreshQueries) THEN i * PacketSize ELSE Len(FreshQueries)

FreshPackets ==
  [i \in 1..PacketCount |-> SubSeq(FreshQueries, (i - 1) * PacketSize + 1, PacketEnd(i))]

(* The smaller of two multiples is the one with the smaller factor.         *)
LEMMA SmallerFactor ==
  ASSUME NEW a \in Int, NEW b \in Int, NEW p \in Nat, p # 0, a * p < b * p
  PROVE  a < b
<1> SUFFICES ASSUME b <= a PROVE FALSE
  OBVIOUS
<1>1. PICK k \in Nat : a = b + k
  <2>1. a - b \in Nat /\ a = b + (a - b)
    OBVIOUS
  <2> QED BY <2>1
<1>2. a * p = b * p + k * p /\ k * p \in Nat
  BY <1>1
<1>3. b * p \in Int
  OBVIOUS
<1> QED BY <1>2, <1>3

(* A packet starts within the manifest, and the last one ends it.           *)
LEMMA PacketsReach ==
  /\ Len(FreshQueries) \in Nat /\ PacketSize \in Nat /\ PacketSize # 0
  /\ PacketCount \in Nat
  /\ Len(FreshQueries) <= PacketCount * PacketSize
  /\ \A i \in 1..PacketCount : (i - 1) * PacketSize \in Nat /\ (i - 1) * PacketSize < Len(FreshQueries)
<1> DEFINE n == Len(FreshQueries)
           p == PacketSize
           c == PacketCount
<1>1. n \in Nat /\ p \in Nat /\ p # 0
  BY FreshAssumption DEF IsList
<1>2. c = (n + p - 1) \div p
  BY DEF PacketCount
<1> HIDE DEF n, p, c
<1>3. c \in Nat /\ c * p \in Nat /\ c * p <= n + p - 1 /\ n + p - 1 < c * p + p
  <2> DEFINE t == n + p - 1
  <2>1. t \in Nat
    BY <1>1
  <2> HIDE DEF t
  <2>2. t \div p \in Nat /\ (t \div p) * p <= t /\ t < (t \div p) * p + p
    BY <1>1, <2>1
  <2>3. c = t \div p
    BY <1>2 DEF t
  <2>4. c * p \in Nat
    BY <1>1, <2>2, <2>3
  <2> QED BY <2>2, <2>3, <2>4 DEF t
<1>4. n <= c * p
  BY <1>1, <1>3
<1>5. ASSUME NEW i \in 1..c PROVE (i - 1) * p \in Nat /\ (i - 1) * p < n
  <2>1. i - 1 \in Nat /\ c - i \in Nat
    BY <1>3
  <2>2. (i - 1) * p \in Nat /\ (c - i) * p \in Nat
    BY <1>1, <2>1
  <2>3. c * p = (i - 1) * p + (c - i) * p + p
    BY <1>1, <1>3
  <2> QED BY <1>1, <1>3, <2>2, <2>3
<1> QED BY <1>1, <1>3, <1>4, <1>5 DEF n, p, c

(* What a packet holds.                                                     *)
LEMMA PacketHolds ==
  ASSUME NEW i \in 1..PacketCount
  PROVE  /\ Len(FreshPackets[i]) = PacketEnd(i) - (i - 1) * PacketSize
         /\ \A j \in 1..(PacketEnd(i) - (i - 1) * PacketSize) :
              FreshPackets[i][j] = FreshQueries[(i - 1) * PacketSize + j]
<1> DEFINE n == Len(FreshQueries)
           a == (i - 1) * PacketSize
           m == a + 1
           b == PacketEnd(i)
           X == {FreshQueries[k] : k \in DOMAIN FreshQueries}
<1>1. FreshQueries \in Seq(X) /\ n \in Nat
  BY FreshAssumption DEF IsList
<1>2. a \in Nat /\ a < n
  BY PacketsReach
<1>3. i * PacketSize \in Int /\ a < i * PacketSize
  <2>1. a = i * PacketSize - PacketSize /\ i * PacketSize \in Int
    BY PacketsReach
  <2> QED BY <2>1, PacketsReach
<1>4. b \in Int /\ b <= n /\ m <= b
  <2> HIDE DEF a, n
  <2>1. b = IF i * PacketSize < n THEN i * PacketSize ELSE n
    BY DEF PacketEnd, n
  <2> QED BY <1>1, <1>2, <1>3, <2>1
<1> HIDE DEF a, b, X
<1>5. m \in Int /\ \A k \in m..b : FreshQueries[k] \in X
  BY <1>1, <1>2, <1>4
<1>6. /\ Len(SubSeq(FreshQueries, m, b)) = IF m <= b THEN b - m + 1 ELSE 0
      /\ \A j \in 1..(b - m + 1) : SubSeq(FreshQueries, m, b)[j] = FreshQueries[m + j - 1]
  <2> HIDE DEF m
  <2> QED BY <1>4, <1>5, SubSeqProperties
<1>7. b - m + 1 = b - a /\ \A j \in 1..(b - a) : m + j - 1 = a + j
  BY <1>2, <1>4
<1>8. FreshPackets[i] = SubSeq(FreshQueries, m, b)
  BY DEF FreshPackets, a, b
<1> HIDE DEF m
<1>9. /\ Len(FreshPackets[i]) = b - a
      /\ \A j \in 1..(b - a) : FreshPackets[i][j] = FreshQueries[a + j]
  BY <1>4, <1>6, <1>7, <1>8, <1>2 DEF m
<1> QED BY <1>9 DEF a, b

(* A query is in one packet, once.                                          *)
LEMMA PacketsCover ==
  ASSUME NEW q \in FreshSet
  PROVE  Cardinality({p \in {<<i, j>> : i \in 1..Len(FreshPackets), j \in 1..PacketSize} :
                        /\ p[2] <= Len(FreshPackets[p[1]])
                        /\ FreshPackets[p[1]][p[2]] = q}) = 1
<1> DEFINE n == Len(FreshQueries)
           P == PacketSize
           Shows(i, j) == j <= Len(FreshPackets[i]) /\ FreshPackets[i][j] = q
<1>1. n \in Nat /\ P \in Nat /\ P # 0 /\ PacketCount \in Nat /\ n <= PacketCount * P
  BY PacketsReach
<1>2. PICK k \in 1..n : FreshQueries[k] = q
  BY DEF FreshSet
<1>3. \A l \in 1..n : FreshQueries[l] = q => l = k
  BY <1>2, FreshAssumption
<1>4. Len(FreshPackets) = PacketCount
  BY <1>1 DEF FreshPackets
<1> DEFINE i0 == (k - 1) \div P + 1
           j0 == k - (i0 - 1) * P
<1>5. i0 \in Nat /\ i0 # 0 /\ (i0 - 1) * P \in Nat /\ (i0 - 1) * P < k /\ k <= (i0 - 1) * P + P
  <2> DEFINE t == k - 1
             d == t \div P
  <2>1. t \in Nat
    BY <1>1
  <2> HIDE DEF t
  <2>2. d \in Nat /\ d * P <= t /\ t < d * P + P
    BY <1>1, <2>1
  <2>3. d * P \in Nat /\ i0 = d + 1 /\ i0 - 1 = d /\ t = k - 1
    BY <1>1, <2>2 DEF t
  <2> HIDE DEF d, i0
  <2> QED BY <1>1, <2>2, <2>3
<1> HIDE DEF i0
<1>6. i0 \in 1..PacketCount
  <2>1. (i0 - 1) * P < PacketCount * P
    BY <1>1, <1>5
  <2>2. i0 - 1 < PacketCount
    BY <1>1, <1>5, <2>1, SmallerFactor
  <2> QED BY <1>1, <1>5, <2>2
<1>7. \A i \in 1..PacketCount : i * P \in Nat /\ i * P = (i - 1) * P + P
  BY <1>1
<1>8. j0 \in 1..P /\ Shows(i0, j0)
  <2>1. j0 \in 1..P
    BY <1>1, <1>5
  <2>2. j0 <= PacketEnd(i0) - (i0 - 1) * P
    BY <1>1, <1>2, <1>5, <1>6, <1>7 DEF PacketEnd
  <2>3. PacketEnd(i0) - (i0 - 1) * P \in Int
    BY <1>1, <1>5, <1>6, <1>7 DEF PacketEnd
  <2>4. j0 \in 1..(PacketEnd(i0) - (i0 - 1) * P) /\ (i0 - 1) * P + j0 = k
    BY <1>1, <1>5, <2>1, <2>2, <2>3
  <2> HIDE DEF j0
  <2>5. /\ Len(FreshPackets[i0]) = PacketEnd(i0) - (i0 - 1) * P
        /\ FreshPackets[i0][j0] = FreshQueries[(i0 - 1) * P + j0]
    BY <1>6, <2>4, PacketHolds
  <2> QED BY <1>2, <2>1, <2>2, <2>4, <2>5
<1>9. ASSUME NEW i \in 1..PacketCount, NEW j \in 1..P, Shows(i, j) PROVE i = i0 /\ j = j0
  <2> DEFINE a == (i - 1) * P
             b == (i0 - 1) * P
  <2>1. a \in Nat /\ a < n
    BY PacketsReach
  <2>2. Len(FreshPackets[i]) = PacketEnd(i) - a
    BY PacketHolds
  <2>3. PacketEnd(i) \in Int /\ PacketEnd(i) <= n
    BY <1>1, <1>7 DEF PacketEnd
  <2>4. j \in 1..(PacketEnd(i) - a) /\ a + j \in 1..n
    <3> HIDE DEF a
    <3> QED BY <1>1, <1>9, <2>1, <2>2, <2>3
  <2>5. FreshQueries[a + j] = q
    <3>1. FreshPackets[i][j] = FreshQueries[a + j]
      BY <2>4, PacketHolds
    <3> QED BY <1>9, <3>1
  <2>6. a + j = k
    BY <1>3, <2>4, <2>5
  <2>7. a < b + P /\ b < a + P /\ b \in Nat
    BY <1>1, <1>5, <2>1, <2>6
  <2>8. a < i0 * P /\ b < i * P
    <3>1. i0 * P = b + P /\ i * P = a + P
      BY <1>6, <1>7
    <3> HIDE DEF a, b
    <3> QED BY <2>7, <3>1
  <2>9. i - 1 < i0
    BY <1>1, <1>5, <2>8, SmallerFactor
  <2>10. i0 - 1 < i
    BY <1>1, <1>5, <2>8, SmallerFactor
  <2>11. i = i0
    BY <1>1, <1>5, <2>9, <2>10
  <2> QED BY <1>1, <2>1, <2>6, <2>11
<1> DEFINE cells == {<<i, j>> : i \in 1..Len(FreshPackets), j \in 1..P}
           T == {p \in cells : Shows(p[1], p[2])}
<1>10. T = {<<i0, j0>>}
  <2> HIDE DEF Shows, j0
  <2>1. <<i0, j0>> \in T
    BY <1>4, <1>6, <1>8
  <2>2. ASSUME NEW p \in T PROVE p = <<i0, j0>>
    <3>1. PICK i \in 1..PacketCount, j \in 1..P : p = <<i, j>>
      BY <1>4
    <3>2. Shows(i, j)
      BY <3>1
    <3> QED BY <1>9, <3>1, <3>2
  <2> QED BY <2>1, <2>2
<1>11. Cardinality(T) = 1
  <2> HIDE DEF T
  <2> QED BY <1>10, FS_Singleton
<1> QED BY <1>11

-----------------------------------------------------------------------------
(* A study from its first artifact to its decision                          *)

StudyFields ==
  {"spec", "manifest", "review", "retrieval", "matrix", "raw", "merged", "decision"}

TrialFields == {"at", "ranks", "speed", "spec", "manifest", "ev"}

DecisionFields == {"spec", "manifest", "evidence", "gates", "selected"}

\* Grades on file are what the panel said when it was shown the document.
AsGraded(grades, told) ==
  grades # Unwritten => DOMAIN grades \subseteq DOMAIN told /\ grades = [p \in DOMAIN grades |-> told[p]]

GradesStand ==
  /\ AsGraded(study.raw, panel)
  /\ trial.at # 0 => AsGraded(trial.ev.raw, panel)
  /\ study.decision # Unwritten => AsGraded(study.decision.evidence.raw, panel)

DisjointManifest(man) ==
  /\ Overlap(man.rows) = {}
  /\ \A q \in FreshSet : man.rows[q].family \notin ProtectedFamilies

StudyOnFile ==
  /\ DOMAIN study = StudyFields /\ DOMAIN trial = TrialFields
  /\ study.retrieval # Unwritten => study.retrieval.cells \in IndexStates
  /\ study.review # Unwritten => study.review.packets = FreshPackets
  /\ study.decision # Unwritten => DOMAIN study.decision = DecisionFields

FreshInv ==
  /\ StudyOnFile /\ live \in IndexStates /\ GradesStand
  /\ ReturnedIsJudged /\ FreshIsDisjoint /\ ClearedIsEarned

(* The invariant says what the study promises.                              *)
LEMMA FreshInvSound == FreshInv => FreshSound
<1> SUFFICES ASSUME FreshInv PROVE FreshSound
  OBVIOUS
<1>1. ArmsShareThePool
  <2> SUFFICES ASSUME study.retrieval # Unwritten, NEW q \in FreshSet
               PROVE  LET r == DeriveRankings(study.retrieval.cells) IN
                      DocsOf(r["baseline"][q]) = DocsOf(r["candidate"][q])
    BY DEF ArmsShareThePool
  <2> DEFINE c == study.retrieval.cells[q]
  <2>1. IsCell(c)
    BY FreshAssumption DEF FreshInv, StudyOnFile
  <2>2. DocsOf(RankingOf("baseline", c)) = DocsOf(RankingOf("candidate", c))
    <3> HIDE DEF c
    <3> QED BY <2>1, ArmsReturnTheSame
  <2>3. \A a \in Arms : DeriveRankings(study.retrieval.cells)[a][q] = RankingOf(a, c)
    BY DEF DeriveRankings
  <2> HIDE DEF c
  <2> QED BY <2>2, <2>3 DEF Arms
<1>2. ReviewCovers
  <2> SUFFICES ASSUME study.review # Unwritten, NEW q \in FreshSet
               PROVE  Cardinality({p \in {<<i, j>> : i \in 1..Len(study.review.packets),
                                                     j \in 1..PacketSize} :
                         /\ p[2] <= Len(study.review.packets[p[1]])
                         /\ study.review.packets[p[1]][p[2]] = q}) = 1
    BY DEF ReviewCovers
  <2>1. study.review.packets = FreshPackets
    BY DEF FreshInv, StudyOnFile
  <2> QED BY <2>1, PacketsCover
<1> QED BY <1>1, <1>2 DEF FreshInv, FreshSound

(* It holds when nothing is written.                                        *)
LEMMA FreshInitInv == FreshInit => FreshInv
<1> SUFFICES ASSUME FreshInit PROVE FreshInv
  OBVIOUS
<1>1. StudyOnFile /\ live \in IndexStates
  BY DEF FreshInit, EmptyStudy, NoTrial, StudyOnFile, StudyFields, TrialFields
<1>2. GradesStand
  BY DEF FreshInit, EmptyStudy, NoTrial, GradesStand, AsGraded
<1>3. ReturnedIsJudged /\ FreshIsDisjoint /\ ClearedIsEarned
  BY DEF FreshInit, EmptyStudy, ReturnedIsJudged, FreshIsDisjoint, ClearedIsEarned
<1> QED BY <1>1, <1>2, <1>3 DEF FreshInv

(* Writing one artifact leaves the others as they were.                     *)
LEMMA OneWritten ==
  ASSUME FreshInv, NEW field \in StudyFields, NEW value, study' = [study EXCEPT ![field] = value]
  PROVE  /\ DOMAIN study' = StudyFields /\ study'[field] = value
         /\ \A f \in StudyFields : f # field => study'[f] = study[f]
BY DEF FreshInv, StudyOnFile

(* A step that neither asks the panel nor decides keeps the invariant when  *)
(* what it writes is in order.                                              *)
LEMMA QuietStep ==
  ASSUME FreshInv, DOMAIN study' = StudyFields, DOMAIN trial' = TrialFields, live' \in IndexStates,
         UNCHANGED <<panel, cleared>>, study'.raw = study.raw, study'.decision = study.decision,
         study'.retrieval = study.retrieval \/ study'.retrieval.cells \in IndexStates,
         study'.review = study.review \/ study'.review.packets = FreshPackets,
         study'.manifest = study.manifest \/ DisjointManifest(study'.manifest),
         trial'.at # 0 => \/ trial.at # 0 /\ trial'.ev = trial.ev
                          \/ trial'.ev.raw = study.raw
  PROVE  FreshInv'
<1>1. StudyOnFile'
  BY DEF FreshInv, StudyOnFile
<1>2. GradesStand'
  <2>1. AsGraded(study'.raw, panel')
    BY DEF FreshInv, GradesStand
  <2>2. trial'.at # 0 => AsGraded(trial'.ev.raw, panel')
    BY DEF FreshInv, GradesStand
  <2>3. study'.decision # Unwritten => AsGraded(study'.decision.evidence.raw, panel')
    BY DEF FreshInv, GradesStand
  <2> QED BY <2>1, <2>2, <2>3 DEF GradesStand
<1>3. ReturnedIsJudged'
  BY DEF FreshInv, ReturnedIsJudged
<1>4. FreshIsDisjoint'
  <2>1. FreshIsDisjoint
    BY DEF FreshInv
  <2>2. study'.manifest # Unwritten => DisjointManifest(study'.manifest)
    BY <2>1 DEF FreshIsDisjoint, DisjointManifest
  <2> QED BY <2>2 DEF FreshIsDisjoint, DisjointManifest
<1>5. ClearedIsEarned'
  BY DEF FreshInv, ClearedIsEarned
<1> QED BY <1>1, <1>2, <1>3, <1>4, <1>5 DEF FreshInv

(* So does writing an artifact that no other part of the invariant reads,   *)
(* or a retrieval of a known index, or a disjoint manifest.                 *)
LEMMA QuietWrite ==
  ASSUME FreshInv, NEW field \in StudyFields \ {"raw", "decision"}, NEW value,
         study' = [study EXCEPT ![field] = value], UNCHANGED <<live, trial, panel, cleared>>,
         field = "retrieval" => value.cells \in IndexStates,
         field = "review" => value.packets = FreshPackets,
         field = "manifest" => DisjointManifest(value)
  PROVE  FreshInv'
<1>1. /\ DOMAIN study' = StudyFields /\ study'[field] = value
      /\ \A f \in StudyFields : f # field => study'[f] = study[f]
  BY OneWritten
<1>2. study'.raw = study.raw /\ study'.decision = study.decision
  BY <1>1 DEF StudyFields
<1>3. study'.retrieval = study.retrieval \/ study'.retrieval.cells \in IndexStates
  BY <1>1 DEF StudyFields
<1>4. study'.review = study.review \/ study'.review.packets = FreshPackets
  BY <1>1 DEF StudyFields
<1>5. study'.manifest = study.manifest \/ DisjointManifest(study'.manifest)
  BY <1>1 DEF StudyFields
<1>6. DOMAIN trial' = TrialFields /\ live' \in IndexStates
  BY DEF FreshInv, StudyOnFile
<1> QED BY <1>1, <1>2, <1>3, <1>4, <1>5, <1>6, QuietStep

(* A manifest that the builder made is disjoint from the protected set.     *)
LEMMA BuiltIsDisjoint ==
  ASSUME NEW rows, NEW spec, BuildManifestOk(rows, spec)
  PROVE  DisjointManifest(BuildManifest(rows, spec))
<1> DEFINE man == BuildManifest(rows, spec)
<1>1. man.rows = rows /\ man.overlap = Cardinality(Overlap(rows))
  BY DEF BuildManifest
<1>2. man.overlap = 0 /\ \A q \in FreshSet : rows[q].family \notin ProtectedFamilies
  BY DEF BuildManifestOk, ValidManifest
<1>3. Overlap(rows) \in SUBSET ProtectedSources
  BY DEF Overlap
<1>4. IsFiniteSet(Overlap(rows))
  <2>1. IsFiniteSet(ProtectedSources)
    BY FreshAssumption
  <2> QED BY <1>3, <2>1, FS_Subset
<1>5. Overlap(rows) = {}
  BY <1>1, <1>2, <1>4, FS_EmptySet
<1> HIDE DEF man
<1>6. DisjointManifest(man)
  BY <1>1, <1>2, <1>5 DEF DisjointManifest
<1> QED BY <1>6 DEF man

(* Signing an artifact writes it.                                           *)
LEMMA SignWrites ==
  ASSUME NEW field, NEW value, Sign(field, value)
  PROVE  study' = [study EXCEPT ![field] = value]
BY DEF Sign

(* Freezing the specification.                                              *)
LEMMA FreezeSpecInv ==
  ASSUME FreshInv, NEW x \in FreshExperiments, FreezeSpec(x)
  PROVE  FreshInv'
<1>1. study' = [study EXCEPT !["spec"] = BuildSpec(x)] /\ UNCHANGED <<live, trial, panel, cleared>>
  BY SignWrites DEF FreezeSpec
<1> QED BY <1>1, QuietWrite DEF StudyFields

(* A manifest that names a query once.                                      *)
LEMMA MakeManifestInv ==
  ASSUME FreshInv, NEW rows \in RecordFiles, MakeManifest(rows)
  PROVE  FreshInv'
<1> DEFINE man == BuildManifest(rows, study.spec)
<1>1. study' = [study EXCEPT !["manifest"] = man] /\ UNCHANGED <<live, trial, panel, cleared>>
  BY SignWrites DEF MakeManifest
<1>2. DisjointManifest(man)
  BY BuiltIsDisjoint DEF MakeManifest
<1> HIDE DEF man
<1> QED BY <1>1, <1>2, QuietWrite DEF StudyFields

(* The packets of the review.                                               *)
LEMMA MakeReviewPacketsInv ==
  ASSUME FreshInv, MakeReviewPackets
  PROVE  FreshInv'
<1> DEFINE made == ReviewPackets(study.manifest)
<1>1. study' = [study EXCEPT !["review"] = made] /\ UNCHANGED <<live, trial, panel, cleared>>
  BY DEF MakeReviewPackets
<1>2. made.packets = FreshPackets
  BY DEF ReviewPackets, FreshPackets, PacketCount, PacketEnd
<1> HIDE DEF made
<1> QED BY <1>1, <1>2, QuietWrite DEF StudyFields

(* Retrieving for a run.                                                    *)
LEMMA RetrieveInv ==
  ASSUME FreshInv, NEW f \in 0..1, Retrieve(f)
  PROVE  FreshInv'
<1> DEFINE found == [cells |-> live, failures |-> f]
<1>1. study' = [study EXCEPT !["retrieval"] = found] /\ UNCHANGED <<live, trial, panel, cleared>>
  BY SignWrites DEF Retrieve
<1>2. found.cells \in IndexStates
  BY DEF FreshInv
<1> HIDE DEF found
<1> QED BY <1>1, <1>2, QuietWrite DEF StudyFields

(* The packets of the judges.                                               *)
LEMMA BuildJudgePacketsInv ==
  ASSUME FreshInv, BuildJudgePackets
  PROVE  FreshInv'
<1> DEFINE pairs == JudgedPairs(DeriveRankings(study.retrieval.cells))
<1>1. study' = [study EXCEPT !["matrix"] = pairs] /\ UNCHANGED <<live, trial, panel, cleared>>
  BY SignWrites DEF BuildJudgePackets
<1> HIDE DEF pairs
<1> QED BY <1>1, QuietWrite DEF StudyFields

(* Merging what the panel told.                                             *)
LEMMA MergeInv ==
  ASSUME FreshInv, Merge
  PROVE  FreshInv'
<1> DEFINE merged == MergedOf(study.raw, study.matrix)
<1>1. study' = [study EXCEPT !["merged"] = merged] /\ UNCHANGED <<live, trial, panel, cleared>>
  BY SignWrites DEF Merge
<1> HIDE DEF merged
<1> QED BY <1>1, QuietWrite DEF StudyFields

(* Starting a run.                                                          *)
LEMMA StartRunInv ==
  ASSUME FreshInv, NEW speed \in RunSpeeds, StartRun(speed)
  PROVE  FreshInv'
<1>1. UNCHANGED <<study, live, panel, cleared>> /\ DOMAIN trial' = TrialFields
  BY DEF StartRun, TrialFields
<1>2. trial'.ev.raw = study.raw
  BY DEF StartRun
<1>3. DOMAIN study' = StudyFields /\ live' \in IndexStates
  BY <1>1 DEF FreshInv, StudyOnFile
<1> QED BY <1>1, <1>2, <1>3, QuietStep

(* A run measures and returns.                                              *)
LEMMA MeasureInv ==
  ASSUME FreshInv, Measure
  PROVE  FreshInv'
<1>1. UNCHANGED <<study, live, panel, cleared>> /\ trial.at # 0
  BY DEF Measure
<1>2. DOMAIN trial' = TrialFields /\ trial'.ev = trial.ev
  BY DEF Measure, FreshInv, StudyOnFile, TrialFields
<1>3. DOMAIN study' = StudyFields /\ live' \in IndexStates
  BY <1>1 DEF FreshInv, StudyOnFile
<1> QED BY <1>1, <1>2, <1>3, QuietStep

(* The index changes.                                                       *)
LEMMA ReindexInv ==
  ASSUME FreshInv, NEW cells \in IndexStates, Reindex(cells)
  PROVE  FreshInv'
<1>1. UNCHANGED <<study, trial, panel, cleared>> /\ live' \in IndexStates
  BY DEF Reindex
<1>2. DOMAIN study' = StudyFields /\ DOMAIN trial' = TrialFields
  BY <1>1 DEF FreshInv, StudyOnFile
<1> QED BY <1>1, <1>2, QuietStep

(* Someone edits the specification.                                         *)
LEMMA EditSpecInv ==
  ASSUME FreshInv, EditSpec
  PROVE  FreshInv'
<1>1. PICK spec : study' = [study EXCEPT !["spec"] = spec]
  BY DEF EditSpec
<1>2. UNCHANGED <<live, trial, panel, cleared>>
  BY DEF EditSpec
<1> QED BY <1>1, <1>2, QuietWrite DEF StudyFields

(* Someone edits the labels.                                                *)
LEMMA EditLabelsInv ==
  ASSUME FreshInv, EditLabels
  PROVE  FreshInv'
<1>1. PICK merged : study' = [study EXCEPT !["merged"] = merged]
  BY DEF EditLabels
<1>2. UNCHANGED <<live, trial, panel, cleared>>
  BY DEF EditLabels
<1> QED BY <1>1, <1>2, QuietWrite DEF StudyFields

(* What the panel said stays said.                                          *)
LEMMA JudgeInv ==
  ASSUME FreshInv, Judge
  PROVE  FreshInv'
<1>1. PICK g \in [study.matrix -> PanelGrades] :
        /\ \A p \in study.matrix \cap DOMAIN panel : g[p] = panel[p]
        /\ Sign("raw", g)
        /\ panel' = [p \in DOMAIN panel \cup study.matrix |->
                       IF p \in DOMAIN panel THEN panel[p] ELSE g[p]]
  BY DEF Judge
<1>2. UNCHANGED <<live, trial, cleared>>
  BY DEF Judge
<1>3. DOMAIN panel \subseteq DOMAIN panel' /\ \A p \in DOMAIN panel : panel'[p] = panel[p]
  BY <1>1
<1>4. DOMAIN study' = StudyFields /\ study'.raw = g
  BY <1>1, SignWrites, OneWritten DEF StudyFields
<1>5. /\ study'.spec = study.spec /\ study'.manifest = study.manifest /\ study'.review = study.review
      /\ study'.retrieval = study.retrieval /\ study'.matrix = study.matrix
      /\ study'.merged = study.merged /\ study'.decision = study.decision
  <2>1. study' = [study EXCEPT !["raw"] = g]
    BY <1>1, SignWrites
  <2> QED BY <2>1, OneWritten DEF StudyFields
<1>6. ASSUME NEW grades, AsGraded(grades, panel) PROVE AsGraded(grades, panel')
  BY <1>3, <1>6 DEF AsGraded
<1>7. AsGraded(g, panel')
  <2>1. DOMAIN g = study.matrix /\ g = [p \in DOMAIN g |-> g[p]]
    OBVIOUS
  <2>2. DOMAIN g \subseteq DOMAIN panel' /\ \A p \in DOMAIN g : panel'[p] = g[p]
    BY <1>1, <2>1
  <2> QED BY <2>1, <2>2 DEF AsGraded
<1>8. GradesStand'
  <2>1. trial'.at # 0 => AsGraded(trial'.ev.raw, panel')
    BY <1>2, <1>6 DEF FreshInv, GradesStand
  <2>2. study'.decision # Unwritten => AsGraded(study'.decision.evidence.raw, panel')
    BY <1>5, <1>6 DEF FreshInv, GradesStand
  <2> QED BY <1>4, <1>7, <2>1, <2>2 DEF GradesStand
<1>9. StudyOnFile' /\ live' \in IndexStates
  BY <1>2, <1>4, <1>5 DEF FreshInv, StudyOnFile
<1>10. ReturnedIsJudged' /\ FreshIsDisjoint'
  BY <1>5 DEF FreshInv, ReturnedIsJudged, FreshIsDisjoint
<1>11. ClearedIsEarned'
  <2> SUFFICES ASSUME cleared # Unwritten PROVE ClearedIsEarned'
    BY <1>2 DEF ClearedIsEarned
  <2> DEFINE pairs == JudgedPairs(cleared.evidence.execution.rankings)
  <2>1. pairs \subseteq DOMAIN panel
    BY DEF FreshInv, ClearedIsEarned
  <2>2. [p \in pairs |-> panel'[p]] = [p \in pairs |-> panel[p]]
    BY <1>3, <2>1
  <2>3. pairs \subseteq DOMAIN panel'
    BY <1>3, <2>1
  <2> QED BY <1>2, <2>2, <2>3 DEF FreshInv, ClearedIsEarned
<1> QED BY <1>8, <1>9, <1>10, <1>11 DEF FreshInv

(* The schedule has an end.                                                 *)
LEMMA ScheduleEnds == Len(Schedule) \in Nat
<1>1. Len(FreshQueries) \in Nat
  BY FreshAssumption DEF IsList
<1>2. 2 * Len(FreshQueries) \in Nat
  BY <1>1
<1>3. DOMAIN Schedule = 1..(2 * Len(FreshQueries))
  BY DEF Schedule
<1>4. Schedule \in Seq({Schedule[i] : i \in DOMAIN Schedule})
  <2>1. Schedule = [i \in 1..(2 * Len(FreshQueries)) |-> Schedule[i]]
    BY DEF Schedule
  <2> QED BY <1>2, <1>3, <2>1
<1> QED BY <1>4

(* A decision is computed only from grades that cover what was returned.    *)
LEMMA EvaluateInv ==
  ASSUME FreshInv, Evaluate
  PROVE  FreshInv'
<1> DEFINE ev == BoundEvidence(trial)
           dec == DecisionOf(trial.spec, trial.manifest, ev, trial.ranks)
<1>1. UNCHANGED <<live, panel, cleared>> /\ DOMAIN trial' = TrialFields /\ trial'.at = 0
  BY DEF Evaluate, FreshInv, StudyOnFile, TrialFields
<1>2. trial.at # 0
  BY ScheduleEnds DEF Evaluate
<1>3. ev.raw = trial.ev.raw
  BY DEF BoundEvidence
<1>4. dec.evidence = ev /\ DOMAIN dec = DecisionFields
  BY DEF DecisionOf, DecisionFields
<1>5. CASE ~ Computable(trial.spec, trial.manifest, ev, trial.ranks)
  <2>1. study' = study
    BY <1>5 DEF Evaluate
  <2>2. DOMAIN study' = StudyFields /\ live' \in IndexStates
    BY <1>1, <2>1 DEF FreshInv, StudyOnFile
  <2> QED BY <1>1, <2>1, <2>2, QuietStep
<1>6. CASE Computable(trial.spec, trial.manifest, ev, trial.ranks)
  <2>1. study' = [study EXCEPT !.decision = dec]
    BY <1>6 DEF Evaluate
  <2>2. LabelsBind(ev, trial.ranks) /\ ReceiptsBind(ev, trial.spec, trial.manifest, trial.ranks)
    BY <1>6 DEF Computable, ValidEvidence
  <2>3. DOMAIN ev.raw = JudgedPairs(trial.ranks) /\ ev.execution.rankings = trial.ranks
    BY <2>2 DEF LabelsBind, ReceiptsBind
  <2> HIDE DEF dec, ev
  <2>4. /\ DOMAIN study' = StudyFields /\ study'.decision = dec
        /\ study'.raw = study.raw /\ study'.manifest = study.manifest
        /\ study'.retrieval = study.retrieval /\ study'.review = study.review
    BY <2>1, OneWritten DEF StudyFields
  <2>5. StudyOnFile' /\ live' \in IndexStates
    BY <1>1, <1>4, <2>4 DEF FreshInv, StudyOnFile
  <2>6. GradesStand'
    <3>1. AsGraded(study'.raw, panel') /\ AsGraded(ev.raw, panel')
      BY <1>1, <1>2, <1>3, <2>4 DEF FreshInv, GradesStand
    <3> QED BY <1>1, <1>4, <2>4, <3>1 DEF GradesStand
  <2>7. ReturnedIsJudged'
    BY <1>4, <2>3, <2>4 DEF ReturnedIsJudged
  <2>8. FreshIsDisjoint' /\ ClearedIsEarned'
    BY <1>1, <2>4 DEF FreshInv, FreshIsDisjoint, ClearedIsEarned
  <2> QED BY <2>5, <2>6, <2>7, <2>8 DEF FreshInv
<1> QED BY <1>5, <1>6

(* A decision that follows from its evidence passes every gate when it      *)
(* selects the candidate.                                                   *)
LEMMA SelectedPasses ==
  ASSUME NEW dec, NEW spec, NEW man, DecisionFollows(dec, spec, man), dec.selected = "candidate",
         AsGraded(dec.evidence.raw, panel)
  PROVE  LET ranks == dec.evidence.execution.rankings
             rows  == dec.manifest.rows
         IN /\ JudgedPairs(ranks) \subseteq DOMAIN panel
            /\ LET rel == [p \in JudgedPairs(ranks) |-> panel[p]] IN
               /\ SafeNegatives("candidate", rows, ranks, rel)
                  >= SafeNegatives("baseline", rows, ranks, rel)
               /\ GoodTops("candidate", rows, ranks, rel, Facets \ {"strict_negative"})
                  >= GoodTops("baseline", rows, ranks, rel, Facets \ {"strict_negative"})
               /\ NdcgDelta(rows, ranks, rel) >= dec.spec.gates.effect
               /\ dec.evidence.retrieval.failures = 0
<1> DEFINE ev == dec.evidence
           ranks == DeriveRankings(ev.retrieval.cells)
           gates == Gates(spec, man.rows, ranks, ev.merged.grades, ev.retrieval.failures, ev.trace.speed)
           rel == [p \in JudgedPairs(ranks) |-> panel[p]]
<1>1. dec = DecisionOf(spec, man, ev, ranks) /\ Computable(spec, man, ev, ranks)
  BY DEF DecisionFollows
<1>2. LabelsBind(ev, ranks) /\ ReceiptsBind(ev, spec, man, ranks)
  BY <1>1 DEF Computable, ValidEvidence
<1>3. ev.execution.rankings = ranks
  BY <1>2 DEF ReceiptsBind
<1>4. DOMAIN ev.raw = JudgedPairs(ranks) /\ ev.raw # Unwritten /\ ev.merged.grades = ev.raw
  BY <1>2 DEF LabelsBind, MergedOf
<1>5. JudgedPairs(ranks) \subseteq DOMAIN panel /\ ev.merged.grades = rel
  BY <1>4 DEF AsGraded
<1>6. dec.selected = IF AllPass(gates) THEN "candidate" ELSE "baseline"
  BY <1>1 DEF DecisionOf
<1>7. AllPass(gates)
  BY <1>6
<1>8. dec.spec = spec /\ dec.manifest = man
  BY DEF DecisionFollows
<1> HIDE DEF ev, ranks, rel
<1>9. gates.negative /\ gates.top1 /\ gates.effect /\ gates.failures
  BY <1>7 DEF AllPass, Gates
<1>10. /\ SafeNegatives("candidate", man.rows, ranks, rel) >= SafeNegatives("baseline", man.rows, ranks, rel)
       /\ GoodTops("candidate", man.rows, ranks, rel, PositiveFacets)
            >= GoodTops("baseline", man.rows, ranks, rel, PositiveFacets)
       /\ NdcgDelta(man.rows, ranks, rel) >= spec.gates.effect
       /\ ev.retrieval.failures = 0
  BY <1>5, <1>9 DEF Gates
<1> QED BY <1>3, <1>5, <1>8, <1>10 DEF ev, rel, PositiveFacets

(* The test that all is on file.                                            *)
LEMMA AssertReadyInv ==
  ASSUME FreshInv, AssertReady
  PROVE  FreshInv'
<1>1. UNCHANGED <<study, live, trial, panel>> /\ cleared' = study.decision
  BY DEF AssertReady
<1>2. StudyOnFile' /\ live' \in IndexStates /\ GradesStand' /\ ReturnedIsJudged' /\ FreshIsDisjoint'
  BY <1>1 DEF FreshInv, StudyOnFile, GradesStand, ReturnedIsJudged, FreshIsDisjoint
<1>3. ClearedIsEarned'
  <2> DEFINE dec == study.decision
  <2>1. DecisionFollows(dec, study.spec, study.manifest) /\ dec.selected = "candidate" /\ dec # Unwritten
    BY DEF AssertReady, DecisionFollows
  <2>2. AsGraded(dec.evidence.raw, panel)
    BY <2>1 DEF FreshInv, GradesStand
  <2> HIDE DEF dec
  <2>3. cleared' = dec /\ panel' = panel
    BY <1>1 DEF dec
  <2> QED BY <2>1, <2>2, <2>3, SelectedPasses DEF ClearedIsEarned
<1> QED BY <1>2, <1>3 DEF FreshInv

(* An edited decision keeps its evidence.                                   *)
LEMMA EditDecisionInv ==
  ASSUME FreshInv, EditDecision
  PROVE  FreshInv'
<1> DEFINE dec == study.decision
           edited == [dec EXCEPT !.selected = "candidate", !.gates = [g \in DOMAIN @ |-> TRUE]]
<1>1. UNCHANGED <<live, trial, panel, cleared>> /\ dec # Unwritten
  BY DEF EditDecision
<1>2. study' = [study EXCEPT !["decision"] = edited]
  BY DEF EditDecision, FreshInv, StudyOnFile, StudyFields
<1>3. DOMAIN edited = DecisionFields /\ edited.evidence = dec.evidence
  BY <1>1 DEF FreshInv, StudyOnFile, DecisionFields
<1> HIDE DEF edited
<1>4. /\ DOMAIN study' = StudyFields /\ study'.decision = edited
      /\ study'.raw = study.raw /\ study'.manifest = study.manifest
      /\ study'.retrieval = study.retrieval /\ study'.review = study.review
  BY <1>2, OneWritten DEF StudyFields
<1>5. StudyOnFile' /\ live' \in IndexStates
  BY <1>1, <1>3, <1>4 DEF FreshInv, StudyOnFile
<1>6. GradesStand'
  BY <1>1, <1>3, <1>4 DEF FreshInv, GradesStand
<1>7. ReturnedIsJudged' /\ FreshIsDisjoint' /\ ClearedIsEarned'
  BY <1>1, <1>3, <1>4 DEF FreshInv, ReturnedIsJudged, FreshIsDisjoint, ClearedIsEarned
<1> QED BY <1>5, <1>6, <1>7 DEF FreshInv

(***************************************************************************)
(* However many queries, documents, indexes and gates there are, and       *)
(* whatever is made again, re-indexed or edited between the calls: a       *)
(* candidate is cleared only on the panel's own grades of everything its   *)
(* run returned, both arms order one pool of documents, the queries are    *)
(* disjoint from the protected set and each is in one review packet        *)
(* (fresh_development_protocol.py).                                        *)
(***************************************************************************)
THEOREM FreshStaysSound == FreshSpec => []FreshSound
<1>1. FreshInit => FreshInv
  BY FreshInitInv
<1>2. FreshInv /\ [FreshNext]_freshVars => FreshInv'
  <2> SUFFICES ASSUME FreshInv, [FreshNext]_freshVars PROVE FreshInv'
    OBVIOUS
  <2>1. ASSUME NEW x \in FreshExperiments, FreezeSpec(x) PROVE FreshInv'
    BY <2>1, FreezeSpecInv
  <2>2. ASSUME NEW rows \in RecordFiles, MakeManifest(rows) PROVE FreshInv'
    BY <2>2, MakeManifestInv
  <2>3. CASE MakeReviewPackets
    BY <2>3, MakeReviewPacketsInv
  <2>4. ASSUME NEW f \in 0..1, Retrieve(f) PROVE FreshInv'
    BY <2>4, RetrieveInv
  <2>5. CASE BuildJudgePackets
    BY <2>5, BuildJudgePacketsInv
  <2>6. CASE Judge
    BY <2>6, JudgeInv
  <2>7. CASE Merge
    BY <2>7, MergeInv
  <2>8. ASSUME NEW speed \in RunSpeeds, StartRun(speed) PROVE FreshInv'
    BY <2>8, StartRunInv
  <2>9. CASE Measure
    BY <2>9, MeasureInv
  <2>10. CASE Evaluate
    BY <2>10, EvaluateInv
  <2>11. CASE AssertReady
    BY <2>11, AssertReadyInv
  <2>12. ASSUME NEW cells \in IndexStates, Reindex(cells) PROVE FreshInv'
    BY <2>12, ReindexInv
  <2>13. CASE EditSpec
    BY <2>13, EditSpecInv
  <2>14. CASE EditLabels
    BY <2>14, EditLabelsInv
  <2>15. CASE EditDecision
    BY <2>15, EditDecisionInv
  <2>16. CASE UNCHANGED freshVars
    BY <2>16 DEF freshVars, FreshInv, StudyOnFile, GradesStand, ReturnedIsJudged, FreshIsDisjoint,
       ClearedIsEarned
  <2> QED BY <2>1, <2>2, <2>3, <2>4, <2>5, <2>6, <2>7, <2>8, <2>9, <2>10, <2>11, <2>12, <2>13,
         <2>14, <2>15, <2>16 DEF FreshNext
<1>3. FreshInv => FreshSound
  BY FreshInvSound
<1> QED BY <1>1, <1>2, <1>3, PTL DEF FreshSpec

=============================================================================
