------------------------ MODULE EmbeddingGenerations ------------------------
(***************************************************************************)
(* db/embedding_generations.py: vector generations built in the shadow of   *)
(* the active one and switched atomically.  Every call runs in its caller's *)
(* transaction; a caller that dies before its commit leaves nothing.        *)
(***************************************************************************)
EXTENDS Naturals, Sequences, FiniteSets

CONSTANTS
  Generations,   \* generation identifiers
  GenSpecs,      \* immutable model specifications
  GenSources,       \* memories a generation embeds
  MaxSwitches    \* bound: activations

VARIABLES
  gens,      \* gens[g]: [state, spec, expected, rows, health]; state "none": unregistered
  switches,  \* embedding_generation_activations, oldest first
  verdict    \* what the last startup guard answered: [ok, gen, spec]

genVars == <<gens, switches, verdict>>

NoGen == "no generation"
Unregistered(s) == [state |-> "none", spec |-> s, expected |-> 0, rows |-> {}, health |-> FALSE]

GenInit ==
  /\ \E s \in GenSpecs : gens = [g \in Generations |-> Unregistered(s)]
  /\ switches = <<>>
  /\ verdict = [ok |-> FALSE, gen |-> NoGen, spec |-> CHOOSE s \in GenSpecs : TRUE]

Embedded(g) == Cardinality(gens[g].rows)
Actives == {g \in Generations : gens[g].state = "active"}
Complete(g) == Embedded(g) = gens[g].expected /\ gens[g].health

(* A registration is idempotent for the same metadata, refused otherwise. *)
RegisterGeneration ==
  /\ \E g \in Generations, s \in GenSpecs, n \in 1..Cardinality(GenSources) :
       /\ gens[g].state = "none"
       /\ gens' = [gens EXCEPT ![g] = [state |-> "building", spec |-> s, expected |-> n,
                                       rows |-> {}, health |-> FALSE]]
  /\ UNCHANGED <<switches, verdict>>

(* Seeded fault: the active generation takes writes too. *)
WritableAny == {"building", "ready", "active"}
Writable == {"building", "ready"}

(* An upsert: recording a memory again leaves one row. *)
RecordVector ==
  /\ \E g \in Generations, e \in GenSources :
       /\ gens[g].state \in Writable
       /\ gens' = [gens EXCEPT ![g].rows = @ \cup {e}]
  /\ UNCHANGED <<switches, verdict>>

MarkReady ==
  /\ \E g \in Generations :
       /\ gens[g].state = "building" /\ Embedded(g) = gens[g].expected
       /\ gens' = [gens EXCEPT ![g].state = "ready", ![g].health = TRUE]
  /\ UNCHANGED <<switches, verdict>>

(* The predecessor steps back to ready before the new one is active. *)
Switched(g) ==
  [h \in Generations |-> IF h = g THEN [gens[h] EXCEPT !.state = "active"]
                         ELSE IF gens[h].state = "active" THEN [gens[h] EXCEPT !.state = "ready"]
                         ELSE gens[h]]

Previous(g) ==
  IF Actives \ {g} = {} THEN NoGen ELSE CHOOSE h \in Actives \ {g} : TRUE

ActivateGeneration ==
  /\ Len(switches) < MaxSwitches
  /\ \E g \in Generations :
       /\ gens[g].state \in {"ready", "active"} /\ Complete(g)
       /\ gens' = Switched(g)
       /\ switches' = Append(switches, [gen |-> g, prev |-> Previous(g)])
  /\ UNCHANGED verdict

(* Specification, coverage and health; the table's dimension is the spec's. *)
GuardPasses(g, s) == gens[g].spec = s /\ Complete(g)

(* The daemon's startup guard, for the specification it was configured with. *)
ValidateActive ==
  /\ \E s \in GenSpecs :
       verdict' = IF \E g \in Actives : GuardPasses(g, s)
                  THEN [ok |-> TRUE, gen |-> CHOOSE g \in Actives : GuardPasses(g, s), spec |-> s]
                  ELSE [ok |-> FALSE, gen |-> NoGen, spec |-> s]
  /\ UNCHANGED <<gens, switches>>

GenNext ==
  \/ RegisterGeneration \/ RecordVector \/ MarkReady \/ ActivateGeneration \/ ValidateActive

GenSpec == GenInit /\ [][GenNext]_genVars

(* Searches always meet one complete, verified generation: at most one is   *)
(* active, and rows recorded into others never make the active one drift    *)
(* from its expected coverage.                                              *)
ActiveIsComplete ==
  /\ Cardinality(Actives) <= 1
  /\ \A g \in Actives : Complete(g)

(* The activation log reads as a chain: the last entry is the active        *)
(* generation and each entry names the one that was active before it.       *)
SwitchesChain ==
  /\ Actives = IF switches = <<>> THEN {} ELSE {switches[Len(switches)].gen}
  /\ \A i \in DOMAIN switches :
       switches[i].prev = IF i = 1 \/ switches[i - 1].gen = switches[i].gen THEN NoGen
                          ELSE switches[i - 1].gen

(* A guard that let the daemon start stays true to its word until the next  *)
(* switch: the generation it named is still registered under that very      *)
(* specification.                                                           *)
GuardStands ==
  verdict.ok => gens[verdict.gen].spec = verdict.spec /\ gens[verdict.gen].state \in {"active", "ready"}

\* Search reads one complete generation, the recorded switches lead to it one by one, and what
\* the startup guard found still holds.
GenerationsSound == ActiveIsComplete /\ SwitchesChain /\ GuardStands

=============================================================================
