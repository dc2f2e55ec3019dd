--------------------------- MODULE BakeoffJudging ---------------------------
(***************************************************************************)
(* From retrieval runs to a winner (scripts/benchmarking): each contender  *)
(* ranks the frozen corpus (run_retrieval_bakeoff), the rankings are pooled*)
(* (build_judging_matrix), three judges grade the pool from shuffled       *)
(* packets (judge_pool), their grades are merged and the disagreements     *)
(* arbitrated (merge_judgments), and the labels decide the development     *)
(* winner, then the blind comparison of that winner with the lexical       *)
(* baseline (evaluate_gate_d_development, evaluate_gate_d_blind).          *)
(*                                                                         *)
(* The stages are command lines run by hand over files, each of them at any*)
(* time and as often as one likes: a cell may be run again after its       *)
(* ranking was pooled, a packet made again while its judge has the old one,*)
(* an answer ingested twice or merged again.  One query stands for the     *)
(* manifest; metrics are what the order of contenders needs of them: the   *)
(* gain of the first hit.  Each phase keeps its files in directories of    *)
(* its own.                                                                *)
(***************************************************************************)
EXTENDS Naturals, Sequences, FiniteSets, SequencesExt

CONSTANTS
  Contenders,     \* the cells of the signed spec
  Lexical,        \* lexical:bm25, the baseline
  ColBert,        \* the one contender the blind scripts admit
  Docs,           \* the eligible entities of the corpus manifest
  SourceDocs,     \* the query's source_entity_ids
  Roles,          \* the three judge roles
  Opinions,       \* what a judge may think: document -> grade
  MaxRemakes,     \* phase -> pieces of work done again or cut short in it
  TopN,           \* depth of a ranking and of the pool
  NotWritten      \* an artifact that is not there, or is cut off

Grades == 0..2

ASSUME JudgingAssumption ==
  /\ {Lexical, ColBert} \subseteq Contenders
  /\ Cardinality(Roles) = 3 /\ TopN \in Nat \ {0}
  /\ IsFiniteSet(Roles) /\ IsFiniteSet(Docs) /\ IsFiniteSet(SourceDocs)
  /\ Opinions \subseteq [Docs \cup SourceDocs -> Grades]

VARIABLES
  phase,      \* "dev", "blind" or "done"
  bundle,     \* contender -> its RetrievalRunBundle
  matrix,     \* the JudgingMatrix
  packet,     \* role -> the order its packet shows the pool in
  mapping,    \* role -> the order its private mapping holds
  answer,     \* role -> what its judge made of the packet it was handed
  raw,        \* role -> its raw-label artifact
  said,       \* role -> the answer that artifact was read from
  labels,     \* the merged artifact
  champion,   \* the development winner
  remakes

judgingVars == <<phase, bundle, matrix, packet, mapping, answer, raw, said, labels,
                 champion, remakes>>

(***************************************************************************)
(* The contenders a phase runs: every cell of the spec, or the signed      *)
(* winner and the baseline (_validate_blind_execution).                    *)
(***************************************************************************)
Entered == IF phase = "dev" THEN Contenders ELSE {ColBert, Lexical}

NoFiles ==
  /\ bundle' = [c \in Contenders |-> NotWritten]
  /\ matrix' = NotWritten /\ labels' = NotWritten /\ remakes' = 0
  /\ packet' = [j \in Roles |-> NotWritten]
  /\ mapping' = [j \in Roles |-> NotWritten]
  /\ answer' = [j \in Roles |-> NotWritten]
  /\ raw' = [j \in Roles |-> NotWritten]
  /\ said' = [j \in Roles |-> NotWritten]

JudgingInit ==
  /\ phase = "dev" /\ champion = NotWritten /\ remakes = 0
  /\ bundle = [c \in Contenders |-> NotWritten]
  /\ matrix = NotWritten /\ labels = NotWritten
  /\ packet = [j \in Roles |-> NotWritten]
  /\ mapping = [j \in Roles |-> NotWritten]
  /\ answer = [j \in Roles |-> NotWritten]
  /\ raw = [j \in Roles |-> NotWritten]
  /\ said = [j \in Roles |-> NotWritten]

\* What is done again is bounded; what is done for the first time is not.
Remake(again) ==
  /\ again => remakes < MaxRemakes[phase]
  /\ remakes' = IF again THEN remakes + 1 ELSE remakes

(***************************************************************************)
(* A cell: its index is built over every document and then searched (the   *)
(* lexical one searches its database); a search that raises is kept in the *)
(* bundle as a failure.  The bundle replaces the one of an earlier run of  *)
(* the cell.  The latencies it holds are chosen where they are first read. *)
(***************************************************************************)
\* An index over the whole corpus always has a nearest document; words may match none.
Lengths(c) == IF c = Lexical THEN 0..TopN ELSE 1..TopN

Rankings(c) ==
  {s \in UNION {[1..n -> Docs] : n \in Lengths(c)} : IsInjective(s)}

ExecuteCell(c) ==
  /\ phase # "done" /\ c \in Entered
  /\ Remake(bundle[c] # NotWritten)
  /\ \E ranking \in Rankings(c), failed \in BOOLEAN :
       bundle' = [bundle EXCEPT ![c] =
         [ranking |-> IF failed THEN <<>> ELSE ranking, failed |-> failed]]
  /\ UNCHANGED <<phase, matrix, packet, mapping, answer, raw, said, labels, champion>>

(***************************************************************************)
(* The matrix: load_bundles wants exactly the phase's contenders, none of  *)
(* them with a failure; build_pools unites their rankings, in the order of *)
(* the bundle files, and forces the source entities in.  A later matrix    *)
(* replaces the earlier one.                                               *)
(***************************************************************************)
BundlesComplete ==
  \A c \in Entered : bundle[c] # NotWritten /\ ~ bundle[c].failed

Ranked == UNION {ToSet(bundle[c].ranking) : c \in Entered}

Pool == Ranked \cup SourceDocs

BuildJudgingMatrix ==
  /\ phase = "dev" /\ BundlesComplete /\ Pool \notin {{}, matrix}
  /\ matrix' = Pool
  /\ UNCHANGED <<phase, bundle, packet, mapping, answer, raw, said, labels, champion, remakes>>

\* The same over the winner and the baseline, once the blind file is authorized.
BuildBlindJudgingMatrix ==
  /\ phase = "blind" /\ champion = ColBert /\ BundlesComplete /\ Pool \notin {{}, matrix}
  /\ matrix' = Pool
  /\ UNCHANGED <<phase, bundle, packet, mapping, answer, raw, said, labels, champion, remakes>>

(***************************************************************************)
(* A packet shows one judge the pool in an order shuffled for it (the seed *)
(* is an option), under names that are positions; the private mapping      *)
(* holds the order.  write_packets writes the two files one after the      *)
(* other, over what is there: cut short, it leaves a torn packet, a packet *)
(* with the old mapping, or a packet with a torn one.                      *)
(***************************************************************************)
Orders(pool) == {s \in [1..Cardinality(pool) -> pool] : IsInjective(s)}

CutShort(order, old) == {<<NotWritten, old>>, <<order, old>>, <<order, NotWritten>>}

WritePacket(j) ==
  /\ phase # "done" /\ matrix # NotWritten
  /\ \E order \in Orders(matrix) :
       \E pair \in {<<order, order>>} \cup CutShort(order, mapping[j]) :
         /\ packet' = [packet EXCEPT ![j] = pair[1]]
         /\ mapping' = [mapping EXCEPT ![j] = pair[2]]
         /\ Remake(packet[j] # NotWritten \/ pair # <<order, order>>)
  /\ UNCHANGED <<phase, bundle, matrix, answer, raw, said, labels, champion>>

\* The judge grades every position of the packet it has been handed: "to" is that
\* packet, "meant" what the judge thinks of each document it showed.
Answer(j) ==
  /\ phase # "done" /\ packet[j] # NotWritten
  /\ Remake(answer[j] # NotWritten)
  /\ \E opinion \in Opinions :
       answer' = [answer EXCEPT ![j] =
         [to |-> packet[j], meant |-> [d \in ToSet(packet[j]) |-> opinion[d]]]]
  /\ UNCHANGED <<phase, bundle, matrix, packet, mapping, raw, said, labels, champion>>

GradeAt(response, i) == response.meant[response.to[i]]

\* validate_labels: the judge's mapping takes positions back to entities.
ByPosition(order, response) ==
  [d \in ToSet(order) |-> GradeAt(response, CHOOSE i \in DOMAIN order : order[i] = d)]

\* The raw artifact: the answer read through the mapping as that is now, whose
\* fingerprint is kept ("under").
RawLabels(j) == [grades |-> ByPosition(mapping[j], answer[j]), under |-> mapping[j]]

\* ingest_labels: an answer that grades each position of the mapping once is taken,
\* whichever packet it answers; the same again would change nothing.
IngestLabels(j) ==
  /\ answer[j] # NotWritten /\ mapping[j] # NotWritten
  /\ Len(answer[j].to) = Len(mapping[j])
  /\ <<raw[j], said[j]>> # <<RawLabels(j), answer[j]>>
  /\ raw' = [raw EXCEPT ![j] = RawLabels(j)]
  /\ said' = [said EXCEPT ![j] = answer[j]]
  /\ UNCHANGED <<phase, bundle, matrix, packet, mapping, answer, labels, champion, remakes>>

(***************************************************************************)
(* merge_all_judgments: the median of three, and an item goes to the       *)
(* arbitrator when the three all differ or when a source entity's median   *)
(* is below 2.  The merged artifact is written only with an arbitration    *)
(* for every escalated item; it keeps the fingerprint of the raw artifacts.*)
(***************************************************************************)
Votes(d) == {raw[j].grades[d] : j \in Roles}
AtLeast(d, g) == Cardinality({j \in Roles : raw[j].grades[d] >= g})
MedianOf(d) == CHOOSE g \in Grades : AtLeast(d, g) >= 2 /\ AtLeast(d, g + 1) < 2

Escalated(d) ==
  \/ Cardinality(Votes(d)) = 3
  \/ d \in SourceDocs /\ MedianOf(d) < 2

\* _raw_from_artifacts: one artifact of every role, over the items of the pool.
RawComplete ==
  /\ matrix # NotWritten
  /\ \A j \in Roles : raw[j] # NotWritten /\ DOMAIN raw[j].grades = matrix

MergeJudgments ==
  /\ RawComplete
  /\ Remake(labels # NotWritten /\ labels.from = raw)
  /\ \E verdict \in [{d \in matrix : Escalated(d)} -> Grades] :
       labels' =
         [grade |-> [d \in matrix |->
            IF d \in DOMAIN verdict THEN verdict[d] ELSE MedianOf(d)],
          arbitrated |-> DOMAIN verdict, from |-> raw]
  /\ UNCHANGED <<phase, bundle, matrix, packet, mapping, answer, raw, said, champion>>

(***************************************************************************)
(* The evaluations take every file as it is now: the labels must cover the *)
(* pool and be merged from just these raw artifacts (_load_raw_labels), and*)
(* the bundles must rebuild the pool exactly (validate_bundle_rankings).   *)
(***************************************************************************)
LabelsCoverPool == labels # NotWritten /\ DOMAIN labels.grade = matrix

PoolIdentity == Pool = matrix

\* Seeded fault: the evaluation does not ask which raw artifacts were merged.
EvaluableUnbound == LabelsCoverPool /\ BundlesComplete /\ PoolIdentity

Evaluable ==
  /\ LabelsCoverPool /\ labels.from = raw
  /\ BundlesComplete /\ PoolIdentity

Gain(g) == IF g = 2 THEN 3 ELSE g
FirstGain(c) ==
  IF bundle[c].ranking = <<>> THEN 0 ELSE Gain(labels.grade[bundle[c].ranking[1]])

\* select_winner: the best of the contenders with a p95 of at most five seconds, the
\* baseline not among them, and no winner when all are slow; ties fall to latency and name.
EvaluateDevelopment ==
  /\ phase = "dev" /\ Evaluable
  /\ \E eligible \in SUBSET (Contenders \ {Lexical}) : \E c \in eligible :
       /\ \A k \in eligible : FirstGain(k) <= FirstGain(c)
       /\ champion' = c
       /\ phase' = IF c = ColBert THEN "blind" ELSE "done"
  /\ NoFiles

\* The blind scripts admit no other winner; the comparison ends the bakeoff.
EvaluateBlind ==
  /\ phase = "blind" /\ Evaluable
  /\ phase' = "done"
  /\ champion' = IF FirstGain(ColBert) > FirstGain(Lexical) THEN ColBert ELSE Lexical
  /\ NoFiles

JudgingNext ==
  \/ \E c \in Contenders : ExecuteCell(c)
  \/ BuildJudgingMatrix \/ BuildBlindJudgingMatrix
  \/ \E j \in Roles : WritePacket(j) \/ Answer(j) \/ IngestLabels(j)
  \/ MergeJudgments \/ EvaluateDevelopment \/ EvaluateBlind

JudgingSpec == JudgingInit /\ [][JudgingNext]_judgingVars

-----------------------------------------------------------------------------
(* Properties.                                                             *)

\* The answer was read through the mapping of the packet it was given to.
InStep(j) == raw[j].under = said[j].to

(***************************************************************************)
(* However its packet was shuffled, a judge's label lies on the document   *)
(* the judge graded, when the mapping it was read through was made with    *)
(* the packet it answered (candidate_entity_ids of build_judge_packets,    *)
(* read back by validate_labels).                                          *)
(***************************************************************************)
LabelsLandWhereGiven ==
  \A j \in Roles : raw[j] # NotWritten /\ InStep(j) => raw[j].grades = said[j].meant

\* A grade no arbitrator gave is that of two of the three, and 2 for a source entity.
Settled(d, given) ==
  d \notin labels.arbitrated =>
    /\ Cardinality({j \in Roles : given[j] = labels.grade[d]}) >= 2
    /\ d \in SourceDocs => labels.grade[d] = 2

(***************************************************************************)
(* A winner rests on judgments that stand.  When an evaluation ends,       *)
(* everything its contenders rank, also in a cell run again after the pool *)
(* was judged, has a grade in each of the three raw artifacts as they are  *)
(* then, also when one was ingested again after the merge; unless the      *)
(* arbitrator ruled, two of them hold the final grade and a source entity  *)
(* is at 2; and when no packet was made again between a judge's answer and *)
(* its ingestion, two judges meant that grade for that document            *)
(* (load_final_labels, _load_raw_labels, validate_bundle_rankings and the  *)
(* escalation rule of merge_judgments).                                    *)
(***************************************************************************)
WinnerFullyJudged ==
  [][phase' # phase =>
       \A d \in Ranked :
         /\ d \in DOMAIN labels.grade
         /\ \A j \in Roles : d \in DOMAIN raw[j].grades
         /\ Settled(d, [j \in Roles |-> raw[j].grades[d]])
         /\ (\A j \in Roles : InStep(j)) => Settled(d, [j \in Roles |-> said[j].meant[d]])
    ]_judgingVars

\* Grades lie where they were given unless a packet was remade under them, and a winner is
\* measured on grades of the judges, settled where they differ, for all that was ranked.
JudgingSound == []LabelsLandWhereGiven /\ WinnerFullyJudged
=============================================================================
