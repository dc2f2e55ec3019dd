-------------------------- MODULE FreshDevelopment --------------------------
(***************************************************************************)
(* The preregistered two-arm confirmation of a ranking change              *)
(* (scripts/benchmarking/fresh_development_protocol.py): a frozen spec, a  *)
(* fresh query manifest bound to it, raw retrieval evidence from which both*)
(* arms' rankings derive, a judged pool, a timed interleaved run of both   *)
(* arms, and a decision that keeps the deployed baseline unless every gate *)
(* passes.                                                                 *)
(*                                                                         *)
(* Every artifact is content addressed, so a fingerprint is the content    *)
(* itself.  The steps are calls made by hand over files: any of them may be*)
(* made again, the index may change under the run, and a file may be edited*)
(* and signed again, which needs no key (sign_artifact only hashes).  The  *)
(* three judges and the arbitration of BakeoffJudging are one panel here.  *)
(***************************************************************************)
EXTENDS Integers, Sequences, FiniteSets, TLC

CONSTANTS
  FreshExperiments,        \* experiment ids
  FreshQueries,       \* a sequence: the ids of the manifest, in its order
  RecordFiles,        \* query record files a caller may bring
  ProtectedFamilies,  \* topic families of the protected set
  ProtectedSources,   \* source entities of the protected set
  IndexStates,        \* what the two channels return per query, index by index
  FreshTop,           \* TOP_N
  RrfK,               \* RRF_K
  Discounts,          \* 1 / log2(rank + 1), rank by rank, in thousandths
  PanelGrades,        \* the grades of 0, 1, 2 the panel uses
  RunSpeeds,          \* latencies of the two arms, in ms
  PacketSize,         \* queries in a review packet
  MinEffect,          \* minimum_ndcg_effect, in thousandths
  MaxSlower,          \* latency increase allowed, in per cent
  MaxRedone,          \* steps made again, files edited, index changes
  Unwritten           \* an artifact that is not there

FreshSet == {FreshQueries[i] : i \in 1..Len(FreshQueries)}

\* What the two channels return for a query, and the memories so titled.
IsList(s) == s \in Seq({s[i] : i \in DOMAIN s})
IsCell(c) ==
  /\ IsList(c.lex.ids) /\ c.lex.raw \in Seq(Int) /\ Len(c.lex.raw) = Len(c.lex.ids)
  /\ IsList(c.dense.ids) /\ c.dense.scores \in Seq(Int) /\ Len(c.dense.scores) = Len(c.dense.ids)

ASSUME FreshAssumption ==
  /\ FreshTop \in Nat \ {0} /\ PacketSize \in Nat \ {0} /\ RrfK \in Nat
  /\ Discounts \in [1..FreshTop -> Nat]
  /\ PanelGrades \subseteq 0..2 /\ RunSpeeds \subseteq [{"baseline", "candidate"} -> Nat \ {0}]
  /\ IsList(FreshQueries)
  /\ \A i, j \in 1..Len(FreshQueries) : FreshQueries[i] = FreshQueries[j] => i = j
  /\ \A s \in IndexStates : \A q \in FreshSet : IsCell(s[q])
  /\ IsFiniteSet(ProtectedSources)

VARIABLES
  study,    \* the artifacts on file
  live,     \* the index the runner searches now
  trial,    \* the run in progress: its trace and what it returned
  panel,    \* what the judges thought of each document they were shown
  cleared,  \* the decision assert_later_transition_readiness accepted
  redone

freshVars == <<study, live, trial, panel, cleared, redone>>

Arms == {"baseline", "candidate"}

Facets == {"exact_title", "keyword", "strict_negative"}
PositiveFacets == Facets \ {"strict_negative"}

(***************************************************************************)
(* The spec pins the candidate's weights and names every gate; experiment  *)
(* id and thresholds are the caller's, frozen with it.  A spec edited on   *)
(* file is another spec.                                                   *)
(***************************************************************************)
PinnedCandidate == [bm25 |-> 3, dense |-> 2]   \* 1.5 : 1

BuildSpec(x) ==
  [experiment |-> x, candidate |-> PinnedCandidate,
   gates |-> [effect |-> MinEffect, slower |-> MaxSlower]]

ValidGates(gates) == gates.effect >= 0 /\ gates.slower >= 0

ValidSpec(spec) ==
  /\ spec # Unwritten
  /\ spec.candidate = PinnedCandidate
  /\ ValidGates(spec.gates)

-----------------------------------------------------------------------------
(***************************************************************************)
(* The manifest.  The builder rejects a protected family at once; a        *)
(* protected source entity it only counts, and the validator rejects the   *)
(* count.                                                                  *)
(***************************************************************************)
RowsOk(rows) ==
  \A q \in FreshSet :
    /\ rows[q].facet \in Facets
    /\ rows[q].facet \in PositiveFacets => rows[q].sources # {}
    /\ rows[q].facet = "strict_negative" => rows[q].sources = {}

Overlap(rows) == (UNION {rows[q].sources : q \in FreshSet}) \cap ProtectedSources

ValidManifest(man, spec) ==
  /\ ValidSpec(spec) /\ man # Unwritten /\ man.spec = spec
  /\ RowsOk(man.rows) /\ man.overlap = 0

BuildManifest(rows, spec) ==
  [spec |-> spec, rows |-> rows, overlap |-> Cardinality(Overlap(rows))]

BuildManifestOk(rows, spec) ==
  /\ \A q \in FreshSet : rows[q].family \notin ProtectedFamilies
  /\ ValidManifest(BuildManifest(rows, spec), spec)

(***************************************************************************)
(* Review packets: the manifest's queries in runs of PacketSize.           *)
(***************************************************************************)

ReviewPackets(man) ==
  LET n == Len(FreshQueries) IN
  [manifest |-> man,
   packets |-> [i \in 1..((n + PacketSize - 1) \div PacketSize) |->
                  SubSeq(FreshQueries, (i - 1) * PacketSize + 1,
                         IF i * PacketSize < n THEN i * PacketSize ELSE n)]]

-----------------------------------------------------------------------------
(***************************************************************************)
(* Rankings from raw retrieval evidence.  A cell holds the two channels    *)
(* (ids with their scores; raw BM25 scores are negative, best lowest) and  *)
(* the corpus entries whose title is the query byte for byte.              *)
(***************************************************************************)
In(s, d) == \E i \in 1..Len(s) : s[i] = d
Place(s, d) == CHOOSE i \in 1..Len(s) : s[i] = d /\ \A j \in 1..(i - 1) : s[j] # d
DocsOf(s) == {s[i] : i \in 1..Len(s)}

Firsts(s) == SubSeq(s, 1, IF Len(s) < FreshTop THEN Len(s) ELSE FreshTop)

\* What a list holds, each once: by score, then by first place in the list.
ByScore(s, score) ==
  LET scored == {[doc |-> d, score |-> score[d], place |-> Place(s, d)] : d \in DocsOf(s)}
      Ahead(x, y) == x.score > y.score \/ (x.score = y.score /\ x.place < y.place)
  IN  [i \in 1..Cardinality(scored) |->
         (CHOOSE x \in scored : Cardinality({y \in scored : Ahead(y, x)}) = i - 1).doc]

\* Both channels; ordering it drops the repeats.
UnionOf(cell) == cell.lex.ids \o cell.dense.ids

(* The singleton title path: one match, and it is the declared source.  Any *)
(* other query must not have taken it.                                      *)
ValidTitle(row, cell) ==
  IF row.facet = "exact_title"
  THEN Cardinality(cell.title) = 1 /\ cell.title = row.sources
  ELSE cell.title = {}

ValidCell(row, cell) ==
  /\ Len(cell.lex.ids) <= FreshTop /\ Len(cell.dense.ids) <= FreshTop
  /\ ValidTitle(row, cell)
  /\ cell.title # {} \/ UnionOf(cell) # <<>>

RrfShare(s, d) ==
  IF In(s, d) THEN ((RrfK + 1) * (RrfK + 2)) \div (RrfK + Place(s, d)) ELSE 0

RrfScore(cell, d) == RrfShare(cell.lex.ids, d) + RrfShare(cell.dense.ids, d)

RrfPool(cell) ==
  Firsts(ByScore(UnionOf(cell), [d \in DocsOf(UnionOf(cell)) |-> RrfScore(cell, d)]))

(* A channel's feature of a document: its score above the channel's lowest, *)
(* or just below the lowest for a document the channel did not return (a    *)
(* thousandth of the span here, a millionth in the code).  The shares of    *)
(* RRF above are exact integers for the first two places of a list.         *)
Fine == 1000

ChannelFeature(ids, scores, d) ==
  LET vals == {scores[i] : i \in 1..Len(ids)}
      low  == CHOOSE v \in vals : \A w \in vals : v <= w
      high == CHOOSE v \in vals : \A w \in vals : v >= w
  IN CASE ids = <<>> -> 0
       [] ids # <<>> /\ low = high -> IF In(ids, d) THEN 1 ELSE 0
       [] OTHER -> IF In(ids, d) THEN Fine * (scores[Place(ids, d)] - low)
                   ELSE -(high - low)

(* Min-max over the pool: numerators, with the span the caller divides by.  *)
PoolSpan(f, pool) ==
  LET vals == {f[d] : d \in pool}
      low  == CHOOSE v \in vals : \A w \in vals : v <= w
      high == CHOOSE v \in vals : \A w \in vals : v >= w
  IN [low |-> low, span |-> high - low]

\* 3 * lex / lexSpan + 2 * dense / denseSpan, over a common denominator; a
\* flat channel counts nothing.
RerankScore(lexF, denseF, pool, d) ==
  LET l == PoolSpan(lexF, pool)  e == PoolSpan(denseF, pool)
      ls == IF l.span = 0 THEN 1 ELSE l.span
      es == IF e.span = 0 THEN 1 ELSE e.span
  IN   PinnedCandidate.bm25 * (lexF[d] - l.low) * es
     + PinnedCandidate.dense * (denseF[d] - e.low) * ls

\* What the candidate's weights make of the documents of a list.
RerankScores(cell, list) ==
  LET docs == DocsOf(list)
      lexF == [d \in docs |-> ChannelFeature(cell.lex.ids,
                 [i \in 1..Len(cell.lex.raw) |-> -cell.lex.raw[i]], d)]
      denseF == [d \in docs |-> ChannelFeature(cell.dense.ids, cell.dense.scores, d)]
  IN  [d \in docs |-> RerankScore(lexF, denseF, docs, d)]

\* Seeded fault: the candidate reranks the whole union, not the baseline pool.
RerankUnion(cell) == Firsts(ByScore(UnionOf(cell), RerankScores(cell, UnionOf(cell))))

Reranked(cell) == ByScore(RrfPool(cell), RerankScores(cell, RrfPool(cell)))

RankingOf(arm, cell) ==
  CASE Cardinality(cell.title) = 1 -> <<CHOOSE d \in cell.title : TRUE>>
    [] Cardinality(cell.title) # 1 /\ arm = "baseline" -> RrfPool(cell)
    [] OTHER -> Reranked(cell)

DeriveRankings(cells) ==
  [a \in Arms |-> [q \in FreshSet |-> RankingOf(a, cells[q])]]

ArmPool(ranks, q) ==
  UNION {DocsOf(ranks[a][q]) : a \in Arms}

JudgedPairs(ranks) == UNION {{q} \X ArmPool(ranks, q) : q \in FreshSet}

-----------------------------------------------------------------------------
(***************************************************************************)
(* The measurement schedule: a fixed query order, and for each query both  *)
(* arms in a fixed order (both drawn once from the seed).                  *)
(***************************************************************************)
ArmOrder == <<"candidate", "baseline">>

Schedule ==
  [i \in 1..(2 * Len(FreshQueries)) |->
     <<FreshQueries[((i - 1) \div 2) + 1], ArmOrder[((i - 1) % 2) + 1]>>]

ValidTrace(trace) == trace.schedule = Schedule

-----------------------------------------------------------------------------
(***************************************************************************)
(* The gates.  rel maps every judged pair to its final grade.              *)
(***************************************************************************)
GainOf(g) == IF g = 2 THEN 3 ELSE g

DcgOf(ranking, q, rel) ==
  LET upTo[i \in 0..FreshTop] ==
        IF i = 0 THEN 0
        ELSE upTo[i - 1] + IF i > Len(ranking) \/ <<q, ranking[i]>> \notin DOMAIN rel THEN 0
                           ELSE GainOf(rel[<<q, ranking[i]>>]) * Discounts[i]
  IN upTo[FreshTop]

\* The best order of what was graded for the query.
IdcgOf(q, rel) ==
  LET docs == {x[2] : x \in {y \in DOMAIN rel : y[1] = q}}
      n == IF Cardinality(docs) < FreshTop THEN Cardinality(docs) ELSE FreshTop
      orders == {o \in [1..n -> docs] : \A i, j \in 1..n : o[i] = o[j] => i = j}
      dcgs == {DcgOf(o, q, rel) : o \in orders}
  IN CHOOSE v \in dcgs : \A w \in dcgs : v >= w

TopGrade(ranking, q, rel) ==
  IF ranking = <<>> \/ <<q, ranking[1]>> \notin DOMAIN rel THEN 0
  ELSE rel[<<q, ranking[1]>>]

OfFacet(rows, facets) == {q \in FreshSet : rows[q].facet \in facets}

GoodTops(arm, rows, ranks, rel, facets) ==
  Cardinality({q \in OfFacet(rows, facets) : TopGrade(ranks[arm][q], q, rel) = 2})

SafeNegatives(arm, rows, ranks, rel) ==
  Cardinality({q \in OfFacet(rows, {"strict_negative"}) :
                 TopGrade(ranks[arm][q], q, rel) < 1})

Recalled(arm, rows, ranks, rel) ==
  Cardinality({p \in DOMAIN rel :
                 /\ rows[p[1]].facet \in PositiveFacets /\ rel[p] = 2
                 /\ In(ranks[arm][p[1]], p[2])})

SourceHits(arm, rows, ranks, cut) ==
  Cardinality({p \in UNION {{q} \X rows[q].sources : q \in FreshSet} :
                 In(SubSeq(ranks[arm][p[1]], 1,
                           IF Len(ranks[arm][p[1]]) < cut THEN Len(ranks[arm][p[1]])
                           ELSE cut), p[2])})

\* Families with a defined NDCG: one query each, so a family is its query.
DefinedFamilies(rows, rel) ==
  {q \in OfFacet(rows, PositiveFacets) : IdcgOf(q, rel) > 0}

(* Mean NDCG difference.  The lower end of the bootstrap interval is taken  *)
(* to be that mean: the resampling only widens what is compared.            *)
NdcgDelta(rows, ranks, rel) ==
  LET fam == DefinedFamilies(rows, rel)
      d[S \in SUBSET fam] ==
        IF S = {} THEN 0
        ELSE LET q == CHOOSE x \in S : TRUE IN
             (1000 * (DcgOf(ranks["candidate"][q], q, rel)
                      - DcgOf(ranks["baseline"][q], q, rel))) \div IdcgOf(q, rel)
             + d[S \ {q}]
  IN d[fam] \div Cardinality(fam)

Gates(spec, rows, ranks, rel, failures, speed) ==
  [failures |-> failures = 0,
   exact    |-> GoodTops("candidate", rows, ranks, rel, {"exact_title"})
                >= GoodTops("baseline", rows, ranks, rel, {"exact_title"}),
   keyword  |-> GoodTops("candidate", rows, ranks, rel, {"keyword"})
                >= GoodTops("baseline", rows, ranks, rel, {"keyword"}),
   negative |-> SafeNegatives("candidate", rows, ranks, rel)
                >= SafeNegatives("baseline", rows, ranks, rel),
   recall   |-> Recalled("candidate", rows, ranks, rel)
                >= Recalled("baseline", rows, ranks, rel),
   top1     |-> GoodTops("candidate", rows, ranks, rel, PositiveFacets)
                >= GoodTops("baseline", rows, ranks, rel, PositiveFacets),
   hits     |-> \A cut \in {1, FreshTop} :
                  SourceHits("candidate", rows, ranks, cut)
                  >= SourceHits("baseline", rows, ranks, cut),
   effect   |-> NdcgDelta(rows, ranks, rel) >= spec.gates.effect,
   latency  |-> 100 * speed["candidate"] <= (100 + spec.gates.slower) * speed["baseline"]]

AllPass(gates) == \A g \in DOMAIN gates : gates[g]

-----------------------------------------------------------------------------
(***************************************************************************)
(* The evidence bundle, and what _validate_evidence demands of it: the     *)
(* rankings derive from the retrieval evidence, the pool is the union of   *)
(* both arms, the raw labels cover it exactly, the merged labels recompute,*)
(* and the receipts bind spec, manifest, rankings and trace.               *)
(***************************************************************************)
MergedOf(raw, matrix) == [raw |-> raw, matrix |-> matrix, grades |-> raw]

LabelsBind(ev, ranks) ==
  /\ ev.matrix = JudgedPairs(ranks)
  /\ ev.raw # Unwritten /\ DOMAIN ev.raw = ev.matrix
  /\ ev.merged = MergedOf(ev.raw, ev.matrix)

ReceiptsBind(ev, spec, man, ranks) ==
  /\ ValidTrace(ev.trace)
  /\ ev.execution = [spec |-> spec, manifest |-> man,
                     rankings |-> ranks, trace |-> ev.trace]

ValidCells(cells, man) == \A q \in FreshSet : ValidCell(man.rows[q], cells[q])

ValidEvidence(ev, spec, man, ranks) ==
  /\ ev.retrieval # Unwritten /\ ev.matrix # Unwritten
  /\ ValidCells(ev.retrieval.cells, man)
  /\ DeriveRankings(ev.retrieval.cells) = ranks
  /\ LabelsBind(ev, ranks)
  /\ ReceiptsBind(ev, spec, man, ranks)

(***************************************************************************)
(* The decision is computed from the evidence alone; validating one        *)
(* computes it again.                                                      *)
(***************************************************************************)
DecisionOf(spec, man, ev, ranks) ==
  LET gates == Gates(spec, man.rows, ranks, ev.merged.grades,
                     ev.retrieval.failures, ev.trace.speed)
  IN [spec |-> spec, manifest |-> man, evidence |-> ev,
      gates |-> gates,
      selected |-> IF AllPass(gates) THEN "candidate" ELSE "baseline"]

Computable(spec, man, ev, ranks) ==
  /\ ValidManifest(man, spec)
  /\ ValidEvidence(ev, spec, man, ranks)
  /\ DefinedFamilies(man.rows, ev.merged.grades) # {}

DecisionFollows(dec, spec, man) ==
  /\ ValidManifest(man, spec) /\ dec # Unwritten
  /\ dec.spec = spec /\ dec.manifest = man
  /\ LET ranks == DeriveRankings(dec.evidence.retrieval.cells) IN
     /\ Computable(spec, man, dec.evidence, ranks)
     /\ dec = DecisionOf(spec, man, dec.evidence, ranks)

-----------------------------------------------------------------------------
NoTrial == [at |-> 0, ranks |-> Unwritten, speed |-> Unwritten,
            spec |-> Unwritten, manifest |-> Unwritten, ev |-> Unwritten]

EmptyStudy ==
  [spec |-> Unwritten, manifest |-> Unwritten, review |-> Unwritten,
   retrieval |-> Unwritten, matrix |-> Unwritten, raw |-> Unwritten,
   merged |-> Unwritten, decision |-> Unwritten]

FreshInit ==
  /\ study = EmptyStudy /\ trial = NoTrial /\ cleared = Unwritten
  /\ live \in IndexStates /\ panel = <<>> /\ redone = 0

\* A step made again, or any other change to what is on file, spends redone.
Sign(field, value) ==
  /\ study' = [study EXCEPT ![field] = value]
  /\ IF study[field] = Unwritten THEN redone' = redone
     ELSE study[field] # value /\ redone < MaxRedone /\ redone' = redone + 1

Idle == trial.at = 0

FreezeSpec(x) ==
  /\ Idle /\ Sign("spec", BuildSpec(x))
  /\ UNCHANGED <<live, trial, panel, cleared>>

MakeManifest(rows) ==
  /\ Idle /\ ValidSpec(study.spec) /\ BuildManifestOk(rows, study.spec)
  /\ Sign("manifest", BuildManifest(rows, study.spec))
  /\ UNCHANGED <<live, trial, panel, cleared>>

MakeReviewPackets ==
  /\ Idle /\ study.review = Unwritten
  /\ ValidManifest(study.manifest, study.spec)
  /\ study' = [study EXCEPT !.review = ReviewPackets(study.manifest)]
  /\ UNCHANGED <<live, trial, panel, cleared, redone>>

\* The retrieval run: both channels over every query, and its failures.
Retrieve(f) ==
  /\ Idle /\ study.review # Unwritten
  /\ Sign("retrieval", [cells |-> live, failures |-> f])
  /\ UNCHANGED <<live, trial, panel, cleared>>

BuildJudgePackets ==
  /\ Idle /\ study.retrieval # Unwritten
  /\ ValidManifest(study.manifest, study.spec)
  /\ Sign("matrix", JudgedPairs(DeriveRankings(study.retrieval.cells)))
  /\ UNCHANGED <<live, trial, panel, cleared>>

\* The panel grades what its packets show: what it thinks is fixed per pair.
Judge ==
  /\ Idle /\ study.matrix # Unwritten
  /\ \E g \in [study.matrix -> PanelGrades] :
       /\ \A p \in study.matrix \cap DOMAIN panel : g[p] = panel[p]
       /\ Sign("raw", g)
       /\ panel' = [p \in DOMAIN panel \cup study.matrix |->
                      IF p \in DOMAIN panel THEN panel[p] ELSE g[p]]
  /\ UNCHANGED <<live, trial, cleared>>

Merge ==
  /\ Idle /\ study.raw # Unwritten /\ DOMAIN study.raw = study.matrix
  /\ Sign("merged", MergedOf(study.raw, study.matrix))
  /\ UNCHANGED <<live, trial, panel, cleared>>

(***************************************************************************)
(* execute_two_arm_development: the arms are warmed up, then every entry of*)
(* the schedule is one call of the runner on the index as it is then; the  *)
(* evidence given at the start is bound with the trace and evaluated.      *)
(***************************************************************************)
StartRun(speed) ==
  /\ Idle /\ study.merged # Unwritten /\ study.decision = Unwritten
  /\ ValidManifest(study.manifest, study.spec)
  /\ trial' = [at |-> 1, ranks |-> [a \in Arms |-> [q \in FreshSet |-> <<>>]],
               speed |-> speed, spec |-> study.spec,
               manifest |-> study.manifest,
               ev |-> [retrieval |-> study.retrieval, matrix |-> study.matrix,
                       raw |-> study.raw, merged |-> study.merged]]
  /\ UNCHANGED <<study, live, panel, cleared, redone>>

Measure ==
  /\ trial.at \in 1..Len(Schedule)
  /\ LET q == Schedule[trial.at][1]  a == Schedule[trial.at][2] IN
     trial' = [trial EXCEPT !.at = @ + 1,
                            !.ranks[a][q] = RankingOf(a, live[q])]
  /\ UNCHANGED <<study, live, panel, cleared, redone>>

\* The whole evidence of a run: what was given, its trace and its receipt.
BoundEvidence(t) ==
  LET trace == [schedule |-> Schedule, speed |-> t.speed] IN
  [retrieval |-> t.ev.retrieval, matrix |-> t.ev.matrix, raw |-> t.ev.raw,
   merged |-> t.ev.merged, trace |-> trace,
   execution |-> [spec |-> t.spec, manifest |-> t.manifest,
                  rankings |-> t.ranks, trace |-> trace]]

Evaluate ==
  /\ trial.at = Len(Schedule) + 1
  /\ LET ev == BoundEvidence(trial) IN
     study' = IF Computable(trial.spec, trial.manifest, ev, trial.ranks)
              THEN [study EXCEPT !.decision = DecisionOf(trial.spec, trial.manifest, ev, trial.ranks)]
              ELSE study
  /\ trial' = [trial EXCEPT !.at = 0]
  /\ UNCHANGED <<live, panel, cleared, redone>>

AssertReady ==
  /\ Idle /\ cleared = Unwritten
  /\ DecisionFollows(study.decision, study.spec, study.manifest)
  /\ study.decision.selected = "candidate"
  /\ cleared' = study.decision
  /\ UNCHANGED <<study, live, trial, panel, redone>>

-----------------------------------------------------------------------------
(***************************************************************************)
(* What goes wrong between the calls: the corpus is indexed again, or a    *)
(* file is edited and signed again.                                        *)
(***************************************************************************)
Spend == redone < MaxRedone /\ redone' = redone + 1

Reindex(cells) ==
  /\ Spend /\ cells # live /\ live' = cells
  /\ UNCHANGED <<study, trial, panel, cleared>>

EditSpec ==
  /\ Spend /\ study.spec # Unwritten
  /\ \/ study' = [study EXCEPT !.spec.candidate = [bm25 |-> 1, dense |-> 1]]
     \/ study' = [study EXCEPT !.spec.gates.effect = 0]
  /\ UNCHANGED <<live, trial, panel, cleared>>

EditLabels ==
  /\ Spend /\ study.merged # Unwritten
  /\ \E p \in DOMAIN study.merged.grades :
       study' = [study EXCEPT !.merged.grades[p] = 2 - @]
  /\ UNCHANGED <<live, trial, panel, cleared>>

EditDecision ==
  /\ Spend /\ study.decision # Unwritten
  /\ study' = [study EXCEPT !.decision.selected = "candidate",
                            !.decision.gates = [g \in DOMAIN @ |-> TRUE]]
  /\ UNCHANGED <<live, trial, panel, cleared>>

FreshNext ==
  \/ \E x \in FreshExperiments : FreezeSpec(x)
  \/ \E rows \in RecordFiles : MakeManifest(rows)
  \/ MakeReviewPackets
  \/ \E f \in 0..1 : Retrieve(f)
  \/ BuildJudgePackets
  \/ Judge
  \/ Merge
  \/ \E speed \in RunSpeeds : StartRun(speed)
  \/ Measure
  \/ Evaluate
  \/ AssertReady
  \/ \E cells \in IndexStates : Reindex(cells)
  \/ EditSpec
  \/ EditLabels
  \/ EditDecision

FreshSpec == FreshInit /\ [][FreshNext]_freshVars

-----------------------------------------------------------------------------
(***************************************************************************)
(* A candidate cleared for the next stage earned it: the rankings its run  *)
(* measured, graded as the judges saw them, are no worse than the          *)
(* baseline's on any gate and better by the minimum effect, whatever was   *)
(* re-run, re-indexed or edited meanwhile (validate_development_decision). *)
(***************************************************************************)
ClearedIsEarned ==
  cleared # Unwritten =>
    LET ranks == cleared.evidence.execution.rankings
        rows  == cleared.manifest.rows
    IN /\ JudgedPairs(ranks) \subseteq DOMAIN panel
       /\ LET rel == [p \in JudgedPairs(ranks) |-> panel[p]] IN
          /\ SafeNegatives("candidate", rows, ranks, rel)
             >= SafeNegatives("baseline", rows, ranks, rel)
          /\ GoodTops("candidate", rows, ranks, rel, Facets \ {"strict_negative"})
             >= GoodTops("baseline", rows, ranks, rel, Facets \ {"strict_negative"})
          /\ NdcgDelta(rows, ranks, rel) >= cleared.spec.gates.effect
          /\ cleared.evidence.retrieval.failures = 0

(***************************************************************************)
(* Every document either arm returned in the measured run was shown to the *)
(* judges: none is scored as an ungraded zero                              *)
(* (build_relevance_judge_packets: "no returned ID can silently receive an *)
(* unlabelled zero").                                                      *)
(***************************************************************************)
ReturnedIsJudged ==
  study.decision # Unwritten =>
    JudgedPairs(study.decision.evidence.execution.rankings)
      \subseteq DOMAIN study.decision.evidence.raw

(***************************************************************************)
(* The two arms differ in order only: the candidate returns the documents  *)
(* of the baseline's pool, for every query and every index, so a run can   *)
(* never be won by recalling more (_derive_rankings_from_retrieval).       *)
(***************************************************************************)
ArmsShareThePool ==
  (study.retrieval # Unwritten /\ study.matrix = Unwritten) =>
    \A q \in FreshSet :
      LET r == DeriveRankings(study.retrieval.cells) IN
      DocsOf(r["baseline"][q]) = DocsOf(r["candidate"][q])

(***************************************************************************)
(* The manifest on file shares no topic family and no source entity with   *)
(* the protected set (build_fresh_query_manifest counts, the validator     *)
(* refuses).                                                               *)
(***************************************************************************)
FreshIsDisjoint ==
  study.manifest # Unwritten =>
    /\ Overlap(study.manifest.rows) = {}
    /\ \A q \in FreshSet : study.manifest.rows[q].family \notin ProtectedFamilies

(***************************************************************************)
(* Review packets show every query of the manifest once.                   *)
(***************************************************************************)
ReviewCovers ==
  study.review # Unwritten =>
    \A q \in FreshSet :
      Cardinality({p \in {<<i, j>> : i \in 1..Len(study.review.packets),
                                     j \in 1..PacketSize} :
                     /\ p[2] <= Len(study.review.packets[p[1]])
                     /\ study.review.packets[p[1]][p[2]] = q}) = 1

\* A cleared candidate earned it on queries disjoint from the protected ones, over one pool of
\* candidates for both arms, with every returned document judged and every query reviewed.
FreshSound ==
  ClearedIsEarned /\ ReturnedIsJudged /\ ArmsShareThePool /\ FreshIsDisjoint /\ ReviewCovers

=============================================================================
