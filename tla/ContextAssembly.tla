--------------------------- MODULE ContextAssembly ---------------------------
(***************************************************************************)
(* retrieve_context, strategy "local" (retrieve_context_service.py and the *)
(* expansion, conflict-set, orphan-community, budget and lineage services).*)
(* From the anchors a caller names, one hop of allowed edges is added,     *)
(* contradictions are grouped into conflict sets, anchors outside every    *)
(* community borrow one, a token budget drops what does not fit, and the   *)
(* history of what is surfaced is attached.                                *)
(*                                                                         *)
(* The stages read one after the other in autocommit.  Edges are read as   *)
(* of one point in time, but to the second, so what other sessions write   *)
(* within that second shows in the later reads.                            *)
(***************************************************************************)
EXTENDS Naturals, Sequences, FiniteSets, SequencesExt, FiniteSetsExt

CONSTANTS
  CtxMemories,     \* the memories
  CtxPlace,        \* where each one's id sorts
  CtxTokens,       \* what each costs
  CtxGraphs,       \* the databases a call may find
  CtxRequests,     \* anchors, in order, and budget
  ExpansionTopK,   \* CONTEXT_EXPANSION_TOP_K_RELATIONSHIPS
  ConflictCap,     \* CONTEXT_EXPANSION_CONTRADICTS_CAP
  OrphanCap,       \* CONTEXT_EXPANSION_ORPHAN_COMMUNITY_CAP
  HistoryCap,      \* LINEAGE_HISTORICAL_CAP
  LineageDepth,    \* SUPERSESSION_CHAIN_MAX_DEPTH
  MaxCtxEdits      \* writes of other sessions during a call

CtxEdges == CtxMemories \X CtxMemories

ASSUME CtxAssumption ==
  /\ IsFiniteSet(CtxMemories)
  /\ CtxPlace \in [CtxMemories -> Nat] /\ CtxTokens \in [CtxMemories -> Nat]
  /\ \A x, y \in CtxMemories : CtxPlace[x] = CtxPlace[y] => x = y
  /\ CtxGraphs \subseteq [life : SUBSET CtxEdges, contra : SUBSET CtxEdges, assoc : SUBSET CtxEdges,
                          live : SUBSET CtxMemories, visible : SUBSET CtxMemories,
                          community : [CtxMemories -> Nat]]
  /\ CtxRequests \subseteq [anchors : Seq(CtxMemories), budget : Nat]
  /\ ExpansionTopK \in Nat /\ ConflictCap \in Nat /\ OrphanCap \in Nat /\ HistoryCap \in Nat
  /\ LineageDepth \in Nat \ {0} /\ MaxCtxEdits \in Nat

VARIABLES
  graph,   \* live and visible memories; lifecycle, contradicts and other edges; communities
  call,    \* the request and what has been read for it
  writes   \* of other sessions so far

ctxVars == <<graph, call, writes>>

NoCommunity == 0

FirstOf(S) == CHOOSE m \in S : \A k \in S : CtxPlace[m] <= CtxPlace[k]

\* What the entries of a list at the positions in at cost.
TokensOf(ids, at) ==
  LET sum[i \in 0..Len(ids)] ==
        IF i = 0 THEN 0 ELSE sum[i - 1] + (IF i \in at THEN CtxTokens[ids[i]] ELSE 0)
  IN  sum[Len(ids)]

NewCall(request) ==
  [pc |-> "resolve", anchors |-> request.anchors, budget |-> request.budget,
   todo |-> ToSet(request.anchors), found |-> [m \in {} |-> {}], contra |-> {},
   expansion |-> <<>>, sets |-> {}, orphans |-> {},
   primary |-> [kept |-> {}, used |-> 0], expanded |-> [kept |-> {}, used |-> 0],
   lineage |-> [m \in {} |-> {}], seen |-> {}]

CtxInit ==
  /\ graph \in CtxGraphs
  /\ call \in {[NewCall(r) EXCEPT !.seen = graph.visible] : r \in CtxRequests}
  /\ writes = 0

Anchors == ToSet(call.anchors)

(***************************************************************************)
(* Edges.  An agent reads an edge only if it may see both ends.            *)
(***************************************************************************)
Seen(g, edges) == {e \in edges : {e[1], e[2]} \subseteq g.visible}
EndsOf(edges) == UNION {{e[1], e[2]} : e \in edges}
Dependencies(g, edges, m) == {e \in Seen(g, edges) : m \in {e[1], e[2]}}
OtherEnd(e, m) == IF e[1] = m THEN e[2] ELSE e[1]

\* _get_lineage_raw: what depth hops reach, in either direction.
Reach(edges, m, depth) ==
  LET after[n \in 0..depth] ==
        IF n = 0 THEN {m}
        ELSE after[n - 1] \cup {e[2] : e \in {e \in edges : e[1] \in after[n - 1]}}
  IN  after[depth]

Ancestors(edges, m) == Reach(edges, m, LineageDepth)
Descendants(edges, m) == Reach({<<e[2], e[1]>> : e \in edges}, m, LineageDepth)
Generation(edges, m, a) == CHOOSE d \in 0..LineageDepth :
                             a \in Reach(edges, m, d) /\ (d > 0 => a \notin Reach(edges, m, d - 1))

(***************************************************************************)
(* Anchors and expansion.                                                  *)
(***************************************************************************)
\* An anchor the caller may not see is not found, and the call is refused.
ResolveAnchors ==
  /\ call.pc = "resolve"
  /\ call' = [call EXCEPT !.pc = IF Anchors \subseteq graph.visible THEN "edges" ELSE "refused"]
  /\ UNCHANGED <<graph, writes>>

\* _collect_edges for one anchor: analyze_dependencies with depth 1, both ways;
\* an anchor hidden since is skipped.
CollectEdges(h) ==
  /\ call.pc = "edges" /\ h \in call.todo
  /\ LET mine  == {e \in Dependencies(graph, graph.assoc, h) : ~ {e[1], e[2]} \subseteq Anchors}
         ids   == {OtherEnd(e, h) : e \in mine}
         known == DOMAIN call.found
     IN  call' = [call EXCEPT !.todo = @ \ {h},
           !.contra = @ \cup Dependencies(graph, graph.contra, h),
           !.found = [m \in known \cup ids |->
                        (IF m \in known THEN call.found[m] ELSE {}) \cup
                        (IF m \in ids THEN {h} ELSE {})],
           !.pc = IF call.todo = {h} THEN "conflicts" ELSE @]
  /\ UNCHANGED <<graph, writes>>

\* _rank_expansion_nodes: by mutual neighbours, then id; the scores are equal.
RankExpansion(found) ==
  LET Before(x, y) == \/ Cardinality(found[x]) > Cardinality(found[y])
                      \/ Cardinality(found[x]) = Cardinality(found[y]) /\ CtxPlace[x] < CtxPlace[y]
      cap == ExpansionTopK * Len(call.anchors)
  IN  [i \in 1..Min({cap, Cardinality(DOMAIN found)}) |->
         CHOOSE m \in DOMAIN found : Cardinality({k \in DOMAIN found : Before(k, m)}) = i - 1]

(***************************************************************************)
(* Conflict sets.  The contradicts edges fall into components; one is      *)
(* resolved when lifecycle edges, followed back and forth, connect all its *)
(* members and just one of them is not archived.                           *)
(***************************************************************************)
ClosedUnder(edges, S) == \A e \in edges : e[1] \in S <=> e[2] \in S

\* union and find: what edges connect to m.
ComponentOf(edges, m) ==
  {x \in CtxMemories : \A S \in SUBSET CtxMemories : m \in S /\ ClosedUnder(edges, S) => x \in S}
Components(edges) == {ComponentOf(edges, m) : m \in EndsOf(edges)}

\* Seeded fault: one round of the search.
ClosureOnce(g, m) == Ancestors(g.life, m) \cup Descendants(g.life, m)

Closure(g, m) ==
  LET visited[n \in 0..LineageDepth] ==
        IF n = 0 THEN {m}
        ELSE visited[n - 1] \cup
             UNION {Ancestors(g.life, k) \cup Descendants(g.life, k) : k \in visited[n - 1]}
  IN  visited[LineageDepth]

LifecycleResolved(g, members) ==
  /\ members \subseteq Closure(g, FirstOf(members))
  /\ Cardinality(members \cap g.live) = 1

\* _admit_conflict_components: in the order of their first members, until one
\* does not fit.  The sets are disjoint, so what they add is counted together.
AdmitComponents(sets, shown) ==
  {s \in sets :
     LET upTo == {t \in sets : CtxPlace[FirstOf(t)] <= CtxPlace[FirstOf(s)]}
     IN  Cardinality(UNION upTo \ shown) <= ConflictCap}

AssembleConflicts ==
  /\ call.pc = "conflicts"
  /\ LET expansion  == RankExpansion(call.found)
         unresolved == {s \in Components(call.contra) : ~ LifecycleResolved(graph, s)}
         shown      == Anchors \cup ToSet(expansion)   \* what is left is conflict_only
     IN  call' = [call EXCEPT !.pc = "orphans", !.expansion = expansion,
                    !.sets = AdmitComponents(unresolved, shown)]
  /\ UNCHANGED <<graph, writes>>

ConflictMembers == UNION call.sets

(***************************************************************************)
(* Orphans: an anchor in no community is assigned the nearest visible one, *)
(* if that is near enough; its visible members that have a vector and are  *)
(* not surfaced yet come along.  Archiving deletes a vector.               *)
(***************************************************************************)

ExcludedForOrphans == Anchors \cup ToSet(call.expansion) \cup ConflictMembers

CommunityMembers(g, c) ==
  {m \in CtxMemories : g.community[m] = c /\ m \in g.live /\ m \in g.visible}

OrphanAnchors(g) == {m \in Anchors : g.community[m] = NoCommunity /\ m \in g.live}

FindOrphans ==
  /\ call.pc = "orphans"
  /\ \E nearest \in [OrphanAnchors(graph) -> {graph.community[m] : m \in graph.visible}] :
       LET all    == UNION {CommunityMembers(graph, nearest[o]) :
                              o \in {o \in DOMAIN nearest : nearest[o] # NoCommunity}}
           others == all \ ExcludedForOrphans
       IN  call' = [call EXCEPT !.pc = "pack",
             !.orphans = {m \in others :
                            Cardinality({k \in others : CtxPlace[k] < CtxPlace[m]}) < OrphanCap}]
  /\ UNCHANGED <<graph, writes>>

(***************************************************************************)
(* The budget: first come, first packed, anchors before expansion.  What   *)
(* is dropped but belongs to an admitted conflict set is recovered.  A     *)
(* section is what it has used so far and the positions it keeps.          *)
(***************************************************************************)
Pack(ids, used, limit) ==
  LET after[i \in 0..Len(ids)] ==
        IF i = 0 THEN [kept |-> {}, used |-> used]
        ELSE LET p == after[i - 1]
                 total == p.used + CtxTokens[ids[i]]
             IN  IF total <= limit THEN [kept |-> p.kept \cup {i}, used |-> total] ELSE p
  IN  after[Len(ids)]

\* Seeded fault: each section starts from an empty ledger.
PackSectionsApart(anchors, expansion, limit) ==
  << Pack(anchors, 0, limit), Pack(expansion, 0, limit) >>

PackSections(anchors, expansion, limit) ==
  LET primary == Pack(anchors, 0, limit)
  IN  << primary, Pack(expansion, primary.used, limit) >>

PackBudget ==
  /\ call.pc = "pack"
  /\ LET packed == PackSections(call.anchors, call.expansion, call.budget)
     IN  call' = [call EXCEPT !.pc = "lineage", !.primary = packed[1], !.expanded = packed[2]]
  /\ UNCHANGED <<graph, writes>>

Recovered(ids, section) == {i \in DOMAIN ids \ section.kept : ids[i] \in ConflictMembers}

FinalPrimary == call.primary.kept \cup Recovered(call.anchors, call.primary)
FinalExpansion == call.expanded.kept \cup Recovered(call.expansion, call.expanded)
PrimaryIds == {call.anchors[i] : i \in FinalPrimary}
ExpansionIds == {call.expansion[i] : i \in FinalExpansion}
ConflictOnlyIds == ConflictMembers \ (Anchors \cup ToSet(call.expansion))
Surfaced == PrimaryIds \cup ExpansionIds \cup ConflictOnlyIds \cup call.orphans
ReportedUsed ==
  call.expanded.used + TokensOf(call.anchors, Recovered(call.anchors, call.primary))
                     + TokensOf(call.expansion, Recovered(call.expansion, call.expanded))

(***************************************************************************)
(* Lineage: the nearest ancestors of every surfaced anchor or expansion    *)
(* node, and beyond the cap those a resolved contradiction was about.      *)
(***************************************************************************)
\* _contradiction_peers: members of resolved components.
ResolvedMembers(g, contra) ==
  UNION {s \in Components(contra) : LifecycleResolved(g, s)}

HistoryOf(g, head, flagged) ==
  LET edges == Seen(g, g.life)
      old   == Ancestors(edges, head) \ {head}
      Age(x) == Generation(edges, head, x)
      Newer(x, y) == Age(x) < Age(y) \/ (Age(x) = Age(y) /\ CtxPlace[x] < CtxPlace[y])
  IN  {m \in old : m \in flagged \/ Cardinality({k \in old : Newer(k, m)}) < HistoryCap}

AssembleLineage ==
  /\ call.pc = "lineage"
  /\ LET flagged == ResolvedMembers(graph, call.contra)
         heads   == {h \in (Anchors \cup ToSet(call.expansion)) \cap graph.visible :
                       h \in Surfaced /\ HistoryOf(graph, h, flagged) # {}}
     IN  call' = [call EXCEPT !.pc = "answered",
                    !.lineage = [h \in heads |-> HistoryOf(graph, h, flagged)]]
  /\ UNCHANGED <<graph, writes>>

(***************************************************************************)
(* Other sessions, during the call.                                        *)
(***************************************************************************)
Meanwhile ==
  /\ call.pc \notin {"resolve", "refused", "answered"} /\ writes < MaxCtxEdits
  /\ writes' = writes + 1
  /\ UNCHANGED call

CtxArchive(m) ==
  /\ Meanwhile /\ m \in graph.live
  /\ graph' = [graph EXCEPT !.live = @ \ {m}]

CtxHide(m) ==
  /\ Meanwhile /\ m \in graph.visible
  /\ graph' = [graph EXCEPT !.visible = @ \ {m}]

CtxSupersede(m, n) ==
  /\ Meanwhile /\ m # n /\ m \in graph.live /\ <<m, n>> \notin graph.life
  /\ graph' = [graph EXCEPT !.life = @ \cup {<<m, n>>}, !.live = @ \ {n}]

CtxWithdraw(e) ==
  /\ Meanwhile /\ e \in graph.contra \cup graph.assoc
  /\ graph' = [graph EXCEPT !.contra = @ \ {e}, !.assoc = @ \ {e}]

CtxRecluster(m) ==
  /\ Meanwhile /\ graph.community[m] = NoCommunity
  /\ graph' = [graph EXCEPT !.community = [@ EXCEPT ![m] = 2]]

CtxNext ==
  \/ ResolveAnchors \/ AssembleConflicts \/ FindOrphans \/ PackBudget \/ AssembleLineage
  \/ \E m \in CtxMemories : CollectEdges(m) \/ CtxArchive(m) \/ CtxHide(m) \/ CtxRecluster(m)
  \/ \E m, n \in CtxMemories : CtxSupersede(m, n) \/ CtxWithdraw(<<m, n>>)

CtxSpec == CtxInit /\ [][CtxNext]_ctxVars

-----------------------------------------------------------------------------
(* Properties.                                                             *)

Answered == call.pc = "answered"

(***************************************************************************)
(* A conflict set the answer reports is shown whole: every member is among *)
(* the memories, also one the budget had dropped (recovered_primary,       *)
(* recovered_expansion).                                                   *)
(***************************************************************************)
ConflictFullyShown == Answered => ConflictMembers \subseteq Surfaced

(***************************************************************************)
(* A memory is included for one reason: anchors, expansion, conflict-only  *)
(* members and borrowed community members never overlap, whatever changed  *)
(* between the reads that found them (excluded_for_orphan_lookup).         *)
(***************************************************************************)
OneInclusion ==
  Answered =>
    LET classes == << PrimaryIds, ExpansionIds, ConflictOnlyIds, call.orphans >>
    IN  \A i, k \in DOMAIN classes : i < k => classes[i] \cap classes[k] = {}

(***************************************************************************)
(* The budget binds everything but contradictions: the anchors and the     *)
(* expansion that no conflict set forces in fit it, and what the answer    *)
(* reports as used is what they and the recovered members cost.            *)
(***************************************************************************)
BudgetHonest ==
  Answered =>
    /\ TokensOf(call.anchors, {i \in FinalPrimary : call.anchors[i] \notin ConflictMembers})
         + TokensOf(call.expansion, {i \in FinalExpansion : call.expansion[i] \notin ConflictMembers})
         <= call.budget
    /\ ReportedUsed = TokensOf(call.anchors, FinalPrimary) + TokensOf(call.expansion, FinalExpansion)

(***************************************************************************)
(* The search back and forth over lifecycle edges (bounded in rounds and   *)
(* depth, _component_lifecycle_resolved) calls a contradiction settled     *)
(* only when its members are connected and one is left standing, and it    *)
(* finds every such contradiction whose lineage has no more members than   *)
(* the search has rounds.                                                  *)
(***************************************************************************)
SettledMeansConnected ==
  call.pc = "conflicts" =>
  \A s \in Components(graph.contra) :
    LET family  == ComponentOf(graph.life, FirstOf(s))
        settled == s \subseteq family /\ Cardinality(s \cap graph.live) = 1
    IN  /\ LifecycleResolved(graph, s) => settled
        /\ settled /\ Cardinality(family) <= LineageDepth + 1 => LifecycleResolved(graph, s)

(***************************************************************************)
(* A settled contradiction is not forgotten: if a surfaced memory's        *)
(* history, as the caller may see it, holds a member of it, that member is *)
(* in the lineage, however long the history (_assemble_head_lineage).      *)
(***************************************************************************)
SettledIsRemembered ==
  Answered =>
    \A h \in Surfaced \cap (Anchors \cup ToSet(call.expansion)) :
      \A s \in Components(call.contra) :
        LifecycleResolved(graph, s) =>
          \A m \in s \cap (Ancestors(Seen(graph, graph.life), h) \ {h}) :
            h \in DOMAIN call.lineage /\ m \in call.lineage[h]

(***************************************************************************)
(* Nothing reaches the caller that it could not see when it asked: neither *)
(* as a memory, nor as a conflict's member, nor in a lineage.              *)
(***************************************************************************)
OnlyVisibleSurfaces ==
  Answered =>
    Surfaced \cup UNION {call.lineage[h] : h \in DOMAIN call.lineage} \subseteq call.seen

\* A context tells a conflict whole, calls it settled only if its members' lineage ends in one
\* live head, and then still shows the history that settled it.
ConflictsTold == ConflictFullyShown /\ SettledMeansConnected /\ SettledIsRemembered

\* A context shows each memory in one place, spends what it reports within the budget, and holds
\* only what the caller may see.
ContextPacked == OneInclusion /\ BudgetHonest /\ OnlyVisibleSurfaces

=============================================================================
