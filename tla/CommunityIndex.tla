--------------------------- MODULE CommunityIndex ---------------------------
(***************************************************************************)
(* The community index (community_detection_service.py) and the global     *)
(* strategy of retrieve_context that reads it (community_retrieval_        *)
(* service.py).  A pass claims a cooldown, clusters the current relation   *)
(* graph, splits oversized groups again and replaces the whole index in    *)
(* one transaction.  A global call reads centroids, memberships and        *)
(* vectors one after the other while passes and writers go on.             *)
(*                                                                         *)
(* The passes are those of processes without a coordinator; on the         *)
(* daemon's writer thread the same steps run without interleaving.  Leiden *)
(* may return any partition; a similarity is a number per memory.          *)
(***************************************************************************)
EXTENDS Integers, Sequences, FiniteSets, Functions, FiniteSetsExt

CONSTANTS
  Linked,           \* the memories
  Pairs,            \* relations that may exist between them
  Similarity,       \* of each memory to the query
  IdOrder,          \* where each memory's id sorts among the ids
  Runners,          \* processes that may run a pass
  SplitAbove,       \* COMMUNITY_HIERARCHY_SIZE_THRESHOLD
  LevelCap,         \* COMMUNITY_HIERARCHY_MAX_DEPTH
  SeedCap,          \* CONTEXT_GLOBAL_TOP_K_COMMUNITIES
  RepresentativeCap,\* CONTEXT_GLOBAL_REPRESENTATIVE_RESERVE_CAP
  MemberCap,        \* CONTEXT_GLOBAL_MEMBER_POOL_CAP
  SimilarityGap,    \* CONTEXT_GLOBAL_REPRESENTATIVE_SIMILARITY_GAP
  MemberBudget,     \* how many members the budget holds
  MaxPasses, MaxStoreEdits

\* The gap is not negative, and each cap leaves room for one.
ASSUME IndexAssumption ==
  /\ IsFiniteSet(Linked) /\ Pairs \subseteq Linked \X Linked
  /\ Similarity \in [Linked -> Int] /\ IdOrder \in [Linked -> Int]
  /\ \A x, y \in Linked : IdOrder[x] = IdOrder[y] => x = y
  /\ SplitAbove \in Nat /\ LevelCap \in Nat /\ SimilarityGap \in Nat /\ SeedCap \in Nat \ {0}
  /\ RepresentativeCap \in Nat \ {0} /\ MemberCap \in Nat \ {0} /\ MemberBudget \in Nat
  /\ MaxPasses \in Nat /\ MaxStoreEdits \in Nat

VARIABLES
  store,    \* live and visible memories, relations
  index,    \* the community rows
  lock,     \* _system_locks: whether the cooldown has passed
  runner,   \* each process's pass
  ask,      \* the global call
  spent     \* passes begun, writes of other sessions, claims in this window

indexVars == <<store, index, lock, runner, ask, spent>>

IdleRunner == [pc |-> "idle", pass |-> 0, rows |-> {}]
NewAsk == [pc |-> "seed", seeds |-> <<>>, of |-> [m \in {} |-> {}],
           members |-> [m \in {} |-> {}], reps |-> {}, rest |-> {}]

IndexInit ==
  /\ store = [live |-> Linked, visible |-> Linked, edges |-> Pairs]
  /\ index = {}
  /\ lock = TRUE
  /\ runner = [r \in Runners |-> IdleRunner]
  /\ ask = NewAsk
  /\ spent = [passes |-> 0, edits |-> 0, claims |-> 0]

(***************************************************************************)
(* The order every list of scored memories is put in: by similarity, and   *)
(* by id where two are equally similar.  ByQuery lists a set in it.        *)
(***************************************************************************)
Before(x, y) ==
  \/ Similarity[x] > Similarity[y]
  \/ Similarity[x] = Similarity[y] /\ IdOrder[x] < IdOrder[y]

ByQuery(S) ==
  [i \in 1..Cardinality(S) |-> CHOOSE m \in S : Cardinality({k \in S : Before(k, m)}) = i - 1]

BestOf(S) == CHOOSE m \in S : \A k \in S \ {m} : Before(m, k)

(***************************************************************************)
(* A pass.                                                                 *)
(***************************************************************************)
LiveEdges(s) == {e \in s.edges : {e[1], e[2]} \subseteq s.live /\ e[1] # e[2]}
Nodes(s) == UNION {{e[1], e[2]} : e \in LiveEdges(s)}

Partitions(S) ==
  {P \in SUBSET ((SUBSET S) \ {{}}) :
     UNION P = S /\ \A x, y \in P : x # y => x \cap y = {}}

\* With no edge to cluster the pass that empties the index claims no cooldown; it reads
\* the edges again, as any pass does.
CheckEdges(r) ==
  /\ runner[r].pc = "idle" /\ spent.passes < MaxPasses
  /\ spent' = [spent EXCEPT !.passes = @ + 1]
  /\ runner' = [runner EXCEPT ![r] =
       [pc |-> IF LiveEdges(store) = {} THEN "cluster" ELSE "claim",
        pass |-> spent.passes + 1, rows |-> {}]]
  /\ UNCHANGED <<store, index, lock, ask>>

CooldownOver == lock

\* _claim_cooldown: one conditional UPDATE.
ClaimCooldown(r) ==
  /\ runner[r].pc = "claim"
  /\ IF CooldownOver
     THEN /\ runner' = [runner EXCEPT ![r].pc = "cluster"]
          /\ lock' = FALSE
          /\ spent' = [spent EXCEPT !.claims = @ + 1]
     ELSE runner' = [runner EXCEPT ![r] = IdleRunner] /\ UNCHANGED <<lock, spent>>
  /\ UNCHANGED <<store, index, ask>>

Cooldown ==
  /\ ~ lock
  /\ lock' = TRUE
  /\ spent' = [spent EXCEPT !.claims = 0]
  /\ UNCHANGED <<store, index, runner, ask>>

\* Seeded fault: a group too large is marked as split at any depth.
SplitsAtAnyDepth(group, level) == Cardinality(group) > SplitAbove

Splits(group, level) == Cardinality(group) > SplitAbove /\ level < LevelCap

SplitOf(groups, level) == {g \in groups : Splits(g, level)}

(***************************************************************************)
(* add_group: the groups of each level.  The first level is a partition of *)
(* the nodes, the next one a partition of each group that is split again.  *)
(***************************************************************************)
Hierarchies(S) ==
  {h \in [0..LevelCap -> UNION {Partitions(T) : T \in SUBSET S}] :
     /\ UNION h[0] = S
     /\ \A l \in 1..LevelCap :
          /\ UNION h[l] = UNION SplitOf(h[l - 1], l - 1)
          /\ \A k \in h[l] : \E g \in SplitOf(h[l - 1], l - 1) : k \subseteq g}

\* uuid4: no two passes, and no two groups of a pass, share an id.
RowId(pass, level, group) == <<pass, level, group>>

ParentOf(pass, h, level, group) ==
  IF level = 0 THEN <<>> ELSE RowId(pass, level - 1, CHOOSE p \in h[level - 1] : group \subseteq p)

\* A community row; one that was split has no members of its own.
Row(pass, h, level, group, s) ==
  [id |-> RowId(pass, level, group), parent |-> ParentOf(pass, h, level, group),
   members |-> IF Splits(group, level) THEN {} ELSE group, centroid |-> group \cap s.live # {}]

RowsOf(pass, h, s) ==
  UNION {{Row(pass, h, level, group, s) : group \in h[level]} : level \in 0..LevelCap}

\* recompute_communities up to its transaction; without edges there are no rows.
ComputeRows(r) ==
  /\ runner[r].pc = "cluster"
  /\ \E h \in Hierarchies(Nodes(store)) :
       runner' = [runner EXCEPT ![r] = [pc |-> "write", pass |-> runner[r].pass,
                                        rows |-> RowsOf(runner[r].pass, h, store)]]
  /\ UNCHANGED <<store, index, lock, ask, spent>>

\* Its transaction replaces communities, memberships and centroids together.
WriteIndex(r) ==
  /\ runner[r].pc = "write"
  /\ index' = runner[r].rows
  /\ runner' = [runner EXCEPT ![r] = IdleRunner]
  /\ UNCHANGED <<store, lock, ask, spent>>

\* The pass fails: it is logged, and the claim is not given back.
PassFails(r) ==
  /\ runner[r].pc \in {"cluster", "write"}
  /\ runner' = [runner EXCEPT ![r] = IdleRunner]
  /\ UNCHANGED <<store, index, lock, ask, spent>>

(***************************************************************************)
(* A global call.                                                          *)
(***************************************************************************)
Leaves(rows) == {row \in rows : ~ \E kid \in rows : kid.parent = row.id}

\* fetch_leaf_community_centroids, those with a member the agent may see.
Seedable == {row \in Leaves(index) : row.centroid /\ row.members \cap store.visible # {}}

\* _seed_communities: the best by centroid, at least one, within cap and gap.
SeedCommunities ==
  /\ ask.pc = "seed"
  /\ IF Seedable = {}
     THEN ask' = [ask EXCEPT !.pc = "answered"]
     ELSE \E n \in 1..SeedCap :
          \E seeds \in [1..n -> {row.id : row \in Seedable}] :
            /\ IsInjective(seeds)
            /\ ask' = [ask EXCEPT !.pc = "members", !.seeds = seeds,
                         !.of = [i \in DOMAIN seeds |->
                                   UNION {row.members : row \in {row \in index : row.id = seeds[i]}}]]
  /\ UNCHANGED <<store, index, lock, runner, spent>>

\* _load_members, by community id, in the index as it is by now.
LoadMembers ==
  /\ ask.pc = "members"
  /\ ask' = [ask EXCEPT !.pc = "rank",
       !.members = [i \in DOMAIN ask.seeds |->
          store.visible \cap
          UNION {row.members : row \in {row \in index : row.id = ask.seeds[i]}}]]
  /\ UNCHANGED <<store, index, lock, runner, spent>>

\* The cap, then the gap to the best.
Admitted(ranked) ==
  LET near(i) == Similarity[ranked[1]] <= Similarity[ranked[i]] + SimilarityGap
  IN  {ranked[i] : i \in {i \in 1..Min({RepresentativeCap, Len(ranked)}) : \A k \in 1..i : near(k)}}

\* Scores by the vectors there are now, picks, and packs the rest.
RankAndPack ==
  /\ ask.pc = "rank"
  /\ LET scored == [i \in DOMAIN ask.seeds |-> ask.members[i] \cap store.live]
         some   == {i \in DOMAIN ask.seeds : scored[i] # {}}
         rest   == ByQuery(UNION {scored[i] \ {BestOf(scored[i])} : i \in some})
         kept   == Min({MemberCap, MemberBudget, Len(rest)})
     IN  ask' = [ask EXCEPT !.pc = "answered", !.members = scored,
                   !.reps = Admitted(ByQuery({BestOf(scored[i]) : i \in some})),
                   !.rest = {rest[i] : i \in 1..kept}]
  /\ UNCHANGED <<store, index, lock, runner, spent>>

(***************************************************************************)
(* Other sessions.                                                         *)
(***************************************************************************)
StoreEdit ==
  /\ spent.edits < MaxStoreEdits
  /\ spent' = [spent EXCEPT !.edits = @ + 1]
  /\ \/ \E m \in store.live : store' = [store EXCEPT !.live = @ \ {m}]
     \/ \E m \in store.visible : store' = [store EXCEPT !.visible = @ \ {m}]
     \/ \E e \in store.edges : store' = [store EXCEPT !.edges = @ \ {e}]
  /\ UNCHANGED <<index, lock, runner, ask>>

IndexNext ==
  \/ \E r \in Runners : \/ CheckEdges(r) \/ ClaimCooldown(r) \/ ComputeRows(r)
                        \/ WriteIndex(r) \/ PassFails(r)
  \/ Cooldown \/ SeedCommunities \/ LoadMembers \/ RankAndPack \/ StoreEdit

IndexSpec == IndexInit /\ [][IndexNext]_indexVars

-----------------------------------------------------------------------------
(* Properties.                                                             *)

(***************************************************************************)
(* The index covers what was clustered, once: leaves do not overlap, and   *)
(* between them they hold every member of every group they were split from *)
(* (_CommunityRows.add_group), whichever pass wrote it and however deep it *)
(* split.  An id names the group it was given to.                          *)
(***************************************************************************)
LeavesPartition ==
  LET leaves == Leaves(index)
  IN  /\ \A x, y \in leaves : x # y => x.members \cap y.members = {}
      /\ \A row \in leaves : row.members # {}
      /\ \A row \in index : row.id[3] \subseteq UNION {leaf.members : leaf \in leaves}

(***************************************************************************)
(* An answer never mixes two clusterings: a memory it shows was a member   *)
(* of the community it was seeded for when the seed was chosen, even if a  *)
(* pass replaced the index in between (community ids are never reused).    *)
(***************************************************************************)
OneGeneration ==
  ask.pc \in {"rank", "answered"} =>
    \A i \in DOMAIN ask.seeds : ask.members[i] \subseteq ask.of[i]

(***************************************************************************)
(* The best match among the seeded communities is always among the         *)
(* representatives, and a second choice never costs a place in the answer: *)
(* no memory is representative and member at once (_rank_candidates).      *)
(***************************************************************************)
BestIsShown ==
  ask.pc = "answered" =>
    LET all == UNION {ask.members[i] : i \in DOMAIN ask.members}
    IN  /\ all # {} => BestOf(all) \in ask.reps
        /\ ask.reps \cap ask.rest = {}

(***************************************************************************)
(* Racing processes that find edges start one pass per cooldown window:    *)
(* the claim is one conditional UPDATE (_claim_cooldown).                  *)
(***************************************************************************)
OnePassPerWindow == spent.claims <= 1

\* The index is a partition, a question is answered from one generation of it and shows the best
\* member it found, and one pass is claimed per window, with two processes rebuilding it.
IndexSound == LeavesPartition /\ OneGeneration /\ BestIsShown /\ OnePassPerWindow

=============================================================================
