--------------------------- MODULE SearchPipeline ---------------------------
(***************************************************************************)
(* search_memory (memory_service/orchestrator.py, search_primitives.py,    *)
(* ranking.py): lexical and vector candidates are fused, in strict mode    *)
(* superseded candidates give way to their live heads and every survivor   *)
(* must be grounded, the cross-encoder reorders the front, and a page is   *)
(* cut out.  Every stage reads the database on its own, in autocommit,     *)
(* while other sessions archive, reclassify and supersede memories.        *)
(*                                                                         *)
(* Text is abstracted to the two orders a query induces on the memories;   *)
(* fusion scores are exact.                                                *)
(***************************************************************************)
EXTENDS Naturals, Sequences, FiniteSets, SequencesExt, Functions

CONSTANTS
  Memories,        \* ids
  Recency,         \* the memories by when they were last updated
  VectorOrder,     \* those that have a vector, by distance to the query's
  SideOrder,       \* the same for the chunk and the retrieval-text vectors
  Queries,         \* what a query finds, and how it is asked
  Corpora,         \* the databases a search may find
  PageSize,        \* limit
  PoolSize,        \* RERANK_CANDIDATE_POOL_SIZE
  WindowCap,       \* STRICT_OVERFETCH_CANDIDATE_CAP
  ChunkWindow,     \* the chunk channel's own candidate window
  EncoderCap,      \* CROSS_ENCODER_MAX_CANDIDATES
  ChainDepth,      \* SUPERSESSION_CHAIN_MAX_DEPTH
  MaxEdits         \* writes of other sessions

ASSUME SearchAssumption ==
  /\ IsFiniteSet(Memories)
  /\ Recency \in Seq(Memories) /\ IsInjective(Recency) /\ ToSet(Recency) = Memories
  /\ VectorOrder \in Seq(Memories) /\ IsInjective(VectorOrder)
  /\ SideOrder \in Seq(Memories)
  /\ Queries \subseteq
       [mode : {"strict", "broad", "collapse", "history", "browse"}, lex : Seq(Memories),
        full : SUBSET Memories, topic : SUBSET Memories, titled : SUBSET Memories,
        side : {"none", "chunk", "retrieval"}, fresh : SUBSET Memories,
        encoder : BOOLEAN, semantic : BOOLEAN, events : SUBSET Memories]
  /\ Corpora \subseteq [live : SUBSET Memories, visible : SUBSET Memories,
                        edges : SUBSET (Memories \X Memories), corrected : SUBSET Memories]
  /\ PageSize \in Nat \ {0} /\ PoolSize \in Nat /\ WindowCap \in Nat /\ ChunkWindow \in Nat
  /\ EncoderCap \in Nat /\ ChainDepth \in Nat /\ MaxEdits \in Nat

VARIABLES
  corpus,    \* live, visible to the caller's filters, supersedes and corrects edges
  query,     \* the call being served
  search,    \* what it has read and decided so far
  edits

searchVars == <<corpus, query, search, edits>>

(***************************************************************************)
(* A query: lex orders the memories that hold any of its terms, full are   *)
(* those that hold all, topic those whose chunks are on its very topic,    *)
(* titled those it names exactly, side the optional third channel with the *)
(* memories whose side vectors are fresh, encoder whether the cross-       *)
(* encoder is configured, semantic whether vector search is on, and        *)
(* events the session notes among the memories.  An empty query browses.   *)
(***************************************************************************)

NewSearch ==
  [pc |-> "title", offset |-> 0, window |-> 0, fts |-> <<>>, fallback |-> FALSE,
   vec |-> <<>>, side |-> << <<>>, <<>> >>, fused |-> <<>>, heads |-> [m \in {} |-> m],
   grounded |-> {}, pool |-> <<>>, page |-> <<>>, earlier |-> <<>>,
   began |-> {}, edges |-> {}, exhausted |-> FALSE]

\* _build_search_filters: not archived, and in the caller's scope, context,
\* session, core, type, metadata and tag filters.
Eligible(c, m) == m \in c.live /\ m \in c.visible
EligibleSet(c) == {m \in Memories : Eligible(c, m)}

First(s, n) == SubSeq(s, 1, IF n < Len(s) THEN n ELSE Len(s))

\* The entries of a list at some of its positions, and those in a set, in order.
EntriesAt(s, at) ==
  [i \in 1..Cardinality(at) |-> s[CHOOSE k \in at : Cardinality({j \in at : j < k}) = i - 1]]
Only(s, S) == EntriesAt(s, {k \in DOMAIN s : s[k] \in S})
RemoveRepeats(s) == EntriesAt(s, {k \in DOMAIN s : \A j \in 1..(k - 1) : s[j] # s[k]})

(***************************************************************************)
(* The channels.  FTS asks for all terms and, when no row comes back, for  *)
(* any; the filters are part of its query.  KNN takes the nearest vectors  *)
(* first and filters afterwards; archiving deletes a memory's vectors.     *)
(***************************************************************************)
FtsAnd(c, q, w) == First(Only(q.lex, q.full \cap EligibleSet(c)), w)
FtsOr(c, q, w) == First(Only(q.lex, EligibleSet(c)), w)
UsedFallback(c, q, w) == FtsAnd(c, q, w) = <<>> /\ FtsOr(c, q, w) # <<>>
FtsRows(c, q, w) == IF FtsAnd(c, q, w) = <<>> THEN FtsOr(c, q, w) ELSE FtsAnd(c, q, w)

Nearest(c, order, w) == First(Only(order, c.live), w)
SemanticRows(c, w) == Only(Nearest(c, VectorOrder, w), EligibleSet(c))

\* The optional third channel: chunk vectors, or a memory's retrieval text by
\* terms and by vector.  Rows whose hash is not the live one are dropped after
\* the lookup; the chunk window is a fixed one.
Fresh(c, q) == q.fresh \cap EligibleSet(c)
ChunkRows(c, q) == Only(Nearest(c, SideOrder, ChunkWindow), Fresh(c, q))
RetrievalFts(c, q, w) == First(Only(q.lex, Fresh(c, q)), w)
RetrievalVectors(c, q, w) == Only(Nearest(c, SideOrder, w), Fresh(c, q))
SideRows(c, q, w) ==
  CASE q.side = "none"      -> << <<>>, <<>> >>
    [] q.side = "chunk"     -> << ChunkRows(c, q), <<>> >>
    [] q.side = "retrieval" -> << RetrievalFts(c, q, w), RetrievalVectors(c, q, w) >>

(***************************************************************************)
(* Reciprocal rank fusion: 1 / (60 + rank) summed over the channels, ties  *)
(* in first-seen order.  Scores are scaled by a common denominator.        *)
(***************************************************************************)
Share(rows, m) ==
  LET rank == IF m \in ToSet(rows) THEN CHOOSE i \in DOMAIN rows : rows[i] = m ELSE 0
  IN  IF rank = 0 THEN 0 ELSE (61 * 62 * 63 * 64) \div (60 + rank)

Score(fts, vec, side, m) == Share(fts, m) + Share(vec, m) + Share(side[1], m) + Share(side[2], m)

\* Listed once each, by score and then by place.
SortByScore(ids, score) ==
  LET At(m) == CHOOSE i \in DOMAIN ids : ids[i] = m
      Before(a, b) == score[a] > score[b] \/ (score[a] = score[b] /\ At(a) < At(b))
  IN  [i \in 1..Cardinality(ToSet(ids)) |->
         CHOOSE m \in ToSet(ids) : Cardinality({k \in ToSet(ids) : Before(k, m)}) = i - 1]

Fuse(fts, vec, side, w) ==
  LET seen  == RemoveRepeats(fts \o vec \o side[1] \o side[2])
      score == [m \in ToSet(seen) |-> Score(fts, vec, side, m)]
  IN  First(SortByScore(seen, score), w)

(***************************************************************************)
(* Supersession chains.  An edge is <<new, old>>.  The walk goes to the    *)
(* successor updated last, abstains on a cycle, an archived successor or a *)
(* chain longer than the cap, and the head must pass the caller's filters. *)
(***************************************************************************)
Successors(c, m) == {e[1] : e \in {e \in c.edges : e[2] = m}}
Age(m) == CHOOSE i \in DOMAIN Recency : Recency[i] = m
ChooseSuccessor(c, m) ==
  CHOOSE n \in Successors(c, m) : \A k \in Successors(c, m) : Age(k) <= Age(n)

\* Seeded fault: one hop is taken for the head.
WalkOneHop(c, root) ==
  LET next == IF Successors(c, root) = {} THEN root ELSE ChooseSuccessor(c, root)
  IN  IF next \in c.live THEN next ELSE root

\* A walk that ends has met no memory twice.
Walk(c, root) ==
  LET hop[n \in 0..ChainDepth] ==
        IF n = 0 THEN root
        ELSE IF Successors(c, hop[n - 1]) = {} THEN hop[n - 1] ELSE ChooseSuccessor(c, hop[n - 1])
      ended == Successors(c, hop[ChainDepth]) = {}
      live  == \A n \in 1..ChainDepth : hop[n] \in c.live
  IN  IF ended /\ live THEN hop[ChainDepth] ELSE root

HeadAdmitted(c, head) == Eligible(c, head)

ResolvedHeads(c, fused) ==
  LET resolved == {m \in ToSet(fused) : Walk(c, m) # m /\ HeadAdmitted(c, Walk(c, m))}
  IN  [m \in resolved |-> Walk(c, m)]

\* _substitute_resolved_heads: colliding heads keep the larger score.
Substitute(fused, heads, fts, vec, side) ==
  LET To(m)  == IF m \in DOMAIN heads THEN heads[m] ELSE m
      ids    == RemoveRepeats([i \in DOMAIN fused |-> To(fused[i])])
      best(h) == LET own == {Score(fts, vec, side, m) : m \in {m \in ToSet(fused) : To(m) = h}}
                 IN  CHOOSE x \in own : \A y \in own : y <= x
  IN  SortByScore(ids, [h \in ToSet(ids) |-> best(h)])

PoolOf(fused, heads, fts, vec, side) ==
  IF DOMAIN heads = {} THEN fused ELSE Substitute(fused, heads, fts, vec, side)

(***************************************************************************)
(* The relevance gate.                                                     *)
(***************************************************************************)
\* rerank_candidates_by_topic: SAME_SPECIFIC_TOPIC from the chunk vectors; a
\* memory without chunks never gets that verdict (_score_topics_with_fallback).
SameTopic(q, m) == m \in q.topic

AcceptDirect(q, s, m) ==
  \/ m \in ToSet(s.fts) /\ ~ s.fallback
  \/ m \in ToSet(s.fts) \cup ToSet(s.vec) /\ SameTopic(q, m)

\* Before resolution topics are scored for OR-fallback hits only, so a vector-
\* only predecessor grounds nothing.
PredecessorGrounds(q, s, m) ==
  m \in ToSet(s.fts) /\ (~ s.fallback \/ SameTopic(q, m))

GroundedHeads(q, s, heads) ==
  {heads[m] : m \in {m \in DOMAIN heads : PredecessorGrounds(q, s, m)}}

Accept(q, s, m) ==
  IF m \in ToSet(s.fts) \cup ToSet(s.vec)
    \/ m \notin {s.heads[k] : k \in DOMAIN s.heads}
  THEN AcceptDirect(q, s, m)
  ELSE m \in s.grounded

(***************************************************************************)
(* The cross-encoder scores the front of the pool, memories archived by    *)
(* now excepted, and its order replaces theirs; the rest keeps its place   *)
(* behind.  Here it inverts what it scores.  Off, failing or answering     *)
(* with malformed scores it changes nothing.                               *)
(***************************************************************************)
EncoderTexts(c, pool) == Only(First(pool, EncoderCap), c.live)
ScorePairs(q, texts) == IF q.encoder THEN Reverse(texts) ELSE <<>>

Rerank(c, q, pool) ==
  LET scored == ScorePairs(q, EncoderTexts(c, pool))
  IN  scored \o Only(pool, Memories \ ToSet(scored))

Demote(pool, low) == Only(pool, Memories \ low) \o Only(pool, low)

TypeBias(q, pool) == Demote(pool, q.events)
SupersededIds(c) == {e[2] : e \in c.edges}

\* _apply_strict_ranking_defaults.
StrictDefaults(c, q, pool) ==
  Demote(TypeBias(q, pool), SupersededIds(c) \cup c.corrected)

(***************************************************************************)
(* Broad mode may collapse a supersedes family to its head, where the whole*)
(* family is a live, unforked chain inside the pool.                       *)
(***************************************************************************)
Touching(c, ms) == {m \in Memories : \E e \in c.edges : m \in {e[1], e[2]} /\ {e[1], e[2]} \cap ms # {}}
Family(c, m) ==
  LET grow[n \in 0..Cardinality(Memories)] ==
        IF n = 0 THEN {m} ELSE grow[n - 1] \cup Touching(c, grow[n - 1])
  IN  grow[Cardinality(Memories)]

FamilyHeads(c, fam) == {m \in fam : Successors(c, m) = {}}

Collapsible(c, pool, fam) ==
  /\ fam \subseteq ToSet(pool)
  /\ fam \subseteq c.live
  /\ \A m \in fam : Cardinality(Successors(c, m)) <= 1
                    /\ Cardinality({e \in c.edges : e[1] = m}) <= 1
  /\ Cardinality(FamilyHeads(c, fam)) = 1

CollapseTo(c, pool, m) ==
  LET fam == Family(c, m)
  IN  IF Cardinality(fam) > 1 /\ Collapsible(c, pool, fam)
      THEN CHOOSE h \in FamilyHeads(c, fam) : TRUE ELSE m

CollapseFamilies(c, pool) ==
  RemoveRepeats([i \in DOMAIN pool |-> CollapseTo(c, pool, pool[i])])

OrderPool(c, q, pool) ==
  CASE q.mode = "strict"   -> StrictDefaults(c, q, pool)
    [] q.mode = "collapse" -> CollapseFamilies(c, pool)
    [] OTHER               -> pool

\* _apply_search_pool_policies: rerank, gate, order.
RankedPool(c, q, s) ==
  LET front == Rerank(c, q, s.pool)
      kept  == IF q.mode = "strict" THEN Only(front, {m \in Memories : Accept(q, s, m)}) ELSE front
  IN  OrderPool(c, q, kept)

(***************************************************************************)
(* The steps of one call.                                                  *)
(***************************************************************************)
BaseWindow(offset) == IF offset + PageSize > PoolSize THEN offset + PageSize ELSE PoolSize
StartWindow(q, offset) ==
  IF q.mode = "strict" /\ BaseWindow(offset) > WindowCap THEN WindowCap ELSE BaseWindow(offset)

SearchInit ==
  /\ corpus \in Corpora /\ query \in Queries
  /\ search = [NewSearch EXCEPT !.window = StartWindow(query, 0),
                                !.began = EligibleSet(corpus)]
  /\ edits = 0

Page(rows, offset) ==
  SubSeq(rows, offset + 1, IF offset + PageSize < Len(rows) THEN offset + PageSize ELSE Len(rows))

\* _fetch_browse_search_rows: what the filters admit, last updated first; that the code
\* lists cores before the rest is left out.
Browsed(c) == Only(Reverse(Recency), EligibleSet(c))

\* A unique visible exact title answers broad and history queries by itself,
\* and an empty query is answered from the filters alone.  With semantic
\* search off any other query fails (_semantic_search_db_path).
ExactTitle ==
  /\ search.pc = "title"
  /\ LET named == {m \in query.titled : Eligible(corpus, m)}
     IN  IF query.mode = "browse"
         THEN search' = [search EXCEPT !.pc = "served",
                !.page = Page(Browsed(corpus), search.offset)]
         ELSE IF query.mode \in {"broad", "history"} /\ Cardinality(named) = 1
         THEN search' = [search EXCEPT !.pc = "served",
                !.page = IF search.offset = 0 THEN << CHOOSE m \in named : TRUE >> ELSE <<>>]
         ELSE search' = [search EXCEPT !.pc = IF query.semantic THEN "fts" ELSE "failed"]
  /\ UNCHANGED <<corpus, query, edits>>

RunFts ==
  /\ search.pc = "fts"
  /\ search' = [search EXCEPT !.pc = "vec",
       !.fts = FtsRows(corpus, query, search.window),
       !.fallback = UsedFallback(corpus, query, search.window)]
  /\ UNCHANGED <<corpus, query, edits>>

\* No channel filled its window.
Exhausted(q, fts, vec, side, w) ==
  /\ Len(fts) < w /\ Len(vec) < w
  /\ q.side = "retrieval" => Len(side[1]) < w /\ Len(side[2]) < w

\* The vector channels, then fusion.
RunSemantic ==
  /\ search.pc = "vec"
  /\ LET vec  == SemanticRows(corpus, search.window)
         side == SideRows(corpus, query, search.window)
     IN  search' = [search EXCEPT !.pc = "resolve", !.vec = vec, !.side = side,
           !.fused = Fuse(search.fts, vec, side, search.window),
           !.exhausted = Exhausted(query, search.fts, vec, side, search.window)]
  /\ UNCHANGED <<corpus, query, edits>>

ResolvePredecessors ==
  /\ search.pc = "resolve"
  /\ LET heads == IF query.mode = "strict" THEN ResolvedHeads(corpus, search.fused)
                  ELSE [m \in {} |-> m]
     IN  search' = [search EXCEPT !.pc = "rank", !.heads = heads,
           !.grounded = GroundedHeads(query, search, heads),
           !.pool = PoolOf(search.fused, heads, search.fts, search.vec, search.side),
           !.edges = corpus.edges]
  /\ UNCHANGED <<corpus, query, edits>>

\* Seeded fault: a pass that adds no survivor ends the widening.
WidenOnProgress(s, pool) ==
  /\ Len(pool) < s.offset + PageSize /\ ~ s.exhausted /\ s.window < WindowCap
  /\ Len(pool) > 0

Widen(s, pool) ==
  Len(pool) < s.offset + PageSize /\ ~ s.exhausted /\ s.window < WindowCap

\* Rank, gate and order; a strict pool that is too short is computed anew with
\* a doubled window, otherwise the page is cut.
RankAndCut ==
  /\ search.pc = "rank"
  /\ LET pool == RankedPool(corpus, query, search)
     IN  IF query.mode = "strict" /\ Widen(search, pool)
         THEN search' = [search EXCEPT !.pc = "fts",
                !.window = IF 2 * @ < WindowCap THEN 2 * @ ELSE WindowCap]
         ELSE search' = [search EXCEPT !.pc = "served", !.pool = pool,
                !.page = Page(pool, search.offset)]
  /\ UNCHANGED <<corpus, query, edits>>

\* Any stage may raise; the caller gets an error and no rows.
SearchFails ==
  /\ search.pc \in {"fts", "vec", "resolve", "rank"}
  /\ search' = [NewSearch EXCEPT !.pc = "failed", !.offset = search.offset]
  /\ UNCHANGED <<corpus, query, edits>>

\* The caller comes back with the cursor of the first page.
NextPage ==
  /\ search.pc = "served" /\ search.offset = 0
  /\ search' = [NewSearch EXCEPT !.offset = PageSize,
       !.window = StartWindow(query, PageSize), !.earlier = search.page,
       !.began = EligibleSet(corpus)]
  /\ UNCHANGED <<corpus, query, edits>>

(***************************************************************************)
(* Other sessions.                                                         *)
(***************************************************************************)
ArchiveMeanwhile(m) ==
  /\ edits < MaxEdits /\ m \in corpus.live
  /\ corpus' = [corpus EXCEPT !.live = @ \ {m}]
  /\ edits' = edits + 1
  /\ UNCHANGED <<query, search>>

ReclassifyMeanwhile(m) ==
  /\ edits < MaxEdits /\ m \in corpus.visible
  /\ corpus' = [corpus EXCEPT !.visible = @ \ {m}]
  /\ edits' = edits + 1
  /\ UNCHANGED <<query, search>>

RelateMeanwhile(m, n) ==
  /\ edits < MaxEdits /\ m # n /\ {m, n} \subseteq corpus.live
  /\ \/ corpus' = [corpus EXCEPT !.edges = @ \cup {<<m, n>>}]
     \/ corpus' = [corpus EXCEPT !.corrected = @ \cup {n}]
  /\ edits' = edits + 1
  /\ UNCHANGED <<query, search>>

SearchNext ==
  \/ SearchFails
  \/ ExactTitle \/ RunFts \/ RunSemantic \/ ResolvePredecessors \/ RankAndCut \/ NextPage
  \/ search.pc \notin {"title", "served", "failed"} /\
       \E m \in Memories : \/ ArchiveMeanwhile(m) \/ ReclassifyMeanwhile(m)
                           \/ \E n \in Memories : RelateMeanwhile(m, n)

SearchSpec == SearchInit /\ [][SearchNext]_searchVars

-----------------------------------------------------------------------------
(* Properties.                                                             *)

Served == search.pc = "served"

(***************************************************************************)
(* Whatever is archived, hidden or superseded while the stages run, a page *)
(* holds only memories the caller was allowed to see when it asked, also   *)
(* where a head took a candidate's place (_reapply_supersession_filters).  *)
(***************************************************************************)
ServedWereVisible == Served => ToSet(search.page) \subseteq search.began

(***************************************************************************)
(* Strict mode serves nothing on a nearest-neighbour or an any-term hit    *)
(* alone: behind every served memory stands an all-terms hit or a hit on   *)
(* the topic, of its own or of a memory it replaced (accept_or_abstain).   *)
(***************************************************************************)
StrictIsGrounded ==
  Served /\ query.mode = "strict" =>
    \A m \in ToSet(search.page) :
      \E k \in {m} \cup {k \in DOMAIN search.heads : search.heads[k] = m} :
        /\ k \in ToSet(search.fts) \cup ToSet(search.vec)
        /\ k \in query.topic \/ (k \in ToSet(search.fts) /\ k \in query.full)

(***************************************************************************)
(* Strict mode never serves a memory whose whole chain of successors, as   *)
(* it stood when chains were resolved, is unforked, within the cap and     *)
(* still live and visible: the end of the chain is served for it           *)
(* (_resolve_supersession_chains).                                         *)
(***************************************************************************)
StrictServesHeads ==
  Served /\ query.mode = "strict" =>
    \A m \in ToSet(search.page) : \A k \in 1..ChainDepth :
      ~ \E p \in [0..k -> Memories] :
          /\ p[0] = m /\ Successors(search, p[k]) = {}
          /\ \A i \in 1..k : Successors(search, p[i - 1]) = {p[i]} /\ Eligible(corpus, p[i])

(***************************************************************************)
(* A page names no memory twice, and the next page of an unchanged corpus, *)
(* cut from a pool of the same window, repeats none of the first.          *)
(***************************************************************************)
PagesDisjoint ==
  Served =>
    /\ IsInjective(search.page)
    /\ edits = 0 /\ search.window = StartWindow(query, 0)
         => ToSet(search.page) \cap ToSet(search.earlier) = {}

\* What one pass over an unchanging corpus reads, and what a strict call would
\* keep of it with the widest window it may use.
SearchedWith(c, q, w) ==
  LET fts      == FtsRows(c, q, w)
      fallback == UsedFallback(c, q, w)
      vec      == SemanticRows(c, w)
      side     == SideRows(c, q, w)
      fused    == Fuse(fts, vec, side, w)
      heads    == IF q.mode = "strict" THEN ResolvedHeads(c, fused) ELSE [m \in {} |-> m]
  IN  [fts |-> fts, fallback |-> fallback, vec |-> vec, side |-> side, fused |-> fused,
       heads |-> heads, grounded |-> GroundedHeads(q, [fts |-> fts, fallback |-> fallback], heads),
       pool |-> PoolOf(fused, heads, fts, vec, side)]
WidestPool == RankedPool(corpus, query, SearchedWith(corpus, query, WindowCap))

ShortPage == Served /\ query.mode = "strict" /\ edits = 0 /\ Len(search.page) < PageSize

(***************************************************************************)
(* A caller who gets a short strict page has seen all: the widest window   *)
(* would not have filled it further (_search_window_pool).  So says the    *)
(* comment on exhausted_ (orchestrator.py:790); it is false where filters  *)
(* thin out the nearest vectors, or a memory has none yet.                 *)
(***************************************************************************)
ShortPageIsAll == ShortPage => Len(WidestPool) <= search.offset + Len(search.page)

\* It does hold for a caller without filters while every live memory has a vector.
UnfilteredPageIsAll ==
  corpus.visible = Memories /\ corpus.live \subseteq ToSet(VectorOrder) => ShortPageIsAll

(***************************************************************************)
(* Broad ordering loses and invents nothing: every fused candidate is in   *)
(* the pool itself or through the head of its family, and nothing else is  *)
(* (_order_search_pool, _collapse_supersedes_families).                    *)
(***************************************************************************)
PoolKeepsCandidates ==
  Served /\ query.mode # "strict" /\ search.pool # <<>> =>
    /\ ToSet(search.pool) \subseteq ToSet(search.fused)
    /\ \A m \in ToSet(search.fused) :
         \E h \in ToSet(search.pool) : m = h \/ (query.mode = "collapse" /\ h \in Family(corpus, m))

\* A page holds memories the caller may see; in strict mode each one is grounded in the query
\* and is the head of its lineage, though the store changes between the stages of a search.
ServedRightly == ServedWereVisible /\ StrictIsGrounded /\ StrictServesHeads

\* Paging loses nothing: pages do not repeat, a short page without filters has everything that
\* the widest window would give, and no candidate disappears between fusion and the pool.
PagesComplete == PagesDisjoint /\ UnfilteredPageIsAll /\ PoolKeepsCandidates

=============================================================================
