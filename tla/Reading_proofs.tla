---------------------------- MODULE Reading_proofs ----------------------------
(***************************************************************************)
(* What an agent reads, while other sessions write: the community index,   *)
(* for any memories, relations, similarities, processes, caps and depth of *)
(* the hierarchy; then an assembled context, for any graphs, requests,     *)
(* costs and caps; then a search and its next page, for any queries,       *)
(* corpora, orders, windows and page sizes.                                *)
(***************************************************************************)
EXTENDS CommunityIndex, ContextAssembly, SearchPipeline, FiniteSetTheorems, SequenceTheorems, WellFoundedInduction, TLAPS

-----------------------------------------------------------------------------
(* Sorting without induction: in a finite strict total order the number of  *)
(* predecessors is an injection into 0..n-1, and so takes every value.      *)

StrictOrder(S, P) ==
  /\ P \in [S -> SUBSET S]
  /\ \A x \in S : x \notin P[x]
  /\ \A x, y \in S : x \in P[y] => P[x] \subseteq P[y]
  /\ \A x, y \in S : x # y => x \in P[y] \/ y \in P[x]

(* A predecessor has fewer predecessors.                                    *)
LEMMA FewerBefore ==
  ASSUME NEW S, IsFiniteSet(S), NEW P, StrictOrder(S, P), NEW x \in S, NEW y \in S, x \in P[y]
  PROVE  Cardinality(P[x]) < Cardinality(P[y])
<1>1. P[y] \in SUBSET S /\ P[x] \in SUBSET P[y] /\ P[x] # P[y]
  BY DEF StrictOrder
<1>2. IsFiniteSet(P[y]) /\ Cardinality(P[y]) \in Nat
  BY <1>1, FS_Subset, FS_CardinalityType
<1>3. IsFiniteSet(P[x]) /\ Cardinality(P[x]) \in Nat /\ Cardinality(P[x]) <= Cardinality(P[y])
  BY <1>1, <1>2, FS_Subset, FS_CardinalityType
<1>4. Cardinality(P[x]) # Cardinality(P[y])
  BY <1>1, <1>2, FS_Subset
<1> QED BY <1>2, <1>3, <1>4

(* Every number of predecessors below the size of the set occurs.           *)
LEMMA EveryPlaceTaken ==
  ASSUME NEW S, IsFiniteSet(S), NEW P, StrictOrder(S, P), NEW i \in 1..Cardinality(S)
  PROVE  \E m \in S : Cardinality(P[m]) = i - 1
<1> DEFINE n == Cardinality(S)
           f == [m \in S |-> Cardinality(P[m]) + 1]
<1>1. n \in Nat
  BY FS_CardinalityType
<1>2. ASSUME NEW m \in S PROVE Cardinality(P[m]) \in Nat /\ Cardinality(P[m]) < n
  <2>1. P[m] \in SUBSET S /\ P[m] # S
    BY DEF StrictOrder
  <2>2. IsFiniteSet(P[m]) /\ Cardinality(P[m]) <= n /\ Cardinality(P[m]) # n
    BY <2>1, FS_Subset
  <2>3. Cardinality(P[m]) \in Nat
    BY <2>2, FS_CardinalityType
  <2> QED BY <1>1, <2>2, <2>3
<1>3. ASSUME NEW x \in S, NEW y \in S, x # y PROVE f[x] # f[y]
  <2>1. x \in P[y] \/ y \in P[x]
    BY <1>3 DEF StrictOrder
  <2>2. Cardinality(P[x]) # Cardinality(P[y])
    BY <2>1, <1>2, FewerBefore
  <2> QED BY <2>2, <1>2
<1>4. f \in [S -> 1..n]
  BY <1>1, <1>2
<1>5. f \in Injection(S, 1..n)
  BY <1>3, <1>4 DEF Injection, IsInjective
<1>6. IsFiniteSet(1..n) /\ Cardinality(1..n) = n
  BY <1>1, FS_Interval
<1>7. f \in Surjection(S, 1..n)
  BY <1>5, <1>6, FS_Injection
<1>8. PICK m \in S : f[m] = i
  BY <1>7 DEF Surjection
<1>9. Cardinality(P[m]) + 1 = i
  BY <1>8
<1> QED BY <1>9, <1>2

-----------------------------------------------------------------------------
(* The order of scored memories                                             *)

EarlierIn(S) == [m \in S |-> {k \in S : Before(k, m)}]

(* Before is a strict total order of the memories.                          *)
LEMMA BeforeOrders == ASSUME NEW S \in SUBSET Linked PROVE StrictOrder(S, EarlierIn(S))
<1>1. \A x \in Linked : Similarity[x] \in Int /\ IdOrder[x] \in Int
  BY IndexAssumption
<1>2. \A x, y \in Linked : IdOrder[x] = IdOrder[y] => x = y
  BY IndexAssumption
<1>3. \A x, y, z \in S : Before(x, y) /\ Before(y, z) => Before(x, z)
  BY <1>1 DEF Before
<1>4. \A x \in S : ~Before(x, x)
  BY <1>1 DEF Before
<1>5. \A x, y \in S : x # y => Before(x, y) \/ Before(y, x)
  BY <1>1, <1>2 DEF Before
<1> QED BY <1>3, <1>4, <1>5 DEF StrictOrder, EarlierIn

(* ByQuery lists members of the set it is given.                            *)
LEMMA RankedAreMembers ==
  ASSUME NEW S \in SUBSET Linked
  PROVE  /\ Cardinality(S) \in Nat
         /\ ByQuery(S) \in [1..Cardinality(S) -> S]
         /\ Len(ByQuery(S)) = Cardinality(S)
<1>1. IsFiniteSet(S)
  BY IndexAssumption, FS_Subset
<1>2. Cardinality(S) \in Nat
  BY <1>1, FS_CardinalityType
<1>3. ASSUME NEW i \in 1..Cardinality(S)
      PROVE  \E m \in S : Cardinality({k \in S : Before(k, m)}) = i - 1
  <2>1. PICK m \in S : Cardinality(EarlierIn(S)[m]) = i - 1
    BY <1>1, BeforeOrders, EveryPlaceTaken
  <2> QED BY <2>1 DEF EarlierIn
<1>4. ByQuery(S) \in [1..Cardinality(S) -> S]
  BY <1>3 DEF ByQuery
<1>5. ByQuery(S) \in Seq(S)
  BY <1>2, <1>4
<1>6. Len(ByQuery(S)) = Cardinality(S)
  <2>1. Len(ByQuery(S)) \in Nat /\ DOMAIN ByQuery(S) = 1..Len(ByQuery(S))
    BY <1>5, LenProperties
  <2>2. 1..Len(ByQuery(S)) = 1..Cardinality(S)
    BY <2>1, <1>4
  <2> QED BY <2>1, <2>2, <1>2
<1> QED BY <1>2, <1>4, <1>6

(* A set of memories has one best, and the list begins with it.             *)
LEMMA BestIsFirst ==
  ASSUME NEW S \in SUBSET Linked, S # {}
  PROVE  /\ BestOf(S) \in S
         /\ \A k \in S \ {BestOf(S)} : Before(BestOf(S), k)
         /\ Cardinality(S) >= 1
         /\ ByQuery(S)[1] = BestOf(S)
<1>1. IsFiniteSet(S)
  BY IndexAssumption, FS_Subset
<1>2. Cardinality(S) \in Nat /\ Cardinality(S) # 0
  BY <1>1, FS_CardinalityType, FS_EmptySet
<1> DEFINE one == ByQuery(S)[1]
<1>3. PICK m0 \in S : Cardinality(EarlierIn(S)[m0]) = 1 - 1
  BY <1>1, <1>2, BeforeOrders, EveryPlaceTaken
<1>4. Cardinality({k \in S : Before(k, m0)}) = 1 - 1
  BY <1>3 DEF EarlierIn
<1>5. one \in S /\ Cardinality({k \in S : Before(k, one)}) = 1 - 1
  <2>1. 1 \in 1..Cardinality(S)
    BY <1>2
  <2>2. one = CHOOSE m \in S : Cardinality({k \in S : Before(k, m)}) = 1 - 1
    BY <2>1 DEF ByQuery
  <2>3. \E m \in S : Cardinality({k \in S : Before(k, m)}) = 1 - 1
    BY <1>4
  <2> HIDE DEF one
  <2> QED BY <2>2, <2>3, Zenon
<1>6. IsFiniteSet({k \in S : Before(k, one)})
  BY <1>1, FS_Subset
<1>7. {k \in S : Before(k, one)} = {}
  BY <1>5, <1>6, FS_EmptySet
<1>8. \A k \in S \ {one} : Before(one, k)
  <2>1. \A x, y \in S : x # y => Before(x, y) \/ Before(y, x)
    BY BeforeOrders DEF StrictOrder, EarlierIn
  <2> QED BY <1>5, <1>7, <2>1
<1>9. BestOf(S) \in S /\ \A k \in S \ {BestOf(S)} : Before(BestOf(S), k)
  BY <1>5, <1>8 DEF BestOf
<1>10. ByQuery(S)[1] = BestOf(S)
  <2>1. one = BestOf(S) \/ Before(BestOf(S), one)
    BY <1>5, <1>9
  <2> QED BY <2>1, <1>7, <1>9
<1> QED BY <1>2, <1>9, <1>10

(* The best of a union is the best of the part it is in.                    *)
LEMMA BestOfPart ==
  ASSUME NEW S \in SUBSET Linked, NEW T \in SUBSET S, BestOf(S) \in T
  PROVE  BestOf(T) = BestOf(S)
<1>1. S # {} /\ T # {} /\ T \in SUBSET Linked
  OBVIOUS
<1>2. BestOf(T) \in T /\ \A k \in T \ {BestOf(T)} : Before(BestOf(T), k)
  BY <1>1, BestIsFirst
<1>3. BestOf(S) \in S /\ \A k \in S \ {BestOf(S)} : Before(BestOf(S), k)
  BY <1>1, BestIsFirst
<1>4. \A x \in S : ~Before(x, x)
  BY BeforeOrders DEF StrictOrder, EarlierIn
<1>5. \A x, y, z \in S : Before(x, y) /\ Before(y, z) => Before(x, z)
  BY BeforeOrders DEF StrictOrder, EarlierIn
<1> QED BY <1>2, <1>3, <1>4, <1>5

-----------------------------------------------------------------------------
(* The rows of one pass                                                     *)

(* A set of naturals has a least one.                                       *)
LEMMA LeastNatural ==
  ASSUME NEW S \in SUBSET Nat, S # {} PROVE \E x \in S : \A y \in S : x <= y
<1>1. IsWellFoundedOn({ss \in Nat \X Nat : ss[1] < ss[2]}, Nat)
  BY NatLessThanWellFounded, Zenon DEF OpToRel
<1>2. \E x \in S : \A y \in S : ~(<<y, x>> \in {ss \in Nat \X Nat : ss[1] < ss[2]})
  BY <1>1, WFMin, Zenon
<1>3. PICK x \in S : \A y \in S : ~(<<y, x>> \in {ss \in Nat \X Nat : ss[1] < ss[2]})
  BY <1>2
<1>4. ASSUME NEW y \in S PROVE x <= y
  <2>1. x \in Nat /\ y \in Nat /\ <<y, x>> \in Nat \X Nat
    OBVIOUS
  <2>2. ~(y < x)
    BY <1>3, <2>1
  <2> QED BY <2>1, <2>2
<1> QED BY <1>4

Levels == 0..LevelCap

(* The groups of a level are disjoint and not empty.                        *)
LEMMA LevelIsPartition ==
  ASSUME NEW S, NEW h \in Hierarchies(S), NEW l \in Levels
  PROVE  /\ \A x, y \in h[l] : x # y => x \cap y = {}
         /\ \A g \in h[l] : g # {} /\ g \subseteq S
<1>1. h[l] \in UNION {Partitions(T) : T \in SUBSET S}
  BY DEF Hierarchies, Levels
<1>2. PICK T \in SUBSET S : h[l] \in Partitions(T)
  BY <1>1
<1> QED BY <1>2 DEF Partitions

(* The next level holds what was split, each group inside one that was.     *)
LEMMA NextLevel ==
  ASSUME NEW S, NEW h \in Hierarchies(S), NEW l \in 1..LevelCap
  PROVE  /\ l - 1 \in Levels /\ l \in Levels
         /\ UNION h[l] = UNION SplitOf(h[l - 1], l - 1)
         /\ \A k \in h[l] : \E g \in SplitOf(h[l - 1], l - 1) : k \subseteq g
<1>1. LevelCap \in Nat
  BY IndexAssumption
<1> QED BY <1>1 DEF Hierarchies, Levels

(* What a deeper level holds was split at every level above it.             *)
LEMMA DeeperWasSplit ==
  ASSUME NEW S, NEW h \in Hierarchies(S), NEW l \in Levels, NEW m \in Levels, l < m
  PROVE  UNION h[m] \subseteq UNION SplitOf(h[l], l)
<1> DEFINE Bad == {b \in Levels : l < b /\ ~(UNION h[b] \subseteq UNION SplitOf(h[l], l))}
<1>0. LevelCap \in Nat /\ l \in Nat
  BY IndexAssumption DEF Levels
<1>1. SUFFICES ASSUME m \in Bad PROVE FALSE
  OBVIOUS
<1>2. Bad \in SUBSET Nat /\ Bad # {}
  BY <1>0, <1>1 DEF Levels
<1>3. PICK b \in Bad : \A c \in Bad : b <= c
  <2> HIDE DEF Bad
  <2> QED BY <1>2, LeastNatural
<1>4. b \in 1..LevelCap /\ b \in Nat /\ b - 1 \in Levels
  BY <1>0, <1>3 DEF Levels
<1>5. UNION h[b] = UNION SplitOf(h[b - 1], b - 1)
  BY <1>4, NextLevel
<1>6. CASE b - 1 = l
  BY <1>3, <1>5, <1>6
<1>7. CASE b - 1 # l
  <2>1. l < b - 1 /\ ~(b <= b - 1)
    BY <1>0, <1>3, <1>4, <1>7
  <2>2. b - 1 \notin Bad
    BY <1>3, <2>1
  <2>3. UNION h[b - 1] \subseteq UNION SplitOf(h[l], l)
    BY <1>4, <2>1, <2>2
  <2>4. UNION SplitOf(h[b - 1], b - 1) \subseteq UNION h[b - 1]
    BY DEF SplitOf
  <2> QED BY <1>3, <1>5, <2>3, <2>4
<1> QED BY <1>6, <1>7

(* A group that is not split shares nothing with the deeper levels.         *)
LEMMA KeptApart ==
  ASSUME NEW S, NEW h \in Hierarchies(S), NEW l \in Levels, NEW m \in Levels,
         NEW g \in h[l], NEW k \in h[m], ~Splits(g, l), ~Splits(k, m), <<l, g>> # <<m, k>>
  PROVE  g \cap k = {}
<1>0. l \in Int /\ m \in Int
  BY DEF Levels
<1>1. \A n \in Levels : \A x, y \in h[n] : x # y => x \cap y = {}
  BY LevelIsPartition
<1>2. CASE l = m
  BY <1>1, <1>2
<1>3. CASE l < m
  <2>1. k \subseteq UNION SplitOf(h[l], l)
    BY <1>3, DeeperWasSplit
  <2>2. \A x \in SplitOf(h[l], l) : x \in h[l] /\ x # g
    BY DEF SplitOf
  <2> QED BY <1>1, <2>1, <2>2
<1>4. CASE m < l
  <2>1. g \subseteq UNION SplitOf(h[m], m)
    BY <1>4, DeeperWasSplit
  <2>2. \A x \in SplitOf(h[m], m) : x \in h[m] /\ x # k
    BY DEF SplitOf
  <2> QED BY <1>1, <2>1, <2>2
<1> QED BY <1>0, <1>2, <1>3, <1>4

(* Every node is in a group that is not split again.                        *)
LEMMA DeepestHolds ==
  ASSUME NEW S, NEW h \in Hierarchies(S), NEW l \in Levels, NEW x \in UNION h[l]
  PROVE  \E m \in Levels : \E g \in h[m] : x \in g /\ ~Splits(g, m)
<1> DEFINE Below == {LevelCap - m : m \in {m \in Levels : x \in UNION h[m]}}
<1>0. LevelCap \in Nat
  BY IndexAssumption
<1>1. Below \in SUBSET Nat /\ Below # {}
  BY <1>0 DEF Levels
<1>2. PICK b \in Below : \A c \in Below : b <= c
  <2> HIDE DEF Below
  <2> QED BY <1>1, LeastNatural
<1>3. PICK m \in Levels : x \in UNION h[m] /\ b = LevelCap - m
  BY <1>2
<1>4. PICK g \in h[m] : x \in g
  BY <1>3
<1>5. ASSUME Splits(g, m) PROVE FALSE
  <2>1. m + 1 \in 1..LevelCap /\ m + 1 \in Levels /\ (m + 1) - 1 = m /\ m \in Nat
    BY <1>0, <1>5 DEF Splits, Levels
  <2>2. UNION h[m + 1] = UNION SplitOf(h[m], m)
    BY <2>1, NextLevel
  <2>3. x \in UNION h[m + 1]
    BY <2>2, <1>4, <1>5 DEF SplitOf
  <2>4. LevelCap - (m + 1) \in Below
    BY <2>1, <2>3
  <2>5. LevelCap - m <= LevelCap - (m + 1)
    BY <1>2, <1>3, <2>4
  <2> QED BY <1>0, <2>1, <2>5
<1> QED BY <1>4, <1>5

(* What an id says of the members of its row.                               *)
Named(id) == IF Splits(id[3], id[2]) THEN {} ELSE id[3]

PartitionIn(rows) ==
  /\ \A x, y \in Leaves(rows) : x # y => x.members \cap y.members = {}
  /\ \A row \in Leaves(rows) : row.members # {}
  /\ \A row \in rows : row.id[3] \subseteq UNION {leaf.members : leaf \in Leaves(rows)}

SoundRows(rows) ==
  /\ \A x \in rows : x.members = Named(x.id) /\ x.members \subseteq Linked
  /\ \A x, y \in rows : x.id # y.id => x.members \cap y.members = {}
  /\ PartitionIn(rows)

(* The parent a row names is the group it was split from.                   *)
LEMMA ParentIsSplit ==
  ASSUME NEW S, NEW h \in Hierarchies(S), NEW pass, NEW l \in Levels, NEW k \in h[l], l # 0
  PROVE  /\ l \in 1..LevelCap
         /\ \E g \in h[l - 1] : /\ k \subseteq g /\ Splits(g, l - 1)
                                /\ ParentOf(pass, h, l, k) = <<pass, l - 1, g>>
                                /\ \A p \in h[l - 1] : k \cap p # {} => p = g
<1>1. l \in 1..LevelCap
  BY IndexAssumption DEF Levels
<1>2. PICK g \in SplitOf(h[l - 1], l - 1) : k \subseteq g
  BY <1>1, NextLevel
<1>3. k # {} /\ l - 1 \in Levels
  BY <1>1, LevelIsPartition, NextLevel
<1>4. g \in h[l - 1] /\ Splits(g, l - 1)
  BY <1>2 DEF SplitOf
<1>5. \A p \in h[l - 1] : k \cap p # {} => p = g
  BY <1>2, <1>3, <1>4, LevelIsPartition
<1>6. \A p \in h[l - 1] : k \subseteq p => p = g
  BY <1>3, <1>5
<1>7. (CHOOSE p \in h[l - 1] : k \subseteq p) = g
  BY <1>2, <1>4, <1>6
<1>8. ParentOf(pass, h, l, k) = <<pass, l - 1, g>>
  BY <1>7 DEF ParentOf, RowId
<1> QED BY <1>1, <1>2, <1>4, <1>5, <1>8

(* The rows a pass computes partition the nodes among their leaves.         *)
LEMMA RowsOfAreSound ==
  ASSUME NEW S \in SUBSET Linked, NEW h \in Hierarchies(S), NEW pass, NEW s
  PROVE  SoundRows(RowsOf(pass, h, s))
<1> DEFINE rows == RowsOf(pass, h, s)
           R(l, g) == Row(pass, h, l, g, s)
<1>1. /\ \A row \in rows : \E l \in Levels : \E g \in h[l] : row = R(l, g)
      /\ \A l \in Levels : \A g \in h[l] : R(l, g) \in rows
  BY DEF RowsOf, Levels
<1>2. ASSUME NEW l, NEW g
      PROVE  /\ R(l, g).id = <<pass, l, g>> /\ R(l, g).id[3] = g /\ R(l, g).id[2] = l
             /\ R(l, g).members = IF Splits(g, l) THEN {} ELSE g
             /\ R(l, g).parent = ParentOf(pass, h, l, g)
  BY DEF Row, RowId
<1>3. ASSUME NEW l \in Levels, NEW g \in h[l] PROVE g # {} /\ g \subseteq Linked
  BY LevelIsPartition
<1> HIDE DEF rows, R
<1>4. \A x \in rows : x.members = Named(x.id) /\ x.members \subseteq Linked
  BY <1>1, <1>2, <1>3 DEF Named
<1>5. ASSUME NEW x \in rows, NEW y \in rows, x # y PROVE x.members \cap y.members = {}
  <2>1a. PICK l \in Levels : \E g \in h[l] : x = R(l, g)
    BY <1>1
  <2>1. PICK g \in h[l] : x = R(l, g)
    BY <2>1a
  <2>2a. PICK m \in Levels : \E k \in h[m] : y = R(m, k)
    BY <1>1
  <2>2. PICK k \in h[m] : y = R(m, k)
    BY <2>2a
  <2>3. <<l, g>> # <<m, k>>
    BY <1>5, <2>1, <2>2
  <2>4. ~Splits(g, l) /\ ~Splits(k, m) => g \cap k = {}
    BY <2>3, KeptApart
  <2> QED BY <2>1, <2>2, <2>4, <1>2
<1>6. ASSUME NEW l \in Levels, NEW g \in h[l], Splits(g, l) PROVE R(l, g) \notin Leaves(rows)
  <2>1. l + 1 \in 1..LevelCap /\ l + 1 \in Levels /\ (l + 1) - 1 = l /\ l + 1 # 0
    BY <1>6, IndexAssumption DEF Splits, Levels
  <2>2. PICK x \in g : x \in UNION h[l + 1]
    <3>1. UNION h[l + 1] = UNION SplitOf(h[l], l)
      BY <2>1, NextLevel
    <3>2. g \in SplitOf(h[l], l)
      BY <1>6 DEF SplitOf
    <3> QED BY <1>3, <3>1, <3>2
  <2>3. PICK k \in h[l + 1] : x \in k
    BY <2>2
  <2>4. ParentOf(pass, h, l + 1, k) = <<pass, l, g>>
    <3> DEFINE n == l + 1
    <3>1. n \in Levels /\ k \in h[n] /\ n # 0 /\ n - 1 = l
      BY <2>1, <2>3
    <3> HIDE DEF n
    <3>2. PICK p \in h[n - 1] : /\ ParentOf(pass, h, n, k) = <<pass, n - 1, p>>
                                 /\ \A q \in h[n - 1] : k \cap q # {} => q = p
      BY <3>1, ParentIsSplit
    <3>3. p = g
      BY <2>2, <2>3, <3>1, <3>2
    <3>4. ParentOf(pass, h, n, k) = <<pass, l, g>>
      BY <3>1, <3>2, <3>3
    <3> QED BY <3>4 DEF n
  <2>5. R(l + 1, k) \in rows /\ R(l + 1, k).parent = R(l, g).id
    BY <1>1, <1>2, <2>1, <2>4
  <2> QED BY <2>5 DEF Leaves
<1>7. ASSUME NEW l \in Levels, NEW g \in h[l], ~Splits(g, l) PROVE R(l, g) \in Leaves(rows)
  <2>1. ASSUME NEW kid \in rows, kid.parent = R(l, g).id PROVE FALSE
    <3>1a. PICK m \in Levels : \E k \in h[m] : kid = R(m, k)
      BY <1>1
    <3>1. PICK k \in h[m] : kid = R(m, k)
      BY <3>1a
    <3>2. ParentOf(pass, h, m, k) = <<pass, l, g>>
      <4>1. R(m, k).parent = ParentOf(pass, h, m, k) /\ R(l, g).id = <<pass, l, g>>
        BY <1>2
      <4> QED BY <2>1, <3>1, <4>1
    <3>3. m # 0
      BY <3>2 DEF ParentOf
    <3>4. PICK p \in h[m - 1] : Splits(p, m - 1) /\ ParentOf(pass, h, m, k) = <<pass, m - 1, p>>
      BY <3>3, ParentIsSplit
    <3>5. l = m - 1 /\ g = p
      BY <3>2, <3>4
    <3> QED BY <3>4, <3>5, <1>7
  <2> QED BY <2>1, <1>1 DEF Leaves
<1>8. PartitionIn(rows)
  <2>1. \A x, y \in Leaves(rows) : x # y => x.members \cap y.members = {}
    BY <1>5 DEF Leaves
  <2>2. ASSUME NEW row \in Leaves(rows) PROVE row.members # {}
    <3>1. row \in rows
      BY DEF Leaves
    <3>2a. PICK l \in Levels : \E g \in h[l] : row = R(l, g)
      BY <1>1, <3>1
    <3>2. PICK g \in h[l] : row = R(l, g)
      BY <3>2a
    <3> QED BY <3>2, <1>2, <1>3, <1>6
  <2>3. ASSUME NEW row \in rows, NEW x \in row.id[3]
        PROVE  x \in UNION {leaf.members : leaf \in Leaves(rows)}
    <3>1a. PICK l \in Levels : \E g \in h[l] : row = R(l, g)
      BY <1>1
    <3>1. PICK g \in h[l] : row = R(l, g)
      BY <3>1a
    <3>2. x \in UNION h[l]
      BY <3>1, <1>2, <2>3
    <3>3a. PICK m \in Levels : \E k \in h[m] : x \in k /\ ~Splits(k, m)
      BY <3>2, DeepestHolds
    <3>3. PICK k \in h[m] : x \in k /\ ~Splits(k, m)
      BY <3>3a
    <3>4. R(m, k) \in Leaves(rows) /\ R(m, k).members = k
      BY <3>3, <1>2, <1>7
    <3> QED BY <3>3, <3>4
  <2> QED BY <2>1, <2>2, <2>3 DEF PartitionIn
<1> QED BY <1>4, <1>5, <1>8 DEF SoundRows, rows

-----------------------------------------------------------------------------
(* The inductive invariant                                                  *)

StoreTyped ==
  /\ store = [live |-> store.live, visible |-> store.visible, edges |-> store.edges]
  /\ store.live \subseteq Linked /\ store.visible \subseteq Linked /\ store.edges \subseteq Pairs

RunnersSound ==
  /\ DOMAIN runner = Runners /\ runner = [r \in Runners |-> runner[r]]
  /\ \A r \in Runners :
       /\ runner[r] = [pc |-> runner[r].pc, pass |-> runner[r].pass, rows |-> runner[r].rows]
       /\ SoundRows(runner[r].rows)

ClaimsCounted ==
  /\ spent = [passes |-> spent.passes, edits |-> spent.edits, claims |-> spent.claims]
  /\ spent.claims \in {0, 1} /\ (lock => spent.claims = 0)

(* A seed says what its row held, whatever became of the row since.         *)
SeedsNamed(k) ==
  /\ DOMAIN k.of = DOMAIN k.seeds
  /\ \A i, j \in DOMAIN k.seeds : k.seeds[i] = k.seeds[j] => i = j
  /\ \A i \in DOMAIN k.seeds : k.of[i] = Named(k.seeds[i])

MembersApart(k) ==
  /\ DOMAIN k.members = DOMAIN k.seeds
  /\ \A i \in DOMAIN k.seeds : k.members[i] \subseteq Linked /\ k.members[i] \subseteq k.of[i]
  /\ \A i, j \in DOMAIN k.seeds : i # j => k.members[i] \cap k.members[j] = {}

BestShownIn(k) ==
  LET all == UNION {k.members[i] : i \in DOMAIN k.members}
  IN  /\ all # {} => BestOf(all) \in k.reps
      /\ k.reps \cap k.rest = {}

AskSound(k) ==
  /\ DOMAIN k = {"pc", "seeds", "of", "members", "reps", "rest"}
  /\ k.pc \in {"seed", "members", "rank", "answered"}
  /\ k.pc = "seed" => k = NewAsk
  /\ k.pc \in {"members", "rank"} => SeedsNamed(k)
  /\ k.pc \in {"rank", "answered"} => MembersApart(k)
  /\ k.pc = "answered" => BestShownIn(k)

IndexInv == StoreTyped /\ RunnersSound /\ SoundRows(index) /\ ClaimsCounted /\ AskSound(ask)

(* IndexSound, from the invariant.                                          *)
LEMMA InvIsIndexSound == IndexInv => IndexSound
<1> SUFFICES ASSUME IndexInv PROVE IndexSound
  OBVIOUS
<1>1. LeavesPartition
  BY DEF IndexInv, SoundRows, PartitionIn, LeavesPartition
<1>2. OneGeneration
  BY DEF IndexInv, AskSound, MembersApart, OneGeneration
<1>3. BestIsShown
  BY DEF IndexInv, AskSound, BestShownIn, BestIsShown
<1>4. OnePassPerWindow
  BY DEF IndexInv, ClaimsCounted, OnePassPerWindow
<1> QED BY <1>1, <1>2, <1>3, <1>4 DEF IndexSound

(* An empty index partitions nothing.                                       *)
LEMMA NoRowsAreSound == SoundRows({})
BY DEF SoundRows, PartitionIn, Leaves

(* The invariant holds of an index that was never built.                    *)
LEMMA IndexInitInv == IndexInit => IndexInv
<1> SUFFICES ASSUME IndexInit PROVE IndexInv
  OBVIOUS
<1>1. StoreTyped
  BY DEF IndexInit, StoreTyped
<1>2. RunnersSound
  BY NoRowsAreSound DEF IndexInit, RunnersSound, IdleRunner
<1>3. SoundRows(index)
  BY NoRowsAreSound DEF IndexInit
<1>4. ClaimsCounted
  BY DEF IndexInit, ClaimsCounted
<1>5. AskSound(ask)
  BY DEF IndexInit, NewAsk, AskSound
<1> QED BY <1>1, <1>2, <1>3, <1>4, <1>5 DEF IndexInv

(* A runner that keeps sound rows keeps the runners sound.                  *)
LEMMA RunnerSet ==
  ASSUME RunnersSound, NEW r \in Runners, NEW v, runner' = [runner EXCEPT ![r] = v],
         v = [pc |-> v.pc, pass |-> v.pass, rows |-> v.rows], SoundRows(v.rows)
  PROVE  RunnersSound'
<1>1. runner' = [q \in Runners |-> IF q = r THEN v ELSE runner[q]]
  BY DEF RunnersSound
<1>2. DOMAIN runner' = Runners /\ runner' = [q \in Runners |-> runner'[q]]
  BY <1>1
<1>3. ASSUME NEW q \in Runners
      PROVE  /\ runner'[q] = [pc |-> runner'[q].pc, pass |-> runner'[q].pass, rows |-> runner'[q].rows]
             /\ SoundRows(runner'[q].rows)
  BY <1>1 DEF RunnersSound
<1> QED BY <1>2, <1>3 DEF RunnersSound

(* What a pass does to the runners and to the index.                        *)
LEMMA PassStepsKeepRows ==
  ASSUME IndexInv, NEW r \in Runners,
         CheckEdges(r) \/ ClaimCooldown(r) \/ ComputeRows(r) \/ WriteIndex(r) \/ PassFails(r)
  PROVE  RunnersSound' /\ SoundRows(index')
<1>0. RunnersSound /\ SoundRows(index) /\ StoreTyped
  BY DEF IndexInv
<1>1. runner[r] = [pc |-> runner[r].pc, pass |-> runner[r].pass, rows |-> runner[r].rows]
      /\ SoundRows(runner[r].rows)
  BY <1>0 DEF RunnersSound
<1>2. UNCHANGED runner => RunnersSound'
  BY <1>0 DEF RunnersSound
<1>3. runner' = [runner EXCEPT ![r] = IdleRunner] => RunnersSound'
  <2>1. IdleRunner = [pc |-> IdleRunner.pc, pass |-> IdleRunner.pass, rows |-> IdleRunner.rows]
        /\ SoundRows(IdleRunner.rows)
    BY NoRowsAreSound DEF IdleRunner
  <2> QED BY <1>0, <2>1, RunnerSet
<1>4. CASE CheckEdges(r)
  <2> DEFINE go == IF LiveEdges(store) = {} THEN "cluster" ELSE "claim"
             v == [pc |-> go, pass |-> spent.passes + 1, rows |-> {}]
  <2>1. runner' = [runner EXCEPT ![r] = v] /\ index' = index
    BY <1>4 DEF CheckEdges
  <2> HIDE DEF go
  <2>2. v = [pc |-> v.pc, pass |-> v.pass, rows |-> v.rows] /\ v.rows = {}
    OBVIOUS
  <2> HIDE DEF v
  <2>3. SoundRows(v.rows)
    BY <2>2, NoRowsAreSound
  <2> QED BY <1>0, <2>1, <2>2, <2>3, RunnerSet
<1>5. CASE ClaimCooldown(r)
  <2> DEFINE v == [runner[r] EXCEPT !.pc = "cluster"]
  <2>1. v = [pc |-> v.pc, pass |-> v.pass, rows |-> v.rows] /\ SoundRows(v.rows)
    BY <1>1
  <2>2. /\ runner' = [runner EXCEPT ![r] = v] \/ runner' = [runner EXCEPT ![r] = IdleRunner]
        /\ index' = index
    BY <1>5 DEF ClaimCooldown
  <2> HIDE DEF v
  <2> QED BY <1>0, <1>3, <2>1, <2>2, RunnerSet
<1>6. CASE ComputeRows(r)
  <2>1. PICK h \in Hierarchies(Nodes(store)) :
          runner' = [runner EXCEPT ![r] = [pc |-> "write", pass |-> runner[r].pass,
                                           rows |-> RowsOf(runner[r].pass, h, store)]]
    BY <1>6 DEF ComputeRows
  <2> DEFINE rows == RowsOf(runner[r].pass, h, store)
             v == [pc |-> "write", pass |-> runner[r].pass, rows |-> rows]
  <2>2. Nodes(store) \in SUBSET Linked
    BY <1>0 DEF Nodes, LiveEdges, StoreTyped
  <2>3. SoundRows(rows)
    BY <2>2, RowsOfAreSound
  <2> HIDE DEF rows
  <2>4. runner' = [runner EXCEPT ![r] = v]
    BY <2>1 DEF rows
  <2>5. v = [pc |-> v.pc, pass |-> v.pass, rows |-> v.rows] /\ SoundRows(v.rows)
    BY <2>3
  <2> HIDE DEF v
  <2>6. index' = index
    BY <1>6 DEF ComputeRows
  <2> QED BY <1>0, <2>4, <2>5, <2>6, RunnerSet
<1>7. CASE WriteIndex(r)
  BY <1>1, <1>3, <1>7 DEF WriteIndex
<1>8. CASE PassFails(r)
  BY <1>0, <1>3, <1>8 DEF PassFails
<1> QED BY <1>4, <1>5, <1>6, <1>7, <1>8

(* Seeds name the members of the rows they were chosen from.                *)
LEMMA SeedsKeepAsk == ASSUME IndexInv, SeedCommunities PROVE AskSound(ask')
<1>0. AskSound(ask) /\ SoundRows(index) /\ ask.pc = "seed" /\ ask = NewAsk
  BY DEF IndexInv, AskSound, SeedCommunities
<1>1. CASE Seedable = {}
  <2>1. ask' = [NewAsk EXCEPT !.pc = "answered"]
    BY <1>0, <1>1 DEF SeedCommunities
  <2>2. /\ DOMAIN ask' = {"pc", "seeds", "of", "members", "reps", "rest"} /\ ask'.pc = "answered"
        /\ ask'.seeds = <<>> /\ ask'.members = [m \in {} |-> {}] /\ ask'.reps = {} /\ ask'.rest = {}
    BY <2>1 DEF NewAsk
  <2>3. DOMAIN ask'.seeds = {} /\ DOMAIN ask'.members = {}
    BY <2>2
  <2>4. MembersApart(ask')
    BY <2>3 DEF MembersApart
  <2>5. BestShownIn(ask')
    BY <2>2, <2>3 DEF BestShownIn
  <2> QED BY <2>2, <2>4, <2>5 DEF AskSound
<1>2. CASE Seedable # {}
  <2>1. PICK n \in 1..SeedCap : \E seeds \in [1..n -> {row.id : row \in Seedable}] :
            /\ IsInjective(seeds)
            /\ ask' = [ask EXCEPT !.pc = "members", !.seeds = seeds,
                         !.of = [i \in DOMAIN seeds |->
                                   UNION {row.members : row \in {row \in index : row.id = seeds[i]}}]]
    BY <1>2 DEF SeedCommunities
  <2>2. PICK seeds \in [1..n -> {row.id : row \in Seedable}] :
            /\ IsInjective(seeds)
            /\ ask' = [ask EXCEPT !.pc = "members", !.seeds = seeds,
                         !.of = [i \in DOMAIN seeds |->
                                   UNION {row.members : row \in {row \in index : row.id = seeds[i]}}]]
    BY <2>1
  <2> DEFINE of == [i \in DOMAIN seeds |->
                      UNION {row.members : row \in {row \in index : row.id = seeds[i]}}]
  <2>3. ASSUME NEW i \in DOMAIN seeds PROVE of[i] = Named(seeds[i])
    <3>1. PICK row \in Seedable : row.id = seeds[i]
      BY <2>2, <2>3
    <3>2. row \in index
      BY <3>1 DEF Seedable, Leaves
    <3>3. \A x \in index : x.id = seeds[i] => x.members = Named(seeds[i])
      BY <1>0 DEF SoundRows
    <3> QED BY <3>1, <3>2, <3>3
  <2>4. DOMAIN of = DOMAIN seeds
    OBVIOUS
  <2> HIDE DEF of
  <2>5. /\ DOMAIN ask' = {"pc", "seeds", "of", "members", "reps", "rest"} /\ ask'.pc = "members"
        /\ ask'.seeds = seeds /\ ask'.of = of
    BY <1>0, <2>2 DEF AskSound, of
  <2>6. SeedsNamed(ask')
    BY <2>2, <2>3, <2>4, <2>5 DEF SeedsNamed, IsInjective
  <2> QED BY <2>5, <2>6 DEF AskSound
<1> QED BY <1>1, <1>2

(* What a pass wrote in between gives a seed the same members or none.      *)
LEMMA LoadKeepsAsk == ASSUME IndexInv, LoadMembers PROVE AskSound(ask')
<1>0. AskSound(ask) /\ SoundRows(index) /\ ask.pc = "members" /\ SeedsNamed(ask) /\ StoreTyped
  BY DEF IndexInv, AskSound, LoadMembers
<1> DEFINE members == [i \in DOMAIN ask.seeds |->
             store.visible \cap UNION {row.members : row \in {row \in index : row.id = ask.seeds[i]}}]
<1>1. /\ DOMAIN ask' = {"pc", "seeds", "of", "members", "reps", "rest"} /\ ask'.pc = "rank"
      /\ ask'.seeds = ask.seeds /\ ask'.of = ask.of /\ ask'.members = members
  BY <1>0 DEF AskSound, LoadMembers
<1>2. SeedsNamed(ask')
  BY <1>0, <1>1 DEF SeedsNamed
<1>3. ASSUME NEW i \in DOMAIN ask.seeds
      PROVE  members[i] \subseteq Linked /\ members[i] \subseteq ask.of[i]
  <2>1. \A x \in index : x.id = ask.seeds[i] => x.members = Named(ask.seeds[i])
    BY <1>0 DEF SoundRows
  <2>2. ask.of[i] = Named(ask.seeds[i])
    BY <1>0 DEF SeedsNamed
  <2> QED BY <1>0, <2>1, <2>2 DEF StoreTyped
<1>4. ASSUME NEW i \in DOMAIN ask.seeds, NEW j \in DOMAIN ask.seeds, i # j
      PROVE  members[i] \cap members[j] = {}
  <2>1. ask.seeds[i] # ask.seeds[j]
    BY <1>0, <1>4 DEF SeedsNamed
  <2>2. \A x, y \in index : x.id = ask.seeds[i] /\ y.id = ask.seeds[j] => x.members \cap y.members = {}
    BY <1>0, <2>1 DEF SoundRows
  <2> QED BY <2>2
<1>5. DOMAIN members = DOMAIN ask.seeds
  OBVIOUS
<1> HIDE DEF members
<1>6. MembersApart(ask')
  BY <1>1, <1>3, <1>4, <1>5 DEF MembersApart
<1> QED BY <1>1, <1>2, <1>6 DEF AskSound

(* Representatives come from the best of each community, the rest from the  *)
(* others, and the best of all is the first that is ranked.                 *)
LEMMA AdmittedIs ==
  ASSUME NEW S \in SUBSET Linked
  PROVE  Admitted(ByQuery(S)) \subseteq S /\ (S # {} => BestOf(S) \in Admitted(ByQuery(S)))
<1> DEFINE ranked == ByQuery(S)
           n == Min({RepresentativeCap, Len(ranked)})
           near(i) == Similarity[ranked[1]] <= Similarity[ranked[i]] + SimilarityGap
<1>1. /\ Cardinality(S) \in Nat /\ ranked \in [1..Cardinality(S) -> S] /\ Len(ranked) = Cardinality(S)
  BY RankedAreMembers
<1>2. n \in Nat /\ n <= Cardinality(S) /\ (Cardinality(S) >= 1 => n >= 1)
  <2>1. RepresentativeCap \in Nat /\ RepresentativeCap # 0
    BY IndexAssumption
  <2>2. \E x \in {RepresentativeCap, Cardinality(S)} : \A y \in {RepresentativeCap, Cardinality(S)} : x <= y
    BY <1>1, <2>1
  <2>3. n \in {RepresentativeCap, Cardinality(S)} /\ \A y \in {RepresentativeCap, Cardinality(S)} : n <= y
    BY <1>1, <2>2 DEF Min
  <2> HIDE DEF n, ranked
  <2> QED BY <1>1, <2>1, <2>3
<1>3. Admitted(ranked) = {ranked[i] : i \in {i \in 1..n : \A k \in 1..i : near(k)}}
  BY DEF Admitted
<1>4. Admitted(ranked) \subseteq S
  <2> HIDE DEF n, ranked, near
  <2> QED BY <1>1, <1>2, <1>3
<1>5. ASSUME S # {} PROVE BestOf(S) \in Admitted(ranked)
  <2>1. ranked[1] = BestOf(S) /\ Cardinality(S) >= 1 /\ BestOf(S) \in S
    BY <1>5, BestIsFirst
  <2>2. near(1)
    <3>1. Similarity[BestOf(S)] \in Int /\ SimilarityGap \in Nat
      BY <2>1, IndexAssumption
    <3> HIDE DEF ranked
    <3> QED BY <2>1, <3>1
  <2> HIDE DEF ranked, n, near
  <2>3. 1 \in {i \in 1..n : \A k \in 1..i : near(k)}
    BY <1>2, <2>1, <2>2
  <2> QED BY <1>3, <2>1, <2>3
<1> QED BY <1>4, <1>5

(* Ranking shows the best that was loaded, and nothing twice.               *)
LEMMA RankKeepsAsk == ASSUME IndexInv, RankAndPack PROVE AskSound(ask')
<1>0. AskSound(ask) /\ ask.pc = "rank" /\ MembersApart(ask)
  BY DEF IndexInv, AskSound, RankAndPack
<1> DEFINE scored == [i \in DOMAIN ask.seeds |-> ask.members[i] \cap store.live]
           some == {i \in DOMAIN ask.seeds : scored[i] # {}}
           tops == {BestOf(scored[i]) : i \in some}
           others == UNION {scored[i] \ {BestOf(scored[i])} : i \in some}
           rest == ByQuery(others)
           kept == Min({MemberCap, MemberBudget, Len(rest)})
           packed == {rest[i] : i \in 1..kept}
           all == UNION {scored[i] : i \in DOMAIN scored}
<1>1. ask' = [ask EXCEPT !.pc = "answered", !.members = scored,
                !.reps = Admitted(ByQuery(tops)), !.rest = packed]
  BY DEF RankAndPack
<1>2. /\ DOMAIN scored = DOMAIN ask.seeds
      /\ \A i \in DOMAIN ask.seeds : scored[i] \subseteq Linked /\ scored[i] \subseteq ask.of[i]
      /\ \A i, j \in DOMAIN ask.seeds : i # j => scored[i] \cap scored[j] = {}
  BY <1>0 DEF MembersApart
<1> HIDE DEF scored
<1>3. ASSUME NEW i \in some PROVE BestOf(scored[i]) \in scored[i] /\ i \in DOMAIN ask.seeds
  BY <1>2, BestIsFirst
<1>4. tops \in SUBSET Linked /\ others \in SUBSET Linked /\ all \in SUBSET Linked
  BY <1>2, <1>3
<1>5. tops \cap others = {}
  <2> SUFFICES ASSUME NEW i \in some, NEW j \in some, BestOf(scored[i]) \in scored[j] \ {BestOf(scored[j])}
               PROVE  FALSE
    OBVIOUS
  <2>1. i # j
    OBVIOUS
  <2> QED BY <1>2, <1>3, <2>1
<1>6. packed \subseteq others
  <2>1. /\ Cardinality(others) \in Nat /\ rest \in [1..Cardinality(others) -> others]
        /\ Len(rest) = Cardinality(others)
    BY <1>4, RankedAreMembers
  <2>2. MemberCap \in Nat /\ MemberBudget \in Nat
    BY IndexAssumption
  <2> HIDE DEF rest
  <2>3. \E x \in {MemberCap, MemberBudget, Len(rest)} : \A y \in {MemberCap, MemberBudget, Len(rest)} : x <= y
    BY <2>1, <2>2
  <2>4. kept \in {MemberCap, MemberBudget, Len(rest)} /\ kept <= Len(rest)
    BY <2>3 DEF Min
  <2> HIDE DEF others, kept
  <2>5. kept \in Nat /\ kept <= Cardinality(others)
    BY <2>1, <2>2, <2>4
  <2> QED BY <2>1, <2>5
<1>7. all # {} => BestOf(all) \in tops /\ BestOf(tops) = BestOf(all)
  <2> SUFFICES ASSUME all # {} PROVE BestOf(all) \in tops /\ BestOf(tops) = BestOf(all)
    OBVIOUS
  <2>1. BestOf(all) \in all
    BY <1>4, BestIsFirst
  <2>2. PICK i \in DOMAIN ask.seeds : BestOf(all) \in scored[i]
    BY <1>2, <2>1
  <2>3. scored[i] \in SUBSET all /\ i \in some
    BY <1>2, <2>2
  <2>4. BestOf(scored[i]) = BestOf(all)
    BY <1>4, <2>2, <2>3, BestOfPart
  <2>5. BestOf(all) \in tops
    BY <2>3, <2>4
  <2>6. tops \in SUBSET all
    BY <1>2, <1>3
  <2> HIDE DEF all, tops
  <2>7. BestOf(tops) = BestOf(all)
    BY <1>4, <2>5, <2>6, BestOfPart
  <2> QED BY <2>5, <2>7
<1> HIDE DEF tops, others, packed, all
<1>8. Admitted(ByQuery(tops)) \subseteq tops /\ (tops # {} => BestOf(tops) \in Admitted(ByQuery(tops)))
  BY <1>4, AdmittedIs
<1>9. /\ DOMAIN ask' = {"pc", "seeds", "of", "members", "reps", "rest"} /\ ask'.pc = "answered"
      /\ ask'.seeds = ask.seeds /\ ask'.of = ask.of /\ ask'.members = scored
      /\ ask'.reps = Admitted(ByQuery(tops)) /\ ask'.rest = packed
  BY <1>0, <1>1 DEF AskSound
<1>10. MembersApart(ask')
  BY <1>2, <1>9 DEF MembersApart
<1>11. BestShownIn(ask')
  <2>1. all # {} => BestOf(all) \in ask'.reps
    BY <1>7, <1>8, <1>9
  <2>2. ask'.reps \cap ask'.rest = {}
    BY <1>5, <1>6, <1>8, <1>9
  <2> QED BY <2>1, <2>2, <1>9 DEF BestShownIn, all
<1> QED BY <1>9, <1>10, <1>11 DEF AskSound

(* Every step keeps the invariant.                                          *)
LEMMA IndexStepInv == ASSUME IndexInv, [IndexNext]_indexVars PROVE IndexInv'
<1>0. StoreTyped /\ RunnersSound /\ SoundRows(index) /\ ClaimsCounted /\ AskSound(ask)
  BY DEF IndexInv
<1>k. /\ UNCHANGED store => StoreTyped'
      /\ UNCHANGED runner => RunnersSound'
      /\ UNCHANGED index => SoundRows(index')
      /\ UNCHANGED <<lock, spent>> => ClaimsCounted'
      /\ UNCHANGED ask => AskSound(ask')
  BY <1>0 DEF StoreTyped, RunnersSound, ClaimsCounted
<1>1. ASSUME NEW r \in Runners,
             CheckEdges(r) \/ ClaimCooldown(r) \/ ComputeRows(r) \/ WriteIndex(r) \/ PassFails(r)
      PROVE  IndexInv'
  <2>1. RunnersSound' /\ SoundRows(index')
    BY <1>1, PassStepsKeepRows
  <2>2. UNCHANGED <<store, ask>>
    BY <1>1 DEF CheckEdges, ClaimCooldown, ComputeRows, WriteIndex, PassFails
  <2>3. ClaimsCounted'
    <3>1. CASE CheckEdges(r)
      BY <1>0, <3>1 DEF CheckEdges, ClaimsCounted
    <3>2. CASE ClaimCooldown(r)
      BY <1>0, <3>2 DEF ClaimCooldown, CooldownOver, ClaimsCounted
    <3>3. CASE ComputeRows(r) \/ WriteIndex(r) \/ PassFails(r)
      BY <1>k, <3>3 DEF ComputeRows, WriteIndex, PassFails
    <3> QED BY <1>1, <3>1, <3>2, <3>3
  <2> QED BY <1>k, <2>1, <2>2, <2>3 DEF IndexInv
<1>2. CASE Cooldown
  <2>1. ClaimsCounted'
    BY <1>0, <1>2 DEF Cooldown, ClaimsCounted
  <2> QED BY <1>2, <1>k, <2>1 DEF Cooldown, IndexInv
<1>3. CASE SeedCommunities
  BY <1>3, <1>k, SeedsKeepAsk DEF SeedCommunities, IndexInv
<1>4. CASE LoadMembers
  BY <1>4, <1>k, LoadKeepsAsk DEF LoadMembers, IndexInv
<1>5. CASE RankAndPack
  BY <1>5, <1>k, RankKeepsAsk DEF RankAndPack, IndexInv
<1>6. CASE StoreEdit
  <2>1. StoreTyped'
    BY <1>0, <1>6 DEF StoreEdit, StoreTyped
  <2>2. ClaimsCounted'
    BY <1>0, <1>6 DEF StoreEdit, ClaimsCounted
  <2> QED BY <1>6, <1>k, <2>1, <2>2 DEF StoreEdit, IndexInv
<1>7. CASE UNCHANGED indexVars
  BY <1>7, <1>k DEF indexVars, IndexInv
<1> QED BY <1>1, <1>2, <1>3, <1>4, <1>5, <1>6, <1>7 DEF IndexNext

(***************************************************************************)
(* Whichever processes rebuild the index, however deep they split it and   *)
(* whatever other sessions write meanwhile: leaves partition what was      *)
(* clustered, a question is answered from one generation, its best match   *)
(* is among the representatives, and one pass is claimed per cooldown      *)
(* window.                                                                 *)
(***************************************************************************)
THEOREM IndexStaysSound == IndexSpec => []IndexSound
<1>1. IndexInit => IndexInv
  BY IndexInitInv
<1>2. IndexInv /\ [IndexNext]_indexVars => IndexInv'
  BY IndexStepInv
<1>3. IndexInv => IndexSound
  BY InvIsIndexSound
<1> QED BY <1>1, <1>2, <1>3, PTL DEF IndexSpec

-----------------------------------------------------------------------------
(* Recursion without an induction rule: a function that is given step by    *)
(* step exists, by the least step at which it would not.                    *)

IteratesTo(f, n, V, v0, G) ==
  f \in [0..n -> V] /\ f[0] = v0 /\ \A i \in 1..n : f[i] = G[i][f[i - 1]]

(* A recurrence over steps 0..n has a solution.                             *)
LEMMA StepsExist ==
  ASSUME NEW n \in Nat, NEW V, NEW v0 \in V, NEW G \in [1..n -> [V -> V]]
  PROVE  \E f : IteratesTo(f, n, V, v0, G)
<1> DEFINE Bad == {k \in 0..n : ~ \E f : IteratesTo(f, k, V, v0, G)}
<1>1. SUFFICES ASSUME n \in Bad PROVE FALSE
  OBVIOUS
<1>2. Bad \in SUBSET Nat /\ Bad # {}
  <2>1. 0..n \in SUBSET Nat
    OBVIOUS
  <2>2. Bad \in SUBSET (0..n) /\ Bad # {}
    BY <1>1, Zenon
  <2> QED BY <2>1, <2>2
<1>3. PICK k \in Bad : \A j \in Bad : k <= j
  <2> HIDE DEF Bad
  <2> QED BY <1>2, LeastNatural
<1>4. CASE k = 0
  <2>1. IteratesTo([i \in 0..0 |-> v0], 0, V, v0, G)
    BY DEF IteratesTo
  <2> QED BY <1>3, <1>4, <2>1
<1>5. CASE k # 0
  <2>1. k \in 1..n /\ k - 1 \in 0..n /\ ~(k <= k - 1)
    BY <1>3, <1>5
  <2>2. k - 1 \notin Bad
    BY <1>3, <2>1
  <2>3. PICK f : IteratesTo(f, k - 1, V, v0, G)
    BY <2>1, <2>2
  <2>4. f \in [0..(k - 1) -> V] /\ f[0] = v0 /\ \A i \in 1..(k - 1) : f[i] = G[i][f[i - 1]]
    BY <2>3 DEF IteratesTo
  <2>5. f[k - 1] \in V /\ G[k] \in [V -> V]
    BY <2>1, <2>4
  <2> DEFINE g == [i \in 0..k |-> IF i = k THEN G[k][f[k - 1]] ELSE f[i]]
  <2>6. g \in [0..k -> V]
    BY <2>1, <2>4, <2>5
  <2>7. g[0] = v0
    BY <2>1, <2>4
  <2>8. ASSUME NEW i \in 1..k PROVE g[i] = G[i][g[i - 1]]
    <3>1. g[i - 1] = f[i - 1]
      BY <2>1
    <3>2. CASE i = k
      BY <3>1, <3>2
    <3>3. CASE i # k
      <4>1. i \in 1..(k - 1) /\ g[i] = f[i]
        BY <2>1, <3>3
      <4> QED BY <2>4, <3>1, <4>1
    <3> QED BY <3>2, <3>3
  <2> HIDE DEF g
  <2>9. IteratesTo(g, k, V, v0, G)
    BY <2>6, <2>7, <2>8 DEF IteratesTo
  <2> QED BY <1>3, <2>9
<1> QED BY <1>4, <1>5

(* What holds at zero and is handed from step to step holds at every step.  *)
LEMMA StepByStep ==
  ASSUME NEW n \in Nat, NEW S, 0 \in S, \A i \in 1..n : i - 1 \in S => i \in S
  PROVE  \A i \in 0..n : i \in S
<1> DEFINE Bad == {i \in 0..n : i \notin S}
<1>1. SUFFICES ASSUME Bad # {} PROVE FALSE
  OBVIOUS
<1>2. Bad \in SUBSET Nat
  OBVIOUS
<1>3. PICK k \in Bad : \A j \in Bad : k <= j
  <2> HIDE DEF Bad
  <2> QED BY <1>1, <1>2, LeastNatural
<1>4. k \in 0..n /\ k \notin S /\ k # 0
  BY <1>3
<1>5. k \in 1..n /\ k - 1 \in 0..n /\ ~(k <= k - 1)
  BY <1>4
<1>6. k - 1 \in S
  BY <1>3, <1>5
<1> QED BY <1>4, <1>5, <1>6

-----------------------------------------------------------------------------
(* What edges reach                                                         *)

Hop(edges, S) == S \cup {e[2] : e \in {e \in edges : e[1] \in S}}

(* Reach, hop by hop.                                                       *)
LEMMA ReachIs ==
  ASSUME NEW edges \in SUBSET CtxEdges, NEW m \in CtxMemories, NEW depth \in Nat
  PROVE  \E f \in [0..depth -> SUBSET CtxMemories] :
           /\ f[0] = {m} /\ \A i \in 1..depth : f[i] = Hop(edges, f[i - 1])
           /\ Reach(edges, m, depth) = f[depth]
<1> DEFINE V == SUBSET CtxMemories
           Rec(f) == [n \in 0..depth |->
                        IF n = 0 THEN {m}
                        ELSE f[n - 1] \cup {e[2] : e \in {e \in edges : e[1] \in f[n - 1]}}]
           G == [i \in 1..depth |-> [S \in V |-> Hop(edges, S)]]
<1>1. \A S \in V : Hop(edges, S) \in V
  BY DEF Hop, CtxEdges
<1>2. G \in [1..depth -> [V -> V]] /\ {m} \in V
  BY <1>1
<1>3. PICK f : IteratesTo(f, depth, V, {m}, G)
  <2> HIDE DEF G, V
  <2> QED BY <1>2, StepsExist
<1>4. f \in [0..depth -> V] /\ f[0] = {m} /\ \A i \in 1..depth : f[i] = Hop(edges, f[i - 1])
  <2>1. f \in [0..depth -> V] /\ f[0] = {m} /\ \A i \in 1..depth : f[i] = G[i][f[i - 1]]
    BY <1>3 DEF IteratesTo
  <2>2. ASSUME NEW i \in 1..depth PROVE f[i] = Hop(edges, f[i - 1])
    <3>1. f[i - 1] \in V
      BY <2>1
    <3> QED BY <2>1, <3>1
  <2> QED BY <2>1, <2>2
<1>5. f = Rec(f)
  BY <1>4 DEF Hop
<1>6. \A h : h = Rec(h) => \A i \in 0..depth : (i = 0 => h[i] = {m}) /\ (i # 0 => h[i] = Hop(edges, h[i - 1]))
  BY DEF Hop
<1> DEFINE after == CHOOSE h : h = Rec(h)
<1>7. after = Rec(after)
  BY <1>5
<1>8. Reach(edges, m, depth) = after[depth]
  BY DEF Reach
<1>9. DOMAIN after = 0..depth /\ after = [i \in 0..depth |-> after[i]]
  BY <1>7
<1> HIDE DEF after, Rec
<1>10. after[0] = {m} /\ \A i \in 1..depth : after[i] = Hop(edges, after[i - 1])
  BY <1>6, <1>7
<1> DEFINE Bad == {i \in 0..depth : after[i] # f[i]}
<1>11. ASSUME Bad # {} PROVE FALSE
  <2>1. PICK k \in Bad : \A j \in Bad : k <= j
    <3>1. Bad \in SUBSET Nat
      OBVIOUS
    <3> HIDE DEF Bad
    <3> QED BY <1>11, <3>1, LeastNatural
  <2>k. k \in 0..depth /\ after[k] # f[k]
    BY <2>1
  <2>0. k # 0
    BY <1>4, <1>10, <2>k
  <2>2. k \in 1..depth /\ k - 1 \in 0..depth /\ ~(k <= k - 1)
    BY <2>0, <2>k
  <2>3. after[k - 1] = f[k - 1]
    BY <2>1, <2>2
  <2> QED BY <1>4, <1>10, <2>k, <2>2, <2>3
<1>12. Reach(edges, m, depth) = f[depth]
  BY <1>8, <1>11
<1> QED BY <1>4, <1>12

(* A set that its own edges do not leave holds all they reach from inside.  *)
LEMMA ReachStays ==
  ASSUME NEW edges \in SUBSET CtxEdges, NEW m \in CtxMemories, NEW depth \in Nat,
         NEW S, m \in S, \A e \in edges : e[1] \in S => e[2] \in S
  PROVE  Reach(edges, m, depth) \subseteq S
<1>1. PICK f \in [0..depth -> SUBSET CtxMemories] :
           /\ f[0] = {m} /\ \A i \in 1..depth : f[i] = Hop(edges, f[i - 1])
           /\ Reach(edges, m, depth) = f[depth]
  BY ReachIs
<1> DEFINE In == {i \in 0..depth : f[i] \subseteq S}
<1>2. 0 \in In
  BY <1>1
<1>3. ASSUME NEW i \in 1..depth, i - 1 \in In PROVE i \in In
  <2>1. f[i - 1] \subseteq S /\ f[i] = Hop(edges, f[i - 1])
    BY <1>1, <1>3
  <2>2. f[i] \subseteq S
    BY <2>1 DEF Hop
  <2> QED BY <2>2
<1>4. depth \in In
  <2> HIDE DEF In
  <2> QED BY <1>2, <1>3, StepByStep
<1> QED BY <1>1, <1>4

(* One hop is within reach.                                                 *)
LEMMA ReachSteps ==
  ASSUME NEW edges \in SUBSET CtxEdges, NEW m \in CtxMemories, NEW depth \in Nat \ {0}
  PROVE  /\ Reach(edges, m, depth) \in SUBSET CtxMemories /\ m \in Reach(edges, m, depth)
         /\ \A e \in edges : e[1] = m => e[2] \in Reach(edges, m, depth)
<1>1. PICK f \in [0..depth -> SUBSET CtxMemories] :
           /\ f[0] = {m} /\ \A i \in 1..depth : f[i] = Hop(edges, f[i - 1])
           /\ Reach(edges, m, depth) = f[depth]
  BY ReachIs
<1> DEFINE In == {i \in 0..depth : i > 0 => f[1] \subseteq f[i]}
<1>2. 0 \in In
  OBVIOUS
<1>3. ASSUME NEW i \in 1..depth, i - 1 \in In PROVE i \in In
  <2>1. f[i] = Hop(edges, f[i - 1])
    BY <1>1
  <2>2. CASE i = 1
    BY <2>2
  <2>3. CASE i # 1
    <3>1. f[1] \subseteq f[i - 1]
      BY <1>3, <2>3
    <3>2. f[1] \subseteq f[i]
      BY <2>1, <3>1 DEF Hop
    <3> QED BY <3>2
  <2> QED BY <2>2, <2>3
<1>4. depth \in In
  <2> HIDE DEF In
  <2> QED BY <1>2, <1>3, StepByStep
<1>5. f[1] = Hop(edges, {m})
  BY <1>1
<1>6. f[1] \subseteq f[depth]
  BY <1>4
<1>7. m \in f[1] /\ \A e \in edges : e[1] = m => e[2] \in f[1]
  BY <1>5 DEF Hop
<1> QED BY <1>1, <1>6, <1>7

(* The same for the search against the edges.                               *)
LEMMA BothWays ==
  ASSUME NEW edges \in SUBSET CtxEdges, NEW m \in CtxMemories
  PROVE  /\ Ancestors(edges, m) \in SUBSET CtxMemories /\ m \in Ancestors(edges, m)
         /\ Descendants(edges, m) \in SUBSET CtxMemories
         /\ \A e \in edges : e[1] = m => e[2] \in Ancestors(edges, m)
         /\ \A e \in edges : e[2] = m => e[1] \in Descendants(edges, m)
         /\ \A S : m \in S /\ ClosedUnder(edges, S) =>
              Ancestors(edges, m) \subseteq S /\ Descendants(edges, m) \subseteq S
<1> DEFINE back == {<<e[2], e[1]>> : e \in edges}
<1>1. back \in SUBSET CtxEdges
  BY DEF CtxEdges
<1>2. LineageDepth \in Nat \ {0} /\ LineageDepth \in Nat
  BY CtxAssumption
<1>3. Descendants(edges, m) = Reach(back, m, LineageDepth)
  BY DEF Descendants
<1>4. \A e \in edges : <<e[2], e[1]>> \in back /\ <<e[2], e[1]>>[1] = e[2] /\ <<e[2], e[1]>>[2] = e[1]
  OBVIOUS
<1>5. \A b \in back : \E e \in edges : b[1] = e[2] /\ b[2] = e[1]
  OBVIOUS
<1> HIDE DEF back
<1>6. /\ Descendants(edges, m) \in SUBSET CtxMemories
      /\ \A b \in back : b[1] = m => b[2] \in Descendants(edges, m)
  <2>1. /\ Reach(back, m, LineageDepth) \in SUBSET CtxMemories
        /\ \A e \in back : e[1] = m => e[2] \in Reach(back, m, LineageDepth)
    BY <1>1, <1>2, ReachSteps
  <2> QED BY <1>3, <2>1
<1>7. \A e \in edges : e[2] = m => e[1] \in Descendants(edges, m)
  BY <1>4, <1>6
<1>8. ASSUME NEW S, m \in S, ClosedUnder(edges, S)
      PROVE  Ancestors(edges, m) \subseteq S /\ Descendants(edges, m) \subseteq S
  <2>1. \A e \in edges : e[1] \in S => e[2] \in S
    BY <1>8 DEF ClosedUnder
  <2>2. \A b \in back : b[1] \in S => b[2] \in S
    BY <1>5, <1>8 DEF ClosedUnder
  <2>3. Ancestors(edges, m) \subseteq S
    BY <1>2, <1>8, <2>1, ReachStays DEF Ancestors
  <2>4. Descendants(edges, m) \subseteq S
    BY <1>1, <1>2, <1>3, <1>8, <2>2, ReachStays
  <2> QED BY <2>3, <2>4
<1>9. /\ Ancestors(edges, m) \in SUBSET CtxMemories /\ m \in Ancestors(edges, m)
      /\ \A e \in edges : e[1] = m => e[2] \in Ancestors(edges, m)
  BY <1>2, ReachSteps DEF Ancestors
<1> QED BY <1>6, <1>7, <1>8, <1>9

-----------------------------------------------------------------------------
(* Components, and the search that decides whether one is settled           *)

(* A component is the least set with its member that no edge leaves.        *)
LEMMA ComponentIsLeast ==
  ASSUME NEW edges \in SUBSET CtxEdges, NEW m \in CtxMemories
  PROVE  /\ ComponentOf(edges, m) \in SUBSET CtxMemories /\ m \in ComponentOf(edges, m)
         /\ ClosedUnder(edges, ComponentOf(edges, m))
         /\ \A S \in SUBSET CtxMemories : m \in S /\ ClosedUnder(edges, S) => ComponentOf(edges, m) \subseteq S
<1>1. ASSUME NEW e \in edges PROVE e[1] \in ComponentOf(edges, m) <=> e[2] \in ComponentOf(edges, m)
  <2>1. e[1] \in CtxMemories /\ e[2] \in CtxMemories
    BY DEF CtxEdges
  <2>2. \A S \in SUBSET CtxMemories : ClosedUnder(edges, S) => (e[1] \in S <=> e[2] \in S)
    BY DEF ClosedUnder
  <2> QED BY <2>1, <2>2 DEF ComponentOf
<1>2. ClosedUnder(edges, ComponentOf(edges, m))
  BY <1>1 DEF ClosedUnder
<1> QED BY <1>2 DEF ComponentOf

(* The first of a set is in it.                                             *)
LEMMA FirstIsMember ==
  ASSUME NEW S \in SUBSET CtxMemories, S # {} PROVE FirstOf(S) \in S
<1> DEFINE places == {CtxPlace[m] : m \in S}
<1>1. \A m \in S : CtxPlace[m] \in Nat
  BY CtxAssumption
<1>2. places \in SUBSET Nat /\ places # {}
  BY <1>1
<1>3. PICK p \in places : \A q \in places : p <= q
  <2> HIDE DEF places
  <2> QED BY <1>2, LeastNatural
<1>4. PICK m \in S : CtxPlace[m] = p
  BY <1>3
<1>5. \A k \in S : CtxPlace[m] <= CtxPlace[k]
  BY <1>3, <1>4
<1>6. \E x \in S : \A k \in S : CtxPlace[x] <= CtxPlace[k]
  BY <1>5
<1> QED BY <1>6, Zenon DEF FirstOf

Round(life, S) == S \cup UNION {Ancestors(life, k) \cup Descendants(life, k) : k \in S}

(* The search, round by round.                                              *)
LEMMA ClosureIs ==
  ASSUME NEW g, g.life \in SUBSET CtxEdges, NEW m \in CtxMemories
  PROVE  \E f \in [0..LineageDepth -> SUBSET CtxMemories] :
           /\ f[0] = {m} /\ \A i \in 1..LineageDepth : f[i] = Round(g.life, f[i - 1])
           /\ Closure(g, m) = f[LineageDepth]
<1> DEFINE V == SUBSET CtxMemories
           life == g.life
           Rec(f) == [i \in 0..LineageDepth |->
                        IF i = 0 THEN {m}
                        ELSE f[i - 1] \cup
                             UNION {Ancestors(life, k) \cup Descendants(life, k) : k \in f[i - 1]}]
           G == [i \in 1..LineageDepth |-> [S \in V |-> Round(life, S)]]
<1>0. LineageDepth \in Nat
  BY CtxAssumption
<1>1. ASSUME NEW S \in V PROVE Round(life, S) \in V
  <2>1. \A k \in S : Ancestors(life, k) \in SUBSET CtxMemories /\ Descendants(life, k) \in SUBSET CtxMemories
    BY BothWays
  <2> QED BY <2>1 DEF Round
<1>2. G \in [1..LineageDepth -> [V -> V]] /\ {m} \in V
  BY <1>1
<1>3. PICK f : IteratesTo(f, LineageDepth, V, {m}, G)
  <2> HIDE DEF G, V
  <2> QED BY <1>0, <1>2, StepsExist
<1>4. f \in [0..LineageDepth -> V] /\ f[0] = {m} /\ \A i \in 1..LineageDepth : f[i] = Round(life, f[i - 1])
  <2>1. f \in [0..LineageDepth -> V] /\ f[0] = {m} /\ \A i \in 1..LineageDepth : f[i] = G[i][f[i - 1]]
    BY <1>3 DEF IteratesTo
  <2>2. ASSUME NEW i \in 1..LineageDepth PROVE f[i] = Round(life, f[i - 1])
    <3>1. f[i - 1] \in V
      BY <1>0, <2>1
    <3> QED BY <2>1, <3>1
  <2> QED BY <2>1, <2>2
<1>5. f = Rec(f)
  BY <1>0, <1>4 DEF Round
<1>6. \A h : h = Rec(h) => \A i \in 0..LineageDepth : (i = 0 => h[i] = {m}) /\ (i # 0 => h[i] = Round(life, h[i - 1]))
  BY DEF Round
<1> DEFINE visited == CHOOSE h : h = Rec(h)
<1>7. visited = Rec(visited)
  BY <1>5
<1>8. Closure(g, m) = visited[LineageDepth]
  BY DEF Closure
<1> HIDE DEF visited, Rec
<1>10. visited[0] = {m} /\ \A i \in 1..LineageDepth : visited[i] = Round(life, visited[i - 1])
  BY <1>0, <1>6, <1>7
<1> DEFINE In == {i \in 0..LineageDepth : visited[i] = f[i]}
<1>11. 0 \in In
  <2>1. visited[0] = f[0]
    BY <1>4, <1>10
  <2> QED BY <1>0, <2>1
<1>12. ASSUME NEW i \in 1..LineageDepth, i - 1 \in In PROVE i \in In
  BY <1>0, <1>4, <1>10, <1>12
<1>13. LineageDepth \in In
  <2> HIDE DEF In
  <2> QED BY <1>0, <1>11, <1>12, StepByStep
<1>14. Closure(g, m) = f[LineageDepth]
  BY <1>8, <1>13
<1> QED BY <1>4, <1>14

(* The search finds only what is connected, and all of it when that is no   *)
(* more than its rounds can add one by one.                                 *)
LEMMA ClosureDecides ==
  ASSUME NEW g, g.life \in SUBSET CtxEdges, NEW m \in CtxMemories
  PROVE  /\ Closure(g, m) \subseteq ComponentOf(g.life, m)
         /\ Cardinality(ComponentOf(g.life, m)) <= LineageDepth + 1 =>
              Closure(g, m) = ComponentOf(g.life, m)
<1> DEFINE n == LineageDepth
           family == ComponentOf(g.life, m)
<1>0. n \in Nat
  BY CtxAssumption
<1>1. PICK f \in [0..n -> SUBSET CtxMemories] :
           /\ f[0] = {m} /\ \A i \in 1..n : f[i] = Round(g.life, f[i - 1])
           /\ Closure(g, m) = f[n]
  BY ClosureIs
<1>2. /\ family \in SUBSET CtxMemories /\ m \in family /\ ClosedUnder(g.life, family)
      /\ \A S \in SUBSET CtxMemories : m \in S /\ ClosedUnder(g.life, S) => family \subseteq S
  BY ComponentIsLeast
<1>3. ASSUME NEW S \in SUBSET CtxMemories, NEW T, S \subseteq T, ClosedUnder(g.life, T)
      PROVE  Round(g.life, S) \subseteq T
  <2>1. ASSUME NEW k \in S PROVE Ancestors(g.life, k) \subseteq T /\ Descendants(g.life, k) \subseteq T
    BY <1>3, BothWays
  <2> QED BY <1>3, <2>1 DEF Round
<1>4. ASSUME NEW S \in SUBSET CtxMemories, Round(g.life, S) = S PROVE ClosedUnder(g.life, S)
  <2>1. ASSUME NEW k \in S PROVE Ancestors(g.life, k) \subseteq S /\ Descendants(g.life, k) \subseteq S
    BY <1>4 DEF Round
  <2>2. ASSUME NEW e \in g.life, e[1] \in S PROVE e[2] \in S
    <3>1. e[1] \in CtxMemories /\ e[2] \in Ancestors(g.life, e[1])
      BY <2>2, BothWays
    <3> QED BY <2>1, <2>2, <3>1
  <2>3. ASSUME NEW e \in g.life, e[2] \in S PROVE e[1] \in S
    <3>1. e[2] \in CtxMemories /\ e[1] \in Descendants(g.life, e[2])
      BY <2>3, BothWays
    <3> QED BY <2>1, <2>3, <3>1
  <2> QED BY <2>2, <2>3 DEF ClosedUnder
<1>5. \A S \in SUBSET CtxMemories : IsFiniteSet(S) /\ Cardinality(S) \in Nat
  <2>1. \A S \in SUBSET CtxMemories : IsFiniteSet(S)
    BY CtxAssumption, FS_Subset
  <2> QED BY <2>1, FS_CardinalityType
<1> DEFINE In == {i \in 0..n : /\ f[i] \subseteq family /\ m \in f[i]
                               /\ ClosedUnder(g.life, f[i]) \/ Cardinality(f[i]) >= i + 1}
<1>6. 0 \in In
  <2>1. Cardinality({m}) = 1
    BY FS_Singleton
  <2>2. f[0] \subseteq family /\ m \in f[0] /\ Cardinality(f[0]) >= 0 + 1
    BY <1>1, <1>2, <2>1
  <2> QED BY <1>0, <2>2
<1>7. ASSUME NEW i \in 1..n, i - 1 \in In PROVE i \in In
  <2> DEFINE old == f[i - 1]
             new == f[i]
  <2>1. /\ old \subseteq family /\ m \in old /\ i \in Nat
        /\ ClosedUnder(g.life, old) \/ Cardinality(old) >= i
    BY <1>0, <1>7
  <2>2. old \in SUBSET CtxMemories /\ new \in SUBSET CtxMemories
    BY <1>0
  <2>3. new = Round(g.life, old) /\ old \subseteq new
    BY <1>1 DEF Round
  <2> HIDE DEF old, new
  <2>4. new \subseteq family
    BY <1>2, <1>3, <2>1, <2>2, <2>3
  <2>5. ClosedUnder(g.life, new) \/ Cardinality(new) >= i + 1
    <3>1. CASE ClosedUnder(g.life, old)
      <4>1. new = old
        BY <1>3, <2>2, <2>3, <3>1
      <4> QED BY <3>1, <4>1
    <3>2. CASE ~ClosedUnder(g.life, old)
      <4>1. new # old
        BY <1>4, <2>2, <2>3, <3>2
      <4>2. Cardinality(old) \in Nat /\ Cardinality(new) \in Nat /\ IsFiniteSet(new)
        BY <1>5, <2>2
      <4>3. Cardinality(old) <= Cardinality(new) /\ Cardinality(old) # Cardinality(new)
        BY <2>3, <4>1, <4>2, FS_Subset
      <4> QED BY <2>1, <3>2, <4>2, <4>3
    <3> QED BY <3>1, <3>2
  <2>6. new = f[i] /\ m \in new
    BY <2>1, <2>3 DEF new
  <2> QED BY <2>4, <2>5, <2>6
<1>8. n \in In
  <2> HIDE DEF In
  <2>1. \A i \in 0..n : i \in In
    BY <1>0, <1>6, <1>7, StepByStep
  <2> QED BY <1>0, <2>1
<1>9. /\ f[n] \subseteq family /\ m \in f[n] /\ f[n] \in SUBSET CtxMemories
      /\ ClosedUnder(g.life, f[n]) \/ Cardinality(f[n]) >= n + 1
  BY <1>0, <1>8
<1>10. ASSUME Cardinality(family) <= n + 1 PROVE f[n] = family
  <2>1. CASE ClosedUnder(g.life, f[n])
    BY <1>2, <1>9, <2>1
  <2>2. CASE Cardinality(f[n]) >= n + 1
    <3>1. Cardinality(f[n]) \in Nat /\ Cardinality(family) \in Nat /\ IsFiniteSet(family)
      BY <1>2, <1>5, <1>9
    <3>2. Cardinality(f[n]) <= Cardinality(family)
      BY <1>9, <3>1, FS_Subset
    <3>3. Cardinality(f[n]) = Cardinality(family)
      BY <1>0, <1>10, <2>2, <3>1, <3>2
    <3> QED BY <1>9, <3>1, <3>3, FS_Subset
  <2> QED BY <1>9, <2>1, <2>2
<1> QED BY <1>1, <1>9, <1>10

-----------------------------------------------------------------------------
(* The budget                                                               *)

(* What a list costs, entry by entry.                                       *)
LEMMA TokensAre ==
  ASSUME NEW ids \in Seq(CtxMemories), NEW at
  PROVE  \E f \in [0..Len(ids) -> Nat] :
           /\ f[0] = 0
           /\ \A i \in 1..Len(ids) : f[i] = f[i - 1] + (IF i \in at THEN CtxTokens[ids[i]] ELSE 0)
           /\ TokensOf(ids, at) = f[Len(ids)]
<1> DEFINE Rec(f) == [i \in 0..Len(ids) |->
                        IF i = 0 THEN 0 ELSE f[i - 1] + (IF i \in at THEN CtxTokens[ids[i]] ELSE 0)]
           Add(i, v) == v + (IF i \in at THEN CtxTokens[ids[i]] ELSE 0)
           G == [i \in 1..Len(ids) |-> [v \in Nat |-> Add(i, v)]]
<1>0. Len(ids) \in Nat
  OBVIOUS
<1>1. ASSUME NEW i \in 1..Len(ids), NEW v \in Nat PROVE Add(i, v) \in Nat
  <2>1. CtxTokens[ids[i]] \in Nat
    BY CtxAssumption
  <2> QED BY <2>1
<1>2. G \in [1..Len(ids) -> [Nat -> Nat]]
  <2> HIDE DEF Add
  <2> QED BY <1>1
<1>3. PICK f : IteratesTo(f, Len(ids), Nat, 0, G)
  <2> HIDE DEF G
  <2> QED BY <1>0, <1>2, StepsExist
<1>4. f \in [0..Len(ids) -> Nat] /\ f[0] = 0 /\ \A i \in 1..Len(ids) : f[i] = Add(i, f[i - 1])
  <2>1. f \in [0..Len(ids) -> Nat] /\ f[0] = 0 /\ \A i \in 1..Len(ids) : f[i] = G[i][f[i - 1]]
    BY <1>3 DEF IteratesTo
  <2>2. ASSUME NEW i \in 1..Len(ids) PROVE f[i] = Add(i, f[i - 1])
    <3>1. f[i - 1] \in Nat
      BY <1>0, <2>1
    <3>2. G[i][f[i - 1]] = Add(i, f[i - 1])
      <4> HIDE DEF Add
      <4> QED BY <3>1
    <3> HIDE DEF G, Add
    <3> QED BY <2>1, <3>2
  <2> QED BY <2>1, <2>2
<1>5. f = Rec(f)
  BY <1>0, <1>4
<1>6. \A h : h = Rec(h) => \A i \in 0..Len(ids) : (i = 0 => h[i] = 0) /\ (i # 0 => h[i] = Add(i, h[i - 1]))
  OBVIOUS
<1> DEFINE sum == CHOOSE h : h = Rec(h)
<1>7. sum = Rec(sum)
  BY <1>5
<1>8. TokensOf(ids, at) = sum[Len(ids)]
  BY DEF TokensOf
<1> HIDE DEF sum, Rec, Add
<1>10. sum[0] = 0 /\ \A i \in 1..Len(ids) : sum[i] = Add(i, sum[i - 1])
  BY <1>0, <1>6, <1>7
<1> DEFINE In == {i \in 0..Len(ids) : sum[i] = f[i]}
<1>11. 0 \in In
  <2>1. sum[0] = f[0]
    BY <1>4, <1>10
  <2> QED BY <1>0, <2>1
<1>12. ASSUME NEW i \in 1..Len(ids), i - 1 \in In PROVE i \in In
  BY <1>0, <1>4, <1>10, <1>12
<1>13. Len(ids) \in In
  <2> HIDE DEF In
  <2>1. \A i \in 0..Len(ids) : i \in In
    BY <1>0, <1>11, <1>12, StepByStep
  <2> QED BY <1>0, <2>1
<1>14. TokensOf(ids, at) = f[Len(ids)]
  BY <1>8, <1>13
<1> QED BY <1>4, <1>14 DEF Add

(* Two parts of a list cost what they cost together.                        *)
LEMMA TokensAdd ==
  ASSUME NEW ids \in Seq(CtxMemories), NEW p, NEW q, p \cap q = {}
  PROVE  /\ TokensOf(ids, p) \in Nat /\ TokensOf(ids, q) \in Nat
         /\ TokensOf(ids, p \cup q) = TokensOf(ids, p) + TokensOf(ids, q)
<1> DEFINE n == Len(ids)
<1>0. n \in Nat
  OBVIOUS
<1>1. PICK f \in [0..n -> Nat] :
           /\ f[0] = 0
           /\ \A i \in 1..n : f[i] = f[i - 1] + (IF i \in p THEN CtxTokens[ids[i]] ELSE 0)
           /\ TokensOf(ids, p) = f[n]
  BY TokensAre
<1>2. PICK g \in [0..n -> Nat] :
           /\ g[0] = 0
           /\ \A i \in 1..n : g[i] = g[i - 1] + (IF i \in q THEN CtxTokens[ids[i]] ELSE 0)
           /\ TokensOf(ids, q) = g[n]
  BY TokensAre
<1>3. PICK h \in [0..n -> Nat] :
           /\ h[0] = 0
           /\ \A i \in 1..n : h[i] = h[i - 1] + (IF i \in p \cup q THEN CtxTokens[ids[i]] ELSE 0)
           /\ TokensOf(ids, p \cup q) = h[n]
  BY TokensAre
<1> DEFINE In == {i \in 0..n : h[i] = f[i] + g[i]}
<1>4. 0 \in In
  <2>1. h[0] = f[0] + g[0]
    BY <1>1, <1>2, <1>3
  <2> QED BY <1>0, <2>1
<1>5. ASSUME NEW i \in 1..n, i - 1 \in In PROVE i \in In
  <2>1. h[i - 1] = f[i - 1] + g[i - 1] /\ f[i - 1] \in Nat /\ g[i - 1] \in Nat
    BY <1>0, <1>5
  <2>2. CtxTokens[ids[i]] \in Nat
    BY CtxAssumption
  <2>3. h[i] = f[i] + g[i]
    <3>1. CASE i \in p
      BY <1>1, <1>2, <1>3, <2>1, <2>2, <3>1
    <3>2. CASE i \notin p
      BY <1>1, <1>2, <1>3, <2>1, <2>2, <3>2
    <3> QED BY <3>1, <3>2
  <2> QED BY <2>3
<1>6. n \in In
  <2> HIDE DEF In
  <2>1. \A i \in 0..n : i \in In
    BY <1>0, <1>4, <1>5, StepByStep
  <2> QED BY <1>0, <2>1
<1> QED BY <1>0, <1>1, <1>2, <1>3, <1>6

(* Part of a list costs no more than more of it.                            *)
LEMMA TokensMore ==
  ASSUME NEW ids \in Seq(CtxMemories), NEW p, NEW q, p \subseteq q
  PROVE  TokensOf(ids, p) \in Nat /\ TokensOf(ids, q) \in Nat /\ TokensOf(ids, p) <= TokensOf(ids, q)
<1>1. p \cap (q \ p) = {} /\ p \cup (q \ p) = q
  OBVIOUS
<1>2. /\ TokensOf(ids, p) \in Nat /\ TokensOf(ids, q \ p) \in Nat
      /\ TokensOf(ids, p \cup (q \ p)) = TokensOf(ids, p) + TokensOf(ids, q \ p)
  BY <1>1, TokensAdd
<1>3. TokensOf(ids, q) = TokensOf(ids, p) + TokensOf(ids, q \ p)
  BY <1>1, <1>2
<1> QED BY <1>2, <1>3

Sections == [kept : SUBSET Nat, used : Nat]

PackStep(ids, limit, i, p) ==
  IF p.used + CtxTokens[ids[i]] <= limit
  THEN [kept |-> p.kept \cup {i}, used |-> p.used + CtxTokens[ids[i]]] ELSE p

PacksTo(f, ids, first, limit) ==
  /\ f \in [0..Len(ids) -> Sections] /\ f[0] = [kept |-> {}, used |-> first]
  /\ \A i \in 1..Len(ids) : f[i] = PackStep(ids, limit, i, f[i - 1])
  /\ Pack(ids, first, limit) = f[Len(ids)]

(* Packing, entry by entry.                                                 *)
LEMMA PackIs ==
  ASSUME NEW ids \in Seq(CtxMemories), NEW first \in Nat, NEW limit \in Nat
  PROVE  \E f : PacksTo(f, ids, first, limit)
<1> DEFINE Rec(f) == [i \in 0..Len(ids) |->
                        IF i = 0 THEN [kept |-> {}, used |-> first]
                        ELSE IF f[i - 1].used + CtxTokens[ids[i]] <= limit
                             THEN [kept |-> f[i - 1].kept \cup {i},
                                   used |-> f[i - 1].used + CtxTokens[ids[i]]]
                             ELSE f[i - 1]]
           v0 == [kept |-> {}, used |-> first]
           G == [i \in 1..Len(ids) |-> [v \in Sections |-> PackStep(ids, limit, i, v)]]
<1>0. Len(ids) \in Nat /\ v0 \in Sections
  BY DEF Sections
<1>1. ASSUME NEW i \in 1..Len(ids), NEW v \in Sections PROVE PackStep(ids, limit, i, v) \in Sections
  <2>1. CtxTokens[ids[i]] \in Nat /\ i \in Nat
    BY CtxAssumption
  <2> QED BY <2>1 DEF PackStep, Sections
<1>2. G \in [1..Len(ids) -> [Sections -> Sections]]
  BY <1>1
<1>3. PICK f : IteratesTo(f, Len(ids), Sections, v0, G)
  <2> HIDE DEF G, v0
  <2> QED BY <1>0, <1>2, StepsExist
<1>4. /\ f \in [0..Len(ids) -> Sections] /\ f[0] = v0
      /\ \A i \in 1..Len(ids) : f[i] = PackStep(ids, limit, i, f[i - 1])
  <2>1. f \in [0..Len(ids) -> Sections] /\ f[0] = v0 /\ \A i \in 1..Len(ids) : f[i] = G[i][f[i - 1]]
    BY <1>3 DEF IteratesTo
  <2>2. ASSUME NEW i \in 1..Len(ids) PROVE f[i] = PackStep(ids, limit, i, f[i - 1])
    <3>1. f[i - 1] \in Sections
      BY <1>0, <2>1
    <3>2. G[i][f[i - 1]] = PackStep(ids, limit, i, f[i - 1])
      BY <3>1
    <3> HIDE DEF G
    <3> QED BY <2>1, <3>2
  <2> QED BY <2>1, <2>2
<1>5. f = Rec(f)
  <2>1. ASSUME NEW i \in 0..Len(ids) PROVE f[i] = Rec(f)[i]
    <3>1. CASE i = 0
      BY <1>4, <3>1
    <3>2. CASE i # 0
      <4>1. i \in 1..Len(ids)
        BY <1>0, <3>2
      <4>2. f[i] = PackStep(ids, limit, i, f[i - 1])
        BY <1>4, <4>1
      <4> QED BY <3>2, <4>2 DEF PackStep
    <3> QED BY <3>1, <3>2
  <2>2. f = [i \in 0..Len(ids) |-> f[i]]
    BY <1>4
  <2>3. Rec(f) = [i \in 0..Len(ids) |-> Rec(f)[i]]
    OBVIOUS
  <2> HIDE DEF Rec
  <2> QED BY <2>1, <2>2, <2>3
<1>6. \A h : h = Rec(h) => \A i \in 0..Len(ids) :
               (i = 0 => h[i] = v0) /\ (i # 0 => h[i] = PackStep(ids, limit, i, h[i - 1]))
  BY DEF PackStep
<1> DEFINE after == CHOOSE h : h = Rec(h)
<1>7. after = Rec(after)
  BY <1>5
<1>8. Pack(ids, first, limit) = after[Len(ids)]
  BY DEF Pack
<1> HIDE DEF after, Rec, v0
<1>10. after[0] = v0 /\ \A i \in 1..Len(ids) : after[i] = PackStep(ids, limit, i, after[i - 1])
  BY <1>0, <1>6, <1>7
<1> DEFINE In == {i \in 0..Len(ids) : after[i] = f[i]}
<1>11. 0 \in In
  <2>1. after[0] = f[0]
    BY <1>4, <1>10
  <2> QED BY <1>0, <2>1
<1>12. ASSUME NEW i \in 1..Len(ids), i - 1 \in In PROVE i \in In
  BY <1>0, <1>4, <1>10, <1>12
<1>13. Len(ids) \in In
  <2> HIDE DEF In
  <2>1. \A i \in 0..Len(ids) : i \in In
    BY <1>0, <1>11, <1>12, StepByStep
  <2> QED BY <1>0, <2>1
<1>14. Pack(ids, first, limit) = f[Len(ids)]
  BY <1>8, <1>13
<1> QED BY <1>4, <1>14 DEF v0, PacksTo

(* What is packed is part of the list, is counted at its cost, and fits.    *)
LEMMA PackFits ==
  ASSUME NEW ids \in Seq(CtxMemories), NEW first \in Nat, NEW limit \in Nat, first <= limit
  PROVE  /\ Pack(ids, first, limit).kept \subseteq 1..Len(ids)
         /\ Pack(ids, first, limit).used \in Nat /\ Pack(ids, first, limit).used <= limit
         /\ TokensOf(ids, Pack(ids, first, limit).kept) \in Nat
         /\ Pack(ids, first, limit).used = first + TokensOf(ids, Pack(ids, first, limit).kept)
<1> DEFINE n == Len(ids)
<1>0. n \in Nat
  OBVIOUS
<1>f. PICK f : PacksTo(f, ids, first, limit)
  BY PackIs
<1>1. /\ f \in [0..n -> Sections] /\ f[0] = [kept |-> {}, used |-> first]
      /\ \A i \in 1..n : f[i] = PackStep(ids, limit, i, f[i - 1])
      /\ Pack(ids, first, limit) = f[n]
  BY <1>f DEF PacksTo
<1> DEFINE K == {i \in 1..n : f[i - 1].used + CtxTokens[ids[i]] <= limit}
<1>2. PICK t \in [0..n -> Nat] :
           /\ t[0] = 0
           /\ \A i \in 1..n : t[i] = t[i - 1] + (IF i \in K THEN CtxTokens[ids[i]] ELSE 0)
           /\ TokensOf(ids, K) = t[n]
  <2> HIDE DEF K
  <2>1. \E t \in [0..Len(ids) -> Nat] :
           /\ t[0] = 0
           /\ \A i \in 1..Len(ids) : t[i] = t[i - 1] + (IF i \in K THEN CtxTokens[ids[i]] ELSE 0)
           /\ TokensOf(ids, K) = t[Len(ids)]
    BY TokensAre
  <2> QED BY <2>1
<1> DEFINE In == {i \in 0..n : /\ f[i].kept = {k \in K : k <= i}
                               /\ f[i].used = first + t[i] /\ f[i].used <= limit}
<1>3. 0 \in In
  <2>1. {k \in K : k <= 0} = {}
    OBVIOUS
  <2>2. f[0].kept = {} /\ f[0].used = first
    BY <1>1
  <2>3. f[0].used = first + t[0]
    BY <1>2, <2>2
  <2> QED BY <1>0, <2>1, <2>2, <2>3
<1>4. ASSUME NEW i \in 1..n, i - 1 \in In PROVE i \in In
  <2>1. /\ f[i - 1].kept = {k \in K : k <= i - 1}
        /\ f[i - 1].used = first + t[i - 1] /\ f[i - 1].used <= limit
    BY <1>4
  <2>2. CtxTokens[ids[i]] \in Nat /\ f[i - 1].used \in Nat /\ t[i - 1] \in Nat
    <3>1. f[i - 1] \in Sections /\ t[i - 1] \in Nat
      BY <1>0
    <3>2. CtxTokens[ids[i]] \in Nat
      BY CtxAssumption
    <3> QED BY <3>1, <3>2 DEF Sections
  <2>3. f[i] = PackStep(ids, limit, i, f[i - 1])
    BY <1>1
  <2>4. t[i] = t[i - 1] + (IF i \in K THEN CtxTokens[ids[i]] ELSE 0)
    BY <1>2
  <2>5. CASE i \in K
    <3>1. f[i].kept = f[i - 1].kept \cup {i} /\ f[i].used = f[i - 1].used + CtxTokens[ids[i]]
      BY <2>3, <2>5 DEF PackStep
    <3>2. {k \in K : k <= i} = {k \in K : k <= i - 1} \cup {i}
      BY <1>0, <2>5
    <3>3. f[i].used <= limit
      BY <2>5, <3>1
    <3>4. f[i].used = first + t[i]
      BY <2>1, <2>2, <2>4, <2>5, <3>1
    <3> HIDE DEF K
    <3> QED BY <2>1, <3>1, <3>2, <3>3, <3>4
  <2>6. CASE i \notin K
    <3>1. f[i] = f[i - 1]
      BY <2>3, <2>6 DEF PackStep
    <3>2. {k \in K : k <= i} = {k \in K : k <= i - 1}
      BY <1>0, <2>6
    <3>3. f[i].used = first + t[i]
      BY <2>1, <2>2, <2>4, <2>6, <3>1
    <3> HIDE DEF K
    <3> QED BY <2>1, <3>1, <3>2, <3>3
  <2> QED BY <2>5, <2>6
<1>5. n \in In
  <2> HIDE DEF In
  <2>1. \A i \in 0..n : i \in In
    BY <1>0, <1>3, <1>4, StepByStep
  <2> QED BY <1>0, <2>1
<1>6. f[n].kept = K
  <2>1. {k \in K : k <= n} = K
    OBVIOUS
  <2>2. f[n].kept = {k \in K : k <= n}
    BY <1>5
  <2> QED BY <2>1, <2>2
<1>7. f[n].used = first + t[n] /\ f[n].used <= limit /\ t[n] \in Nat
  BY <1>0, <1>5
<1>8. K \subseteq 1..n
  OBVIOUS
<1> HIDE DEF K
<1> QED BY <1>1, <1>2, <1>6, <1>7, <1>8

-----------------------------------------------------------------------------
(* The invariant of a call                                                  *)

CallFields == {"pc", "anchors", "budget", "todo", "found", "contra", "expansion", "sets", "orphans",
               "primary", "expanded", "lineage", "seen"}
CallSteps == {"resolve", "refused", "edges", "conflicts", "orphans", "pack", "lineage", "answered"}

GraphSound ==
  /\ graph \in [life : SUBSET CtxEdges, contra : SUBSET CtxEdges, assoc : SUBSET CtxEdges,
                live : SUBSET CtxMemories, visible : SUBSET CtxMemories,
                community : [CtxMemories -> Nat]]
  /\ writes \in Nat

CallTyped ==
  /\ DOMAIN call = CallFields /\ call.pc \in CallSteps
  /\ call.anchors \in Seq(CtxMemories) /\ call.budget \in Nat
  /\ call.expansion \in Seq(CtxMemories) /\ call.contra \in SUBSET CtxEdges

(* What has been read was visible when the call began.                      *)
ReadWasSeen ==
  /\ call.seen \in SUBSET CtxMemories /\ graph.visible \subseteq call.seen
  /\ call.todo \subseteq Anchors
  /\ call.pc \notin {"resolve", "refused"} => Anchors \subseteq call.seen
  /\ DOMAIN call.found \subseteq call.seen \ Anchors
  /\ \A m \in DOMAIN call.found : call.found[m] \in SUBSET CtxMemories
  /\ EndsOf(call.contra) \subseteq call.seen
  /\ ToSet(call.expansion) \subseteq call.seen \ Anchors
  /\ ConflictMembers \subseteq call.seen

OrphansApart ==
  /\ call.orphans \subseteq call.seen \ ExcludedForOrphans
  /\ call.pc \in {"resolve", "refused", "edges", "conflicts", "orphans"} => call.orphans = {}

BudgetPacked ==
  call.pc \in {"lineage", "answered"} =>
    /\ call.primary = Pack(call.anchors, 0, call.budget)
    /\ call.expanded = Pack(call.expansion, call.primary.used, call.budget)

(* The history was read in the graph of the answer.                         *)
Heads == {h \in (Anchors \cup ToSet(call.expansion)) \cap graph.visible :
            h \in Surfaced /\ HistoryOf(graph, h, ResolvedMembers(graph, call.contra)) # {}}
LineageRead ==
  call.pc = "answered" =>
    call.lineage = [h \in Heads |-> HistoryOf(graph, h, ResolvedMembers(graph, call.contra))]

CtxInv == GraphSound /\ CallTyped /\ ReadWasSeen /\ OrphansApart /\ BudgetPacked /\ LineageRead

(* A component of edges is made of their ends.                              *)
LEMMA ComponentsAreEnds ==
  ASSUME NEW edges \in SUBSET CtxEdges, NEW s \in Components(edges)
  PROVE  s \in SUBSET CtxMemories /\ s # {} /\ s \subseteq EndsOf(edges) /\ FirstOf(s) \in s
<1>1. EndsOf(edges) \in SUBSET CtxMemories
  BY DEF EndsOf, CtxEdges
<1>2. PICK m \in EndsOf(edges) : s = ComponentOf(edges, m)
  BY DEF Components
<1>3. m \in CtxMemories
  BY <1>1, <1>2
<1>4. ClosedUnder(edges, EndsOf(edges))
  BY DEF ClosedUnder, EndsOf
<1>5. s \in SUBSET CtxMemories /\ s # {} /\ s \subseteq EndsOf(edges)
  BY <1>1, <1>2, <1>3, <1>4, ComponentIsLeast
<1>6. FirstOf(s) \in s
  BY <1>5, FirstIsMember
<1> QED BY <1>5, <1>6

(* A history holds only what the caller may see, and none begins at what it *)
(* may not see.                                                             *)
LEMMA HistoryIsSeen ==
  ASSUME GraphSound, NEW h \in CtxMemories
  PROVE  /\ \A flagged : HistoryOf(graph, h, flagged) \subseteq graph.visible
         /\ h \notin graph.visible => Ancestors(Seen(graph, graph.life), h) \subseteq {h}
<1> DEFINE edges == Seen(graph, graph.life)
<1>1. edges \in SUBSET CtxEdges /\ \A e \in edges : e[1] \in graph.visible /\ e[2] \in graph.visible
  BY DEF GraphSound, Seen
<1>2. LineageDepth \in Nat
  BY CtxAssumption
<1> HIDE DEF edges
<1>3. Ancestors(edges, h) \subseteq graph.visible \cup {h}
  <2> DEFINE S == graph.visible \cup {h}
  <2>1. h \in S /\ \A e \in edges : e[1] \in S => e[2] \in S
    BY <1>1
  <2> HIDE DEF S
  <2>2. Reach(edges, h, LineageDepth) \subseteq S
    BY <1>1, <1>2, <2>1, ReachStays
  <2> QED BY <2>2 DEF S, Ancestors
<1>4. ASSUME h \notin graph.visible PROVE Ancestors(edges, h) \subseteq {h}
  <2> DEFINE S == {h}
  <2>1. h \in S /\ \A e \in edges : e[1] \in S => e[2] \in S
    BY <1>1, <1>4
  <2> HIDE DEF S
  <2>2. Reach(edges, h, LineageDepth) \subseteq S
    BY <1>1, <1>2, <2>1, ReachStays
  <2> QED BY <2>2 DEF S, Ancestors
<1>5. \A flagged : HistoryOf(graph, h, flagged) \subseteq Ancestors(edges, h) \ {h}
  BY DEF HistoryOf, edges
<1> QED BY <1>3, <1>4, <1>5 DEF edges

(* What the answer shows, under the invariant.                              *)
LEMMA InvShowsConflicts == CtxInv => ConflictFullyShown
<1> SUFFICES ASSUME CtxInv PROVE ConflictMembers \subseteq Surfaced
  BY DEF ConflictFullyShown
<1> SUFFICES ASSUME NEW m \in ConflictMembers PROVE m \in Surfaced
  OBVIOUS
<1>1. call.anchors \in Seq(CtxMemories) /\ call.expansion \in Seq(CtxMemories)
  BY DEF CtxInv, CallTyped
<1>2. CASE m \in Anchors
  <2>1. PICK i \in DOMAIN call.anchors : call.anchors[i] = m
    BY <1>2 DEF Anchors, ToSet
  <2>2. i \in FinalPrimary
    BY <2>1 DEF FinalPrimary, Recovered
  <2> QED BY <2>1, <2>2 DEF Surfaced, PrimaryIds
<1>3. CASE m \in ToSet(call.expansion)
  <2>1. PICK i \in DOMAIN call.expansion : call.expansion[i] = m
    BY <1>3 DEF ToSet
  <2>2. i \in FinalExpansion
    BY <2>1 DEF FinalExpansion, Recovered
  <2> QED BY <2>1, <2>2 DEF Surfaced, ExpansionIds
<1>4. CASE m \notin Anchors \cup ToSet(call.expansion)
  BY <1>4 DEF Surfaced, ConflictOnlyIds
<1> QED BY <1>2, <1>3, <1>4

(* A component counts as settled where it is connected and one is live.     *)
LEMMA InvSettles == CtxInv => SettledMeansConnected
<1> SUFFICES ASSUME CtxInv, NEW s \in Components(graph.contra)
             PROVE  LET family  == ComponentOf(graph.life, FirstOf(s))
                        settled == s \subseteq family /\ Cardinality(s \cap graph.live) = 1
                    IN  /\ LifecycleResolved(graph, s) => settled
                        /\ settled /\ Cardinality(family) <= LineageDepth + 1 => LifecycleResolved(graph, s)
  BY DEF SettledMeansConnected
<1>1. graph.life \in SUBSET CtxEdges /\ graph.contra \in SUBSET CtxEdges
  BY DEF CtxInv, GraphSound
<1>2. FirstOf(s) \in CtxMemories
  BY <1>1, ComponentsAreEnds
<1>3. /\ Closure(graph, FirstOf(s)) \subseteq ComponentOf(graph.life, FirstOf(s))
      /\ Cardinality(ComponentOf(graph.life, FirstOf(s))) <= LineageDepth + 1 =>
           Closure(graph, FirstOf(s)) = ComponentOf(graph.life, FirstOf(s))
  BY <1>1, <1>2, ClosureDecides
<1> QED BY <1>3 DEF LifecycleResolved

(* What a shown memory replaced in a settled component is in its lineage.   *)
LEMMA InvRemembers == CtxInv => SettledIsRemembered
<1> SUFFICES ASSUME CtxInv, Answered, NEW h \in Surfaced \cap (Anchors \cup ToSet(call.expansion)),
                    NEW s \in Components(call.contra), LifecycleResolved(graph, s),
                    NEW m \in s \cap (Ancestors(Seen(graph, graph.life), h) \ {h})
             PROVE  h \in DOMAIN call.lineage /\ m \in call.lineage[h]
  BY DEF SettledIsRemembered
<1> DEFINE flagged == ResolvedMembers(graph, call.contra)
<1>1. call.lineage = [x \in Heads |-> HistoryOf(graph, x, flagged)]
  BY DEF CtxInv, LineageRead, Answered
<1>2. h \in CtxMemories
  BY DEF CtxInv, CallTyped, Anchors, ToSet
<1>3. m \in flagged
  BY DEF ResolvedMembers
<1>4. m \in HistoryOf(graph, h, flagged)
  BY <1>3 DEF HistoryOf
<1>5. h \in graph.visible
  BY <1>2, HistoryIsSeen DEF CtxInv
<1>6. h \in Heads
  BY <1>4, <1>5 DEF Heads
<1> HIDE DEF flagged
<1> QED BY <1>1, <1>4, <1>6

(* What the budget kept, when the answer is given.                          *)
LEMMA AnswerIsPacked ==
  ASSUME CtxInv, Answered
  PROVE  /\ call.primary.kept \subseteq DOMAIN call.anchors
         /\ call.expanded.kept \subseteq DOMAIN call.expansion
         /\ call.expanded.used = TokensOf(call.anchors, call.primary.kept)
                                   + TokensOf(call.expansion, call.expanded.kept)
         /\ call.expanded.used <= call.budget
         /\ PrimaryIds \subseteq Anchors /\ ExpansionIds \subseteq ToSet(call.expansion)
<1>1. call.anchors \in Seq(CtxMemories) /\ call.expansion \in Seq(CtxMemories) /\ call.budget \in Nat
  BY DEF CtxInv, CallTyped
<1>2. /\ call.primary = Pack(call.anchors, 0, call.budget)
      /\ call.expanded = Pack(call.expansion, call.primary.used, call.budget)
  BY DEF CtxInv, BudgetPacked, Answered
<1>3. /\ call.primary.kept \subseteq 1..Len(call.anchors)
      /\ call.primary.used \in Nat /\ call.primary.used <= call.budget
      /\ TokensOf(call.anchors, call.primary.kept) \in Nat
      /\ call.primary.used = 0 + TokensOf(call.anchors, call.primary.kept)
  <2> DEFINE p == Pack(call.anchors, 0, call.budget)
  <2>1. 0 \in Nat /\ 0 <= call.budget
    BY <1>1
  <2>2. /\ p.kept \subseteq 1..Len(call.anchors) /\ p.used \in Nat /\ p.used <= call.budget
        /\ TokensOf(call.anchors, p.kept) \in Nat /\ p.used = 0 + TokensOf(call.anchors, p.kept)
    BY <1>1, <2>1, PackFits
  <2> HIDE DEF p
  <2>3. call.primary = p
    BY <1>2 DEF p
  <2> QED BY <2>2, <2>3
<1>4. /\ call.expanded.kept \subseteq 1..Len(call.expansion)
      /\ call.expanded.used <= call.budget
      /\ call.expanded.used = call.primary.used + TokensOf(call.expansion, call.expanded.kept)
  <2> DEFINE q == Pack(call.expansion, call.primary.used, call.budget)
  <2>1. call.primary.used \in Nat /\ call.primary.used <= call.budget
    BY <1>3
  <2>2. /\ q.kept \subseteq 1..Len(call.expansion) /\ q.used <= call.budget
        /\ q.used = call.primary.used + TokensOf(call.expansion, q.kept)
    BY <1>1, <2>1, PackFits
  <2> HIDE DEF q
  <2>3. call.expanded = q
    BY <1>2 DEF q
  <2> QED BY <2>2, <2>3
<1>5. DOMAIN call.anchors = 1..Len(call.anchors) /\ DOMAIN call.expansion = 1..Len(call.expansion)
  BY <1>1
<1>6. FinalPrimary \subseteq DOMAIN call.anchors /\ FinalExpansion \subseteq DOMAIN call.expansion
  BY <1>3, <1>4, <1>5 DEF FinalPrimary, FinalExpansion, Recovered
<1>7. PrimaryIds \subseteq Anchors /\ ExpansionIds \subseteq ToSet(call.expansion)
  BY <1>6 DEF PrimaryIds, ExpansionIds, Anchors, ToSet
<1> QED BY <1>3, <1>4, <1>5, <1>7

(* No memory is in two sections of the answer.                              *)
LEMMA InvIncludesOnce == CtxInv => OneInclusion
<1> SUFFICES ASSUME CtxInv, Answered
             PROVE  LET classes == << PrimaryIds, ExpansionIds, ConflictOnlyIds, call.orphans >>
                    IN  \A i, k \in DOMAIN classes : i < k => classes[i] \cap classes[k] = {}
  BY DEF OneInclusion
<1>1. PrimaryIds \subseteq Anchors /\ ExpansionIds \subseteq ToSet(call.expansion)
  BY AnswerIsPacked
<1>2. ToSet(call.expansion) \cap Anchors = {}
  BY DEF CtxInv, ReadWasSeen
<1>3. ConflictOnlyIds \subseteq ConflictMembers \ (Anchors \cup ToSet(call.expansion))
  BY DEF ConflictOnlyIds
<1>4. call.orphans \cap (Anchors \cup ToSet(call.expansion) \cup ConflictMembers) = {}
  BY DEF CtxInv, OrphansApart, ExcludedForOrphans
<1>5. /\ PrimaryIds \cap ExpansionIds = {} /\ PrimaryIds \cap ConflictOnlyIds = {}
      /\ PrimaryIds \cap call.orphans = {} /\ ExpansionIds \cap ConflictOnlyIds = {}
      /\ ExpansionIds \cap call.orphans = {} /\ ConflictOnlyIds \cap call.orphans = {}
  BY <1>1, <1>2, <1>3, <1>4
<1> DEFINE classes == << PrimaryIds, ExpansionIds, ConflictOnlyIds, call.orphans >>
<1>6. ASSUME NEW i \in 1..4, NEW k \in 1..4, i < k PROVE classes[i] \cap classes[k] = {}
  BY <1>5, <1>6
<1>7. DOMAIN classes = 1..4
  OBVIOUS
<1> QED BY <1>6, <1>7

(* The answer is within its budget, and says what it left out.              *)
LEMMA InvIsHonest == CtxInv => BudgetHonest
<1> SUFFICES ASSUME CtxInv, Answered PROVE BudgetHonest
  BY DEF BudgetHonest
<1> DEFINE anc == call.anchors
           xs == call.expansion
           ka == call.primary.kept
           kx == call.expanded.kept
           ra == Recovered(call.anchors, call.primary)
           rx == Recovered(call.expansion, call.expanded)
           fa == {i \in FinalPrimary : call.anchors[i] \notin ConflictMembers}
           fx == {i \in FinalExpansion : call.expansion[i] \notin ConflictMembers}
           limit == call.budget
           spend == call.expanded.used
<1>1. anc \in Seq(CtxMemories) /\ xs \in Seq(CtxMemories) /\ limit \in Nat
  BY DEF CtxInv, CallTyped
<1>2. spend = TokensOf(anc, ka) + TokensOf(xs, kx) /\ spend <= limit
  BY AnswerIsPacked
<1>3. ka \cap ra = {} /\ kx \cap rx = {} /\ FinalPrimary = ka \cup ra /\ FinalExpansion = kx \cup rx
  BY DEF Recovered, FinalPrimary, FinalExpansion
<1>4. fa \subseteq ka /\ fx \subseteq kx
  BY DEF FinalPrimary, FinalExpansion, Recovered
<1>5. ReportedUsed = spend + TokensOf(anc, ra) + TokensOf(xs, rx)
  BY DEF ReportedUsed
<1>6. BudgetHonest <=> /\ TokensOf(anc, fa) + TokensOf(xs, fx) <= limit
                       /\ ReportedUsed = TokensOf(anc, FinalPrimary) + TokensOf(xs, FinalExpansion)
  BY DEF BudgetHonest
<1> HIDE DEF anc, xs, ka, kx, ra, rx, fa, fx, limit, spend
<1>7. /\ TokensOf(anc, fa) \in Nat /\ TokensOf(anc, ka) \in Nat /\ TokensOf(anc, fa) <= TokensOf(anc, ka)
      /\ TokensOf(xs, fx) \in Nat /\ TokensOf(xs, kx) \in Nat /\ TokensOf(xs, fx) <= TokensOf(xs, kx)
  BY <1>1, <1>4, TokensMore
<1>8. /\ TokensOf(anc, ra) \in Nat /\ TokensOf(anc, ka \cup ra) = TokensOf(anc, ka) + TokensOf(anc, ra)
      /\ TokensOf(xs, rx) \in Nat /\ TokensOf(xs, kx \cup rx) = TokensOf(xs, kx) + TokensOf(xs, rx)
  BY <1>1, <1>3, TokensAdd
<1>9. TokensOf(anc, fa) + TokensOf(xs, fx) <= limit
  <2>1. ASSUME NEW w \in Nat, NEW x \in Nat, NEW y \in Nat, NEW z \in Nat, NEW l \in Nat,
               w <= x, y <= z, x + z <= l
        PROVE  w + y <= l
    BY <2>1
  <2>2. TokensOf(anc, ka) + TokensOf(xs, kx) <= limit
    BY <1>2
  <2> QED BY <1>1, <1>7, <2>1, <2>2
<1>10. ReportedUsed = TokensOf(anc, FinalPrimary) + TokensOf(xs, FinalExpansion)
  <2>1. ASSUME NEW w \in Nat, NEW x \in Nat, NEW y \in Nat, NEW z \in Nat
        PROVE  ((w + x) + y) + z = (w + y) + (x + z)
    OBVIOUS
  <2>2. ReportedUsed = ((TokensOf(anc, ka) + TokensOf(xs, kx)) + TokensOf(anc, ra)) + TokensOf(xs, rx)
    BY <1>2, <1>5
  <2>3. ReportedUsed = (TokensOf(anc, ka) + TokensOf(anc, ra)) + (TokensOf(xs, kx) + TokensOf(xs, rx))
    BY <1>7, <1>8, <2>1, <2>2
  <2> QED BY <1>3, <1>8, <2>3
<1> QED BY <1>6, <1>9, <1>10

(* Nothing hidden from the caller is in the answer.                         *)
LEMMA InvHidesTheRest == CtxInv => OnlyVisibleSurfaces
<1> SUFFICES ASSUME CtxInv, Answered
             PROVE  Surfaced \cup UNION {call.lineage[h] : h \in DOMAIN call.lineage} \subseteq call.seen
  BY DEF OnlyVisibleSurfaces
<1>1. PrimaryIds \subseteq Anchors /\ ExpansionIds \subseteq ToSet(call.expansion)
  BY AnswerIsPacked
<1>2. /\ Anchors \subseteq call.seen /\ ToSet(call.expansion) \subseteq call.seen
      /\ ConflictMembers \subseteq call.seen /\ graph.visible \subseteq call.seen
  BY DEF CtxInv, ReadWasSeen, Answered
<1>3. call.orphans \subseteq call.seen
  BY DEF CtxInv, OrphansApart
<1>4. Surfaced \subseteq call.seen
  BY <1>1, <1>2, <1>3 DEF Surfaced, ConflictOnlyIds
<1>5. call.lineage = [x \in Heads |-> HistoryOf(graph, x, ResolvedMembers(graph, call.contra))]
  BY DEF CtxInv, LineageRead, Answered
<1>6. ASSUME NEW h \in DOMAIN call.lineage PROVE call.lineage[h] \subseteq call.seen
  <2>1. h \in graph.visible
    BY <1>5 DEF Heads
  <2>2. h \in CtxMemories
    BY <2>1 DEF CtxInv, GraphSound
  <2>3. HistoryOf(graph, h, ResolvedMembers(graph, call.contra)) \subseteq graph.visible
    BY <2>2, HistoryIsSeen DEF CtxInv
  <2>4. call.lineage[h] = HistoryOf(graph, h, ResolvedMembers(graph, call.contra))
    BY <1>5
  <2> QED BY <1>2, <2>3, <2>4
<1> QED BY <1>4, <1>6

-----------------------------------------------------------------------------
(* The steps of a call                                                      *)

(* A call starts with nothing read.                                         *)
LEMMA CtxInitInv == CtxInit => CtxInv
<1> SUFFICES ASSUME CtxInit PROVE CtxInv
  OBVIOUS
<1>1. graph \in CtxGraphs /\ writes = 0
  BY DEF CtxInit
<1>2. GraphSound
  BY <1>1, CtxAssumption DEF GraphSound
<1>3. PICK r \in CtxRequests : call = [NewCall(r) EXCEPT !.seen = graph.visible]
  BY DEF CtxInit
<1>4. r.anchors \in Seq(CtxMemories) /\ r.budget \in Nat
  BY CtxAssumption
<1>5. /\ DOMAIN call = CallFields /\ call.pc = "resolve" /\ call.anchors = r.anchors
      /\ call.budget = r.budget /\ call.todo = ToSet(r.anchors) /\ call.found = [m \in {} |-> {}]
      /\ call.contra = {} /\ call.expansion = <<>> /\ call.sets = {} /\ call.orphans = {}
      /\ call.seen = graph.visible
  BY <1>3 DEF NewCall, CallFields
<1>6. CallTyped
  BY <1>4, <1>5 DEF CallTyped, CallSteps
<1>7. ReadWasSeen
  <2>1. ToSet(<<>>) = {}
    BY DEF ToSet
  <2>2. DOMAIN call.found = {} /\ EndsOf({}) = {} /\ UNION call.sets = {}
    BY <1>5 DEF EndsOf
  <2>3. graph.visible \in SUBSET CtxMemories
    BY <1>2 DEF GraphSound
  <2> QED BY <1>5, <2>1, <2>2, <2>3 DEF ReadWasSeen, Anchors, ConflictMembers
<1>8. OrphansApart /\ BudgetPacked /\ LineageRead
  BY <1>5 DEF OrphansApart, BudgetPacked, LineageRead
<1> QED BY <1>2, <1>6, <1>7, <1>8 DEF CtxInv

(* The ranked neighbours are neighbours.                                    *)
LEMMA RankedWereFound ==
  ASSUME NEW found, DOMAIN found \in SUBSET CtxMemories,
         \A m \in DOMAIN found : found[m] \in SUBSET CtxMemories,
         call.anchors \in Seq(CtxMemories)
  PROVE  RankExpansion(found) \in Seq(DOMAIN found)
<1> DEFINE S == DOMAIN found
           Prior(x, y) == \/ Cardinality(found[x]) > Cardinality(found[y])
                          \/ Cardinality(found[x]) = Cardinality(found[y]) /\ CtxPlace[x] < CtxPlace[y]
           P == [m \in S |-> {k \in S : Prior(k, m)}]
           cap == ExpansionTopK * Len(call.anchors)
           n == Min({cap, Cardinality(S)})
<1>1. IsFiniteSet(S)
  BY CtxAssumption, FS_Subset
<1>2. ASSUME NEW m \in S PROVE Cardinality(found[m]) \in Nat /\ CtxPlace[m] \in Nat
  <2>1. IsFiniteSet(found[m])
    BY CtxAssumption, FS_Subset
  <2> QED BY <2>1, FS_CardinalityType, CtxAssumption
<1>3. \A x, y \in S : CtxPlace[x] = CtxPlace[y] => x = y
  BY CtxAssumption
<1>4. StrictOrder(S, P)
  <2>1. \A x, y, z \in S : Prior(x, y) /\ Prior(y, z) => Prior(x, z)
    BY <1>2
  <2>2. \A x \in S : ~Prior(x, x)
    BY <1>2
  <2>3. \A x, y \in S : x # y => Prior(x, y) \/ Prior(y, x)
    BY <1>2, <1>3
  <2> HIDE DEF Prior
  <2> QED BY <2>1, <2>2, <2>3 DEF StrictOrder
<1>5. n \in Nat /\ n <= Cardinality(S)
  <2>1. Cardinality(S) \in Nat
    BY <1>1, FS_CardinalityType
  <2>2. cap \in Nat
    BY CtxAssumption
  <2> HIDE DEF cap, S
  <2>3. \E x \in {cap, Cardinality(S)} : \A y \in {cap, Cardinality(S)} : x <= y
    BY <2>1, <2>2
  <2>4. n \in {cap, Cardinality(S)} /\ \A y \in {cap, Cardinality(S)} : n <= y
    BY <2>3 DEF Min
  <2> QED BY <2>1, <2>2, <2>4
<1>6. ASSUME NEW i \in 1..n PROVE \E m \in S : Cardinality({k \in S : Prior(k, m)}) = i - 1
  <2>1. i \in 1..Cardinality(S)
    <3>1. Cardinality(S) \in Nat
      BY <1>1, FS_CardinalityType
    <3> HIDE DEF n, S
    <3> QED BY <1>5, <3>1
  <2>2. PICK m \in S : Cardinality(P[m]) = i - 1
    <3> HIDE DEF P, S, n
    <3> QED BY <1>1, <1>4, <2>1, EveryPlaceTaken
  <2> QED BY <2>2
<1>7. RankExpansion(found) = [i \in 1..n |-> CHOOSE m \in S : Cardinality({k \in S : Prior(k, m)}) = i - 1]
  BY DEF RankExpansion
<1>8. RankExpansion(found) \in [1..n -> S]
  <2> HIDE DEF n, S, Prior
  <2> QED BY <1>6, <1>7
<1> HIDE DEF n, S
<1> QED BY <1>5, <1>8 DEF S

(* An anchor's neighbours are visible and no anchors.                       *)
LEMMA CollectKeeps ==
  ASSUME CtxInv, NEW h \in CtxMemories, CollectEdges(h)
  PROVE  CtxInv'
<1> DEFINE mine  == {e \in Dependencies(graph, graph.assoc, h) : ~ {e[1], e[2]} \subseteq Anchors}
           ids   == {OtherEnd(e, h) : e \in mine}
           known == DOMAIN call.found
           newFound == [m \in known \cup ids |->
                        (IF m \in known THEN call.found[m] ELSE {}) \cup
                        (IF m \in ids THEN {h} ELSE {})]
           newContra == call.contra \cup Dependencies(graph, graph.contra, h)
           newPc == IF call.todo = {h} THEN "conflicts" ELSE call.pc
<1>1. /\ graph' = graph /\ writes' = writes /\ call.pc = "edges" /\ h \in call.todo
      /\ call' = [call EXCEPT !.todo = @ \ {h}, !.contra = newContra, !.found = newFound, !.pc = newPc]
  BY DEF CollectEdges
<1>2. DOMAIN call = CallFields
  BY DEF CtxInv, CallTyped
<1> HIDE DEF newContra, newFound, newPc
<1>3. /\ DOMAIN call' = CallFields /\ call'.pc = newPc /\ call'.anchors = call.anchors
      /\ call'.budget = call.budget /\ call'.todo = call.todo \ {h} /\ call'.found = newFound
      /\ call'.contra = newContra /\ call'.expansion = call.expansion /\ call'.sets = call.sets
      /\ call'.orphans = call.orphans /\ call'.seen = call.seen
  BY <1>1, <1>2 DEF CallFields
<1>4. newPc \in {"edges", "conflicts"}
  BY <1>1 DEF newPc
<1>5. /\ graph.assoc \in SUBSET CtxEdges /\ graph.contra \in SUBSET CtxEdges
      /\ graph.visible \in SUBSET CtxMemories
  BY DEF CtxInv, GraphSound
<1>6. /\ h \in Anchors /\ Anchors \subseteq call.seen /\ graph.visible \subseteq call.seen
      /\ call.seen \in SUBSET CtxMemories
  BY <1>1 DEF CtxInv, ReadWasSeen
<1>7. ids \subseteq call.seen \ Anchors
  BY <1>5, <1>6 DEF Dependencies, Seen, OtherEnd
<1>8. DOMAIN newFound = known \cup ids /\ \A m \in known \cup ids : newFound[m] \subseteq CtxMemories
  <2>1. \A m \in known : call.found[m] \in SUBSET CtxMemories
    BY DEF CtxInv, ReadWasSeen
  <2> QED BY <1>6, <2>1 DEF newFound
<1>9. newContra \in SUBSET CtxEdges /\ EndsOf(newContra) \subseteq call.seen
  <2>1. call.contra \in SUBSET CtxEdges /\ EndsOf(call.contra) \subseteq call.seen
    BY DEF CtxInv, CallTyped, ReadWasSeen
  <2>2. /\ Dependencies(graph, graph.contra, h) \in SUBSET CtxEdges
        /\ EndsOf(Dependencies(graph, graph.contra, h)) \subseteq graph.visible
    BY <1>5 DEF Dependencies, Seen, EndsOf
  <2>3. EndsOf(newContra) = EndsOf(call.contra) \cup EndsOf(Dependencies(graph, graph.contra, h))
    BY DEF EndsOf, newContra
  <2> QED BY <1>6, <2>1, <2>2, <2>3 DEF newContra
<1>10. GraphSound'
  BY <1>1 DEF CtxInv, GraphSound
<1>11. CallTyped'
  BY <1>3, <1>4, <1>9 DEF CtxInv, CallTyped, CallSteps
<1>12. ReadWasSeen'
  <2>1. known \subseteq call.seen \ Anchors /\ call.todo \subseteq Anchors
    BY DEF CtxInv, ReadWasSeen
  <2>2. /\ ToSet(call.expansion) \subseteq call.seen \ Anchors
        /\ UNION call.sets \subseteq call.seen
    BY DEF CtxInv, ReadWasSeen, ConflictMembers
  <2>3. Anchors' = Anchors
    BY <1>3 DEF Anchors
  <2> HIDE DEF ids, known
  <2> QED BY <1>1, <1>3, <1>4, <1>6, <1>7, <1>8, <1>9, <2>1, <2>2, <2>3 DEF ReadWasSeen, ConflictMembers
<1>13. OrphansApart'
  <2>1. call.orphans = {}
    BY <1>1 DEF CtxInv, OrphansApart
  <2> QED BY <1>3, <2>1 DEF OrphansApart
<1>14. BudgetPacked' /\ LineageRead'
  BY <1>3, <1>4 DEF BudgetPacked, LineageRead
<1> QED BY <1>10, <1>11, <1>12, <1>13, <1>14 DEF CtxInv

(* Assembling conflicts keeps the invariant.                                *)
LEMMA ConflictsKeep ==
  ASSUME CtxInv, AssembleConflicts PROVE CtxInv'
<1> DEFINE expansion  == RankExpansion(call.found)
           unresolved == {s \in Components(call.contra) : ~ LifecycleResolved(graph, s)}
           shown      == Anchors \cup ToSet(expansion)
           admitted   == AdmitComponents(unresolved, shown)
<1>1. /\ graph' = graph /\ writes' = writes /\ call.pc = "conflicts"
      /\ call' = [call EXCEPT !.pc = "orphans", !.expansion = expansion, !.sets = admitted]
  BY DEF AssembleConflicts
<1>2. DOMAIN call = CallFields /\ call.contra \in SUBSET CtxEdges /\ call.anchors \in Seq(CtxMemories)
  BY DEF CtxInv, CallTyped
<1>3. admitted \subseteq Components(call.contra)
  BY DEF AdmitComponents
<1> HIDE DEF expansion, admitted
<1>4. /\ DOMAIN call' = CallFields /\ call'.pc = "orphans" /\ call'.anchors = call.anchors
      /\ call'.budget = call.budget /\ call'.todo = call.todo /\ call'.found = call.found
      /\ call'.contra = call.contra /\ call'.expansion = expansion /\ call'.sets = admitted
      /\ call'.orphans = call.orphans /\ call'.seen = call.seen
  BY <1>1, <1>2 DEF CallFields
<1>5. /\ DOMAIN call.found \subseteq call.seen \ Anchors /\ call.seen \in SUBSET CtxMemories
      /\ \A m \in DOMAIN call.found : call.found[m] \in SUBSET CtxMemories
      /\ EndsOf(call.contra) \subseteq call.seen /\ graph.visible \subseteq call.seen
      /\ call.todo \subseteq Anchors /\ Anchors \subseteq call.seen
  BY <1>1 DEF CtxInv, ReadWasSeen
<1>6. expansion \in Seq(DOMAIN call.found)
  BY <1>2, <1>5, RankedWereFound DEF expansion
<1>7. ToSet(expansion) \subseteq DOMAIN call.found /\ expansion \in Seq(CtxMemories)
  BY <1>5, <1>6 DEF ToSet
<1>8. UNION admitted \subseteq call.seen
  <2>1. \A s \in Components(call.contra) : s \subseteq EndsOf(call.contra)
    BY <1>2, ComponentsAreEnds
  <2> QED BY <1>3, <1>5, <2>1
<1>9. GraphSound'
  BY <1>1 DEF CtxInv, GraphSound
<1>10. CallTyped'
  BY <1>2, <1>4, <1>7 DEF CtxInv, CallTyped, CallSteps
<1>11. ReadWasSeen'
  <2>1. Anchors' = Anchors
    BY <1>4 DEF Anchors
  <2> QED BY <1>1, <1>4, <1>5, <1>7, <1>8, <2>1 DEF ReadWasSeen, ConflictMembers
<1>12. OrphansApart'
  <2>1. call.orphans = {}
    BY <1>1 DEF CtxInv, OrphansApart
  <2> QED BY <1>4, <2>1 DEF OrphansApart
<1>13. BudgetPacked' /\ LineageRead'
  BY <1>4 DEF BudgetPacked, LineageRead
<1> QED BY <1>9, <1>10, <1>11, <1>12, <1>13 DEF CtxInv

(* A step that leaves what was read alone keeps what is said of it.         *)
ReadingKept ==
  /\ graph' = graph /\ writes' = writes /\ DOMAIN call' = CallFields
  /\ call'.anchors = call.anchors /\ call'.budget = call.budget /\ call'.todo = call.todo
  /\ call'.found = call.found /\ call'.contra = call.contra /\ call'.expansion = call.expansion
  /\ call'.sets = call.sets /\ call'.seen = call.seen

(* A step that keeps what was read keeps what follows from it.              *)
LEMMA KeptReading ==
  ASSUME CtxInv, ReadingKept, call'.pc \in CallSteps,
         call'.pc \notin {"resolve", "refused"} => Anchors \subseteq call.seen
  PROVE  GraphSound' /\ CallTyped' /\ ReadWasSeen' /\ ExcludedForOrphans' = ExcludedForOrphans
<1>1. GraphSound' /\ CallTyped'
  BY DEF CtxInv, GraphSound, CallTyped, ReadingKept
<1>2. Anchors' = Anchors /\ ConflictMembers' = ConflictMembers
  BY DEF ReadingKept, Anchors, ConflictMembers
<1>3. ReadWasSeen'
  BY <1>2 DEF CtxInv, ReadWasSeen, ReadingKept
<1>4. ExcludedForOrphans' = ExcludedForOrphans
  BY <1>2 DEF ExcludedForOrphans, ReadingKept
<1> QED BY <1>1, <1>3, <1>4

(* Resolving lineages keeps the invariant.                                  *)
LEMMA ResolveKeeps == ASSUME CtxInv, ResolveAnchors PROVE CtxInv'
<1> DEFINE next == IF Anchors \subseteq graph.visible THEN "edges" ELSE "refused"
<1>1. /\ graph' = graph /\ writes' = writes /\ call.pc = "resolve"
      /\ call' = [call EXCEPT !.pc = next]
  BY DEF ResolveAnchors
<1>2. DOMAIN call = CallFields /\ graph.visible \subseteq call.seen
  BY DEF CtxInv, CallTyped, ReadWasSeen
<1>3. next \in {"edges", "refused"} /\ (next = "edges" => Anchors \subseteq call.seen)
  BY <1>2
<1> HIDE DEF next
<1>4. ReadingKept /\ call'.pc = next /\ call'.orphans = call.orphans
  BY <1>1, <1>2 DEF ReadingKept, CallFields
<1>5. GraphSound' /\ CallTyped' /\ ReadWasSeen' /\ ExcludedForOrphans' = ExcludedForOrphans
  <2>1. call'.pc \in CallSteps /\ (call'.pc \notin {"resolve", "refused"} => Anchors \subseteq call.seen)
    BY <1>3, <1>4 DEF CallSteps
  <2> QED BY <1>4, <2>1, KeptReading
<1>6. OrphansApart'
  <2>1. call.orphans = {}
    BY <1>1 DEF CtxInv, OrphansApart
  <2> QED BY <1>4, <2>1 DEF OrphansApart
<1>7. BudgetPacked' /\ LineageRead'
  BY <1>3, <1>4 DEF BudgetPacked, LineageRead
<1> QED BY <1>5, <1>6, <1>7 DEF CtxInv

(* Adding orphans keeps the invariant.                                      *)
LEMMA OrphansKeep == ASSUME CtxInv, FindOrphans PROVE CtxInv'
<1>1. graph' = graph /\ writes' = writes /\ call.pc = "orphans"
  BY DEF FindOrphans
<1>2. PICK found \in SUBSET graph.visible :
         /\ call' = [call EXCEPT !.pc = "pack", !.orphans = found]
         /\ found \cap ExcludedForOrphans = {}
  <2>1. PICK nearest \in [OrphanAnchors(graph) -> {graph.community[m] : m \in graph.visible}] :
          LET all    == UNION {CommunityMembers(graph, nearest[o]) :
                              o \in {o \in DOMAIN nearest : nearest[o] # NoCommunity}}
              others == all \ ExcludedForOrphans
          IN  call' = [call EXCEPT !.pc = "pack",
                !.orphans = {m \in others :
                               Cardinality({k \in others : CtxPlace[k] < CtxPlace[m]}) < OrphanCap}]
    BY DEF FindOrphans
  <2> DEFINE all    == UNION {CommunityMembers(graph, nearest[o]) :
                              o \in {o \in DOMAIN nearest : nearest[o] # NoCommunity}}
             others == all \ ExcludedForOrphans
             borrowed == {m \in others :
                            Cardinality({k \in others : CtxPlace[k] < CtxPlace[m]}) < OrphanCap}
  <2>2. call' = [call EXCEPT !.pc = "pack", !.orphans = borrowed]
    BY <2>1
  <2>3. all \subseteq graph.visible
    BY DEF CommunityMembers
  <2>4. borrowed \subseteq graph.visible /\ borrowed \cap ExcludedForOrphans = {}
    BY <2>3
  <2> HIDE DEF borrowed
  <2> QED BY <2>2, <2>4
<1>3. DOMAIN call = CallFields
  BY DEF CtxInv, CallTyped
<1>4. ReadingKept /\ call'.pc = "pack" /\ call'.orphans = found
  BY <1>1, <1>2, <1>3 DEF ReadingKept, CallFields
<1>5. GraphSound' /\ CallTyped' /\ ReadWasSeen' /\ ExcludedForOrphans' = ExcludedForOrphans
  <2>1. call'.pc \in CallSteps /\ Anchors \subseteq call.seen
    BY <1>1, <1>4 DEF CallSteps, CtxInv, ReadWasSeen
  <2> QED BY <1>4, <2>1, KeptReading
<1>6. OrphansApart'
  <2>1. graph.visible \subseteq call.seen
    BY DEF CtxInv, ReadWasSeen
  <2> QED BY <1>2, <1>4, <1>5, <2>1 DEF OrphansApart, ReadingKept
<1>7. BudgetPacked' /\ LineageRead'
  BY <1>4 DEF BudgetPacked, LineageRead
<1> QED BY <1>5, <1>6, <1>7 DEF CtxInv

(* Packing keeps the invariant.                                             *)
LEMMA PackKeeps == ASSUME CtxInv, PackBudget PROVE CtxInv'
<1> DEFINE one == Pack(call.anchors, 0, call.budget)
           two == Pack(call.expansion, one.used, call.budget)
<1>1. /\ graph' = graph /\ writes' = writes /\ call.pc = "pack"
      /\ call' = [call EXCEPT !.pc = "lineage", !.primary = one, !.expanded = two]
  BY DEF PackBudget, PackSections
<1>2. DOMAIN call = CallFields
  BY DEF CtxInv, CallTyped
<1> HIDE DEF one, two
<1>3. /\ ReadingKept /\ call'.pc = "lineage" /\ call'.orphans = call.orphans
      /\ call'.primary = one /\ call'.expanded = two
  BY <1>1, <1>2 DEF ReadingKept, CallFields
<1>4. GraphSound' /\ CallTyped' /\ ReadWasSeen' /\ ExcludedForOrphans' = ExcludedForOrphans
  <2>1. call'.pc \in CallSteps /\ Anchors \subseteq call.seen
    BY <1>1, <1>3 DEF CallSteps, CtxInv, ReadWasSeen
  <2> QED BY <1>3, <2>1, KeptReading
<1>5. OrphansApart'
  BY <1>3, <1>4 DEF CtxInv, OrphansApart, ReadingKept
<1>6. BudgetPacked' /\ LineageRead'
  BY <1>3 DEF BudgetPacked, LineageRead, ReadingKept, one, two
<1> QED BY <1>4, <1>5, <1>6 DEF CtxInv

(* Reading a lineage keeps the invariant.                                   *)
LEMMA LineageKeeps == ASSUME CtxInv, AssembleLineage PROVE CtxInv'
<1> DEFINE history == [h \in Heads |-> HistoryOf(graph, h, ResolvedMembers(graph, call.contra))]
<1>1. /\ graph' = graph /\ writes' = writes /\ call.pc = "lineage"
      /\ call' = [call EXCEPT !.pc = "answered", !.lineage = history]
  BY DEF AssembleLineage, Heads
<1>2. DOMAIN call = CallFields
  BY DEF CtxInv, CallTyped
<1> HIDE DEF history
<1>3. /\ ReadingKept /\ call'.pc = "answered" /\ call'.orphans = call.orphans
      /\ call'.primary = call.primary /\ call'.expanded = call.expanded /\ call'.lineage = history
  BY <1>1, <1>2 DEF ReadingKept, CallFields
<1>4. GraphSound' /\ CallTyped' /\ ReadWasSeen' /\ ExcludedForOrphans' = ExcludedForOrphans
  <2>1. call'.pc \in CallSteps /\ Anchors \subseteq call.seen
    BY <1>1, <1>3 DEF CallSteps, CtxInv, ReadWasSeen
  <2> QED BY <1>3, <2>1, KeptReading
<1>5. OrphansApart'
  BY <1>3, <1>4 DEF CtxInv, OrphansApart, ReadingKept
<1>6. BudgetPacked'
  BY <1>1, <1>3 DEF CtxInv, BudgetPacked, ReadingKept
<1>7. LineageRead'
  <2>1. Anchors' = Anchors /\ ConflictMembers' = ConflictMembers
    BY <1>3 DEF ReadingKept, Anchors, ConflictMembers
  <2>2. FinalPrimary' = FinalPrimary /\ FinalExpansion' = FinalExpansion
    BY <1>3, <2>1 DEF ReadingKept, FinalPrimary, FinalExpansion, Recovered
  <2>3. PrimaryIds' = PrimaryIds /\ ExpansionIds' = ExpansionIds
    BY <1>3, <2>2 DEF ReadingKept, PrimaryIds, ExpansionIds
  <2>4. Surfaced' = Surfaced
    BY <1>3, <2>1, <2>3 DEF ReadingKept, Surfaced, ConflictOnlyIds
  <2>5. Heads' = Heads
    BY <1>3, <2>1, <2>4 DEF ReadingKept, Heads
  <2> QED BY <1>3, <2>5 DEF LineageRead, ReadingKept, history
<1> QED BY <1>4, <1>5, <1>6, <1>7 DEF CtxInv

(* Other sessions change the graph, and never make visible what was not.    *)
LEMMA OthersKeep ==
  ASSUME CtxInv, GraphSound', call' = call, call.pc # "answered", graph'.visible \subseteq graph.visible
  PROVE  CtxInv'
<1>1. CallTyped'
  BY DEF CtxInv, CallTyped
<1>2. Anchors' = Anchors /\ ConflictMembers' = ConflictMembers
  BY DEF Anchors, ConflictMembers
<1>3. ReadWasSeen'
  BY <1>2 DEF CtxInv, ReadWasSeen
<1>4. OrphansApart'
  BY <1>2 DEF CtxInv, OrphansApart, ExcludedForOrphans
<1>5. BudgetPacked' /\ LineageRead'
  BY DEF CtxInv, BudgetPacked, LineageRead
<1> QED BY <1>1, <1>3, <1>4, <1>5 DEF CtxInv

(* Every step of an assembly keeps the invariant.                           *)
LEMMA CtxStepInv == ASSUME CtxInv, [CtxNext]_ctxVars PROVE CtxInv'
<1>g. /\ graph \in [life : SUBSET CtxEdges, contra : SUBSET CtxEdges, assoc : SUBSET CtxEdges,
                    live : SUBSET CtxMemories, visible : SUBSET CtxMemories,
                    community : [CtxMemories -> Nat]]
      /\ writes \in Nat
  BY DEF CtxInv, GraphSound
<1>1. CASE ResolveAnchors \/ AssembleConflicts \/ FindOrphans \/ PackBudget \/ AssembleLineage
  BY <1>1, ResolveKeeps, ConflictsKeep, OrphansKeep, PackKeeps, LineageKeeps
<1>2. ASSUME NEW m \in CtxMemories, CollectEdges(m) PROVE CtxInv'
  BY <1>2, CollectKeeps
<1>3. ASSUME NEW m \in CtxMemories, CtxArchive(m) \/ CtxHide(m) PROVE CtxInv'
  <2>1. call' = call /\ call.pc # "answered" /\ writes' \in Nat
    BY <1>3, <1>g DEF CtxArchive, CtxHide, Meanwhile
  <2>2. GraphSound' /\ graph'.visible \subseteq graph.visible
    BY <1>3, <1>g, <2>1 DEF CtxArchive, CtxHide, GraphSound
  <2> QED BY <2>1, <2>2, OthersKeep
<1>4. ASSUME NEW m \in CtxMemories, CtxRecluster(m) PROVE CtxInv'
  <2>1. call' = call /\ call.pc # "answered" /\ writes' \in Nat
    BY <1>4, <1>g DEF CtxRecluster, Meanwhile
  <2>2. GraphSound' /\ graph'.visible \subseteq graph.visible
    BY <1>4, <1>g, <2>1 DEF CtxRecluster, GraphSound
  <2> QED BY <2>1, <2>2, OthersKeep
<1>5. ASSUME NEW m \in CtxMemories, NEW n \in CtxMemories, CtxSupersede(m, n) \/ CtxWithdraw(<<m, n>>)
      PROVE  CtxInv'
  <2>1. call' = call /\ call.pc # "answered" /\ writes' \in Nat
    BY <1>5, <1>g DEF CtxSupersede, CtxWithdraw, Meanwhile
  <2>2. <<m, n>> \in CtxEdges
    BY DEF CtxEdges
  <2>3. GraphSound' /\ graph'.visible \subseteq graph.visible
    <3>1. CASE CtxSupersede(m, n)
      <4>1. graph' = [graph EXCEPT !.life = @ \cup {<<m, n>>}, !.live = @ \ {n}]
        BY <3>1 DEF CtxSupersede
      <4>2. graph.life \cup {<<m, n>>} \in SUBSET CtxEdges /\ graph.live \ {n} \in SUBSET CtxMemories
        BY <1>g, <2>2
      <4> QED BY <1>g, <2>1, <4>1, <4>2 DEF GraphSound
    <3>2. CASE CtxWithdraw(<<m, n>>)
      <4>1. graph' = [graph EXCEPT !.contra = @ \ {<<m, n>>}, !.assoc = @ \ {<<m, n>>}]
        BY <3>2 DEF CtxWithdraw
      <4>2. graph.contra \ {<<m, n>>} \in SUBSET CtxEdges /\ graph.assoc \ {<<m, n>>} \in SUBSET CtxEdges
        BY <1>g
      <4> QED BY <1>g, <2>1, <4>1, <4>2 DEF GraphSound
    <3> QED BY <1>5, <3>1, <3>2
  <2> QED BY <2>1, <2>3, OthersKeep
<1>6. CASE UNCHANGED ctxVars
  <2>1. graph' = graph /\ call' = call /\ writes' = writes
    BY <1>6 DEF ctxVars
  <2>2. Anchors' = Anchors /\ ConflictMembers' = ConflictMembers
    BY <2>1 DEF Anchors, ConflictMembers
  <2>3. GraphSound' /\ CallTyped' /\ ReadWasSeen' /\ OrphansApart' /\ BudgetPacked'
    BY <2>1, <2>2 DEF CtxInv, GraphSound, CallTyped, ReadWasSeen, OrphansApart, ExcludedForOrphans,
                      BudgetPacked
  <2>4. Surfaced' = Surfaced
    BY <2>1 DEF Surfaced, PrimaryIds, ExpansionIds, ConflictOnlyIds, FinalPrimary, FinalExpansion,
                Recovered, ConflictMembers, Anchors
  <2>5. Heads' = Heads
    BY <2>1, <2>2, <2>4 DEF Heads
  <2>6. LineageRead'
    BY <2>1, <2>5 DEF CtxInv, LineageRead
  <2> QED BY <2>3, <2>6 DEF CtxInv
<1> QED BY <1>1, <1>2, <1>3, <1>4, <1>5, <1>6 DEF CtxNext

(***************************************************************************)
(* For any memories, costs, graphs, requests, caps and writes of other     *)
(* sessions between the reads: an assembled context includes each memory   *)
(* once, spends what it reports and, contradictions aside, no more than    *)
(* the budget, and shows nothing its caller could not see when it asked.   *)
(***************************************************************************)
THEOREM ContextStaysPacked == CtxSpec => []ContextPacked
<1>1. CtxInit => CtxInv
  BY CtxInitInv
<1>2. CtxInv /\ [CtxNext]_ctxVars => CtxInv'
  BY CtxStepInv
<1>3. CtxInv => ContextPacked
  BY InvIncludesOnce, InvIsHonest, InvHidesTheRest DEF ContextPacked
<1> QED BY <1>1, <1>2, <1>3, PTL DEF CtxSpec

(***************************************************************************)
(* Likewise: a conflict set that is reported is shown whole, the bounded   *)
(* search calls it settled only when its members are connected and one is  *)
(* left, misses none whose lineage has no more members than the search has *)
(* rounds, and a settled one is still in the history it belongs to.        *)
(***************************************************************************)
THEOREM ConflictsStayTold == CtxSpec => []ConflictsTold
<1>1. CtxInit => CtxInv
  BY CtxInitInv
<1>2. CtxInv /\ [CtxNext]_ctxVars => CtxInv'
  BY CtxStepInv
<1>3. CtxInv => ConflictsTold
  BY InvShowsConflicts, InvSettles, InvRemembers DEF ConflictsTold
<1> QED BY <1>1, <1>2, <1>3, PTL DEF CtxSpec

-----------------------------------------------------------------------------
(* Lists: what filtering, cutting, joining and sorting keep                 *)

(* The entries of a list at some positions: no more, no fewer, and without  *)
(* repeats if those are.                                                    *)
LEMMA EntriesKept ==
  ASSUME NEW X, NEW s \in Seq(X), NEW at \in SUBSET DOMAIN s
  PROVE  /\ Cardinality(at) \in Nat
         /\ EntriesAt(s, at) \in Seq(X) /\ Len(EntriesAt(s, at)) = Cardinality(at)
         /\ ToSet(EntriesAt(s, at)) = {s[k] : k \in at}
         /\ (\A j, k \in at : s[j] = s[k] => j = k) => IsInjective(EntriesAt(s, at))
<1> DEFINE n == Cardinality(at)
           P == [k \in at |-> {j \in at : j < k}]
           Pos(i) == CHOOSE k \in at : Cardinality({j \in at : j < k}) = i - 1
           e == EntriesAt(s, at)
<1>1. DOMAIN s = 1..Len(s) /\ Len(s) \in Nat /\ \A k \in DOMAIN s : k \in Nat /\ s[k] \in X
  OBVIOUS
<1>2. IsFiniteSet(at)
  <2>1. IsFiniteSet(1..Len(s))
    BY <1>1, FS_Interval
  <2> QED BY <1>1, <2>1, FS_Subset
<1>3. n \in Nat
  BY <1>2, FS_CardinalityType
<1>4. StrictOrder(at, P)
  BY <1>1 DEF StrictOrder
<1>5. ASSUME NEW i \in 1..n PROVE Pos(i) \in at /\ Cardinality({j \in at : j < Pos(i)}) = i - 1
  <2>1. PICK z \in at : Cardinality(P[z]) = i - 1
    <3> HIDE DEF P
    <3> QED BY <1>2, <1>4, EveryPlaceTaken
  <2>2. \E k \in at : Cardinality({j \in at : j < k}) = i - 1
    BY <2>1
  <2> QED BY <2>2, Zenon
<1>6. e = [i \in 1..n |-> s[Pos(i)]]
  BY DEF EntriesAt
<1> HIDE DEF e, Pos
<1>7. e \in [1..n -> X]
  BY <1>1, <1>5, <1>6
<1>8. e \in Seq(X)
  BY <1>3, <1>7
<1>9. DOMAIN e = 1..n /\ Len(e) = n
  <2>1. Len(e) \in Nat /\ DOMAIN e = 1..Len(e)
    BY <1>8, LenProperties
  <2>2. 1..Len(e) = 1..n
    BY <1>7, <2>1
  <2> QED BY <1>3, <1>7, <2>1, <2>2
<1>10. ASSUME NEW k \in at PROVE \E i \in 1..n : Pos(i) = k
  <2> DEFINE i == Cardinality(P[k]) + 1
  <2>1. P[k] \in SUBSET at /\ P[k] # at
    BY <1>1
  <2>2. IsFiniteSet(P[k]) /\ Cardinality(P[k]) <= n /\ Cardinality(P[k]) # n
    BY <1>2, <2>1, FS_Subset
  <2>3. Cardinality(P[k]) \in Nat
    BY <2>2, FS_CardinalityType
  <2>4. i \in 1..n /\ i - 1 = Cardinality(P[k])
    BY <1>3, <2>2, <2>3
  <2>5. Pos(i) \in at /\ Cardinality(P[Pos(i)]) = Cardinality(P[k])
    <3>1. Pos(i) \in at /\ Cardinality({j \in at : j < Pos(i)}) = i - 1
      BY <1>5, <2>4
    <3>2. P[Pos(i)] = {j \in at : j < Pos(i)}
      BY <3>1
    <3> QED BY <2>4, <3>1, <3>2
  <2> HIDE DEF P, i
  <2>6. ASSUME Pos(i) # k PROVE FALSE
    <3>1. Pos(i) \in P[k] \/ k \in P[Pos(i)]
      BY <1>4, <2>5, <2>6 DEF StrictOrder
    <3>2. Cardinality(P[Pos(i)]) < Cardinality(P[k]) \/ Cardinality(P[k]) < Cardinality(P[Pos(i)])
      BY <1>2, <1>4, <2>5, <3>1, FewerBefore
    <3> QED BY <2>3, <2>5, <3>2
  <2> QED BY <2>4, <2>6
<1>11. ToSet(e) = {s[k] : k \in at}
  <2>1. ASSUME NEW x \in ToSet(e) PROVE x \in {s[k] : k \in at}
    <3>1. PICK i \in 1..n : x = e[i]
      BY <1>9 DEF ToSet
    <3> QED BY <1>5, <1>6, <3>1
  <2>2. ASSUME NEW k \in at PROVE s[k] \in ToSet(e)
    <3>1. PICK i \in 1..n : Pos(i) = k
      BY <1>10
    <3>2. e[i] = s[k]
      BY <1>6, <3>1
    <3> QED BY <1>9, <3>1, <3>2 DEF ToSet
  <2> QED BY <2>1, <2>2
<1>12. ASSUME \A j, k \in at : s[j] = s[k] => j = k PROVE IsInjective(e)
  <2>1. ASSUME NEW i \in 1..n, NEW k \in 1..n, e[i] = e[k] PROVE i = k
    <3>1. Pos(i) \in at /\ Pos(k) \in at /\ s[Pos(i)] = s[Pos(k)]
      BY <1>5, <1>6, <2>1
    <3>2. Pos(i) = Pos(k)
      BY <1>12, <3>1
    <3>3. i - 1 = k - 1
      BY <1>5, <3>2
    <3> QED BY <1>3, <3>3
  <2> QED BY <1>9, <2>1 DEF IsInjective
<1> QED BY <1>3, <1>8, <1>9, <1>11, <1>12 DEF e

(* The entries that are in a set.                                           *)
LEMMA OnlyKeeps ==
  ASSUME NEW X, NEW s \in Seq(X), NEW S
  PROVE  /\ Only(s, S) \in Seq(X) /\ ToSet(Only(s, S)) = ToSet(s) \cap S
         /\ IsInjective(s) => IsInjective(Only(s, S))
         /\ ToSet(s) \subseteq S => Len(Only(s, S)) = Len(s)
<1> DEFINE at == {k \in DOMAIN s : s[k] \in S}
<1>1. at \in SUBSET DOMAIN s /\ {s[k] : k \in at} = ToSet(s) \cap S
  BY DEF ToSet
<1>2. IsInjective(s) => \A j, k \in at : s[j] = s[k] => j = k
  BY DEF IsInjective
<1>3. Only(s, S) = EntriesAt(s, at)
  BY DEF Only
<1>4. ASSUME ToSet(s) \subseteq S PROVE Cardinality(at) = Len(s)
  <2>1. at = 1..Len(s) /\ Len(s) \in Nat
    BY <1>4 DEF ToSet
  <2>2. Cardinality(1..Len(s)) = IF 1 > Len(s) THEN 0 ELSE Len(s) - 1 + 1
    <3>1. 1 \in Int /\ Len(s) \in Int
      OBVIOUS
    <3> QED BY <3>1, FS_Interval
  <2>3. Cardinality(1..Len(s)) = Len(s)
    BY <2>1, <2>2
  <2> HIDE DEF at
  <2> QED BY <2>1, <2>3
<1> HIDE DEF at
<1>5. /\ EntriesAt(s, at) \in Seq(X) /\ Len(EntriesAt(s, at)) = Cardinality(at)
      /\ ToSet(EntriesAt(s, at)) = {s[k] : k \in at}
      /\ (\A j, k \in at : s[j] = s[k] => j = k) => IsInjective(EntriesAt(s, at))
  BY <1>1, EntriesKept
<1> QED BY <1>1, <1>2, <1>3, <1>4, <1>5

(* The first occurrence of each entry.                                      *)
LEMMA RepeatsRemoved ==
  ASSUME NEW X, NEW s \in Seq(X)
  PROVE  /\ RemoveRepeats(s) \in Seq(X) /\ ToSet(RemoveRepeats(s)) = ToSet(s)
         /\ IsInjective(RemoveRepeats(s))
<1> DEFINE at == {k \in DOMAIN s : \A j \in 1..(k - 1) : s[j] # s[k]}
<1>0. DOMAIN s = 1..Len(s) /\ Len(s) \in Nat
  OBVIOUS
<1>1. at \in SUBSET DOMAIN s
  OBVIOUS
<1>2. \A j, k \in at : s[j] = s[k] => j = k
  BY <1>0
<1>3. ASSUME NEW i \in DOMAIN s PROVE s[i] \in {s[k] : k \in at}
  <2> DEFINE same == {k \in DOMAIN s : s[k] = s[i]}
  <2>1. same \in SUBSET Nat /\ same # {}
    BY <1>0
  <2>2. PICK k \in same : \A j \in same : k <= j
    <3> HIDE DEF same
    <3> QED BY <2>1, LeastNatural
  <2>3. k \in at
    BY <1>0, <2>2
  <2> QED BY <2>2, <2>3
<1>4. {s[k] : k \in at} = ToSet(s)
  BY <1>1, <1>3 DEF ToSet
<1>5. RemoveRepeats(s) = EntriesAt(s, at)
  BY DEF RemoveRepeats
<1> HIDE DEF at
<1>6. /\ EntriesAt(s, at) \in Seq(X) /\ ToSet(EntriesAt(s, at)) = {s[k] : k \in at}
      /\ (\A j, k \in at : s[j] = s[k] => j = k) => IsInjective(EntriesAt(s, at))
  BY <1>1, EntriesKept
<1> QED BY <1>2, <1>4, <1>5, <1>6

(* The first n entries.                                                     *)
LEMMA FirstKeeps ==
  ASSUME NEW X, NEW s \in Seq(X), NEW n \in Nat
  PROVE  /\ First(s, n) \in Seq(X) /\ ToSet(First(s, n)) \subseteq ToSet(s)
         /\ IsInjective(s) => IsInjective(First(s, n))
         /\ Len(First(s, n)) = IF n < Len(s) THEN n ELSE Len(s)
         /\ Len(First(s, n)) < n => First(s, n) = s
         /\ Len(s) <= n => First(s, n) = s
<1> DEFINE m == IF n < Len(s) THEN n ELSE Len(s)
           f == SubSeq(s, 1, m)
<1>1. m \in Nat /\ m \in Int /\ m <= Len(s) /\ Len(s) \in Nat /\ 1 \in Int
  OBVIOUS
<1>2. \A i \in 1..m : s[i] \in X
  BY <1>1
<1>3. f \in Seq(X) /\ Len(f) = m /\ \A i \in 1..m : f[i] = s[i]
  <2> HIDE DEF m
  <2>1. /\ SubSeq(s, 1, m) \in Seq(X) /\ Len(SubSeq(s, 1, m)) = IF 1 <= m THEN m - 1 + 1 ELSE 0
        /\ \A i \in 1..(m - 1 + 1) : SubSeq(s, 1, m)[i] = s[1 + i - 1]
    BY <1>1, <1>2, SubSeqProperties
  <2> QED BY <1>1, <2>1
<1>4. First(s, n) = f
  BY DEF First
<1> HIDE DEF f
<1>5. DOMAIN f = 1..m /\ DOMAIN s = 1..Len(s)
  BY <1>3
<1>6. ToSet(f) \subseteq ToSet(s)
  BY <1>1, <1>3, <1>5 DEF ToSet
<1>7. IsInjective(s) => IsInjective(f)
  BY <1>1, <1>3, <1>5 DEF IsInjective
<1>8. m = Len(s) => f = s
  BY <1>3, <1>5, SeqEqual
<1> QED BY <1>1, <1>3, <1>4, <1>6, <1>7, <1>8

(* Two lists joined.                                                        *)
LEMMA JoinKeeps ==
  ASSUME NEW X, NEW s \in Seq(X), NEW t \in Seq(X)
  PROVE  /\ s \o t \in Seq(X) /\ ToSet(s \o t) = ToSet(s) \cup ToSet(t)
         /\ IsInjective(s) /\ IsInjective(t) /\ ToSet(s) \cap ToSet(t) = {} => IsInjective(s \o t)
<1> DEFINE u == s \o t
<1>1. /\ u \in Seq(X) /\ Len(u) = Len(s) + Len(t) /\ Len(s) \in Nat /\ Len(t) \in Nat
      /\ \A i \in 1..(Len(s) + Len(t)) : u[i] = IF i <= Len(s) THEN s[i] ELSE t[i - Len(s)]
  BY ConcatProperties
<1>2. DOMAIN u = 1..(Len(s) + Len(t)) /\ DOMAIN s = 1..Len(s) /\ DOMAIN t = 1..Len(t)
  BY <1>1
<1> HIDE DEF u
<1>3. ASSUME NEW i \in DOMAIN u
      PROVE  \/ i \in DOMAIN s /\ u[i] = s[i]
             \/ i - Len(s) \in DOMAIN t /\ u[i] = t[i - Len(s)] /\ i \in Int
  BY <1>1, <1>2
<1>4. ASSUME NEW i \in DOMAIN s PROVE i \in DOMAIN u /\ u[i] = s[i]
  BY <1>1, <1>2
<1>5. ASSUME NEW i \in DOMAIN t PROVE Len(s) + i \in DOMAIN u /\ u[Len(s) + i] = t[i]
  BY <1>1, <1>2
<1>6. ToSet(u) = ToSet(s) \cup ToSet(t)
  BY <1>3, <1>4, <1>5 DEF ToSet
<1>7. ASSUME IsInjective(s), IsInjective(t), ToSet(s) \cap ToSet(t) = {} PROVE IsInjective(u)
  <2>1. ASSUME NEW i \in DOMAIN u, NEW k \in DOMAIN u, u[i] = u[k] PROVE i = k
    <3>1. CASE i \in DOMAIN s /\ u[i] = s[i] /\ k \in DOMAIN s /\ u[k] = s[k]
      BY <1>7, <2>1, <3>1 DEF IsInjective
    <3>2. CASE i \in DOMAIN s /\ u[i] = s[i] /\ k - Len(s) \in DOMAIN t /\ u[k] = t[k - Len(s)]
      BY <1>7, <2>1, <3>2 DEF ToSet
    <3>3. CASE i - Len(s) \in DOMAIN t /\ u[i] = t[i - Len(s)] /\ k \in DOMAIN s /\ u[k] = s[k]
      BY <1>7, <2>1, <3>3 DEF ToSet
    <3>4. CASE /\ i - Len(s) \in DOMAIN t /\ u[i] = t[i - Len(s)]
               /\ k - Len(s) \in DOMAIN t /\ u[k] = t[k - Len(s)]
      <4>1. i - Len(s) = k - Len(s)
        BY <1>7, <2>1, <3>4 DEF IsInjective
      <4> QED BY <1>1, <1>2, <4>1
    <3> QED BY <1>3, <3>1, <3>2, <3>3, <3>4
  <2> QED BY <2>1 DEF IsInjective
<1> QED BY <1>1, <1>6, <1>7 DEF u

(* A list reversed.                                                         *)
LEMMA ReverseKeeps ==
  ASSUME NEW X, NEW s \in Seq(X)
  PROVE  /\ Reverse(s) \in Seq(X) /\ ToSet(Reverse(s)) = ToSet(s)
         /\ IsInjective(s) => IsInjective(Reverse(s))
<1> DEFINE r == Reverse(s)
<1>1. DOMAIN s = 1..Len(s) /\ Len(s) \in Nat
  OBVIOUS
<1>2. r = [i \in 1..Len(s) |-> s[(Len(s) - i) + 1]]
  BY DEF Reverse
<1> HIDE DEF r
<1>3. \A i \in 1..Len(s) : (Len(s) - i) + 1 \in 1..Len(s)
  BY <1>1
<1>4. r \in Seq(X) /\ DOMAIN r = 1..Len(s)
  BY <1>1, <1>2, <1>3
<1>5. \A i \in 1..Len(s) : r[i] = s[(Len(s) - i) + 1] /\ s[i] = r[(Len(s) - i) + 1]
  <2>1. \A i \in 1..Len(s) : (Len(s) - ((Len(s) - i) + 1)) + 1 = i
    BY <1>1
  <2> QED BY <1>2, <1>3, <2>1
<1>6. ToSet(r) = ToSet(s)
  BY <1>1, <1>3, <1>4, <1>5 DEF ToSet
<1>7. ASSUME IsInjective(s) PROVE IsInjective(r)
  <2>1. ASSUME NEW i \in 1..Len(s), NEW k \in 1..Len(s), r[i] = r[k] PROVE i = k
    <3>1. (Len(s) - i) + 1 = (Len(s) - k) + 1
      BY <1>1, <1>3, <1>5, <1>7, <2>1 DEF IsInjective
    <3> QED BY <1>1, <3>1
  <2> QED BY <1>4, <2>1 DEF IsInjective
<1> QED BY <1>4, <1>6, <1>7 DEF r

(* A list without repeats is as long as the set of its entries is large.    *)
LEMMA ListSize ==
  ASSUME NEW X, NEW s \in Seq(X)
  PROVE  /\ IsFiniteSet(ToSet(s)) /\ Cardinality(ToSet(s)) \in Nat /\ Cardinality(ToSet(s)) <= Len(s)
         /\ IsInjective(s) => Cardinality(ToSet(s)) = Len(s)
<1>1. DOMAIN s = 1..Len(s) /\ Len(s) \in Nat /\ 1 \in Int /\ Len(s) \in Int
  OBVIOUS
<1>2. IsFiniteSet(1..Len(s)) /\ Cardinality(1..Len(s)) = IF 1 > Len(s) THEN 0 ELSE Len(s) - 1 + 1
  BY <1>1, FS_Interval
<1>3. Cardinality(1..Len(s)) = Len(s)
  BY <1>1, <1>2
<1>4. s \in [1..Len(s) -> ToSet(s)]
  BY <1>1 DEF ToSet
<1>5. s \in Surjection(1..Len(s), ToSet(s))
  BY <1>1, <1>4 DEF Surjection, ToSet
<1>6. /\ IsFiniteSet(ToSet(s)) /\ Cardinality(ToSet(s)) <= Len(s)
      /\ s \in Injection(1..Len(s), ToSet(s)) => Cardinality(ToSet(s)) = Len(s)
  BY <1>2, <1>3, <1>5, FS_Surjection
<1>7. IsInjective(s) => s \in Injection(1..Len(s), ToSet(s))
  BY <1>4 DEF Injection
<1>8. Cardinality(ToSet(s)) \in Nat
  BY <1>6, FS_CardinalityType
<1> QED BY <1>6, <1>7, <1>8

(* Sorting lists every entry once.                                          *)
LEMMA SortKeeps ==
  ASSUME NEW X, NEW ids \in Seq(X), NEW score, \A m \in ToSet(ids) : score[m] \in Int
  PROVE  /\ SortByScore(ids, score) \in Seq(X) /\ ToSet(SortByScore(ids, score)) = ToSet(ids)
         /\ IsInjective(SortByScore(ids, score))
<1> DEFINE S == ToSet(ids)
           n == Cardinality(S)
           At(m) == CHOOSE i \in DOMAIN ids : ids[i] = m
           Prior(a, b) == score[a] > score[b] \/ (score[a] = score[b] /\ At(a) < At(b))
           P == [m \in S |-> {k \in S : Prior(k, m)}]
           Pos(i) == CHOOSE m \in S : Cardinality({k \in S : Prior(k, m)}) = i - 1
           e == SortByScore(ids, score)
<1>1. DOMAIN ids = 1..Len(ids) /\ Len(ids) \in Nat /\ S \subseteq X
  BY DEF ToSet
<1>2. IsFiniteSet(S) /\ n \in Nat
  BY ListSize
<1>3. ASSUME NEW m \in S PROVE At(m) \in Nat /\ ids[At(m)] = m /\ score[m] \in Int
  <2>1. \E i \in DOMAIN ids : ids[i] = m
    BY DEF ToSet
  <2>2. At(m) \in DOMAIN ids /\ ids[At(m)] = m
    BY <2>1, Zenon
  <2> QED BY <1>1, <2>2
<1>4. StrictOrder(S, P)
  <2> HIDE DEF At, S
  <2>1. \A x, y, z \in S : Prior(x, y) /\ Prior(y, z) => Prior(x, z)
    BY <1>3
  <2>2. \A x \in S : ~Prior(x, x)
    BY <1>3
  <2>3. \A x, y \in S : x # y => Prior(x, y) \/ Prior(y, x)
    BY <1>3
  <2> HIDE DEF Prior
  <2> QED BY <2>1, <2>2, <2>3 DEF StrictOrder
<1>6. e = [i \in 1..n |-> Pos(i)]
  BY DEF SortByScore
<1> HIDE DEF e, Prior, S
<1>5. ASSUME NEW i \in 1..n PROVE Pos(i) \in S /\ Cardinality(P[Pos(i)]) = i - 1
  <2>1. PICK z \in S : Cardinality(P[z]) = i - 1
    <3> HIDE DEF P
    <3> QED BY <1>2, <1>4, EveryPlaceTaken
  <2>2. \E m \in S : Cardinality({k \in S : Prior(k, m)}) = i - 1
    BY <2>1
  <2>3. Pos(i) \in S /\ Cardinality({k \in S : Prior(k, Pos(i))}) = i - 1
    BY <2>2, Zenon
  <2> HIDE DEF Pos
  <2> QED BY <2>3
<1> HIDE DEF Pos
<1>7. e \in [1..n -> S] /\ DOMAIN e = 1..n
  BY <1>5, <1>6
<1>8. e \in Seq(X)
  BY <1>1, <1>2, <1>7
<1>10. ASSUME NEW k \in S PROVE \E i \in 1..n : Pos(i) = k
  <2> DEFINE i == Cardinality(P[k]) + 1
  <2> HIDE DEF P
  <2>1. P[k] \in SUBSET S /\ P[k] # S
    BY <1>4 DEF StrictOrder
  <2>2. IsFiniteSet(P[k]) /\ Cardinality(P[k]) <= n /\ Cardinality(P[k]) # n
    BY <1>2, <2>1, FS_Subset
  <2>3. Cardinality(P[k]) \in Nat
    BY <2>2, FS_CardinalityType
  <2>4. i \in 1..n /\ i - 1 = Cardinality(P[k])
    BY <1>2, <2>2, <2>3
  <2>5. Pos(i) \in S /\ Cardinality(P[Pos(i)]) = Cardinality(P[k])
    BY <1>5, <2>4
  <2> HIDE DEF i
  <2>6. ASSUME Pos(i) # k PROVE FALSE
    <3>1. Pos(i) \in P[k] \/ k \in P[Pos(i)]
      BY <1>4, <2>5, <2>6 DEF StrictOrder
    <3>2. Cardinality(P[Pos(i)]) < Cardinality(P[k]) \/ Cardinality(P[k]) < Cardinality(P[Pos(i)])
      BY <1>2, <1>4, <2>5, <3>1, FewerBefore
    <3> QED BY <2>3, <2>5, <3>2
  <2> QED BY <2>4, <2>6
<1>11. ToSet(e) = S
  <2>1. ToSet(e) \subseteq S
    BY <1>7 DEF ToSet
  <2>2. ASSUME NEW k \in S PROVE k \in ToSet(e)
    <3>1. PICK i \in 1..n : Pos(i) = k
      BY <1>10
    <3>2. e[i] = k
      BY <1>6, <3>1
    <3> QED BY <1>7, <3>1, <3>2 DEF ToSet
  <2> QED BY <2>1, <2>2
<1>12. IsInjective(e)
  <2>1. ASSUME NEW i \in 1..n, NEW k \in 1..n, e[i] = e[k] PROVE i = k
    <3>1. Pos(i) = Pos(k)
      BY <1>6, <2>1
    <3>2. i - 1 = k - 1
      BY <1>5, <3>1
    <3> QED BY <1>2, <3>2
  <2> QED BY <1>7, <2>1 DEF IsInjective
<1> QED BY <1>8, <1>11, <1>12 DEF e, S

(* A page is part of its list, and another page repeats none of it.         *)
LEMMA PageKeeps ==
  ASSUME NEW X, NEW s \in Seq(X), NEW offset \in Nat
  PROVE  /\ Page(s, offset) \in Seq(X) /\ ToSet(Page(s, offset)) \subseteq ToSet(s)
         /\ IsInjective(s) => IsInjective(Page(s, offset))
         /\ Len(s) <= offset => Page(s, offset) = <<>>
         /\ Len(s) >= offset + PageSize => Len(Page(s, offset)) = PageSize
         /\ Len(s) < offset + PageSize => Len(s) <= offset + Len(Page(s, offset))
<1> DEFINE m == IF offset + PageSize < Len(s) THEN offset + PageSize ELSE Len(s)
           f == SubSeq(s, offset + 1, m)
<1>0. PageSize \in Nat /\ PageSize # 0
  BY SearchAssumption
<1>1. m \in Nat /\ m \in Int /\ m <= Len(s) /\ Len(s) \in Nat /\ offset + 1 \in Int
  BY <1>0
<1>2. \A i \in (offset + 1)..m : s[i] \in X
  BY <1>1
<1>3. /\ f \in Seq(X) /\ Len(f) = IF offset + 1 <= m THEN m - offset ELSE 0
      /\ \A i \in 1..(m - offset) : f[i] = s[offset + i]
  <2> HIDE DEF m
  <2>1. /\ f \in Seq(X) /\ Len(f) = IF offset + 1 <= m THEN m - (offset + 1) + 1 ELSE 0
        /\ \A i \in 1..(m - (offset + 1) + 1) : f[i] = s[(offset + 1) + i - 1]
    BY <1>1, <1>2, SubSeqProperties
  <2>2. m - (offset + 1) + 1 = m - offset
    BY <1>1
  <2>3. \A i \in 1..(m - offset) : (offset + 1) + i - 1 = offset + i
    BY <1>1
  <2> HIDE DEF f
  <2> QED BY <2>1, <2>2, <2>3
<1>4. Page(s, offset) = f
  BY DEF Page
<1> HIDE DEF f
<1>5. DOMAIN s = 1..Len(s) /\ DOMAIN f = 1..Len(f)
  BY <1>3
<1>6. \A i \in DOMAIN f : offset + i \in DOMAIN s /\ f[i] = s[offset + i]
  <2> HIDE DEF m
  <2> QED BY <1>1, <1>3, <1>5
<1>7. ToSet(f) \subseteq ToSet(s)
  BY <1>6 DEF ToSet
<1>8. ASSUME IsInjective(s) PROVE IsInjective(f)
  <2>1. ASSUME NEW i \in DOMAIN f, NEW k \in DOMAIN f, f[i] = f[k] PROVE i = k
    <3>1. offset + i = offset + k
      BY <1>6, <1>8, <2>1 DEF IsInjective
    <3> QED BY <1>5, <3>1
  <2> QED BY <2>1 DEF IsInjective
<1>9. ASSUME Len(s) <= offset PROVE f = <<>>
  <2>1. Len(f) = 0
    BY <1>0, <1>1, <1>3, <1>9
  <2> QED BY <1>3, <2>1, EmptySeq
<1>10. Len(s) >= offset + PageSize => Len(f) = PageSize
  BY <1>0, <1>1, <1>3
<1>11. Len(s) < offset + PageSize => Len(s) <= offset + Len(f)
  BY <1>0, <1>1, <1>3
<1> QED BY <1>3, <1>4, <1>7, <1>8, <1>9, <1>10, <1>11

(* The first two pages of a list without repeats share nothing.             *)
LEMMA PagesApart ==
  ASSUME NEW X, NEW s \in Seq(X), IsInjective(s)
  PROVE  ToSet(Page(s, PageSize)) \cap ToSet(Page(s, 0)) = {}
<1>0. PageSize \in Nat /\ PageSize # 0
  BY SearchAssumption
<1>1. DOMAIN s = 1..Len(s) /\ Len(s) \in Nat
  OBVIOUS
<1>2. ASSUME NEW offset \in Nat, NEW x \in ToSet(Page(s, offset))
      PROVE  \E i \in DOMAIN s : s[i] = x /\ i > offset /\ i <= offset + PageSize
  <2> DEFINE m == IF offset + PageSize < Len(s) THEN offset + PageSize ELSE Len(s)
             f == SubSeq(s, offset + 1, m)
  <2>1. m \in Int /\ m <= Len(s) /\ m <= offset + PageSize /\ offset + 1 \in Int
    BY <1>0, <1>1
  <2>2. \A i \in (offset + 1)..m : s[i] \in X
    BY <2>1
  <2>3. f = Page(s, offset)
    BY DEF Page
  <2> HIDE DEF m
  <2>4. /\ f \in Seq(X) /\ Len(f) = IF offset + 1 <= m THEN m - (offset + 1) + 1 ELSE 0
        /\ \A i \in 1..(m - (offset + 1) + 1) : f[i] = s[(offset + 1) + i - 1]
    BY <2>1, <2>2, SubSeqProperties
  <2> HIDE DEF f
  <2>5. PICK i \in DOMAIN f : f[i] = x
    BY <2>3 DEF ToSet
  <2>6. i \in 1..Len(f)
    BY <2>4, <2>5
  <2>7. i \in Nat /\ offset + i \in DOMAIN s /\ i > 0 /\ offset + i <= offset + PageSize
    BY <1>0, <1>1, <2>1, <2>4, <2>6
  <2>8. f[i] = s[offset + i]
    <3>1. i \in 1..(m - (offset + 1) + 1) /\ (offset + 1) + i - 1 = offset + i
      BY <2>1, <2>4, <2>6
    <3> QED BY <2>4, <3>1
  <2>9. offset + i > offset
    BY <2>7
  <2> QED BY <2>5, <2>7, <2>8, <2>9
<1>3. ASSUME NEW x \in ToSet(Page(s, PageSize)), x \in ToSet(Page(s, 0)) PROVE FALSE
  <2>1. PICK i \in DOMAIN s : s[i] = x /\ i > PageSize
    BY <1>0, <1>2
  <2>2. PICK k \in DOMAIN s : s[k] = x /\ k <= 0 + PageSize
    <3>1. 0 \in Nat
      OBVIOUS
    <3> QED BY <1>2, <1>3, <3>1
  <2>3. i = k
    BY <2>1, <2>2 DEF IsInjective
  <2> QED BY <1>0, <1>1, <2>1, <2>2, <2>3
<1> QED BY <1>3

-----------------------------------------------------------------------------
(* The stages of a search, as functions of what they read                   *)

(* A finite set of numbers has a greatest.                                  *)
LEMMA GreatestNumber ==
  ASSUME NEW S \in SUBSET Int, IsFiniteSet(S), S # {} PROVE \E x \in S : \A y \in S : y <= x
<1> DEFINE P == [x \in S |-> {y \in S : y > x}]
<1>0. \A x \in S : x \in Int
  OBVIOUS
<1>1. StrictOrder(S, P)
  <2>1. P \in [S -> SUBSET S] /\ \A x \in S : \A y : y \in P[x] <=> y \in S /\ y > x
    OBVIOUS
  <2> HIDE DEF P
  <2>2. \A x \in S : x \notin P[x]
    BY <1>0, <2>1
  <2>3. ASSUME NEW x \in S, NEW y \in S, x \in P[y], NEW z \in P[x] PROVE z \in P[y]
    <3>1. z \in S /\ z > x /\ x > y /\ x \in Int /\ y \in Int /\ z \in Int
      BY <1>0, <2>1, <2>3
    <3>2. z > y
      BY <3>1
    <3> QED BY <2>1, <3>1, <3>2
  <2>4. \A x, y \in S : x # y => x \in P[y] \/ y \in P[x]
    <3>1. \A x, y \in S : x # y => x > y \/ y > x
      BY <1>0
    <3> QED BY <2>1, <3>1
  <2> QED BY <2>1, <2>2, <2>3, <2>4 DEF StrictOrder
<1>2. Cardinality(S) \in Nat /\ Cardinality(S) # 0
  BY FS_CardinalityType, FS_EmptySet
<1>3. 1 \in 1..Cardinality(S)
  BY <1>2
<1>4. PICK x \in S : Cardinality(P[x]) = 1 - 1
  <2> HIDE DEF P
  <2> QED BY <1>1, <1>3, EveryPlaceTaken
<1>5. IsFiniteSet({y \in S : y > x})
  BY FS_Subset
<1>6. {y \in S : y > x} = {}
  BY <1>4, <1>5, FS_EmptySet
<1>7. \A y \in S : ~(y > x) /\ y \in Int /\ x \in Int
  BY <1>6
<1>8. \A y \in S : y <= x
  BY <1>7
<1> QED BY <1>8

(* Scores can be compared.                                                  *)
LEMMA ScoreIsNumber ==
  ASSUME NEW fts \in Seq(Memories), NEW vec \in Seq(Memories), NEW side,
         side[1] \in Seq(Memories), side[2] \in Seq(Memories), NEW m
  PROVE  Score(fts, vec, side, m) \in Int
<1>1. ASSUME NEW rows \in Seq(Memories) PROVE Share(rows, m) \in Int
  <2> DEFINE rank == IF m \in ToSet(rows) THEN CHOOSE i \in DOMAIN rows : rows[i] = m ELSE 0
  <2>1. rank \in Nat
    <3>1. CASE m \in ToSet(rows)
      <4>1. \E i \in DOMAIN rows : rows[i] = m
        BY <3>1 DEF ToSet
      <4>2. rank \in DOMAIN rows
        BY <3>1, <4>1, Zenon
      <4> HIDE DEF rank
      <4> QED BY <4>2
    <3>2. CASE m \notin ToSet(rows)
      BY <3>2
    <3> QED BY <3>1, <3>2
  <2>2. Share(rows, m) = IF rank = 0 THEN 0 ELSE (61 * 62 * 63 * 64) \div (60 + rank)
    BY DEF Share
  <2> HIDE DEF rank
  <2> DEFINE unit == 61 * 62 * 63 * 64
  <2>0. unit \in Nat
    OBVIOUS
  <2> HIDE DEF unit
  <2>3. ASSUME NEW d \in Nat, d > 0 PROVE unit \div d \in Int
    BY <2>0, <2>3
  <2>4. 60 + rank \in Nat /\ 60 + rank > 0
    BY <2>1
  <2>5. unit \div (60 + rank) \in Int
    BY <2>3, <2>4
  <2> QED BY <2>2, <2>5 DEF unit
<1> QED BY <1>1 DEF Score

(* Fusion lists what any channel found, once, and cuts nothing within the window. *)
LEMMA FuseKeeps ==
  ASSUME NEW fts \in Seq(Memories), NEW vec \in Seq(Memories), NEW side,
         side[1] \in Seq(Memories), side[2] \in Seq(Memories), NEW w \in Nat
  PROVE  LET all == ToSet(fts) \cup ToSet(vec) \cup ToSet(side[1]) \cup ToSet(side[2])
         IN  /\ Fuse(fts, vec, side, w) \in Seq(Memories) /\ IsInjective(Fuse(fts, vec, side, w))
             /\ ToSet(Fuse(fts, vec, side, w)) \subseteq all
             /\ Cardinality(all) <= w => ToSet(Fuse(fts, vec, side, w)) = all
<1> DEFINE all == ToSet(fts) \cup ToSet(vec) \cup ToSet(side[1]) \cup ToSet(side[2])
           list == fts \o vec \o side[1] \o side[2]
           once == RemoveRepeats(list)
           score == [m \in ToSet(once) |-> Score(fts, vec, side, m)]
           sorted == SortByScore(once, score)
<1>1. list \in Seq(Memories) /\ ToSet(list) = all
  <2> DEFINE s1 == side[1]
             s2 == side[2]
             two == fts \o vec
             three == two \o s1
  <2>0. s1 \in Seq(Memories) /\ s2 \in Seq(Memories)
    OBVIOUS
  <2>1. two \in Seq(Memories) /\ ToSet(two) = ToSet(fts) \cup ToSet(vec)
    BY JoinKeeps
  <2> HIDE DEF two, s1, s2
  <2>2. three \in Seq(Memories) /\ ToSet(three) = ToSet(two) \cup ToSet(s1)
    BY <2>0, <2>1, JoinKeeps
  <2> HIDE DEF three
  <2>3. three \o s2 \in Seq(Memories) /\ ToSet(three \o s2) = ToSet(three) \cup ToSet(s2)
    BY <2>0, <2>2, JoinKeeps
  <2>4. list = three \o s2 /\ all = ToSet(fts) \cup ToSet(vec) \cup ToSet(s1) \cup ToSet(s2)
    BY DEF list, three, two, s1, s2
  <2> HIDE DEF list, all
  <2> QED BY <2>1, <2>2, <2>3, <2>4
<1> HIDE DEF list
<1>2. once \in Seq(Memories) /\ ToSet(once) = all
  BY <1>1, RepeatsRemoved
<1> HIDE DEF once
<1>3. \A m \in ToSet(once) : score[m] \in Int
  BY ScoreIsNumber
<1> HIDE DEF score
<1>4. sorted \in Seq(Memories) /\ ToSet(sorted) = all /\ IsInjective(sorted)
  BY <1>2, <1>3, SortKeeps
<1>5. Fuse(fts, vec, side, w) = First(sorted, w)
  BY DEF Fuse, sorted, score, once, list
<1> HIDE DEF sorted
<1>6. /\ First(sorted, w) \in Seq(Memories) /\ ToSet(First(sorted, w)) \subseteq ToSet(sorted)
      /\ IsInjective(First(sorted, w)) /\ (Len(sorted) <= w => First(sorted, w) = sorted)
  BY <1>4, FirstKeeps
<1>7. Cardinality(ToSet(sorted)) = Len(sorted)
  BY <1>4, ListSize
<1> QED BY <1>4, <1>5, <1>6, <1>7

(* What a search goes on with once heads took their predecessors' places.   *)
Replaced(heads, m) == IF m \in DOMAIN heads THEN heads[m] ELSE m
Replacements(heads, S) == {Replaced(heads, m) : m \in S}

HeadsNamed(heads) == \A m \in DOMAIN heads : heads[m] \in Memories

(* The pool holds the fused candidates, a resolved one as its head.         *)
LEMMA PoolOfKeeps ==
  ASSUME NEW fused \in Seq(Memories), IsInjective(fused), NEW heads,
         HeadsNamed(heads),
         NEW fts \in Seq(Memories), NEW vec \in Seq(Memories), NEW side,
         side[1] \in Seq(Memories), side[2] \in Seq(Memories)
  PROVE  /\ PoolOf(fused, heads, fts, vec, side) \in Seq(Memories)
         /\ IsInjective(PoolOf(fused, heads, fts, vec, side))
         /\ ToSet(PoolOf(fused, heads, fts, vec, side)) = Replacements(heads, ToSet(fused))
<1> DEFINE To(m) == IF m \in DOMAIN heads THEN heads[m] ELSE m
           list  == [i \in DOMAIN fused |-> To(fused[i])]
           ids   == RemoveRepeats(list)
           from(h) == {m \in ToSet(fused) : To(m) = h}
           own(h) == {Score(fts, vec, side, m) : m \in {m \in ToSet(fused) : To(m) = h}}
           best(h) == CHOOSE x \in own(h) : \A y \in own(h) : y <= x
           score == [h \in ToSet(ids) |-> best(h)]
<1>1. DOMAIN fused = 1..Len(fused) /\ Len(fused) \in Nat /\ \A i \in DOMAIN fused : fused[i] \in Memories
  OBVIOUS
<1>2. list \in Seq(Memories) /\ ToSet(list) = Replacements(heads, ToSet(fused))
  <2>1. list \in [1..Len(fused) -> Memories]
    BY <1>1 DEF HeadsNamed
  <2>2. ToSet(list) = Replacements(heads, ToSet(fused))
    BY DEF ToSet, Replaced, Replacements
  <2>3. list \in Seq(Memories)
    <3> DEFINE n == Len(fused)
    <3>1. n \in Nat /\ list \in [1..n -> Memories]
      BY <1>1, <2>1
    <3> HIDE DEF list, n
    <3> QED BY <3>1
  <2> QED BY <2>2, <2>3
<1>3. ids \in Seq(Memories) /\ ToSet(ids) = ToSet(list) /\ IsInjective(ids)
  <2> HIDE DEF list
  <2> QED BY <1>2, RepeatsRemoved
<1>4. ASSUME NEW h \in ToSet(ids) PROVE score[h] \in Int
  <2>1. from(h) # {}
    BY <1>2, <1>3 DEF Replaced, Replacements
  <2>2. IsFiniteSet(from(h))
    <3>1. IsFiniteSet(ToSet(fused))
      BY ListSize
    <3>2. from(h) \subseteq ToSet(fused)
      OBVIOUS
    <3> QED BY <3>1, <3>2, FS_Subset
  <2>3. \A m : Score(fts, vec, side, m) \in Int
    BY ScoreIsNumber
  <2> DEFINE f == [m \in from(h) |-> Score(fts, vec, side, m)]
  <2>4. f \in Surjection(from(h), own(h))
    BY DEF Surjection
  <2>5. own(h) \in SUBSET Int /\ own(h) # {}
    BY <2>1, <2>3
  <2> HIDE DEF from, own, f
  <2>6. IsFiniteSet(own(h))
    BY <2>2, <2>4, FS_Surjection
  <2>7. \E x \in own(h) : \A y \in own(h) : y <= x
    BY <2>5, <2>6, GreatestNumber
  <2>8. best(h) \in own(h)
    BY <2>7, Zenon
  <2> HIDE DEF best
  <2> QED BY <2>5, <2>8
<1>5. Substitute(fused, heads, fts, vec, side) = SortByScore(ids, score)
  BY DEF Substitute
<1> HIDE DEF ids, score
<1>6. /\ SortByScore(ids, score) \in Seq(Memories) /\ ToSet(SortByScore(ids, score)) = ToSet(ids)
      /\ IsInjective(SortByScore(ids, score))
  BY <1>3, <1>4, SortKeeps
<1>7. CASE DOMAIN heads = {}
  <2>1. Replacements(heads, ToSet(fused)) = ToSet(fused)
    BY <1>7 DEF Replaced, Replacements
  <2> QED BY <1>7, <2>1 DEF PoolOf
<1>8. CASE DOMAIN heads # {}
  <2> HIDE DEF list
  <2> QED BY <1>2, <1>3, <1>5, <1>6, <1>8 DEF PoolOf
<1> QED BY <1>7, <1>8

(* Reranking and demotion reorder and lose nothing.                         *)
LEMMA RerankKeeps ==
  ASSUME NEW c, NEW q, NEW pool \in Seq(Memories), IsInjective(pool)
  PROVE  /\ Rerank(c, q, pool) \in Seq(Memories) /\ ToSet(Rerank(c, q, pool)) = ToSet(pool)
         /\ IsInjective(Rerank(c, q, pool))
<1> DEFINE front == First(pool, EncoderCap)
           texts == EncoderTexts(c, pool)
           scored == ScorePairs(q, texts)
           rest == Only(pool, Memories \ ToSet(scored))
<1>1. front \in Seq(Memories) /\ ToSet(front) \subseteq ToSet(pool) /\ IsInjective(front)
  BY SearchAssumption, FirstKeeps
<1>2. texts \in Seq(Memories) /\ ToSet(texts) \subseteq ToSet(pool) /\ IsInjective(texts)
  BY <1>1, OnlyKeeps DEF EncoderTexts
<1> HIDE DEF texts
<1>3. scored \in Seq(Memories) /\ ToSet(scored) \subseteq ToSet(pool) /\ IsInjective(scored)
  <2>1. << >> \in Seq(Memories) /\ ToSet(<< >>) = {} /\ IsInjective(<< >>)
    BY DEF ToSet, IsInjective
  <2>2. Reverse(texts) \in Seq(Memories) /\ ToSet(Reverse(texts)) = ToSet(texts) /\ IsInjective(Reverse(texts))
    BY <1>2, ReverseKeeps
  <2> QED BY <1>2, <2>1, <2>2 DEF ScorePairs
<1> HIDE DEF scored
<1>4. /\ rest \in Seq(Memories) /\ ToSet(rest) = ToSet(pool) \cap (Memories \ ToSet(scored))
      /\ IsInjective(rest)
  BY OnlyKeeps
<1>5. ToSet(pool) \subseteq Memories
  BY DEF ToSet
<1>6. Rerank(c, q, pool) = scored \o rest
  BY DEF Rerank, scored, texts
<1> HIDE DEF rest
<1>7. /\ scored \o rest \in Seq(Memories) /\ ToSet(scored \o rest) = ToSet(scored) \cup ToSet(rest)
      /\ IsInjective(scored \o rest)
  BY <1>3, <1>4, JoinKeeps
<1> QED BY <1>3, <1>4, <1>5, <1>6, <1>7

(* Demotion moves entries behind the others and loses none.                 *)
LEMMA DemoteKeeps ==
  ASSUME NEW pool \in Seq(Memories), IsInjective(pool), NEW low
  PROVE  /\ Demote(pool, low) \in Seq(Memories) /\ ToSet(Demote(pool, low)) = ToSet(pool)
         /\ IsInjective(Demote(pool, low))
<1> DEFINE s == Only(pool, Memories \ low)
           t == Only(pool, low)
<1>1. s \in Seq(Memories) /\ ToSet(s) = ToSet(pool) \cap (Memories \ low) /\ IsInjective(s)
  BY OnlyKeeps
<1>2. t \in Seq(Memories) /\ ToSet(t) = ToSet(pool) \cap low /\ IsInjective(t)
  BY OnlyKeeps
<1>3. ToSet(pool) \subseteq Memories
  BY DEF ToSet
<1>4. Demote(pool, low) = s \o t
  BY DEF Demote
<1> HIDE DEF s, t
<1>5. s \o t \in Seq(Memories) /\ ToSet(s \o t) = ToSet(s) \cup ToSet(t) /\ IsInjective(s \o t)
  BY <1>1, <1>2, JoinKeeps
<1> QED BY <1>1, <1>2, <1>3, <1>4, <1>5

(* A set of one element is not empty.                                       *)
LEMMA OneIsSome == ASSUME NEW S, Cardinality(S) = 1 PROVE S # {}
<1>1. Cardinality({}) = 0
  BY FS_EmptySet
<1>2. 0 # 1
  OBVIOUS
<1>3. ASSUME S = {} PROVE FALSE
  <2>1. Cardinality(S) = 0
    BY <1>1, <1>3, Zenon
  <2> QED BY <1>2, <2>1, Zenon
<1> QED BY <1>3

(* Collapsing leaves for every memory itself or the head of its family.     *)
LEMMA CollapseKeeps ==
  ASSUME NEW c, NEW pool \in Seq(Memories)
  PROVE  /\ CollapseFamilies(c, pool) \in Seq(Memories) /\ IsInjective(CollapseFamilies(c, pool))
         /\ ToSet(CollapseFamilies(c, pool)) \subseteq ToSet(pool)
         /\ \A m \in ToSet(pool) : \E h \in ToSet(CollapseFamilies(c, pool)) : m = h \/ h \in Family(c, m)
<1> DEFINE list == [i \in DOMAIN pool |-> CollapseTo(c, pool, pool[i])]
<1>1. ASSUME NEW m \in ToSet(pool)
      PROVE  /\ CollapseTo(c, pool, m) \in ToSet(pool)
             /\ m = CollapseTo(c, pool, m) \/ CollapseTo(c, pool, m) \in Family(c, m)
  <2>1. CASE Cardinality(Family(c, m)) > 1 /\ Collapsible(c, pool, Family(c, m))
    <3>1. FamilyHeads(c, Family(c, m)) # {} /\ Family(c, m) \subseteq ToSet(pool)
      <4>1. Cardinality(FamilyHeads(c, Family(c, m))) = 1
        BY <2>1 DEF Collapsible
      <4>3. Family(c, m) \subseteq ToSet(pool)
        BY <2>1 DEF Collapsible
      <4>4. FamilyHeads(c, Family(c, m)) # {}
        BY <4>1, OneIsSome, Zenon
      <4> QED BY <4>3, <4>4
    <3>2. CollapseTo(c, pool, m) = CHOOSE h \in FamilyHeads(c, Family(c, m)) : TRUE
      BY <2>1 DEF CollapseTo
    <3>3. \E h \in FamilyHeads(c, Family(c, m)) : TRUE
      BY <3>1
    <3>4. CollapseTo(c, pool, m) \in FamilyHeads(c, Family(c, m))
      BY <3>2, <3>3, Zenon
    <3>5. CollapseTo(c, pool, m) \in Family(c, m)
      BY <3>4 DEF FamilyHeads
    <3> QED BY <3>1, <3>5
  <2>2. CASE ~(Cardinality(Family(c, m)) > 1 /\ Collapsible(c, pool, Family(c, m)))
    <3>1. CollapseTo(c, pool, m) = m
      BY <2>2 DEF CollapseTo
    <3> QED BY <3>1
  <2> QED BY <2>1, <2>2
<1>2. DOMAIN pool = 1..Len(pool) /\ Len(pool) \in Nat /\ ToSet(pool) \subseteq Memories
  BY DEF ToSet
<1>3. list \in [1..Len(pool) -> Memories] /\ \A i \in DOMAIN pool : pool[i] \in ToSet(pool)
  BY <1>1, <1>2 DEF ToSet
<1>4. list \in Seq(Memories)
  BY <1>2, <1>3
<1>5. ToSet(list) = {CollapseTo(c, pool, m) : m \in ToSet(pool)}
  BY DEF ToSet
<1>6. CollapseFamilies(c, pool) = RemoveRepeats(list)
  BY DEF CollapseFamilies
<1> HIDE DEF list
<1>7. /\ RemoveRepeats(list) \in Seq(Memories) /\ ToSet(RemoveRepeats(list)) = ToSet(list)
      /\ IsInjective(RemoveRepeats(list))
  BY <1>4, RepeatsRemoved
<1> QED BY <1>1, <1>5, <1>6, <1>7

(* The whole of ranking: a strict pool is what the gate accepts; another    *)
(* one covers what it was given.                                            *)
LEMMA RankedKeeps ==
  ASSUME NEW c, NEW q, NEW s, s.pool \in Seq(Memories), IsInjective(s.pool)
  PROVE  /\ RankedPool(c, q, s) \in Seq(Memories) /\ IsInjective(RankedPool(c, q, s))
         /\ ToSet(RankedPool(c, q, s)) \subseteq ToSet(s.pool)
         /\ q.mode = "strict" =>
              ToSet(RankedPool(c, q, s)) = {m \in ToSet(s.pool) : Accept(q, s, m)}
         /\ q.mode # "strict" =>
              \A m \in ToSet(s.pool) : \E h \in ToSet(RankedPool(c, q, s)) :
                m = h \/ (q.mode = "collapse" /\ h \in Family(c, m))
<1> DEFINE front == Rerank(c, q, s.pool)
           passed == Only(front, {m \in Memories : Accept(q, s, m)})
<1>1. front \in Seq(Memories) /\ ToSet(front) = ToSet(s.pool) /\ IsInjective(front)
  BY RerankKeeps
<1>2. RankedPool(c, q, s) = OrderPool(c, q, IF q.mode = "strict" THEN passed ELSE front)
  BY DEF RankedPool
<1>3. ToSet(s.pool) \subseteq Memories
  BY DEF ToSet
<1>4. CASE q.mode = "strict"
  <2> HIDE DEF front
  <2>1. /\ passed \in Seq(Memories) /\ IsInjective(passed)
        /\ ToSet(passed) = ToSet(s.pool) \cap {m \in Memories : Accept(q, s, m)}
    BY <1>1, OnlyKeeps
  <2> HIDE DEF passed
  <2> DEFINE biased == TypeBias(q, passed)
             low == SupersededIds(c) \cup c.corrected
  <2>2. biased \in Seq(Memories) /\ ToSet(biased) = ToSet(passed) /\ IsInjective(biased)
    BY <2>1, DemoteKeeps DEF TypeBias
  <2>3. RankedPool(c, q, s) = Demote(biased, low)
    BY <1>2, <1>4 DEF OrderPool, StrictDefaults
  <2> HIDE DEF biased, low
  <2>4. /\ Demote(biased, low) \in Seq(Memories) /\ ToSet(Demote(biased, low)) = ToSet(biased)
        /\ IsInjective(Demote(biased, low))
    BY <2>2, DemoteKeeps
  <2>5. ToSet(RankedPool(c, q, s)) = {m \in ToSet(s.pool) : Accept(q, s, m)}
    BY <1>3, <2>1, <2>2, <2>3, <2>4
  <2> QED BY <1>4, <2>3, <2>4, <2>5
<1>5. CASE q.mode = "collapse"
  <2> HIDE DEF front
  <2>1. RankedPool(c, q, s) = CollapseFamilies(c, front)
    BY <1>2, <1>5 DEF OrderPool
  <2>2. /\ CollapseFamilies(c, front) \in Seq(Memories) /\ IsInjective(CollapseFamilies(c, front))
        /\ ToSet(CollapseFamilies(c, front)) \subseteq ToSet(front)
        /\ \A m \in ToSet(front) : \E h \in ToSet(CollapseFamilies(c, front)) : m = h \/ h \in Family(c, m)
    BY <1>1, CollapseKeeps
  <2> QED BY <1>1, <1>5, <2>1, <2>2
<1>6. CASE q.mode # "strict" /\ q.mode # "collapse"
  <2> HIDE DEF front
  <2>1. RankedPool(c, q, s) = front
    BY <1>2, <1>6 DEF OrderPool
  <2> QED BY <1>1, <1>6, <2>1
<1> QED BY <1>4, <1>5, <1>6

-----------------------------------------------------------------------------
(* The channels                                                             *)

(* A channel's rows are memories the caller may see; without the fallback,  *)
(* lexical rows hold every term.  One that does not fill its window finds   *)
(* the same in a wider one.                                                 *)
LEMMA FtsKeeps ==
  ASSUME NEW c, NEW q \in Queries, NEW w \in Nat
  PROVE  /\ FtsRows(c, q, w) \in Seq(Memories) /\ ToSet(FtsRows(c, q, w)) \subseteq EligibleSet(c)
         /\ ~UsedFallback(c, q, w) => ToSet(FtsRows(c, q, w)) \subseteq q.full
         /\ \A v \in Nat : Len(FtsRows(c, q, w)) < w /\ w <= v =>
              /\ FtsRows(c, q, v) = FtsRows(c, q, w) /\ UsedFallback(c, q, v) = UsedFallback(c, q, w)
<1> DEFINE A == Only(q.lex, q.full \cap EligibleSet(c))
           O == Only(q.lex, EligibleSet(c))
<1>1. q.lex \in Seq(Memories)
  BY SearchAssumption
<1>2. A \in Seq(Memories) /\ ToSet(A) \subseteq EligibleSet(c) /\ ToSet(A) \subseteq q.full
  BY <1>1, OnlyKeeps
<1>3. O \in Seq(Memories) /\ ToSet(O) \subseteq EligibleSet(c)
  BY <1>1, OnlyKeeps
<1>4. \A v : FtsAnd(c, q, v) = First(A, v) /\ FtsOr(c, q, v) = First(O, v)
  BY DEF FtsAnd, FtsOr
<1>5. ASSUME NEW v \in Nat
      PROVE  /\ FtsRows(c, q, v) = IF First(A, v) = <<>> THEN First(O, v) ELSE First(A, v)
             /\ UsedFallback(c, q, v) = (First(A, v) = <<>> /\ First(O, v) # <<>>)
  BY <1>4, Zenon DEF FtsRows, UsedFallback
<1> HIDE DEF A, O
<1>6. ASSUME NEW v \in Nat
      PROVE  /\ First(A, v) \in Seq(Memories) /\ ToSet(First(A, v)) \subseteq ToSet(A)
             /\ First(O, v) \in Seq(Memories) /\ ToSet(First(O, v)) \subseteq ToSet(O)
             /\ Len(First(A, v)) < v => First(A, v) = A
             /\ Len(First(O, v)) < v => First(O, v) = O
             /\ Len(A) <= v => First(A, v) = A
             /\ Len(O) <= v => First(O, v) = O
  BY <1>2, <1>3, FirstKeeps
<1>7. ToSet(<<>>) = {} /\ Len(<<>>) = 0
  BY DEF ToSet
<1>8. FtsRows(c, q, w) \in Seq(Memories) /\ ToSet(FtsRows(c, q, w)) \subseteq EligibleSet(c)
  <2>1. CASE First(A, w) = <<>>
    BY <1>3, <1>5, <1>6, <2>1
  <2>2. CASE First(A, w) # <<>>
    BY <1>2, <1>5, <1>6, <2>2
  <2> QED BY <2>1, <2>2
<1>9. ASSUME ~UsedFallback(c, q, w) PROVE ToSet(FtsRows(c, q, w)) \subseteq q.full
  <2>1. FtsRows(c, q, w) = <<>> \/ FtsRows(c, q, w) = First(A, w)
    BY <1>5, <1>9
  <2> QED BY <1>2, <1>6, <1>7, <2>1
<1>10. ASSUME NEW v \in Nat, Len(FtsRows(c, q, w)) < w, w <= v
       PROVE  FtsRows(c, q, v) = FtsRows(c, q, w) /\ UsedFallback(c, q, v) = UsedFallback(c, q, w)
  <2>1. First(A, w) = A /\ (A = <<>> => First(O, w) = O)
    <3>1. CASE First(A, w) = <<>>
      <4>1. Len(First(O, w)) < w
        BY <1>5, <1>10, <3>1
      <4>2. Len(First(O, w)) \in Nat
        BY <1>6
      <4>3. Len(First(A, w)) < w
        BY <1>7, <3>1, <4>1, <4>2
      <4> QED BY <1>6, <4>1, <4>3
    <3>2. CASE First(A, w) # <<>>
      <4>1. Len(First(A, w)) < w
        BY <1>5, <1>10, <3>2
      <4> QED BY <1>6, <3>2, <4>1
    <3> QED BY <3>1, <3>2
  <2>2. Len(A) \in Nat /\ Len(O) \in Nat
    BY <1>2, <1>3
  <2>3. First(A, v) = A
    <3>1. Len(A) <= w
      <4>1. CASE A = <<>>
        BY <1>7, <4>1
      <4>2. CASE A # <<>>
        <5>1. FtsRows(c, q, w) = A
          BY <1>5, <2>1, <4>2
        <5> QED BY <1>10, <2>2, <5>1
      <4> QED BY <4>1, <4>2
    <3>2. Len(A) <= v
      BY <1>10, <2>2, <3>1
    <3> QED BY <1>6, <3>2
  <2>4. ASSUME A = <<>> PROVE First(O, v) = O
    <3>1. FtsRows(c, q, w) = O
      BY <1>5, <2>1, <2>4
    <3>2. Len(O) <= v
      BY <1>10, <2>2, <3>1
    <3> QED BY <1>6, <3>2
  <2>5. CASE A = <<>>
    BY <1>5, <2>1, <2>3, <2>4, <2>5
  <2>6. CASE A # <<>>
    BY <1>5, <2>1, <2>3, <2>6
  <2> QED BY <2>5, <2>6
<1> QED BY <1>8, <1>9, <1>10

(* The nearest live vectors, all of them when the window is not filled.     *)
LEMMA NearestKeeps ==
  ASSUME NEW c, NEW order \in Seq(Memories), NEW w \in Nat
  PROVE  /\ Nearest(c, order, w) \in Seq(Memories)
         /\ ToSet(Nearest(c, order, w)) \subseteq ToSet(order) \cap c.live
         /\ IsInjective(order) => IsInjective(Nearest(c, order, w))
         /\ Len(Nearest(c, order, w)) < w => Nearest(c, order, w) = Only(order, c.live)
         /\ Len(Only(order, c.live)) <= w => Nearest(c, order, w) = Only(order, c.live)
<1> DEFINE L == Only(order, c.live)
<1>1. L \in Seq(Memories) /\ ToSet(L) = ToSet(order) \cap c.live /\ (IsInjective(order) => IsInjective(L))
  BY OnlyKeeps
<1>2. Nearest(c, order, w) = First(L, w)
  BY DEF Nearest
<1> HIDE DEF L
<1>3. /\ First(L, w) \in Seq(Memories) /\ ToSet(First(L, w)) \subseteq ToSet(L)
      /\ IsInjective(L) => IsInjective(First(L, w))
      /\ Len(First(L, w)) < w => First(L, w) = L
      /\ Len(L) <= w => First(L, w) = L
  BY <1>1, FirstKeeps
<1> QED BY <1>1, <1>2, <1>3 DEF L

(* Without filters and with a vector for every live memory, a vector        *)
(* channel that does not fill its window has every live memory, and has     *)
(* them in any wider window.                                                *)
LEMMA SemanticKeeps ==
  ASSUME NEW c, NEW w \in Nat
  PROVE  /\ SemanticRows(c, w) \in Seq(Memories) /\ ToSet(SemanticRows(c, w)) \subseteq EligibleSet(c)
         /\ IsInjective(SemanticRows(c, w))
         /\ \A v \in Nat : c.visible = Memories /\ c.live \subseteq ToSet(VectorOrder)
                             /\ Len(SemanticRows(c, w)) < w /\ w <= v =>
              ToSet(SemanticRows(c, v)) = EligibleSet(c)
<1>0. VectorOrder \in Seq(Memories) /\ IsInjective(VectorOrder)
  BY SearchAssumption
<1>1. ASSUME NEW v \in Nat
      PROVE  /\ SemanticRows(c, v) \in Seq(Memories) /\ IsInjective(SemanticRows(c, v))
             /\ ToSet(SemanticRows(c, v)) = ToSet(Nearest(c, VectorOrder, v)) \cap EligibleSet(c)
             /\ ToSet(Nearest(c, VectorOrder, v)) \subseteq EligibleSet(c) =>
                  Len(SemanticRows(c, v)) = Len(Nearest(c, VectorOrder, v))
             /\ ToSet(Nearest(c, VectorOrder, v)) \subseteq Memories \cap c.live
             /\ Len(Nearest(c, VectorOrder, v)) < v => Nearest(c, VectorOrder, v) = Only(VectorOrder, c.live)
             /\ Len(Only(VectorOrder, c.live)) <= v => Nearest(c, VectorOrder, v) = Only(VectorOrder, c.live)
  <2> DEFINE near == Nearest(c, VectorOrder, v)
  <2>1. /\ near \in Seq(Memories) /\ ToSet(near) \subseteq Memories \cap c.live /\ IsInjective(near)
        /\ Len(near) < v => near = Only(VectorOrder, c.live)
        /\ Len(Only(VectorOrder, c.live)) <= v => near = Only(VectorOrder, c.live)
    BY <1>0, NearestKeeps
  <2>2. SemanticRows(c, v) = Only(near, EligibleSet(c))
    BY DEF SemanticRows
  <2> HIDE DEF near
  <2>3. /\ Only(near, EligibleSet(c)) \in Seq(Memories) /\ IsInjective(Only(near, EligibleSet(c)))
        /\ ToSet(Only(near, EligibleSet(c))) = ToSet(near) \cap EligibleSet(c)
        /\ ToSet(near) \subseteq EligibleSet(c) => Len(Only(near, EligibleSet(c))) = Len(near)
    BY <2>1, OnlyKeeps
  <2>4. /\ SemanticRows(c, v) \in Seq(Memories) /\ IsInjective(SemanticRows(c, v))
        /\ ToSet(SemanticRows(c, v)) = ToSet(near) \cap EligibleSet(c)
        /\ ToSet(near) \subseteq EligibleSet(c) => Len(SemanticRows(c, v)) = Len(near)
    BY <2>2, <2>3
  <2> QED BY <2>1, <2>4 DEF near
<1>2. ASSUME NEW v \in Nat, c.visible = Memories, c.live \subseteq ToSet(VectorOrder),
             Len(SemanticRows(c, w)) < w, w <= v
      PROVE  ToSet(SemanticRows(c, v)) = EligibleSet(c)
  <2> DEFINE L == Only(VectorOrder, c.live)
  <2>1. L \in Seq(Memories) /\ ToSet(L) = Memories \cap c.live
    <3>1. L \in Seq(Memories) /\ ToSet(L) = ToSet(VectorOrder) \cap c.live
      BY <1>0, OnlyKeeps
    <3>2. ToSet(VectorOrder) \subseteq Memories
      BY <1>0 DEF ToSet
    <3> QED BY <1>2, <3>1, <3>2
  <2>2. EligibleSet(c) = Memories \cap c.live
    BY <1>2 DEF EligibleSet, Eligible
  <2> HIDE DEF L
  <2>3. Nearest(c, VectorOrder, w) = L /\ Len(L) < w
    <3>1. Len(SemanticRows(c, w)) = Len(Nearest(c, VectorOrder, w))
      BY <1>1, <2>2
    <3> QED BY <1>1, <1>2, <3>1 DEF L
  <2>4. Nearest(c, VectorOrder, v) = L
    <3>1. Len(L) <= v
      BY <1>2, <2>1, <2>3
    <3> QED BY <1>1, <3>1 DEF L
  <2> QED BY <1>1, <2>1, <2>2, <2>4
<1> QED BY <1>1, <1>2

(* The third channel lists memories the caller may see.                     *)
LEMMA SideKeeps ==
  ASSUME NEW c, NEW q \in Queries, NEW w \in Nat
  PROVE  /\ SideRows(c, q, w)[1] \in Seq(Memories) /\ ToSet(SideRows(c, q, w)[1]) \subseteq EligibleSet(c)
         /\ SideRows(c, q, w)[2] \in Seq(Memories) /\ ToSet(SideRows(c, q, w)[2]) \subseteq EligibleSet(c)
<1>0. /\ q.lex \in Seq(Memories) /\ SideOrder \in Seq(Memories) /\ ChunkWindow \in Nat
      /\ q.side \in {"none", "chunk", "retrieval"}
  BY SearchAssumption
<1>1. << >> \in Seq(Memories) /\ ToSet(<< >>) \subseteq EligibleSet(c)
  BY DEF ToSet
<1>2. ASSUME NEW v \in Nat
      PROVE  LET r == Only(Nearest(c, SideOrder, v), Fresh(c, q))
             IN  r \in Seq(Memories) /\ ToSet(r) \subseteq EligibleSet(c)
  <2> DEFINE near == Nearest(c, SideOrder, v)
  <2>1. near \in Seq(Memories)
    BY <1>0, NearestKeeps
  <2> HIDE DEF near
  <2>2. Only(near, Fresh(c, q)) \in Seq(Memories) /\ ToSet(Only(near, Fresh(c, q))) = ToSet(near) \cap Fresh(c, q)
    BY <2>1, OnlyKeeps
  <2>3. Only(near, Fresh(c, q)) \in Seq(Memories) /\ ToSet(Only(near, Fresh(c, q))) \subseteq EligibleSet(c)
    BY <2>2 DEF Fresh
  <2> QED BY <2>3 DEF near
<1>3. RetrievalFts(c, q, w) \in Seq(Memories) /\ ToSet(RetrievalFts(c, q, w)) \subseteq EligibleSet(c)
  <2> DEFINE L == Only(q.lex, Fresh(c, q))
  <2>1. L \in Seq(Memories) /\ ToSet(L) \subseteq EligibleSet(c)
    BY <1>0, OnlyKeeps DEF Fresh
  <2> HIDE DEF L
  <2>2. First(L, w) \in Seq(Memories) /\ ToSet(First(L, w)) \subseteq ToSet(L)
    BY <2>1, FirstKeeps
  <2> QED BY <2>1, <2>2 DEF RetrievalFts, L
<1>4. RetrievalVectors(c, q, w) \in Seq(Memories) /\ ToSet(RetrievalVectors(c, q, w)) \subseteq EligibleSet(c)
  BY <1>2 DEF RetrievalVectors
<1>5. ChunkRows(c, q) \in Seq(Memories) /\ ToSet(ChunkRows(c, q)) \subseteq EligibleSet(c)
  BY <1>0, <1>2 DEF ChunkRows
<1>6. CASE q.side = "none"
  BY <1>1, <1>6 DEF SideRows
<1>7. CASE q.side = "chunk"
  BY <1>1, <1>5, <1>7 DEF SideRows
<1>8. CASE q.side = "retrieval"
  BY <1>3, <1>4, <1>8 DEF SideRows
<1> QED BY <1>0, <1>6, <1>7, <1>8

-----------------------------------------------------------------------------
(* Chains of successors                                                     *)

(* The successor a walk goes on with is one of the successors.              *)
LEMMA SuccessorChosen ==
  ASSUME NEW c, c.edges \subseteq Memories \X Memories, NEW m, Successors(c, m) # {}
  PROVE  ChooseSuccessor(c, m) \in Successors(c, m) /\ Successors(c, m) \subseteq Memories
<1>0. Recency \in Seq(Memories) /\ ToSet(Recency) = Memories /\ IsFiniteSet(Memories)
  BY SearchAssumption
<1>1. Successors(c, m) \subseteq Memories
  BY DEF Successors
<1>2. ASSUME NEW k \in Memories PROVE Age(k) \in Int
  <2>1. \E i \in DOMAIN Recency : Recency[i] = k
    BY <1>0 DEF ToSet
  <2>2. Age(k) \in DOMAIN Recency
    BY <2>1, Zenon DEF Age
  <2> QED BY <1>0, <2>2
<1> DEFINE S == Successors(c, m)
           ages == {Age(k) : k \in S}
           f == [k \in S |-> Age(k)]
<1>3. IsFiniteSet(S)
  BY <1>0, <1>1, FS_Subset
<1>4. f \in Surjection(S, ages)
  BY DEF Surjection
<1>5. ages \in SUBSET Int /\ ages # {}
  BY <1>1, <1>2
<1>6. IsFiniteSet(ages)
  <2> HIDE DEF S, f, ages
  <2> QED BY <1>3, <1>4, FS_Surjection
<1>7. \E x \in ages : \A y \in ages : y <= x
  <2> HIDE DEF ages
  <2> QED BY <1>5, <1>6, GreatestNumber
<1>8. \E n \in S : \A k \in S : Age(k) <= Age(n)
  BY <1>7
<1>9. ChooseSuccessor(c, m) \in Successors(c, m)
  BY <1>8, Zenon DEF ChooseSuccessor
<1> QED BY <1>1, <1>9

\* One hop of a walk.
HopFrom(c, m) == IF Successors(c, m) = {} THEN m ELSE ChooseSuccessor(c, m)

(* The walk, hop by hop.                                                    *)
LEMMA WalkIs ==
  ASSUME NEW c, c.edges \subseteq Memories \X Memories, NEW root \in Memories
  PROVE  \E f \in [0..ChainDepth -> Memories] :
           /\ f[0] = root /\ \A i \in 1..ChainDepth : f[i] = HopFrom(c, f[i - 1])
           /\ Walk(c, root) = IF /\ Successors(c, f[ChainDepth]) = {}
                                 /\ \A n \in 1..ChainDepth : f[n] \in c.live
                              THEN f[ChainDepth] ELSE root
<1> DEFINE depth == ChainDepth
           Rec(f) == [n \in 0..depth |->
                        IF n = 0 THEN root
                        ELSE IF Successors(c, f[n - 1]) = {} THEN f[n - 1] ELSE ChooseSuccessor(c, f[n - 1])]
           G == [i \in 1..depth |-> [m \in Memories |-> HopFrom(c, m)]]
<1>0. depth \in Nat
  BY SearchAssumption
<1>1. \A m \in Memories : HopFrom(c, m) \in Memories
  BY SuccessorChosen DEF HopFrom
<1>2. G \in [1..depth -> [Memories -> Memories]]
  BY <1>1
<1>3. PICK f : IteratesTo(f, depth, Memories, root, G)
  <2> HIDE DEF G, depth
  <2> QED BY <1>0, <1>2, StepsExist
<1>4. f \in [0..depth -> Memories] /\ f[0] = root /\ \A i \in 1..depth : f[i] = HopFrom(c, f[i - 1])
  <2>1. f \in [0..depth -> Memories] /\ f[0] = root /\ \A i \in 1..depth : f[i] = G[i][f[i - 1]]
    BY <1>3 DEF IteratesTo
  <2>2. ASSUME NEW i \in 1..depth PROVE f[i] = HopFrom(c, f[i - 1])
    <3>1. f[i - 1] \in Memories
      BY <1>0, <2>1
    <3> QED BY <2>1, <3>1
  <2> QED BY <2>1, <2>2
<1>5. f = Rec(f)
  <2>1. ASSUME NEW n \in 0..depth PROVE f[n] = Rec(f)[n]
    <3>1. CASE n = 0
      BY <1>4, <3>1
    <3>2. CASE n # 0
      <4>1. n \in 1..depth
        BY <1>0, <3>2
      <4>2. f[n] = HopFrom(c, f[n - 1])
        BY <1>4, <4>1
      <4> QED BY <3>2, <4>2 DEF HopFrom
    <3> QED BY <3>1, <3>2
  <2>2. DOMAIN Rec(f) = 0..depth /\ Rec(f) = [n \in 0..depth |-> Rec(f)[n]]
    OBVIOUS
  <2> HIDE DEF Rec
  <2> QED BY <1>4, <2>1, <2>2
<1>6. \A h : h = Rec(h) => \A i \in 0..depth : (i = 0 => h[i] = root) /\ (i # 0 => h[i] = HopFrom(c, h[i - 1]))
  BY DEF HopFrom
<1> DEFINE hop == CHOOSE h : h = Rec(h)
<1>7. hop = Rec(hop)
  BY <1>5
<1>8. Walk(c, root) = IF /\ Successors(c, hop[ChainDepth]) = {}
                         /\ \A n \in 1..ChainDepth : hop[n] \in c.live
                      THEN hop[ChainDepth] ELSE root
  BY DEF Walk
<1>9. DOMAIN hop = 0..depth
  BY <1>7
<1> HIDE DEF hop, Rec
<1>10. hop[0] = root /\ \A i \in 1..depth : hop[i] = HopFrom(c, hop[i - 1])
  BY <1>0, <1>6, <1>7
<1> DEFINE S == {i \in 0..depth : hop[i] = f[i]}
<1>11. 0 \in S
  BY <1>0, <1>4, <1>10
<1>12. ASSUME NEW i \in 1..depth, i - 1 \in S PROVE i \in S
  BY <1>0, <1>4, <1>10, <1>12
<1>13. \A i \in 0..depth : i \in S
  <2> HIDE DEF S, depth
  <2> QED BY <1>0, <1>11, <1>12, StepByStep
<1>14. \A i \in 0..depth : hop[i] = f[i]
  BY <1>13
<1>15. hop[ChainDepth] = f[ChainDepth] /\ \A n \in 1..ChainDepth : hop[n] = f[n]
  BY <1>0, <1>14
<1> QED BY <1>4, <1>8, <1>15

(* A walk that leaves its root ends at a memory nothing supersedes.         *)
LEMMA WalkEnds ==
  ASSUME NEW c, c.edges \subseteq Memories \X Memories, NEW m \in Memories
  PROVE  Walk(c, m) \in Memories /\ (Walk(c, m) # m => Successors(c, Walk(c, m)) = {})
<1>0. ChainDepth \in Nat
  BY SearchAssumption
<1>1. PICK f \in [0..ChainDepth -> Memories] :
           /\ f[0] = m /\ \A i \in 1..ChainDepth : f[i] = HopFrom(c, f[i - 1])
           /\ Walk(c, m) = IF /\ Successors(c, f[ChainDepth]) = {}
                              /\ \A n \in 1..ChainDepth : f[n] \in c.live
                           THEN f[ChainDepth] ELSE m
  BY WalkIs
<1>2. f[ChainDepth] \in Memories
  BY <1>0, <1>1
<1> QED BY <1>1, <1>2

\* The successors of m, as the edges of g have them, are an unforked chain within the cap that
\* ends, all of it still live and visible in c.
WholeChain(c, g, m) ==
  \E k \in 1..ChainDepth : \E p \in [0..k -> Memories] :
    /\ p[0] = m /\ Successors(g, p[k]) = {}
    /\ \A i \in 1..k : Successors(g, p[i - 1]) = {p[i]} /\ Eligible(c, p[i])

(* Such a chain is walked to its end, another memory.                       *)
LEMMA WalkFinds ==
  ASSUME NEW c, c.edges \subseteq Memories \X Memories, NEW m \in Memories, WholeChain(c, c, m)
  PROVE  Walk(c, m) # m /\ Eligible(c, Walk(c, m))
<1>0. ChainDepth \in Nat
  BY SearchAssumption
<1>1. PICK k \in 1..ChainDepth : \E p \in [0..k -> Memories] :
        /\ p[0] = m /\ Successors(c, p[k]) = {}
        /\ \A i \in 1..k : Successors(c, p[i - 1]) = {p[i]} /\ Eligible(c, p[i])
  BY DEF WholeChain
<1>2. PICK p \in [0..k -> Memories] :
        /\ p[0] = m /\ Successors(c, p[k]) = {}
        /\ \A i \in 1..k : Successors(c, p[i - 1]) = {p[i]} /\ Eligible(c, p[i])
  BY <1>1
<1>3. PICK f \in [0..ChainDepth -> Memories] :
           /\ f[0] = m /\ \A i \in 1..ChainDepth : f[i] = HopFrom(c, f[i - 1])
           /\ Walk(c, m) = IF /\ Successors(c, f[ChainDepth]) = {}
                              /\ \A n \in 1..ChainDepth : f[n] \in c.live
                           THEN f[ChainDepth] ELSE m
  BY WalkIs
<1>4. k \in Nat /\ k >= 1 /\ k <= ChainDepth
  BY <1>0
<1> DEFINE At(i) == IF i < k THEN i ELSE k
           S == {i \in 0..ChainDepth : f[i] = p[At(i)]}
<1>5. 0 \in S
  BY <1>0, <1>2, <1>3, <1>4
<1>6. ASSUME NEW i \in 1..ChainDepth, i - 1 \in S PROVE i \in S
  <2>1. i \in Nat /\ i >= 1 /\ i - 1 \in Nat /\ f[i] = HopFrom(c, f[i - 1]) /\ f[i - 1] = p[At(i - 1)]
    <3>1. i \in Nat /\ i >= 1 /\ i - 1 \in Nat
      BY <1>0
    <3>2. f[i - 1] = p[At(i - 1)]
      <4> HIDE DEF At
      <4> QED BY <1>6
    <3> QED BY <1>3, <3>1, <3>2
  <2>2. CASE i <= k
    <3>1. At(i - 1) = i - 1 /\ At(i) = i /\ i \in 1..k
      BY <1>4, <2>1, <2>2
    <3>2. Successors(c, f[i - 1]) = {p[i]}
      BY <1>2, <2>1, <3>1
    <3>3. ChooseSuccessor(c, f[i - 1]) \in Successors(c, f[i - 1])
      BY <3>2, SuccessorChosen
    <3>4. f[i] = p[i]
      BY <2>1, <3>2, <3>3 DEF HopFrom
    <3> QED BY <3>1, <3>4
  <2>3. CASE i > k
    <3>1. At(i - 1) = k /\ At(i) = k
      BY <1>4, <2>1, <2>3
    <3>2. f[i] = p[k]
      BY <1>2, <2>1, <3>1 DEF HopFrom
    <3> QED BY <3>1, <3>2
  <2> QED BY <1>4, <2>1, <2>2, <2>3
<1>7. \A i \in 0..ChainDepth : i \in S
  <2> HIDE DEF S
  <2> QED BY <1>0, <1>5, <1>6, StepByStep
<1>8. f[ChainDepth] = p[k]
  BY <1>0, <1>4, <1>7
<1>9. ASSUME NEW n \in 1..ChainDepth PROVE f[n] \in c.live
  <2>1. f[n] = p[At(n)] /\ At(n) \in 1..k
    BY <1>0, <1>4, <1>7
  <2> HIDE DEF At
  <2> QED BY <1>2, <2>1 DEF Eligible
<1>10. Walk(c, m) = p[k]
  BY <1>2, <1>3, <1>8, <1>9
<1>11. Eligible(c, p[k])
  BY <1>2, <1>4
<1>12. Successors(c, m) = {p[1]}
  <2>1. 1 \in 1..k /\ 1 - 1 = 0
    BY <1>4
  <2> QED BY <1>2, <2>1
<1> QED BY <1>2, <1>10, <1>11, <1>12

-----------------------------------------------------------------------------
(* Search: the inductive invariant                                          *)

Stages == {"title", "fts", "vec", "resolve", "rank", "served", "failed"}

SearchTyped ==
  /\ query \in Queries /\ edits \in Nat
  /\ corpus \in [live : SUBSET Memories, visible : SUBSET Memories,
                 edges : SUBSET (Memories \X Memories), corrected : SUBSET Memories]
  /\ DOMAIN search = {"pc", "offset", "window", "fts", "fallback", "vec", "side", "fused", "heads",
                      "grounded", "pool", "page", "earlier", "began", "edges", "exhausted"}
  /\ search.pc \in Stages /\ search.offset \in {0, PageSize} /\ search.window \in Nat
  /\ query.mode = "strict" => search.window <= WindowCap
  /\ search.fts \in Seq(Memories) /\ search.vec \in Seq(Memories)
  /\ search.side[1] \in Seq(Memories) /\ search.side[2] \in Seq(Memories)
  /\ search.fused \in Seq(Memories) /\ IsInjective(search.fused)
  /\ search.pool \in Seq(Memories) /\ IsInjective(search.pool)
  /\ search.page \in Seq(Memories) /\ IsInjective(search.page)

\* What has been read and decided was visible when the caller asked; what is visible now, too.
SearchSeen ==
  /\ search.pc # "failed" => EligibleSet(corpus) \subseteq search.began
  /\ ToSet(search.fts) \subseteq search.began /\ ToSet(search.vec) \subseteq search.began
  /\ ToSet(search.side[1]) \subseteq search.began /\ ToSet(search.side[2]) \subseteq search.began
  /\ ToSet(search.fused) \subseteq search.began /\ ToSet(search.pool) \subseteq search.began
  /\ ToSet(search.page) \subseteq search.began
  /\ ~search.fallback => ToSet(search.fts) \subseteq query.full

\* In strict mode the pool has no memory with a whole chain of successors, and the page has only
\* members of the pool that pass the gate.
SearchGated ==
  query.mode = "strict" =>
    /\ search.pc \in {"rank", "served"} =>
         /\ search.grounded = GroundedHeads(query, search, search.heads)
         /\ \A m \in ToSet(search.pool) : ~WholeChain(corpus, search, m)
    /\ search.pc = "served" =>
         \A m \in ToSet(search.page) : m \in ToSet(search.pool) /\ Accept(query, search, m)

SearchOrdered ==
  /\ search.pc = "title" => search.pool = <<>>
  /\ search.pc = "rank" /\ query.mode # "strict" => search.pool = search.fused
  /\ PoolKeepsCandidates

\* What ranking keeps of one pass over the corpus, and the answer cut from it.
Kept(c, q, w) == RankedPool(c, q, SearchedWith(c, q, w))
TitleHits(c, q) == {m \in q.titled : Eligible(c, m)}
Titled(c, q) == q.mode \in {"broad", "history"} /\ Cardinality(TitleHits(c, q)) = 1
Answer(c, q, offset, w) ==
  IF q.mode = "browse" THEN Page(Browsed(c), offset)
  ELSE IF Titled(c, q) THEN IF offset = 0 THEN << CHOOSE m \in TitleHits(c, q) : TRUE >> ELSE <<>>
  ELSE Page(Kept(c, q, w), offset)

\* A search s of an unchanged corpus has read what one pass reads.
AsRead(s, t) == s.fts = t.fts /\ s.fallback = t.fallback
AsFused(s, t) == s.vec = t.vec /\ s.side = t.side /\ s.fused = t.fused
AsResolved(s, t) == s.heads = t.heads /\ s.grounded = t.grounded /\ s.pool = t.pool

SearchPassed ==
  edits = 0 =>
    LET t == SearchedWith(corpus, query, search.window)
    IN  /\ search.pc \in {"vec", "resolve", "rank"} => AsRead(search, t)
        /\ search.pc \in {"resolve", "rank"} =>
             /\ AsFused(search, t)
             /\ search.exhausted = Exhausted(query, t.fts, t.vec, t.side, search.window)
        /\ search.pc = "rank" => AsResolved(search, t)
        /\ search.pc \in {"fts", "vec", "resolve", "rank"} => query.mode # "browse" /\ ~Titled(corpus, query)

\* The widening stopped for a reason.
Stopped(c, q, offset, w) ==
  LET t == SearchedWith(c, q, w)
  IN  \/ Len(Kept(c, q, w)) >= offset + PageSize \/ w >= WindowCap
      \/ Exhausted(q, t.fts, t.vec, t.side, w)

SearchPaged ==
  edits = 0 =>
    /\ search.pc # "failed" /\ search.window # StartWindow(query, search.offset) =>
         Len(Kept(corpus, query, StartWindow(query, search.offset))) < search.offset + PageSize
    /\ search.pc = "served" =>
         /\ search.page = Answer(corpus, query, search.offset, search.window)
         /\ query.mode = "strict" => Stopped(corpus, query, search.offset, search.window)
    /\ search.pc # "failed" /\ search.offset = PageSize =>
         \E w \in Nat :
           /\ search.earlier = Answer(corpus, query, 0, w)
           /\ w = StartWindow(query, 0) \/ Len(Kept(corpus, query, StartWindow(query, 0))) < PageSize
    /\ search.offset = 0 => search.earlier = <<>>

SearchInv ==
  SearchTyped /\ SearchSeen /\ SearchGated /\ SearchOrdered /\ SearchPassed /\ SearchPaged

(* What one pass reads.                                                     *)
LEMMA PassReads ==
  ASSUME NEW c, c.edges \subseteq Memories \X Memories, NEW q \in Queries, NEW w \in Nat
  PROVE  LET t == SearchedWith(c, q, w)
         IN  /\ t.fts = FtsRows(c, q, w) /\ t.fallback = UsedFallback(c, q, w)
             /\ t.vec = SemanticRows(c, w) /\ t.side = SideRows(c, q, w)
             /\ t.fused = Fuse(t.fts, t.vec, t.side, w)
             /\ t.heads = IF q.mode = "strict" THEN ResolvedHeads(c, t.fused) ELSE [m \in {} |-> m]
             /\ t.grounded = GroundedHeads(q, t, t.heads)
             /\ t.pool = PoolOf(t.fused, t.heads, t.fts, t.vec, t.side)
<1> DEFINE fts      == FtsRows(c, q, w)
           fallback == UsedFallback(c, q, w)
           vec      == SemanticRows(c, w)
           side     == SideRows(c, q, w)
           fused    == Fuse(fts, vec, side, w)
           heads    == IF q.mode = "strict" THEN ResolvedHeads(c, fused) ELSE [m \in {} |-> m]
           brief    == [fts |-> fts, fallback |-> fallback]
           grounded == GroundedHeads(q, brief, heads)
           pool     == PoolOf(fused, heads, fts, vec, side)
           t        == SearchedWith(c, q, w)
<1>1. t = [fts |-> fts, fallback |-> fallback, vec |-> vec, side |-> side, fused |-> fused,
           heads |-> heads, grounded |-> grounded, pool |-> pool]
  BY DEF SearchedWith
<1>2. brief.fts = fts /\ brief.fallback = fallback
  OBVIOUS
<1>3. /\ t.fts = FtsRows(c, q, w) /\ t.fallback = UsedFallback(c, q, w)
      /\ t.vec = SemanticRows(c, w) /\ t.side = SideRows(c, q, w)
  <2>1. fts = FtsRows(c, q, w) /\ fallback = UsedFallback(c, q, w) /\ vec = SemanticRows(c, w) /\ side = SideRows(c, q, w)
    OBVIOUS
  <2> HIDE DEF fts, fallback, vec, side, fused, heads, grounded, pool, t
  <2> QED BY <1>1, <2>1
<1>4. /\ fused = Fuse(fts, vec, side, w) /\ pool = PoolOf(fused, heads, fts, vec, side)
      /\ heads = IF q.mode = "strict" THEN ResolvedHeads(c, fused) ELSE [m \in {} |-> m]
  OBVIOUS
<1>5. \A s : s.fts = fts /\ s.fallback = fallback => GroundedHeads(q, s, heads) = grounded
  <2> HIDE DEF fts, fallback, heads, brief
  <2> QED BY <1>2 DEF GroundedHeads, PredecessorGrounds
<1> HIDE DEF fts, fallback, vec, side, fused, heads, grounded, pool, t
<1>6. /\ t.fts = fts /\ t.fallback = fallback /\ t.vec = vec /\ t.side = side /\ t.fused = fused
      /\ t.heads = heads /\ t.grounded = grounded /\ t.pool = pool
  BY <1>1
<1>7. t.grounded = GroundedHeads(q, t, t.heads)
  BY <1>5, <1>6
<1> QED BY <1>3, <1>4, <1>6, <1>7 DEF t

(* Heads are live, visible and superseded by nothing; what keeps its place  *)
(* has no whole chain of successors.                                        *)
LEMMA HeadsKeep ==
  ASSUME NEW c, c.edges \subseteq Memories \X Memories, NEW fused \in Seq(Memories)
  PROVE  /\ \A m \in DOMAIN ResolvedHeads(c, fused) :
              ResolvedHeads(c, fused)[m] \in EligibleSet(c)
         /\ \A m \in ToSet(fused) : ~WholeChain(c, c, Replaced(ResolvedHeads(c, fused), m))
<1> DEFINE R == {m \in ToSet(fused) : Walk(c, m) # m /\ HeadAdmitted(c, Walk(c, m))}
           heads == ResolvedHeads(c, fused)
<1>1. ToSet(fused) \subseteq Memories
  BY DEF ToSet
<1>2. heads = [m \in R |-> Walk(c, m)]
  BY DEF ResolvedHeads
<1> HIDE DEF heads
<1>3. ASSUME NEW m \in DOMAIN heads
      PROVE  /\ m \in ToSet(fused) /\ heads[m] = Walk(c, m) /\ Walk(c, m) # m
             /\ Eligible(c, Walk(c, m)) /\ m \in Memories
  BY <1>1, <1>2 DEF HeadAdmitted
<1>4. ASSUME NEW m \in DOMAIN heads PROVE heads[m] \in EligibleSet(c)
  BY <1>3, WalkEnds DEF EligibleSet
<1>5. ASSUME NEW m \in ToSet(fused), WholeChain(c, c, Replaced(heads, m)) PROVE FALSE
  <2>1. CASE m \in DOMAIN heads
    <3> DEFINE h == Walk(c, m)
    <3>1. Replaced(heads, m) = h /\ Successors(c, h) = {}
      BY <1>3, <2>1, WalkEnds DEF Replaced
    <3> HIDE DEF h
    <3>2. PICK k \in 1..ChainDepth : \E p \in [0..k -> Memories] :
            /\ p[0] = h
            /\ \A i \in 1..k : Successors(c, p[i - 1]) = {p[i]} /\ Eligible(c, p[i])
      BY <1>5, <3>1 DEF WholeChain
    <3>3. PICK p \in [0..k -> Memories] :
            p[0] = h /\ \A i \in 1..k : Successors(c, p[i - 1]) = {p[i]}
      BY <3>2
    <3>4. 1 \in 1..k /\ 1 - 1 = 0
      BY SearchAssumption
    <3> QED BY <3>1, <3>3, <3>4
  <2>2. CASE m \notin DOMAIN heads
    <3>1. Replaced(heads, m) = m /\ m \in Memories
      BY <1>1, <2>2 DEF Replaced
    <3>2. Walk(c, m) # m /\ Eligible(c, Walk(c, m))
      BY <1>5, <3>1, WalkFinds
    <3> QED BY <1>2, <2>2, <3>2 DEF HeadAdmitted
  <2> QED BY <2>1, <2>2
<1> QED BY <1>4, <1>5 DEF heads

\* What a pass t over the window w is made of.
PassFacts(c, q, w, t) ==
  /\ t.fts \in Seq(Memories) /\ ToSet(t.fts) \subseteq EligibleSet(c)
  /\ t.vec \in Seq(Memories) /\ ToSet(t.vec) \subseteq EligibleSet(c) /\ IsInjective(t.vec)
  /\ t.side[1] \in Seq(Memories) /\ ToSet(t.side[1]) \subseteq EligibleSet(c)
  /\ t.side[2] \in Seq(Memories) /\ ToSet(t.side[2]) \subseteq EligibleSet(c)
  /\ t.fused \in Seq(Memories) /\ IsInjective(t.fused)
  /\ t.pool \in Seq(Memories) /\ IsInjective(t.pool)
  /\ ToSet(t.pool) = Replacements(t.heads, ToSet(t.fused))
  /\ Kept(c, q, w) \in Seq(Memories) /\ IsInjective(Kept(c, q, w))
  /\ q.mode = "strict" => ToSet(Kept(c, q, w)) = {m \in ToSet(t.pool) : Accept(q, t, m)}

(* A pass lists memories the caller may see, each once where it fuses them. *)
LEMMA PassKeeps ==
  ASSUME NEW c, c.edges \subseteq Memories \X Memories, NEW q \in Queries, NEW w \in Nat
  PROVE  PassFacts(c, q, w, SearchedWith(c, q, w))
<1> DEFINE t == SearchedWith(c, q, w)
<1>1. /\ t.fts = FtsRows(c, q, w) /\ t.vec = SemanticRows(c, w) /\ t.side = SideRows(c, q, w)
      /\ t.fused = Fuse(t.fts, t.vec, t.side, w)
      /\ t.heads = IF q.mode = "strict" THEN ResolvedHeads(c, t.fused) ELSE [m \in {} |-> m]
      /\ t.pool = PoolOf(t.fused, t.heads, t.fts, t.vec, t.side)
  BY PassReads
<1>2. Kept(c, q, w) = RankedPool(c, q, t)
  BY DEF Kept
<1> HIDE DEF t
<1>3. t.fts \in Seq(Memories) /\ ToSet(t.fts) \subseteq EligibleSet(c)
  BY <1>1, FtsKeeps
<1>4. t.vec \in Seq(Memories) /\ ToSet(t.vec) \subseteq EligibleSet(c) /\ IsInjective(t.vec)
  BY <1>1, SemanticKeeps
<1>5. /\ t.side[1] \in Seq(Memories) /\ ToSet(t.side[1]) \subseteq EligibleSet(c)
      /\ t.side[2] \in Seq(Memories) /\ ToSet(t.side[2]) \subseteq EligibleSet(c)
  BY <1>1, SideKeeps
<1>6. t.fused \in Seq(Memories) /\ IsInjective(t.fused)
  <2> DEFINE a == t.fts
             b == t.vec
             d == t.side
  <2>1. a \in Seq(Memories) /\ b \in Seq(Memories) /\ d[1] \in Seq(Memories) /\ d[2] \in Seq(Memories)
    BY <1>3, <1>4, <1>5
  <2>2. t.fused = Fuse(a, b, d, w)
    BY <1>1
  <2> HIDE DEF a, b, d
  <2>3. Fuse(a, b, d, w) \in Seq(Memories) /\ IsInjective(Fuse(a, b, d, w))
    BY <2>1, FuseKeeps, Zenon
  <2> QED BY <2>2, <2>3
<1>7. HeadsNamed(t.heads)
  <2>1. CASE q.mode = "strict"
    BY <1>1, <1>6, <2>1, HeadsKeep DEF EligibleSet, HeadsNamed
  <2>2. CASE q.mode # "strict"
    BY <1>1, <2>2 DEF HeadsNamed
  <2> QED BY <2>1, <2>2
<1>8. /\ t.pool \in Seq(Memories) /\ IsInjective(t.pool)
      /\ ToSet(t.pool) = Replacements(t.heads, ToSet(t.fused))
  <2> DEFINE a == t.fts
             b == t.vec
             d == t.side
             f == t.fused
             h == t.heads
  <2>1. /\ a \in Seq(Memories) /\ b \in Seq(Memories) /\ d[1] \in Seq(Memories) /\ d[2] \in Seq(Memories)
        /\ f \in Seq(Memories) /\ IsInjective(f) /\ HeadsNamed(h)
    BY <1>3, <1>4, <1>5, <1>6, <1>7
  <2>2. t.pool = PoolOf(f, h, a, b, d)
    BY <1>1
  <2> HIDE DEF a, b, d, f, h
  <2>3. /\ PoolOf(f, h, a, b, d) \in Seq(Memories) /\ IsInjective(PoolOf(f, h, a, b, d))
        /\ ToSet(PoolOf(f, h, a, b, d)) = Replacements(h, ToSet(f))
    <3>1. f \in Seq(Memories) /\ IsInjective(f)
      BY <2>1
    <3>2. a \in Seq(Memories) /\ b \in Seq(Memories)
      BY <2>1
    <3>3. d[1] \in Seq(Memories) /\ d[2] \in Seq(Memories)
      BY <2>1
    <3>4. HeadsNamed(h)
      BY <2>1
    <3>5. PoolOf(f, h, a, b, d) \in Seq(Memories)
      BY <3>1, <3>2, <3>3, <3>4, PoolOfKeeps, Zenon
    <3>6. IsInjective(PoolOf(f, h, a, b, d))
      BY <3>1, <3>2, <3>3, <3>4, PoolOfKeeps, SMTT(60)
    <3>7. ToSet(PoolOf(f, h, a, b, d)) = Replacements(h, ToSet(f))
      BY <3>1, <3>2, <3>3, <3>4, PoolOfKeeps, SMTT(60)
    <3> QED BY <3>5, <3>6, <3>7
  <2> QED BY <2>2, <2>3 DEF f, h
<1>9. /\ Kept(c, q, w) \in Seq(Memories) /\ IsInjective(Kept(c, q, w))
      /\ q.mode = "strict" => ToSet(Kept(c, q, w)) = {m \in ToSet(t.pool) : Accept(q, t, m)}
  BY <1>2, <1>8, RankedKeeps
<1>10. PassFacts(c, q, w, t)
  BY <1>3, <1>4, <1>5, <1>6, <1>8, <1>9 DEF PassFacts
<1> QED BY <1>10 DEF t

(* Ranking reads no more of a search than a pass has.                       *)
LEMMA SameRanking ==
  ASSUME NEW c, NEW q, NEW s, NEW t, AsRead(s, t), s.vec = t.vec, AsResolved(s, t)
  PROVE  RankedPool(c, q, s) = RankedPool(c, q, t)
<1>1. \A m : Accept(q, s, m) <=> Accept(q, t, m)
  BY DEF Accept, AcceptDirect, AsRead, AsResolved
<1>2. {m \in Memories : Accept(q, s, m)} = {m \in Memories : Accept(q, t, m)}
  BY <1>1
<1>3. s.pool = t.pool
  BY DEF AsResolved
<1> QED BY <1>2, <1>3 DEF RankedPool

(* Without filters and with a vector for every live memory, a pass that     *)
(* exhausts its channels keeps as much as one over any wider window.        *)
LEMMA ExhaustedIsAll ==
  ASSUME NEW c, c.edges \subseteq Memories \X Memories, c.visible = Memories,
         c.live \subseteq ToSet(VectorOrder),
         NEW q \in Queries, q.mode = "strict", NEW w \in Nat, NEW v \in Nat, w <= v,
         LET t == SearchedWith(c, q, w) IN Exhausted(q, t.fts, t.vec, t.side, w)
  PROVE  Len(Kept(c, q, v)) = Len(Kept(c, q, w))
<1> DEFINE t == SearchedWith(c, q, w)
           u == SearchedWith(c, q, v)
<1>1. /\ t.fts = FtsRows(c, q, w) /\ t.fallback = UsedFallback(c, q, w) /\ t.vec = SemanticRows(c, w)
      /\ t.fused = Fuse(t.fts, t.vec, t.side, w) /\ t.heads = ResolvedHeads(c, t.fused)
      /\ t.grounded = GroundedHeads(q, t, t.heads)
  BY PassReads
<1>2. /\ u.fts = FtsRows(c, q, v) /\ u.fallback = UsedFallback(c, q, v) /\ u.vec = SemanticRows(c, v)
      /\ u.fused = Fuse(u.fts, u.vec, u.side, v) /\ u.heads = ResolvedHeads(c, u.fused)
      /\ u.grounded = GroundedHeads(q, u, u.heads)
  BY PassReads
<1>3. PassFacts(c, q, w, t)
  BY PassKeeps
<1>4. PassFacts(c, q, v, u)
  BY PassKeeps
<1>5. Len(t.fts) < w /\ Len(t.vec) < w
  BY DEF Exhausted
<1> HIDE DEF t, u
<1>6. u.fts = t.fts /\ u.fallback = t.fallback
  BY <1>1, <1>2, <1>5, FtsKeeps
<1>7. ToSet(t.vec) = EligibleSet(c) /\ ToSet(u.vec) = EligibleSet(c)
  <2>1. w <= w
    OBVIOUS
  <2> QED BY <1>1, <1>2, <1>5, <2>1, SemanticKeeps
<1>8. Cardinality(EligibleSet(c)) = Len(t.vec) /\ Len(t.vec) \in Nat
  BY <1>3, <1>7, ListSize DEF PassFacts
<1>9. Cardinality(EligibleSet(c)) <= w /\ Cardinality(EligibleSet(c)) <= v
  BY <1>5, <1>8
<1>10. ToSet(t.fused) = EligibleSet(c)
  <2> DEFINE all == ToSet(t.fts) \cup ToSet(t.vec) \cup ToSet(t.side[1]) \cup ToSet(t.side[2])
  <2>1. all = EligibleSet(c)
    BY <1>3, <1>7 DEF PassFacts
  <2>2. Cardinality(all) <= w => ToSet(Fuse(t.fts, t.vec, t.side, w)) = all
    BY <1>3, FuseKeeps DEF PassFacts
  <2> HIDE DEF all
  <2> QED BY <1>1, <1>9, <2>1, <2>2
<1>11. ToSet(u.fused) = EligibleSet(c)
  <2> DEFINE all == ToSet(u.fts) \cup ToSet(u.vec) \cup ToSet(u.side[1]) \cup ToSet(u.side[2])
  <2>1. all = EligibleSet(c)
    BY <1>4, <1>7 DEF PassFacts
  <2>2. Cardinality(all) <= v => ToSet(Fuse(u.fts, u.vec, u.side, v)) = all
    BY <1>4, FuseKeeps DEF PassFacts
  <2> HIDE DEF all
  <2> QED BY <1>2, <1>9, <2>1, <2>2
<1>12. t.heads = u.heads
  BY <1>1, <1>2, <1>10, <1>11 DEF ResolvedHeads
<1>13. t.grounded = u.grounded
  BY <1>1, <1>2, <1>6, <1>12 DEF GroundedHeads, PredecessorGrounds
<1>14. \A m : Accept(q, t, m) <=> Accept(q, u, m)
  BY <1>6, <1>7, <1>12, <1>13 DEF Accept, AcceptDirect
<1>15. ToSet(t.pool) = ToSet(u.pool)
  BY <1>3, <1>4, <1>10, <1>11, <1>12 DEF PassFacts
<1>16. ToSet(Kept(c, q, w)) = ToSet(Kept(c, q, v))
  BY <1>3, <1>4, <1>14, <1>15 DEF PassFacts
<1>17. /\ Cardinality(ToSet(Kept(c, q, w))) = Len(Kept(c, q, w))
       /\ Cardinality(ToSet(Kept(c, q, v))) = Len(Kept(c, q, v))
  BY <1>3, <1>4, ListSize DEF PassFacts
<1> QED BY <1>16, <1>17

(* The properties follow.                                                   *)
LEMMA InvServesRightly == SearchInv => ServedRightly
<1> SUFFICES ASSUME SearchInv PROVE ServedRightly
  OBVIOUS
<1>1. ServedWereVisible
  BY DEF SearchInv, SearchSeen, ServedWereVisible
<1>2. ASSUME Served, query.mode = "strict"
      PROVE  /\ search.grounded = GroundedHeads(query, search, search.heads)
             /\ \A m \in ToSet(search.page) :
                  /\ m \in Memories /\ ~WholeChain(corpus, search, m) /\ Accept(query, search, m)
             /\ ~search.fallback => ToSet(search.fts) \subseteq query.full
  <2>1. ToSet(search.page) \subseteq Memories
    BY DEF SearchInv, SearchTyped, ToSet
  <2> QED BY <1>2, <2>1 DEF SearchInv, SearchSeen, SearchGated, Served
<1>3. StrictIsGrounded
  <2> SUFFICES ASSUME Served, query.mode = "strict", NEW m \in ToSet(search.page)
               PROVE  \E k \in {m} \cup {k \in DOMAIN search.heads : search.heads[k] = m} :
                        /\ k \in ToSet(search.fts) \cup ToSet(search.vec)
                        /\ k \in query.topic \/ (k \in ToSet(search.fts) /\ k \in query.full)
    BY DEF StrictIsGrounded
  <2>1. Accept(query, search, m)
    BY <1>2
  <2>2. CASE AcceptDirect(query, search, m)
    <3>1. /\ m \in ToSet(search.fts) \cup ToSet(search.vec)
          /\ m \in query.topic \/ (m \in ToSet(search.fts) /\ m \in query.full)
      BY <1>2, <2>2 DEF AcceptDirect, SameTopic
    <3> QED BY <3>1
  <2>3. CASE ~AcceptDirect(query, search, m)
    <3>1. m \in GroundedHeads(query, search, search.heads)
      BY <1>2, <2>1, <2>3 DEF Accept
    <3>2. PICK k \in DOMAIN search.heads : search.heads[k] = m /\ PredecessorGrounds(query, search, k)
      BY <3>1 DEF GroundedHeads
    <3>3. k \in ToSet(search.fts) /\ (k \in query.topic \/ k \in query.full)
      BY <1>2, <3>2 DEF PredecessorGrounds, SameTopic
    <3> QED BY <3>2, <3>3
  <2> QED BY <2>2, <2>3
<1>4. StrictServesHeads
  <2> SUFFICES ASSUME Served, query.mode = "strict", NEW m \in ToSet(search.page), NEW k \in 1..ChainDepth,
                      NEW p \in [0..k -> Memories],
                      p[0] = m, Successors(search, p[k]) = {},
                      \A i \in 1..k : Successors(search, p[i - 1]) = {p[i]} /\ Eligible(corpus, p[i])
               PROVE  FALSE
    BY DEF StrictServesHeads
  <2>1. WholeChain(corpus, search, m)
    BY DEF WholeChain
  <2> QED BY <1>2, <2>1
<1> QED BY <1>1, <1>3, <1>4 DEF ServedRightly

(* What browsing lists, it lists once.                                      *)
LEMMA BrowsedKeeps ==
  ASSUME NEW c
  PROVE  Browsed(c) \in Seq(Memories) /\ IsInjective(Browsed(c)) /\ ToSet(Browsed(c)) \subseteq EligibleSet(c)
<1> DEFINE r == Reverse(Recency)
<1>1. r \in Seq(Memories) /\ IsInjective(r)
  BY SearchAssumption, ReverseKeeps
<1> HIDE DEF r
<1>2. /\ Only(r, EligibleSet(c)) \in Seq(Memories) /\ IsInjective(Only(r, EligibleSet(c)))
      /\ ToSet(Only(r, EligibleSet(c))) = ToSet(r) \cap EligibleSet(c)
  BY <1>1, OnlyKeeps
<1> QED BY <1>2 DEF Browsed, r

(* A strict search starts within the cap.                                   *)
LEMMA WindowsKeep ==
  ASSUME NEW q
  PROVE  /\ \A offset \in Nat : StartWindow(q, offset) \in Nat
         /\ \A offset \in Nat : q.mode = "strict" => StartWindow(q, offset) <= WindowCap
<1>1. PageSize \in Nat /\ PoolSize \in Nat /\ WindowCap \in Nat
  BY SearchAssumption
<1> QED BY <1>1 DEF StartWindow, BaseWindow

(* Paging is complete in every state of the invariant.                      *)
LEMMA InvCompletesPages == SearchInv => PagesComplete
<1> SUFFICES ASSUME SearchInv PROVE PagesComplete
  OBVIOUS
<1>0. /\ PageSize \in Nat /\ PageSize # 0 /\ WindowCap \in Nat /\ search.offset \in {0, PageSize} /\ query \in Queries
      /\ search.offset \in Nat /\ search.window \in Nat /\ search.page \in Seq(Memories)
      /\ corpus.edges \subseteq Memories \X Memories /\ StartWindow(query, 0) \in Nat
  <2>1. PageSize \in Nat /\ PageSize # 0 /\ WindowCap \in Nat
    BY SearchAssumption
  <2>2. /\ search.offset \in {0, PageSize} /\ query \in Queries /\ search.window \in Nat
        /\ search.page \in Seq(Memories)
        /\ corpus \in [live : SUBSET Memories, visible : SUBSET Memories,
                       edges : SUBSET (Memories \X Memories), corrected : SUBSET Memories]
    BY DEF SearchInv, SearchTyped
  <2>3. search.offset \in Nat /\ corpus.edges \subseteq Memories \X Memories
    BY <2>1, <2>2
  <2>4. StartWindow(query, 0) \in Nat
    BY WindowsKeep
  <2> QED BY <2>1, <2>2, <2>3, <2>4
<1>1. PoolKeepsCandidates
  BY DEF SearchInv, SearchOrdered
<1>2. PagesDisjoint
  <2> SUFFICES ASSUME Served PROVE /\ IsInjective(search.page)
                                   /\ edits = 0 /\ search.window = StartWindow(query, 0)
                                        => ToSet(search.page) \cap ToSet(search.earlier) = {}
    BY DEF PagesDisjoint
  <2>1. IsInjective(search.page)
    BY DEF SearchInv, SearchTyped
  <2>2. ASSUME edits = 0, search.window = StartWindow(query, 0)
        PROVE  ToSet(search.page) \cap ToSet(search.earlier) = {}
    <3> DEFINE W == StartWindow(query, 0)
               K == Kept(corpus, query, W)
    <3>1. CASE search.offset = 0
      <4>1. search.earlier = <<>> /\ ToSet(<<>>) = {}
        BY <2>2, <3>1 DEF SearchInv, SearchPaged, ToSet
      <4> QED BY <4>1
    <3>2. CASE search.offset = PageSize
      <4>1. search.page = Answer(corpus, query, PageSize, W)
        BY <2>2, <3>2 DEF SearchInv, SearchPaged, Served
      <4>2. PICK w \in Nat : /\ search.earlier = Answer(corpus, query, 0, w)
                             /\ w = W \/ Len(K) < PageSize
        BY <2>2, <3>2 DEF SearchInv, SearchPaged, Served
      <4>3. ToSet(<<>>) = {}
        BY DEF ToSet
      <4>4. CASE query.mode = "browse"
        <5>1. search.page = Page(Browsed(corpus), PageSize) /\ search.earlier = Page(Browsed(corpus), 0)
          BY <4>1, <4>2, <4>4 DEF Answer
        <5> QED BY <5>1, BrowsedKeeps, PagesApart
      <4>5. CASE query.mode # "browse" /\ Titled(corpus, query)
        <5>1. search.page = <<>>
          BY <1>0, <4>1, <4>5 DEF Answer
        <5> QED BY <4>3, <5>1
      <4>6. CASE query.mode # "browse" /\ ~Titled(corpus, query)
        <5>1. search.page = Page(K, PageSize) /\ search.earlier = Page(Kept(corpus, query, w), 0)
          BY <4>1, <4>2, <4>6 DEF Answer
        <5>2. K \in Seq(Memories) /\ IsInjective(K)
          BY <1>0, PassKeeps DEF PassFacts
        <5>3. CASE w = W
          BY <5>1, <5>2, <5>3, PagesApart
        <5>4. CASE Len(K) < PageSize
          <6> HIDE DEF K
          <6>1. Len(K) <= PageSize
            BY <1>0, <5>2, <5>4
          <6>2. Page(K, PageSize) = <<>>
            BY <1>0, <5>2, <6>1, PageKeeps
          <6> QED BY <4>3, <5>1, <6>2
        <5> QED BY <4>2, <5>3, <5>4
      <4> QED BY <4>4, <4>5, <4>6
    <3> QED BY <1>0, <3>1, <3>2
  <2> QED BY <2>1, <2>2
<1>3. UnfilteredPageIsAll
  <2> SUFFICES ASSUME ShortPage, corpus.visible = Memories, corpus.live \subseteq ToSet(VectorOrder)
               PROVE  Len(WidestPool) <= search.offset + Len(search.page)
    BY DEF UnfilteredPageIsAll, ShortPageIsAll
  <2> DEFINE K == Kept(corpus, query, search.window)
             t == SearchedWith(corpus, query, search.window)
  <2>1. /\ search.pc = "served" /\ query.mode = "strict" /\ edits = 0 /\ Len(search.page) < PageSize
        /\ search.window <= WindowCap
    BY DEF ShortPage, Served, SearchInv, SearchTyped
  <2>2. WidestPool = Kept(corpus, query, WindowCap)
    BY DEF WidestPool, Kept
  <2>3. search.page = Page(K, search.offset)
    <3>1. search.page = Answer(corpus, query, search.offset, search.window)
      BY <2>1 DEF SearchInv, SearchPaged
    <3> QED BY <2>1, <3>1 DEF Answer, Titled
  <2>4. K \in Seq(Memories)
    BY <1>0, PassKeeps DEF PassFacts
  <2>5. Stopped(corpus, query, search.offset, search.window)
    BY <2>1 DEF SearchInv, SearchPaged
  <2>6. Len(K) < search.offset + PageSize /\ Len(K) <= search.offset + Len(search.page)
    <3> HIDE DEF K
    <3>1. /\ Len(K) >= search.offset + PageSize => Len(Page(K, search.offset)) = PageSize
          /\ Len(K) < search.offset + PageSize => Len(K) <= search.offset + Len(Page(K, search.offset))
      BY <1>0, <2>4, PageKeeps
    <3>2. Len(K) \in Nat /\ Len(search.page) \in Nat
      BY <1>0, <2>4
    <3> QED BY <1>0, <2>1, <2>3, <3>1, <3>2
  <2>7. Len(Kept(corpus, query, WindowCap)) = Len(K)
    <3>1. search.window >= WindowCap \/ Exhausted(query, t.fts, t.vec, t.side, search.window)
      <4>1. ~(Len(K) >= search.offset + PageSize)
        <5> HIDE DEF K
        <5>1. Len(K) \in Nat
          BY <2>4
        <5> QED BY <1>0, <2>6, <5>1
      <4> QED BY <2>5, <4>1 DEF Stopped
    <3>2. CASE search.window >= WindowCap
      <4>1. search.window = WindowCap
        BY <1>0, <2>1, <3>2
      <4> QED BY <4>1
    <3>3. CASE Exhausted(query, t.fts, t.vec, t.side, search.window)
      BY <1>0, <2>1, <3>3, ExhaustedIsAll
    <3> QED BY <3>1, <3>2, <3>3
  <2> QED BY <2>2, <2>6, <2>7
<1> QED BY <1>1, <1>2, <1>3 DEF PagesComplete

-----------------------------------------------------------------------------
(* Search: every step keeps the invariant                                   *)

\* A search that has read nothing yet.
Blank(s) ==
  /\ DOMAIN s = {"pc", "offset", "window", "fts", "fallback", "vec", "side", "fused", "heads",
                 "grounded", "pool", "page", "earlier", "began", "edges", "exhausted"}
  /\ s.fts = <<>> /\ s.vec = <<>> /\ s.side[1] = <<>> /\ s.side[2] = <<>>
  /\ s.fused = <<>> /\ s.pool = <<>> /\ s.page = <<>>

(* The empty list.                                                          *)
LEMMA NothingRead == << >> \in Seq(Memories) /\ IsInjective(<< >>) /\ ToSet(<< >>) = {}
BY DEF IsInjective, ToSet

(* A call starts with nothing read.                                         *)
LEMMA SearchInitInv == SearchInit => SearchInv
<1> SUFFICES ASSUME SearchInit PROVE SearchInv
  OBVIOUS
<1>1. /\ Blank(search) /\ search.pc = "title" /\ search.offset = 0 /\ search.window = StartWindow(query, 0)
      /\ search.earlier = <<>> /\ search.began = EligibleSet(corpus)
  BY DEF SearchInit, NewSearch, Blank
<1>2. query \in Queries /\ corpus \in Corpora /\ edits = 0
  BY DEF SearchInit
<1>3. 0 \in Nat /\ StartWindow(query, 0) \in Nat /\ (query.mode = "strict" => StartWindow(query, 0) <= WindowCap)
  BY WindowsKeep
<1>4. SearchTyped
  BY <1>1, <1>2, <1>3, NothingRead, SearchAssumption DEF SearchTyped, Blank, Stages
<1>5. SearchSeen
  BY <1>1, NothingRead DEF SearchSeen, Blank
<1>6. SearchGated
  BY <1>1 DEF SearchGated
<1>7. SearchOrdered
  BY <1>1 DEF SearchOrdered, PoolKeepsCandidates, Served, Blank
<1>8. SearchPassed
  BY <1>1 DEF SearchPassed
<1>9. SearchPaged
  <2>1. PageSize # 0
    BY SearchAssumption
  <2> QED BY <1>1, <2>1 DEF SearchPaged
<1> QED BY <1>4, <1>5, <1>6, <1>7, <1>8, <1>9 DEF SearchInv

(* A search that fails keeps no rows.                                       *)
LEMMA SearchFailsKeeps ==
  ASSUME SearchInv, SearchFails PROVE SearchInv'
<1>1. /\ Blank(search') /\ search'.pc = "failed" /\ search'.offset = search.offset /\ search'.window = 0
      /\ search'.earlier = <<>>
  BY DEF SearchFails, NewSearch, Blank
<1>2. corpus' = corpus /\ query' = query /\ edits' = edits
  BY DEF SearchFails
<1>3. SearchTyped'
  <2>1. WindowCap \in Nat /\ 0 <= WindowCap
    BY SearchAssumption
  <2> QED BY <1>1, <1>2, <2>1, NothingRead DEF SearchInv, SearchTyped, Blank, Stages
<1>4. SearchSeen'
  BY <1>1, NothingRead DEF SearchSeen, Blank
<1>5. SearchGated'
  BY <1>1 DEF SearchGated
<1>6. SearchOrdered'
  BY <1>1 DEF SearchOrdered, PoolKeepsCandidates, Served, Blank
<1>7. SearchPassed'
  BY <1>1 DEF SearchPassed
<1>8. SearchPaged'
  BY <1>1 DEF SearchPaged
<1> QED BY <1>3, <1>4, <1>5, <1>6, <1>7, <1>8 DEF SearchInv

(* The next page starts anew and remembers the one before.                  *)
LEMMA NextPageKeeps ==
  ASSUME SearchInv, NextPage PROVE SearchInv'
<1>1. /\ Blank(search') /\ search'.pc = "title" /\ search'.offset = PageSize
      /\ search'.window = StartWindow(query, PageSize)
      /\ search'.earlier = search.page /\ search'.began = EligibleSet(corpus)
  BY DEF NextPage, NewSearch, Blank
<1>2. corpus' = corpus /\ query' = query /\ edits' = edits /\ search.pc = "served" /\ search.offset = 0
  BY DEF NextPage
<1>3. PageSize \in Nat /\ PageSize # 0
  BY SearchAssumption
<1>4. StartWindow(query, PageSize) \in Nat /\ (query.mode = "strict" => StartWindow(query, PageSize) <= WindowCap)
  BY <1>3, WindowsKeep
<1>5. SearchTyped'
  BY <1>1, <1>2, <1>4, NothingRead DEF SearchInv, SearchTyped, Blank, Stages
<1>6. SearchSeen'
  BY <1>1, <1>2, NothingRead DEF SearchSeen, Blank
<1>7. SearchGated'
  BY <1>1 DEF SearchGated
<1>8. SearchOrdered'
  BY <1>1 DEF SearchOrdered, PoolKeepsCandidates, Served, Blank
<1>9. SearchPassed'
  BY <1>1 DEF SearchPassed
<1>10. ASSUME edits = 0
       PROVE  \E w \in Nat :
                /\ search.page = Answer(corpus, query, 0, w)
                /\ w = StartWindow(query, 0) \/ Len(Kept(corpus, query, StartWindow(query, 0))) < PageSize
  <2>1. /\ search.page = Answer(corpus, query, 0, search.window)
        /\ search.window # StartWindow(query, 0) =>
             Len(Kept(corpus, query, StartWindow(query, 0))) < 0 + PageSize
    BY <1>2, <1>10 DEF SearchInv, SearchPaged
  <2>2. search.window \in Nat /\ 0 + PageSize = PageSize
    BY <1>3 DEF SearchInv, SearchTyped
  <2> QED BY <2>1, <2>2
<1>11. SearchPaged'
  BY <1>1, <1>2, <1>3, <1>10 DEF SearchPaged
<1> QED BY <1>5, <1>6, <1>7, <1>8, <1>9, <1>11 DEF SearchInv

(* While a search goes on and the window stays, what is known of the pages  *)
(* before stays known.                                                      *)
LEMMA PagedKeeps ==
  ASSUME SearchPaged, corpus' = corpus, query' = query, edits' = edits,
         search'.offset = search.offset, search'.window = search.window, search'.earlier = search.earlier,
         search.pc # "failed", search'.pc # "served"
  PROVE  SearchPaged'
BY DEF SearchPaged

(* The lexical channel.                                                     *)
LEMMA RunFtsKeeps ==
  ASSUME SearchInv, RunFts PROVE SearchInv'
<1> DEFINE rows == FtsRows(corpus, query, search.window)
           fallen == UsedFallback(corpus, query, search.window)
<1>1. corpus' = corpus /\ query' = query /\ edits' = edits /\ search.pc = "fts"
  BY DEF RunFts
<1>2. /\ DOMAIN search' = DOMAIN search /\ search'.pc = "vec" /\ search'.fts = rows /\ search'.fallback = fallen
      /\ search'.offset = search.offset /\ search'.window = search.window /\ search'.vec = search.vec
      /\ search'.side = search.side /\ search'.fused = search.fused /\ search'.pool = search.pool
      /\ search'.page = search.page /\ search'.earlier = search.earlier /\ search'.began = search.began
  <2>1. search' = [search EXCEPT !.pc = "vec", !.fts = rows, !.fallback = fallen]
    BY DEF RunFts
  <2> HIDE DEF rows, fallen
  <2> QED BY <2>1 DEF SearchInv, SearchTyped
<1>3. /\ query \in Queries /\ search.window \in Nat
      /\ corpus \in [live : SUBSET Memories, visible : SUBSET Memories,
                     edges : SUBSET (Memories \X Memories), corrected : SUBSET Memories]
  BY DEF SearchInv, SearchTyped
<1>4. corpus.edges \subseteq Memories \X Memories
  BY <1>3
<1>5. /\ rows \in Seq(Memories) /\ ToSet(rows) \subseteq EligibleSet(corpus)
      /\ ~fallen => ToSet(rows) \subseteq query.full
  BY <1>3, FtsKeeps
<1>6. edits = 0 => LET t == SearchedWith(corpus, query, search.window) IN t.fts = rows /\ t.fallback = fallen
  BY <1>3, <1>4, PassReads
<1> HIDE DEF rows, fallen
<1>7. SearchTyped'
  BY <1>1, <1>2, <1>5 DEF SearchInv, SearchTyped, Stages
<1>8. SearchSeen'
  BY <1>1, <1>2, <1>5 DEF SearchInv, SearchSeen
<1>9. SearchGated'
  BY <1>2 DEF SearchGated
<1>10. SearchOrdered'
  BY <1>2 DEF SearchOrdered, PoolKeepsCandidates, Served
<1>11. SearchPassed'
  BY <1>1, <1>2, <1>6 DEF SearchInv, SearchPassed, AsRead
<1>12. SearchPaged'
  BY <1>1, <1>2, PagedKeeps DEF SearchInv
<1> QED BY <1>7, <1>8, <1>9, <1>10, <1>11, <1>12 DEF SearchInv

(* The vector channels and fusion.                                          *)
LEMMA RunSemanticKeeps ==
  ASSUME SearchInv, RunSemantic PROVE SearchInv'
<1> DEFINE w == search.window
           fts == search.fts
           vec == SemanticRows(corpus, w)
           side == SideRows(corpus, query, w)
           fused == Fuse(fts, vec, side, w)
           full == Exhausted(query, fts, vec, side, w)
<1>1. corpus' = corpus /\ query' = query /\ edits' = edits /\ search.pc = "vec"
  BY DEF RunSemantic
<1>2. /\ DOMAIN search' = DOMAIN search /\ search'.pc = "resolve" /\ search'.fts = search.fts
      /\ search'.fallback = search.fallback /\ search'.vec = vec /\ search'.side = side
      /\ search'.fused = fused /\ search'.exhausted = full
      /\ search'.offset = search.offset /\ search'.window = search.window /\ search'.pool = search.pool
      /\ search'.page = search.page /\ search'.earlier = search.earlier /\ search'.began = search.began
  <2>1. search' = [search EXCEPT !.pc = "resolve", !.vec = vec, !.side = side, !.fused = fused, !.exhausted = full]
    BY DEF RunSemantic
  <2> HIDE DEF vec, side, fused, full
  <2> QED BY <2>1 DEF SearchInv, SearchTyped
<1>3. /\ query \in Queries /\ w \in Nat /\ fts \in Seq(Memories)
      /\ corpus \in [live : SUBSET Memories, visible : SUBSET Memories,
                     edges : SUBSET (Memories \X Memories), corrected : SUBSET Memories]
  BY DEF SearchInv, SearchTyped
<1>4. corpus.edges \subseteq Memories \X Memories
  BY <1>3
<1>5. vec \in Seq(Memories) /\ ToSet(vec) \subseteq EligibleSet(corpus)
  BY <1>3, SemanticKeeps
<1>6. /\ side[1] \in Seq(Memories) /\ ToSet(side[1]) \subseteq EligibleSet(corpus)
      /\ side[2] \in Seq(Memories) /\ ToSet(side[2]) \subseteq EligibleSet(corpus)
  BY <1>3, SideKeeps
<1>7. /\ fused \in Seq(Memories) /\ IsInjective(fused)
      /\ ToSet(fused) \subseteq ToSet(fts) \cup ToSet(vec) \cup ToSet(side[1]) \cup ToSet(side[2])
  <2> HIDE DEF w, fts, vec, side
  <2> QED BY <1>3, <1>5, <1>6, FuseKeeps
<1>8. ASSUME edits = 0
      PROVE  LET t == SearchedWith(corpus, query, w)
             IN  AsRead(search, t) /\ t.vec = vec /\ t.side = side /\ t.fused = fused
                 /\ full = Exhausted(query, t.fts, t.vec, t.side, w)
  <2> DEFINE t == SearchedWith(corpus, query, w)
  <2>1. AsRead(search, t)
    BY <1>1, <1>8 DEF SearchInv, SearchPassed
  <2>2. t.vec = vec /\ t.side = side /\ t.fused = Fuse(t.fts, t.vec, t.side, w)
    BY <1>3, <1>4, PassReads
  <2>3. t.fts = fts
    BY <2>1 DEF AsRead
  <2> HIDE DEF t, fts, vec, side
  <2> QED BY <2>1, <2>2, <2>3 DEF t
<1>9. ToSet(vec) \subseteq search.began /\ ToSet(side[1]) \subseteq search.began
      /\ ToSet(side[2]) \subseteq search.began /\ ToSet(fused) \subseteq search.began
  <2>1. EligibleSet(corpus) \subseteq search.began /\ ToSet(fts) \subseteq search.began
    BY <1>1 DEF SearchInv, SearchSeen
  <2> HIDE DEF vec, side, fused, fts
  <2> QED BY <1>5, <1>6, <1>7, <2>1
<1> HIDE DEF vec, side, fused, full
<1>10. SearchTyped'
  BY <1>1, <1>2, <1>5, <1>6, <1>7 DEF SearchInv, SearchTyped, Stages
<1>11. SearchSeen'
  BY <1>1, <1>2, <1>9 DEF SearchInv, SearchSeen
<1>12. SearchGated'
  BY <1>2 DEF SearchGated
<1>13. SearchOrdered'
  BY <1>2 DEF SearchOrdered, PoolKeepsCandidates, Served
<1>14. SearchPassed'
  BY <1>1, <1>2, <1>8 DEF SearchInv, SearchPassed, AsRead, AsFused
<1>15. SearchPaged'
  BY <1>1, <1>2, PagedKeeps DEF SearchInv
<1> QED BY <1>10, <1>11, <1>12, <1>13, <1>14, <1>15 DEF SearchInv

(* Resolution of superseded candidates.                                     *)
LEMMA ResolveKeepsInv ==
  ASSUME SearchInv, ResolvePredecessors PROVE SearchInv'
<1> DEFINE fused == search.fused
           fts == search.fts
           vec == search.vec
           side == search.side
           heads == IF query.mode = "strict" THEN ResolvedHeads(corpus, fused) ELSE [m \in {} |-> m]
           pool == PoolOf(fused, heads, fts, vec, side)
           grounded == GroundedHeads(query, search, heads)
<1>1. corpus' = corpus /\ query' = query /\ edits' = edits /\ search.pc = "resolve"
  BY DEF ResolvePredecessors
<1>2. /\ DOMAIN search' = DOMAIN search /\ search'.pc = "rank" /\ search'.fts = search.fts
      /\ search'.fallback = search.fallback /\ search'.vec = search.vec /\ search'.side = search.side
      /\ search'.fused = search.fused /\ search'.exhausted = search.exhausted /\ search'.heads = heads
      /\ search'.grounded = grounded /\ search'.pool = pool /\ search'.edges = corpus.edges
      /\ search'.offset = search.offset /\ search'.window = search.window
      /\ search'.page = search.page /\ search'.earlier = search.earlier /\ search'.began = search.began
  <2>1. search' = [search EXCEPT !.pc = "rank", !.heads = heads, !.grounded = grounded, !.pool = pool,
                                 !.edges = corpus.edges]
    BY DEF ResolvePredecessors
  <2> HIDE DEF heads, pool, grounded
  <2> QED BY <2>1 DEF SearchInv, SearchTyped
<1>3. /\ fused \in Seq(Memories) /\ IsInjective(fused) /\ fts \in Seq(Memories) /\ vec \in Seq(Memories)
      /\ side[1] \in Seq(Memories) /\ side[2] \in Seq(Memories)
      /\ query \in Queries /\ search.window \in Nat
      /\ corpus \in [live : SUBSET Memories, visible : SUBSET Memories,
                     edges : SUBSET (Memories \X Memories), corrected : SUBSET Memories]
  BY DEF SearchInv, SearchTyped
<1>4. corpus.edges \subseteq Memories \X Memories
  BY <1>3
<1>5. \A m \in DOMAIN heads : heads[m] \in EligibleSet(corpus)
  BY <1>3, <1>4, HeadsKeep
<1>6. HeadsNamed(heads)
  BY <1>5 DEF HeadsNamed, EligibleSet
<1>7. pool \in Seq(Memories) /\ IsInjective(pool) /\ ToSet(pool) = Replacements(heads, ToSet(fused))
  <2> HIDE DEF heads, fused, fts, vec, side
  <2>1. pool \in Seq(Memories)
    BY <1>3, <1>6, PoolOfKeeps, SMTT(60)
  <2>2. IsInjective(pool)
    BY <1>3, <1>6, PoolOfKeeps, SMTT(60)
  <2>3. ToSet(pool) = Replacements(heads, ToSet(fused))
    BY <1>3, <1>6, PoolOfKeeps, SMTT(60)
  <2> QED BY <2>1, <2>2, <2>3
<1>8. query.mode # "strict" => pool = fused
  BY DEF PoolOf
<1>9. ASSUME query.mode = "strict" PROVE \A m \in ToSet(pool) : ~WholeChain(corpus, corpus, m)
  <2>1. \A m \in ToSet(fused) : ~WholeChain(corpus, corpus, Replaced(heads, m))
    BY <1>3, <1>4, <1>9, HeadsKeep
  <2> HIDE DEF heads, fused, pool
  <2> QED BY <1>7, <2>1 DEF Replacements
<1>10. \A m : WholeChain(corpus, search', m) <=> WholeChain(corpus, corpus, m)
  <2>1. \A m : Successors(search', m) = Successors(corpus, m)
    BY <1>2 DEF Successors
  <2> QED BY <2>1 DEF WholeChain
<1>11. ToSet(pool) \subseteq search.began
  <2>1. EligibleSet(corpus) \subseteq search.began /\ ToSet(fused) \subseteq search.began
    BY <1>1 DEF SearchInv, SearchSeen
  <2> HIDE DEF heads, fused, pool
  <2> QED BY <1>5, <1>7, <2>1 DEF Replacements, Replaced
<1>12. grounded = GroundedHeads(query, search', heads)
  BY <1>2 DEF GroundedHeads, PredecessorGrounds
<1>13. ASSUME edits = 0
       PROVE  LET t == SearchedWith(corpus, query, search.window)
              IN  /\ AsRead(search, t) /\ AsFused(search, t)
                  /\ search.exhausted = Exhausted(query, t.fts, t.vec, t.side, search.window)
                  /\ heads = t.heads /\ grounded = t.grounded /\ pool = t.pool
                  /\ query.mode # "browse" /\ ~Titled(corpus, query)
  <2> DEFINE t == SearchedWith(corpus, query, search.window)
  <2>1. /\ AsRead(search, t) /\ AsFused(search, t)
        /\ search.exhausted = Exhausted(query, t.fts, t.vec, t.side, search.window)
        /\ query.mode # "browse" /\ ~Titled(corpus, query)
    BY <1>1, <1>13 DEF SearchInv, SearchPassed
  <2>2. /\ t.heads = IF query.mode = "strict" THEN ResolvedHeads(corpus, t.fused) ELSE [m \in {} |-> m]
        /\ t.grounded = GroundedHeads(query, t, t.heads)
        /\ t.pool = PoolOf(t.fused, t.heads, t.fts, t.vec, t.side)
    BY <1>3, <1>4, PassReads
  <2>3. t.fused = fused /\ t.fts = fts /\ t.vec = vec /\ t.side = side /\ t.fallback = search.fallback
    BY <2>1 DEF AsRead, AsFused
  <2>4. heads = t.heads
    BY <2>2, <2>3
  <2> HIDE DEF t, heads
  <2>5. pool = t.pool
    BY <2>2, <2>3, <2>4
  <2>6. grounded = t.grounded
    BY <2>2, <2>3, <2>4 DEF GroundedHeads, PredecessorGrounds
  <2> QED BY <2>1, <2>4, <2>5, <2>6 DEF t
<1> HIDE DEF heads, pool, grounded
<1>14. SearchTyped'
  BY <1>1, <1>2, <1>7 DEF SearchInv, SearchTyped, Stages
<1>15. SearchSeen'
  BY <1>1, <1>2, <1>11 DEF SearchInv, SearchSeen
<1>16. SearchGated'
  BY <1>1, <1>2, <1>9, <1>10, <1>12 DEF SearchGated
<1>17. SearchOrdered'
  BY <1>1, <1>2, <1>8 DEF SearchOrdered, PoolKeepsCandidates, Served
<1>18. SearchPassed'
  BY <1>1, <1>2, <1>13 DEF SearchPassed, AsRead, AsFused, AsResolved
<1>19. SearchPaged'
  BY <1>1, <1>2, PagedKeeps DEF SearchInv
<1> QED BY <1>14, <1>15, <1>16, <1>17, <1>18, <1>19 DEF SearchInv

(* In an unchanged corpus the ranked pool is what one pass keeps.           *)
LEMMA RankedAsPassed ==
  ASSUME SearchInv, search.pc = "rank", edits = 0
  PROVE  /\ RankedPool(corpus, query, search) = Kept(corpus, query, search.window)
         /\ query.mode # "browse" /\ ~Titled(corpus, query)
         /\ LET t == SearchedWith(corpus, query, search.window)
            IN  search.exhausted = Exhausted(query, t.fts, t.vec, t.side, search.window)
<1> DEFINE t == SearchedWith(corpus, query, search.window)
<1>1. /\ AsRead(search, t) /\ AsFused(search, t) /\ AsResolved(search, t)
      /\ search.exhausted = Exhausted(query, t.fts, t.vec, t.side, search.window)
      /\ query.mode # "browse" /\ ~Titled(corpus, query)
  BY DEF SearchInv, SearchPassed
<1>2. search.vec = t.vec
  BY <1>1 DEF AsFused
<1> HIDE DEF t
<1>3. RankedPool(corpus, query, search) = RankedPool(corpus, query, t)
  BY <1>1, <1>2, SameRanking
<1> QED BY <1>1, <1>3 DEF t, Kept

(* A strict pool that is too short is computed anew.                        *)
LEMMA WidenKeeps ==
  ASSUME SearchInv, search.pc = "rank", query.mode = "strict",
         Widen(search, RankedPool(corpus, query, search)),
         search' = [search EXCEPT !.pc = "fts", !.window = IF 2 * @ < WindowCap THEN 2 * @ ELSE WindowCap],
         corpus' = corpus, query' = query, edits' = edits
  PROVE  SearchInv'
<1> DEFINE w == IF 2 * search.window < WindowCap THEN 2 * search.window ELSE WindowCap
           pool == RankedPool(corpus, query, search)
<1>1. /\ DOMAIN search' = DOMAIN search /\ search'.pc = "fts" /\ search'.fts = search.fts
      /\ search'.fallback = search.fallback /\ search'.vec = search.vec /\ search'.side = search.side
      /\ search'.fused = search.fused /\ search'.pool = search.pool
      /\ search'.offset = search.offset /\ search'.window = w
      /\ search'.page = search.page /\ search'.earlier = search.earlier /\ search'.began = search.began
  <2>1. search' = [search EXCEPT !.pc = "fts", !.window = w]
    OBVIOUS
  <2> HIDE DEF w
  <2> QED BY <2>1 DEF SearchInv, SearchTyped
<1>2. w \in Nat /\ w <= WindowCap
  <2>1. WindowCap \in Nat /\ search.window \in Nat
    BY SearchAssumption DEF SearchInv, SearchTyped
  <2> QED BY <2>1
<1>3. Len(pool) < search.offset + PageSize
  BY DEF Widen
<1> HIDE DEF w
<1>4. SearchTyped'
  BY <1>1, <1>2 DEF SearchInv, SearchTyped, Stages
<1>5. SearchSeen'
  BY <1>1 DEF SearchInv, SearchSeen
<1>6. SearchGated'
  BY <1>1 DEF SearchGated
<1>7. SearchOrdered'
  BY <1>1 DEF SearchOrdered, PoolKeepsCandidates, Served
<1>8. SearchPassed'
  <2>1. edits = 0 => query.mode # "browse" /\ ~Titled(corpus, query)
    BY RankedAsPassed
  <2> QED BY <1>1, <2>1 DEF SearchPassed
<1>9. ASSUME edits = 0
      PROVE  Len(Kept(corpus, query, StartWindow(query, search.offset))) < search.offset + PageSize
  <2>1. CASE search.window = StartWindow(query, search.offset)
    BY <1>3, <1>9, <2>1, RankedAsPassed
  <2>2. CASE search.window # StartWindow(query, search.offset)
    BY <1>9, <2>2 DEF SearchInv, SearchPaged
  <2> QED BY <2>1, <2>2
<1>10. SearchPaged'
  BY <1>1, <1>9 DEF SearchInv, SearchPaged
<1> QED BY <1>4, <1>5, <1>6, <1>7, <1>8, <1>10 DEF SearchInv

(* A pool that is long enough, or cannot grow, is cut.                      *)
LEMMA CutKeeps ==
  ASSUME SearchInv, search.pc = "rank",
         ~(query.mode = "strict" /\ Widen(search, RankedPool(corpus, query, search))),
         search' = [search EXCEPT !.pc = "served", !.pool = RankedPool(corpus, query, search),
                                  !.page = Page(RankedPool(corpus, query, search), search.offset)],
         corpus' = corpus, query' = query, edits' = edits
  PROVE  SearchInv'
<1> DEFINE pool == RankedPool(corpus, query, search)
           page == Page(pool, search.offset)
<1>1. /\ DOMAIN search' = DOMAIN search /\ search'.pc = "served" /\ search'.fts = search.fts
      /\ search'.fallback = search.fallback /\ search'.vec = search.vec /\ search'.side = search.side
      /\ search'.fused = search.fused /\ search'.pool = pool /\ search'.heads = search.heads
      /\ search'.grounded = search.grounded /\ search'.edges = search.edges
      /\ search'.offset = search.offset /\ search'.window = search.window
      /\ search'.page = page /\ search'.earlier = search.earlier /\ search'.began = search.began
  <2>1. search' = [search EXCEPT !.pc = "served", !.pool = pool, !.page = page]
    OBVIOUS
  <2> HIDE DEF pool, page
  <2> QED BY <2>1 DEF SearchInv, SearchTyped
<1>2. /\ search.pool \in Seq(Memories) /\ IsInjective(search.pool)
      /\ search.window \in Nat /\ search.offset \in Nat
  <2>1. PageSize \in Nat
    BY SearchAssumption
  <2> QED BY <2>1 DEF SearchInv, SearchTyped
<1>3. /\ pool \in Seq(Memories) /\ IsInjective(pool) /\ ToSet(pool) \subseteq ToSet(search.pool)
      /\ query.mode = "strict" => ToSet(pool) = {m \in ToSet(search.pool) : Accept(query, search, m)}
      /\ query.mode # "strict" =>
           \A m \in ToSet(search.pool) : \E h \in ToSet(pool) :
             m = h \/ (query.mode = "collapse" /\ h \in Family(corpus, m))
  BY <1>2, RankedKeeps
<1>4. page \in Seq(Memories) /\ IsInjective(page) /\ ToSet(page) \subseteq ToSet(pool)
  <2> HIDE DEF pool
  <2> QED BY <1>2, <1>3, PageKeeps
<1>5. edits = 0 => page = Answer(corpus, query, search.offset, search.window)
  BY RankedAsPassed DEF Answer
<1>6. edits = 0 /\ query.mode = "strict" => Stopped(corpus, query, search.offset, search.window)
  <2> SUFFICES ASSUME edits = 0, query.mode = "strict"
               PROVE  Stopped(corpus, query, search.offset, search.window)
    OBVIOUS
  <2>1. ~(Len(pool) < search.offset + PageSize) \/ search.exhausted \/ ~(search.window < WindowCap)
    BY DEF Widen
  <2>2. WindowCap \in Nat /\ PageSize \in Nat
    BY SearchAssumption
  <2>3. pool = Kept(corpus, query, search.window)
    BY RankedAsPassed
  <2>4. Len(pool) \in Nat
    <3> HIDE DEF pool
    <3> QED BY <1>3
  <2> HIDE DEF pool
  <2>5. Len(pool) >= search.offset + PageSize \/ search.exhausted \/ search.window >= WindowCap
    BY <1>2, <2>1, <2>2, <2>4
  <2> QED BY <2>3, <2>5, RankedAsPassed DEF Stopped
<1> HIDE DEF pool, page
<1>7. SearchTyped'
  BY <1>1, <1>3, <1>4 DEF SearchInv, SearchTyped, Stages
<1>8. SearchSeen'
  BY <1>1, <1>3, <1>4 DEF SearchInv, SearchSeen
<1>9. SearchGated'
  <2> SUFFICES ASSUME query.mode = "strict" PROVE SearchGated'
    BY DEF SearchGated
  <2>1. /\ search.grounded = GroundedHeads(query, search, search.heads)
        /\ \A m \in ToSet(search.pool) : ~WholeChain(corpus, search, m)
    BY DEF SearchInv, SearchGated
  <2>2. GroundedHeads(query, search', search.heads) = GroundedHeads(query, search, search.heads)
    BY <1>1 DEF GroundedHeads, PredecessorGrounds
  <2>3. \A m : WholeChain(corpus, search', m) <=> WholeChain(corpus, search, m)
    <3>1. \A m : Successors(search', m) = Successors(search, m)
      BY <1>1 DEF Successors
    <3> QED BY <3>1 DEF WholeChain
  <2>4. \A m : Accept(query, search', m) <=> Accept(query, search, m)
    BY <1>1 DEF Accept, AcceptDirect
  <2> QED BY <1>1, <1>3, <1>4, <2>1, <2>2, <2>3, <2>4 DEF SearchGated
<1>10. SearchOrdered'
  <2>1. query.mode # "strict" => search.pool = search.fused
    BY DEF SearchInv, SearchOrdered
  <2> QED BY <1>1, <1>3, <2>1 DEF SearchOrdered, PoolKeepsCandidates
<1>11. SearchPassed'
  BY <1>1 DEF SearchPassed
<1>12. SearchPaged'
  BY <1>1, <1>5, <1>6 DEF SearchInv, SearchPaged
<1> QED BY <1>7, <1>8, <1>9, <1>10, <1>11, <1>12 DEF SearchInv

(* Ranking, gate and order.                                                 *)
LEMMA RankAndCutKeeps ==
  ASSUME SearchInv, RankAndCut PROVE SearchInv'
<1> DEFINE pool == RankedPool(corpus, query, search)
<1>1. search.pc = "rank" /\ corpus' = corpus /\ query' = query /\ edits' = edits
  BY DEF RankAndCut
<1>2. CASE query.mode = "strict" /\ Widen(search, pool)
  BY <1>1, <1>2, WidenKeeps DEF RankAndCut
<1>3. CASE ~(query.mode = "strict" /\ Widen(search, pool))
  BY <1>1, <1>3, CutKeeps DEF RankAndCut
<1> QED BY <1>2, <1>3

(* Exact titles and empty queries.                                          *)
LEMMA ExactTitleKeeps ==
  ASSUME SearchInv, ExactTitle PROVE SearchInv'
<1> DEFINE named == {m \in query.titled : Eligible(corpus, m)}
           browsed == Page(Browsed(corpus), search.offset)
           found == IF search.offset = 0 THEN << CHOOSE m \in named : TRUE >> ELSE <<>>
           next == IF query.semantic THEN "fts" ELSE "failed"
<1>1. corpus' = corpus /\ query' = query /\ edits' = edits /\ search.pc = "title" /\ search.pool = <<>>
  BY DEF ExactTitle, SearchInv, SearchOrdered
<1>2. named = TitleHits(corpus, query)
  BY DEF TitleHits
<1>3. search.offset \in Nat /\ query \in Queries
  BY SearchAssumption DEF SearchInv, SearchTyped
<1>4. EligibleSet(corpus) \subseteq search.began
  BY <1>1 DEF SearchInv, SearchSeen
<1>5. ASSUME NEW page \in Seq(Memories), IsInjective(page), ToSet(page) \subseteq EligibleSet(corpus),
             search' = [search EXCEPT !.pc = "served", !.page = page], query.mode # "strict",
             page = Answer(corpus, query, search.offset, search.window)
      PROVE  SearchInv'
  <2>1. /\ DOMAIN search' = DOMAIN search /\ search'.pc = "served" /\ search'.fts = search.fts
        /\ search'.fallback = search.fallback /\ search'.vec = search.vec /\ search'.side = search.side
        /\ search'.fused = search.fused /\ search'.pool = search.pool
        /\ search'.offset = search.offset /\ search'.window = search.window
        /\ search'.page = page /\ search'.earlier = search.earlier /\ search'.began = search.began
    BY <1>5 DEF SearchInv, SearchTyped
  <2>2. SearchTyped'
    BY <1>1, <1>5, <2>1 DEF SearchInv, SearchTyped, Stages
  <2>3. SearchSeen'
    BY <1>1, <1>4, <1>5, <2>1 DEF SearchInv, SearchSeen
  <2>4. SearchGated'
    BY <1>1, <1>5 DEF SearchGated
  <2>5. SearchOrdered'
    BY <1>1, <2>1 DEF SearchOrdered, PoolKeepsCandidates
  <2>6. SearchPassed'
    BY <2>1 DEF SearchPassed
  <2>7. SearchPaged'
    BY <1>1, <1>5, <2>1 DEF SearchInv, SearchPaged
  <2> QED BY <2>2, <2>3, <2>4, <2>5, <2>6, <2>7 DEF SearchInv
<1>6. CASE query.mode = "browse"
  <2>1. search' = [search EXCEPT !.pc = "served", !.page = browsed]
    BY <1>6 DEF ExactTitle
  <2>2. browsed \in Seq(Memories) /\ IsInjective(browsed) /\ ToSet(browsed) \subseteq ToSet(Browsed(corpus))
    BY <1>3, BrowsedKeeps, PageKeeps
  <2>3. ToSet(browsed) \subseteq EligibleSet(corpus)
    BY <2>2, BrowsedKeeps
  <2>4. browsed = Answer(corpus, query, search.offset, search.window)
    BY <1>6 DEF Answer
  <2> HIDE DEF browsed
  <2> QED BY <1>5, <1>6, <2>1, <2>2, <2>3, <2>4
<1>7. CASE query.mode \in {"broad", "history"} /\ Cardinality(named) = 1
  <2>1. search' = [search EXCEPT !.pc = "served", !.page = found]
    BY <1>7 DEF ExactTitle
  <2>2. named # {}
    <3>1. Cardinality({}) = 0
      BY FS_EmptySet
    <3> HIDE DEF named
    <3> QED BY <1>7, <3>1
  <2>3. (CHOOSE m \in named : TRUE) \in named
    <3>1. \E m \in named : TRUE
      BY <2>2
    <3> HIDE DEF named
    <3> QED BY <3>1, Zenon
  <2>4. named \subseteq EligibleSet(corpus) /\ named \subseteq Memories
    BY <1>3, SearchAssumption DEF EligibleSet
  <2> DEFINE one == CHOOSE m \in named : TRUE
  <2>5. one \in Memories /\ one \in EligibleSet(corpus)
    BY <2>3, <2>4
  <2>6. found = Answer(corpus, query, search.offset, search.window)
    <3>1. Titled(corpus, query) /\ query.mode # "browse"
      BY <1>2, <1>7 DEF Titled
    <3> HIDE DEF named
    <3> QED BY <1>2, <3>1 DEF Answer
  <2>7. found = IF search.offset = 0 THEN << one >> ELSE <<>>
    OBVIOUS
  <2> HIDE DEF named, one, found
  <2>8. << one >> \in Seq(Memories) /\ IsInjective(<< one >>) /\ ToSet(<< one >>) = {one}
    BY <2>5 DEF IsInjective, ToSet
  <2>9. found \in Seq(Memories) /\ IsInjective(found) /\ ToSet(found) \subseteq EligibleSet(corpus)
    BY <2>5, <2>7, <2>8, NothingRead
  <2> QED BY <1>5, <1>7, <2>1, <2>6, <2>9
<1>8. CASE query.mode # "browse" /\ ~(query.mode \in {"broad", "history"} /\ Cardinality(named) = 1)
  <2>1. search' = [search EXCEPT !.pc = next]
    BY <1>8 DEF ExactTitle
  <2>2. ~Titled(corpus, query)
    BY <1>2, <1>8 DEF Titled
  <2>3. /\ DOMAIN search' = DOMAIN search /\ search'.pc = next /\ search'.fts = search.fts
        /\ search'.fallback = search.fallback /\ search'.vec = search.vec /\ search'.side = search.side
        /\ search'.fused = search.fused /\ search'.pool = search.pool
        /\ search'.offset = search.offset /\ search'.window = search.window
        /\ search'.page = search.page /\ search'.earlier = search.earlier /\ search'.began = search.began
    <3> HIDE DEF next
    <3> QED BY <2>1 DEF SearchInv, SearchTyped
  <2>4. next \in {"fts", "failed"}
    OBVIOUS
  <2> HIDE DEF next, named
  <2>5. SearchTyped'
    BY <1>1, <2>3, <2>4 DEF SearchInv, SearchTyped, Stages
  <2>6. SearchSeen'
    BY <1>1, <1>4, <2>3 DEF SearchInv, SearchSeen
  <2>7. SearchGated'
    BY <2>3, <2>4 DEF SearchGated
  <2>8. SearchOrdered'
    BY <2>3, <2>4 DEF SearchOrdered, PoolKeepsCandidates, Served
  <2>9. SearchPassed'
    BY <1>1, <1>8, <2>2, <2>3, <2>4 DEF SearchPassed
  <2>10. SearchPaged'
    BY <1>1, <2>3, <2>4, PagedKeeps DEF SearchInv
  <2> QED BY <2>5, <2>6, <2>7, <2>8, <2>9, <2>10 DEF SearchInv
<1> QED BY <1>6, <1>7, <1>8

StoresOf == [live : SUBSET Memories, visible : SUBSET Memories,
             edges : SUBSET (Memories \X Memories), corrected : SUBSET Memories]

\* Another session writes while a search goes on: nothing is revived or shown.
OthersWrite ==
  /\ search.pc \notin {"title", "served", "failed"}
  /\ corpus' \in StoresOf
  /\ corpus'.live \subseteq corpus.live /\ corpus'.visible \subseteq corpus.visible
  /\ edits' = edits + 1 /\ query' = query /\ search' = search

(* A write of another session.                                              *)
LEMMA SessionsKeep ==
  ASSUME SearchInv, OthersWrite PROVE SearchInv'
<1>1. edits' \in Nat /\ edits' # 0
  <2>1. edits \in Nat /\ edits' = edits + 1
    BY DEF OthersWrite, SearchInv, SearchTyped
  <2> QED BY <2>1
<1>2. \A m : Eligible(corpus', m) => Eligible(corpus, m)
  BY DEF OthersWrite, Eligible
<1>3. EligibleSet(corpus)' \subseteq EligibleSet(corpus)
  BY <1>2 DEF EligibleSet
<1>4. SearchTyped'
  BY <1>1 DEF OthersWrite, SearchInv, SearchTyped, StoresOf
<1>5. SearchSeen'
  BY <1>3 DEF OthersWrite, SearchInv, SearchSeen
<1>6. \A m : WholeChain(corpus', search, m) => WholeChain(corpus, search, m)
  BY <1>2 DEF WholeChain
<1>7. SearchGated'
  BY <1>6 DEF OthersWrite, SearchInv, SearchGated
<1>8. SearchOrdered'
  BY DEF OthersWrite, SearchInv, SearchOrdered, PoolKeepsCandidates, Served
<1>9. SearchPassed'
  BY <1>1 DEF SearchPassed
<1>10. SearchPaged'
  BY <1>1 DEF SearchPaged
<1> QED BY <1>4, <1>5, <1>7, <1>8, <1>9, <1>10 DEF SearchInv

(* Every step keeps the invariant.                                          *)
LEMMA SearchStepInv == SearchInv /\ [SearchNext]_searchVars => SearchInv'
<1> SUFFICES ASSUME SearchInv, [SearchNext]_searchVars PROVE SearchInv'
  OBVIOUS
<1>1. CASE SearchFails
  BY <1>1, SearchFailsKeeps
<1>2. CASE ExactTitle
  BY <1>2, ExactTitleKeeps
<1>3. CASE RunFts
  BY <1>3, RunFtsKeeps
<1>4. CASE RunSemantic
  BY <1>4, RunSemanticKeeps
<1>5. CASE ResolvePredecessors
  BY <1>5, ResolveKeepsInv
<1>6. CASE RankAndCut
  BY <1>6, RankAndCutKeeps
<1>7. CASE NextPage
  BY <1>7, NextPageKeeps
<1>8. ASSUME search.pc \notin {"title", "served", "failed"}, NEW m \in Memories,
             \/ ArchiveMeanwhile(m) \/ ReclassifyMeanwhile(m) \/ \E n \in Memories : RelateMeanwhile(m, n)
      PROVE  SearchInv'
  <2>1. corpus \in [live : SUBSET Memories, visible : SUBSET Memories,
                    edges : SUBSET (Memories \X Memories), corrected : SUBSET Memories]
    BY DEF SearchInv, SearchTyped
  <2>2. CASE ArchiveMeanwhile(m)
    <3>1. OthersWrite
      <4>1. corpus' = [corpus EXCEPT !.live = @ \ {m}] /\ edits' = edits + 1 /\ query' = query /\ search' = search
        BY <2>2 DEF ArchiveMeanwhile
      <4>2. corpus'.live = corpus.live \ {m} /\ corpus'.visible = corpus.visible
        BY <2>1, <4>1
      <4>3. corpus' \in StoresOf
        BY <2>1, <4>1 DEF StoresOf
      <4> QED BY <1>8, <4>1, <4>2, <4>3 DEF OthersWrite
    <3> QED BY <3>1, SessionsKeep
  <2>3. CASE ReclassifyMeanwhile(m)
    <3>1. OthersWrite
      <4>1. corpus' = [corpus EXCEPT !.visible = @ \ {m}] /\ edits' = edits + 1 /\ query' = query /\ search' = search
        BY <2>3 DEF ReclassifyMeanwhile
      <4>2. corpus'.live = corpus.live /\ corpus'.visible = corpus.visible \ {m}
        BY <2>1, <4>1
      <4>3. corpus' \in StoresOf
        BY <2>1, <4>1 DEF StoresOf
      <4> QED BY <1>8, <4>1, <4>2, <4>3 DEF OthersWrite
    <3> QED BY <3>1, SessionsKeep
  <2>4. ASSUME NEW n \in Memories, RelateMeanwhile(m, n) PROVE SearchInv'
    <3>1. OthersWrite
      <4>1. /\ \/ corpus' = [corpus EXCEPT !.edges = @ \cup {<<m, n>>}]
               \/ corpus' = [corpus EXCEPT !.corrected = @ \cup {n}]
            /\ edits' = edits + 1 /\ query' = query /\ search' = search
        BY <2>4 DEF RelateMeanwhile
      <4>2. corpus'.live = corpus.live /\ corpus'.visible = corpus.visible
        BY <2>1, <4>1
      <4>3. corpus' \in StoresOf
        BY <2>1, <4>1 DEF StoresOf
      <4> QED BY <1>8, <4>1, <4>2, <4>3 DEF OthersWrite
    <3> QED BY <3>1, SessionsKeep
  <2> QED BY <1>8, <2>2, <2>3, <2>4
<1>9. CASE UNCHANGED searchVars
  <2>1. corpus' = corpus /\ query' = query /\ search' = search /\ edits' = edits
    BY <1>9 DEF searchVars
  <2>2. SearchTyped'
    BY <2>1 DEF SearchInv, SearchTyped
  <2>3. SearchSeen'
    BY <2>1 DEF SearchInv, SearchSeen
  <2>4. SearchGated'
    BY <2>1 DEF SearchInv, SearchGated
  <2>5. SearchOrdered'
    BY <2>1 DEF SearchInv, SearchOrdered, PoolKeepsCandidates, Served
  <2>6. SearchPassed'
    BY <2>1 DEF SearchInv, SearchPassed
  <2>7. SearchPaged'
    BY <2>1 DEF SearchInv, SearchPaged
  <2> QED BY <2>2, <2>3, <2>4, <2>5, <2>6, <2>7 DEF SearchInv
<1> QED BY <1>1, <1>2, <1>3, <1>4, <1>5, <1>6, <1>7, <1>8, <1>9 DEF SearchNext

(* Whatever is archived, hidden or superseded between the stages of a       *)
(* search, a page holds only what the caller could see when it asked, and   *)
(* in strict mode only grounded memories and the ends of their chains       *)
(* (_reapply_supersession_filters, accept_or_abstain,                       *)
(* _resolve_supersession_chains).                                           *)
THEOREM SearchServesRightly == SearchSpec => []ServedRightly
<1>1. SearchSpec => []SearchInv
  BY SearchInitInv, SearchStepInv, PTL DEF SearchSpec
<1>2. SearchInv => ServedRightly
  BY InvServesRightly
<1> QED BY <1>1, <1>2, PTL

(* Pages of an unchanged corpus share no memory, a short strict page leaves *)
(* nothing that the widest window would add, and broad ordering loses no    *)
(* candidate (_search_window_pool, _order_search_pool).                     *)
THEOREM SearchCompletesPages == SearchSpec => []PagesComplete
<1>1. SearchSpec => []SearchInv
  BY SearchInitInv, SearchStepInv, PTL DEF SearchSpec
<1>2. SearchInv => PagesComplete
  BY InvCompletesPages
<1> QED BY <1>1, <1>2, PTL

=============================================================================
