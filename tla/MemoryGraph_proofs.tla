-------------------------- MODULE MemoryGraph_proofs --------------------------
(***************************************************************************)
(* The memories and their relations, for any drafts, predicates, callers   *)
(* and bounds.  GraphOK says what a database satisfies after every         *)
(* transaction and in the middle of one; JobOK what a prepared call still  *)
(* knows about the database when its transaction runs.  TagInv says the    *)
(* same of the tags the memories are filed under, for any names.           *)
(***************************************************************************)
EXTENDS MemoryGraph, TagCatalog, FiniteSetTheorems, SequenceTheorems, WellFoundedInduction, TLAPS

StoredRows == [st : {"raw", "consolidated", "archived"}, body : Drafts, core : BOOLEAN,
               details : SUBSET Ids, meta : SUBSET Keys]
MemTables == [Ids -> {NoRow} \cup StoredRows]
Databases == [mem : MemTables, act : SUBSET Edges, inv : SUBSET Edges, ever : SUBSET Edges]

(* The edges ever written lie between stored memories, the active ones      *)
(* among them; what a lineage edge points at is archived.                   *)
EdgesPlaced(d) ==
  /\ d.act \subseteq d.ever
  /\ \A e \in d.ever : e.src \in Stored(d) /\ e.tgt \in Stored(d)
  /\ \A e \in d.ever : e.pred \in Lineage => Status(d, e.tgt) = "archived"

OneSuccessorIn(d) ==
  \A e, f \in d.ever : e.pred \in Lineage /\ f.pred \in Lineage /\ e.tgt = f.tgt => e = f

AcyclicIn(d) ==
  \A S \in (SUBSET Ids) \ {{}} : \E m \in S :
    \A e \in d.ever : e.pred \in Lineage /\ e.src = m => e.tgt \notin S

SingleStrongIn(d) ==
  \A e, f \in d.act : e.pred \in Strong /\ e.pred = f.pred /\ e.src = f.src => e = f

GraphOK(d) == d \in Databases /\ EdgesPlaced(d) /\ OneSuccessorIn(d) /\ AcyclicIn(d) /\ SingleStrongIn(d)

(* How statuses may move from one database to a later one.                  *)
StatusMoves(d, x) ==
  \A m \in Ids : \/ Status(d, m) = Status(x, m) \/ Status(d, m) = "none" \/ Status(x, m) = "archived"
BodiesKept(d, x) == \A m \in Stored(d) : x.mem[m].body = d.mem[m].body

CoreArgs == {"omitted", "ordinary", "core"}
StoreJobs == [op : {"store"}, target : {0} \cup Ids, fresh : BOOLEAN, body : Drafts, meta : SUBSET Keys,
              core : CoreArgs, details : (SUBSET Ids) \cup {Undeclared}, similar : BOOLEAN]
ReplaceJobs == [op : {"replace"}, kind : {"revises", "supersedes"}, old : Ids, body : Drafts,
                core : CoreArgs, details : SUBSET Ids, repoint : BOOLEAN, similar : BOOLEAN,
                seen : StoredRows, meta : SUBSET Keys, edges : SUBSET Edges]
SeenRows == [st : {"raw"}, body : Drafts]
MergeItems ==
  {i \in [parents : SUBSET Ids, body : Drafts, core : CoreArgs, details : SUBSET Ids,
          similar : BOOLEAN, seen : UNION {[ms -> SeenRows] : ms \in SUBSET Ids}] :
     i.seen \in [i.parents -> SeenRows]}

(* Inside the daemon nothing changes between preparing and committing.      *)
StoreCurrent(d, p) ==
  /\ p.target \in Stored(d) => ~p.fresh /\ p.body = d.mem[p.target].body
  /\ p.target \notin Stored(d) => \A m \in Ids : ~Twin(d, p.body, m)
ReplaceCurrent(d, p) == p.edges = Touching(SemanticOf(d.act), p.old)

JobOK(j, d, alone) ==
  \/ j = Idle
  \/ j \in StoreJobs /\ (alone => StoreCurrent(d, j))
  \/ j \in ReplaceJobs /\ (alone => ReplaceCurrent(d, j))
  \/ j \in [op : {"merge"}, todo : Seq(MergeItems)]
  \/ /\ j \in [op : {"merging"}, todo : Seq(MergeItems), work : Databases]
     /\ GraphOK(j.work) /\ StatusMoves(d, j.work) /\ BodiesKept(d, j.work)
  \/ /\ j \in [op : {"batch"}, bulk : BOOLEAN, n : Nat, out : {"ok", "rejected"}, work : Databases]
     /\ GraphOK(j.work) /\ j.work.mem = d.mem
     /\ j.n = 0 => j.work = d /\ j.out = "ok"
     /\ j.n = 1 /\ j.out # "ok" => j.work = d

Locking == {"batch", "merging"}

GraphInv ==
  /\ GraphOK(db) /\ direct \in BOOLEAN /\ calls \in Nat
  /\ job = [c \in Callers |-> job[c]]
  /\ \A c \in Callers : JobOK(job[c], db, ~direct)
  /\ \A c, x \in Callers : c # x /\ job[c].op \in Locking => job[x].op \notin Locking
  /\ ~direct => \A c, x \in Callers : c # x => job[c] = Idle \/ job[x] = Idle

-----------------------------------------------------------------------------
(* Rows and edges                                                           *)

(* Lineage predicates are not selectable.                                   *)
LEMMA Predicates ==
  /\ \A p \in Semantic : p \notin Lineage
  /\ "elaborates_on" \in Semantic /\ "elaborates_on" \notin Lineage /\ "elaborates_on" \in Strong
  /\ "supersedes" \in Lineage /\ "revises" \in Lineage /\ "consolidated_from" \in Lineage
BY GraphConstants DEF Lineage, Strong

(* What an edge is.                                                         *)
LEMMA EdgeIs ==
  ASSUME NEW s \in Ids, NEW t \in Ids, NEW p \in Semantic \cup Lineage
  PROVE  /\ Edge(s, p, t) \in Edges
         /\ Edge(s, p, t).src = s /\ Edge(s, p, t).pred = p /\ Edge(s, p, t).tgt = t
BY DEF Edge, Edges

(* An edge is its three parts.                                              *)
LEMMA SameEdge ==
  ASSUME NEW e \in Edges, NEW f \in Edges, e.src = f.src, e.pred = f.pred, e.tgt = f.tgt
  PROVE  e = f
BY DEF Edges

(* A row is stored unless its status is none.                               *)
LEMMA StoredIs ==
  ASSUME NEW d \in Databases, NEW m \in Ids
  PROVE  /\ d.mem[m] = NoRow \/ d.mem[m] \in StoredRows
         /\ Status(d, m) \in {"none", "raw", "consolidated", "archived"}
         /\ m \in Stored(d) <=> d.mem[m] \in StoredRows
         /\ m \in Stored(d) <=> Status(d, m) # "none"
         /\ m \in Live(d) => m \in Stored(d)
<1>1. d.mem[m] = NoRow \/ d.mem[m] \in StoredRows
  BY DEF Databases, MemTables
<1>2. Status(d, m) \in {"none", "raw", "consolidated", "archived"}
  BY <1>1 DEF Status, NoRow, StoredRows
<1>3. m \in Stored(d) <=> Status(d, m) # "none"
  BY DEF Stored
<1>4. NoRow.st = "none"
  BY DEF NoRow
<1>5. m \in Stored(d) <=> d.mem[m] \in StoredRows
  BY <1>1, <1>3, <1>4 DEF Status, StoredRows
<1>6. m \in Live(d) => m \in Stored(d)
  BY <1>3 DEF Live
<1> QED BY <1>1, <1>2, <1>3, <1>5, <1>6

(* A database in its four parts.                                            *)
LEMMA DatabaseIs ==
  ASSUME NEW t \in MemTables, NEW a \in SUBSET Edges, NEW i \in SUBSET Edges, NEW v \in SUBSET Edges,
         NEW d \in Databases, NEW x,
         x = [d EXCEPT !.mem = t, !.act = a, !.inv = i, !.ever = v]
  PROVE  x \in Databases /\ x.mem = t /\ x.act = a /\ x.inv = i /\ x.ever = v
BY DEF Databases

(* A set of naturals has a least one.                                       *)
LEMMA LeastNatural ==
  ASSUME NEW S \in SUBSET Nat, S # {} PROVE \E x \in S : \A y \in S : x <= y
<1>1. IsWellFoundedOn({ss \in Nat \X Nat : ss[1] < ss[2]}, Nat)
  BY NatLessThanWellFounded, Zenon DEF OpToRel
<1>2. \E x \in S : \A y \in S : ~(<<y, x>> \in {ss \in Nat \X Nat : ss[1] < ss[2]})
  BY <1>1, WFMin, Zenon
<1>3. PICK x \in S : \A y \in S : ~(<<y, x>> \in {ss \in Nat \X Nat : ss[1] < ss[2]})
  BY <1>2
<1>4. ASSUME NEW y \in S PROVE x <= y
  <2>1. x \in Nat /\ y \in Nat /\ <<y, x>> \in Nat \X Nat
    OBVIOUS
  <2>2. ~(y < x)
    BY <1>3, <2>1
  <2> QED BY <2>1, <2>2
<1> QED BY <1>4

(* A new id is no stored memory's.                                          *)
LEMMA NewIdFresh ==
  ASSUME NEW d, Fresh(d) # {} PROVE NewId(d) \in Ids /\ NewId(d) \notin Stored(d)
<1>1. Fresh(d) \in SUBSET Nat
  BY GraphConstants DEF Fresh, Ids
<1>2. \E x \in Fresh(d) : \A y \in Fresh(d) : x <= y
  BY <1>1, LeastNatural
<1>3. NewId(d) \in Fresh(d)
  BY <1>2 DEF NewId
<1> QED BY <1>3 DEF Fresh

(* Room for a row.                                                          *)
LEMMA RoomIsFresh == ASSUME NEW d, Room(d, 1) PROVE Fresh(d) # {}
<1>1. Cardinality({}) = 0
  BY FS_EmptySet
<1> QED BY <1>1 DEF Room

-----------------------------------------------------------------------------
(* Changing rows                                                            *)

(* Rows change, no edge does, and no status leaves the archive.             *)
LEMMA RowsChange ==
  ASSUME NEW d, GraphOK(d), NEW x \in Databases, x.act = d.act, x.ever = d.ever, StatusMoves(d, x)
  PROVE  GraphOK(x)
<1>0. d \in Databases
  BY DEF GraphOK
<1>1. ASSUME NEW m \in Stored(d) PROVE m \in Stored(x)
  <2>1. m \in Ids
    BY DEF Stored
  <2>2. Status(d, m) # "none"
    BY <1>0, <2>1, StoredIs
  <2> QED BY <2>1, <2>2, StoredIs DEF StatusMoves
<1>2. ASSUME NEW e \in x.ever, e.pred \in Lineage PROVE Status(x, e.tgt) = "archived"
  <2>1. Status(d, e.tgt) = "archived" /\ e.tgt \in Ids
    BY <1>2 DEF GraphOK, EdgesPlaced, Stored
  <2> QED BY <2>1 DEF StatusMoves
<1>3. EdgesPlaced(x)
  BY <1>1, <1>2 DEF EdgesPlaced, GraphOK
<1> QED BY <1>3 DEF GraphOK, OneSuccessorIn, AcyclicIn, SingleStrongIn

(* Statuses move on from move to move.                                      *)
LEMMA MovesOn ==
  ASSUME NEW d, NEW x, NEW y, StatusMoves(d, x), StatusMoves(x, y)
  PROVE  StatusMoves(d, y)
BY DEF StatusMoves

(* One row is written: a new one, or one that keeps its status.             *)
LEMMA RowWritten ==
  ASSUME NEW d, GraphOK(d), NEW m \in Ids, NEW r \in StoredRows,
         Status(d, m) \in {"none", r.st}
  PROVE  LET x == [d EXCEPT !.mem[m] = r]
         IN /\ GraphOK(x) /\ StatusMoves(d, x) /\ x.mem[m] = r
            /\ x.act = d.act /\ x.inv = d.inv /\ x.ever = d.ever
            /\ \A n \in Ids : n # m => x.mem[n] = d.mem[n]
            /\ Stored(x) = Stored(d) \cup {m}
<1> DEFINE x == [d EXCEPT !.mem[m] = r]
<1>0. d \in Databases /\ d.mem \in MemTables
  BY DEF GraphOK, Databases
<1>1. /\ x \in Databases /\ x.mem = [d.mem EXCEPT ![m] = r]
      /\ x.act = d.act /\ x.inv = d.inv /\ x.ever = d.ever
  BY <1>0 DEF Databases, MemTables
<1> HIDE DEF x
<1>2. x.mem[m] = r /\ \A n \in Ids : n # m => x.mem[n] = d.mem[n]
  BY <1>0, <1>1 DEF MemTables
<1>3. StatusMoves(d, x)
  BY <1>2 DEF StatusMoves, Status
<1>4. Stored(x) = Stored(d) \cup {m}
  BY <1>2 DEF Stored, Status, StoredRows
<1>5. GraphOK(x)
  BY <1>1, <1>3, RowsChange
<1> QED BY <1>1, <1>2, <1>3, <1>4, <1>5 DEF x

(* Some memories are archived, nothing else about them changes.             *)
LEMMA Archived ==
  ASSUME NEW d, GraphOK(d), NEW ms, ms \subseteq Stored(d)
  PROVE  LET x == SetStatus(d, ms, "archived")
         IN /\ GraphOK(x) /\ StatusMoves(d, x) /\ BodiesKept(d, x)
            /\ x.act = d.act /\ x.inv = d.inv /\ x.ever = d.ever /\ Stored(x) = Stored(d)
            /\ \A m \in Ids : /\ m \in ms => Status(x, m) = "archived"
                              /\ m \notin ms => x.mem[m] = d.mem[m]
                              /\ x.mem[m].core = d.mem[m].core /\ x.mem[m].body = d.mem[m].body
<1> DEFINE x == SetStatus(d, ms, "archived")
           t == [m \in Ids |-> IF m \in ms THEN [d.mem[m] EXCEPT !.st = "archived"] ELSE d.mem[m]]
<1>0. d \in Databases /\ d.mem \in MemTables /\ ms \subseteq Ids
  BY DEF GraphOK, Databases, Stored
<1>1. ASSUME NEW m \in Ids
      PROVE  /\ t[m] \in {NoRow} \cup StoredRows
             /\ m \in ms => t[m].st = "archived" /\ t[m].core = d.mem[m].core /\ t[m].body = d.mem[m].body
             /\ m \notin ms => t[m] = d.mem[m]
  <2>1. CASE m \in ms
    <3>1. d.mem[m] \in StoredRows
      BY <1>0, <2>1, StoredIs
    <3>2. t[m] = [d.mem[m] EXCEPT !.st = "archived"]
      BY <2>1
    <3> QED BY <2>1, <3>1, <3>2 DEF StoredRows
  <2>2. CASE m \notin ms
    BY <1>0, <2>2 DEF MemTables
  <2> QED BY <2>1, <2>2
<1>2. t \in MemTables
  <2>1. t = [m \in Ids |-> t[m]]
    OBVIOUS
  <2> HIDE DEF t
  <2> QED BY <1>1, <2>1 DEF MemTables
<1>3. x = [d EXCEPT !.mem = t]
  BY DEF SetStatus
<1> HIDE DEF t
<1>4. x \in Databases /\ x.mem = t /\ x.act = d.act /\ x.inv = d.inv /\ x.ever = d.ever
  BY <1>0, <1>2, <1>3 DEF Databases
<1> HIDE DEF x
<1>5. StatusMoves(d, x) /\ BodiesKept(d, x)
  BY <1>1, <1>4 DEF StatusMoves, BodiesKept, Status, Stored
<1>6. GraphOK(x)
  BY <1>4, <1>5, RowsChange
<1>7. Stored(x) = Stored(d)
  BY <1>0, <1>1, <1>4 DEF Stored, Status
<1>8. \A m \in Ids : /\ m \in ms => Status(x, m) = "archived"
                     /\ m \notin ms => x.mem[m] = d.mem[m]
                     /\ x.mem[m].core = d.mem[m].core /\ x.mem[m].body = d.mem[m].body
  BY <1>1, <1>4 DEF Status
<1> QED BY <1>4, <1>5, <1>6, <1>7, <1>8 DEF x

-----------------------------------------------------------------------------
(* Changing edges                                                           *)

(* Semantic edges between stored memories come and go; lineage is left      *)
(* alone, and no strong predicate gets a second target.                     *)
LEMMA EdgesChange ==
  ASSUME NEW d, GraphOK(d), NEW x \in Databases, x.mem = d.mem, d.ever \subseteq x.ever,
         x.act \subseteq x.ever, SingleStrongIn(x),
         \A e \in x.ever : \/ e \in d.ever
                           \/ e.pred \notin Lineage /\ e.src \in Stored(d) /\ e.tgt \in Stored(d)
  PROVE  GraphOK(x) /\ Stored(x) = Stored(d) /\ StatusMoves(d, x) /\ BodiesKept(d, x)
<1>1. Stored(x) = Stored(d) /\ StatusMoves(d, x) /\ BodiesKept(d, x)
  BY DEF Stored, Status, StatusMoves, BodiesKept
<1>2. \A m \in Ids : Status(x, m) = Status(d, m)
  BY DEF Status
<1>3. ASSUME NEW e \in x.ever, e.pred \in Lineage PROVE e \in d.ever
  BY <1>3
<1>4. EdgesPlaced(x)
  <2>1. \A e \in x.ever : e.src \in Stored(x) /\ e.tgt \in Stored(x)
    BY <1>1 DEF GraphOK, EdgesPlaced
  <2>2. ASSUME NEW e \in x.ever, e.pred \in Lineage PROVE Status(x, e.tgt) = "archived"
    <3>1. Status(d, e.tgt) = "archived" /\ e.tgt \in Ids
      BY <1>3, <2>2 DEF GraphOK, EdgesPlaced, Stored
    <3> QED BY <3>1, <1>2
  <2> QED BY <2>1, <2>2 DEF EdgesPlaced
<1>5. OneSuccessorIn(x)
  BY <1>3 DEF OneSuccessorIn, GraphOK
<1>6. AcyclicIn(x)
  <2> SUFFICES ASSUME NEW S \in (SUBSET Ids) \ {{}}
               PROVE  \E m \in S : \A e \in x.ever : e.pred \in Lineage /\ e.src = m => e.tgt \notin S
    BY DEF AcyclicIn
  <2>1. PICK m \in S : \A e \in d.ever : e.pred \in Lineage /\ e.src = m => e.tgt \notin S
    BY DEF GraphOK, AcyclicIn
  <2> QED BY <2>1, <1>3
<1> QED BY <1>1, <1>4, <1>5, <1>6 DEF GraphOK

(* Relations end.                                                           *)
LEMMA EdgesEnd ==
  ASSUME NEW d, GraphOK(d), NEW x \in Databases, x.mem = d.mem, x.ever = d.ever, x.act \subseteq d.act
  PROVE  GraphOK(x) /\ Stored(x) = Stored(d) /\ StatusMoves(d, x) /\ BodiesKept(d, x)
<1>1. SingleStrongIn(x)
  BY DEF GraphOK, SingleStrongIn
<1>2. x.act \subseteq x.ever
  BY DEF GraphOK, EdgesPlaced
<1> QED BY <1>1, <1>2, EdgesChange

(* The stale edges are all the other edges of a strong predicate.           *)
LEMMA StaleIs ==
  ASSUME NEW d, GraphOK(d), NEW e \in Edges
  PROVE  /\ Stale(d, e) \subseteq d.act
         /\ \A x \in d.act : e.pred \in Strong /\ x.src = e.src /\ x.pred = e.pred /\ x.tgt # e.tgt
                              => x \in Stale(d, e)
         /\ \A x \in Stale(d, e) : x.src = e.src /\ x.pred = e.pred /\ x.tgt # e.tgt
<1> DEFINE olds == {x \in d.act : x.src = e.src /\ x.pred = e.pred /\ x.tgt # e.tgt}
<1>1. Stale(d, e) = IF e.pred \in Strong /\ olds # {} THEN {CHOOSE x \in olds : TRUE} ELSE {}
  BY DEF Stale
<1>2. olds # {} => (CHOOSE x \in olds : TRUE) \in olds
  OBVIOUS
<1>3. \A x, y \in olds : e.pred \in Strong => x = y
  BY DEF GraphOK, SingleStrongIn
<1> HIDE DEF olds
<1>4. Stale(d, e) \subseteq olds
  BY <1>1, <1>2
<1>5. \A x \in olds : e.pred \in Strong => x \in Stale(d, e)
  BY <1>1, <1>2, <1>3
<1> QED BY <1>4, <1>5 DEF olds

(* Storing a semantic edge between stored memories.                         *)
LEMMA InsertOK ==
  ASSUME NEW d, GraphOK(d), NEW e \in Edges, e.pred \in Semantic,
         e.src \in Stored(d), e.tgt \in Stored(d)
  PROVE  GraphOK(InsertRelation(d, e)) /\ InsertRelation(d, e).mem = d.mem
<1> DEFINE x == InsertRelation(d, e)
           s == Stale(d, e)
<1>0. d \in Databases
  BY DEF GraphOK
<1>1. /\ s \subseteq d.act
      /\ \A f \in d.act : e.pred \in Strong /\ f.src = e.src /\ f.pred = e.pred /\ f.tgt # e.tgt => f \in s
  BY StaleIs
<1>2. x = Open(Close(d, s), e)
  BY DEF InsertRelation
<1> HIDE DEF s
<1>3. /\ x \in Databases /\ x.mem = d.mem /\ x.act = (d.act \ s) \cup {e}
      /\ x.ever = d.ever \cup {e}
  <2>1. /\ Close(d, s) \in Databases /\ Close(d, s).mem = d.mem
        /\ Close(d, s).act = d.act \ s /\ Close(d, s).ever = d.ever
    BY <1>0, <1>1 DEF Databases, Close
  <2> QED BY <1>2, <2>1 DEF Databases, Open
<1> HIDE DEF x
<1>4. SingleStrongIn(x)
  <2> SUFFICES ASSUME NEW f \in x.act, NEW g \in x.act, f.pred \in Strong, f.pred = g.pred, f.src = g.src
               PROVE  f = g
    BY DEF SingleStrongIn
  <2>1. CASE f \in d.act /\ g \in d.act
    BY <2>1 DEF GraphOK, SingleStrongIn
  <2>2. CASE f = e /\ g \in d.act \ s
    <3>1. g.tgt = e.tgt /\ g \in Edges
      BY <1>0, <1>1, <2>2 DEF Databases
    <3> QED BY <2>2, <3>1, SameEdge
  <2>3. CASE g = e /\ f \in d.act \ s
    <3>1. f.tgt = e.tgt /\ f \in Edges
      BY <1>0, <1>1, <2>3 DEF Databases
    <3> QED BY <2>3, <3>1, SameEdge
  <2> QED BY <1>3, <2>1, <2>2, <2>3
<1>5. e.pred \notin Lineage
  BY Predicates
<1>6. x.act \subseteq x.ever
  BY <1>3 DEF GraphOK, EdgesPlaced
<1> QED BY <1>3, <1>4, <1>5, <1>6, EdgesChange DEF x

RelationItems == [invalidate : BOOLEAN, similar : BOOLEAN, justified : BOOLEAN, edge : Edges]

(* One item of a batch moves no memory; a refused one changes nothing.      *)
LEMMA ItemOK ==
  ASSUME NEW d, GraphOK(d), NEW i \in RelationItems,
         i.edge.src \in Stored(d), i.edge.tgt \in Stored(d)
  PROVE  LET r == RelationItem(d, i)
         IN /\ GraphOK(r.db) /\ r.db.mem = d.mem /\ r.out \in {"ok", "rejected"}
            /\ r.out # "ok" => r.db = d
<1> DEFINE r == RelationItem(d, i)
           e == i.edge
<1>0. d \in Databases /\ e \in Edges
  BY DEF GraphOK, RelationItems
<1>1. Ret(d, "ok").db = d /\ Ret(d, "ok").out = "ok" /\ Ret(d, "rejected").db = d
      /\ Ret(d, "rejected").out = "rejected"
  BY DEF Ret
<1>2. CASE r = Ret(d, "ok") \/ r = Ret(d, "rejected")
  BY <1>1, <1>2
<1>3. CASE r = Ret(Close(d, {e}), "ok") /\ e \in d.act
  <2>1. /\ Close(d, {e}) \in Databases /\ Close(d, {e}).mem = d.mem
        /\ Close(d, {e}).ever = d.ever /\ Close(d, {e}).act \subseteq d.act
    BY <1>0 DEF Close, Databases
  <2>2. GraphOK(Close(d, {e}))
    BY <2>1, EdgesEnd
  <2>3. r.db = Close(d, {e}) /\ r.out = "ok"
    BY <1>3 DEF Ret
  <2> QED BY <2>1, <2>2, <2>3
<1>4. CASE r = Ret(InsertRelation(d, e), "ok") /\ e.pred \in Semantic
  <2>1. GraphOK(InsertRelation(d, e)) /\ InsertRelation(d, e).mem = d.mem
    BY <1>0, <1>4, InsertOK
  <2>2. r.db = InsertRelation(d, e) /\ r.out = "ok"
    BY <1>4 DEF Ret
  <2> QED BY <2>1, <2>2
<1> QED BY <1>2, <1>3, <1>4 DEF RelationItem, InvalidateRelation, StoreRelation

(* What declaring the details of a memory leaves.                           *)
ReconciledTo(d, r, core, new) ==
  /\ r.out \in {"ok", "raised"} /\ r.db.mem = d.mem
  /\ GraphOK(r.db) /\ Stored(r.db) = Stored(d)
  /\ \A e \in r.db.ever : e \in d.ever \/ (e.pred = "elaborates_on" /\ e.src \in new /\ e.tgt = core)
  /\ \A e \in r.db.act : e \in d.act \/ (e.pred = "elaborates_on" /\ e.src \in new /\ e.tgt = core)

(* The declared details of a memory: exactly one target each.               *)
LEMMA ReconcileOK ==
  ASSUME NEW d, GraphOK(d), NEW core \in Stored(d), NEW new, new \subseteq Stored(d), NEW old, NEW similar
  PROVE  ReconciledTo(d, Reconcile(d, core, new, old, similar), core, new)
<1> DEFINE r == Reconcile(d, core, new, old, similar)
           want == {Edge(s, "elaborates_on", core) : s \in new} \ d.act
           gone == {Edge(s, "elaborates_on", core) : s \in old \ new} \cap d.act
           shut == gone \cup UNION {Stale(d, e) : e \in want}
           x == [d EXCEPT !.act = (@ \ shut) \cup want, !.inv = @ \cup shut, !.ever = @ \cup want]
<1>0. d \in Databases /\ core \in Ids /\ new \subseteq Ids
  BY DEF GraphOK, Stored
<1>1. r = Ret(d, "raised") \/ r = Ret(x, "ok")
  BY DEF Reconcile
<1>2. \A e \in want : e \in Edges /\ e.pred = "elaborates_on" /\ e.src \in new /\ e.tgt = core
  BY <1>0, EdgeIs, Predicates
<1>3. shut \subseteq d.act
  <2>1. ASSUME NEW e \in want PROVE Stale(d, e) \subseteq d.act
    BY <1>2, StaleIs
  <2> HIDE DEF want
  <2> QED BY <2>1
<1>4. \A e \in want : Stale(d, e) \subseteq shut
  OBVIOUS
<1> HIDE DEF shut, want, gone
<1>5. /\ x \in Databases /\ x.mem = d.mem /\ x.act = (d.act \ shut) \cup want /\ x.ever = d.ever \cup want
  BY <1>0, <1>2, <1>3 DEF Databases
<1> HIDE DEF x
<1>6. SingleStrongIn(x)
  <2> SUFFICES ASSUME NEW f \in x.act, NEW g \in x.act, f.pred \in Strong, f.pred = g.pred, f.src = g.src
               PROVE  f = g
    BY DEF SingleStrongIn
  <2>1. CASE f \in d.act /\ g \in d.act
    BY <2>1 DEF GraphOK, SingleStrongIn
  <2>2. ASSUME NEW e \in want, NEW h \in d.act \ shut, e.pred = h.pred, e.src = h.src
        PROVE  e = h
    <3>1. h \in Edges /\ e \in Edges
      BY <1>0, <1>2 DEF Databases
    <3>2. h.tgt = e.tgt
      BY <1>2, <1>4, <2>2, <3>1, StaleIs, Predicates
    <3> QED BY <2>2, <3>1, <3>2, SameEdge
  <2>3. CASE f \in want /\ g \in want
    BY <1>2, <2>3, SameEdge
  <2> QED BY <1>5, <2>1, <2>2, <2>3
<1>7. x.act \subseteq x.ever
  BY <1>5 DEF GraphOK, EdgesPlaced
<1>8. GraphOK(x) /\ Stored(x) = Stored(d)
  BY <1>2, <1>5, <1>6, <1>7, EdgesChange, Predicates
<1>9. CASE r = Ret(d, "raised")
  <2>1. r.db = d /\ r.out = "raised"
    BY <1>9 DEF Ret
  <2> QED BY <2>1 DEF ReconciledTo
<1>10. CASE r = Ret(x, "ok")
  <2>1. r.db = x /\ r.out = "ok"
    BY <1>10 DEF Ret
  <2>2. \A e \in x.ever : e \in d.ever \/ (e.pred = "elaborates_on" /\ e.src \in new /\ e.tgt = core)
    BY <1>2, <1>5
  <2>3. \A e \in x.act : e \in d.act \/ (e.pred = "elaborates_on" /\ e.src \in new /\ e.tgt = core)
    BY <1>2, <1>5
  <2> HIDE DEF r
  <2> QED BY <1>5, <1>8, <2>1, <2>2, <2>3 DEF r, ReconciledTo
<1> QED BY <1>1, <1>9, <1>10

(* A memory with no lineage yet, and archived memories nothing replaced.    *)
Unlinked(d, n, olds) ==
  /\ n \in Stored(d) /\ olds \subseteq Stored(d) /\ n \notin olds
  /\ \A o \in olds : Status(d, o) = "archived"
  /\ \A e \in d.ever : e.pred \in Lineage => e.src # n /\ e.tgt # n /\ e.tgt \notin olds

(* The lineage edges from a memory to the ones it replaces.                 *)
Links(es, n, k, olds) ==
  /\ k \in Lineage /\ (k \in Strong => \A a, b \in olds : a = b)
  /\ \A e \in es : \E o \in olds : e = Edge(n, k, o)

(* Lineage grows at a memory that has none yet, towards memories archived   *)
(* that nothing replaced before.                                            *)
LEMMA LineageGrows ==
  ASSUME NEW d, GraphOK(d), NEW n, NEW k, NEW olds, NEW es, Unlinked(d, n, olds), Links(es, n, k, olds),
         NEW x \in Databases, x.mem = d.mem, x.act = d.act \cup es, x.ever = d.ever \cup es
  PROVE  GraphOK(x)
<1> USE DEF Unlinked
<1>0. d \in Databases /\ n \in Ids /\ olds \subseteq Ids /\ k \in Lineage
      /\ (k \in Strong => \A a, b \in olds : a = b)
  BY DEF GraphOK, Stored, Links
<1>1. \A e \in es : e \in Edges /\ e.src = n /\ e.pred = k /\ e.tgt \in olds
  BY <1>0, EdgeIs DEF Links
<1>2. x.mem = d.mem /\ x.act = d.act \cup es /\ x.ever = d.ever \cup es
  OBVIOUS
<1>3. Stored(x) = Stored(d) /\ \A m \in Ids : Status(x, m) = Status(d, m)
  BY <1>2 DEF Stored, Status
<1>4. EdgesPlaced(x)
  <2>1. x.act \subseteq x.ever
    BY <1>2 DEF GraphOK, EdgesPlaced
  <2>2. \A e \in x.ever : e.src \in Stored(x) /\ e.tgt \in Stored(x)
    BY <1>1, <1>2, <1>3 DEF GraphOK, EdgesPlaced
  <2>3. ASSUME NEW e \in x.ever, e.pred \in Lineage PROVE Status(x, e.tgt) = "archived"
    <3>1. e.tgt \in Ids
      BY <2>2 DEF Stored
    <3>2. Status(d, e.tgt) = "archived"
      BY <1>1, <1>2, <2>3 DEF GraphOK, EdgesPlaced
    <3> QED BY <1>3, <3>1, <3>2
  <2> QED BY <2>1, <2>2, <2>3 DEF EdgesPlaced
<1>5. OneSuccessorIn(x)
  <2> SUFFICES ASSUME NEW e \in x.ever, NEW f \in x.ever,
                      e.pred \in Lineage, f.pred \in Lineage, e.tgt = f.tgt
               PROVE  e = f
    BY DEF OneSuccessorIn
  <2>1. CASE e \in d.ever /\ f \in d.ever
    BY <2>1 DEF GraphOK, OneSuccessorIn
  <2>2. CASE e \in es /\ f \in es
    BY <1>1, <2>2, SameEdge
  <2> QED BY <1>1, <1>2, <2>1, <2>2
<1>6. AcyclicIn(x)
  <2> SUFFICES ASSUME NEW S \in (SUBSET Ids) \ {{}}
               PROVE  \E m \in S : \A e \in x.ever : e.pred \in Lineage /\ e.src = m => e.tgt \notin S
    BY DEF AcyclicIn
  <2>1. CASE S \subseteq {n}
    <3>1. n \in S /\ S = {n}
      BY <2>1
    <3>2. \A e \in x.ever : e.pred \in Lineage /\ e.src = n => e.tgt \notin S
      BY <1>1, <1>2, <3>1
    <3> QED BY <3>1, <3>2
  <2>2. CASE ~(S \subseteq {n})
    <3>1. S \ {n} \in (SUBSET Ids) \ {{}}
      BY <2>2
    <3>2. PICK m \in S \ {n} : \A e \in d.ever : e.pred \in Lineage /\ e.src = m => e.tgt \notin S \ {n}
      BY <3>1 DEF GraphOK, AcyclicIn
    <3>3. ASSUME NEW e \in x.ever, e.pred \in Lineage, e.src = m PROVE e.tgt \notin S
      <4>1. e \in d.ever
        BY <1>1, <1>2, <3>2, <3>3
      <4> QED BY <3>2, <3>3, <4>1
    <3> QED BY <3>2, <3>3
  <2> QED BY <2>1, <2>2
<1>7. SingleStrongIn(x)
  <2> SUFFICES ASSUME NEW f \in x.act, NEW g \in x.act, f.pred \in Strong, f.pred = g.pred, f.src = g.src
               PROVE  f = g
    BY DEF SingleStrongIn
  <2>1. CASE f \in d.act /\ g \in d.act
    BY <2>1 DEF GraphOK, SingleStrongIn
  <2>2. CASE f \in es /\ g \in es
    BY <1>0, <1>1, <2>2, SameEdge
  <2>3. \A e \in es, h \in d.act : ~(e.pred = h.pred /\ e.src = h.src)
    BY <1>0, <1>1 DEF GraphOK, EdgesPlaced
  <2> QED BY <1>2, <2>1, <2>2, <2>3
<1> QED BY <1>4, <1>5, <1>6, <1>7 DEF GraphOK

(* The semantic edges of a replaced memory move to a successor that has no  *)
(* outgoing semantic edge yet.                                              *)
LEMMA MoveOK ==
  ASSUME NEW d, GraphOK(d), NEW m \in Stored(d), NEW n \in Stored(d), m # n,
         \A e \in d.act : e.pred \in Semantic => e.src # n,
         NEW es, es \subseteq Touching(SemanticOf(d.act), m), \A e \in es : e.src # e.tgt
  PROVE  LET x == MoveEdges(d, es, m, n)
         IN /\ GraphOK(x) /\ x.mem = d.mem
            /\ \A f \in x.act : f \in d.act \ es \/ (f.src # m /\ f.tgt # m)
<1> DEFINE x == MoveEdges(d, es, m, n)
           to == {Moved(e, m, n) : e \in es}
<1>0. d \in Databases /\ m \in Ids /\ n \in Ids
  BY DEF GraphOK, Stored
<1>1. \A e \in es : /\ e \in d.act /\ e \in Edges /\ e.pred \in Semantic /\ m \in {e.src, e.tgt}
                    /\ e.src # e.tgt /\ e.src \in Stored(d) /\ e.tgt \in Stored(d) /\ e.src # n
                    /\ e.src \in Ids /\ e.tgt \in Ids
  BY <1>0 DEF Databases, GraphOK, EdgesPlaced, Touching, SemanticOf, Stored
<1>2. ASSUME NEW e \in es
      PROVE  /\ Moved(e, m, n) \in Edges /\ Moved(e, m, n).pred = e.pred
             /\ e.src = m => Moved(e, m, n).src = n /\ Moved(e, m, n).tgt = e.tgt
             /\ e.src # m => e.tgt = m /\ Moved(e, m, n).src = e.src /\ Moved(e, m, n).tgt = n
  <2>1. CASE e.src = m
    <3>1. Moved(e, m, n) = Edge(n, e.pred, e.tgt)
      BY <1>1, <2>1 DEF Moved
    <3> QED BY <1>0, <1>1, <2>1, <3>1, EdgeIs
  <2>2. CASE e.src # m
    <3>1. e.tgt = m /\ Moved(e, m, n) = Edge(e.src, e.pred, n)
      BY <1>1, <2>2 DEF Moved
    <3> QED BY <1>0, <1>1, <2>2, <3>1, EdgeIs
  <2> QED BY <2>1, <2>2
<1>3. \A f \in to : \E e \in es : f = Moved(e, m, n)
  OBVIOUS
<1>4. to \subseteq Edges
  BY <1>2, <1>3
<1>5. es \subseteq Edges
  BY <1>1
<1>6. x = [d EXCEPT !.act = (@ \ es) \cup to, !.inv = @ \cup es, !.ever = @ \cup to]
  BY DEF MoveEdges
<1> HIDE DEF to
<1>7. x \in Databases /\ x.mem = d.mem /\ x.act = (d.act \ es) \cup to /\ x.ever = d.ever \cup to
  BY <1>0, <1>4, <1>5, <1>6 DEF Databases
<1> HIDE DEF x
<1>8. ASSUME NEW f \in to
      PROVE f.pred \in Semantic /\ f.src \in Stored(d) /\ f.tgt \in Stored(d) /\ f.src # m /\ f.tgt # m
  BY <1>1, <1>2, <1>3
<1>9. SingleStrongIn(x)
  <2> SUFFICES ASSUME NEW f \in x.act, NEW g \in x.act, f.pred \in Strong, f.pred = g.pred, f.src = g.src
               PROVE  f = g
    BY DEF SingleStrongIn
  <2>1. CASE f \in d.act /\ g \in d.act
    BY <2>1 DEF GraphOK, SingleStrongIn
  <2>2. \A e, h \in es : e.pred \in Strong /\ e.pred = h.pred /\ e.src = h.src => e = h
    BY <1>1 DEF GraphOK, SingleStrongIn
  <2>3. CASE f \in to /\ g \in to
    <3>1. PICK e \in es : f = Moved(e, m, n)
      BY <1>3, <2>3
    <3>2. PICK h \in es : g = Moved(h, m, n)
      BY <1>3, <2>3
    <3>3. e.pred = f.pred /\ h.pred = g.pred
      BY <1>2, <3>1, <3>2
    <3>4. e.src = h.src
      BY <1>1, <1>2, <3>1, <3>2
    <3> QED BY <2>2, <3>1, <3>2, <3>3, <3>4
  <2>4. ASSUME NEW e \in es, NEW h \in d.act \ es, Moved(e, m, n).pred = h.pred,
               Moved(e, m, n).src = h.src, h.pred \in Strong
        PROVE  FALSE
    <3>1. h.pred = e.pred /\ e.pred \in Semantic /\ e \in d.act
      BY <1>1, <1>2, <2>4
    <3>2. h.src = e.src
      BY <1>2, <2>4, <3>1
    <3> QED BY <2>4, <3>1, <3>2 DEF GraphOK, SingleStrongIn
  <2> QED BY <1>3, <1>7, <2>1, <2>3, <2>4
<1>10. x.act \subseteq x.ever
  BY <1>7 DEF GraphOK, EdgesPlaced
<1>11. \A e \in x.ever : \/ e \in d.ever
                         \/ e.pred \notin Lineage /\ e.src \in Stored(d) /\ e.tgt \in Stored(d)
  BY <1>7, <1>8, Predicates
<1>12. GraphOK(x)
  BY <1>7, <1>9, <1>10, <1>11, EdgesChange
<1>13. \A f \in x.act : f \in d.act \ es \/ (f.src # m /\ f.tgt # m)
  BY <1>7, <1>8
<1> QED BY <1>7, <1>12, <1>13 DEF x

-----------------------------------------------------------------------------
(* The transactions                                                         *)

(* A memory derived from raw ones: its row, its details, its sources        *)
(* archived, one lineage edge to each of them.                              *)
Derivation(d, row, dets, olds, similar, es) ==
  LET n == NewId(d)
      made == Reconcile([d EXCEPT !.mem[n] = row], n, dets, {}, similar)
      gone == SetStatus(made.db, olds, "archived")
  IN [gone EXCEPT !.act = @ \cup es, !.ever = @ \cup es]

(* What a derivation starts from, and what it leaves.                       *)
Derivable(d, row, dets, olds, k, es) ==
  /\ GraphOK(d) /\ Fresh(d) # {} /\ row \in StoredRows /\ dets \subseteq Stored(d)
  /\ olds \subseteq Ids /\ \A o \in olds : Status(d, o) = "raw"
  /\ Links(es, NewId(d), k, olds)
DerivedTo(d, x, n, dets, olds) ==
  /\ GraphOK(x) /\ StatusMoves(d, x) /\ BodiesKept(d, x)
  /\ n \in Stored(x) /\ n \notin Stored(d) /\ n \in Ids /\ olds \subseteq Stored(x)
  /\ \A m \in Ids : m # n => x.mem[m].core = d.mem[m].core
  /\ \A e \in x.act : e.pred \in Semantic => e \in d.act \/ (e.pred = "elaborates_on" /\ e.src \in dets /\ e.tgt = n)

(* A derivation leaves the graph sound.                                     *)
LEMMA DerivedOK ==
  ASSUME NEW d, NEW row, NEW dets, NEW olds, NEW k, NEW similar, NEW es,
         Derivable(d, row, dets, olds, k, es)
  PROVE  DerivedTo(d, Derivation(d, row, dets, olds, similar, es), NewId(d), dets, olds)
<1> DEFINE n == NewId(d)
           d1 == [d EXCEPT !.mem[n] = row]
           made == Reconcile(d1, n, dets, {}, similar)
           d2 == made.db
           gone == SetStatus(d2, olds, "archived")
           x == [gone EXCEPT !.act = @ \cup es, !.ever = @ \cup es]
<1>0. d \in Databases /\ n \in Ids /\ n \notin Stored(d)
  BY NewIdFresh DEF GraphOK, Derivable
<1>b. /\ GraphOK(d) /\ row \in StoredRows /\ dets \subseteq Stored(d)
      /\ olds \subseteq Ids /\ \A o \in olds : Status(d, o) = "raw"
  BY DEF Derivable
<1>a. Links(es, n, k, olds) /\ k \in Lineage
  BY DEF Links, Derivable
<1> HIDE DEF n
<1>1. Status(d, n) = "none"
  BY <1>0, StoredIs
<1>2. /\ GraphOK(d1) /\ StatusMoves(d, d1) /\ d1.act = d.act /\ d1.ever = d.ever
      /\ \A m \in Ids : m # n => d1.mem[m] = d.mem[m]
      /\ Stored(d1) = Stored(d) \cup {n}
  BY <1>0, <1>b, <1>1, RowWritten
<1> HIDE DEF d1
<1>3. /\ d2.mem = d1.mem /\ GraphOK(d2) /\ Stored(d2) = Stored(d1)
      /\ \A e \in d2.ever : e \in d.ever \/ (e.pred = "elaborates_on" /\ e.src \in dets /\ e.tgt = n)
      /\ \A e \in d2.act : e \in d.act \/ (e.pred = "elaborates_on" /\ e.src \in dets /\ e.tgt = n)
  <2>1. n \in Stored(d1) /\ dets \subseteq Stored(d1) /\ GraphOK(d1)
    BY <1>b, <1>2
  <2>2. /\ d2.mem = d1.mem /\ GraphOK(d2) /\ Stored(d2) = Stored(d1)
        /\ \A e \in d2.ever : e \in d1.ever \/ (e.pred = "elaborates_on" /\ e.src \in dets /\ e.tgt = n)
        /\ \A e \in d2.act : e \in d1.act \/ (e.pred = "elaborates_on" /\ e.src \in dets /\ e.tgt = n)
    <3>1. ReconciledTo(d1, made, n, dets)
      BY <2>1, ReconcileOK, Zenon
    <3> HIDE DEF made
    <3> QED BY <3>1 DEF ReconciledTo
  <2> HIDE DEF d2
  <2> QED BY <1>2, <2>2
<1> HIDE DEF d2, made
<1>4. olds \subseteq Stored(d) /\ n \notin olds
  BY <1>0, <1>b, <1>1 DEF Stored
<1>5. olds \subseteq Stored(d2)
  BY <1>2, <1>3, <1>4
<1>6. /\ GraphOK(gone) /\ StatusMoves(d2, gone)
      /\ gone.act = d2.act /\ gone.ever = d2.ever /\ Stored(gone) = Stored(d2)
      /\ \A m \in Ids : /\ m \in olds => Status(gone, m) = "archived"
                        /\ gone.mem[m].core = d2.mem[m].core /\ gone.mem[m].body = d2.mem[m].body
  BY <1>3, <1>5, Archived
<1> HIDE DEF gone
<1>7. ASSUME NEW e \in gone.ever, e.pred \in Lineage PROVE e.src # n /\ e.tgt # n /\ e.tgt \notin olds
  <2>1. e \in d.ever
    BY <1>3, <1>6, <1>7, Predicates
  <2>2. e.src \in Stored(d) /\ e.tgt \in Stored(d) /\ Status(d, e.tgt) = "archived"
    BY <1>b, <1>7, <2>1 DEF GraphOK, EdgesPlaced
  <2> QED BY <1>0, <1>b, <2>2
<1>8. n \in Stored(gone) /\ olds \subseteq Stored(gone) /\ \A o \in olds : Status(gone, o) = "archived"
  BY <1>b, <1>2, <1>3, <1>5, <1>6
<1>9. GraphOK(x) /\ x.mem = gone.mem /\ x.act = gone.act \cup es /\ \A e \in es : e.pred = k
  <2>0. \A e \in es : e \in Edges /\ e.pred = k
    BY <1>0, <1>b, <1>a, EdgeIs DEF Links
  <2>1. x \in Databases /\ x.mem = gone.mem /\ x.act = gone.act \cup es /\ x.ever = gone.ever \cup es
    BY <1>6, <2>0 DEF GraphOK, Databases
  <2>2. Unlinked(gone, n, olds)
    BY <1>4, <1>7, <1>8 DEF Unlinked
  <2> HIDE DEF x
  <2>3. GraphOK(x)
    BY <1>a, <1>6, <2>1, <2>2, LineageGrows
  <2> QED BY <2>0, <2>1, <2>3
<1> HIDE DEF x
<1>10. StatusMoves(d1, d2) /\ StatusMoves(gone, x)
  BY <1>3, <1>9 DEF StatusMoves, Status
<1>11. StatusMoves(d, x)
  BY <1>2, <1>6, <1>10, MovesOn
<1>12. Stored(x) = Stored(gone)
  BY <1>9 DEF Stored, Status
<1>13. \A m \in Ids : m # n => x.mem[m].core = d.mem[m].core /\ x.mem[m].body = d.mem[m].body
  BY <1>2, <1>3, <1>6, <1>9
<1>14. BodiesKept(d, x)
  BY <1>0, <1>13 DEF BodiesKept, Stored
<1>15. \A e \in x.act : e.pred \in Semantic => e \in d.act \/ (e.pred = "elaborates_on" /\ e.src \in dets /\ e.tgt = n)
  BY <1>a, <1>3, <1>6, <1>9, Predicates
<1> QED BY <1>0, <1>8, <1>9, <1>11, <1>12, <1>13, <1>14, <1>15
        DEF n, d1, made, d2, gone, x, Derivation, DerivedTo

(* revise_memory and supersede_memory: the successor, the edges that moved, *)
(* and the edges left on the predecessor.                                   *)
LeftBehind(d, x, p) ==
  LET n == NewId(d)
      left == Touching(SemanticOf(x.act), p.old)
  IN /\ left \subseteq Touching(SemanticOf(d.act), p.old) \cup OwnDetail(p, n)
     /\ p.repoint => /\ left \subseteq Unmoved(x, p.old, n)
                     /\ left \subseteq Unmoved(d, p.old, n) \cup OwnDetail(p, n)

LEMMA ReplaceOK ==
  ASSUME NEW d, GraphOK(d), Fresh(d) # {}, NEW p \in ReplaceJobs
  PROVE  LET r == Replace(d, p)
         IN /\ r.out \in {"ok", "raised"}
            /\ r.out = "ok" => /\ GraphOK(r.db) /\ StatusMoves(d, r.db) /\ BodiesKept(d, r.db)
                               /\ LeftBehind(d, r.db, p)
<1> DEFINE n == NewId(d)
           old == p.old
           core == DerivedCore(d, {old}, p)
           dets == IF core = "core" THEN p.details ELSE {}
           row == Row("raw", p.body, core = "core", dets, p.meta)
           made == Reconcile([d EXCEPT !.mem[n] = row], n, dets, {}, p.similar)
           gone == SetStatus(made.db, {old}, "archived")
           es == {Edge(n, p.kind, old)}
           x == Derivation(d, row, dets, {old}, p.similar, es)
           r == Replace(d, p)
           mv == Touching(SemanticOf(x.act), old) \ Unmoved(x, old, n)
           y == MoveEdges(x, mv, old, n)
<1>0. d \in Databases /\ old \in Ids /\ p.kind \in Lineage /\ p.body \in Drafts /\ p.meta \in SUBSET Keys
      /\ p.details \in SUBSET Ids
  BY DEF GraphOK, ReplaceJobs, Lineage
<1>1. \/ r = Ret(d, "raised")
      \/ /\ Status(d, old) = "raw" /\ core \in {"core", "ordinary"}
         /\ r = Ret(IF p.repoint THEN y ELSE x, "ok")
  <2>1. Open(gone, Edge(n, p.kind, old)) = x
    BY DEF Open, Derivation
  <2>2. ReplaceRows(d, p, n, core = "core") = Ret(gone, made.out)
    BY DEF ReplaceRows
  <2>3. ReplaceRows(d, p, n, core = "core").db = gone
    BY <2>2 DEF Ret
  <2>4. core \in {"undecided", "ordinary", "core", "refused"}
    BY DEF DerivedCore
  <2>5. Repoint(x, old, n, p) = y
    BY DEF Repoint
  <2>6. ~SourceUnchanged(d, p) \/ Status(d, old) = "raw"
    BY DEF SourceUnchanged
  <2> HIDE DEF core, x, y, gone, made
  <2> QED BY <2>1, <2>3, <2>4, <2>5, <2>6 DEF Replace, core
<1>2. CASE r = Ret(d, "raised")
  <2>1. r.out = "raised"
    BY <1>2 DEF Ret
  <2> QED BY <2>1
<1>3. CASE Status(d, old) = "raw" /\ core \in {"core", "ordinary"}
           /\ r = Ret(IF p.repoint THEN y ELSE x, "ok")
  <2>1. core = "core" => p.core = "core" /\ p.details \subseteq Stored(d)
    BY DEF DerivedCore, DetailsAllowed
  <2> HIDE DEF core
  <2>2. dets \in SUBSET Stored(d) /\ dets \in SUBSET Ids /\ (old \in dets => p.core = "core" /\ old \in p.details)
    BY <1>0, <2>1 DEF Stored
  <2> HIDE DEF dets
  <2>3. row \in StoredRows
    BY <1>0, <2>2 DEF Row, StoredRows
  <2> HIDE DEF row, n
  <2>4. /\ GraphOK(x) /\ StatusMoves(d, x) /\ BodiesKept(d, x)
        /\ n \in Stored(x) /\ n \notin Stored(d) /\ n \in Ids /\ {old} \subseteq Stored(x)
        /\ \A m \in Ids : m # n => x.mem[m].core = d.mem[m].core
        /\ \A e \in x.act : e.pred \in Semantic => e \in d.act \/ (e.pred = "elaborates_on" /\ e.src \in dets /\ e.tgt = n)
    <3> DEFINE olds == {old}
    <3>1. Derivable(d, row, dets, olds, p.kind, es)
      BY <1>0, <1>3, <2>2, <2>3 DEF Derivable, Links, n
    <3>2. x = Derivation(d, row, dets, olds, p.similar, es)
      OBVIOUS
    <3> HIDE DEF olds, es, x
    <3>3. DerivedTo(d, x, n, dets, olds)
      BY <3>1, <3>2, DerivedOK, Zenon DEF n
    <3> QED BY <3>3 DEF olds, DerivedTo
  <2> HIDE DEF x, gone, es, made, n
  <2>5. old \in Stored(d) /\ old # n
    BY <1>0, <1>3, <2>4, StoredIs
  <2>6. ASSUME NEW e \in x.act, e.pred \in Semantic
        PROVE  e.src # n /\ (old \in {e.src, e.tgt} => e \in d.act \/ e \in OwnDetail(p, n))
    <3>1. e \in d.act => e.src \in Stored(d)
      BY DEF GraphOK, EdgesPlaced
    <3>2. CASE e \in d.act
      BY <2>4, <3>1, <3>2
    <3>3. CASE e \notin d.act
      <4>1. e.src \in dets /\ e.tgt = n /\ e.pred = "elaborates_on"
        BY <2>4, <2>6, <3>3
      <4>2. e.src # n
        BY <2>2, <2>4, <4>1
      <4>3. ASSUME old \in {e.src, e.tgt} PROVE e \in OwnDetail(p, n)
        <5>1. e.src = old /\ old \in dets
          BY <2>5, <4>1, <4>3
        <5>2. e \in Edges
          BY <2>4, <2>6 DEF GraphOK, Databases
        <5>3. e = Edge(old, "elaborates_on", n)
          BY <1>0, <2>4, <4>1, <5>1, <5>2, EdgeIs, SameEdge, Predicates
        <5> QED BY <2>2, <5>1, <5>3 DEF OwnDetail
      <4> QED BY <4>2, <4>3
    <3> QED BY <3>2, <3>3
  <2>7. Touching(SemanticOf(x.act), old) \subseteq Touching(SemanticOf(d.act), old) \cup OwnDetail(p, n)
    BY <2>6 DEF Touching, SemanticOf
  <2>8. CASE ~p.repoint
    <3>1. r.db = x /\ r.out = "ok"
      BY <1>3, <2>8 DEF Ret
    <3> HIDE DEF r
    <3>2. LeftBehind(d, r.db, p)
      BY <2>7, <2>8, <3>1 DEF LeftBehind, n
    <3> QED BY <2>4, <3>1, <3>2 DEF r
  <2>9. CASE p.repoint
    <3>1. mv \subseteq Touching(SemanticOf(x.act), old) /\ \A e \in mv : e.src # e.tgt
      <4> SUFFICES ASSUME NEW e \in mv PROVE e.src # e.tgt
        OBVIOUS
      <4>1. e \in Touching(SemanticOf(x.act), old) /\ Moved(e, old, n).src # Moved(e, old, n).tgt
        BY DEF Unmoved
      <4>2. Moved(e, old, n).src = (IF e.src = old THEN n ELSE e.src)
            /\ Moved(e, old, n).tgt = (IF e.tgt = old THEN n ELSE e.tgt)
        BY DEF Moved, Edge
      <4> QED BY <4>1, <4>2
    <3> HIDE DEF mv
    <3>2. /\ GraphOK(y) /\ y.mem = x.mem
          /\ \A f \in y.act : f \in x.act \ mv \/ (f.src # old /\ f.tgt # old)
      BY <2>4, <2>5, <2>6, <3>1, MoveOK
    <3> HIDE DEF y
    <3>3. Touching(SemanticOf(y.act), old) \subseteq Touching(SemanticOf(x.act), old) \ mv
      BY <3>2 DEF Touching, SemanticOf
    <3>4. Touching(SemanticOf(y.act), old) \subseteq Unmoved(x, old, n)
      BY <3>3 DEF mv
    <3>5. x.mem[old].core = d.mem[old].core /\ y.mem[old].core = d.mem[old].core
      BY <1>0, <2>4, <2>5, <3>2
    <3>6. Touching(SemanticOf(y.act), old) \subseteq Unmoved(y, old, n)
      BY <3>4, <3>5 DEF Unmoved
    <3>7. Touching(SemanticOf(y.act), old) \subseteq Unmoved(d, old, n) \cup OwnDetail(p, n)
      BY <2>7, <3>3, <3>4, <3>5 DEF Unmoved
    <3>8. StatusMoves(d, y) /\ BodiesKept(d, y)
      BY <2>4, <3>2 DEF StatusMoves, BodiesKept, Status
    <3>9. r.db = y /\ r.out = "ok"
      BY <1>3, <2>9 DEF Ret
    <3>10. Touching(SemanticOf(y.act), old)
             \subseteq Touching(SemanticOf(d.act), old) \cup OwnDetail(p, n)
      BY <2>7, <3>3
    <3> HIDE DEF r
    <3>11. LeftBehind(d, r.db, p)
      BY <2>9, <3>6, <3>7, <3>9, <3>10 DEF LeftBehind, n
    <3> QED BY <3>2, <3>8, <3>9, <3>11 DEF r
  <2> QED BY <2>8, <2>9
<1> QED BY <1>1, <1>2, <1>3

(* consolidate_memories: one merge.                                         *)
LEMMA MergeOK ==
  ASSUME NEW d, GraphOK(d), NEW i \in MergeItems
  PROVE  LET r == MergeItem(d, i)
         IN /\ r.out \in {"ok", "raised"}
            /\ r.out = "ok" => GraphOK(r.db) /\ StatusMoves(d, r.db) /\ BodiesKept(d, r.db)
<1> DEFINE n == NewId(d)
           olds == i.parents
           core == DerivedCore(d, olds, i)
           dets == IF core = "core" THEN i.details ELSE {}
           row == Row("consolidated", i.body, core = "core", dets, {})
           made == Reconcile([d EXCEPT !.mem[n] = row], n, dets, {}, i.similar)
           gone == SetStatus(made.db, olds, "archived")
           es == {Edge(n, "consolidated_from", m) : m \in olds}
           x == Derivation(d, row, dets, olds, i.similar, es)
           r == MergeItem(d, i)
<1>0. /\ olds \subseteq Ids /\ i.body \in Drafts /\ i.details \subseteq Ids
      /\ i.seen \in [olds -> SeenRows]
  BY DEF MergeItems
<1>1. \/ r = Ret(d, "raised")
      \/ Revalidated(d, i) /\ Fresh(d) # {} /\ core \in {"core", "ordinary"} /\ r = Ret(x, "ok")
  <2>1. core \in {"undecided", "ordinary", "core", "refused"}
    BY DEF DerivedCore
  <2>2. [gone EXCEPT !.act = @ \cup es, !.ever = @ \cup es] = x
    BY DEF Derivation
  <2>3. CASE Revalidated(d, i) /\ Fresh(d) # {} /\ core \in {"core", "ordinary"} /\ made.out = "ok"
    <3>1. r = Ret([gone EXCEPT !.act = @ \cup es, !.ever = @ \cup es], "ok")
      BY <2>3 DEF MergeItem
    <3> HIDE DEF r, x, gone, es, core
    <3> QED BY <2>2, <2>3, <3>1
  <2>4. CASE ~(Revalidated(d, i) /\ Fresh(d) # {} /\ core \in {"core", "ordinary"} /\ made.out = "ok")
    BY <2>1, <2>4 DEF MergeItem
  <2> QED BY <2>3, <2>4
<1>2. CASE r = Ret(d, "raised")
  <2>1. r.out = "raised"
    BY <1>2 DEF Ret
  <2> QED BY <2>1
<1>3. CASE Revalidated(d, i) /\ Fresh(d) # {} /\ core \in {"core", "ordinary"} /\ r = Ret(x, "ok")
  <2>1. core = "core" => i.details \subseteq Stored(d)
    BY DEF DerivedCore, DetailsAllowed
  <2>2. ASSUME NEW o \in olds PROVE Status(d, o) = "raw"
    <3>1. [st |-> Status(d, o), body |-> d.mem[o].body] = i.seen[o]
      BY <1>3, <2>2 DEF Revalidated, Observed
    <3>2. i.seen[o] \in SeenRows
      BY <1>0, <2>2
    <3> QED BY <3>1, <3>2 DEF SeenRows
  <2> HIDE DEF core
  <2>4. dets \subseteq Stored(d) /\ dets \subseteq Ids
    BY <1>0, <2>1 DEF Stored
  <2> HIDE DEF dets
  <2>5. row \in StoredRows
    BY <1>0, <2>4 DEF Row, StoredRows
  <2> HIDE DEF row
  <2>6. Links(es, n, "consolidated_from", olds)
    BY DEF Links, Lineage, Strong
  <2> HIDE DEF es, olds
  <2>7. Derivable(d, row, dets, olds, "consolidated_from", es)
    BY <1>0, <1>3, <2>2, <2>4, <2>5, <2>6 DEF Derivable
  <2>8. DerivedTo(d, x, n, dets, olds)
    BY <2>7, DerivedOK, Zenon
  <2> HIDE DEF x
  <2>9. GraphOK(x) /\ StatusMoves(d, x) /\ BodiesKept(d, x)
    BY <2>8 DEF DerivedTo
  <2>10. r.db = x /\ r.out = "ok"
    BY <1>3 DEF Ret
  <2> HIDE DEF r
  <2> QED BY <2>9, <2>10 DEF r
<1> QED BY <1>1, <1>2, <1>3

(* store_memory: the write.  Inside the daemon it keeps every stored body   *)
(* and adds no second copy of a content.                                    *)
LEMMA StoreOK ==
  ASSUME NEW d, GraphOK(d), Fresh(d) # {}, NEW plan \in StoreJobs
  PROVE  LET r == StoreRaw(d, plan)
         IN /\ r.out \in {"ok", "raised"} /\ GraphOK(r.db) /\ StatusMoves(d, r.db)
            /\ StoreCurrent(d, plan) =>
                 /\ BodiesKept(d, r.db)
                 /\ \A m \in Stored(r.db) \ Stored(d) :
                      \A n \in Ids \ {m} : ~Twin(r.db, r.db.mem[m].body, n)
<1> DEFINE m == IF plan.target = 0 THEN NewId(d) ELSE plan.target
           old == d.mem[m]
           core == StoredCore(old, plan.core)
           ds == IF ~core THEN {} ELSE IF plan.details = Undeclared THEN old.details ELSE plan.details
           base == WithHistory(d, m, plan)
           row == Row(UpsertStatus(old), plan.body, core, ds, old.meta \cup plan.meta)
           wrote == [base EXCEPT !.mem[m] = row]
           r == StoreRaw(d, plan)
           made == Reconcile(wrote, m, ds, old.details, plan.similar)
<1>0. /\ d \in Databases /\ plan.target \in {0} \cup Ids /\ plan.body \in Drafts
      /\ plan.meta \subseteq Keys
  BY DEF GraphOK, StoreJobs
<1>1. m \in Ids /\ (plan.target = 0 => m \notin Stored(d)) /\ (plan.target # 0 => m = plan.target)
  BY <1>0, NewIdFresh
<1>2. r = Ret(d, "raised") \/ (r = made /\ (core => DetailsAllowed(d, ds)))
  BY DEF StoreRaw
<1>3. CASE r = Ret(d, "raised")
  <2>1. r.out = "raised" /\ r.db = d
    BY <1>3 DEF Ret
  <2>2. StatusMoves(d, d) /\ BodiesKept(d, d)
    BY DEF StatusMoves, BodiesKept
  <2> HIDE DEF r
  <2> QED BY <2>1, <2>2 DEF r
<1>4. CASE r = made /\ (core => DetailsAllowed(d, ds))
  <2>1. old \in StoredRows \/ old = NoRow
    BY <1>0, <1>1, StoredIs
  <2>2. core \in BOOLEAN
    <3>1. old.core \in BOOLEAN
      <4> HIDE DEF old
      <4>1. CASE old \in StoredRows
        BY <4>1 DEF StoredRows
      <4>2. CASE old = NoRow
        <5>1. NoRow.core = FALSE
          BY DEF NoRow
        <5> QED BY <4>2, <5>1
      <4> QED BY <2>1, <4>1, <4>2
    <3>2. CASE plan.core = "omitted"
      <4>1. core = old.core
        BY <3>2 DEF StoredCore
      <4> QED BY <3>1, <4>1
    <3>3. CASE plan.core # "omitted"
      <4>1. core = (plan.core = "core")
        BY <3>3, Zenon DEF StoredCore
      <4> QED BY <4>1
    <3> QED BY <3>2, <3>3
  <2>3. ds \subseteq Stored(d) /\ ds \subseteq Ids
    <3>1. CASE ~core
      BY <3>1
    <3>2. CASE core
      <4>1. ds \subseteq Stored(d)
        BY <1>4, <3>2 DEF DetailsAllowed
      <4> HIDE DEF ds
      <4> QED BY <4>1 DEF Stored
    <3> HIDE DEF ds
    <3> QED BY <3>1, <3>2
  <2> HIDE DEF core, ds
  <2>4. row \in StoredRows /\ Status(d, m) \in {"none", row.st} /\ row.body = plan.body
    BY <1>0, <2>1, <2>2, <2>3 DEF Row, StoredRows, NoRow, UpsertStatus, Status
  <2> HIDE DEF row
  <2>5. /\ GraphOK(base) /\ StatusMoves(d, base) /\ Stored(d) \subseteq Stored(base)
        /\ base.mem[m] = d.mem[m] /\ \A n \in Stored(d) : base.mem[n] = d.mem[n]
        /\ m \notin Stored(d) \/ ~plan.fresh => base = d
    <3>1. CASE m \in Stored(d) /\ plan.fresh
      <4> DEFINE n == NewId(d)
                 kept == [d.mem[m] EXCEPT !.st = "archived"]
      <4>1. n \in Ids /\ n \notin Stored(d) /\ Status(d, n) = "none"
        BY <1>0, NewIdFresh, StoredIs
      <4>2. kept \in StoredRows
        BY <1>0, <1>1, <3>1, StoredIs DEF StoredRows
      <4>3. base = [d EXCEPT !.mem[n] = kept]
        BY <3>1 DEF WithHistory
      <4> HIDE DEF n, kept, base
      <4>4. /\ GraphOK(base) /\ StatusMoves(d, base)
            /\ \A k \in Ids : k # n => base.mem[k] = d.mem[k]
            /\ Stored(base) = Stored(d) \cup {n}
        BY <4>1, <4>2, <4>3, RowWritten
      <4>5. Stored(d) \subseteq Ids
        BY DEF Stored
      <4> QED BY <3>1, <4>1, <4>4, <4>5
    <3>2. CASE ~(m \in Stored(d) /\ plan.fresh)
      <4>1. base = d
        BY <3>2 DEF WithHistory
      <4>2. StatusMoves(d, d)
        BY DEF StatusMoves
      <4> HIDE DEF base
      <4> QED BY <3>2, <4>1, <4>2
    <3> QED BY <3>1, <3>2
  <2> HIDE DEF base, m
  <2>6. Status(base, m) \in {"none", row.st}
    BY <2>4, <2>5 DEF Status
  <2>7. /\ GraphOK(wrote) /\ StatusMoves(base, wrote) /\ wrote.mem[m] = row
        /\ \A n \in Ids : n # m => wrote.mem[n] = base.mem[n]
        /\ Stored(wrote) = Stored(base) \cup {m}
    <3>1. GraphOK(base) /\ m \in Ids /\ row \in StoredRows
      BY <1>1, <2>4, <2>5
    <3> QED BY <2>6, <3>1, RowWritten
  <2> HIDE DEF wrote
  <2>8. ReconciledTo(wrote, made, m, ds)
    <3>1. m \in Stored(wrote) /\ ds \subseteq Stored(wrote) /\ GraphOK(wrote)
      BY <2>3, <2>5, <2>7
    <3> QED BY <3>1, ReconcileOK, Zenon
  <2> HIDE DEF made
  <2>9. /\ r.out \in {"ok", "raised"} /\ GraphOK(r.db) /\ r.db.mem = wrote.mem
    BY <1>4, <2>8 DEF ReconciledTo
  <2> HIDE DEF r
  <2>10. StatusMoves(wrote, r.db)
    BY <2>9 DEF StatusMoves, Status
  <2>11. StatusMoves(d, r.db)
    BY <2>5, <2>7, <2>10, MovesOn
  <2>12. ASSUME StoreCurrent(d, plan) PROVE BodiesKept(d, r.db)
    <3> SUFFICES ASSUME NEW n \in Stored(d) PROVE r.db.mem[n].body = d.mem[n].body
      BY DEF BodiesKept
    <3>1. n \in Ids
      BY DEF Stored
    <3>2. CASE n # m
      BY <2>5, <2>7, <2>9, <3>1, <3>2
    <3>3. CASE n = m
      <4>1. plan.target = n /\ plan.body = d.mem[n].body
        BY <1>1, <2>12, <3>3 DEF StoreCurrent
      <4> QED BY <2>4, <2>7, <2>9, <3>3, <4>1
    <3> QED BY <3>2, <3>3
  <2>13. ASSUME StoreCurrent(d, plan), NEW k \in Stored(r.db) \ Stored(d), NEW n \in Ids \ {k}
         PROVE  ~Twin(r.db, r.db.mem[k].body, n)
    <3>1. plan.target \in Stored(d) => ~plan.fresh
      BY <2>13 DEF StoreCurrent
    <3>2. base = d
      BY <1>0, <1>1, <2>5, <3>1
    <3>3. Stored(r.db) = Stored(wrote)
      BY <2>9 DEF Stored, Status
    <3>4. k = m /\ m \notin Stored(d)
      BY <2>7, <2>13, <3>2, <3>3
    <3>5. plan.target \notin Stored(d)
      <4>1. 0 \notin Ids
        BY GraphConstants DEF Ids
      <4> QED BY <1>1, <3>4, <4>1 DEF Stored
    <3>6. ~Twin(d, plan.body, n)
      BY <2>13, <3>5 DEF StoreCurrent
    <3>7. r.db.mem[n] = d.mem[n] /\ r.db.mem[k].body = plan.body
      BY <2>4, <2>7, <2>9, <3>2, <3>4
    <3>8. n \in Live(r.db) <=> n \in Live(d)
      BY <3>7 DEF Live, Status
    <3> QED BY <3>6, <3>7, <3>8 DEF Twin
  <2> QED BY <2>9, <2>11, <2>12, <2>13 DEF r
<1> QED BY <1>2, <1>3, <1>4

(* archive_memories: the memories and every relation of theirs.             *)
LEMMA ArchiveOK ==
  ASSUME NEW d, GraphOK(d), NEW ms, NEW agent
  PROVE  LET r == ArchiveMemories(d, ms, agent)
         IN GraphOK(r.db) /\ StatusMoves(d, r.db) /\ BodiesKept(d, r.db)
<1> DEFINE r == ArchiveMemories(d, ms, agent)
           gone == ms \cap Live(d)
           x == SetStatus(d, gone, "archived")
           y == ArchiveAll(d, gone)
<1>0. d \in Databases
  BY DEF GraphOK
<1>1. r = Ret(d, "rejected") \/ r = Ret(y, "ok")
  BY DEF ArchiveMemories
<1>2. gone \subseteq Stored(d)
  BY <1>0, StoredIs DEF Live
<1> HIDE DEF gone
<1>3. GraphOK(x) /\ StatusMoves(d, x) /\ BodiesKept(d, x)
  BY <1>2, Archived
<1>4. y = [x EXCEPT !.act = {e \in @ : {e.src, e.tgt} \cap gone = {}}]
  BY DEF ArchiveAll
<1> HIDE DEF x, y
<1>5. y \in Databases /\ y.mem = x.mem /\ y.ever = x.ever /\ y.act \subseteq x.act
  BY <1>3, <1>4 DEF GraphOK, Databases
<1>6. GraphOK(y)
  BY <1>3, <1>5, EdgesEnd
<1>7. StatusMoves(d, y) /\ BodiesKept(d, y) /\ StatusMoves(d, d) /\ BodiesKept(d, d)
  BY <1>3, <1>5 DEF StatusMoves, BodiesKept, Status
<1>8. r.db = d \/ r.db = y
  BY <1>1 DEF Ret
<1> HIDE DEF r
<1> QED BY <1>6, <1>7, <1>8 DEF r

(* update_metadata.                                                         *)
LEMMA MetadataOK ==
  ASSUME NEW d, GraphOK(d), NEW m \in Stored(d), NEW add \in SUBSET Keys, NEW del
  PROVE  LET r == UpdateMetadata(d, m, add, del)
         IN GraphOK(r.db) /\ StatusMoves(d, r.db) /\ BodiesKept(d, r.db)
<1> DEFINE r == UpdateMetadata(d, m, add, del)
           row == [d.mem[m] EXCEPT !.meta = (@ \cup add) \ del]
           x == [d EXCEPT !.mem[m] = row]
<1>0. d \in Databases /\ m \in Ids
  BY DEF GraphOK, Stored
<1>1. d.mem[m] \in StoredRows
  BY <1>0, StoredIs
<1>2. row \in StoredRows /\ row.st = Status(d, m) /\ row.body = d.mem[m].body
  BY <1>1 DEF StoredRows, Status
<1>3. r.db = x
  BY DEF UpdateMetadata, Ret
<1> HIDE DEF row
<1>4. /\ GraphOK(x) /\ StatusMoves(d, x) /\ x.mem[m] = row
      /\ \A n \in Ids : n # m => x.mem[n] = d.mem[n]
  BY <1>0, <1>2, RowWritten
<1> HIDE DEF x
<1>5. BodiesKept(d, x)
  BY <1>2, <1>4 DEF BodiesKept, Stored
<1> HIDE DEF r
<1> QED BY <1>3, <1>4, <1>5 DEF r

(* A body kept from step to step is kept.                                   *)
LEMMA BodiesOn ==
  ASSUME NEW d, NEW x, NEW y, StatusMoves(d, x), BodiesKept(d, x), BodiesKept(x, y)
  PROVE  BodiesKept(d, y)
BY DEF StatusMoves, BodiesKept, Stored

-----------------------------------------------------------------------------
(* Steps                                                                    *)

(* What a step may do to the past.                                          *)
PastKept ==
  /\ StatusMoves(db, db') /\ (~direct => BodiesKept(db, db'))
  /\ \A c \in Callers : job[c].op = "batch" /\ job[c].out # "ok" /\ job'[c] = Idle => db' = db

(* The other callers are out of the way of c.                               *)
OthersIdle(c) == ~direct => \A x \in Callers : x # c => job[x] = Idle
OthersUnlocked(c) == \A x \in Callers : x # c => job[x].op \notin Locking

(* Inside the daemon the caller of a step is alone.                         *)
LEMMA Alone ==
  ASSUME GraphInv, NEW c \in Callers, job[c] # Idle \/ Turn(c)
  PROVE  OthersIdle(c)
BY DEF GraphInv, Turn, OthersIdle

(* No lock, or the own one.                                                 *)
LEMMA OwnLock ==
  ASSUME GraphInv, NEW c \in Callers, Unlocked \/ job[c].op \in {"batch", "merging"}
  PROVE  OthersUnlocked(c)
BY DEF GraphInv, Unlocked, OthersUnlocked, Locking

(* One call moves on.                                                       *)
LEMMA StepTo ==
  ASSUME GraphInv, NEW c \in Callers, NEW j, job' = [job EXCEPT ![c] = j], direct' = direct,
         calls' \in Nat, GraphOK(db'), JobOK(j, db', ~direct), OthersIdle(c),
         db' = db \/ OthersUnlocked(c), j.op \in Locking => OthersUnlocked(c)
  PROVE  GraphInv'
<1>1. job = [x \in Callers |-> job[x]] /\ direct \in BOOLEAN
  BY DEF GraphInv
<1>2. job'[c] = j /\ \A x \in Callers : x # c => job'[x] = job[x]
  BY <1>1
<1>3. job' = [x \in Callers |-> job'[x]]
  BY <1>1
<1>4. ASSUME NEW x \in Callers PROVE JobOK(job'[x], db', ~direct)
  <2>1. CASE x = c
    BY <1>2, <2>1
  <2>2. CASE x # c /\ db' = db
    BY <1>2, <2>2 DEF GraphInv
  <2>3. CASE x # c /\ OthersUnlocked(c)
    <3>1. JobOK(job[x], db, ~direct) /\ job[x].op \notin Locking
      BY <2>3 DEF GraphInv, OthersUnlocked
    <3>2. CASE ~direct
      <4>1. job[x] = Idle
        BY <2>3, <3>2 DEF OthersIdle
      <4> QED BY <1>2, <2>3, <4>1 DEF JobOK
    <3>3. CASE direct
      <4>1. \/ job[x] = Idle \/ job[x] \in StoreJobs \/ job[x] \in ReplaceJobs
            \/ job[x] \in [op : {"merge"}, todo : Seq(MergeItems)]
        BY <3>1 DEF JobOK, Locking
      <4> QED BY <1>2, <2>3, <3>3, <4>1 DEF JobOK
    <3> QED BY <1>1, <3>2, <3>3
  <2> QED BY <2>1, <2>2, <2>3
<1>5. \A a, b \in Callers : a # b /\ job'[a].op \in Locking => job'[b].op \notin Locking
  <2>1. \A a, b \in Callers : a # b /\ job[a].op \in Locking => job[b].op \notin Locking
    BY DEF GraphInv
  <2> QED BY <1>2, <2>1 DEF OthersUnlocked
<1>6. ASSUME ~direct, NEW a \in Callers, NEW b \in Callers, a # b
      PROVE  job'[a] = Idle \/ job'[b] = Idle
  BY <1>2, <1>6 DEF OthersIdle
<1> QED BY <1>1, <1>3, <1>4, <1>5, <1>6 DEF GraphInv

(* What idling means to the invariant.                                      *)
LEMMA IdleIs == Idle.op = "idle" /\ Idle.op \notin Locking /\ \A d, a : JobOK(Idle, d, a)
BY DEF Idle, Locking, JobOK

(* A transaction ends.                                                      *)
LEMMA FinishOK ==
  ASSUME GraphInv, NEW c \in Callers, NEW r, Finish(c, r), calls' \in Nat, OthersIdle(c),
         r.out # "raised" => /\ GraphOK(r.db) /\ StatusMoves(db, r.db)
                             /\ ~direct => BodiesKept(db, r.db),
         job[c].op = "batch" /\ job[c].out # "ok" => r.out = "raised" \/ r.db = db
  PROVE  GraphInv' /\ PastKept
<1>1. job' = [job EXCEPT ![c] = Idle] /\ direct' = direct /\ OthersUnlocked(c)
  BY OwnLock DEF Finish
<1>2. r.out = "raised" => db' = db
  BY DEF Finish
<1>3. r.out # "raised" => db' = r.db
  BY DEF Finish
<1>4. GraphOK(db')
  BY <1>2, <1>3 DEF GraphInv
<1>5. GraphInv'
  BY <1>1, <1>4, IdleIs, StepTo
<1>6. StatusMoves(db, db) /\ BodiesKept(db, db)
  BY DEF StatusMoves, BodiesKept
<1>7. StatusMoves(db, db') /\ (~direct => BodiesKept(db, db'))
  BY <1>2, <1>3, <1>6
<1>8. ASSUME NEW x \in Callers, job[x].op = "batch", job[x].out # "ok", job'[x] = Idle
      PROVE  db' = db
  <2>1. CASE x = c
    BY <1>2, <1>3, <1>8, <2>1
  <2>2. CASE x # c
    <3>1. job'[x] = job[x]
      BY <1>1, <2>2 DEF GraphInv
    <3> QED BY <1>8, <3>1, IdleIs
  <2> QED BY <2>1, <2>2
<1> QED BY <1>5, <1>7, <1>8 DEF PastKept

(* A call moves on without touching the database.                           *)
LEMMA QuietOK ==
  ASSUME GraphInv, NEW c \in Callers, NEW j, job' = [job EXCEPT ![c] = j], UNCHANGED <<db, direct>>,
         calls' \in Nat, JobOK(j, db, ~direct), OthersIdle(c), j.op \in Locking => OthersUnlocked(c)
  PROVE  GraphInv' /\ PastKept
<1>1. GraphOK(db)
  BY DEF GraphInv
<1>2. GraphInv'
  BY <1>1, StepTo
<1>3. StatusMoves(db, db) /\ BodiesKept(db, db)
  BY DEF StatusMoves, BodiesKept
<1> QED BY <1>2, <1>3 DEF PastKept

(* The preparing steps.                                                     *)
LEMMA DeclaredIs ==
  ASSUME NEW a \in Declared
  PROVE  /\ a.core \in CoreArgs /\ a.details \in (SUBSET Ids) \cup {Undeclared} /\ a.similar \in BOOLEAN
         /\ DerivedDetails(a) \in SUBSET Ids
<1> DEFINE A == [core : {"omitted"}, details : {Undeclared}, similar : {TRUE}]
           B == [core : {"ordinary"}, details : {Undeclared}, similar : {TRUE}]
           C == [core : {"core"}, details : {{}} \cup {{m} : m \in Stored(db)}, similar : {TRUE}]
<1>1. a \in A \/ a \in B \/ a \in C
  BY DEF Declared
<1>2. CASE a \in A \/ a \in B
  BY <1>2 DEF CoreArgs, DerivedDetails
<1>3. CASE a \in C
  <2>1. a.core = "core" /\ a.details \in {{}} \cup {{m} : m \in Stored(db)} /\ a.similar = TRUE
    BY <1>3
  <2>2. a.details \in SUBSET Ids
    BY <2>1 DEF Stored
  <2> QED BY <2>1, <2>2 DEF CoreArgs, DerivedDetails
<1> QED BY <1>1, <1>2, <1>3

(* A store is prepared.                                                     *)
LEMMA PrepareStoreOK ==
  ASSUME GraphInv, NEW c \in Callers, Fresh(db) # {}, SomeStore(c)
  PROVE  GraphInv' /\ PastKept
<1>1. PICK want \in {0} \cup Stored(db) \cup {NewId(db)}, b \in Drafts, k \in {Absent, Keys}, a \in Declared :
        PrepareStore(c, want, [body |-> b, meta |-> k, core |-> a.core, details |-> a.details,
                               similar |-> a.similar])
  BY DEF SomeStore
<1> DEFINE req == [body |-> b, meta |-> k, core |-> a.core, details |-> a.details, similar |-> a.similar]
<1>2. req.body = b /\ req.meta = k /\ req.core = a.core /\ req.details = a.details /\ req.similar = a.similar
  OBVIOUS
<1> HIDE DEF req
<1>3. PICK m \in StoreTarget(db, want, req.body) : Prepared(c, StorePlan(db, req, m))
  BY <1>1 DEF PrepareStore, req
<1>4. Turn(c) /\ calls' = calls + 1
  BY <1>1 DEF PrepareStore, Begin, MayBegin
<1>5. a.core \in CoreArgs /\ a.details \in (SUBSET Ids) \cup {Undeclared} /\ a.similar \in BOOLEAN
  BY DeclaredIs
<1>6. db \in Databases /\ calls \in Nat
  BY DEF GraphInv, GraphOK
<1>7. m \in {0} \cup Ids /\ (m \notin Stored(db) => \A x \in Ids : ~Twin(db, b, x))
  <2>1. want \in {0} \cup Ids
    BY NewIdFresh DEF Stored
  <2> QED BY <1>2, <1>3, <2>1 DEF StoreTarget, Live
<1> DEFINE j == StorePlan(db, req, m)
<1>8. j \in StoreJobs /\ StoreCurrent(db, j)
  <2>1. CASE m \in Stored(db)
    <3>1. m \in Ids /\ db.mem[m] \in StoredRows
      BY <1>6, <2>1, StoredIs DEF Stored
    <3>2. db.mem[m].body \in Drafts /\ db.mem[m].meta \in SUBSET Keys
      BY <3>1 DEF StoredRows
    <3> DEFINE t == IF req.meta = Absent THEN db.mem[m].meta ELSE req.meta
    <3>3. t \in SUBSET Keys
      BY <1>2, <3>2
    <3>4. j = [op |-> "store", target |-> m, fresh |-> FALSE, body |-> db.mem[m].body, meta |-> t,
               core |-> req.core, details |-> req.details, similar |-> req.similar]
      BY <2>1 DEF StorePlan
    <3> HIDE DEF t, j
    <3>5. j \in StoreJobs
      BY <1>2, <1>5, <1>7, <3>2, <3>3, <3>4 DEF StoreJobs
    <3>6. j.target = m /\ j.fresh = FALSE /\ j.body = db.mem[m].body
      BY <3>4
    <3> QED BY <2>1, <3>5, <3>6 DEF StoreCurrent
  <2>2. CASE m \notin Stored(db)
    <3> DEFINE t == IF req.meta = Absent THEN {} ELSE req.meta
    <3>3. t \in SUBSET Keys
      BY <1>2
    <3>4. j = [op |-> "store", target |-> m, fresh |-> TRUE, body |-> req.body, meta |-> t,
               core |-> req.core, details |-> req.details, similar |-> req.similar]
      BY <2>2 DEF StorePlan
    <3> HIDE DEF t, j
    <3>5. j \in StoreJobs
      BY <1>2, <1>5, <1>7, <3>3, <3>4 DEF StoreJobs
    <3>6. j.target = m /\ j.body = b
      BY <1>2, <3>4
    <3> QED BY <1>7, <2>2, <3>5, <3>6 DEF StoreCurrent
  <2> QED BY <2>1, <2>2
<1>9. job' = [job EXCEPT ![c] = j] /\ UNCHANGED <<db, direct>>
  BY <1>3 DEF Prepared
<1> HIDE DEF j
<1>10. JobOK(j, db, ~direct) /\ j.op \notin Locking
  BY <1>8 DEF JobOK, StoreJobs, Locking
<1>11. OthersIdle(c) /\ calls' \in Nat
  BY <1>4, <1>6, Alone
<1> QED BY <1>9, <1>10, <1>11, QuietOK

(* A revision or a supersession is prepared.                                *)
LEMMA PrepareReplaceOK ==
  ASSUME GraphInv, NEW c \in Callers, SomeReplace(c)
  PROVE  GraphInv' /\ PastKept
<1>1. PICK m \in Live(db), kind \in {"revises", "supersedes"}, b \in Drafts, a \in Declared, r \in BOOLEAN :
        PrepareReplace(c, kind, m, b, a.core, DerivedDetails(a), r, a.similar)
  BY DEF SomeReplace
<1> DEFINE es == Touching(SemanticOf(db.act), m)
           ds == DerivedDetails(a)
           j == [op |-> "replace", kind |-> kind, old |-> m, body |-> b, core |-> a.core,
                 details |-> ds, repoint |-> r, similar |-> a.similar,
                 seen |-> db.mem[m], meta |-> db.mem[m].meta, edges |-> es]
<1>2. /\ Turn(c) /\ calls' = calls + 1
      /\ job' = [job EXCEPT ![c] = j] /\ UNCHANGED <<db, direct>>
  BY <1>1 DEF PrepareReplace, Begin, MayBegin, Prepared
<1>3. db \in Databases /\ calls \in Nat
  BY DEF GraphInv, GraphOK
<1>4. m \in Ids /\ db.mem[m] \in StoredRows
  BY <1>3, StoredIs DEF Live
<1>5. db.mem[m].meta \in SUBSET Keys
  BY <1>4 DEF StoredRows
<1>6. es \in SUBSET Edges
  BY <1>3 DEF Databases, Touching, SemanticOf
<1>7. a.core \in CoreArgs /\ a.similar \in BOOLEAN /\ ds \in SUBSET Ids
  BY DeclaredIs
<1> HIDE DEF es, ds
<1>8. j \in ReplaceJobs /\ j.edges = es /\ j.old = m
  BY <1>4, <1>5, <1>6, <1>7 DEF ReplaceJobs
<1> HIDE DEF j
<1>9. JobOK(j, db, ~direct) /\ j.op \notin Locking
  BY <1>8 DEF JobOK, ReplaceCurrent, ReplaceJobs, Locking, es
<1>10. OthersIdle(c) /\ calls' \in Nat
  BY <1>2, <1>3, Alone
<1> QED BY <1>2, <1>9, <1>10, QuietOK

(* A merge is prepared.                                                     *)
LEMMA PrepareMergeOK ==
  ASSUME GraphInv, NEW c \in Callers, SomeMerge(c)
  PROVE  GraphInv' /\ PastKept
<1>0. db \in Databases /\ calls \in Nat
  BY DEF GraphInv, GraphOK
<1>1. PICK ms \in SUBSET Live(db), b \in Drafts, a \in Declared :
        LET one(x) == MergeRequest(x, b, a.core, DerivedDetails(a), a.similar)
        IN /\ Mergeable(db, ms)
           /\ \/ PrepareMerge(c, <<one(ms)>>, FALSE)
              \/ \E ns \in SUBSET Live(db), bulk \in BOOLEAN :
                   Mergeable(db, ns) /\ PrepareMerge(c, <<one(ms), one(ns)>>, bulk)
  BY DEF SomeMerge
<1> DEFINE ds == DerivedDetails(a)
           one(x) == MergeRequest(x, b, a.core, ds, a.similar)
<1>2. a.core \in CoreArgs /\ a.similar \in BOOLEAN /\ ds \in SUBSET Ids
  BY DeclaredIs
<1>3. ASSUME NEW x \in SUBSET Live(db), Mergeable(db, x) PROVE one(x) \in MergeItems
  <2> DEFINE seen == Observed(db, x)
  <2>1. x \in SUBSET Ids
    BY DEF Live
  <2>2. ASSUME NEW m \in x PROVE [st |-> Status(db, m), body |-> db.mem[m].body] \in SeenRows
    <3>1. Status(db, m) = "raw" /\ m \in Ids
      BY <1>3, <2>1 DEF Mergeable
    <3>2. db.mem[m] \in StoredRows
      BY <1>0, <3>1, StoredIs
    <3> QED BY <3>1, <3>2 DEF StoredRows, SeenRows
  <2>3. seen \in [x -> SeenRows]
    BY <2>2 DEF Observed
  <2>4. one(x) = [parents |-> x, body |-> b, core |-> a.core, details |-> ds, similar |-> a.similar,
                  seen |-> seen]
    BY DEF MergeRequest
  <2> HIDE DEF seen, ds
  <2>5. seen \in UNION {[y -> SeenRows] : y \in SUBSET Ids}
    BY <2>1, <2>3
  <2> DEFINE S == UNION {[y -> SeenRows] : y \in SUBSET Ids}
             o == one(x)
  <2>6. seen \in S
    BY <2>5
  <2>7. o = [parents |-> x, body |-> b, core |-> a.core, details |-> ds, similar |-> a.similar,
             seen |-> seen]
    BY <2>4
  <2>8. MergeItems = {i \in [parents : SUBSET Ids, body : Drafts, core : CoreArgs, details : SUBSET Ids,
                             similar : BOOLEAN, seen : S] : i.seen \in [i.parents -> SeenRows]}
    BY DEF MergeItems
  <2> HIDE DEF S, o
  <2>9. o \in [parents : SUBSET Ids, body : Drafts, core : CoreArgs, details : SUBSET Ids,
               similar : BOOLEAN, seen : S]
    BY <1>2, <2>1, <2>6, <2>7
  <2>10. o.seen = seen /\ o.parents = x
    BY <2>7
  <2>11. o \in MergeItems
    BY <2>3, <2>8, <2>9, <2>10
  <2> QED BY <2>11 DEF o
<1>4. \E items \in Seq(MergeItems), bulk \in BOOLEAN : PrepareMerge(c, items, bulk)
  <2>1. one(ms) \in MergeItems
    BY <1>1, <1>3
  <2>2. CASE PrepareMerge(c, <<one(ms)>>, FALSE)
    <3>1. <<one(ms)>> \in Seq(MergeItems)
      BY <2>1
    <3> QED BY <2>2, <3>1
  <2>3. CASE \E ns \in SUBSET Live(db), bulk \in BOOLEAN :
               Mergeable(db, ns) /\ PrepareMerge(c, <<one(ms), one(ns)>>, bulk)
    <3>1. PICK ns \in SUBSET Live(db), bulk \in BOOLEAN :
               Mergeable(db, ns) /\ PrepareMerge(c, <<one(ms), one(ns)>>, bulk)
      BY <2>3
    <3>2. one(ns) \in MergeItems
      BY <1>3, <3>1
    <3>3. <<one(ms), one(ns)>> \in Seq(MergeItems)
      BY <2>1, <3>2
    <3> QED BY <3>1, <3>3
  <2> QED BY <1>1, <2>2, <2>3
<1>5. PICK items \in Seq(MergeItems), bulk \in BOOLEAN : PrepareMerge(c, items, bulk)
  BY <1>4
<1> DEFINE j == [op |-> "merge", todo |-> items]
<1>6. /\ Turn(c) /\ calls' = calls + 1
      /\ job' = [job EXCEPT ![c] = j] /\ UNCHANGED <<db, direct>>
  BY <1>5 DEF PrepareMerge, Begin, MayBegin, Prepared
<1>7. j \in [op : {"merge"}, todo : Seq(MergeItems)] /\ j.op \notin Locking
  BY DEF Locking
<1> HIDE DEF j
<1>8. JobOK(j, db, ~direct)
  BY <1>7 DEF JobOK
<1>9. OthersIdle(c) /\ calls' \in Nat
  BY <1>0, <1>6, Alone
<1> QED BY <1>6, <1>7, <1>8, <1>9, QuietOK

(* The kinds of call are told apart by their names.                         *)
LEMMA JobKinds ==
  ASSUME NEW j, NEW d, NEW a, JobOK(j, d, a)
  PROVE  /\ j.op = "store" => j \in StoreJobs /\ (a => StoreCurrent(d, j))
         /\ j.op = "replace" => j \in ReplaceJobs /\ (a => ReplaceCurrent(d, j))
         /\ j.op = "merge" => j \in [op : {"merge"}, todo : Seq(MergeItems)]
         /\ j.op = "merging" => /\ j \in [op : {"merging"}, todo : Seq(MergeItems), work : Databases]
                                /\ GraphOK(j.work) /\ StatusMoves(d, j.work) /\ BodiesKept(d, j.work)
         /\ j.op = "batch" => /\ j \in [op : {"batch"}, bulk : BOOLEAN, n : Nat, out : {"ok", "rejected"},
                                        work : Databases]
                              /\ GraphOK(j.work) /\ j.work.mem = d.mem
                              /\ j.n = 0 => j.work = d /\ j.out = "ok"
                              /\ j.n = 1 /\ j.out # "ok" => j.work = d
         /\ j.op \in {"idle", "store", "replace", "merge", "merging", "batch"}
<1>1. CASE j = Idle
  BY <1>1, IdleIs
<1>2. CASE j \in StoreJobs /\ (a => StoreCurrent(d, j))
  BY <1>2 DEF StoreJobs
<1>3. CASE j \in ReplaceJobs /\ (a => ReplaceCurrent(d, j))
  BY <1>3 DEF ReplaceJobs
<1>4. CASE j \in [op : {"merge"}, todo : Seq(MergeItems)]
  BY <1>4
<1>5. CASE /\ j \in [op : {"merging"}, todo : Seq(MergeItems), work : Databases]
           /\ GraphOK(j.work) /\ StatusMoves(d, j.work) /\ BodiesKept(d, j.work)
  BY <1>5
<1>6. CASE /\ j \in [op : {"batch"}, bulk : BOOLEAN, n : Nat, out : {"ok", "rejected"}, work : Databases]
           /\ GraphOK(j.work) /\ j.work.mem = d.mem
           /\ j.n = 0 => j.work = d /\ j.out = "ok"
           /\ j.n = 1 /\ j.out # "ok" => j.work = d
  BY <1>6
<1> QED BY <1>1, <1>2, <1>3, <1>4, <1>5, <1>6 DEF JobOK

(* The write of a store.                                                    *)
LEMMA CommitStoreOK ==
  ASSUME GraphInv, NEW c \in Callers, CommitStore(c) PROVE GraphInv' /\ PastKept
<1> DEFINE r == StoreRaw(db, job[c])
<1>1. job[c].op = "store" /\ Room(db, 1) /\ Finish(c, r) /\ calls' = calls
  BY DEF CommitStore
<1>2. job[c] \in StoreJobs /\ (~direct => StoreCurrent(db, job[c]))
  BY <1>1, JobKinds DEF GraphInv
<1>3. Fresh(db) # {} /\ GraphOK(db) /\ calls' \in Nat
  BY <1>1, RoomIsFresh DEF GraphInv
<1>4. GraphOK(r.db) /\ StatusMoves(db, r.db) /\ (StoreCurrent(db, job[c]) => BodiesKept(db, r.db))
  BY <1>2, <1>3, StoreOK
<1> HIDE DEF r
<1>5. OthersIdle(c)
  BY <1>1, Alone, IdleIs
<1> QED BY <1>1, <1>2, <1>3, <1>4, <1>5, FinishOK

(* The write of a revision or a supersession.                               *)
LEMMA CommitReplaceOK ==
  ASSUME GraphInv, NEW c \in Callers, CommitReplace(c) PROVE GraphInv' /\ PastKept
<1> DEFINE r == Replace(db, job[c])
<1>1. job[c].op = "replace" /\ Room(db, 1) /\ Finish(c, r) /\ calls' = calls
  BY DEF CommitReplace
<1>2. job[c] \in ReplaceJobs
  BY <1>1, JobKinds DEF GraphInv
<1>3. Fresh(db) # {} /\ GraphOK(db) /\ calls' \in Nat
  BY <1>1, RoomIsFresh DEF GraphInv
<1>4. /\ r.out \in {"ok", "raised"}
      /\ r.out = "ok" => GraphOK(r.db) /\ StatusMoves(db, r.db) /\ BodiesKept(db, r.db)
  BY <1>2, <1>3, ReplaceOK
<1> HIDE DEF r
<1>5. OthersIdle(c)
  BY <1>1, Alone, IdleIs
<1> QED BY <1>1, <1>3, <1>4, <1>5, FinishOK

(* The transaction of a merge begins.                                       *)
LEMMA MergeBeginOK ==
  ASSUME GraphInv, NEW c \in Callers, MergeBegin(c) PROVE GraphInv' /\ PastKept
<1> DEFINE j == [op |-> "merging", todo |-> job[c].todo, work |-> db]
<1>1. job[c].op = "merge" /\ Unlocked /\ job' = [job EXCEPT ![c] = j] /\ UNCHANGED <<db, direct, calls>>
  BY DEF MergeBegin
<1>2. job[c].todo \in Seq(MergeItems)
  BY <1>1, JobKinds DEF GraphInv
<1>3. GraphOK(db) /\ db \in Databases /\ calls \in Nat
  BY DEF GraphInv, GraphOK
<1>4. j \in [op : {"merging"}, todo : Seq(MergeItems), work : Databases] /\ j.work = db
  BY <1>2, <1>3
<1> HIDE DEF j
<1>5. StatusMoves(db, db) /\ BodiesKept(db, db)
  BY DEF StatusMoves, BodiesKept
<1>6. JobOK(j, db, ~direct)
  BY <1>3, <1>4, <1>5 DEF JobOK
<1>7. OthersIdle(c) /\ OthersUnlocked(c)
  BY <1>1, Alone, OwnLock, IdleIs
<1> QED BY <1>1, <1>3, <1>6, <1>7, QuietOK

(* One merge, or the rollback of all.                                       *)
LEMMA MergeStepOK ==
  ASSUME GraphInv, NEW c \in Callers, MergeStep(c) PROVE GraphInv' /\ PastKept
<1> DEFINE w == job[c].work
           r == MergeItem(w, Head(job[c].todo))
           j == [job[c] EXCEPT !.todo = Tail(@), !.work = r.db]
<1>1. /\ job[c].op = "merging" /\ job[c].todo # <<>> /\ calls' = calls
      /\ r.out = "raised" => Finish(c, r)
      /\ r.out # "raised" => /\ job' = [job EXCEPT ![c].todo = Tail(@), ![c].work = r.db]
                             /\ UNCHANGED <<db, direct>>
  BY DEF MergeStep
<1>2. /\ job[c] \in [op : {"merging"}, todo : Seq(MergeItems), work : Databases]
      /\ GraphOK(w) /\ StatusMoves(db, w) /\ BodiesKept(db, w)
  BY <1>1, JobKinds DEF GraphInv
<1>3. Head(job[c].todo) \in MergeItems /\ Tail(job[c].todo) \in Seq(MergeItems)
  BY <1>1, <1>2
<1>4. /\ r.out \in {"ok", "raised"}
      /\ r.out = "ok" => GraphOK(r.db) /\ StatusMoves(w, r.db) /\ BodiesKept(w, r.db)
  BY <1>2, <1>3, MergeOK
<1> HIDE DEF w, r
<1>5. OthersIdle(c) /\ calls' \in Nat /\ OthersUnlocked(c)
  BY <1>1, Alone, IdleIs, OwnLock DEF GraphInv
<1>6. CASE r.out = "raised"
  BY <1>1, <1>5, <1>6, FinishOK
<1>7. CASE r.out # "raised"
  <2>1. GraphOK(r.db) /\ StatusMoves(db, r.db) /\ BodiesKept(db, r.db)
    BY <1>2, <1>4, <1>7, MovesOn, BodiesOn
  <2>2. r.db \in Databases
    BY <2>1 DEF GraphOK
  <2>3. /\ j \in [op : {"merging"}, todo : Seq(MergeItems), work : Databases]
        /\ j.work = r.db
    BY <1>2, <1>3, <2>2
  <2>4. job' = [job EXCEPT ![c] = j]
    BY <1>1, <1>7
  <2> HIDE DEF j
  <2>5. JobOK(j, db, ~direct)
    BY <2>1, <2>3 DEF JobOK
  <2> QED BY <1>1, <1>5, <1>7, <2>4, <2>5, QuietOK
<1> QED BY <1>6, <1>7

(* The merges commit.                                                       *)
LEMMA MergeEndOK ==
  ASSUME GraphInv, NEW c \in Callers, MergeEnd(c) PROVE GraphInv' /\ PastKept
<1> DEFINE r == Ret(job[c].work, "ok")
<1>1. job[c].op = "merging" /\ Finish(c, r) /\ calls' = calls
  BY DEF MergeEnd
<1>2. /\ GraphOK(job[c].work) /\ StatusMoves(db, job[c].work) /\ BodiesKept(db, job[c].work)
  BY <1>1, JobKinds DEF GraphInv
<1>3. r.db = job[c].work
  BY DEF Ret
<1> HIDE DEF r
<1>4. OthersIdle(c) /\ calls' \in Nat
  BY <1>1, Alone, IdleIs DEF GraphInv
<1> QED BY <1>1, <1>2, <1>3, <1>4, FinishOK

(* A relation call begins.                                                  *)
LEMMA RelateBeginOK ==
  ASSUME GraphInv, NEW c \in Callers, NEW bulk \in BOOLEAN, RelateBegin(c, bulk)
  PROVE  GraphInv' /\ PastKept
<1> DEFINE j == [op |-> "batch", bulk |-> bulk, n |-> 0, out |-> "ok", work |-> db]
<1>1. /\ Turn(c) /\ calls' = calls + 1 /\ Unlocked /\ job' = [job EXCEPT ![c] = j]
      /\ UNCHANGED <<db, direct>>
  BY DEF RelateBegin, Begin, MayBegin
<1>2. GraphOK(db) /\ db \in Databases /\ calls \in Nat
  BY DEF GraphInv, GraphOK
<1>3. /\ j \in [op : {"batch"}, bulk : BOOLEAN, n : Nat, out : {"ok", "rejected"}, work : Databases]
      /\ j.work = db /\ j.out = "ok"
  BY <1>2
<1> HIDE DEF j
<1>4. JobOK(j, db, ~direct)
  BY <1>2, <1>3 DEF JobOK
<1>5. OthersIdle(c) /\ calls' \in Nat /\ OthersUnlocked(c)
  BY <1>1, <1>2, Alone, OwnLock
<1> QED BY <1>1, <1>4, <1>5, QuietOK

(* One item of a relation call, or the rollback of all.                     *)
LEMMA RelateItemOK ==
  ASSUME GraphInv, NEW c \in Callers, NEW i \in Items, RelateItem(c, i)
  PROVE  GraphInv' /\ PastKept
<1> DEFINE w == job[c].work
           r == RelationItem(w, i)
           o == IF r.out = "ok" THEN job[c].out ELSE "rejected"
           j == [job[c] EXCEPT !.work = r.db, !.n = @ + 1, !.out = o]
<1>1. /\ job[c].op = "batch" /\ {i.edge.src, i.edge.tgt} \subseteq Stored(db) /\ calls' = calls
      /\ \/ Finish(c, Ret(db, "raised"))
         \/ /\ job' = [job EXCEPT ![c].work = r.db, ![c].n = @ + 1,
                                  ![c].out = IF r.out = "ok" THEN @ ELSE "rejected"]
            /\ UNCHANGED <<db, direct>>
  BY DEF RelateItem
<1>2. /\ job[c] \in [op : {"batch"}, bulk : BOOLEAN, n : Nat, out : {"ok", "rejected"}, work : Databases]
      /\ GraphOK(w) /\ w.mem = db.mem /\ (job[c].n = 0 => w = db /\ job[c].out = "ok")
  BY <1>1, JobKinds DEF GraphInv
<1>3. i \in RelationItems
  <2>1. Stored(db) \subseteq Ids
    BY DEF Stored
  <2> QED BY <2>1 DEF Items, RelationItems, Edges
<1>4. i.edge.src \in Stored(w) /\ i.edge.tgt \in Stored(w)
  BY <1>1, <1>2 DEF Stored, Status
<1>5. /\ GraphOK(r.db) /\ r.db.mem = w.mem /\ r.out \in {"ok", "rejected"}
      /\ r.out # "ok" => r.db = w
  BY <1>2, <1>3, <1>4, ItemOK
<1> HIDE DEF r
<1>6. OthersIdle(c) /\ calls' \in Nat /\ OthersUnlocked(c)
  BY <1>1, Alone, IdleIs, OwnLock DEF GraphInv
<1>7. CASE Finish(c, Ret(db, "raised"))
  <2>1. Ret(db, "raised").out = "raised"
    BY DEF Ret
  <2> QED BY <1>6, <1>7, <2>1, FinishOK
<1>8. CASE /\ job' = [job EXCEPT ![c].work = r.db, ![c].n = @ + 1,
                                 ![c].out = IF r.out = "ok" THEN @ ELSE "rejected"]
           /\ UNCHANGED <<db, direct>>
  <2>1. o \in {"ok", "rejected"} /\ job[c].n + 1 \in Nat /\ r.db \in Databases
    BY <1>2, <1>5 DEF GraphOK
  <2>2. job' = [job EXCEPT ![c] = j]
    BY <1>8
  <2>3. o # "ok" => job[c].out # "ok" \/ r.out # "ok"
    OBVIOUS
  <2> HIDE DEF o
  <2>4. /\ j \in [op : {"batch"}, bulk : BOOLEAN, n : Nat, out : {"ok", "rejected"}, work : Databases]
        /\ j.work = r.db /\ j.n = job[c].n + 1 /\ j.out = o
    BY <1>2, <2>1
  <2> HIDE DEF j
  <2>5. j.n # 0 /\ (j.n = 1 => job[c].n = 0)
    BY <1>2, <2>4
  <2>6. j.n = 1 /\ j.out # "ok" => j.work = db
    BY <1>2, <1>5, <2>3, <2>4, <2>5
  <2>7. GraphOK(j.work) /\ j.work.mem = db.mem
    BY <1>2, <1>5, <2>4
  <2>8. JobOK(j, db, ~direct)
    BY <2>4, <2>5, <2>6, <2>7 DEF JobOK
  <2> QED BY <1>6, <1>8, <2>2, <2>8, QuietOK
<1> QED BY <1>1, <1>7, <1>8

(* A relation call ends: all of it, or nothing.                             *)
LEMMA RelateEndOK ==
  ASSUME GraphInv, NEW c \in Callers, RelateEnd(c) PROVE GraphInv' /\ PastKept
<1> DEFINE r == Ret(BatchResult(c), job[c].out)
<1>1. job[c].op = "batch" /\ Finish(c, r) /\ calls' = calls
  BY DEF RelateEnd
<1>2. GraphOK(job[c].work) /\ job[c].work.mem = db.mem
  BY <1>1, JobKinds DEF GraphInv
<1>3. r.db = BatchResult(c)
  BY DEF Ret
<1>4. r.db = db \/ r.db = job[c].work
  BY <1>3 DEF BatchResult
<1>5. job[c].out # "ok" => r.db = db
  BY <1>3 DEF BatchResult
<1>6. /\ StatusMoves(db, db) /\ BodiesKept(db, db)
      /\ StatusMoves(db, job[c].work) /\ BodiesKept(db, job[c].work)
  BY <1>2 DEF StatusMoves, BodiesKept, Status
<1> HIDE DEF r
<1>7. OthersIdle(c) /\ calls' \in Nat /\ GraphOK(db)
  BY <1>1, Alone, IdleIs DEF GraphInv
<1>8. GraphOK(r.db) /\ StatusMoves(db, r.db) /\ BodiesKept(db, r.db)
  BY <1>2, <1>4, <1>6, <1>7
<1> QED BY <1>1, <1>5, <1>7, <1>8, FinishOK

(* A transaction raises.                                                    *)
LEMMA FailOK ==
  ASSUME GraphInv, NEW c \in Callers, Fail(c) PROVE GraphInv' /\ PastKept
<1> DEFINE r == Ret(db, "raised")
<1>1. job[c] # Idle /\ Finish(c, r) /\ calls' = calls
  BY DEF Fail
<1>2. r.out = "raised"
  BY DEF Ret
<1> HIDE DEF r
<1>3. OthersIdle(c) /\ calls' \in Nat
  BY <1>1, Alone DEF GraphInv
<1> QED BY <1>1, <1>2, <1>3, FinishOK

(* An archive call.                                                         *)
LEMMA SomeArchiveOK ==
  ASSUME GraphInv, NEW c \in Callers, SomeArchive(c) PROVE GraphInv' /\ PastKept
<1>1. PICK ms \in SUBSET Stored(db), b \in Drafts : ArchiveCall(c, ms, b.owner)
  BY DEF SomeArchive
<1> DEFINE r == ArchiveMemories(db, ms, b.owner)
<1>2. job[c] = Idle /\ Turn(c) /\ calls' = calls + 1 /\ Finish(c, r)
  BY <1>1 DEF ArchiveCall, Begin, MayBegin
<1>3. GraphOK(db) /\ calls' \in Nat
  BY <1>2 DEF GraphInv
<1>4. GraphOK(r.db) /\ StatusMoves(db, r.db) /\ BodiesKept(db, r.db)
  BY <1>3, ArchiveOK
<1> HIDE DEF r
<1>5. OthersIdle(c) /\ job[c].op # "batch"
  BY <1>2, Alone, IdleIs
<1> QED BY <1>2, <1>3, <1>4, <1>5, FinishOK

(* A metadata call.                                                         *)
LEMMA SomeMetadataOK ==
  ASSUME GraphInv, NEW c \in Callers, SomeMetadata(c) PROVE GraphInv' /\ PastKept
<1>1. PICK m \in Stored(db), add \in SUBSET Keys, del \in SUBSET Keys : MetadataCall(c, m, add, del)
  BY DEF SomeMetadata
<1> DEFINE r == UpdateMetadata(db, m, add, del)
<1>2. job[c] = Idle /\ Turn(c) /\ calls' = calls + 1 /\ Finish(c, r)
  BY <1>1 DEF MetadataCall, Begin, MayBegin
<1>3. GraphOK(db) /\ calls' \in Nat
  BY <1>2 DEF GraphInv
<1>4. GraphOK(r.db) /\ StatusMoves(db, r.db) /\ BodiesKept(db, r.db)
  BY <1>3, MetadataOK
<1> HIDE DEF r
<1>5. OthersIdle(c) /\ job[c].op # "batch"
  BY <1>2, Alone, IdleIs
<1> QED BY <1>2, <1>3, <1>4, <1>5, FinishOK

-----------------------------------------------------------------------------
(* The invariant                                                            *)

(* The database of a fresh installation, or one with the first memories.    *)
LEMMA SeedsOK ==
  ASSUME NEW n \in 0..3, NEW linked \in BOOLEAN, NEW core \in BOOLEAN, core => linked, linked => n = 3
  PROVE  GraphOK(SeedDb(n, IF linked THEN {Edge(2, "elaborates_on", 3)} ELSE {}, core))
<1> DEFINE es == IF linked THEN {Edge(2, "elaborates_on", 3)} ELSE {}
           t == [m \in Ids |-> SeedRow(n, m, core)]
           d == SeedDb(n, es, core)
<1>0. 2 \in Ids /\ 3 \in Ids /\ Ids \subseteq Nat \ {0}
  BY GraphConstants DEF Ids
<1>1. \A e \in es : /\ linked /\ e \in Edges /\ e = Edge(2, "elaborates_on", 3)
                    /\ e.src = 2 /\ e.pred = "elaborates_on" /\ e.tgt = 3
  BY <1>0, EdgeIs, Predicates
<1> HIDE DEF es
<1>2. ASSUME NEW m \in Ids
      PROVE  /\ t[m] \in {NoRow} \cup StoredRows
             /\ m <= n => t[m] \in StoredRows
  <2>1. CASE m > n
    BY <1>0, <2>1 DEF SeedRow
  <2>2. CASE ~(m > n)
    <3>1. m \in 1..3 /\ Seeds[m] \in Drafts
      <4>1. m \in Nat /\ m # 0 /\ n \in Nat /\ n <= 3
        BY <1>0
      <4>2. m \in 1..3
        BY <2>2, <4>1
      <4>3. Seeds \in Seq(Drafts) /\ Len(Seeds) = 3
        BY GraphConstants
      <4>4. \A i \in 1..Len(Seeds) : Seeds[i] \in Drafts
        BY <4>3, ElementOfSeq
      <4> QED BY <4>2, <4>3, <4>4
    <3>2. t[m] = Row("raw", Seeds[m], TRUE, {2}, {}) \/ t[m] = Row("raw", Seeds[m], FALSE, {}, {})
      BY <2>2 DEF SeedRow
    <3>3. {2} \in SUBSET Ids /\ {} \in SUBSET Ids /\ {} \in SUBSET Keys
      BY <1>0
    <3> HIDE DEF t
    <3> DEFINE b == Seeds[m]
               two == {2}
    <3>4. b \in Drafts /\ two \in SUBSET Ids
      BY <3>1, <3>3
    <3>5. t[m] = Row("raw", b, TRUE, two, {}) \/ t[m] = Row("raw", b, FALSE, {}, {})
      BY <3>2
    <3> HIDE DEF b, two
    <3>6. Row("raw", b, TRUE, two, {}) \in StoredRows
      BY <3>4 DEF Row, StoredRows
    <3>7. Row("raw", b, FALSE, {}, {}) \in StoredRows
      BY <3>4 DEF Row, StoredRows
    <3>8. t[m] \in StoredRows
      BY <3>5, <3>6, <3>7
    <3> QED BY <3>8
  <2> QED BY <2>1, <2>2
<1>3. t \in MemTables
  <2>1. t = [m \in Ids |-> t[m]]
    OBVIOUS
  <2> HIDE DEF t
  <2> QED BY <1>2, <2>1 DEF MemTables
<1>4. d = [mem |-> t, act |-> es, inv |-> {}, ever |-> es]
  BY DEF SeedDb
<1> HIDE DEF t
<1>5. d \in Databases /\ d.mem = t /\ d.act = es /\ d.ever = es
  BY <1>1, <1>3, <1>4 DEF Databases
<1> HIDE DEF d
<1>6. ASSUME NEW m \in Ids, m <= n PROVE m \in Stored(d)
  BY <1>2, <1>5, <1>6, StoredIs
<1>7. \A e \in d.ever : e.pred \notin Lineage
  BY <1>1, <1>5, Predicates
<1>8. linked => 2 \in Stored(d) /\ 3 \in Stored(d)
  BY <1>0, <1>6
<1>9. EdgesPlaced(d)
  BY <1>1, <1>5, <1>7, <1>8 DEF EdgesPlaced
<1>10. OneSuccessorIn(d) /\ AcyclicIn(d)
  BY <1>7 DEF OneSuccessorIn, AcyclicIn
<1>11. SingleStrongIn(d)
  BY <1>1, <1>5 DEF SingleStrongIn
<1>12. GraphOK(d)
  BY <1>5, <1>9, <1>10, <1>11 DEF GraphOK
<1> QED BY <1>12 DEF d, es

(* The invariant holds at the start.                                        *)
LEMMA InitOK == GraphInit => GraphInv
<1> SUFFICES ASSUME GraphInit PROVE GraphInv
  OBVIOUS
<1>1. GraphOK(db)
  BY SeedsOK DEF GraphInit
<1>2. job = [c \in Callers |-> Idle] /\ direct \in BOOLEAN /\ calls = 0
  BY DEF GraphInit
<1>3. job = [c \in Callers |-> job[c]] /\ \A c \in Callers : job[c] = Idle
  BY <1>2
<1>4. \A c \in Callers : JobOK(job[c], db, ~direct) /\ job[c].op \notin Locking
  BY <1>3, IdleIs
<1> QED BY <1>1, <1>2, <1>3, <1>4 DEF GraphInv

(* Every step keeps the invariant and the past.                             *)
LEMMA NextOK ==
  ASSUME GraphInv, [GraphNext]_gvars PROVE GraphInv' /\ PastKept
<1>1. CASE GraphNext
  <2>1. PICK c \in Callers :
          \/ MayBegin(c) /\ Fresh(db) # {} /\ (SomeStore(c) \/ SomeReplace(c) \/ SomeMerge(c))
          \/ MayBegin(c) /\ (SomeArchive(c) \/ SomeMetadata(c))
          \/ CommitStore(c) \/ CommitReplace(c) \/ MergeBegin(c) \/ MergeStep(c) \/ MergeEnd(c)
          \/ \E bulk \in BOOLEAN : RelateBegin(c, bulk)
          \/ job[c].op = "batch" /\ \E i \in Items : RelateItem(c, i)
          \/ RelateEnd(c) \/ Fail(c)
    BY <1>1 DEF GraphNext
  <2>2. CASE Fresh(db) # {} /\ SomeStore(c)
    BY <2>2, PrepareStoreOK
  <2>3. CASE SomeReplace(c)
    BY <2>3, PrepareReplaceOK
  <2>4. CASE SomeMerge(c)
    BY <2>4, PrepareMergeOK
  <2>5. CASE SomeArchive(c)
    BY <2>5, SomeArchiveOK
  <2>6. CASE SomeMetadata(c)
    BY <2>6, SomeMetadataOK
  <2>7. CASE CommitStore(c)
    BY <2>7, CommitStoreOK
  <2>8. CASE CommitReplace(c)
    BY <2>8, CommitReplaceOK
  <2>9. CASE MergeBegin(c)
    BY <2>9, MergeBeginOK
  <2>10. CASE MergeStep(c)
    BY <2>10, MergeStepOK
  <2>11. CASE MergeEnd(c)
    BY <2>11, MergeEndOK
  <2>12. CASE \E bulk \in BOOLEAN : RelateBegin(c, bulk)
    BY <2>12, RelateBeginOK
  <2>13. CASE \E i \in Items : RelateItem(c, i)
    BY <2>13, RelateItemOK
  <2>14. CASE RelateEnd(c)
    BY <2>14, RelateEndOK
  <2>15. CASE Fail(c)
    BY <2>15, FailOK
  <2> QED BY <2>1, <2>2, <2>3, <2>4, <2>5, <2>6, <2>7, <2>8, <2>9, <2>10, <2>11, <2>12, <2>13, <2>14, <2>15
<1>2. CASE UNCHANGED gvars
  <2>1. db' = db /\ job' = job /\ direct' = direct /\ calls' = calls
    BY <1>2 DEF gvars
  <2>2. GraphInv'
    BY <2>1 DEF GraphInv
  <2>3. StatusMoves(db, db) /\ BodiesKept(db, db)
    BY DEF StatusMoves, BodiesKept
  <2> QED BY <2>1, <2>2, <2>3 DEF PastKept
<1> QED BY <1>1, <1>2

-----------------------------------------------------------------------------
(* The theorems                                                             *)

(* The lineage is a forest in which a memory is replaced at most once,      *)
(* strong predicates have one target and a store inside the daemon adds no  *)
(* second copy of a content: for any number of racing callers, memories,    *)
(* predicates and calls of write.py, lifecycle.py and relation_service.py.  *)
THEOREM LineageStaysSound == GraphSpec => []LineageSound
<1>1. ASSUME GraphInv PROVE LineageSound
  <2>1. GraphOK(db) /\ db \in Databases
    BY <1>1 DEF GraphInv, GraphOK
  <2>2. GraphTypeOK
    <3>1. \A m \in Ids : db.mem[m] = NoRow \/ db.mem[m] \in StoredRows
      BY <2>1, StoredIs
    <3>2. db.act \subseteq Edges /\ db.inv \subseteq Edges /\ db.ever \subseteq Edges
      BY <2>1 DEF Databases
    <3>3. \A c \in Callers : job[c].op \in {"idle", "store", "replace", "merge", "merging", "batch"}
      BY <1>1, JobKinds DEF GraphInv
    <3> QED BY <3>1, <3>2, <3>3 DEF GraphTypeOK, StoredRows
  <2>3. OneSuccessor /\ LineageAcyclic /\ SingleStrongTarget
    BY <2>1 DEF GraphOK, OneSuccessor, OneSuccessorIn, LineageAcyclic, AcyclicIn,
                SingleStrongTarget, SingleStrongIn
  <2>4. ASSUME NEW c \in Callers, job[c].op = "store", Room(db, 1), ~direct
        PROVE  LET r == StoreRaw(db, job[c])
               IN \A m \in Stored(r.db) \ Stored(db) : \A n \in Ids \ {m} : ~Twin(r.db, r.db.mem[m].body, n)
    <3>1. job[c] \in StoreJobs /\ StoreCurrent(db, job[c])
      BY <1>1, <2>4, JobKinds DEF GraphInv
    <3>2. Fresh(db) # {}
      BY <2>4, RoomIsFresh
    <3> QED BY <2>1, <3>1, <3>2, StoreOK
  <2> QED BY <2>2, <2>3, <2>4 DEF LineageSound, NoSecondTwin
<1> QED BY <1>1, InitOK, NextOK, PTL DEF GraphSpec

(* A replacement leaves no edge behind unseen: each semantic edge of the    *)
(* predecessor is moved to the successor, reported as orphaned, or the one  *)
(* by which the successor itself declares the predecessor as a detail, and  *)
(* an edge a batch refuses has changed nothing.                             *)
THEOREM EdgesStayFollowed == GraphSpec => []EdgesFollow
<1>1. ASSUME GraphInv PROVE EdgesFollow
  <2>1. GraphOK(db)
    BY <1>1 DEF GraphInv
  <2>2. ASSUME NEW c \in Callers, job[c].op = "replace", Fresh(db) # {}
        PROVE  LET p == job[c]
                   r == Replace(db, p)
               IN r.out = "ok" =>
                    /\ p.repoint => Touching(SemanticOf(r.db.act), p.old)
                                     \subseteq Unmoved(r.db, p.old, NewId(db))
                    /\ ~direct => Touching(SemanticOf(r.db.act), p.old)
                                    \subseteq Report(db, p) \cup OwnDetail(p, NewId(db))
    <3> DEFINE p == job[c]
               r == Replace(db, p)
    <3>1. p \in ReplaceJobs /\ (~direct => ReplaceCurrent(db, p))
      BY <1>1, <2>2, JobKinds DEF GraphInv
    <3>2. r.out = "ok" => LeftBehind(db, r.db, p)
      BY <2>1, <2>2, <3>1, ReplaceOK
    <3> HIDE DEF r, p
    <3>3. ~direct /\ r.out = "ok" => Touching(SemanticOf(r.db.act), p.old)
                                       \subseteq Report(db, p) \cup OwnDetail(p, NewId(db))
      BY <3>1, <3>2 DEF Report, ReplaceCurrent, LeftBehind
    <3>4. p.repoint /\ r.out = "ok" => Touching(SemanticOf(r.db.act), p.old)
                                         \subseteq Unmoved(r.db, p.old, NewId(db))
      BY <3>2 DEF LeftBehind
    <3> QED BY <3>3, <3>4 DEF p, r
  <2>3. RefusedEdgeTouchesNothing
    BY <1>1, JobKinds DEF GraphInv, RefusedEdgeTouchesNothing
  <2> QED BY <2>2, <2>3 DEF EdgesFollow, RepointComplete, OrphansReported
<1> QED BY <1>1, InitOK, NextOK, PTL DEF GraphSpec

(* The past is fixed: no step brings an archived memory back or makes a     *)
(* consolidated one raw, inside the daemon none changes a stored body, and  *)
(* a rejected relation batch changes nothing.                               *)
THEOREM PastStaysFixed == GraphSpec => PastIsFixed
<1>1. ASSUME GraphInv, [GraphNext]_gvars
      PROVE  /\ [\A m \in Ids : LET s == Status(db, m)
                                     t == Status(db', m)
                                 IN s = t \/ s = "none" \/ t = "archived"]_gvars
             /\ [~direct => \A m \in Stored(db) : db'.mem[m].body = db.mem[m].body]_gvars
             /\ [\A c \in Callers : job[c].op = "batch" /\ job[c].out # "ok" /\ job'[c] = Idle
                   => db' = db]_gvars
  BY <1>1, NextOK DEF PastKept, StatusMoves, BodiesKept
<1> QED BY <1>1, InitOK, NextOK, PTL DEF GraphSpec, PastIsFixed, ArchiveIsFinal, FrozenForever, RejectedLeavesNoTrace

-----------------------------------------------------------------------------
(* Recursion without an induction rule: a function that is given step by    *)
(* step exists, by the least step at which it would not.                    *)

IteratesTo(f, n, V, v0, G) ==
  f \in [0..n -> V] /\ f[0] = v0 /\ \A i \in 1..n : f[i] = G[i][f[i - 1]]

(* A recurrence over steps 0..n has a solution.                             *)
LEMMA StepsExist ==
  ASSUME NEW n \in Nat, NEW V, NEW v0 \in V, NEW G \in [1..n -> [V -> V]]
  PROVE  \E f : IteratesTo(f, n, V, v0, G)
<1> DEFINE Bad == {k \in 0..n : ~ \E f : IteratesTo(f, k, V, v0, G)}
<1>1. SUFFICES ASSUME n \in Bad PROVE FALSE
  OBVIOUS
<1>2. Bad \in SUBSET Nat /\ Bad # {}
  <2>1. 0..n \in SUBSET Nat
    OBVIOUS
  <2>2. Bad \in SUBSET (0..n) /\ Bad # {}
    BY <1>1, Zenon
  <2> QED BY <2>1, <2>2
<1>3. PICK k \in Bad : \A j \in Bad : k <= j
  <2> HIDE DEF Bad
  <2> QED BY <1>2, LeastNatural
<1>4. CASE k = 0
  <2>1. IteratesTo([i \in 0..0 |-> v0], 0, V, v0, G)
    BY DEF IteratesTo
  <2> QED BY <1>3, <1>4, <2>1
<1>5. CASE k # 0
  <2>1. k \in 1..n /\ k - 1 \in 0..n /\ ~(k <= k - 1)
    BY <1>3, <1>5
  <2>2. k - 1 \notin Bad
    BY <1>3, <2>1
  <2>3. PICK f : IteratesTo(f, k - 1, V, v0, G)
    BY <2>1, <2>2
  <2>4. f \in [0..(k - 1) -> V] /\ f[0] = v0 /\ \A i \in 1..(k - 1) : f[i] = G[i][f[i - 1]]
    BY <2>3 DEF IteratesTo
  <2>5. f[k - 1] \in V /\ G[k] \in [V -> V]
    BY <2>1, <2>4
  <2> DEFINE g == [i \in 0..k |-> IF i = k THEN G[k][f[k - 1]] ELSE f[i]]
  <2>6. g \in [0..k -> V]
    BY <2>1, <2>4, <2>5
  <2>7. g[0] = v0
    BY <2>1, <2>4
  <2>8. ASSUME NEW i \in 1..k PROVE g[i] = G[i][g[i - 1]]
    <3>1. g[i - 1] = f[i - 1]
      BY <2>1
    <3>2. CASE i = k
      BY <3>1, <3>2
    <3>3. CASE i # k
      <4>1. i \in 1..(k - 1) /\ g[i] = f[i]
        BY <2>1, <3>3
      <4> QED BY <2>4, <3>1, <4>1
    <3> QED BY <3>2, <3>3
  <2> HIDE DEF g
  <2>9. IteratesTo(g, k, V, v0, G)
    BY <2>6, <2>7, <2>8 DEF IteratesTo
  <2> QED BY <1>3, <2>9
<1> QED BY <1>4, <1>5

(* What holds at zero and is handed from step to step holds at every step.  *)
LEMMA StepByStep ==
  ASSUME NEW n \in Nat, NEW S, 0 \in S, \A i \in 1..n : i - 1 \in S => i \in S
  PROVE  \A i \in 0..n : i \in S
<1> DEFINE Bad == {i \in 0..n : i \notin S}
<1>1. SUFFICES ASSUME Bad # {} PROVE FALSE
  OBVIOUS
<1>2. Bad \in SUBSET Nat
  OBVIOUS
<1>3. PICK k \in Bad : \A j \in Bad : k <= j
  <2> HIDE DEF Bad
  <2> QED BY <1>1, <1>2, LeastNatural
<1>4. k \in 0..n /\ k \notin S /\ k # 0
  BY <1>3
<1>5. k \in 1..n /\ k - 1 \in 0..n /\ ~(k <= k - 1)
  BY <1>4
<1>6. k - 1 \in S
  BY <1>3, <1>5
<1> QED BY <1>4, <1>5, <1>6

-----------------------------------------------------------------------------
(* The tags.  What the table satisfies after every job of the writer.       *)

TagRow == [name : TagNames, canon : Nat]

(* An alias leads to another row; names are unique; a row's own name still  *)
(* finds a row after it has been sanitized.                                 *)
TagRowsOK(rows) ==
  /\ rows \in Seq(TagRow)
  /\ \A i \in DOMAIN rows : rows[i].canon \in {NoTag} \cup DOMAIN rows /\ rows[i].canon # i
  /\ \A i, j \in DOMAIN rows : rows[i].name = rows[j].name => i = j
  /\ \A i \in DOMAIN rows : NormalForm[SanitizedName[rows[i].name]] = NormalForm[rows[i].name]

Hits(rows, n) == MatchingRows(rows, n) # {}
RowFor(rows, n) == FirstRow(MatchingRows(rows, n))

(* NoAliasChains of any table.                                              *)
Flat(rows) == \A i \in DOMAIN rows : OneHop(rows, i) \in CanonicalTags(rows)

(* The row belongs to the class of #core.                                   *)
CoreClass(rows, i) == Hits(rows, CoreName) /\ OneHop(rows, i) = OneHop(rows, RowFor(rows, CoreName))

(* A name's class is #core's, or the memory has a link to the class.        *)
Held(rows, ls, e, n) ==
  \/ CoreClass(rows, RowFor(rows, SanitizedName[n]))
  \/ \E t \in DOMAIN rows : <<e, t>> \in ls /\ OneHop(rows, t) = OneHop(rows, RowFor(rows, SanitizedName[n]))

(* The links of every memory that was given tags hold all of their names.   *)
AllHeld(rows, ls, sub) == \A e \in DOMAIN sub : \A n \in sub[e] : Held(rows, ls, e, n)

LinksOK(rows, ls) == ls \in SUBSET (TaggedMemories \X Nat) /\ \A l \in ls : l[2] \in DOMAIN rows

SubmittedOK(rows, sub) ==
  /\ DOMAIN sub \subseteq TaggedMemories
  /\ \A e \in DOMAIN sub : \A n \in sub[e] : n \in TagNames /\ Hits(rows, SanitizedName[n])

OnePerForm(rows) ==
  \A i, j \in CanonicalTags(rows) : NormalForm[rows[i].name] = NormalForm[rows[j].name] => i = j

(* The later table has the earlier one's rows, and every name that found a  *)
(* row finds the same one.                                                  *)
TagsGrow(a, b) ==
  /\ DOMAIN a \subseteq DOMAIN b
  /\ \A i \in DOMAIN a : b[i] = a[i]
  /\ \A n \in TagNames : Hits(a, n) => Hits(b, n) /\ RowFor(b, n) = RowFor(a, n)

TagInv ==
  /\ TagRowsOK(tagRows) /\ LinksOK(tagRows, links) /\ SubmittedOK(tagRows, submitted)
  /\ isCore \in [TaggedMemories -> BOOLEAN]
  /\ CoreLinkFollowsFlag
  /\ lastOp = "pass" => OnePerForm(tagRows)
  /\ Flat(tagRows) => AllHeld(tagRows, links, submitted)

(* The first of some rows is one of them.                                   *)
LEMMA FirstRowIs ==
  ASSUME NEW S \in SUBSET Nat, S # {} PROVE FirstRow(S) \in S /\ \A j \in S : FirstRow(S) <= j
<1>1. \E i \in S : \A j \in S : i <= j
  BY LeastNatural
<1> QED BY <1>1 DEF FirstRow

(* No other row is the first.                                               *)
LEMMA FirstRowOnly ==
  ASSUME NEW S \in SUBSET Nat, NEW i \in S, \A j \in S : i <= j PROVE FirstRow(S) = i
<1>1. FirstRow(S) \in S /\ FirstRow(S) <= i
  BY FirstRowIs
<1>2. i \in Nat /\ FirstRow(S) \in Nat /\ i <= FirstRow(S)
  BY <1>1
<1> QED BY <1>1, <1>2

(* A name matches rows of the table, the first of which it is resolved to.  *)
LEMMA RowForIs ==
  ASSUME NEW rows, TagRowsOK(rows), NEW n
  PROVE  /\ MatchingRows(rows, n) \in SUBSET DOMAIN rows /\ DOMAIN rows \in SUBSET Nat
         /\ NoTag \notin DOMAIN rows
         /\ Hits(rows, n) => RowFor(rows, n) \in MatchingRows(rows, n) /\ RowFor(rows, n) \in DOMAIN rows
<1>1. DOMAIN rows \in SUBSET Nat /\ NoTag \notin DOMAIN rows
  BY DEF TagRowsOK, NoTag
<1>2. MatchingRows(rows, n) \in SUBSET DOMAIN rows
  BY DEF MatchingRows
<1> QED BY <1>1, <1>2, FirstRowIs DEF Hits, RowFor

(* One hop stays in the table.                                              *)
LEMMA HopIsRow ==
  ASSUME NEW rows, TagRowsOK(rows), NEW i \in DOMAIN rows PROVE OneHop(rows, i) \in DOMAIN rows
BY DEF TagRowsOK, OneHop, NoTag

(* In a flat table a second hop leads nowhere else.                         *)
LEMMA HopTwice ==
  ASSUME NEW rows, TagRowsOK(rows), Flat(rows), NEW i \in DOMAIN rows
  PROVE  OneHop(rows, OneHop(rows, i)) = OneHop(rows, i)
BY DEF TagRowsOK, Flat, OneHop, CanonicalTags

(* Growing is transitive.                                                   *)
LEMMA GrowOn ==
  ASSUME NEW a, NEW b, NEW c, TagsGrow(a, b), TagsGrow(b, c) PROVE TagsGrow(a, c)
<1>1. DOMAIN a \subseteq DOMAIN c /\ \A i \in DOMAIN a : c[i] = a[i]
  BY DEF TagsGrow
<1>2. ASSUME NEW n \in TagNames, Hits(a, n) PROVE Hits(c, n) /\ RowFor(c, n) = RowFor(a, n)
  <2>1. Hits(b, n) /\ RowFor(b, n) = RowFor(a, n)
    BY <1>2 DEF TagsGrow
  <2> QED BY <2>1 DEF TagsGrow
<1> QED BY <1>1, <1>2 DEF TagsGrow

(* A table has grown from itself.                                          *)
LEMMA GrowSelf == ASSUME NEW a PROVE TagsGrow(a, a)
BY DEF TagsGrow

(* Hops of old rows are what they were, and a flat table grew from one.     *)
LEMMA GrowHops ==
  ASSUME NEW a, NEW b, TagRowsOK(a), TagsGrow(a, b)
  PROVE  /\ \A i \in DOMAIN a : OneHop(b, i) = OneHop(a, i)
         /\ Flat(b) => Flat(a)
<1>1. \A i \in DOMAIN a : OneHop(b, i) = OneHop(a, i)
  BY DEF TagsGrow, OneHop
<1>2. ASSUME Flat(b), NEW i \in DOMAIN a PROVE OneHop(a, i) \in CanonicalTags(a)
  <2>1. OneHop(a, i) \in DOMAIN a
    BY HopIsRow
  <2>2. OneHop(b, i) \in CanonicalTags(b)
    BY <1>2 DEF Flat, TagsGrow
  <2> QED BY <1>1, <2>1, <2>2 DEF TagsGrow, CanonicalTags
<1> QED BY <1>1, <1>2 DEF Flat

(* A new row, made for a name that found none, takes no name from another.  *)
LEMMA AppendGrows ==
  ASSUME NEW rows, TagRowsOK(rows), NEW n \in TagNames, ~Hits(rows, n), SanitizedName[n] = n,
         NEW b, b = Append(rows, [name |-> n, canon |-> NoTag])
  PROVE  /\ TagRowsOK(b) /\ TagsGrow(rows, b)
         /\ Len(rows) + 1 \in DOMAIN b /\ b[Len(rows) + 1] = [name |-> n, canon |-> NoTag]
         /\ Hits(b, n) /\ RowFor(b, n) = Len(rows) + 1
<1> DEFINE new == [name |-> n, canon |-> NoTag]
           k == Len(rows) + 1
<1>0. rows \in Seq(TagRow) /\ Len(rows) \in Nat /\ DOMAIN rows = 1..Len(rows)
  BY DEF TagRowsOK
<1>1. new \in TagRow
  BY DEF TagRow, NoTag
<1>2. b \in Seq(TagRow) /\ Len(b) = k /\ DOMAIN b = 1..k /\ b[k] = new /\ \A i \in DOMAIN rows : b[i] = rows[i]
  BY <1>0, <1>1
<1>3. DOMAIN b = DOMAIN rows \cup {k} /\ k \notin DOMAIN rows /\ \A i \in DOMAIN rows : i <= k
  BY <1>0, <1>2
<1>4. /\ \A i \in DOMAIN rows : rows[i].name # n
      /\ \A i \in DOMAIN rows : NormalForm[rows[i].name] # NormalForm[n]
      /\ \A i \in DOMAIN rows : ~(PluralStem[n] # 0 /\ PluralStem[rows[i].name] = PluralStem[n])
  <2> DEFINE exact  == {i \in DOMAIN rows : rows[i].name = n}
             normal == {i \in DOMAIN rows : NormalForm[rows[i].name] = NormalForm[n]}
             plural == {i \in DOMAIN rows : PluralStem[n] # 0 /\ PluralStem[rows[i].name] = PluralStem[n]}
  <2>1. (IF exact # {} THEN exact ELSE IF normal # {} THEN normal ELSE plural) = {}
    BY DEF Hits, MatchingRows
  <2>2. exact = {} /\ normal = {} /\ plural = {}
    <3> HIDE DEF exact, normal, plural
    <3> QED BY <2>1
  <2> QED BY <2>2
<1>5. TagRowsOK(b)
  <2> HIDE DEF k
  <2>1. \A i \in DOMAIN b : b[i].canon \in {NoTag} \cup DOMAIN b /\ b[i].canon # i
    <3>1. k # NoTag
      BY <1>0 DEF k, NoTag
    <3> QED BY <1>2, <1>3, <3>1 DEF TagRowsOK
  <2>2. \A i, j \in DOMAIN b : b[i].name = b[j].name => i = j
    BY <1>2, <1>3, <1>4 DEF TagRowsOK
  <2>3. \A i \in DOMAIN b : NormalForm[SanitizedName[b[i].name]] = NormalForm[b[i].name]
    BY <1>2, <1>3 DEF TagRowsOK
  <2> QED BY <1>2, <2>1, <2>2, <2>3 DEF TagRowsOK
<1> HIDE DEF k
<1>6. ASSUME NEW m \in TagNames, Hits(rows, m) PROVE Hits(b, m) /\ RowFor(b, m) = RowFor(rows, m)
  <2> DEFINE exact  == {i \in DOMAIN rows : rows[i].name = m}
             normal == {i \in DOMAIN rows : NormalForm[rows[i].name] = NormalForm[m]}
             plural == {i \in DOMAIN rows : PluralStem[m] # 0 /\ PluralStem[rows[i].name] = PluralStem[m]}
             exactB  == {i \in DOMAIN b : b[i].name = m}
             normalB == {i \in DOMAIN b : NormalForm[b[i].name] = NormalForm[m]}
             pluralB == {i \in DOMAIN b : PluralStem[m] # 0 /\ PluralStem[b[i].name] = PluralStem[m]}
             old == MatchingRows(rows, m)
             now == MatchingRows(b, m)
  <2>1. /\ old = IF exact # {} THEN exact ELSE IF normal # {} THEN normal ELSE plural
        /\ now = IF exactB # {} THEN exactB ELSE IF normalB # {} THEN normalB ELSE pluralB
    BY DEF MatchingRows
  <2>2. n # m
    BY <1>6
  <2>3. exactB = exact
    BY <1>2, <1>3, <2>2
  <2>4. normalB = normal \/ (normalB = normal \cup {k} /\ NormalForm[n] = NormalForm[m])
    <3>1. b[k].name = n
      BY <1>2
    <3>2. \A i \in DOMAIN rows : b[i].name = rows[i].name
      BY <1>2
    <3> QED BY <1>3, <3>1, <3>2
  <2>5. pluralB = plural \/ pluralB = plural \cup {k}
    <3>1. b[k].name = n
      BY <1>2
    <3>2. \A i \in DOMAIN rows : b[i].name = rows[i].name
      BY <1>2
    <3> QED BY <1>3, <3>1, <3>2
  <2>6. old # {}
    BY <1>6 DEF Hits
  <2>7. ASSUME NormalForm[n] = NormalForm[m], normal = {} PROVE plural = {}
    <3>1. PluralStem[n] = PluralStem[m]
      BY <2>7, TagAssumption
    <3> QED BY <1>4, <3>1
  <2>8. now = old \/ now = old \cup {k}
    <3>1. CASE exact # {}
      <4> HIDE DEF exact, normal, plural, exactB, normalB, pluralB, old, now
      <4> QED BY <2>1, <2>3, <3>1
    <3>2. CASE exact = {} /\ normal # {}
      <4> HIDE DEF exact, normal, plural, exactB, normalB, pluralB, old, now
      <4> QED BY <2>1, <2>3, <2>4, <3>2
    <3>3. CASE exact = {} /\ normal = {}
      <4>1. plural # {}
        <5> HIDE DEF exact, normal, plural, exactB, normalB, pluralB, old, now
        <5> QED BY <2>1, <2>6, <3>3
      <4>2. NormalForm[n] # NormalForm[m]
        <5> HIDE DEF exact, normal, plural, exactB, normalB, pluralB, old, now
        <5> QED BY <2>7, <3>3, <4>1
      <4> HIDE DEF exact, normal, plural, exactB, normalB, pluralB, old, now
      <4> QED BY <2>1, <2>3, <2>4, <2>5, <3>3, <4>2
    <3> QED BY <3>1, <3>2, <3>3
  <2>9. old \in SUBSET DOMAIN rows /\ DOMAIN rows \in SUBSET Nat /\ k \in Nat
    BY <1>0, <1>3, RowForIs DEF k
  <2> HIDE DEF old, now
  <2>10. FirstRow(old) \in old /\ \A j \in old : FirstRow(old) <= j
    BY <2>6, <2>9, FirstRowIs
  <2>11. FirstRow(old) \in now /\ now \in SUBSET Nat /\ \A j \in now : FirstRow(old) <= j
    BY <1>3, <2>8, <2>9, <2>10
  <2>12. FirstRow(now) = FirstRow(old)
    BY <2>11, FirstRowOnly
  <2> QED BY <2>11, <2>12 DEF Hits, RowFor, old, now
<1>7. MatchingRows(b, n) = {k}
  <2>1. {i \in DOMAIN b : b[i].name = n} = {k}
    BY <1>2, <1>3, <1>4
  <2> QED BY <2>1 DEF MatchingRows
<1>8. FirstRow({k}) = k
  <2>1. {k} \in SUBSET Nat /\ {k} # {}
    BY <1>0 DEF k
  <2>2. FirstRow({k}) \in {k}
    BY <2>1, FirstRowIs
  <2> QED BY <2>2
<1>9. TagsGrow(rows, b)
  BY <1>2, <1>3, <1>6 DEF TagsGrow
<1> QED BY <1>2, <1>3, <1>5, <1>7, <1>8, <1>9 DEF Hits, RowFor, k

(* Resolving a name leaves it a row, whose class the returned id stands for.*)
LEMMA ResolvedIs ==
  ASSUME NEW rows, TagRowsOK(rows), NEW raw \in TagNames, NEW r, r = ResolveOrCreateTag(rows, raw)
  PROVE  /\ TagRowsOK(r.rows) /\ TagsGrow(rows, r.rows) /\ Hits(r.rows, SanitizedName[raw])
         /\ r.id = OneHop(r.rows, RowFor(r.rows, SanitizedName[raw])) /\ r.id \in DOMAIN r.rows
         /\ Hits(rows, SanitizedName[raw]) =>
              r.rows = rows /\ r.id = OneHop(rows, RowFor(rows, SanitizedName[raw]))
<1> DEFINE n == SanitizedName[raw]
<1>0. n \in TagNames /\ SanitizedName[n] = n
  BY TagAssumption
<1>1. CASE Hits(rows, n)
  <2>1. r.rows = rows /\ r.id = OneHop(rows, RowFor(rows, n))
    BY <1>1 DEF ResolveOrCreateTag, Hits, RowFor
  <2>2. RowFor(rows, n) \in DOMAIN rows
    BY <1>1, RowForIs
  <2> QED BY <1>1, <2>1, <2>2, GrowSelf, HopIsRow
<1>2. CASE ~Hits(rows, n)
  <2>1. r.rows = Append(rows, [name |-> n, canon |-> NoTag]) /\ r.id = Len(rows) + 1
    BY <1>2 DEF ResolveOrCreateTag, Hits
  <2> HIDE DEF n
  <2>2. /\ TagRowsOK(r.rows) /\ TagsGrow(rows, r.rows)
        /\ Len(rows) + 1 \in DOMAIN r.rows /\ r.rows[Len(rows) + 1] = [name |-> n, canon |-> NoTag]
        /\ Hits(r.rows, n) /\ RowFor(r.rows, n) = Len(rows) + 1
    BY <1>0, <1>2, <2>1, AppendGrows
  <2>3. OneHop(r.rows, Len(rows) + 1) = Len(rows) + 1
    BY <2>2 DEF OneHop
  <2> QED BY <1>2, <2>1, <2>2, <2>3 DEF n
<1> QED BY <1>1, <1>2

(* What was held is held in a grown table with the same or more links.      *)
LEMMA HeldGrows ==
  ASSUME NEW a, NEW b, TagRowsOK(a), TagsGrow(a, b), NEW e, NEW n \in TagNames, Hits(a, SanitizedName[n]),
         NEW ls, NEW ms, Held(a, ls, e, n), \A t \in DOMAIN a : <<e, t>> \in ls => <<e, t>> \in ms
  PROVE  Held(b, ms, e, n)
<1> DEFINE i == RowFor(a, SanitizedName[n])
<1>1. SanitizedName[n] \in TagNames /\ CoreName \in TagNames
  BY TagAssumption
<1>2. i \in DOMAIN a /\ RowFor(b, SanitizedName[n]) = i
  BY <1>1, RowForIs DEF TagsGrow
<1>3. \A x \in DOMAIN a : OneHop(b, x) = OneHop(a, x)
  BY GrowHops
<1>4. CASE CoreClass(a, i)
  <2>1. Hits(a, CoreName) /\ RowFor(a, CoreName) \in DOMAIN a
    BY <1>4, RowForIs DEF CoreClass
  <2>2. Hits(b, CoreName) /\ RowFor(b, CoreName) = RowFor(a, CoreName)
    BY <1>1, <2>1 DEF TagsGrow
  <2>3. CoreClass(b, i)
    BY <1>2, <1>3, <1>4, <2>1, <2>2 DEF CoreClass
  <2> QED BY <1>2, <2>3 DEF Held
<1>5. CASE ~CoreClass(a, i)
  <2>1. PICK t \in DOMAIN a : <<e, t>> \in ls /\ OneHop(a, t) = OneHop(a, i)
    BY <1>5 DEF Held
  <2>2. t \in DOMAIN b /\ <<e, t>> \in ms /\ OneHop(b, t) = OneHop(b, i)
    BY <1>2, <1>3, <2>1 DEF TagsGrow
  <2> QED BY <1>2, <2>2 DEF Held
<1> QED BY <1>4, <1>5

SameMatches(a, b) == DOMAIN b = DOMAIN a /\ \A m : MatchingRows(b, m) = MatchingRows(a, m)

Coarser(a, b) == \A x, y \in DOMAIN a : OneHop(a, x) = OneHop(a, y) => OneHop(b, x) = OneHop(b, y)

LedOn(b, e, ls, ms) ==
  \A t \in DOMAIN b : <<e, t>> \in ls =>
     \E u \in DOMAIN b : <<e, u>> \in ms /\ OneHop(b, u) = OneHop(b, t)

(* What a memory holds survives a merge that puts no class asunder and      *)
(* leads each of its links into the class it was in.                        *)
LEMMA HeldMerged ==
  ASSUME NEW a, NEW b, TagRowsOK(a), SameMatches(a, b), Coarser(a, b),
         NEW e, NEW n, Hits(a, SanitizedName[n]), NEW ls, NEW ms, Held(a, ls, e, n), LedOn(b, e, ls, ms)
  PROVE  Held(b, ms, e, n)
<1> USE DEF SameMatches, Coarser, LedOn
<1> DEFINE i == RowFor(a, SanitizedName[n])
<1>1. i \in DOMAIN a /\ RowFor(b, SanitizedName[n]) = i
  BY RowForIs DEF RowFor
<1>2. CASE CoreClass(a, i)
  <2>1. Hits(a, CoreName) /\ RowFor(a, CoreName) \in DOMAIN a /\ OneHop(a, i) = OneHop(a, RowFor(a, CoreName))
    BY <1>2, RowForIs DEF CoreClass
  <2>2. Hits(b, CoreName) /\ RowFor(b, CoreName) = RowFor(a, CoreName)
    BY <2>1 DEF Hits, RowFor
  <2>3. OneHop(b, i) = OneHop(b, RowFor(a, CoreName))
    BY <1>1, <2>1
  <2> QED BY <1>1, <2>2, <2>3 DEF Held, CoreClass
<1>3. CASE ~CoreClass(a, i)
  <2>1. PICK t \in DOMAIN a : <<e, t>> \in ls /\ OneHop(a, t) = OneHop(a, i)
    BY <1>3 DEF Held
  <2>2. PICK u \in DOMAIN a : <<e, u>> \in ms /\ OneHop(b, u) = OneHop(b, t)
    BY <2>1
  <2>3. OneHop(b, t) = OneHop(b, i)
    BY <1>1, <2>1
  <2> QED BY <1>1, <2>2, <2>3 DEF Held
<1> QED BY <1>2, <1>3

(* A name matches the same rows while the names of the rows stay.           *)
LEMMA SameNamesMatch ==
  ASSUME NEW a, NEW b, DOMAIN b = DOMAIN a, \A i \in DOMAIN a : b[i].name = a[i].name, NEW m
  PROVE  MatchingRows(b, m) = MatchingRows(a, m)
<1>1. /\ {i \in DOMAIN b : b[i].name = m} = {i \in DOMAIN a : a[i].name = m}
      /\ {i \in DOMAIN b : NormalForm[b[i].name] = NormalForm[m]} = {i \in DOMAIN a : NormalForm[a[i].name] = NormalForm[m]}
      /\ {i \in DOMAIN b : PluralStem[m] # 0 /\ PluralStem[b[i].name] = PluralStem[m]}
           = {i \in DOMAIN a : PluralStem[m] # 0 /\ PluralStem[a[i].name] = PluralStem[m]}
  OBVIOUS
<1> QED BY <1>1 DEF MatchingRows

(* The derived link is the flag's, and takes no other tag from a memory.    *)
LEMMA SyncKeeps ==
  ASSUME NEW w, TagRowsOK(w.rows), LinksOK(w.rows, w.links), NEW e \in TaggedMemories, NEW core \in BOOLEAN,
         NEW s, s = SyncCoreTag(w, e, core)
  PROVE  /\ TagRowsOK(s.rows) /\ LinksOK(s.rows, s.links) /\ TagsGrow(w.rows, s.rows)
         /\ (<<e, ResolveOrCreateTag(s.rows, CoreName).id>> \in s.links) <=> core
         /\ \A x, t : x # e /\ <<x, t>> \in w.links => <<x, t>> \in s.links
         /\ Flat(s.rows) => \A n \in TagNames :
              Hits(w.rows, SanitizedName[n]) /\ Held(w.rows, w.links, e, n) => Held(s.rows, s.links, e, n)
<1> DEFINE r == ResolveOrCreateTag(w.rows, CoreName)
           again == ResolveOrCreateTag(s.rows, CoreName)
<1>0. CoreName \in TagNames /\ SanitizedName[CoreName] = CoreName
  BY TagAssumption
<1>1. /\ s.rows = r.rows
      /\ s.links = IF core THEN w.links \cup {<<e, r.id>>} ELSE w.links \ {<<e, r.id>>}
  BY DEF SyncCoreTag
<1>2. /\ TagRowsOK(r.rows) /\ TagsGrow(w.rows, r.rows) /\ Hits(r.rows, CoreName)
      /\ r.id = OneHop(r.rows, RowFor(r.rows, CoreName)) /\ r.id \in DOMAIN r.rows
  <2> HIDE DEF r
  <2>1. \A q : q = r => /\ TagRowsOK(q.rows) /\ TagsGrow(w.rows, q.rows) /\ Hits(q.rows, CoreName)
                        /\ q.id = OneHop(q.rows, RowFor(q.rows, CoreName)) /\ q.id \in DOMAIN q.rows
    BY <1>0, ResolvedIs DEF r
  <2> QED BY <2>1
<1>3. again.id = OneHop(s.rows, RowFor(s.rows, CoreName))
  <2>1. TagRowsOK(s.rows) /\ Hits(s.rows, CoreName)
    BY <1>1, <1>2
  <2> HIDE DEF again
  <2>2. \A q : q = again => q.id = OneHop(s.rows, RowFor(s.rows, CoreName))
    BY <1>0, <2>1, ResolvedIs DEF again
  <2> QED BY <2>2
<1> HIDE DEF r, again
<1>4. again.id = r.id
  BY <1>1, <1>2, <1>3
<1>5. LinksOK(s.rows, s.links)
  <2>1. DOMAIN w.rows \subseteq DOMAIN s.rows /\ r.id \in DOMAIN s.rows /\ r.id \in Nat
    BY <1>1, <1>2, RowForIs DEF TagsGrow
  <2> QED BY <1>1, <2>1 DEF LinksOK
<1>6. ASSUME Flat(s.rows), NEW n \in TagNames, Hits(w.rows, SanitizedName[n]), Held(w.rows, w.links, e, n)
      PROVE  Held(s.rows, s.links, e, n)
  <2>1. CASE core
    BY <1>1, <1>2, <1>6, <2>1, HeldGrows
  <2>2. CASE ~core
    <3>1. Held(s.rows, w.links, e, n)
      BY <1>1, <1>2, <1>6, HeldGrows
    <3> DEFINE i == RowFor(s.rows, SanitizedName[n])
    <3>2. CASE CoreClass(s.rows, i)
      BY <3>2 DEF Held
    <3>3. CASE ~CoreClass(s.rows, i)
      <4>1. PICK t \in DOMAIN s.rows : <<e, t>> \in w.links /\ OneHop(s.rows, t) = OneHop(s.rows, i)
        BY <3>1, <3>3 DEF Held
      <4>2. ASSUME t = r.id PROVE FALSE
        <5>1. RowFor(s.rows, CoreName) \in DOMAIN s.rows
          BY <1>1, <1>2, RowForIs
        <5>2. OneHop(s.rows, t) = OneHop(s.rows, RowFor(s.rows, CoreName))
          BY <1>1, <1>2, <1>6, <4>2, <5>1, HopTwice
        <5> QED BY <1>1, <1>2, <3>3, <4>1, <5>2 DEF CoreClass
      <4>3. <<e, t>> \in s.links
        BY <1>1, <2>2, <4>1, <4>2
      <4> QED BY <4>1, <4>3 DEF Held
    <3> QED BY <3>2, <3>3
  <2> QED BY <2>1, <2>2
<1>7. (<<e, ResolveOrCreateTag(s.rows, CoreName).id>> \in s.links) <=> core
  BY <1>1, <1>4 DEF again
<1>8. \A x, t : x # e /\ <<x, t>> \in w.links => <<x, t>> \in s.links
  BY <1>1
<1> QED BY <1>1, <1>2, <1>5, <1>6, <1>7, <1>8

(* The links of the names of a call hold each of them.                      *)
LEMMA LinkNamesKeeps ==
  ASSUME NEW rows, TagRowsOK(rows), NEW old, LinksOK(rows, old), NEW e \in TaggedMemories,
         NEW names \in TagLists, NEW w, w = LinkNames(rows, old, e, names)
  PROVE  /\ TagRowsOK(w.rows) /\ LinksOK(w.rows, w.links) /\ TagsGrow(rows, w.rows)
         /\ old \subseteq w.links
         /\ \A i \in DOMAIN names : names[i] \in TagNames /\ Hits(w.rows, SanitizedName[names[i]])
         /\ Flat(w.rows) => \A i \in DOMAIN names : Held(w.rows, w.links, e, names[i])
<1>0. names \in Seq(TagNames) /\ Len(names) \in 0..2 /\ DOMAIN names = 1..Len(names)
  <2>1. names \in Seq(TagNames) /\ Len(names) <= 2
    BY TagAssumption, Zenon
  <2>2. Len(names) \in Nat /\ DOMAIN names = 1..Len(names)
    BY <2>1
  <2>3. Len(names) \in 0..2
    BY <2>1, <2>2
  <2> QED BY <2>1, <2>2, <2>3
<1>1. CASE names = <<>>
  <2>1. w.rows = rows /\ w.links = old
    BY <1>1 DEF LinkNames
  <2>2. DOMAIN names = {}
    BY <1>1
  <2> QED BY <2>1, <2>2, GrowSelf
<1>2. CASE names # <<>>
  <2> DEFINE first == ResolveOrCreateTag(rows, names[1])
             second == IF Len(names) > 1 THEN ResolveOrCreateTag(first.rows, names[2]) ELSE first
             n == names[1]
  <2>0. Len(names) \in 1..2 /\ n \in TagNames
    BY <1>0, <1>2
  <2>1. w.rows = second.rows /\ w.links = old \cup {<<e, first.id>>, <<e, second.id>>}
    BY <1>2 DEF LinkNames
  <2>2. /\ TagRowsOK(first.rows) /\ TagsGrow(rows, first.rows) /\ Hits(first.rows, SanitizedName[n])
        /\ first.id = OneHop(first.rows, RowFor(first.rows, SanitizedName[n])) /\ first.id \in DOMAIN first.rows
    <3> HIDE DEF first, n
    <3>1. \A q : q = first => /\ TagRowsOK(q.rows) /\ TagsGrow(rows, q.rows) /\ Hits(q.rows, SanitizedName[n])
                 /\ q.id = OneHop(q.rows, RowFor(q.rows, SanitizedName[n])) /\ q.id \in DOMAIN q.rows
      BY <2>0, ResolvedIs DEF first, n
    <3> QED BY <3>1
  <2>3. /\ TagRowsOK(second.rows) /\ TagsGrow(first.rows, second.rows) /\ second.id \in DOMAIN second.rows
        /\ Len(names) > 1 =>
             /\ names[2] \in TagNames /\ Hits(second.rows, SanitizedName[names[2]])
             /\ second.id = OneHop(second.rows, RowFor(second.rows, SanitizedName[names[2]]))
    <3>1. CASE Len(names) > 1
      <4>1. second = ResolveOrCreateTag(first.rows, names[2]) /\ names[2] \in TagNames
        BY <1>0, <3>1
      <4> HIDE DEF first, second
      <4>3. \A q : \A m \in TagNames : q = ResolveOrCreateTag(first.rows, m) =>
                 /\ TagRowsOK(q.rows) /\ TagsGrow(first.rows, q.rows) /\ Hits(q.rows, SanitizedName[m])
                 /\ q.id = OneHop(q.rows, RowFor(q.rows, SanitizedName[m])) /\ q.id \in DOMAIN q.rows
        BY <2>2, ResolvedIs
      <4> QED BY <4>1, <4>3
    <3>2. CASE ~(Len(names) > 1)
      <4>1. second = first
        BY <3>2
      <4> HIDE DEF first, second
      <4> QED BY <2>2, <3>2, <4>1, GrowSelf
    <3> QED BY <3>1, <3>2
  <2> HIDE DEF first, second
  <2>4. TagsGrow(rows, second.rows)
    BY <2>2, <2>3, GrowOn
  <2>5. LinksOK(w.rows, w.links)
    <3>1. /\ DOMAIN rows \subseteq DOMAIN w.rows /\ first.id \in DOMAIN w.rows /\ second.id \in DOMAIN w.rows
          /\ DOMAIN w.rows \in SUBSET Nat
      BY <2>1, <2>2, <2>3, <2>4, RowForIs DEF TagsGrow
    <3> QED BY <2>1, <3>1 DEF LinksOK
  <2>6. Hits(w.rows, SanitizedName[n])
    BY <2>0, <2>1, <2>2, <2>3, TagAssumption DEF TagsGrow
  <2>7. ASSUME Flat(w.rows) PROVE Held(w.rows, w.links, e, n)
    <3>1. RowFor(first.rows, SanitizedName[n]) \in DOMAIN first.rows
      BY <2>2, RowForIs
    <3>2. Flat(first.rows)
      BY <2>1, <2>2, <2>3, <2>7, GrowHops
    <3>3. OneHop(first.rows, first.id) = OneHop(first.rows, RowFor(first.rows, SanitizedName[n]))
      BY <2>2, <3>1, <3>2, HopTwice
    <3>4. Held(first.rows, w.links, e, n)
      BY <2>1, <2>2, <3>3 DEF Held
    <3> HIDE DEF n
    <3> QED BY <2>0, <2>1, <2>2, <2>3, <3>4, HeldGrows
  <2>8. ASSUME Flat(w.rows), Len(names) > 1 PROVE Held(w.rows, w.links, e, names[2])
    <3>1. RowFor(w.rows, SanitizedName[names[2]]) \in DOMAIN w.rows
      BY <2>1, <2>3, <2>8, RowForIs
    <3>2. OneHop(w.rows, second.id) = OneHop(w.rows, RowFor(w.rows, SanitizedName[names[2]]))
      BY <2>1, <2>3, <2>8, <3>1, HopTwice
    <3> QED BY <2>1, <2>3, <3>2 DEF Held
  <2>9. \A i \in DOMAIN names : i = 1 \/ (i = 2 /\ Len(names) > 1)
    BY <1>0
  <2> QED BY <2>0, <2>1, <2>3, <2>4, <2>5, <2>6, <2>7, <2>8, <2>9
<1> QED BY <1>1, <1>2

(* Merging a tag into another leaves a sound table.  If it is flat, it was  *)
(* flat, and every memory that had a link to a class has one to its heir.   *)
LEMMA MergeKeeps ==
  ASSUME NEW w, TagRowsOK(w.rows), LinksOK(w.rows, w.links), NEW k \in DOMAIN w.rows,
         NEW a, a = OneHop(w.rows, k), NEW c \in DOMAIN w.rows, a # c, NEW m, m = MergeInto(w, a, c)
  PROVE  /\ TagRowsOK(m.rows) /\ LinksOK(m.rows, m.links) /\ DOMAIN m.rows = DOMAIN w.rows
         /\ \A n : MatchingRows(m.rows, n) = MatchingRows(w.rows, n)
         /\ Flat(m.rows) =>
              /\ Flat(w.rows)
              /\ \A e, n : Hits(w.rows, SanitizedName[n]) /\ Held(w.rows, w.links, e, n)
                             => Held(m.rows, m.links, e, n)
<1>0. a \in DOMAIN w.rows /\ w.rows \in Seq(TagRow) /\ c \in Nat \ {NoTag}
  BY HopIsRow DEF TagRowsOK, NoTag
<1>1. /\ m.rows = [w.rows EXCEPT ![a].canon = c]
      /\ m.links = RepointLinks(w.links, a, c)
  BY DEF MergeInto
<1>2. /\ DOMAIN m.rows = DOMAIN w.rows
      /\ m.rows[a].canon = c /\ m.rows[a].name = w.rows[a].name /\ m.rows[a] \in TagRow
      /\ \A i \in DOMAIN w.rows : i # a => m.rows[i] = w.rows[i]
  <2>1. w.rows[a] \in TagRow
    BY <1>0
  <2> QED BY <1>0, <1>1, <2>1 DEF TagRow
<1>3. m.rows \in Seq(TagRow)
  <2>1. DOMAIN w.rows = 1..Len(w.rows) /\ Len(w.rows) \in Nat
    BY <1>0
  <2>2. \A i \in DOMAIN w.rows : m.rows[i] \in TagRow
    BY <1>0, <1>2
  <2>3. m.rows \in [1..Len(w.rows) -> TagRow]
    BY <1>1, <2>1, <2>2
  <2> QED BY <2>1, <2>3
<1>4. \A i \in DOMAIN w.rows : m.rows[i].name = w.rows[i].name
  BY <1>2
<1>5. TagRowsOK(m.rows)
  <2>1. \A i \in DOMAIN m.rows : m.rows[i].canon \in {NoTag} \cup DOMAIN m.rows /\ m.rows[i].canon # i
    BY <1>2 DEF TagRowsOK
  <2>2. \A i, j \in DOMAIN m.rows : m.rows[i].name = m.rows[j].name => i = j
    BY <1>2, <1>4 DEF TagRowsOK
  <2>3. \A i \in DOMAIN m.rows : NormalForm[SanitizedName[m.rows[i].name]] = NormalForm[m.rows[i].name]
    BY <1>2, <1>4 DEF TagRowsOK
  <2> QED BY <1>3, <2>1, <2>2, <2>3 DEF TagRowsOK
<1>6. LinksOK(m.rows, m.links)
  <2> SUFFICES ASSUME NEW l \in m.links PROVE l \in TaggedMemories \X Nat /\ l[2] \in DOMAIN m.rows
    BY DEF LinksOK
  <2>1. CASE l \in w.links
    BY <1>2, <2>1 DEF LinksOK
  <2>2. CASE l \notin w.links
    <3>1. PICK h \in w.links : l = <<h[1], c>>
      BY <1>1, <2>2 DEF RepointLinks
    <3>2. h[1] \in TaggedMemories
      BY DEF LinksOK
    <3> QED BY <1>0, <1>2, <3>1, <3>2
  <2> QED BY <2>1, <2>2
<1>7. \A n : MatchingRows(m.rows, n) = MatchingRows(w.rows, n)
  BY <1>2, <1>4, SameNamesMatch
<1>8. ASSUME Flat(m.rows)
      PROVE  /\ w.rows[a].canon = NoTag /\ m.rows[c].canon = NoTag
             /\ \A i \in DOMAIN w.rows : w.rows[i].canon # a
             /\ Flat(w.rows)
  <2>1. m.rows[c].canon = NoTag
    <3>1. OneHop(m.rows, a) = c
      BY <1>0, <1>2 DEF OneHop
    <3>2. a \in DOMAIN m.rows
      BY <1>0, <1>2
    <3> QED BY <1>8, <3>1, <3>2 DEF Flat, CanonicalTags
  <2>2. \A i \in DOMAIN w.rows : w.rows[i].canon # a
    <3> SUFFICES ASSUME NEW i \in DOMAIN w.rows, w.rows[i].canon = a PROVE FALSE
      OBVIOUS
    <3>1. i # a
      BY DEF TagRowsOK
    <3>2. m.rows[i].canon = a /\ a # NoTag
      BY <1>0, <1>2, <3>1 DEF TagRowsOK, NoTag
    <3>3. OneHop(m.rows, i) = a
      BY <3>2 DEF OneHop
    <3>4. m.rows[a].canon = NoTag
      BY <1>2, <1>8, <3>3 DEF Flat, CanonicalTags
    <3> QED BY <1>0, <1>2, <3>4
  <2>3. w.rows[a].canon = NoTag
    <3>1. CASE w.rows[k].canon # NoTag
      BY <2>2, <3>1 DEF OneHop
    <3>2. CASE w.rows[k].canon = NoTag
      BY <3>2 DEF OneHop
    <3> QED BY <3>1, <3>2
  <2>4. ASSUME NEW i \in DOMAIN w.rows PROVE OneHop(w.rows, i) \in CanonicalTags(w.rows)
    <3>1. CASE i = a
      BY <1>0, <2>3, <3>1 DEF OneHop, CanonicalTags
    <3>2. CASE i # a
      <4>1. OneHop(w.rows, i) = OneHop(m.rows, i)
        BY <1>2, <3>2 DEF OneHop
      <4>2. OneHop(w.rows, i) # a /\ OneHop(w.rows, i) \in DOMAIN w.rows
        BY <2>2, <3>2, HopIsRow DEF OneHop
      <4>3. m.rows[OneHop(w.rows, i)].canon = NoTag
        BY <1>2, <1>8, <4>1 DEF Flat, CanonicalTags
      <4> QED BY <1>2, <4>2, <4>3 DEF CanonicalTags
    <3> QED BY <3>1, <3>2
  <2> QED BY <2>1, <2>2, <2>3, <2>4 DEF Flat
<1>9. ASSUME Flat(m.rows), NEW e, NEW n, Hits(w.rows, SanitizedName[n]), Held(w.rows, w.links, e, n)
      PROVE  Held(m.rows, m.links, e, n)
  <2>1. /\ OneHop(w.rows, a) = a /\ OneHop(m.rows, a) = c /\ OneHop(m.rows, c) = c
        /\ \A x \in DOMAIN w.rows : x # a => OneHop(m.rows, x) = OneHop(w.rows, x) /\ OneHop(w.rows, x) # a
    BY <1>0, <1>2, <1>8, <1>9 DEF OneHop
  <2>2. \A x, y \in DOMAIN w.rows : OneHop(w.rows, x) = OneHop(w.rows, y) => OneHop(m.rows, x) = OneHop(m.rows, y)
    BY <2>1
  <2>3. ASSUME NEW t \in DOMAIN w.rows, <<e, t>> \in w.links
        PROVE  \E u \in DOMAIN w.rows : <<e, u>> \in m.links /\ OneHop(m.rows, u) = OneHop(m.rows, t)
    <3>1. CASE t = a
      <4>1. <<e, c>> \in m.links
        <5> DEFINE l == <<e, t>>
        <5>1. l \in w.links /\ l[2] = a /\ l[1] = e
          BY <2>3, <3>1
        <5>2. CASE <<e, c>> \in w.links
          BY <1>1, <5>2 DEF RepointLinks
        <5>3. CASE <<e, c>> \notin w.links
          BY <1>1, <5>1, <5>3 DEF RepointLinks
        <5> QED BY <5>2, <5>3
      <4> QED BY <2>1, <3>1, <4>1
    <3>2. CASE t # a
      <4>1. <<e, t>> \in m.links
        BY <1>1, <2>3, <3>2 DEF RepointLinks
      <4> QED BY <4>1
    <3> QED BY <3>1, <3>2
  <2>4. SameMatches(w.rows, m.rows) /\ Coarser(w.rows, m.rows) /\ LedOn(m.rows, e, w.links, m.links)
    BY <1>2, <1>7, <2>2, <2>3 DEF SameMatches, Coarser, LedOn
  <2> QED BY <1>9, <2>4, HeldMerged
<1> QED BY <1>2, <1>5, <1>6, <1>7, <1>8, <1>9

(* What a merge, of one name or of several, does to the tables.             *)
TagsMerged(w, m) ==
  /\ TagRowsOK(m.rows) /\ LinksOK(m.rows, m.links) /\ SameMatches(w.rows, m.rows)
  /\ Flat(m.rows) =>
       /\ Flat(w.rows)
       /\ \A e, n : Hits(w.rows, SanitizedName[n]) /\ Held(w.rows, w.links, e, n)
                      => Held(m.rows, m.links, e, n)

(* So does the merge of one name of a call, which may be skipped.           *)
LEMMA MergeNameKeeps ==
  ASSUME NEW w, TagRowsOK(w.rows), LinksOK(w.rows, w.links), NEW n, NEW c \in DOMAIN w.rows,
         NEW m, m = MergeName(w, n, c)
  PROVE  TagsMerged(w, m)
<1> DEFINE alias == ResolveTagId(w.rows, n)
           hits == {i \in DOMAIN w.rows : w.rows[i].name = n}
<1>1. CASE alias \in {NoTag, c}
  <2>1. m = w
    BY <1>1 DEF MergeName
  <2> QED BY <2>1 DEF TagsMerged, SameMatches
<1>2. CASE alias \notin {NoTag, c}
  <2>1. m = MergeInto(w, alias, c)
    BY <1>2 DEF MergeName
  <2>2. hits # {} /\ alias = OneHop(w.rows, FirstRow(hits))
    BY <1>2 DEF ResolveTagId
  <2>3. hits \in SUBSET Nat /\ hits \subseteq DOMAIN w.rows
    BY RowForIs
  <2> HIDE DEF hits, alias
  <2>4. FirstRow(hits) \in DOMAIN w.rows
    BY <2>2, <2>3, FirstRowIs
  <2>5. alias # c
    BY <1>2
  <2>6. /\ TagRowsOK(m.rows) /\ LinksOK(m.rows, m.links) /\ DOMAIN m.rows = DOMAIN w.rows
        /\ \A q : MatchingRows(m.rows, q) = MatchingRows(w.rows, q)
        /\ Flat(m.rows) =>
             /\ Flat(w.rows)
             /\ \A e, q : Hits(w.rows, SanitizedName[q]) /\ Held(w.rows, w.links, e, q)
                            => Held(m.rows, m.links, e, q)
    BY <2>1, <2>2, <2>4, <2>5, MergeKeeps
  <2> QED BY <2>6 DEF TagsMerged, SameMatches
<1> QED BY <1>1, <1>2

(* One merge after the other.                                               *)
LEMMA MergedOn ==
  ASSUME NEW a, NEW b, NEW c, TagsMerged(a, b), TagsMerged(b, c) PROVE TagsMerged(a, c)
<1>1. SameMatches(a.rows, c.rows)
  BY DEF TagsMerged, SameMatches
<1>2. ASSUME Flat(c.rows), NEW e, NEW n, Hits(a.rows, SanitizedName[n]), Held(a.rows, a.links, e, n)
      PROVE  Held(c.rows, c.links, e, n)
  <2>1. Flat(b.rows)
    BY <1>2 DEF TagsMerged
  <2>2. Held(b.rows, b.links, e, n) /\ Hits(b.rows, SanitizedName[n])
    BY <1>2, <2>1 DEF TagsMerged, SameMatches, Hits
  <2> QED BY <1>2, <2>2 DEF TagsMerged
<1> QED BY <1>1, <1>2 DEF TagsMerged

-----------------------------------------------------------------------------
(* The maintenance pass.                                                    *)

Unified(rows) ==
  [i \in DOMAIN rows |-> IF HeuristicTarget(rows, i) = i
                         THEN rows[i] ELSE [rows[i] EXCEPT !.canon = HeuristicTarget(rows, i)]]

Led(rows, ls) == {<<l[1], HeuristicTarget(rows, l[2])>> : l \in ls}

(* The target of a canonical row is the first canonical row of its form.    *)
LEMMA TargetIs ==
  ASSUME NEW rows, TagRowsOK(rows), NEW i \in DOMAIN rows, NEW t, t = HeuristicTarget(rows, i)
  PROVE  /\ t \in DOMAIN rows /\ HeuristicTarget(rows, t) = t
         /\ rows[i].canon # NoTag => t = i
         /\ rows[i].canon = NoTag => rows[t].canon = NoTag /\ NormalForm[rows[t].name] = NormalForm[rows[i].name]
<1>1. CASE rows[i].canon # NoTag
  BY <1>1 DEF HeuristicTarget
<1>2. CASE rows[i].canon = NoTag
  <2> DEFINE G == {j \in DOMAIN rows :
                     rows[j].canon = NoTag /\ NormalForm[rows[j].name] = NormalForm[rows[i].name]}
             H == {j \in DOMAIN rows :
                     rows[j].canon = NoTag /\ NormalForm[rows[j].name] = NormalForm[rows[t].name]}
  <2>1. t = FirstRow(G) /\ i \in G
    BY <1>2 DEF HeuristicTarget
  <2>2. G \in SUBSET Nat
    BY RowForIs
  <2>3. t \in G
    <3> HIDE DEF G
    <3> QED BY <2>1, <2>2, FirstRowIs
  <2>4. H = G
    BY <2>3
  <2>5. HeuristicTarget(rows, t) = FirstRow(H)
    BY <2>3 DEF HeuristicTarget
  <2> QED BY <1>2, <2>1, <2>3, <2>4, <2>5
<1> QED BY <1>1, <1>2

(* A pass leaves a sound table with one canonical row per normal form, and  *)
(* every link in its class.                                                 *)
LEMMA PassKeeps ==
  ASSUME NEW w, TagRowsOK(w.rows), LinksOK(w.rows, w.links),
         NEW m, m.rows = Unified(w.rows), m.links = Led(w.rows, w.links)
  PROVE  TagsMerged(w, m) /\ OnePerForm(m.rows)
<1> DEFINE T(i) == HeuristicTarget(w.rows, i)
<1>0. w.rows \in Seq(TagRow) /\ DOMAIN w.rows \in SUBSET Nat /\ NoTag \notin DOMAIN w.rows
  BY RowForIs DEF TagRowsOK
<1>t. ASSUME NEW i \in DOMAIN w.rows
      PROVE  /\ T(i) \in DOMAIN w.rows /\ T(T(i)) = T(i)
             /\ w.rows[i].canon # NoTag => T(i) = i
             /\ w.rows[i].canon = NoTag =>
                  w.rows[T(i)].canon = NoTag /\ NormalForm[w.rows[T(i)].name] = NormalForm[w.rows[i].name]
  BY TargetIs
<1>1. /\ DOMAIN m.rows = DOMAIN w.rows
      /\ \A i \in DOMAIN w.rows : T(i) = i => m.rows[i] = w.rows[i]
      /\ \A i \in DOMAIN w.rows : T(i) # i => m.rows[i] = [w.rows[i] EXCEPT !.canon = T(i)]
  BY DEF Unified
<1>f. \A i, j \in DOMAIN w.rows :
        w.rows[i].canon = NoTag /\ w.rows[j].canon = NoTag
        /\ NormalForm[w.rows[i].name] = NormalForm[w.rows[j].name] => T(i) = T(j)
  BY DEF HeuristicTarget
<1> HIDE DEF T
<1>2. ASSUME NEW i \in DOMAIN w.rows
      PROVE  /\ m.rows[i] \in TagRow /\ m.rows[i].name = w.rows[i].name
             /\ m.rows[i].canon = IF T(i) = i THEN w.rows[i].canon ELSE T(i)
  <2>1. w.rows[i] \in TagRow
    BY <1>0
  <2>2. T(i) \in Nat
    BY <1>0, <1>t
  <2>3. CASE T(i) = i
    BY <1>1, <2>1, <2>3
  <2>4. CASE T(i) # i
    <3>1. m.rows[i] = [w.rows[i] EXCEPT !.canon = T(i)]
      BY <1>1, <2>4
    <3> QED BY <2>1, <2>2, <2>4, <3>1 DEF TagRow
  <2> QED BY <2>3, <2>4
<1>3. TagRowsOK(m.rows)
  <2>1. DOMAIN w.rows = 1..Len(w.rows) /\ Len(w.rows) \in Nat
    BY <1>0
  <2>2. m.rows \in [1..Len(w.rows) -> TagRow]
    <3>1. m.rows = [i \in DOMAIN w.rows |-> m.rows[i]]
      BY DEF Unified
    <3> QED BY <1>2, <2>1, <3>1
  <2>3. m.rows \in Seq(TagRow)
    BY <2>1, <2>2
  <2>4. ASSUME NEW i \in DOMAIN m.rows
        PROVE  m.rows[i].canon \in {NoTag} \cup DOMAIN m.rows /\ m.rows[i].canon # i
    BY <1>1, <1>2, <1>t DEF TagRowsOK
  <2>5. \A i, j \in DOMAIN m.rows : m.rows[i].name = m.rows[j].name => i = j
    BY <1>1, <1>2 DEF TagRowsOK
  <2>6. \A i \in DOMAIN m.rows : NormalForm[SanitizedName[m.rows[i].name]] = NormalForm[m.rows[i].name]
    BY <1>1, <1>2 DEF TagRowsOK
  <2> QED BY <2>3, <2>4, <2>5, <2>6 DEF TagRowsOK
<1>4. LinksOK(m.rows, m.links)
  <2> SUFFICES ASSUME NEW l \in m.links PROVE l \in TaggedMemories \X Nat /\ l[2] \in DOMAIN m.rows
    BY DEF LinksOK
  <2>1. PICK h \in w.links : l = <<h[1], T(h[2])>>
    BY DEF Led, T
  <2>2. h[1] \in TaggedMemories /\ h[2] \in DOMAIN w.rows
    BY DEF LinksOK
  <2>3. T(h[2]) \in DOMAIN w.rows
    BY <1>t, <2>2
  <2> QED BY <1>0, <1>1, <2>1, <2>2, <2>3
<1>5. SameMatches(w.rows, m.rows)
  BY <1>1, <1>2, SameNamesMatch DEF SameMatches
<1>6. OnePerForm(m.rows)
  <2> SUFFICES ASSUME NEW i \in CanonicalTags(m.rows), NEW j \in CanonicalTags(m.rows),
                      NormalForm[m.rows[i].name] = NormalForm[m.rows[j].name]
               PROVE  i = j
    BY DEF OnePerForm
  <2>1. i \in DOMAIN w.rows /\ j \in DOMAIN w.rows /\ m.rows[i].canon = NoTag /\ m.rows[j].canon = NoTag
    BY <1>1 DEF CanonicalTags
  <2>2. T(i) = i /\ T(j) = j
    BY <1>0, <1>2, <1>t, <2>1
  <2>3. w.rows[i].canon = NoTag /\ w.rows[j].canon = NoTag
    BY <1>2, <2>1, <2>2
  <2>4. NormalForm[w.rows[i].name] = NormalForm[w.rows[j].name]
    BY <1>2, <2>1
  <2> QED BY <1>f, <2>1, <2>2, <2>3, <2>4
<1>7. ASSUME Flat(m.rows)
      PROVE  /\ Flat(w.rows) /\ Coarser(w.rows, m.rows)
             /\ \A e : LedOn(m.rows, e, w.links, m.links)
  <2>1. ASSUME NEW i \in DOMAIN w.rows, m.rows[i].canon = NoTag
        PROVE  T(i) = i /\ w.rows[i].canon = NoTag /\ OneHop(m.rows, i) = i
    <3>1. T(i) = i
      BY <1>0, <1>2, <1>t, <2>1
    <3> QED BY <1>2, <2>1, <3>1 DEF OneHop
  <2>2. ASSUME NEW i \in DOMAIN w.rows, w.rows[i].canon # NoTag
        PROVE  /\ OneHop(m.rows, i) = OneHop(w.rows, i) /\ T(i) = i
               /\ OneHop(w.rows, i) \in DOMAIN w.rows
               /\ w.rows[OneHop(w.rows, i)].canon = NoTag
               /\ T(OneHop(w.rows, i)) = OneHop(w.rows, i)
    <3>1. T(i) = i
      BY <1>t, <2>2
    <3>2. OneHop(m.rows, i) = OneHop(w.rows, i)
      BY <1>2, <3>1 DEF OneHop
    <3>3. OneHop(w.rows, i) \in DOMAIN w.rows
      BY HopIsRow
    <3>4. m.rows[OneHop(w.rows, i)].canon = NoTag
      BY <1>1, <1>7, <3>2 DEF Flat, CanonicalTags
    <3> QED BY <2>1, <3>1, <3>2, <3>3, <3>4
  <2>3. ASSUME NEW i \in DOMAIN w.rows, w.rows[i].canon = NoTag
        PROVE  OneHop(w.rows, i) = i /\ OneHop(m.rows, i) = T(i) /\ OneHop(m.rows, T(i)) = T(i)
    <3>1. OneHop(w.rows, i) = i
      BY <2>3 DEF OneHop
    <3>2. OneHop(m.rows, i) = T(i)
      <4>1. CASE T(i) = i
        BY <1>2, <2>3, <4>1 DEF OneHop
      <4>2. CASE T(i) # i
        BY <1>0, <1>2, <1>t, <4>2 DEF OneHop
      <4> QED BY <4>1, <4>2
    <3>3. m.rows[T(i)].canon = NoTag
      BY <1>2, <1>t, <2>3
    <3> QED BY <3>1, <3>2, <3>3 DEF OneHop
  <2>4. \A i \in DOMAIN w.rows : OneHop(w.rows, i) \in DOMAIN w.rows /\ OneHop(m.rows, i) = T(OneHop(w.rows, i))
    BY <2>2, <2>3, HopIsRow
  <2>5. Flat(w.rows)
    <3> SUFFICES ASSUME NEW i \in DOMAIN w.rows PROVE OneHop(w.rows, i) \in CanonicalTags(w.rows)
      BY DEF Flat
    <3> QED BY <2>2, <2>3 DEF CanonicalTags
  <2>6. Coarser(w.rows, m.rows)
    BY <2>4 DEF Coarser
  <2>7. ASSUME NEW e, NEW t \in DOMAIN m.rows, <<e, t>> \in w.links
        PROVE  \E u \in DOMAIN m.rows : <<e, u>> \in m.links /\ OneHop(m.rows, u) = OneHop(m.rows, t)
    <3>1. t \in DOMAIN w.rows /\ T(t) \in DOMAIN m.rows
      BY <1>1, <1>t, <2>7
    <3>2. <<e, T(t)>> \in m.links
      <4> DEFINE l == <<e, t>>
      <4>1. l \in w.links /\ l[1] = e /\ l[2] = t
        BY <2>7
      <4>2. <<l[1], HeuristicTarget(w.rows, l[2])>> \in m.links
        BY <4>1 DEF Led
      <4> QED BY <4>1, <4>2 DEF T
    <3>3. OneHop(m.rows, T(t)) = OneHop(m.rows, t)
      BY <2>2, <2>3, <3>1
    <3> QED BY <3>1, <3>2, <3>3
  <2> QED BY <2>5, <2>6, <2>7 DEF LedOn
<1>8. ASSUME Flat(m.rows), NEW e, NEW n, Hits(w.rows, SanitizedName[n]), Held(w.rows, w.links, e, n)
      PROVE  Held(m.rows, m.links, e, n)
  <2>1. Coarser(w.rows, m.rows) /\ LedOn(m.rows, e, w.links, m.links)
    BY <1>7, <1>8
  <2> QED BY <1>5, <1>8, <2>1, HeldMerged
<1> QED BY <1>3, <1>4, <1>5, <1>6, <1>7, <1>8 DEF TagsMerged

-----------------------------------------------------------------------------
(* Chains of aliases.                                                       *)

Hopped(rows, S) == S \cup {OneHop(rows, j) : j \in S}

(* A growing chain of subsets of a table closes within the table's length.  *)
LEMMA ChainCloses ==
  ASSUME NEW rows, TagRowsOK(rows), NEW i \in DOMAIN rows, NEW f \in [0..Len(rows) -> SUBSET DOMAIN rows],
         f[0] = {i}, \A k \in 1..Len(rows) : f[k] = Hopped(rows, f[k - 1])
  PROVE  \A j \in f[Len(rows)] : OneHop(rows, j) \in f[Len(rows)]
<1> DEFINE n == Len(rows)
           Closed(S) == \A j \in S : OneHop(rows, j) \in S
<1>0. n \in Nat /\ DOMAIN rows = 1..n
  BY DEF TagRowsOK
<1> HIDE DEF n
<1>f. f \in [0..n -> SUBSET (1..n)] /\ f[0] = {i} /\ \A k \in 1..n : f[k] = Hopped(rows, f[k - 1])
  BY <1>0 DEF n
<1>1. SUFFICES ASSUME ~Closed(f[n]) PROVE FALSE
  BY DEF n
<1>2. ASSUME NEW k \in 0..n PROVE ~Closed(f[k])
  <2> DEFINE In == {x \in 0..n : k <= x => Closed(f[x])}
  <2>1. SUFFICES ASSUME Closed(f[k]) PROVE FALSE
    OBVIOUS
  <2>2. 0 \in In
    <3>1. k <= 0 => k = 0
      OBVIOUS
    <3> QED BY <1>0, <2>1, <3>1
  <2>3. ASSUME NEW x \in 1..n, x - 1 \in In PROVE x \in In
    <3>1. x \in 0..n /\ x - 1 \in 0..n /\ (k <= x => x = k \/ k <= x - 1)
      BY <1>0
    <3>2. ASSUME k <= x - 1 PROVE Closed(f[x])
      <4>1. Closed(f[x - 1])
        BY <2>3, <3>2
      <4>2. f[x] = f[x - 1]
        <5>1. f[x] = Hopped(rows, f[x - 1])
          BY <1>f
        <5>2. {OneHop(rows, j) : j \in f[x - 1]} \subseteq f[x - 1]
          BY <4>1
        <5> QED BY <5>1, <5>2 DEF Hopped
      <4> QED BY <4>1, <4>2
    <3> HIDE DEF Closed
    <3> QED BY <2>1, <3>1, <3>2
  <2>4. n \in In
    <3> HIDE DEF In
    <3>1. \A x \in 0..n : x \in In
      BY <1>0, <2>2, <2>3, StepByStep
    <3> QED BY <1>0, <3>1
  <2> HIDE DEF Closed
  <2> QED BY <1>0, <1>1, <2>4
<1> DEFINE Big == {x \in 0..n : IsFiniteSet(f[x]) /\ Cardinality(f[x]) \in Nat /\ Cardinality(f[x]) >= x + 1}
<1>3. IsFiniteSet(1..n) /\ Cardinality(1..n) = n
  BY <1>0, FS_Interval
<1>4. ASSUME NEW x \in 0..n PROVE IsFiniteSet(f[x]) /\ Cardinality(f[x]) \in Nat /\ Cardinality(f[x]) <= n
  <2>1. f[x] \in SUBSET (1..n)
    BY <1>f
  <2> HIDE DEF n
  <2>2. IsFiniteSet(f[x]) /\ Cardinality(f[x]) <= Cardinality(1..n)
    BY <1>3, <2>1, FS_Subset
  <2>3. Cardinality(f[x]) \in Nat
    BY <2>2, FS_CardinalityType
  <2> QED BY <1>3, <2>2, <2>3
<1>5. 0 \in Big
  <2>1. Cardinality(f[0]) = 1
    BY <1>f, FS_Singleton
  <2>2. 0 \in 0..n
    BY <1>0
  <2>3. IsFiniteSet(f[0])
    BY <1>4, <2>2, Zenon
  <2>4. 1 \in Nat /\ 1 >= 0 + 1
    OBVIOUS
  <2> QED BY <2>1, <2>2, <2>3, <2>4
<1>6. ASSUME NEW x \in 1..n, x - 1 \in Big PROVE x \in Big
  <2>1. x \in 0..n /\ x - 1 \in 0..n /\ x \in Nat
    BY <1>0
  <2>2. ~Closed(f[x - 1]) /\ f[x] = Hopped(rows, f[x - 1])
    BY <1>2, <1>f, <2>1
  <2>3. f[x - 1] \subseteq f[x] /\ f[x - 1] # f[x]
    BY <2>2 DEF Hopped
  <2>4. Cardinality(f[x - 1]) < Cardinality(f[x])
    <3> DEFINE S == f[x - 1]
               U == f[x]
    <3>1. IsFiniteSet(S) /\ IsFiniteSet(U) /\ S \subseteq U /\ S # U
      BY <1>4, <2>1, <2>3
    <3> HIDE DEF S, U
    <3>2. Cardinality(S) < Cardinality(U)
      BY <3>1, FS_Subset, FS_CardinalityType
    <3> QED BY <3>2 DEF S, U
  <2>5. Cardinality(f[x - 1]) \in Nat /\ Cardinality(f[x - 1]) >= (x - 1) + 1
    BY <1>6
  <2>6. IsFiniteSet(f[x]) /\ Cardinality(f[x]) \in Nat
    BY <1>4, <2>1
  <2>7. Cardinality(f[x]) >= x + 1
    BY <2>1, <2>4, <2>5, <2>6
  <2> QED BY <2>1, <2>6, <2>7
<1>7. n \in Big
  <2> HIDE DEF Big
  <2>1. \A x \in 0..n : x \in Big
    BY <1>0, <1>5, <1>6, StepByStep
  <2> QED BY <1>0, <2>1
<1>8. n \in 0..n /\ Cardinality(f[n]) <= n /\ Cardinality(f[n]) \in Nat /\ Cardinality(f[n]) >= n + 1
  BY <1>0, <1>4, <1>7
<1> QED BY <1>0, <1>8

(* The chain of a row is the least set that holds it and is closed under    *)
(* following aliases.                                                       *)
LEMMA ChainIs ==
  ASSUME NEW rows, TagRowsOK(rows), NEW i \in DOMAIN rows
  PROVE  /\ i \in ChainOf(rows, i) /\ ChainOf(rows, i) \subseteq DOMAIN rows
         /\ \A j \in ChainOf(rows, i) : OneHop(rows, j) \in ChainOf(rows, i)
         /\ \A S : i \in S /\ (\A j \in S \cap DOMAIN rows : OneHop(rows, j) \in S) => ChainOf(rows, i) \subseteq S
<1> DEFINE n == Len(rows)
           V == SUBSET DOMAIN rows
           Rec(f) == [k \in 0..Len(rows) |->
                        IF k = 0 THEN {i} ELSE f[k - 1] \cup {OneHop(rows, j) : j \in f[k - 1]}]
           G == [k \in 1..n |-> [S \in V |-> Hopped(rows, S)]]
<1>0. n \in Nat
  BY DEF TagRowsOK
<1>1. \A S \in V : Hopped(rows, S) \in V
  BY HopIsRow DEF Hopped
<1>2. G \in [1..n -> [V -> V]] /\ {i} \in V
  BY <1>1
<1>3. PICK f : IteratesTo(f, n, V, {i}, G)
  <2> HIDE DEF G, V, n
  <2> QED BY <1>0, <1>2, StepsExist
<1>4. f \in [0..n -> V] /\ f[0] = {i} /\ \A k \in 1..n : f[k] = Hopped(rows, f[k - 1])
  <2>1. f \in [0..n -> V] /\ f[0] = {i} /\ \A k \in 1..n : f[k] = G[k][f[k - 1]]
    BY <1>3 DEF IteratesTo
  <2>2. ASSUME NEW k \in 1..n PROVE f[k] = Hopped(rows, f[k - 1])
    <3>1. k - 1 \in 0..n
      BY <1>0
    <3>2. f[k - 1] \in V
      BY <2>1, <3>1
    <3> QED BY <2>1, <3>2
  <2> QED BY <2>1, <2>2
<1>5. f = Rec(f)
  BY <1>0, <1>4 DEF Hopped
<1>6. \A h : h = Rec(h) => \A k \in 0..n : (k = 0 => h[k] = {i}) /\ (k # 0 => h[k] = Hopped(rows, h[k - 1]))
  BY DEF Hopped
<1> DEFINE after == CHOOSE h : h = Rec(h)
<1>7. after = Rec(after)
  BY <1>5
<1>8. ChainOf(rows, i) = after[n]
  BY DEF ChainOf
<1> HIDE DEF after, Rec, n
<1>9. after[0] = {i} /\ \A k \in 1..n : after[k] = Hopped(rows, after[k - 1])
  <2>1. 0 \in 0..n /\ \A k \in 1..n : k \in 0..n /\ k # 0
    BY <1>0
  <2>2. \A k \in 0..n : (k = 0 => after[k] = {i}) /\ (k # 0 => after[k] = Hopped(rows, after[k - 1]))
    BY <1>6, <1>7, Zenon
  <2> QED BY <1>0, <2>1, <2>2
<1> DEFINE Same == {k \in 0..n : after[k] = f[k]}
<1>10. 0 \in Same
  <2>1. 0 \in 0..n
    BY <1>0
  <2>2. after[0] = f[0]
    BY <1>4, <1>9, Zenon
  <2> QED BY <2>1, <2>2
<1>11. ASSUME NEW k \in 1..n, k - 1 \in Same PROVE k \in Same
  <2>1. after[k - 1] = f[k - 1] /\ k \in 0..n
    BY <1>0, <1>11
  <2> QED BY <1>4, <1>9, <2>1
<1>12. ChainOf(rows, i) = f[n]
  <2>1. n \in Same
    <3> HIDE DEF Same
    <3>1. \A k \in 0..n : k \in Same
      BY <1>0, <1>10, <1>11, StepByStep
    <3> QED BY <1>0, <3>1
  <2> QED BY <1>8, <2>1
<1>13. \A j \in f[n] : OneHop(rows, j) \in f[n]
  BY <1>4, ChainCloses DEF n
<1>14. f[n] \subseteq DOMAIN rows
  BY <1>0, <1>4
<1>15. i \in f[n]
  <2> DEFINE In == {k \in 0..n : i \in f[k]}
  <2>1. 0 \in In
    BY <1>0, <1>4
  <2>2. ASSUME NEW k \in 1..n, k - 1 \in In PROVE k \in In
    <3>1. f[k] = Hopped(rows, f[k - 1]) /\ k \in 0..n /\ i \in f[k - 1]
      BY <1>0, <1>4, <2>2
    <3> QED BY <3>1 DEF Hopped
  <2>3. n \in In
    <3> HIDE DEF In
    <3>1. \A k \in 0..n : k \in In
      BY <1>0, <2>1, <2>2, StepByStep
    <3> QED BY <1>0, <3>1
  <2> QED BY <2>3
<1>16. ASSUME NEW S, i \in S, \A j \in S \cap DOMAIN rows : OneHop(rows, j) \in S PROVE f[n] \subseteq S
  <2> DEFINE In == {k \in 0..n : f[k] \subseteq S}
  <2>1. 0 \in In
    BY <1>0, <1>4, <1>16
  <2>2. ASSUME NEW k \in 1..n, k - 1 \in In PROVE k \in In
    <3>1. f[k] = Hopped(rows, f[k - 1]) /\ k \in 0..n /\ k - 1 \in 0..n /\ f[k - 1] \subseteq S
      BY <1>0, <1>4, <2>2
    <3>2. f[k - 1] \subseteq DOMAIN rows
      BY <1>4, <3>1
    <3>3. f[k] \subseteq S
      BY <1>16, <3>1, <3>2 DEF Hopped
    <3> QED BY <3>1, <3>3
  <2>3. n \in In
    <3> HIDE DEF In
    <3>1. \A k \in 0..n : k \in In
      BY <1>0, <2>1, <2>2, StepByStep
    <3> QED BY <1>0, <3>1
  <2> QED BY <2>3
<1> QED BY <1>12, <1>13, <1>14, <1>15, <1>16

(* A row that led to a canonical row leads to one after a pass.             *)
LEMMA PassHidesNone ==
  ASSUME NEW rows, TagRowsOK(rows), NEW b, b = Unified(rows), TagRowsOK(b), NEW i \in DOMAIN rows,
         ChainOf(rows, i) \cap CanonicalTags(rows) # {}
  PROVE  ChainOf(b, i) \cap CanonicalTags(b) # {}
<1> DEFINE C == ChainOf(rows, i)
           D == ChainOf(b, i)
           T(x) == HeuristicTarget(rows, x)
<1>0. DOMAIN b = DOMAIN rows /\ NoTag \notin DOMAIN rows
  BY RowForIs DEF Unified
<1>1. /\ \A S : i \in S /\ (\A j \in S \cap DOMAIN rows : OneHop(rows, j) \in S) => C \subseteq S
  BY ChainIs
<1>2. i \in D /\ D \subseteq DOMAIN rows /\ \A j \in D : OneHop(b, j) \in D
  BY <1>0, ChainIs
<1> HIDE DEF C, D
<1>3. SUFFICES ASSUME D \cap CanonicalTags(b) = {} PROVE FALSE
  BY DEF D
<1>4. ASSUME NEW j \in D PROVE rows[j].canon # NoTag /\ OneHop(b, j) = OneHop(rows, j)
  <2>0. j \in DOMAIN rows /\ b[j].canon # NoTag /\ rows[j] \in TagRow
    BY <1>0, <1>2, <1>3 DEF CanonicalTags, TagRowsOK
  <2>t. /\ T(j) \in DOMAIN rows /\ T(T(j)) = T(j)
        /\ rows[j].canon # NoTag => T(j) = j
        /\ rows[j].canon = NoTag => rows[T(j)].canon = NoTag
    BY <2>0, TargetIs
  <2>1. rows[j].canon # NoTag
    <3> SUFFICES ASSUME rows[j].canon = NoTag PROVE FALSE
      OBVIOUS
    <3>1. T(j) # j
      <4> SUFFICES ASSUME T(j) = j PROVE FALSE
        OBVIOUS
      <4>1. b[j] = rows[j]
        BY <2>0 DEF Unified
      <4> QED BY <2>0, <4>1
    <3>2. b[j] = [rows[j] EXCEPT !.canon = T(j)]
      BY <2>0, <3>1 DEF Unified
    <3>3. b[j].canon = T(j)
      BY <2>0, <3>2 DEF TagRow
    <3>4. OneHop(b, j) = T(j)
      BY <2>0, <3>3 DEF OneHop
    <3>5. T(j) \in D
      BY <1>2, <3>4
    <3>6. b[T(j)] = rows[T(j)]
      BY <2>t DEF Unified
    <3> QED BY <1>0, <1>3, <2>t, <3>5, <3>6 DEF CanonicalTags
  <2>2. b[j] = rows[j]
    BY <2>0, <2>1, <2>t DEF Unified
  <2> QED BY <2>1, <2>2 DEF OneHop
<1>5. C \subseteq D
  BY <1>1, <1>2, <1>4
<1> QED BY <1>4, <1>5 DEF C, CanonicalTags

(* What the invariant holds of a memory, a search by the tag's name finds.  *)
LEMMA HeldIsFound ==
  ASSUME TagInv, NoAliasChains, NEW e \in Written, NEW n \in submitted[e]
  PROVE  MeetsCore(RowOfName(n)) \/ e \in FoundByTag(tagRows[RowOfName(n)].name)
<1> DEFINE i == RowOfName(n)
<1>0. TagRowsOK(tagRows) /\ Flat(tagRows) /\ e \in TaggedMemories /\ n \in TagNames /\ Hits(tagRows, SanitizedName[n])
  BY DEF TagInv, SubmittedOK, Written, NoAliasChains, Flat
<1>1. i = RowFor(tagRows, SanitizedName[n]) /\ i \in DOMAIN tagRows
  BY <1>0, RowForIs DEF RowOfName, RowFor
<1>2. Held(tagRows, links, e, n)
  BY <1>0 DEF TagInv, AllHeld, Written
<1> HIDE DEF i
<1>3. CASE CoreClass(tagRows, i)
  <2> DEFINE c == RowFor(tagRows, CoreName)
  <2>1. Hits(tagRows, CoreName) /\ OneHop(tagRows, i) = OneHop(tagRows, c) /\ c \in DOMAIN tagRows
    BY <1>0, <1>3, RowForIs DEF CoreClass
  <2> HIDE DEF c
  <2>2. OneHop(tagRows, i) \in ChainOf(tagRows, i) /\ OneHop(tagRows, c) \in ChainOf(tagRows, c)
    BY <1>0, <1>1, <2>1, ChainIs
  <2>3. MeetsCore(i)
    BY <2>1, <2>2 DEF MeetsCore, Hits, RowFor, c
  <2> QED BY <2>3 DEF i
<1>4. CASE ~CoreClass(tagRows, i)
  <2>1. PICK t \in DOMAIN tagRows : <<e, t>> \in links /\ OneHop(tagRows, t) = OneHop(tagRows, i)
    BY <1>1, <1>2, <1>4 DEF Held
  <2> DEFINE main == OneHop(tagRows, i)
             class == {i, main} \cup {j \in DOMAIN tagRows : tagRows[j].canon = main}
  <2>2. t \in class
    BY <2>1 DEF OneHop
  <2>3. class \subseteq ExpandSearchTag(tagRows, tagRows[i].name)
    BY <1>1 DEF ExpandSearchTag
  <2>4. e \in FoundByTag(tagRows[i].name)
    BY <1>0, <2>1, <2>2, <2>3 DEF FoundByTag
  <2> QED BY <2>4 DEF i
<1> QED BY <1>3, <1>4

-----------------------------------------------------------------------------
(* The jobs of the writer.                                                  *)

(* A job leaves the invariant if it grows the table, keeps the links of the *)
(* other memories, and holds what the memory it writes was given.           *)
LEMMA WriteKeeps ==
  ASSUME TagInv, NEW e \in TaggedMemories, TagRowsOK(tagRows'), LinksOK(tagRows', links'),
         TagsGrow(tagRows, tagRows'), isCore' \in [TaggedMemories -> BOOLEAN], CoreLinkFollowsFlag',
         lastOp' # "pass",
         \A x, t : x # e /\ <<x, t>> \in links => <<x, t>> \in links',
         DOMAIN submitted' \subseteq DOMAIN submitted \cup {e},
         \A x \in DOMAIN submitted' : x # e => submitted'[x] = submitted[x],
         e \in DOMAIN submitted' => \A n \in submitted'[e] : n \in TagNames /\ Hits(tagRows', SanitizedName[n]),
         e \in DOMAIN submitted' /\ Flat(tagRows') =>
            \A n \in submitted'[e] : Held(tagRows', links', e, n)
  PROVE  TagInv'
<1>1. TagRowsOK(tagRows) /\ SubmittedOK(tagRows, submitted)
  BY DEF TagInv
<1>2. ASSUME NEW x \in DOMAIN submitted', x # e, NEW n \in submitted'[x]
      PROVE  x \in DOMAIN submitted /\ n \in submitted[x] /\ n \in TagNames /\ SanitizedName[n] \in TagNames
             /\ Hits(tagRows, SanitizedName[n])
  <2>1. x \in DOMAIN submitted /\ n \in submitted[x]
    BY <1>2
  <2>2. n \in TagNames /\ Hits(tagRows, SanitizedName[n])
    BY <1>1, <2>1 DEF SubmittedOK
  <2> QED BY <2>1, <2>2, TagAssumption
<1>3. SubmittedOK(tagRows', submitted')
  <2>1. DOMAIN submitted' \subseteq TaggedMemories
    BY <1>1 DEF SubmittedOK
  <2>2. ASSUME NEW x \in DOMAIN submitted', NEW n \in submitted'[x]
        PROVE  n \in TagNames /\ Hits(tagRows', SanitizedName[n])
    <3>1. CASE x = e
      BY <3>1
    <3>2. CASE x # e
      BY <1>2, <3>2 DEF TagsGrow
    <3> QED BY <3>1, <3>2
  <2> QED BY <2>1, <2>2 DEF SubmittedOK
<1>4. ASSUME Flat(tagRows'), NEW x \in DOMAIN submitted', NEW n \in submitted'[x]
      PROVE  Held(tagRows', links', x, n)
  <2>1. CASE x = e
    BY <1>4, <2>1
  <2>2. CASE x # e
    <3>1. Flat(tagRows)
      BY <1>1, <1>4, GrowHops
    <3>2. Held(tagRows, links, x, n)
      BY <1>2, <2>2, <3>1 DEF TagInv, AllHeld
    <3>3. \A t \in DOMAIN tagRows : <<x, t>> \in links => <<x, t>> \in links'
      BY <2>2
    <3> QED BY <1>1, <1>2, <2>2, <3>2, <3>3, HeldGrows
  <2> QED BY <2>1, <2>2
<1> QED BY <1>3, <1>4 DEF TagInv, AllHeld

(* Storing a memory with tags.                                              *)
LEMMA StoreWithTagsInv ==
  ASSUME TagInv, NEW e \in TaggedMemories, NEW names \in TagLists, NEW core \in BOOLEAN,
         StoreWithTags(e, names, core)
  PROVE  TagInv'
<1> DEFINE old == {l \in links : l[1] # e}
           w0 == LinkNames(tagRows, old, e, names)
           w == SyncCoreTag(w0, e, core)
<1>0. TagRowsOK(tagRows) /\ LinksOK(tagRows, links) /\ SubmittedOK(tagRows, submitted)
  BY DEF TagInv
<1>1. /\ tagRows' = w.rows /\ links' = w.links /\ isCore' = [isCore EXCEPT ![e] = core]
      /\ submitted' = [x \in Written \cup {e} |->
                          IF x = e THEN {names[i] : i \in DOMAIN names} ELSE submitted[x]]
      /\ lastOp' = e
  BY DEF StoreWithTags
<1>2. LinksOK(tagRows, old)
  BY <1>0 DEF LinksOK
<1> HIDE DEF old
<1>3. /\ TagRowsOK(w0.rows) /\ LinksOK(w0.rows, w0.links) /\ TagsGrow(tagRows, w0.rows)
      /\ old \subseteq w0.links
      /\ \A i \in DOMAIN names : names[i] \in TagNames /\ Hits(w0.rows, SanitizedName[names[i]])
      /\ Flat(w0.rows) => \A i \in DOMAIN names : Held(w0.rows, w0.links, e, names[i])
  <2> HIDE DEF w0
  <2>1. \A q : q = w0 =>
          /\ TagRowsOK(q.rows) /\ LinksOK(q.rows, q.links) /\ TagsGrow(tagRows, q.rows)
          /\ old \subseteq q.links
          /\ \A i \in DOMAIN names : names[i] \in TagNames /\ Hits(q.rows, SanitizedName[names[i]])
          /\ Flat(q.rows) => \A i \in DOMAIN names : Held(q.rows, q.links, e, names[i])
    BY <1>0, <1>2, LinkNamesKeeps DEF w0
  <2> QED BY <2>1
<1> HIDE DEF w0
<1>4. /\ TagRowsOK(w.rows) /\ LinksOK(w.rows, w.links) /\ TagsGrow(w0.rows, w.rows)
      /\ (<<e, ResolveOrCreateTag(w.rows, CoreName).id>> \in w.links) <=> core
      /\ \A x, t : x # e /\ <<x, t>> \in w0.links => <<x, t>> \in w.links
      /\ Flat(w.rows) => \A n \in TagNames :
           Hits(w0.rows, SanitizedName[n]) /\ Held(w0.rows, w0.links, e, n) => Held(w.rows, w.links, e, n)
  <2> HIDE DEF w
  <2>1. \A q : q = w =>
          /\ TagRowsOK(q.rows) /\ LinksOK(q.rows, q.links) /\ TagsGrow(w0.rows, q.rows)
          /\ (<<e, ResolveOrCreateTag(q.rows, CoreName).id>> \in q.links) <=> core
          /\ \A x, t : x # e /\ <<x, t>> \in w0.links => <<x, t>> \in q.links
          /\ Flat(q.rows) => \A n \in TagNames :
               Hits(w0.rows, SanitizedName[n]) /\ Held(w0.rows, w0.links, e, n) => Held(q.rows, q.links, e, n)
    BY <1>3, SyncKeeps DEF w
  <2> QED BY <2>1
<1> HIDE DEF w
<1>5. TagsGrow(tagRows, tagRows')
  BY <1>1, <1>3, <1>4, GrowOn
<1>6. isCore' \in [TaggedMemories -> BOOLEAN] /\ isCore'[e] = core
  BY <1>1 DEF TagInv
<1>7. CoreLinkFollowsFlag'
  BY <1>1, <1>4, <1>6 DEF CoreLinkFollowsFlag
<1>8. lastOp' # "pass"
  BY <1>1, TagAssumption
<1>9. \A x, t : x # e /\ <<x, t>> \in links => <<x, t>> \in links'
  <2> SUFFICES ASSUME NEW x, NEW t, x # e, <<x, t>> \in links PROVE <<x, t>> \in links'
    OBVIOUS
  <2>1. <<x, t>> \in old
    BY DEF old
  <2> QED BY <1>1, <1>3, <1>4, <2>1
<1>10. /\ DOMAIN submitted' \subseteq DOMAIN submitted \cup {e}
       /\ \A x \in DOMAIN submitted' : x # e => submitted'[x] = submitted[x]
       /\ submitted'[e] = {names[i] : i \in DOMAIN names}
  BY <1>1 DEF Written
<1>11. ASSUME NEW n \in submitted'[e] PROVE n \in TagNames /\ Hits(tagRows', SanitizedName[n])
  <2>1. PICK i \in DOMAIN names : n = names[i]
    BY <1>10
  <2>2. n \in TagNames /\ Hits(w0.rows, SanitizedName[n]) /\ SanitizedName[n] \in TagNames
    BY <1>3, <2>1, TagAssumption
  <2> QED BY <1>1, <1>4, <2>2 DEF TagsGrow
<1>12. ASSUME Flat(tagRows'), NEW n \in submitted'[e] PROVE Held(tagRows', links', e, n)
  <2>1. PICK i \in DOMAIN names : n = names[i]
    BY <1>10
  <2>2. Flat(w0.rows)
    BY <1>1, <1>3, <1>4, <1>12, GrowHops
  <2>3. n \in TagNames /\ Hits(w0.rows, SanitizedName[n]) /\ Held(w0.rows, w0.links, e, n)
    BY <1>3, <2>1, <2>2
  <2> QED BY <1>1, <1>4, <1>12, <2>3
<1> QED BY <1>1, <1>4, <1>5, <1>6, <1>7, <1>8, <1>9, <1>10, <1>11, <1>12, WriteKeeps

(* Writing a memory without tags.                                           *)
LEMMA StoreWithoutTagsInv ==
  ASSUME TagInv, NEW e \in TaggedMemories, StoreWithoutTags(e) PROVE TagInv'
<1> DEFINE w0 == [rows |-> tagRows, links |-> links]
           w == SyncCoreTag(w0, e, isCore[e])
<1>0. /\ TagRowsOK(tagRows) /\ LinksOK(tagRows, links) /\ SubmittedOK(tagRows, submitted)
      /\ isCore[e] \in BOOLEAN /\ w0.rows = tagRows /\ w0.links = links
  BY DEF TagInv
<1>1. /\ e \in Written /\ tagRows' = w.rows /\ links' = w.links
      /\ isCore' = isCore /\ submitted' = submitted /\ lastOp' = e
  BY DEF StoreWithoutTags
<1> HIDE DEF w0
<1>4. /\ TagRowsOK(w.rows) /\ LinksOK(w.rows, w.links) /\ TagsGrow(w0.rows, w.rows)
      /\ (<<e, ResolveOrCreateTag(w.rows, CoreName).id>> \in w.links) <=> isCore[e]
      /\ \A x, t : x # e /\ <<x, t>> \in w0.links => <<x, t>> \in w.links
      /\ Flat(w.rows) => \A n \in TagNames :
           Hits(w0.rows, SanitizedName[n]) /\ Held(w0.rows, w0.links, e, n) => Held(w.rows, w.links, e, n)
  <2> HIDE DEF w
  <2>0. TagRowsOK(w0.rows) /\ LinksOK(w0.rows, w0.links)
    BY <1>0
  <2>2. \A q : \A core \in BOOLEAN : q = SyncCoreTag(w0, e, core) =>
          /\ TagRowsOK(q.rows) /\ LinksOK(q.rows, q.links) /\ TagsGrow(w0.rows, q.rows)
          /\ (<<e, ResolveOrCreateTag(q.rows, CoreName).id>> \in q.links) <=> core
          /\ \A x, t : x # e /\ <<x, t>> \in w0.links => <<x, t>> \in q.links
          /\ Flat(q.rows) => \A n \in TagNames :
               Hits(w0.rows, SanitizedName[n]) /\ Held(w0.rows, w0.links, e, n) => Held(q.rows, q.links, e, n)
    BY <2>0, SyncKeeps
  <2>3. w = SyncCoreTag(w0, e, isCore[e])
    BY DEF w
  <2> QED BY <1>0, <2>2, <2>3
<1> HIDE DEF w
<1>5. TagsGrow(tagRows, tagRows')
  BY <1>0, <1>1, <1>4
<1>7. CoreLinkFollowsFlag'
  BY <1>1, <1>4 DEF CoreLinkFollowsFlag
<1>8. lastOp' # "pass"
  BY <1>1, TagAssumption
<1>9. \A x, t : x # e /\ <<x, t>> \in links => <<x, t>> \in links'
  BY <1>0, <1>1, <1>4
<1>11. ASSUME NEW n \in submitted[e]
       PROVE n \in TagNames /\ Hits(tagRows, SanitizedName[n]) /\ Hits(tagRows', SanitizedName[n])
  <2>1. n \in TagNames /\ Hits(tagRows, SanitizedName[n]) /\ SanitizedName[n] \in TagNames
    BY <1>0, <1>1, TagAssumption DEF SubmittedOK, Written
  <2> QED BY <1>5, <2>1 DEF TagsGrow
<1>12. ASSUME Flat(tagRows'), NEW n \in submitted[e] PROVE Held(tagRows', links', e, n)
  <2>1. Flat(tagRows)
    BY <1>0, <1>5, <1>12, GrowHops
  <2>2. Held(w0.rows, w0.links, e, n)
    BY <1>0, <1>1, <2>1 DEF TagInv, AllHeld, Written
  <2> QED BY <1>0, <1>1, <1>4, <1>11, <1>12, <2>2
<1>13. isCore' \in [TaggedMemories -> BOOLEAN]
  BY <1>1 DEF TagInv
<1> QED BY <1>1, <1>4, <1>5, <1>7, <1>8, <1>9, <1>11, <1>12, <1>13, WriteKeeps

(* A successor that inherits its predecessor's tags.                        *)
LEMMA ReviseInheritingInv ==
  ASSUME TagInv, NEW e \in TaggedMemories, NEW core \in BOOLEAN, ReviseInheriting(e, core) PROVE TagInv'
<1> DEFINE mine == {l \in links : l[1] = e /\ tagRows[l[2]].name # CoreName}
           fresh == {<<e, ResolveOrCreateTag(tagRows, tagRows[l[2]].name).id>> : l \in mine}
           rest == {l \in links : l[1] # e}
           w == ResolveOrCreateTag(tagRows, CoreName)
<1>0. TagRowsOK(tagRows) /\ LinksOK(tagRows, links) /\ SubmittedOK(tagRows, submitted)
  BY DEF TagInv
<1>1. /\ e \in Written
      /\ links' = rest \cup fresh \cup (IF core THEN {<<e, w.id>>} ELSE {})
      /\ tagRows' = w.rows
      /\ isCore' = [isCore EXCEPT ![e] = core]
      /\ submitted' = [submitted EXCEPT ![e] = {tagRows[l[2]].name : l \in mine}]
      /\ lastOp' = "other"
  BY DEF ReviseInheriting
<1>2. TagRowsOK(w.rows) /\ TagsGrow(tagRows, w.rows) /\ w.id \in DOMAIN w.rows
  <2> HIDE DEF w
  <2>1. CoreName \in TagNames
    BY TagAssumption
  <2>2. \A q : q = w => TagRowsOK(q.rows) /\ TagsGrow(tagRows, q.rows) /\ q.id \in DOMAIN q.rows
    BY <1>0, <2>1, ResolvedIs DEF w
  <2> QED BY <2>2
<1>3. ASSUME NEW l \in mine
      PROVE  /\ l[2] \in DOMAIN tagRows /\ tagRows[l[2]].name \in TagNames
             /\ SanitizedName[tagRows[l[2]].name] \in TagNames
             /\ Hits(tagRows, SanitizedName[tagRows[l[2]].name])
             /\ ResolveOrCreateTag(tagRows, tagRows[l[2]].name).id
                  = OneHop(tagRows, RowFor(tagRows, SanitizedName[tagRows[l[2]].name]))
  <2> DEFINE n == tagRows[l[2]].name
             s == SanitizedName[n]
  <2>1. l[2] \in DOMAIN tagRows
    BY <1>0 DEF LinksOK
  <2>2. n \in TagNames
    <3>1. tagRows \in Seq(TagRow)
      BY <1>0 DEF TagRowsOK
    <3>2. tagRows[l[2]] \in TagRow
      BY <2>1, <3>1
    <3> QED BY <3>2 DEF TagRow
  <2>3. NormalForm[tagRows[l[2]].name] = NormalForm[s]
    BY <1>0, <2>1 DEF TagRowsOK
  <2>4. s \in TagNames
    BY <2>2, TagAssumption
  <2> HIDE DEF s, n
  <2>5. Hits(tagRows, s)
    <3> DEFINE exact == {i \in DOMAIN tagRows : tagRows[i].name = s}
               normal == {i \in DOMAIN tagRows : NormalForm[tagRows[i].name] = NormalForm[s]}
    <3>1. normal # {}
      BY <2>1, <2>3
    <3>2. MatchingRows(tagRows, s) \in {exact, normal} /\ (MatchingRows(tagRows, s) = exact => exact # {} \/ normal = exact)
      <4>1. exact # {} => MatchingRows(tagRows, s) = exact
        BY DEF MatchingRows
      <4>2. exact = {} => MatchingRows(tagRows, s) = normal
        BY <3>1 DEF MatchingRows
      <4> HIDE DEF exact, normal
      <4> QED BY <4>1, <4>2
    <3> HIDE DEF exact, normal
    <3> QED BY <3>1, <3>2 DEF Hits
  <2>6. ResolveOrCreateTag(tagRows, n).id = OneHop(tagRows, RowFor(tagRows, s))
    BY <2>5 DEF ResolveOrCreateTag, Hits, RowFor, s
  <2> QED BY <2>1, <2>2, <2>4, <2>5, <2>6 DEF s, n
<1>4. LinksOK(tagRows', links')
  <2>1. ASSUME NEW l \in mine
        PROVE  ResolveOrCreateTag(tagRows, tagRows[l[2]].name).id \in DOMAIN tagRows
    <3>1. RowFor(tagRows, SanitizedName[tagRows[l[2]].name]) \in DOMAIN tagRows
      BY <1>0, <1>3, RowForIs
    <3> QED BY <1>0, <1>3, <3>1, HopIsRow
  <2>2. DOMAIN tagRows \subseteq DOMAIN tagRows' /\ DOMAIN tagRows' \in SUBSET Nat /\ w.id \in DOMAIN tagRows'
    BY <1>1, <1>2, RowForIs DEF TagsGrow
  <2> HIDE DEF w, mine
  <2>3. \A l \in rest : l \in TaggedMemories \X Nat /\ l[2] \in DOMAIN tagRows'
    BY <1>0, <2>2 DEF LinksOK
  <2>4. \A l \in fresh : l \in TaggedMemories \X Nat /\ l[2] \in DOMAIN tagRows'
    BY <2>1, <2>2
  <2>5. \A l \in (IF core THEN {<<e, w.id>>} ELSE {}) : l \in TaggedMemories \X Nat /\ l[2] \in DOMAIN tagRows'
    BY <2>2
  <2> HIDE DEF rest, fresh
  <2> QED BY <1>1, <2>3, <2>4, <2>5 DEF LinksOK
<1>5. isCore' \in [TaggedMemories -> BOOLEAN]
  BY <1>1 DEF TagInv
<1>6. CoreLinkFollowsFlag' /\ lastOp' # "pass"
  BY <1>1, TagAssumption DEF CoreLinkFollowsFlag
<1>7. \A x, t : x # e /\ <<x, t>> \in links => <<x, t>> \in links'
  <2> SUFFICES ASSUME NEW x, NEW t, x # e, <<x, t>> \in links PROVE <<x, t>> \in links'
    OBVIOUS
  <2>1. <<x, t>> \in rest
    OBVIOUS
  <2> HIDE DEF rest, fresh, w
  <2> QED BY <1>1, <2>1
<1>8. /\ DOMAIN submitted' \subseteq DOMAIN submitted \cup {e}
      /\ \A x \in DOMAIN submitted' : x # e => submitted'[x] = submitted[x]
      /\ submitted'[e] = {tagRows[l[2]].name : l \in mine}
  BY <1>1 DEF Written
<1>9. ASSUME NEW n \in submitted'[e]
      PROVE  /\ n \in TagNames /\ Hits(tagRows', SanitizedName[n])
             /\ Flat(tagRows') => Held(tagRows', links', e, n)
  <2>1. PICK l \in mine : n = tagRows[l[2]].name
    BY <1>8
  <2>2. n \in TagNames /\ SanitizedName[n] \in TagNames /\ Hits(tagRows, SanitizedName[n])
    BY <1>3, <2>1
  <2>3. Hits(tagRows', SanitizedName[n])
    BY <1>1, <1>2, <2>2 DEF TagsGrow
  <2>4. ASSUME Flat(tagRows') PROVE Held(tagRows', links', e, n)
    <3> DEFINE t == OneHop(tagRows, RowFor(tagRows, SanitizedName[n]))
    <3>1. <<e, t>> \in links'
      <4>1. <<e, t>> \in fresh
        BY <1>3, <2>1
      <4> HIDE DEF fresh, rest, w
      <4> QED BY <1>1, <4>1
    <3>2. Flat(tagRows)
      BY <1>0, <1>1, <1>2, <2>4, GrowHops
    <3>3. RowFor(tagRows, SanitizedName[n]) \in DOMAIN tagRows
      BY <1>0, <2>2, RowForIs
    <3>4. t \in DOMAIN tagRows /\ OneHop(tagRows, t) = t
      BY <1>0, <3>2, <3>3, HopIsRow, HopTwice
    <3>5. Held(tagRows, links', e, n)
      BY <3>1, <3>4 DEF Held
    <3> QED BY <1>0, <1>1, <1>2, <2>2, <3>5, HeldGrows
  <2> QED BY <2>2, <2>3, <2>4
<1> HIDE DEF mine, fresh, rest, w
<1> QED BY <1>1, <1>2, <1>4, <1>5, <1>6, <1>7, <1>8, <1>9, WriteKeeps

(* A demotion removes the link to the row #core alone.                      *)
LEMMA DemoteCoreInv ==
  ASSUME TagInv, NEW e \in TaggedMemories, DemoteCore(e) PROVE TagInv'
<1>0. TagRowsOK(tagRows) /\ LinksOK(tagRows, links) /\ SubmittedOK(tagRows, submitted)
  BY DEF TagInv
<1>1. /\ isCore' = [isCore EXCEPT ![e] = FALSE]
      /\ links' = {l \in links : ~(l[1] = e /\ tagRows[l[2]].name = CoreName)}
      /\ lastOp' = "other" /\ tagRows' = tagRows /\ submitted' = submitted
  BY DEF DemoteCore
<1>2. LinksOK(tagRows', links')
  BY <1>0, <1>1 DEF LinksOK
<1>3. isCore' \in [TaggedMemories -> BOOLEAN]
  BY <1>1 DEF TagInv
<1>4. CoreLinkFollowsFlag' /\ lastOp' # "pass"
  BY <1>1, TagAssumption DEF CoreLinkFollowsFlag
<1>5. \A x, t : x # e /\ <<x, t>> \in links => <<x, t>> \in links'
  <2> SUFFICES ASSUME NEW x, NEW t, x # e, <<x, t>> \in links PROVE <<x, t>> \in links'
    OBVIOUS
  <2> DEFINE l == <<x, t>>
  <2>1. l \in links /\ l[1] # e
    OBVIOUS
  <2> QED BY <1>1, <2>1
<1>6. ASSUME Flat(tagRows), e \in Written, NEW n \in submitted[e] PROVE Held(tagRows, links', e, n)
  <2> DEFINE i == RowFor(tagRows, SanitizedName[n])
  <2>1. Held(tagRows, links, e, n)
    BY <1>6 DEF TagInv, AllHeld, Written
  <2>2. CASE CoreClass(tagRows, i)
    BY <2>2 DEF Held
  <2>3. CASE ~CoreClass(tagRows, i)
    <3>1. PICK t \in DOMAIN tagRows : <<e, t>> \in links /\ OneHop(tagRows, t) = OneHop(tagRows, i)
      BY <2>1, <2>3 DEF Held
    <3>2. ASSUME tagRows[t].name = CoreName PROVE FALSE
      <4>1. {x \in DOMAIN tagRows : tagRows[x].name = CoreName} = {t}
        BY <1>0, <3>2 DEF TagRowsOK
      <4>2. MatchingRows(tagRows, CoreName) = {t}
        BY <4>1 DEF MatchingRows
      <4>3. RowFor(tagRows, CoreName) \in {t} /\ Hits(tagRows, CoreName)
        BY <1>0, <4>2, RowForIs DEF Hits
      <4> QED BY <2>3, <3>1, <4>3 DEF CoreClass
    <3>3. <<e, t>> \in links'
      <4> DEFINE l == <<e, t>>
      <4>1. l \in links /\ l[2] = t
        BY <3>1
      <4> QED BY <1>1, <3>2, <4>1
    <3> QED BY <3>1, <3>3 DEF Held
  <2> QED BY <2>2, <2>3
<1>7. e \in DOMAIN submitted => \A n \in submitted[e] : n \in TagNames /\ Hits(tagRows, SanitizedName[n])
  BY <1>0 DEF SubmittedOK
<1>8. TagsGrow(tagRows, tagRows')
  BY <1>1, GrowSelf
<1> QED BY <1>0, <1>1, <1>2, <1>3, <1>4, <1>5, <1>6, <1>7, <1>8, WriteKeeps DEF Written

(* A job that merges leaves the invariant.                                  *)
LEMMA MergedInv ==
  ASSUME TagInv, TagsMerged([rows |-> tagRows, links |-> links], [rows |-> tagRows', links |-> links']),
         isCore' = isCore, submitted' = submitted, lastOp' \in {"pass", "other"},
         lastOp' = "pass" => OnePerForm(tagRows')
  PROVE  TagInv'
<1>1. /\ TagRowsOK(tagRows') /\ LinksOK(tagRows', links') /\ SameMatches(tagRows, tagRows')
      /\ Flat(tagRows') =>
           /\ Flat(tagRows)
           /\ \A e, n : Hits(tagRows, SanitizedName[n]) /\ Held(tagRows, links, e, n)
                          => Held(tagRows', links', e, n)
  BY DEF TagsMerged
<1>2. SubmittedOK(tagRows', submitted')
  BY <1>1 DEF TagInv, SubmittedOK, SameMatches, Hits
<1>3. Flat(tagRows') => AllHeld(tagRows', links', submitted')
  BY <1>1 DEF TagInv, SubmittedOK, AllHeld
<1>4. CoreLinkFollowsFlag'
  BY TagAssumption DEF CoreLinkFollowsFlag
<1> QED BY <1>1, <1>2, <1>3, <1>4 DEF TagInv

(* Merging by an agent.                                                     *)
LEMMA MergeTagsInv ==
  ASSUME TagInv, NEW keep, NEW names, MergeTags(keep, names) PROVE TagInv'
<1> DEFINE canon == ResolveTagId(tagRows, keep)
           hits == {i \in DOMAIN tagRows : tagRows[i].name = keep}
           start == [rows |-> tagRows, links |-> links]
           one == MergeName(start, names[1], canon)
           all == IF Len(names) > 1 THEN MergeName(one, names[2], canon) ELSE one
<1>0. TagRowsOK(start.rows) /\ LinksOK(start.rows, start.links)
  BY DEF TagInv
<1>1. /\ canon # NoTag /\ tagRows' = all.rows /\ links' = all.links
      /\ lastOp' = "other" /\ isCore' = isCore /\ submitted' = submitted
  BY DEF MergeTags
<1>2. canon \in DOMAIN tagRows
  <2>1. hits # {} /\ canon = OneHop(tagRows, FirstRow(hits))
    BY <1>1 DEF ResolveTagId
  <2>2. hits \in SUBSET Nat /\ hits \subseteq DOMAIN tagRows
    BY <1>0, RowForIs
  <2> HIDE DEF hits, canon
  <2>3. FirstRow(hits) \in DOMAIN tagRows
    BY <2>1, <2>2, FirstRowIs
  <2> QED BY <1>0, <2>1, <2>3, HopIsRow
<1>s. start.rows = tagRows
  OBVIOUS
<1> HIDE DEF canon, start
<1>3. TagsMerged(start, one)
  <2> HIDE DEF one
  <2>1. \A q : q = one => TagsMerged(start, q)
    BY <1>0, <1>2, <1>s, MergeNameKeeps DEF one
  <2> QED BY <2>1
<1> HIDE DEF one
<1>4. TagsMerged(start, all)
  <2>1. CASE Len(names) > 1
    <3>1. TagRowsOK(one.rows) /\ LinksOK(one.rows, one.links) /\ DOMAIN one.rows = DOMAIN tagRows
      BY <1>3, <1>s DEF TagsMerged, SameMatches
    <3>2. \A q : q = MergeName(one, names[2], canon) => TagsMerged(one, q)
      BY <1>2, <3>1, MergeNameKeeps
    <3>3. TagsMerged(one, all)
      BY <2>1, <3>2
    <3> HIDE DEF all
    <3> QED BY <1>3, <3>3, MergedOn
  <2>2. CASE ~(Len(names) > 1)
    BY <1>3, <2>2
  <2> QED BY <2>1, <2>2
<1> HIDE DEF all
<1>5. TagsMerged([rows |-> tagRows, links |-> links], [rows |-> tagRows', links |-> links'])
  BY <1>1, <1>4 DEF TagsMerged, start
<1> QED BY <1>1, <1>5, MergedInv

(* A pass of the librarian, automatic or forced.                            *)
LEMMA PassInv ==
  ASSUME TagInv, MergeTagsHeuristics, isCore' = isCore, submitted' = submitted
  PROVE  /\ TagInv' /\ tagRows' = Unified(tagRows) /\ OnePerForm(tagRows') /\ TagRowsOK(tagRows')
<1> DEFINE w == [rows |-> tagRows, links |-> links]
           m == [rows |-> tagRows', links |-> links']
<1>1. tagRows' = Unified(tagRows) /\ links' = Led(tagRows, links) /\ lastOp' = "pass"
  BY DEF MergeTagsHeuristics, Unified, Led
<1>2. /\ TagRowsOK(w.rows) /\ LinksOK(w.rows, w.links)
      /\ m.rows = Unified(w.rows) /\ m.links = Led(w.rows, w.links) /\ m.rows = tagRows'
  BY <1>1 DEF TagInv
<1>3. TagsMerged(w, m) /\ OnePerForm(m.rows)
  <2> HIDE DEF w, m
  <2> QED BY <1>2, PassKeeps
<1>4. TagsMerged([rows |-> tagRows, links |-> links], [rows |-> tagRows', links |-> links']) /\ OnePerForm(tagRows')
  BY <1>2, <1>3
<1>5. TagInv'
  BY <1>1, <1>4, MergedInv
<1>6. TagRowsOK(tagRows')
  BY <1>5 DEF TagInv
<1> QED BY <1>1, <1>4, <1>5, <1>6

(* A table of older rows and no links.                                      *)
LEMMA TagInitInv == TagInit => TagInv
<1> SUFFICES ASSUME TagInit PROVE TagInv
  OBVIOUS
<1>1. PICK names \in LegacyTables : tagRows = [i \in DOMAIN names |-> [name |-> names[i], canon |-> NoTag]]
  BY DEF TagInit
<1>2. /\ names \in Seq(TagNames)
      /\ \A i, j \in DOMAIN names : names[i] = names[j] => i = j
      /\ \A i \in DOMAIN names : NormalForm[SanitizedName[names[i]]] = NormalForm[names[i]]
  BY TagAssumption, Zenon
<1>3. DOMAIN names = 1..Len(names) /\ Len(names) \in Nat /\ \A i \in DOMAIN names : names[i] \in TagNames
  BY <1>2
<1>4. DOMAIN tagRows = DOMAIN names /\ \A i \in DOMAIN names : tagRows[i] = [name |-> names[i], canon |-> NoTag]
  BY <1>1
<1>5. TagRowsOK(tagRows)
  <2>1. \A i \in DOMAIN names : tagRows[i] \in TagRow
    BY <1>3, <1>4 DEF TagRow, NoTag
  <2>2. tagRows \in [1..Len(names) -> TagRow]
    BY <1>1, <1>3, <2>1
  <2>3. tagRows \in Seq(TagRow)
    BY <1>3, <2>2
  <2>4. \A i \in DOMAIN names : tagRows[i].name = names[i] /\ tagRows[i].canon = NoTag
    BY <1>4
  <2>5. \A i \in DOMAIN names : NoTag # i
    BY <1>3 DEF NoTag
  <2> QED BY <1>2, <1>4, <2>3, <2>4, <2>5 DEF TagRowsOK
<1>6. links = {} /\ DOMAIN submitted = {} /\ isCore \in [TaggedMemories -> BOOLEAN] /\ lastOp = "other"
  BY DEF TagInit
<1>7. CoreLinkFollowsFlag
  BY <1>6, TagAssumption DEF CoreLinkFollowsFlag
<1> QED BY <1>5, <1>6, <1>7 DEF TagInv, LinksOK, SubmittedOK, AllHeld

(* Every job, and the clock, leave the invariant, and a pass hides no tag.  *)
LEMMA TagStepInv ==
  ASSUME TagInv, [TagNext]_tagVars
  PROVE  /\ TagInv'
         /\ tagVars' # tagVars /\ lastOp' = "pass" =>
              /\ OnePerForm(tagRows')
              /\ \A i \in DOMAIN tagRows :
                   ChainOf(tagRows, i) \cap CanonicalTags(tagRows) # {}
                     => ChainOf(tagRows', i) \cap CanonicalTags(tagRows') # {}
<1>p. "pass" \notin TaggedMemories
  BY TagAssumption
<1>s. ASSUME tagRows' = tagRows, links' = links, isCore' = isCore, submitted' = submitted, lastOp' = lastOp
      PROVE  TagInv'
  BY <1>s DEF TagInv, CoreLinkFollowsFlag
<1>h. ASSUME MergeTagsHeuristics, isCore' = isCore, submitted' = submitted
      PROVE  /\ TagInv' /\ OnePerForm(tagRows')
             /\ \A i \in DOMAIN tagRows :
                   ChainOf(tagRows, i) \cap CanonicalTags(tagRows) # {}
                     => ChainOf(tagRows', i) \cap CanonicalTags(tagRows') # {}
  <2>1. TagInv' /\ tagRows' = Unified(tagRows) /\ OnePerForm(tagRows') /\ TagRowsOK(tagRows')
    BY <1>h, PassInv
  <2>2. TagRowsOK(tagRows)
    BY DEF TagInv
  <2> QED BY <2>1, <2>2, PassHidesNone
<1>1. ASSUME NEW e \in TaggedMemories, NEW names \in TagLists, NEW core \in BOOLEAN, StoreWithTags(e, names, core)
      PROVE  TagInv' /\ lastOp' # "pass"
  BY <1>p, <1>1, StoreWithTagsInv DEF StoreWithTags
<1>2. ASSUME NEW e \in TaggedMemories, StoreWithoutTags(e) PROVE TagInv' /\ lastOp' # "pass"
  BY <1>p, <1>2, StoreWithoutTagsInv DEF StoreWithoutTags
<1>3. ASSUME NEW e \in TaggedMemories, DemoteCore(e) PROVE TagInv' /\ lastOp' # "pass"
  BY <1>3, DemoteCoreInv DEF DemoteCore
<1>4. ASSUME NEW e \in TaggedMemories, NEW core \in BOOLEAN, ReviseInheriting(e, core)
      PROVE  TagInv' /\ lastOp' # "pass"
  BY <1>4, ReviseInheritingInv DEF ReviseInheriting
<1>5. ASSUME NEW keep \in TagNames, NEW names \in TagLists, MergeTags(keep, names)
      PROVE  TagInv' /\ lastOp' # "pass"
  BY <1>5, MergeTagsInv DEF MergeTags
<1>6. CASE AutomaticPass
  BY <1>h, <1>6 DEF AutomaticPass
<1>7. CASE ForcedPass
  BY <1>h, <1>7 DEF ForcedPass
<1>8. CASE CooldownTick
  <2>1. tagRows' = tagRows /\ links' = links /\ isCore' = isCore /\ submitted' = submitted /\ lastOp' = lastOp
    BY <1>8 DEF CooldownTick
  <2>2. lastOp = "pass" => OnePerForm(tagRows)
    BY DEF TagInv
  <2> QED BY <1>s, <2>1, <2>2
<1>9. CASE UNCHANGED tagVars
  BY <1>s, <1>9 DEF tagVars
<1> QED BY <1>1, <1>2, <1>3, <1>4, <1>5, <1>6, <1>7, <1>8, <1>9 DEF TagNext

(***************************************************************************)
(* Whatever agents and the librarian merge, in whatever order: a memory    *)
(* keeps every tag it was given or the tag that one became, and is found   *)
(* by its name, as long as no alias leads to an alias; its #core link is   *)
(* its core flag after every write; and a pass leaves one canonical row    *)
(* per normal form and hides no tag that led to one.                       *)
(***************************************************************************)
THEOREM TagsStayKept == TagSpec => TagsKept
<1>1. TagInit => TagInv
  BY TagInitInv
<1>2. TagInv /\ [TagNext]_tagVars => TagInv'
  BY TagStepInv
<1>3. TagInv => NoTagLost /\ CoreLinkFollowsFlag
  <2> SUFFICES ASSUME TagInv PROVE NoTagLost
    BY DEF TagInv
  <2> QED BY HeldIsFound DEF NoTagLost
<1>4. TagInv /\ [TagNext]_tagVars =>
        [lastOp' = "pass"
           => /\ \A i, j \in CanonicalTags(tagRows') :
                   NormalForm[tagRows'[i].name] = NormalForm[tagRows'[j].name] => i = j
              /\ \A i \in DOMAIN tagRows :
                   ChainOf(tagRows, i) \cap CanonicalTags(tagRows) # {}
                     => ChainOf(tagRows', i) \cap CanonicalTags(tagRows') # {}]_tagVars
  BY TagStepInv DEF OnePerForm
<1> QED BY <1>1, <1>2, <1>3, <1>4, PTL DEF TagSpec, TagsKept, PassUnifies
=============================================================================
