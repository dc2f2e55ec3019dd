---------------------------- MODULE MemoryGraph ----------------------------
(***************************************************************************)
(* The memories and the relations between them, as the services of         *)
(* memory_service (write.py, lifecycle.py) and relation_service.py change   *)
(* them.  A call prepares (reads the database and validates) and then runs  *)
(* one write transaction.  Inside the daemon both halves run in one job of  *)
(* the writer thread; a script that opens the database itself interleaves   *)
(* its halves with everyone else's, which is what the checks the code       *)
(* repeats under the write lock are for.                                    *)
(*                                                                         *)
(* Core capacity and review dates are CoreGovernance's, embedding jobs are  *)
(* EmbedJobs'; here a refusal by either is a transaction that raises.       *)
(***************************************************************************)
EXTENDS Naturals, FiniteSets, Sequences, TLC

CONSTANTS
  MaxMem,      \* bound: rows of the entities table
  Drafts,      \* frozen field values: [hash, title, owner, shared]
  Seeds,       \* the memories stored before the run, in order
  Keys,        \* metadata keys
  Semantic,    \* predicates an agent may select
  Callers,     \* connections with a call under way
  MaxEdges,    \* bound: distinct semantic relations ever stored
  MaxItems,    \* bound: items of one relation call
  MaxCalls     \* bound: calls

Lineage == {"revises", "supersedes", "consolidated_from"}
Strong == {"elaborates_on", "resolves", "supersedes"}
Contradictory == {{"supersedes", "elaborates_on"}}
Ids == 1..MaxMem
Edge(s, p, t) == [src |-> s, pred |-> p, tgt |-> t]
Edges == [src : Ids, pred : Semantic \cup Lineage, tgt : Ids]

ASSUME GraphConstants ==
  /\ {MaxMem, MaxEdges, MaxItems, MaxCalls} \subseteq Nat
  /\ Drafts \subseteq [hash : Nat, title : Nat, owner : Nat, shared : BOOLEAN]
  /\ Seeds \in Seq(Drafts) /\ Len(Seeds) = 3 /\ MaxMem >= 3
  /\ Semantic \cap Lineage = {} /\ "elaborates_on" \in Semantic

VARIABLES
  db,       \* the committed database
  job,      \* job[c]: the prepared call of connection c, or Idle
  direct,   \* some connection is not the daemon's writer
  calls     \* calls begun

gvars == <<db, job, direct, calls>>

----------------------------------------------------------------------------
(* The database: entity rows, active relations, relation triples with an    *)
(* invalidated row, and every triple that has ever had a row.  The audit    *)
(* event of a justified override is written in the same transaction; its    *)
(* failure is a transaction that raises.                                    *)
NoBody == [hash |-> 0, title |-> 0, owner |-> 0, shared |-> FALSE]
NoRow == [st |-> "none", body |-> NoBody, core |-> FALSE, details |-> {}, meta |-> {}]
Row(s, b, c, ds, k) == [st |-> s, body |-> b, core |-> c, details |-> ds, meta |-> k]
Absent == {"omitted"}   \* no metadata argument
Undeclared == {0}       \* no detail_memory_ids argument
Idle == [op |-> "idle"]

\* The database the run starts with: the first n seeds stored and, with all of
\* them, the second elaborating on the third, or declared as its detail.
SeedRow(n, m, core) ==
  IF m > n THEN NoRow
  ELSE IF core /\ m = 3 THEN Row("raw", Seeds[m], TRUE, {2}, {})
  ELSE Row("raw", Seeds[m], FALSE, {}, {})
SeedDb(n, es, core) ==
  [mem |-> [m \in Ids |-> SeedRow(n, m, core)], act |-> es, inv |-> {}, ever |-> es]

GraphInit ==
  /\ \E n \in 0..3, linked, core \in BOOLEAN :
       /\ core => linked
       /\ linked => n = 3
       /\ db = SeedDb(n, IF linked THEN {Edge(2, "elaborates_on", 3)} ELSE {}, core)
  /\ job = [c \in Callers |-> Idle]
  /\ direct \in BOOLEAN
  /\ calls = 0

Status(d, m) == d.mem[m].st
Stored(d) == {m \in Ids : Status(d, m) # "none"}
Live(d) == {m \in Ids : Status(d, m) \in {"raw", "consolidated"}}
Fresh(d) == Ids \ Stored(d)
NewId(d) == CHOOSE m \in Fresh(d) : \A n \in Fresh(d) : m <= n
SemanticOf(es) == {e \in es : e.pred \in Semantic}
Touching(es, m) == {e \in es : m \in {e.src, e.tgt}}

\* An active memory with the same content hash that the caller may see.
Twin(d, b, m) ==
  /\ m \in Live(d)
  /\ d.mem[m].body.hash = b.hash
  /\ (d.mem[m].body.owner = b.owner \/ d.mem[m].body.shared)

\* What a transaction returns: the database it leaves and how the call ended.
\* A normal return commits, a rejection included; only "raised" rolls back.
Ret(d, o) == [db |-> d, out |-> o]

----------------------------------------------------------------------------
(* relation_service: storing and invalidating one edge.                     *)

Unsimilar(d, e, similar) ==
  e.pred \in Strong /\ (~similar \/ ~({e.src, e.tgt} \subseteq Live(d)))

Contradicts(d, e) ==
  \E x \in d.act : x.src = e.src /\ x.tgt = e.tgt /\ {x.pred, e.pred} \in Contradictory

GateViolated(d, e, similar) == Unsimilar(d, e, similar) \/ Contradicts(d, e)

CoreGuarded(d, e) == e.pred = "elaborates_on" /\ d.mem[e.tgt].core /\ e.tgt \in Live(d)

\* The one stale edge a strong predicate's new edge replaces (fetchone).
Stale(d, e) ==
  LET olds == {x \in d.act : x.src = e.src /\ x.pred = e.pred /\ x.tgt # e.tgt}
  IN IF e.pred \in Strong /\ olds # {} THEN {CHOOSE x \in olds : TRUE} ELSE {}

Close(d, es) == [d EXCEPT !.act = @ \ es, !.inv = @ \cup es]
Open(d, e) == [d EXCEPT !.act = @ \cup {e}, !.ever = @ \cup {e}]

InsertRelation(d, e) == Open(Close(d, Stale(d, e)), e)

StoreRelation(d, e, allowCore, similar, justified) ==
  IF e \in d.act THEN Ret(d, "ok")
  ELSE IF CoreGuarded(d, e) /\ ~allowCore THEN Ret(d, "rejected")
  ELSE IF GateViolated(d, e, similar) /\ ~justified THEN Ret(d, "rejected")
  ELSE Ret(InsertRelation(d, e), "ok")

InvalidateRelation(d, e) ==
  IF e \in d.act THEN Ret(Close(d, {e}), "ok")
  ELSE IF e \in d.inv THEN Ret(d, "ok")
  ELSE Ret(d, "rejected")

\* One item of a relation batch.  A store may name selectable predicates only;
\* an invalidation may name any, the lineage predicates included.
RelationItem(d, i) ==
  IF i.invalidate THEN InvalidateRelation(d, i.edge)
  ELSE IF i.edge.src = i.edge.tgt \/ i.edge.pred \notin Semantic THEN Ret(d, "rejected")
  ELSE StoreRelation(d, i.edge, FALSE, i.similar, i.justified)

\* The declared detail edges of a core memory: a refused edge raises, one of the
\* memory to itself too, and the edges no longer declared are invalidated.
Reconcile(d, core, new, old, similar) ==
  LET want == {Edge(s, "elaborates_on", core) : s \in new} \ d.act
      gone == {Edge(s, "elaborates_on", core) : s \in old \ new} \cap d.act
      shut == gone \cup UNION {Stale(d, e) : e \in want}
  IN IF core \in new \/ \E e \in want : GateViolated(d, e, similar) THEN Ret(d, "raised")
     ELSE Ret([d EXCEPT !.act = (@ \ shut) \cup want, !.inv = @ \cup shut,
                        !.ever = @ \cup want], "ok")

----------------------------------------------------------------------------
(* Archiving.                                                               *)

SetStatus(d, ms, s) == [d EXCEPT !.mem = [m \in Ids |->
                          IF m \in ms THEN [d.mem[m] EXCEPT !.st = s] ELSE d.mem[m]]]

\* _archive_entity_unchecked also ends every active relation of the memory,
\* lineage included, without marking it invalid.
ArchiveAll(d, ms) ==
  [SetStatus(d, ms, "archived") EXCEPT !.act = {e \in @ : {e.src, e.tgt} \cap ms = {}}]

\* One batch: an unknown id or another agent's memory rejects it as a whole,
\* what is archived already is skipped.
ArchiveMemories(d, ms, agent) ==
  IF \E m \in ms : Status(d, m) # "archived" /\ (m \notin Stored(d) \/ d.mem[m].body.owner # agent)
  THEN Ret(d, "rejected")
  ELSE Ret(ArchiveAll(d, ms \cap Live(d)), "ok")

UpdateMetadata(d, m, add, del) ==
  Ret([d EXCEPT !.mem[m].meta = (@ \cup add) \ del], "ok")

----------------------------------------------------------------------------
(* store_memory: resolve the target before the transaction, write in it.    *)

\* The target of a store: "clash" for an exact duplicate, an existing row, or a
\* fresh id (0: a new uuid).
StoreTarget(d, want, b) ==
  LET twins == {m \in Ids : Twin(d, b, m)}
      named == {m \in Live(d) : d.mem[m].body.title = b.title
                                 /\ d.mem[m].body.owner = b.owner
                                 /\ d.mem[m].body.shared = b.shared}
  IN IF want \in Stored(d) THEN {want}
     ELSE IF twins # {} THEN {}
     ELSE IF want # 0 THEN {want}
     ELSE IF named # {} THEN named ELSE {0}

\* A frozen field of an existing target would change (scope "shared" over a
\* private row counts as an omitted scope).
FrozenChanged(d, m, b) ==
  LET old == d.mem[m].body
  IN \/ <<b.title, b.hash, b.owner>> # <<old.title, old.hash, old.owner>>
     \/ (b.shared # old.shared /\ ~b.shared)

\* An existing target keeps its frozen fields; metadata that was not given is
\* submitted again as it was read.
StorePlan(d, req, m) ==
  IF m \in Stored(d)
  THEN [op |-> "store", target |-> m, fresh |-> FALSE, body |-> d.mem[m].body,
        meta |-> IF req.meta = Absent THEN d.mem[m].meta ELSE req.meta,
        core |-> req.core, details |-> req.details, similar |-> req.similar]
  ELSE [op |-> "store", target |-> m, fresh |-> TRUE, body |-> req.body,
        meta |-> IF req.meta = Absent THEN {} ELSE req.meta,
        core |-> req.core, details |-> req.details, similar |-> req.similar]

\* The core fields of the row a store writes: declared, kept or absent.
StoredCore(old, core) == IF core = "omitted" THEN old.core ELSE core = "core"

\* Any stored memory may be a detail, an archived one too.
DetailsAllowed(d, ds) == ds \subseteq Stored(d) /\ \A x \in ds : d.mem[x].body.shared /\ ~d.mem[x].core

UpsertStatus(old) == IF old.st = "none" THEN "raw" ELSE old.st

\* A caller-chosen id that was free when the call was prepared and is taken now:
\* the old row is kept as an archived history row and overwritten.
WithHistory(d, m, plan) ==
  IF m \in Stored(d) /\ plan.fresh
  THEN [d EXCEPT !.mem[NewId(d)] = [d.mem[m] EXCEPT !.st = "archived"]]
  ELSE d

StoreRaw(d, plan) ==
  LET m == IF plan.target = 0 THEN NewId(d) ELSE plan.target
      old == d.mem[m]
      core == StoredCore(old, plan.core)
      ds == IF ~core THEN {} ELSE IF plan.details = Undeclared THEN old.details ELSE plan.details
      base == WithHistory(d, m, plan)
      row == Row(UpsertStatus(old), plan.body, core, ds, old.meta \cup plan.meta)
      wrote == [base EXCEPT !.mem[m] = row]
  IN IF \/ ~core /\ plan.details # Undeclared
        \/ core /\ ~(plan.body.shared /\ DetailsAllowed(d, ds))
     THEN Ret(d, "raised")
     ELSE Reconcile(wrote, m, ds, old.details, plan.similar)

----------------------------------------------------------------------------
(* revise_memory and supersede_memory.                                      *)

\* Seeded fault: what was read while preparing is trusted in the transaction.
SourceUnchangedTrusted(d, p) == TRUE

\* The locked re-check: still raw, no frozen column changed.
SourceUnchanged(d, p) ==
  /\ Status(d, p.old) = "raw"
  /\ d.mem[p.old].body = p.seen.body /\ d.mem[p.old].meta = p.seen.meta

\* The core outcome of a derived memory must be declared when a source is core.  Nothing
\* keeps a source from being one of the details.
DerivedCore(d, olds, p) ==
  IF (\E m \in olds : d.mem[m].core) /\ p.core = "omitted" THEN "undecided"
  ELSE IF p.core # "core" THEN "ordinary"
  ELSE IF p.body.shared /\ DetailsAllowed(d, p.details) THEN "core" ELSE "refused"

Moved(e, m, n) == Edge(IF e.src = m THEN n ELSE e.src, e.pred, IF e.tgt = m THEN n ELSE e.tgt)

\* The edges the repointing leaves on the predecessor m of n: elaborations of a core,
\* and what would become an edge of n to itself.
Unmoved(d, m, n) ==
  {e \in Touching(SemanticOf(d.act), m) :
     \/ Moved(e, m, n).src = Moved(e, m, n).tgt
     \/ d.mem[m].core /\ e.pred = "elaborates_on" /\ e.tgt = m}

MoveEdges(d, es, m, n) ==
  [d EXCEPT !.act = (@ \ es) \cup {Moved(e, m, n) : e \in es}, !.inv = @ \cup es,
            !.ever = @ \cup {Moved(e, m, n) : e \in es}]

\* Seeded fault: the edges listed while preparing are the ones moved.
RepointSeen(d, m, n, p) == MoveEdges(d, (p.edges \cap d.act) \ Unmoved(d, m, n), m, n)

\* The active edges are read again under the lock, closed and opened on the successor.
Repoint(d, m, n, p) == MoveEdges(d, Touching(SemanticOf(d.act), m) \ Unmoved(d, m, n), m, n)

\* The successor's row and detail edges, the predecessor archived, its relations kept.
ReplaceRows(d, p, n, core) ==
  LET made == Reconcile([d EXCEPT !.mem[n] = Row("raw", p.body, core,
                                                 IF core THEN p.details ELSE {}, p.meta)],
                        n, IF core THEN p.details ELSE {}, {}, p.similar)
  IN Ret(SetStatus(made.db, {p.old}, "archived"), made.out)

Replace(d, p) ==
  LET n == NewId(d)
      core == DerivedCore(d, {p.old}, p)
      rows == ReplaceRows(d, p, n, core = "core")
      linked == Open(rows.db, Edge(n, p.kind, p.old))
  IN IF ~SourceUnchanged(d, p) \/ core \in {"undecided", "refused"} \/ rows.out # "ok"
     THEN Ret(d, "raised")
     ELSE Ret(IF p.repoint THEN Repoint(linked, p.old, n, p) ELSE linked, "ok")

\* The orphaned edges the answer reports: the list made while preparing,
\* narrowed to what the repointing left.
Report(d, p) == IF p.repoint THEN p.edges \cap Unmoved(d, p.old, NewId(d)) ELSE p.edges

----------------------------------------------------------------------------
(* consolidate_memories.                                                    *)

Mergeable(d, ms) == Cardinality(ms) >= 2 /\ \A m \in ms : Status(d, m) = "raw"

\* An exact duplicate of the same agent that is not one of the parents.
MergeClash(d, i) ==
  \E m \in Live(d) \ i.parents : d.mem[m].body.hash = i.body.hash
                                 /\ d.mem[m].body.owner = i.body.owner

Observed(d, ms) == [m \in ms |-> [st |-> Status(d, m), body |-> d.mem[m].body]]

Revalidated(d, i) == \A m \in i.parents : Observed(d, i.parents)[m] = i.seen[m]

\* One merge: its row, its parents archived (their relations kept), one lineage
\* edge for each parent.
MergeItem(d, i) ==
  LET n == NewId(d)
      core == DerivedCore(d, i.parents, i)
      made == Reconcile([d EXCEPT !.mem[n] = Row("consolidated", i.body, core = "core",
                                                 IF core = "core" THEN i.details ELSE {}, {})],
                        n, IF core = "core" THEN i.details ELSE {}, {}, i.similar)
      gone == SetStatus(made.db, i.parents, "archived")
  IN IF ~Revalidated(d, i) \/ Fresh(d) = {} \/ core \in {"undecided", "refused"} \/ made.out # "ok"
     THEN Ret(d, "raised")
     ELSE LET es == {Edge(n, "consolidated_from", m) : m \in i.parents}
          IN Ret([gone EXCEPT !.act = @ \cup es, !.ever = @ \cup es], "ok")

----------------------------------------------------------------------------
(* The calls.                                                               *)

\* The writer thread runs one job at a time; a direct connection need not wait.
Turn(c) == direct \/ \A x \in Callers \ {c} : job[x] = Idle

\* A transaction of several statements holds the write lock.
Unlocked == \A x \in Callers : job[x].op \notin {"batch", "merging"}

Finish(c, r) ==
  /\ Unlocked \/ job[c].op \in {"batch", "merging"}
  /\ db' = IF r.out = "raised" THEN db ELSE r.db
  /\ job' = [job EXCEPT ![c] = Idle]
  /\ UNCHANGED direct

\* A call begins when its connection is free and the writer is.
MayBegin(c) == job[c] = Idle /\ Turn(c) /\ calls < MaxCalls
Begin(c) == MayBegin(c) /\ calls' = calls + 1

Prepared(c, plan) == job' = [job EXCEPT ![c] = plan] /\ UNCHANGED <<db, direct>>

Room(d, n) == Cardinality(Fresh(d)) >= n
EdgeRoom(d, e) == e \in d.ever \/ Cardinality(SemanticOf(d.ever)) < MaxEdges

PrepareStore(c, want, req) ==
  /\ Begin(c) /\ Room(db, 1)
  /\ \E m \in StoreTarget(db, want, req.body) :
       /\ m \in Stored(db) => ~FrozenChanged(db, m, req.body)
       /\ Prepared(c, StorePlan(db, req, m))

CommitStore(c) ==
  /\ job[c].op = "store" /\ Room(db, 1)
  /\ Finish(c, StoreRaw(db, job[c])) /\ UNCHANGED calls

PrepareReplace(c, kind, m, b, core, ds, repoint, similar) ==
  /\ Begin(c) /\ Room(db, 1)
  /\ Status(db, m) = "raw"
  /\ Prepared(c, [op |-> "replace", kind |-> kind, old |-> m, body |-> b, core |-> core,
                  details |-> ds, repoint |-> repoint, similar |-> similar,
                  seen |-> db.mem[m], meta |-> db.mem[m].meta,
                  edges |-> Touching(SemanticOf(db.act), m)])

CommitReplace(c) ==
  /\ job[c].op = "replace" /\ Room(db, 1)
  /\ Finish(c, Replace(db, job[c])) /\ UNCHANGED calls

MergeRequest(ms, b, core, ds, similar) ==
  [parents |-> ms, body |-> b, core |-> core, details |-> ds, similar |-> similar,
   seen |-> Observed(db, ms)]

\* The preflight of every item; consolidate items of one call share no parent,
\* the older bulk call does not look.
PrepareMerge(c, items, bulk) ==
  /\ Begin(c) /\ Room(db, 1)
  /\ \A k \in DOMAIN items : Mergeable(db, items[k].parents) /\ ~MergeClash(db, items[k])
  /\ ~bulk => \A j, k \in DOMAIN items : j # k => items[j].parents \cap items[k].parents = {}
  /\ Prepared(c, [op |-> "merge", todo |-> items])

\* The transaction of a merge call: its items in order on the working database;
\* the first that raises ends it and undoes all.
MergeBegin(c) ==
  /\ job[c].op = "merge" /\ Unlocked
  /\ job' = [job EXCEPT ![c] = [op |-> "merging", todo |-> job[c].todo, work |-> db]]
  /\ UNCHANGED <<db, direct, calls>>

MergeStep(c) ==
  /\ job[c].op = "merging" /\ job[c].todo # <<>>
  /\ LET r == MergeItem(job[c].work, Head(job[c].todo))
     IN IF r.out = "raised" THEN Finish(c, r)
        ELSE /\ job' = [job EXCEPT ![c].todo = Tail(@), ![c].work = r.db]
             /\ UNCHANGED <<db, direct>>
  /\ UNCHANGED calls

MergeEnd(c) ==
  /\ job[c].op = "merging" /\ job[c].todo = <<>>
  /\ Finish(c, Ret(job[c].work, "ok")) /\ UNCHANGED calls

\* The transaction raises: capacity, a failed audit row, the database itself.
Fail(c) == job[c] # Idle /\ Finish(c, Ret(db, "raised")) /\ UNCHANGED calls

\* A relation call: one transaction, its items one after another under a savepoint.
\* Every item runs and the rejections are collected; the older bulk call raises on
\* the first.
RelateBegin(c, bulk) ==
  /\ Begin(c) /\ Unlocked
  /\ job' = [job EXCEPT ![c] = [op |-> "batch", bulk |-> bulk, n |-> 0, out |-> "ok", work |-> db]]
  /\ UNCHANGED <<db, direct>>

RelateItem(c, i) ==
  /\ job[c].op = "batch" /\ job[c].n < MaxItems
  /\ {i.edge.src, i.edge.tgt} \subseteq Stored(db)
  /\ EdgeRoom(job[c].work, i.edge)
  /\ LET r == RelationItem(job[c].work, i)
     IN IF r.out = "rejected" /\ job[c].bulk THEN Finish(c, Ret(db, "raised"))
        ELSE /\ job' = [job EXCEPT ![c].work = r.db, ![c].n = @ + 1,
                                  ![c].out = IF r.out = "ok" THEN @ ELSE "rejected"]
             /\ UNCHANGED <<db, direct>>
  /\ UNCHANGED calls

\* Seeded fault: a batch with a rejected item releases its savepoint.
BatchResultReleased(c) == job[c].work

\* One rejection rolls the savepoint back; the transaction then commits nothing.
BatchResult(c) == IF job[c].out = "ok" THEN job[c].work ELSE db

RelateEnd(c) ==
  /\ job[c].op = "batch" /\ job[c].n > 0
  /\ Finish(c, Ret(BatchResult(c), job[c].out)) /\ UNCHANGED calls

ArchiveCall(c, ms, agent) ==
  /\ Begin(c)
  /\ Finish(c, ArchiveMemories(db, ms, agent))

MetadataCall(c, m, add, del) ==
  /\ Begin(c) /\ m \in Stored(db)
  /\ Finish(c, UpdateMetadata(db, m, add, del))

\* What the agents may ask for, at the size of the instance: core declarations
\* inside the daemon only, batches of at most two items.
Declared ==
  [core : {"omitted"}, details : {Undeclared}, similar : {TRUE}]
  \cup IF direct THEN {}
       ELSE [core : {"ordinary"}, details : {Undeclared}, similar : {TRUE}]
            \cup [core : {"core"}, details : {{}} \cup {{m} : m \in Stored(db)}, similar : {TRUE}]

SomeStore(c) ==
  \E want \in {0} \cup Stored(db) \cup {NewId(db)}, b \in Drafts, k \in {Absent, Keys},
     a \in Declared :
    PrepareStore(c, want, [body |-> b, meta |-> k, core |-> a.core, details |-> a.details,
                           similar |-> a.similar])

DerivedDetails(a) == IF a.core = "core" THEN a.details ELSE {}

SomeReplace(c) ==
  \E m \in Live(db), kind \in {"revises", "supersedes"}, b \in Drafts, a \in Declared, r \in BOOLEAN :
    PrepareReplace(c, kind, m, b, a.core, DerivedDetails(a), r, a.similar)

SomeMerge(c) ==
  \E ms \in SUBSET Live(db), b \in Drafts, a \in Declared :
    LET one(x) == MergeRequest(x, b, a.core, DerivedDetails(a), a.similar)
    IN /\ Mergeable(db, ms)
       /\ \/ PrepareMerge(c, <<one(ms)>>, FALSE)
          \/ \E ns \in SUBSET Live(db), bulk \in BOOLEAN :
               Mergeable(db, ns) /\ PrepareMerge(c, <<one(ms), one(ns)>>, bulk)

\* Similarity and justification only matter to a new edge.
Items ==
  {i \in [invalidate : BOOLEAN, similar : BOOLEAN, justified : BOOLEAN,
          edge : [src : Stored(db), pred : Semantic, tgt : Stored(db)]] :
     i.invalidate => i.similar /\ ~i.justified}
  \cup [invalidate : BOOLEAN, similar : {TRUE}, justified : {TRUE},
        edge : {e \in Edges : e.pred \in Lineage /\ {e, Edge(e.tgt, e.pred, e.src)} \cap db.ever # {}}]

SomeArchive(c) ==
  \E ms \in (SUBSET Stored(db)) \ {{}}, b \in Drafts : ArchiveCall(c, ms, b.owner)

SomeMetadata(c) ==
  \E m \in Stored(db), add, del \in SUBSET Keys :
    add \cap del = {} /\ add # del /\ MetadataCall(c, m, add, del)

GraphNext ==
  \E c \in Callers :
    \/ MayBegin(c) /\ Fresh(db) # {} /\ (SomeStore(c) \/ SomeReplace(c) \/ SomeMerge(c))
    \/ MayBegin(c) /\ (SomeArchive(c) \/ SomeMetadata(c))
    \/ CommitStore(c) \/ CommitReplace(c) \/ MergeBegin(c) \/ MergeStep(c) \/ MergeEnd(c)
    \/ \E bulk \in BOOLEAN : RelateBegin(c, bulk)
    \/ job[c].op = "batch" /\ \E i \in Items : RelateItem(c, i)
    \/ RelateEnd(c) \/ Fail(c)

GraphSpec == GraphInit /\ [][GraphNext]_gvars

----------------------------------------------------------------------------
(* Properties.                                                              *)

\* The shape of the database and of the prepared calls.
GraphTypeOK ==
  /\ \A m \in Ids : db.mem[m] = NoRow \/ db.mem[m] \in
       [st : {"raw", "consolidated", "archived"}, body : Drafts, core : BOOLEAN,
        details : SUBSET Ids, meta : SUBSET Keys]
  /\ \A es \in {db.act, db.inv, db.ever} : es \subseteq Edges
  /\ \A c \in Callers : job[c].op \in {"idle", "store", "replace", "merge", "merging", "batch"}

\* However many calls race for it, a memory is replaced at most once: of all the
\* lineage rows ever written (revises, supersedes, consolidated_from) at most one
\* points at it.
OneSuccessor ==
  \A e, f \in db.ever : e.pred \in Lineage /\ f.pred \in Lineage /\ e.tgt = f.tgt => e = f

\* Following lineage never leads back: no chain of lineage rows is a cycle.
LineageAcyclic ==
  \A S \in (SUBSET Ids) \ {{}} : \E m \in S :
    \A e \in db.ever : e.pred \in Lineage /\ e.src = m => e.tgt \notin S

\* A strong predicate (elaborates_on, resolves, supersedes) has at most one active
\* target for a source, through stores, batches, repointing and core declarations.
SingleStrongTarget ==
  \A e, f \in db.act : e.pred \in Strong /\ e.pred = f.pred /\ e.src = f.src => e = f

\* A memory only moves towards the archive: no store, upsert, replacement or merge
\* brings an archived memory back or makes a consolidated one raw.
ArchiveIsFinal ==
  [][\A m \in Ids : LET s == Status(db, m)
                         t == Status(db', m)
                     IN s = t \/ s = "none" \/ t = "archived"]_gvars

\* Inside the daemon no call changes a frozen field of a stored memory.
FrozenForever ==
  [][~direct => \A m \in Stored(db) : db'.mem[m].body = db.mem[m].body]_gvars

\* A rejected relation batch leaves no trace although its transaction commits: no
\* item applied before the rejected one, no stale edge closed for it.
RejectedLeavesNoTrace ==
  [][\A c \in Callers : job[c].op = "batch" /\ job[c].out # "ok" /\ job'[c] = Idle => db' = db]_gvars

\* Before the savepoint is rolled back a rejected single item has changed nothing:
\* no stale edge is closed for a new edge that a gate then refuses.
RefusedEdgeTouchesNothing ==
  \A c \in Callers : job[c].op = "batch" /\ job[c].n = 1 /\ job[c].out # "ok" => job[c].work = db

\* After a repointing replacement no active semantic edge touches the predecessor but the
\* elaborations of a core and an edge between the two; an edge added while it was prepared
\* has moved with the others.
RepointComplete ==
  \A c \in Callers : job[c].op = "replace" /\ Fresh(db) # {} =>
    LET p == job[c]
        r == Replace(db, p)
    IN p.repoint /\ r.out = "ok" =>
         Touching(SemanticOf(r.db.act), p.old) \subseteq Unmoved(r.db, p.old, NewId(db))

\* The edge by which a successor declares its predecessor as a detail.
OwnDetail(p, n) ==
  IF p.core = "core" /\ p.old \in p.details THEN {Edge(p.old, "elaborates_on", n)} ELSE {}

\* Inside the daemon every active semantic edge that a replacement leaves on the
\* predecessor is in the list it reports, or is the one edge it made itself.
OrphansReported ==
  \A c \in Callers : job[c].op = "replace" /\ Fresh(db) # {} /\ ~direct =>
    LET p == job[c]
        r == Replace(db, p)
    IN r.out = "ok" => Touching(SemanticOf(r.db.act), p.old)
                         \subseteq Report(db, p) \cup OwnDetail(p, NewId(db))

\* Inside the daemon a store never adds a second active memory with a content hash
\* its caller can already see.
NoSecondTwin ==
  \A c \in Callers : job[c].op = "store" /\ Room(db, 1) /\ ~direct =>
    LET r == StoreRaw(db, job[c])
    IN \A m \in Stored(r.db) \ Stored(db) : \A n \in Ids \ {m} : ~Twin(r.db, r.db.mem[m].body, n)

\* The lineage stays a forest that one can follow to one head, strong predicates stay single
\* valued and a content has no second copy, while two callers prepare outside the writer and
\* apply inside it what they prepared.
LineageSound ==
  GraphTypeOK /\ OneSuccessor /\ LineageAcyclic /\ SingleStrongTarget /\ NoSecondTwin

\* Replacing a memory leaves no edge behind unseen: each one on the predecessor is moved, or
\* reported as orphaned, or was made by the replacement; and an edge that a batch refuses
\* leaves the graph alone.
EdgesFollow == RepointComplete /\ OrphansReported /\ RefusedEdgeTouchesNothing

\* No later step rewrites what was stored: an archived memory is not revived, a body is never
\* changed in place, a rejected batch leaves no trace.
PastIsFixed == ArchiveIsFinal /\ FrozenForever /\ RejectedLeavesNoTrace

============================================================================
