--------------------------- MODULE SchemaMigration ---------------------------
(***************************************************************************)
(* db/schema.py init_db: one write transaction of idempotent steps that     *)
(* brings a database of any earlier release to the current shape, and the   *)
(* three one-time data migrations gated on PRAGMA user_version.             *)
(*                                                                         *)
(* pending is the open transaction's view; a crash or an exception that escapes  *)
(* drops it.  An OperationalError inside a versioned block is caught and    *)
(* logged: startup goes on and commits what the block had done, except for  *)
(* version 3, which rolls back to its savepoint first.                      *)
(***************************************************************************)
EXTENDS Naturals, Sequences, FiniteSets, FiniteSetsExt, SequencesExt

CONSTANTS
  MaxNotes,      \* bound: memories of the database
  OldRows,       \* bound: relation rows an old database may hold
  MaxStartups,   \* bound: startups
  MaxOpErrors,   \* bound: caught OperationalErrors
  MaxServed      \* bound: writes served between startups

ASSUME MigrationConstants ==
  {MaxNotes, OldRows, MaxStartups, MaxOpErrors, MaxServed} \subseteq Nat

VARIABLES
  disk,     \* the committed database
  pending,       \* what the open transaction sees
  boot,     \* [at, ext]: where startup is, whether sqlite-vec loads
  tally,    \* [starts, errors, served]
  past      \* [rows, archived]: rows ever written, memories archived by a caller

Notes == 1..MaxNotes
mvars == <<disk, pending, boot, tally, past>>

(* Every drifted name: its canonical name and whether the ends swap. *)
PREDICATE_ALIASES ==
  [fixes       |-> [to |-> "resolves", swap |-> FALSE],
   resolved_by |-> [to |-> "resolves", swap |-> TRUE]]
IsAlias(p) == p \in DOMAIN PREDICATE_ALIASES
Canonical == {"resolves", "supersedes"}

RelRow(s, p, t, o) == [src |-> s, pred |-> p, tgt |-> t, open |-> o]
RowSet == [src : Notes, pred : Canonical \cup DOMAIN PREDICATE_ALIASES, tgt : Notes, open : BOOLEAN]

(* The row in the closed vocabulary. *)
Renamed(r) ==
  IF ~ IsAlias(r.pred) THEN r
  ELSE LET a == PREDICATE_ALIASES[r.pred]
       IN  IF a.swap THEN RelRow(r.tgt, a.to, r.src, r.open) ELSE RelRow(r.src, a.to, r.tgt, r.open)

Triple(r) == <<r.src, r.pred, r.tgt>>
ActiveIds(rel) == {i \in DOMAIN rel : rel[i].open}
Duplicated(rel) ==
  \E i, j \in ActiveIds(rel) : i # j /\ Triple(rel[i]) = Triple(rel[j])

-----------------------------------------------------------------------------
(* The shapes a database found at startup may have: what each release left. *)
NewDatabase == [owner |-> "agent_id", harness |-> "new", index |-> FALSE, registry |-> "none",
          fts |-> FALSE, chunk |-> "absent", ledger |-> "absent", ver |-> 0]
Oldest == [owner |-> "owner_id", harness |-> "old", index |-> FALSE, registry |-> "wrong",
           fts |-> FALSE, chunk |-> "old", ledger |-> "required_cwd", ver |-> 0]
Swept == [owner |-> "owner_id", harness |-> "old", index |-> TRUE, registry |-> "wrong",
          fts |-> TRUE, chunk |-> "old", ledger |-> "no_cwd", ver |-> 1]
Renaming == [owner |-> "agent_id", harness |-> "new", index |-> TRUE, registry |-> "right",
             fts |-> TRUE, chunk |-> "new", ledger |-> "nullable_cwd", ver |-> 2]
Torn == [Swept EXCEPT !.owner = "both"]
Foreign == [Swept EXCEPT !.harness = "unknown"]
Shapes == {NewDatabase, Oldest, Swept, Renaming, Torn, Foreign}

(* Nothing tells memories apart: of the databases that differ by a renaming *)
(* of the memories, the one that mentions them in order stands for all.     *)
MentionedInOrder(s) ==
  LET ends == FlattenSeq([i \in DOMAIN s |-> <<s[i].src, s[i].tgt>>])
  IN  \A k \in DOMAIN ends : ends[k] <= 1 + Max({0} \cup {ends[j] : j \in 1..(k - 1)})

(* Rows a release of that version could have written. *)
RowsOf(shape) ==
  IF shape = NewDatabase THEN {<<>>}
  ELSE {s \in UNION {[1..n -> RowSet] : n \in 0..OldRows} :
          /\ MentionedInOrder(s)
          /\ shape.index => ~ Duplicated(s)
          /\ shape.ver >= 2 => \A i \in DOMAIN s : ~ IsAlias(s[i].pred)
          /\ shape \in {Torn, Foreign} => s = <<>>}

(* All memories start active with a vector: what an earlier release archived *)
(* is a memory a caller archived.                                           *)
Found(shape, rows) ==
  [shape |-> shape, rel |-> rows, linked |-> shape.ver >= 2,
   archived |-> {}, vectors |-> IF shape.chunk = "absent" THEN {} ELSE Notes,
   hashed |-> IF shape.ver >= 2 THEN Notes ELSE {},
   searchable |-> IF shape.fts THEN Notes ELSE {},
   backlog |-> IF shape.ver = 0 /\ shape # NewDatabase THEN {"e1", "e2"} ELSE {}]

MigInit ==
  /\ \E shape \in Shapes : \E rows \in RowsOf(shape) : disk = Found(shape, rows)
  /\ pending = disk
  /\ boot = [at |-> "down", ext |-> TRUE]
  /\ tally = [starts |-> 0, errors |-> 0, served |-> 0]
  /\ past = [rows |-> disk.rel, archived |-> {}]

-----------------------------------------------------------------------------
(* The steps of _write.  Each maps the database to the database.            *)

(* Both columns at once is refused, see Refuse. *)
RenameOwner(d) == [d EXCEPT !.shape.owner = "agent_id"]

(* Additive columns, then the backfills of hash and embedding status. *)
BackfillMetadata(d) == [d EXCEPT !.hashed = Notes]

WidenHarness(d) == [d EXCEPT !.shape.harness = "new"]

(* Only the earliest row of each active triple stays; closed rows are history. *)
DedupKept(rel) ==
  {i \in DOMAIN rel : rel[i].open =>
     \A j \in ActiveIds(rel) : Triple(rel[j]) = Triple(rel[i]) => i <= j}

RelationIndex(d) ==
  IF d.shape.index THEN d
  ELSE [d EXCEPT !.shape.index = TRUE,
                 !.rel = [i \in DedupKept(d.rel) |-> d.rel[i]]]

(* Seeding never overrides a canonical_id that is already set. *)
SeedRegistry(d) ==
  [d EXCEPT !.shape.registry = IF @ = "none" THEN "right" ELSE @]

(* A missing or outdated text index is dropped, created and filled. *)
EnsureFts(d) ==
  [d EXCEPT !.shape.fts = TRUE, !.searchable = IF d.shape.fts THEN @ ELSE Notes]

(* Drop and recreate: the chunk vectors of the old shape go. *)
MigrateChunks(d) == [d EXCEPT !.shape.chunk = IF @ = "old" THEN "new" ELSE @]

(* Best effort: without the extension the tables stay absent. *)
InitVectors(d) ==
  [d EXCEPT !.shape.chunk = IF @ = "absent" /\ boot.ext THEN "new" ELSE @]

(* Create, add cwd, or rebuild the ledger with a nullable cwd; rows are kept. *)
EnsureLedger(d) == [d EXCEPT !.shape.ledger = "nullable_cwd"]

(* Triggers are dropped and recreated, indexes created if missing. *)
RecreateTriggers(d) == d

(* In their order: the columns and rows every later step reads, ... *)
EnsureTables(d) ==
  EnsureFts(SeedRegistry(RelationIndex(WidenHarness(BackfillMetadata(RenameOwner(d))))))

(* ... then the vector tables, the ledger and the triggers on all of it. *)
EnsureVectorsAndLedger(d) ==
  RecreateTriggers(EnsureLedger(InitVectors(MigrateChunks(d))))

(* What makes a step raise out of init_db. *)
Refuses(d) ==
  \/ d.shape.owner = "both"
  \/ d.shape.harness = "unknown"
  \/ d.shape.chunk = "old" /\ ~ boot.ext

-----------------------------------------------------------------------------
(* Version 2: predicate drift, registry, history edges.                     *)

(* What is taken when active row i is visited, in rowid order: the triples  *)
(* of the active rows not of the old vocabulary, which claim first, and the *)
(* renamed triples of the rows before i.                                    *)
Taken(rel, i) ==
  {Triple(Renamed(rel[j])) : j \in {k \in ActiveIds(rel) : k < i \/ ~ IsAlias(rel[k].pred)}}

(* The active alias rows among ids: closed on a taken triple, else renamed. *)
RenameActive(rel, ids) ==
  [i \in DOMAIN rel |->
     IF ~ (i \in ids /\ rel[i].open /\ IsAlias(rel[i].pred)) THEN rel[i]
     ELSE IF Triple(Renamed(rel[i])) \in Taken(rel, i) THEN [rel[i] EXCEPT !.open = FALSE]
     ELSE Renamed(rel[i])]

(* Closed rows collide with nothing.                                        *)
RenameClosed(rel, ids) ==
  [i \in DOMAIN rel |-> IF i \in ids /\ ~ rel[i].open THEN Renamed(rel[i]) ELSE rel[i]]

ActiveRenamed(rel) == RenameActive(rel, DOMAIN rel)

(* Seeded fault: the closed rows are read before the active ones change.    *)
RenameAllSnapshot(rel) ==
  RenameClosed(ActiveRenamed(rel), {i \in DOMAIN rel : ~ rel[i].open})

(* First the active rows, then every closed one, those just closed for a    *)
(* collision included.                                                      *)
RenameAll(rel) == RenameClosed(ActiveRenamed(rel), DOMAIN rel)

(* The rows as each row update of the drift rewrite leaves them.            *)
RenameStages(rel) ==
  LET firsts == {{i \in DOMAIN rel : i <= k} : k \in {0} \cup DOMAIN rel}
  IN  {RenameActive(rel, ids) : ids \in firsts} \cup {RenameClosed(ActiveRenamed(rel), ids) : ids \in firsts}

(* A duplicate met on the way aborts the statement: an IntegrityError,      *)
(* which nothing catches.                                                   *)
DriftAborts(d) == d.shape.index /\ \E rel \in RenameStages(d.rel) : Duplicated(rel)

PredicateVersion2(d) ==
  [d EXCEPT !.rel = RenameAll(@), !.shape.registry = "right", !.linked = TRUE, !.shape.ver = 2]

(* What an error in the middle keeps: a prefix of the row updates, and after *)
(* all of them the registry, and after that the edges to history snapshots. *)
Version2Partial(d) ==
  {[d EXCEPT !.rel = rel] : rel \in RenameStages(d.rel)}
  \cup {[d EXCEPT !.rel = RenameAll(@), !.shape.registry = "right", !.linked = b] : b \in BOOLEAN}

-----------------------------------------------------------------------------
(* Version 3: lifecycle drift.                                              *)

(* The gate: only a database whose prerequisites have run. *)
Version3Due(d) == d.shape.ver = 2
(* Version 2's own gate. *)
Version2Due(d) == d.shape.ver < 2

WithoutSelf(rel) ==
  [i \in DOMAIN rel |-> [rel[i] EXCEPT !.open = @ /\ rel[i].src # rel[i].tgt]]

Supersedes(rel) == {i \in ActiveIds(rel) : rel[i].pred = "supersedes" /\ rel[i].src # rel[i].tgt}

(* The connected component of m: the least set with m that no edge leaves.  *)
Component(edges, rel, m) ==
  LET Closed(c) == \A i \in edges : rel[i].src \in c <=> rel[i].tgt \in c
  IN  {n \in Notes : \A c \in SUBSET Notes : m \in c /\ Closed(c) => n \in c}

(* Linear: no branch, and one edge less than members, which rules out a cycle. *)
Linear(edges, rel, c) ==
  LET inside == {i \in edges : rel[i].src \in c}
  IN  /\ \A i, j \in inside : i # j => rel[i].src # rel[j].src /\ rel[i].tgt # rel[j].tgt
      /\ Cardinality(inside) = Cardinality(c) - 1

SafeTargets(rel) ==
  LET edges == Supersedes(rel)
  IN  {rel[i].tgt : i \in {e \in edges : Linear(edges, rel, Component(edges, rel, rel[e].tgt))}}

LifecycleInvariants(d) ==
  LET rel  == WithoutSelf(d.rel)
      gone == d.archived \cup SafeTargets(rel)
  IN  [d EXCEPT !.rel = rel, !.archived = gone, !.searchable = @ \ gone,
                !.vectors = @ \ gone, !.shape.ver = 3]

(* The cleanup reads all three vector tables, which takes the extension     *)
(* also when there is nothing to clean.                                     *)
CleanupFails(d) == ~ boot.ext \/ d.shape.chunk = "absent"

(* Seeded fault: no savepoint, the archived memories stay. *)
RolledBackNot(d) ==
  [d EXCEPT !.rel = WithoutSelf(@), !.archived = @ \cup SafeTargets(WithoutSelf(d.rel)),
            !.searchable = @ \ SafeTargets(WithoutSelf(d.rel))]

(* What a failed version 3 leaves: the savepoint's database. *)
RolledBack(d) == d

-----------------------------------------------------------------------------
At(p) == boot.at = p
Goto(p) == boot' = [boot EXCEPT !.at = p]

(* BEGIN IMMEDIATE; the lock is waited for with retries. *)
Startup ==
  /\ At("down") /\ tally.starts < MaxStartups
  /\ \E ext \in BOOLEAN : boot' = [at |-> "init", ext |-> ext]
  /\ pending' = disk
  /\ tally' = [tally EXCEPT !.starts = @ + 1]
  /\ UNCHANGED <<disk, past>>

(* The ten steps in their order; nothing sees the transaction in between. *)
EnsureSchema ==
  /\ At("init") /\ ~ Refuses(pending)
  /\ pending' = EnsureVectorsAndLedger(EnsureTables(pending))
  /\ Goto("v1")
  /\ UNCHANGED <<disk, tally, past>>

(* An exception escapes init_db: the transaction rolls back, no daemon. *)
Refuse ==
  /\ \/ At("init") /\ Refuses(pending)
     \/ At("v2") /\ Version2Due(pending) /\ DriftAborts(pending)
  /\ Goto("refused")
  /\ pending' = disk
  /\ UNCHANGED <<disk, tally, past>>

CanFail == tally.errors < MaxOpErrors
Failed == tally' = [tally EXCEPT !.errors = @ + 1]

(* dismiss_events writes one audit record per legacy event; an error in the *)
(* middle keeps those written so far and the version as it was.             *)
TrackAVersion1 ==
  /\ At("v1") /\ Goto("v2")
  /\ \/ /\ pending' = IF pending.shape.ver < 1 THEN [pending EXCEPT !.backlog = {}, !.shape.ver = 1] ELSE pending
        /\ UNCHANGED tally
     \/ /\ pending.shape.ver < 1 /\ CanFail /\ Failed
        /\ \E left \in SUBSET pending.backlog : pending' = [pending EXCEPT !.backlog = left]
  /\ UNCHANGED <<disk, past>>

(* No savepoint: an error keeps the rows rewritten so far. *)
PredicateVersion ==
  /\ At("v2") /\ Goto("v3")
  /\ \/ ~ Version2Due(pending) /\ UNCHANGED <<pending, tally>>
     \/ /\ Version2Due(pending) /\ ~ DriftAborts(pending)
        /\ pending' = PredicateVersion2(pending)
        /\ UNCHANGED tally
     \/ /\ Version2Due(pending) /\ ~ DriftAborts(pending) /\ CanFail /\ Failed
        /\ pending' \in Version2Partial(pending)
  /\ UNCHANGED <<disk, past>>

LifecycleVersion ==
  /\ At("v3") /\ Goto("commit")
  /\ \/ ~ Version3Due(pending) /\ UNCHANGED <<pending, tally>>
     \/ /\ Version3Due(pending) /\ ~ CleanupFails(pending)
        /\ pending' = LifecycleInvariants(pending)
        /\ UNCHANGED tally
     \/ /\ Version3Due(pending) /\ CleanupFails(pending)
        /\ pending' = RolledBack(pending)
        /\ UNCHANGED tally
     \/ /\ Version3Due(pending) /\ CanFail /\ Failed
        /\ pending' = RolledBack(pending)
  /\ UNCHANGED <<disk, past>>

Commit ==
  /\ At("commit")
  /\ disk' = pending
  /\ Goto("serving")
  /\ UNCHANGED <<pending, tally, past>>

Crash ==
  /\ boot.at \in {"init", "v1", "v2", "v3", "commit", "serving"}
  /\ Goto("down")
  /\ pending' = disk
  /\ UNCHANGED <<disk, tally, past>>

(* Served writes: the gate takes canonical names only and an active triple  *)
(* once; archiving drops the text row and, where the extension loads, the   *)
(* vector.                                                                  *)
ServeRelation ==
  /\ At("serving") /\ tally.served < MaxServed
  /\ \E s, t \in Notes :
       LET r == RelRow(s, "resolves", t, TRUE)
           n == Len(past.rows) + 1
       IN  /\ s # t
           /\ ~ \E i \in ActiveIds(disk.rel) : Triple(disk.rel[i]) = Triple(r)
           /\ disk' = [disk EXCEPT !.rel = [i \in DOMAIN @ \cup {n} |-> IF i = n THEN r ELSE @[i]]]
           /\ past' = [past EXCEPT !.rows = Append(@, r)]
  /\ tally' = [tally EXCEPT !.served = @ + 1]
  /\ pending' = disk'
  /\ UNCHANGED boot

ServeArchive ==
  /\ At("serving") /\ tally.served < MaxServed
  /\ \E m \in Notes \ disk.archived :
       /\ disk' = [disk EXCEPT !.archived = @ \cup {m}, !.searchable = @ \ {m},
                               !.vectors = IF boot.ext THEN @ \ {m} ELSE @]
       /\ past' = [past EXCEPT !.archived = @ \cup {m}]
  /\ tally' = [tally EXCEPT !.served = @ + 1]
  /\ pending' = disk'
  /\ UNCHANGED boot

MigNext ==
  \/ Startup \/ EnsureSchema \/ Refuse \/ TrackAVersion1 \/ PredicateVersion
  \/ LifecycleVersion \/ Commit \/ Crash \/ ServeRelation \/ ServeArchive

MigSpec == MigInit /\ [][MigNext]_mvars

-----------------------------------------------------------------------------
(* Every value has its kind. *)
MigTypeOK ==
  /\ boot.at \in {"down", "init", "v1", "v2", "v3", "commit", "serving", "refused"}
  /\ \A d \in {disk, pending} :
       /\ d.shape.ver \in 0..3
       /\ DOMAIN d.rel \subseteq 1..Len(past.rows)
       /\ \A i \in DOMAIN d.rel : d.rel[i] \in RowSet
       /\ d.archived \cup d.vectors \cup d.searchable \cup d.hashed \subseteq Notes

(* Only a database whose shape the code refuses to guess about keeps the    *)
(* daemon from starting: neither old duplicates nor the renaming of drifted *)
(* predicates ever meets the unique index.                                  *)
RefusedForShape ==
  At("refused") =>
    \/ disk.shape.owner = "both" \/ disk.shape.harness = "unknown"
    \/ disk.shape.chunk = "old" /\ ~ boot.ext

(* No fact is lost: whatever mix of partial migrations, retries and crashes *)
(* has run, every relation ever written still stands, in the old or the     *)
(* closed vocabulary, and a row that was closed history keeps its own row.  *)
NoFactLost ==
  \A n \in DOMAIN past.rows :
    LET said == Renamed(past.rows[n])
    IN  IF n \in DOMAIN disk.rel
        THEN LET now == Renamed(disk.rel[n])
             IN  Triple(now) = Triple(said) /\ (now.open => said.open)
        ELSE /\ said.open
             /\ \E i \in DOMAIN disk.rel : Triple(Renamed(disk.rel[i])) = Triple(said)

(* A database marked with version 2 or 3 holds no drifted predicate, open   *)
(* or closed, and its registry points at the canonical rows and the history  *)
(* is linked, also when a first attempt failed half-way and was committed.  *)
MarkedIsRenamed ==
  disk.shape.ver >= 2 =>
    /\ \A i \in DOMAIN disk.rel : ~ IsAlias(disk.rel[i].pred)
    /\ disk.shape.registry = "right" /\ disk.linked

(* An active triple that stood before the migration stands after it: of the *)
(* rows that meet in one canonical triple, exactly one stays open.          *)
OneOpenEach ==
  disk.shape.ver >= 2 =>
    \A n \in DOMAIN past.rows :
      past.rows[n].open /\ past.rows[n].src # past.rows[n].tgt =>
        Cardinality({i \in ActiveIds(disk.rel) :
                       Triple(disk.rel[i]) = Triple(Renamed(past.rows[n]))}) = 1

MigArchived(d) == d.archived \ past.archived

(* A memory the migration archives is superseded, link by link, by one that *)
(* the migration left alone: a cycle or a branch loses nobody.              *)
SupersededHasHeir ==
  \A s \in SUBSET MigArchived(disk) :
    s # {} => \E i \in Supersedes(disk.rel) : disk.rel[i].tgt \in s /\ disk.rel[i].src \notin s

(* Version 3 is all or nothing: until it has completed no memory is         *)
(* archived by it, and when it has completed none keeps a vector.           *)
LifecycleAllOrNothing ==
  [][disk' # disk /\ boot.at = "commit" =>
       IF disk'.shape.ver < 3 THEN MigArchived(disk') = {}
       ELSE disk.shape.ver < 3 => disk'.archived \cap disk'.vectors = {}]_mvars

\* Migrations keep what the database said: through crashes and errors between their steps no
\* fact is lost or doubled, a marked version is a finished one, a superseded memory has an heir
\* and a start is refused only for a shape that no migration reads.
FactsKept ==
  /\ MigTypeOK /\ RefusedForShape /\ NoFactLost /\ MarkedIsRenamed /\ OneOpenEach
  /\ SupersededHasHeir

=============================================================================
