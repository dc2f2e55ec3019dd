---------------------------- MODULE CoreGovernance ----------------------------
(***************************************************************************)
(* Core memories: few, small, regularly reviewed memories that every       *)
(* session is given at its start.                                          *)
(* src/saltmdb/domain/services/core_governance_service.py decides what may *)
(* become core, grow or stay; store, revise, supersede, consolidate,       *)
(* set_core, review and archive all go through it.                         *)
(*                                                                         *)
(* Each action is one write transaction: the resolution and the admission  *)
(* tests that run inside it and the rows it writes.  A refused call leaves *)
(* the state as it is.  Texts are abstracted to their lengths, since the   *)
(* limits are about lengths.  All memories are shared; a private one can   *)
(* be neither core nor a detail.                                           *)
(***************************************************************************)
EXTENDS Integers, FiniteSets, FiniteSetsExt

CONSTANTS
  Memories,
  Bodies,       \* lengths of title, type and content, which are frozen
  Notes,        \* reason and exit condition: length as given, and as kept
  Omitted,      \* an argument that was not given
  MaxActive,    \* CORE_MAX_ACTIVE
  MaxBody,      \* CORE_MAX_CONTENT_CHARS
  MaxRendered,  \* CORE_MAX_RENDERED_CHARS less the frame of the digest
  MaxDetails    \* CORE_MAX_DETAIL_MEMORY_IDS

ASSUME CoreAssumption ==
  /\ IsFiniteSet(Memories) /\ IsFiniteSet(Notes)
  /\ Bodies \subseteq Nat
  /\ Notes \subseteq [raw : Nat \ {0}, kept : Nat \ {0}] /\ Omitted \notin Notes
  /\ {MaxActive, MaxBody, MaxRendered, MaxDetails} \subseteq Nat

(* Lengths of a review date as datetime.isoformat writes it: microseconds   *)
(* are left out if zero.  A caller may write Z for +00:00.  A date that was *)
(* not given is rendered as None.                                           *)
ShortDate == 25
LongDate == 32
Dates == {ShortDate, LongDate}
ZuluSaves == 5
NoneLength == 4
DueSaves == 2   \* "true" for "false", in two places

VARIABLE mem    \* the rows of entities; a zero length is NULL

(* A row that is not core (_non_core_state).                                *)
Ordinary(st, b) == [status |-> st, core |-> FALSE, body |-> b, note |-> 0,
                    date |-> 0, due |-> FALSE, details |-> {}]

Init == mem = [m \in Memories |-> Ordinary("absent", 0)]

-----------------------------------------------------------------------------
(* What is asked of the rows                                                *)

(* load_active_cores                                                        *)
Injected(r) == r.core /\ r.status \notin {"absent", "archived"}
ActiveCores == {m \in Memories : Injected(mem[m])}

(* is_overdue, has_overdue_core                                             *)
OverdueCores == {m \in ActiveCores : mem[m].due \/ mem[m].date = 0}

(* render_core_entry: the longer form, which every admission counts, and    *)
(* the one that is rendered.                                                *)
Entry(r) == r.body + r.note + r.date
Rendered(r) == Entry(r) - (IF r.due THEN DueSaves ELSE 0)

Digest(cores) == MapThenSumSet(LAMBDA m : Entry(mem[m]), cores)

(* Seeded fault: the entry that joins is not counted.                       *)
AdmitsOthers(leaving, r) ==
  LET staying == ActiveCores \ leaving
  IN /\ Cardinality(staying) < MaxActive
     /\ r.body <= MaxBody
     /\ Digest(staying) <= MaxRendered

(* Seeded fault: a full set takes one more.                                 *)
AdmitsOneMore(leaving, r) ==
  LET staying == ActiveCores \ leaving
  IN /\ Cardinality(staying) <= MaxActive
     /\ r.body <= MaxBody
     /\ Digest(staying) + Entry(r) <= MaxRendered

(* check_capacity_admission for a row that joins while others leave.        *)
Admits(leaving, r) ==
  LET staying == ActiveCores \ leaving
  IN /\ Cardinality(staying) + 1 <= MaxActive
     /\ r.body <= MaxBody
     /\ Digest(staying) + Entry(r) <= MaxRendered

(* Seeded fault: the core that is being changed is not looked at.           *)
WithinBoundarySelf(m, r, redated) ==
  \/ OverdueCores \ {m} = {}
  \/ mem[m].core /\ ~redated /\ Entry(r) <= Entry(mem[m])

(* enforce_overdue_boundary for a row that replaces m's: while a review is  *)
(* overdue there is no new core, no new date and no longer entry.           *)
WithinBoundary(m, r, redated) ==
  \/ OverdueCores = {}
  \/ mem[m].core /\ ~redated /\ Entry(r) <= Entry(mem[m])

(* validate_detail_memory_ids, whatever the status of the detail; a memory  *)
(* is not its own detail, since a relation to itself is refused.            *)
DetailsValid(m, ds) ==
  /\ Cardinality(ds) <= MaxDetails
  /\ \A d \in ds \ {m} : mem[d].status # "absent" /\ ~mem[d].core
  /\ m \notin ds

-----------------------------------------------------------------------------
(* Store and set                                                            *)

(* The row that store_memory finds or creates.                              *)
Found(m, b) ==
  IF mem[m].status = "absent" THEN Ordinary("raw", b) ELSE mem[m]

(* resolve_store_core_state for a core: what is not given is kept, and a    *)
(* missing date gets the default.                                           *)
CoreRow(r, n, redated, d, ds) ==
  LET fresh == redated \/ r.date = 0
  IN [status |-> r.status, core |-> TRUE, body |-> r.body,
      note |-> IF n = Omitted THEN r.note ELSE n.kept,
      date |-> IF fresh THEN d ELSE r.date,
      due |-> IF fresh THEN FALSE ELSE r.due,
      details |-> IF ds = Omitted THEN r.details ELSE ds]

(* The validations of resolve_store_core_state.                             *)
CoreRowValid(m, r) == r.note # 0 /\ r.body <= MaxBody /\ DetailsValid(m, r.details)

(* Seeded fault: an update in place is not admitted again.                  *)
AdmissionNew(m, r, redated) ==
  mem[m].status = "archived" \/ mem[m].core \/ (WithinBoundary(m, r, redated) /\ Admits({m}, r))

(* _resolve_raw_core_state, _set_core_admission: a row that stays archived  *)
(* counts for nothing.                                                      *)
Admission(m, r, redated) ==
  mem[m].status = "archived" \/ (WithinBoundary(m, r, redated) /\ Admits({m}, r))

(* store_memory with an effective is_core of true: a new memory, or core    *)
(* fields of one that exists; redated: with another review date.            *)
StoreCore(m, b, n, redated, d, ds) ==
  LET r == CoreRow(Found(m, b), n, redated, d, ds)
  IN /\ CoreRowValid(m, r)
     /\ Admission(m, r, redated /\ mem[m].date # 0)
     /\ mem' = [mem EXCEPT ![m] = r]

(* store_memory with an effective is_core of false: is_core omitted for a   *)
(* memory that is not core, or false for any.                               *)
StoreOrdinary(m, b) ==
  LET r == Found(m, b)
  IN mem' = [mem EXCEPT ![m] = Ordinary(r.status, r.body)]

(* set_core_memory: an omitted declaration is kept by a core and empty for  *)
(* a promotion; a call that changes nothing ends before admission.          *)
SetCore(m, n, d, ds) ==
  LET declared == IF ds = Omitted /\ ~mem[m].core THEN {} ELSE ds
      r == CoreRow(mem[m], n, FALSE, d, declared)
  IN /\ mem[m].status = "raw"
     /\ CoreRowValid(m, r)
     /\ r # mem[m]
     /\ Admission(m, r, FALSE)
     /\ mem' = [mem EXCEPT ![m] = r]

-----------------------------------------------------------------------------
(* Revise, supersede, consolidate                                           *)

Archived(r) == [r EXCEPT !.status = "archived"]

(* The sources are archived and the new row joins, in one transaction.      *)
Replaces(sources, m, r) ==
  mem' = [x \in Memories |-> IF x = m THEN r ELSE IF x \in sources THEN Archived(mem[x]) ELSE mem[x]]

(* revise_memory and supersede_memory have one source and make a raw row,   *)
(* commit_consolidation makes a consolidated one of any number.             *)
Derivable(sources, m, st) ==
  /\ mem[m].status = "absent"
  /\ sources # {} /\ \A s \in sources : mem[s].status = "raw"
  /\ st = "raw" => Cardinality(sources) = 1

(* Without a decision about core the sources may not be core.               *)
DeriveOrdinary(sources, m, st, b, decided) ==
  /\ decided \/ sources \cap ActiveCores = {}
  /\ Replaces(sources, m, Ordinary(st, b))

(* What the admission of a derived core counts: the declaration as given.   *)
Declared(r, n, date) == [r EXCEPT !.note = n.raw, !.date = date]

(* enforce_overdue_boundary for a derived core: sources count too.          *)
NoOverdue(sources) == OverdueCores = {}

(* resolve_derived_core_state.  The row gets a date of length d, while the  *)
(* admission sees it as written: not at all, in full or with a Z.           *)
DeriveCore(sources, m, st, b, n, written, d, ds) ==
  LET r == CoreRow(Ordinary(st, b), n, TRUE, d, ds)
  IN /\ CoreRowValid(m, r)
     /\ NoOverdue(sources)
     /\ Admits(sources, Declared(r, n, written))
     /\ Replaces(sources, m, r)

-----------------------------------------------------------------------------
(* Review, archive, time                                                    *)

(* _review_retain: a new date, given or by default.                         *)
Retain(m, d) ==
  /\ m \in ActiveCores
  /\ mem' = [mem EXCEPT ![m].date = d, ![m].due = FALSE]

(* _review_demote: the reason and the declared details stay in the row.     *)
Demote(m) ==
  /\ mem[m].core
  /\ mem' = [mem EXCEPT ![m].core = FALSE, ![m].date = 0, ![m].due = FALSE]

(* archive_memory, and _review_archive for a core: is_core stays set.       *)
Archive(m) ==
  /\ mem[m].status \in {"raw", "consolidated"}
  /\ mem' = [mem EXCEPT ![m] = Archived(@)]

(* Time reaches a review date.                                              *)
FallsDue(m) ==
  /\ m \in ActiveCores /\ mem[m].date # 0 /\ ~mem[m].due
  /\ mem' = [mem EXCEPT ![m].due = TRUE]

-----------------------------------------------------------------------------
Declarations == {ds \in SUBSET Memories : Cardinality(ds) <= MaxDetails} \cup {Omitted}

(* The content of a memory that exists is frozen.                           *)
Store(m) ==
  \E b \in Bodies :
    /\ mem[m].status = "absent" \/ b = mem[m].body
    /\ \/ StoreOrdinary(m, b)
       \/ \E n \in Notes \cup {Omitted}, redated \in BOOLEAN, d \in Dates, ds \in Declarations :
            StoreCore(m, b, n, redated, d, ds)
Set(m) == \E n \in Notes, d \in Dates, ds \in Declarations : SetCore(m, n, d, ds)
Derive(m) ==
  \E sources \in SUBSET Memories, st \in {"raw", "consolidated"}, b \in Bodies :
    /\ Derivable(sources, m, st)
    /\ \/ \E decided \in BOOLEAN : DeriveOrdinary(sources, m, st, b, decided)
       \/ \E n \in Notes, d \in Dates, ds \in Declarations \ {Omitted} :
            \E written \in {NoneLength, d, d - ZuluSaves} :
              DeriveCore(sources, m, st, b, n, written, d, ds)
Review(m) == Demote(m) \/ \E d \in Dates : Retain(m, d)

Next == \E m \in Memories : Store(m) \/ Set(m) \/ Derive(m) \/ Review(m) \/ Archive(m) \/ FallsDue(m)

Spec == Init /\ [][Next]_mem

-----------------------------------------------------------------------------
(* Properties                                                               *)

Rows == [status : {"absent", "raw", "consolidated", "archived"}, core : BOOLEAN, body : Nat,
         note : Nat, date : {0} \cup Dates, due : BOOLEAN, details : SUBSET Memories]

(* Every row has its type; a review date goes with the core flag, and a due *)
(* date is a date.                                                          *)
TypeOK ==
  /\ mem \in [Memories -> Rows]
  /\ \A m \in Memories : (mem[m].date # 0 <=> mem[m].core) /\ (mem[m].due => mem[m].core)

(* "active injectable core count <= CORE_MAX_ACTIVE", whichever way a core  *)
(* came to be: stored, promoted, revised, consolidated.                     *)
CountBounded == Cardinality(ActiveCores) <= MaxActive

(* Every core that is injected carries a reason, a review date and a        *)
(* content of bounded length, so that bootstrap does not fail closed on it  *)
(* (_invariant_row_violations), after any demotions and promotions.         *)
CoresWellFormed ==
  \A m \in ActiveCores : mem[m].note # 0 /\ mem[m].date # 0 /\ mem[m].body <= MaxBody

(* "While any core is overdue for review, creating/promoting a new core" is *)
(* blocked on every path, also if the new core replaces the overdue one.    *)
OverdueBlocksNew == [][OverdueCores # {} => ActiveCores' \subseteq ActiveCores]_mem

(* While any core is overdue only a review that retains a core enlarges its *)
(* entry, and only such a review makes an overdue core current again.       *)
OverdueFreezes ==
  [][OverdueCores # {} =>
       \A m \in ActiveCores \cap ActiveCores' :
         \/ Entry(mem'[m]) <= Entry(mem[m]) /\ (mem[m].due => mem'[m].due)
         \/ \E d \in Dates : Retain(m, d)]_mem

(* find_invariant_violations: the digest that is rendered is within limits. *)
Fits == MapThenSumSet(LAMBDA m : Rendered(mem[m]), ActiveCores) <= MaxRendered

(* Storing, promoting and changing a core never make the digest too long,   *)
(* nor does time.                                                           *)
AdmittedFits ==
  [][Fits /\ ~Fits' => \E m \in Memories : Review(m) \/ Derive(m)]_mem

NoteGrowth == Max({0} \cup {n.kept - n.raw : n \in Notes})

(* The digest exceeds its limit by at most one declaration that was counted *)
(* as given and by the microseconds of each date: however many derived      *)
(* writes and reviews follow each other, the excess does not add up.        *)
OverrunBounded ==
  Digest(ActiveCores) <=
    MaxRendered + (ShortDate - NoneLength) + NoteGrowth
                + (LongDate - ShortDate) * Cardinality(ActiveCores)

(* "A write that would exceed any limit returns rejected": a revision, a    *)
(* replacement or a consolidation.                                          *)
DeriveFits == [][Fits /\ (\E m \in Memories : Derive(m)) => Fits']_mem

(* The cores that are injected are few, and each has what bootstrap         *)
(* requires of it, after any sequence of writes and reviews.                *)
CoresSound == TypeOK /\ CoresWellFormed /\ CountBounded

(* "while any core is overdue": no core is added on any path and none is    *)
(* enlarged or renewed but by a review that retains it.                     *)
OverdueHolds == OverdueBlocksNew /\ OverdueFreezes

=============================================================================
