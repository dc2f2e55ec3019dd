---------------------------- MODULE Digest_proofs ----------------------------
(***************************************************************************)
(* Proofs about the two digests a session is given when it starts: that of *)
(* the core memories (CoreGovernance) and that of the sessions before it   *)
(* (SessionHandover), for any memories, sessions, lengths and budgets.     *)
(* The count, the shape of the rows and the overdue boundary of the core   *)
(* do not depend on what Digest sums up; the second part proves what the   *)
(* sum of the community module computes and how long the digest becomes;   *)
(* the third is the digest of the sessions.                                *)
(***************************************************************************)
EXTENDS CoreGovernance, SessionHandover, FiniteSetTheorems, WellFoundedInduction, TLAPS

(* A set that gains at most one element while others leave stays within the *)
(* limit if the admission test of check_capacity_admission passed.          *)
LEMMA Joining ==
  ASSUME NEW S, IsFiniteSet(S), NEW L, NEW x,
         Cardinality(S \ L) + 1 <= MaxActive,
         NEW T \in SUBSET ((S \ L) \cup {x})
  PROVE  Cardinality(T) <= MaxActive
<1>1. IsFiniteSet(S \ L)
  BY FS_Subset
<1>a. Cardinality(S \ L) \in Nat
  BY <1>1, FS_CardinalityType
<1>b. /\ IsFiniteSet((S \ L) \cup {x})
      /\ Cardinality((S \ L) \cup {x}) =
           IF x \in S \ L THEN Cardinality(S \ L) ELSE Cardinality(S \ L) + 1
  BY ONLY <1>1, FS_AddElement, Zenon
<1>2. IsFiniteSet((S \ L) \cup {x}) /\ Cardinality((S \ L) \cup {x}) <= Cardinality(S \ L) + 1
  BY <1>a, <1>b
<1>3. IsFiniteSet(T) /\ Cardinality(T) <= Cardinality((S \ L) \cup {x})
  BY <1>2, FS_Subset
<1> QED
  BY <1>1, <1>2, <1>3, FS_CardinalityType, CoreAssumption

(* The active cores are finitely many.                                      *)
LEMMA FiniteCores == IsFiniteSet(ActiveCores) /\ Cardinality(ActiveCores) \in Nat
  BY CoreAssumption, FS_Subset, FS_CardinalityType DEF ActiveCores

(* The row that a core write leaves has the type of a row, is core and has  *)
(* a date (resolve_store_core_state).                                       *)
LEMMA CoreRowType ==
  ASSUME NEW r \in Rows, NEW n \in Notes \cup {Omitted}, NEW redated \in BOOLEAN, NEW d \in Dates,
         NEW ds \in Declarations
  PROVE  LET c == CoreRow(r, n, redated, d, ds)
         IN /\ c \in Rows /\ c.core /\ c.date # 0
            /\ c.status = r.status /\ c.body = r.body
            /\ (r.date # 0 /\ ~redated => c.date = r.date /\ c.due = r.due)
<1> DEFINE c == CoreRow(r, n, redated, d, ds)
<1>1. n # Omitted => n.kept \in Nat
  BY CoreAssumption
<1>2. ds # Omitted => ds \in SUBSET Memories
  BY DEF Declarations
<1>3. d \in Nat /\ d # 0
  BY DEF Dates, ShortDate, LongDate
<1>5. c.core /\ c.status = r.status /\ c.body = r.body
  BY DEF CoreRow
<1>6. c.date # 0 /\ (r.date # 0 /\ ~redated => c.date = r.date /\ c.due = r.due)
  BY <1>3 DEF CoreRow
<1>7. c \in Rows
  BY <1>1, <1>2, <1>3 DEF CoreRow, Rows
<1> QED
  BY <1>5, <1>6, <1>7

(* What every row is at any time; Rows types it.                            *)
RowInv(r) ==
  /\ r \in Rows
  /\ r.date # 0 <=> r.core
  /\ r.due => r.core
  /\ r.core => r.status # "absent"
  /\ Injected(r) => r.note # 0 /\ r.body <= MaxBody

RowsInv == mem \in [Memories -> Rows] /\ \A x \in Memories : RowInv(mem[x])

(* The inductive invariant.                                                 *)
Inv == RowsInv /\ CountBounded

(* The row of a new or ordinary memory.                                     *)
LEMMA OrdinaryRow ==
  ASSUME NEW st \in {"absent", "raw", "consolidated", "archived"}, NEW b \in Nat
  PROVE  RowInv(Ordinary(st, b)) /\ ~Ordinary(st, b).core
BY DEF RowInv, Ordinary, Rows, Injected

(* An archived row is still a row, and is not injected.                     *)
LEMMA ArchivedRow ==
  ASSUME NEW r, RowInv(r)
  PROVE  RowInv(Archived(r)) /\ ~Injected(Archived(r))
<1>1. Archived(r) = [status |-> "archived", core |-> r.core, body |-> r.body, note |-> r.note,
                     date |-> r.date, due |-> r.due, details |-> r.details]
  BY DEF Archived, RowInv, Rows
<1> QED
  BY <1>1 DEF RowInv, Rows, Injected

(* What a write does to the set of cores if it gives m another row and      *)
(* archives the memories in L.                                              *)
LEMMA Replacement ==
  ASSUME RowsInv, NEW m \in Memories, NEW L \in SUBSET Memories,
         mem' \in [Memories -> Rows], RowInv(mem'[m]),
         \A x \in Memories \ {m} : mem'[x] = IF x \in L THEN Archived(mem[x]) ELSE mem[x]
  PROVE  RowsInv' /\ ActiveCores' \subseteq (ActiveCores \ L) \cup {m}
                 /\ (~Injected(mem'[m]) => m \notin ActiveCores')
<1>1. ASSUME NEW x \in Memories \ {m}
      PROVE  RowInv(mem'[x]) /\ (Injected(mem'[x]) => x \notin L /\ Injected(mem[x]))
  BY ArchivedRow DEF RowsInv
<1> QED
  BY <1>1 DEF RowsInv, ActiveCores

(* A write that touches the row of m only.                                  *)
LEMMA InPlace ==
  ASSUME RowsInv, NEW m \in Memories, mem' = [mem EXCEPT ![m] = mem'[m]], RowInv(mem'[m])
  PROVE  RowsInv' /\ ActiveCores' \subseteq (ActiveCores \ {m}) \cup {m}
                 /\ (~Injected(mem'[m]) => ActiveCores' \subseteq ActiveCores)
<1>1. mem' \in [Memories -> Rows] /\ \A x \in Memories \ {m} : mem'[x] = mem[x]
  BY DEF RowsInv, RowInv
<1>a. /\ {} \in SUBSET Memories
      /\ \A x \in Memories \ {m} : mem'[x] = IF x \in {} THEN Archived(mem[x]) ELSE mem[x]
  BY <1>1
<1>2. /\ RowsInv'
      /\ ActiveCores' \subseteq (ActiveCores \ {}) \cup {m}
      /\ (~Injected(mem'[m]) => m \notin ActiveCores')
  BY <1>1, <1>a, Replacement
<1> QED
  BY <1>2

(* Archiving and demoting leave fewer cores; retaining and time leave the   *)
(* same.                                                                    *)
LEMMA SmallSteps ==
  ASSUME RowsInv, NEW m \in Memories, Review(m) \/ Archive(m) \/ FallsDue(m)
  PROVE  RowsInv' /\ ActiveCores' \subseteq ActiveCores
<1>0. RowInv(mem[m]) /\ mem[m] \in Rows /\ m \in DOMAIN mem
  BY DEF RowsInv, RowInv
<1>1. CASE Demote(m)
  <2>1. mem'[m] = [status |-> mem[m].status, core |-> FALSE, body |-> mem[m].body,
                   note |-> mem[m].note, date |-> 0, due |-> FALSE, details |-> mem[m].details]
        /\ mem' = [mem EXCEPT ![m] = mem'[m]]
    BY <1>0, <1>1 DEF Demote, Rows, RowsInv
  <2>2. RowInv(mem'[m]) /\ ~Injected(mem'[m])
    BY <1>0, <2>1 DEF RowInv, Rows, Injected
  <2> QED
    BY <2>1, <2>2, InPlace
<1>2. ASSUME NEW d \in Dates, Retain(m, d) PROVE RowsInv' /\ ActiveCores' \subseteq ActiveCores
  <2>1. mem'[m] = [status |-> mem[m].status, core |-> mem[m].core, body |-> mem[m].body,
                   note |-> mem[m].note, date |-> d, due |-> FALSE, details |-> mem[m].details]
        /\ mem' = [mem EXCEPT ![m] = mem'[m]]
    BY <1>0, <1>2 DEF Retain, Rows, RowsInv
  <2>2. m \in ActiveCores /\ mem[m].core
    BY <1>2 DEF Retain, ActiveCores, Injected
  <2>3. RowInv(mem'[m])
    BY <1>0, <2>1, <2>2 DEF RowInv, Rows, Injected, Dates, ShortDate, LongDate
  <2> QED
    BY <2>1, <2>2, <2>3, InPlace
<1>3. CASE Archive(m)
  <2>1. mem'[m] = Archived(mem[m]) /\ mem' = [mem EXCEPT ![m] = mem'[m]]
    BY <1>0, <1>3 DEF Archive, RowsInv
  <2>2. RowInv(mem'[m]) /\ ~Injected(mem'[m])
    BY <1>0, <2>1, ArchivedRow
  <2> QED
    BY <2>1, <2>2, InPlace
<1>4. CASE FallsDue(m)
  <2>1. mem'[m] = [status |-> mem[m].status, core |-> mem[m].core, body |-> mem[m].body,
                   note |-> mem[m].note, date |-> mem[m].date, due |-> TRUE,
                   details |-> mem[m].details]
        /\ mem' = [mem EXCEPT ![m] = mem'[m]]
    BY <1>0, <1>4 DEF FallsDue, Rows, RowsInv
  <2>2. m \in ActiveCores /\ mem[m].core
    BY <1>4 DEF FallsDue, ActiveCores, Injected
  <2>3. RowInv(mem'[m])
    BY <1>0, <2>1, <2>2 DEF RowInv, Rows, Injected
  <2> QED
    BY <2>1, <2>2, <2>3, InPlace
<1> QED
  BY <1>1, <1>2, <1>3, <1>4 DEF Review

(* A write in place that made m a core, or left it one.                     *)
MadeCore(m) ==
  /\ mem' = [mem EXCEPT ![m] = mem'[m]]
  /\ RowInv(mem'[m])
  /\ mem[m].status = "archived" => mem'[m].status = "archived"

(* What store_memory leaves in the row of a core, and what was tested.      *)
LEMMA StoreCoreRow ==
  ASSUME RowsInv, NEW m \in Memories, NEW b \in Bodies, NEW n \in Notes \cup {Omitted},
         NEW redated \in BOOLEAN, NEW d \in Dates, NEW ds \in Declarations,
         StoreCore(m, b, n, redated, d, ds)
  PROVE  /\ MadeCore(m)
         /\ Admission(m, mem'[m], redated /\ mem[m].date # 0)
         /\ mem[m].core /\ ~redated => mem'[m].due = mem[m].due
<1> DEFINE f == Found(m, b)
           r == CoreRow(f, n, redated, d, ds)
<1>0. b \in Nat /\ RowInv(mem[m]) /\ mem[m] \in Rows
  BY CoreAssumption DEF RowsInv, RowInv
<1>1. RowInv(f) /\ f \in Rows /\ f.status # "absent" /\ (mem[m].core => f = mem[m])
      /\ (mem[m].status = "archived" => f = mem[m])
  <2>1. RowInv(Ordinary("raw", b)) /\ Ordinary("raw", b).status = "raw"
    BY <1>0, OrdinaryRow DEF Ordinary
  <2> QED
    BY <1>0, <2>1 DEF Found, RowInv
<1>2. /\ r \in Rows /\ r.core /\ r.date # 0 /\ r.status = f.status
      /\ (f.date # 0 /\ ~redated => r.due = f.due)
  BY <1>1, CoreRowType
<1>3. CoreRowValid(m, r) /\ Admission(m, r, redated /\ mem[m].date # 0)
      /\ mem' = [mem EXCEPT ![m] = r]
  BY DEF StoreCore
<1>4. mem'[m] = r /\ mem' = [mem EXCEPT ![m] = mem'[m]]
  BY <1>3 DEF RowsInv
<1>5. RowInv(r)
  BY <1>1, <1>2, <1>3 DEF RowInv, CoreRowValid
<1>6. mem[m].core /\ ~redated => r.due = mem[m].due
  BY <1>0, <1>1, <1>2 DEF RowInv
<1> QED
  BY <1>1, <1>2, <1>3, <1>4, <1>5, <1>6 DEF MadeCore

(* The same of set_core_memory.                                             *)
LEMMA SetCoreRow ==
  ASSUME RowsInv, NEW m \in Memories, NEW n \in Notes, NEW d \in Dates, NEW ds \in Declarations,
         SetCore(m, n, d, ds)
  PROVE  /\ MadeCore(m)
         /\ Admission(m, mem'[m], FALSE)
         /\ mem[m].core => mem'[m].due = mem[m].due
<1> DEFINE declared == IF ds = Omitted /\ ~mem[m].core THEN {} ELSE ds
           r == CoreRow(mem[m], n, FALSE, d, declared)
<1>0. RowInv(mem[m]) /\ mem[m] \in Rows
  BY DEF RowsInv, RowInv
<1>1. declared \in Declarations
  <2>1. {} \in Declarations
    BY FS_EmptySet, CoreAssumption DEF Declarations
  <2> QED
    BY <2>1
<1>2. /\ r \in Rows /\ r.core /\ r.date # 0 /\ r.status = mem[m].status
      /\ (mem[m].date # 0 => r.due = mem[m].due)
  <2> HIDE DEF declared
  <2>1. ASSUME NEW re \in BOOLEAN, ~re
        PROVE  LET c == CoreRow(mem[m], n, re, d, declared)
               IN /\ c \in Rows /\ c.core /\ c.date # 0 /\ c.status = mem[m].status
                  /\ (mem[m].date # 0 => c.due = mem[m].due)
    BY <1>0, <1>1, <2>1, CoreRowType
  <2> QED
    BY <2>1
<1>3. mem[m].status = "raw" /\ CoreRowValid(m, r) /\ Admission(m, r, FALSE)
      /\ mem' = [mem EXCEPT ![m] = r]
  BY DEF SetCore
<1>4. mem'[m] = r /\ mem' = [mem EXCEPT ![m] = mem'[m]]
  BY <1>3 DEF RowsInv
<1>5. RowInv(r)
  BY <1>2, <1>3 DEF RowInv, CoreRowValid
<1> QED
  BY <1>0, <1>2, <1>3, <1>4, <1>5 DEF MadeCore, RowInv

(* An admitted write in place keeps the invariant, and while a review is    *)
(* overdue it concerns a core that was one before.                          *)
LEMMA InPlaceAdmitted ==
  ASSUME Inv, NEW m \in Memories, NEW redated \in BOOLEAN, MadeCore(m),
         Admission(m, mem'[m], redated)
  PROVE  /\ Inv'
         /\ OverdueCores # {} => ActiveCores' \subseteq ActiveCores
<1>1. /\ RowsInv' /\ ActiveCores' \subseteq (ActiveCores \ {m}) \cup {m}
      /\ (~Injected(mem'[m]) => ActiveCores' \subseteq ActiveCores)
  BY InPlace DEF Inv, MadeCore
<1>2. CASE mem[m].status = "archived"
  <2>1. ActiveCores' \subseteq ActiveCores
    BY <1>1, <1>2 DEF MadeCore, Injected
  <2>2. Cardinality(ActiveCores') <= Cardinality(ActiveCores) /\ Cardinality(ActiveCores') \in Nat
    BY <2>1, FiniteCores, FS_Subset, FS_CardinalityType
  <2> QED
    BY <1>1, <2>1, <2>2, FiniteCores, CoreAssumption DEF Inv, CountBounded
<1>3. CASE mem[m].status # "archived"
  <2>1. WithinBoundary(m, mem'[m], redated) /\ Cardinality(ActiveCores \ {m}) + 1 <= MaxActive
    BY <1>3 DEF Admission, Admits
  <2>2. Cardinality(ActiveCores') <= MaxActive
    BY <1>1, <2>1, FiniteCores, Joining
  <2>3. OverdueCores # {} => m \in ActiveCores
    BY <1>3, <2>1 DEF WithinBoundary, ActiveCores, Injected, Inv, RowsInv, RowInv
  <2> QED
    BY <1>1, <2>2, <2>3 DEF Inv, CountBounded
<1> QED
  BY <1>2, <1>3

(* A step that adds no core keeps the count.                                *)
LEMMA Fewer ==
  ASSUME Inv, RowsInv', ActiveCores' \subseteq ActiveCores
  PROVE  Inv'
<1>1. Cardinality(ActiveCores') <= Cardinality(ActiveCores) /\ Cardinality(ActiveCores') \in Nat
  BY FiniteCores, FS_Subset, FS_CardinalityType
<1> QED
  BY <1>1, FiniteCores, CoreAssumption DEF Inv, CountBounded

(* Storing an ordinary memory, or making one ordinary.                      *)
LEMMA StoreOrdinaryStep ==
  ASSUME RowsInv, NEW m \in Memories, NEW b \in Bodies, StoreOrdinary(m, b)
  PROVE  /\ RowsInv' /\ ActiveCores' \subseteq ActiveCores
         /\ ~Injected(mem'[m]) /\ mem' = [mem EXCEPT ![m] = mem'[m]]
<1> DEFINE f == Found(m, b)
           r == Ordinary(f.status, f.body)
<1>1. f.status \in {"absent", "raw", "consolidated", "archived"} /\ f.body \in Nat
  BY CoreAssumption DEF Found, Ordinary, RowsInv, RowInv, Rows
<1>2. RowInv(r) /\ ~r.core
  BY <1>1, OrdinaryRow
<1>3. mem'[m] = r /\ mem' = [mem EXCEPT ![m] = mem'[m]]
  BY DEF StoreOrdinary, RowsInv
<1>4. ~Injected(mem'[m])
  BY <1>2, <1>3 DEF Injected
<1> QED
  BY <1>2, <1>3, <1>4, InPlace

(* What Replaces does, once the row that joins is known to be one.          *)
LEMMA DeriveStep ==
  ASSUME RowsInv, NEW m \in Memories, NEW sources \in SUBSET Memories,
         RowInv(mem'[m]), Replaces(sources, m, mem'[m])
  PROVE  /\ RowsInv' /\ ActiveCores' \subseteq (ActiveCores \ sources) \cup {m}
         /\ (~Injected(mem'[m]) => ActiveCores' \subseteq ActiveCores)
         /\ \A x \in Memories \ {m} : mem'[x] = IF x \in sources THEN Archived(mem[x]) ELSE mem[x]
<1>1. \A x \in Memories \ {m} : mem'[x] = IF x \in sources THEN Archived(mem[x]) ELSE mem[x]
  BY DEF Replaces
<1>2. \A x \in Memories : mem'[x] \in Rows
  BY <1>1, ArchivedRow DEF RowsInv, RowInv
<1>3. mem' \in [Memories -> Rows]
  BY <1>2 DEF Replaces
<1> QED
  BY <1>1, <1>3, Replacement

(* Deriving an ordinary memory.                                             *)
LEMMA DeriveOrdinaryStep ==
  ASSUME RowsInv, NEW m \in Memories, NEW sources \in SUBSET Memories,
         NEW st \in {"raw", "consolidated"}, NEW b \in Bodies, NEW decided \in BOOLEAN,
         DeriveOrdinary(sources, m, st, b, decided)
  PROVE  /\ RowsInv' /\ ActiveCores' \subseteq ActiveCores
         /\ ~Injected(mem'[m])
         /\ \A x \in Memories \ {m} : mem'[x] = IF x \in sources THEN Archived(mem[x]) ELSE mem[x]
<1> DEFINE r == Ordinary(st, b)
<1>1. RowInv(r) /\ ~r.core
  BY OrdinaryRow, CoreAssumption
<1>2. mem'[m] = r /\ Replaces(sources, m, mem'[m])
  BY DEF DeriveOrdinary, Replaces
<1>3. RowInv(mem'[m]) /\ ~Injected(mem'[m])
  BY <1>1, <1>2 DEF Injected
<1> QED
  BY <1>2, <1>3, DeriveStep

(* Deriving a core: none is overdue, and the set stays within its limit.    *)
LEMMA DeriveCoreStep ==
  ASSUME Inv, NEW m \in Memories, NEW sources \in SUBSET Memories,
         NEW st \in {"raw", "consolidated"}, NEW b \in Bodies, NEW n \in Notes, NEW written,
         NEW d \in Dates, NEW ds \in Declarations,
         DeriveCore(sources, m, st, b, n, written, d, ds)
  PROVE  Inv' /\ OverdueCores = {}
<1> DEFINE o == Ordinary(st, b)
           r == CoreRow(o, n, TRUE, d, ds)
<1>1. RowInv(o) /\ o \in Rows /\ o.status = st
  BY OrdinaryRow, CoreAssumption DEF Ordinary, RowInv
<1>2. r \in Rows /\ r.core /\ r.date # 0 /\ r.status = st
  <2> HIDE DEF o
  <2>1. ASSUME NEW re \in BOOLEAN, re
        PROVE  LET c == CoreRow(o, n, re, d, ds)
               IN c \in Rows /\ c.core /\ c.date # 0 /\ c.status = st
    BY <1>1, CoreRowType
  <2> QED
    BY <2>1
<1>3. CoreRowValid(m, r) /\ NoOverdue(sources) /\ Admits(sources, Declared(r, n, written))
      /\ Replaces(sources, m, r)
  BY DEF DeriveCore
<1>4. mem'[m] = r /\ Replaces(sources, m, mem'[m])
  BY <1>3 DEF Replaces
<1>5. RowInv(mem'[m])
  BY <1>2, <1>3, <1>4 DEF RowInv, CoreRowValid
<1>6. RowsInv' /\ ActiveCores' \subseteq (ActiveCores \ sources) \cup {m}
  BY <1>4, <1>5, DeriveStep DEF Inv
<1>7. Cardinality(ActiveCores \ sources) + 1 <= MaxActive
  BY <1>3 DEF Admits
<1>8. Cardinality(ActiveCores') <= MaxActive
  BY <1>6, <1>7, FiniteCores, Joining
<1> QED
  BY <1>3, <1>6, <1>8 DEF Inv, CountBounded, NoOverdue

(* An empty database has no cores.                                          *)
LEMMA InvInit == Init => Inv
<1> SUFFICES ASSUME Init PROVE Inv
  OBVIOUS
<1>1. RowInv(Ordinary("absent", 0)) /\ ~Ordinary("absent", 0).core
  BY OrdinaryRow
<1>2. RowsInv /\ ActiveCores = {}
  BY <1>1 DEF Init, RowsInv, RowInv, ActiveCores, Injected
<1> QED
  BY <1>2, FS_EmptySet, CoreAssumption DEF Inv, CountBounded

(* Every step keeps the invariant, and adds no core while one is overdue.   *)
LEMMA InvNext ==
  ASSUME Inv, [Next]_mem
  PROVE  Inv' /\ (OverdueCores # {} => ActiveCores' \subseteq ActiveCores)
<1>1. CASE UNCHANGED mem
  BY <1>1 DEF Inv, RowsInv, CountBounded, ActiveCores
<1>2. ASSUME NEW m \in Memories, Store(m)
      PROVE  Inv' /\ (OverdueCores # {} => ActiveCores' \subseteq ActiveCores)
  <2>1. PICK b \in Bodies :
          \/ StoreOrdinary(m, b)
          \/ \E n \in Notes \cup {Omitted}, redated \in BOOLEAN, d \in Dates, ds \in Declarations :
               StoreCore(m, b, n, redated, d, ds)
    BY <1>2 DEF Store
  <2>2. CASE StoreOrdinary(m, b)
    BY <2>2, StoreOrdinaryStep, Fewer DEF Inv
  <2>3. ASSUME NEW n \in Notes \cup {Omitted}, NEW redated \in BOOLEAN, NEW d \in Dates,
               NEW ds \in Declarations, StoreCore(m, b, n, redated, d, ds)
        PROVE  Inv' /\ (OverdueCores # {} => ActiveCores' \subseteq ActiveCores)
    <3>1. MadeCore(m) /\ Admission(m, mem'[m], redated /\ mem[m].date # 0)
      BY <2>3, StoreCoreRow DEF Inv
    <3>2. Admission(m, mem'[m], FALSE)
      BY <3>1 DEF Admission, WithinBoundary
    <3> QED
      BY <3>1, <3>2, InPlaceAdmitted
  <2> QED
    BY <2>1, <2>2, <2>3
<1>3. ASSUME NEW m \in Memories, Set(m)
      PROVE  Inv' /\ (OverdueCores # {} => ActiveCores' \subseteq ActiveCores)
  <2>1. MadeCore(m) /\ Admission(m, mem'[m], FALSE)
    BY <1>3, SetCoreRow DEF Set, Inv
  <2> QED
    BY <2>1, InPlaceAdmitted
<1>4. ASSUME NEW m \in Memories, Derive(m)
      PROVE  Inv' /\ (OverdueCores # {} => ActiveCores' \subseteq ActiveCores)
  <2>1. PICK sources \in SUBSET Memories, st \in {"raw", "consolidated"}, b \in Bodies :
          \/ \E decided \in BOOLEAN : DeriveOrdinary(sources, m, st, b, decided)
          \/ \E n \in Notes, d \in Dates, ds \in Declarations \ {Omitted} :
               \E written \in {NoneLength, d, d - ZuluSaves} :
                 DeriveCore(sources, m, st, b, n, written, d, ds)
    BY <1>4 DEF Derive
  <2>2. ASSUME NEW decided \in BOOLEAN, DeriveOrdinary(sources, m, st, b, decided)
        PROVE  Inv' /\ ActiveCores' \subseteq ActiveCores
    BY <2>2, DeriveOrdinaryStep, Fewer DEF Inv
  <2>3. ASSUME NEW n \in Notes, NEW d \in Dates, NEW ds \in Declarations \ {Omitted},
               NEW written, DeriveCore(sources, m, st, b, n, written, d, ds)
        PROVE  Inv' /\ OverdueCores = {}
    BY <2>3, DeriveCoreStep
  <2> QED
    BY <2>1, <2>2, <2>3
<1>5. ASSUME NEW m \in Memories, Review(m) \/ Archive(m) \/ FallsDue(m)
      PROVE  Inv' /\ ActiveCores' \subseteq ActiveCores
  BY <1>5, SmallSteps, Fewer DEF Inv
<1> QED
  BY <1>1, <1>2, <1>3, <1>4, <1>5 DEF Next

(* The invariant holds in every state.                                      *)
THEOREM Governed == Spec => []Inv
<1>1. Inv /\ [Next]_mem => Inv'
  BY InvNext
<1> QED
  BY <1>1, InvInit, PTL DEF Spec

(* Rows keep their types, and dates go with the core flag.                  *)
THEOREM TypeCorrect == Spec => []TypeOK
<1>1. Inv => TypeOK
  BY DEF Inv, RowsInv, RowInv, TypeOK
<1> QED
  BY <1>1, Governed, PTL

(* No path of writes makes more cores than CORE_MAX_ACTIVE.                 *)
THEOREM CoreCount == Spec => []CountBounded
<1>1. Inv => CountBounded
  BY DEF Inv
<1> QED
  BY <1>1, Governed, PTL

(* Whatever is injected has a reason, a review date and a bounded content.  *)
THEOREM CoreShape == Spec => []CoresWellFormed
<1>1. Inv => CoresWellFormed
  BY DEF Inv, RowsInv, RowInv, CoresWellFormed, ActiveCores, Injected
<1> QED
  BY <1>1, Governed, PTL

(* While a review is overdue no memory becomes core, on any path.           *)
THEOREM OverdueAddsNone == Spec => OverdueBlocksNew
<1>1. Inv /\ [Next]_mem => [OverdueCores # {} => ActiveCores' \subseteq ActiveCores]_mem
  BY InvNext
<1> QED
  BY <1>1, Governed, PTL DEF Spec, OverdueBlocksNew

(* What OverdueFreezes says of one core.                                    *)
Frozen(x) ==
  \/ Entry(mem'[x]) <= Entry(mem[x]) /\ (mem[x].due => mem'[x].due)
  \/ \E d \in Dates : Retain(x, d)

(* A row that did not change has not grown.                                 *)
LEMMA Same ==
  ASSUME RowsInv, NEW x \in Memories, mem'[x] = mem[x]
  PROVE  Frozen(x)
BY DEF Frozen, Entry, RowsInv, RowInv, Rows, Dates, ShortDate, LongDate

(* A write in place of another memory, or one that left m no core.          *)
LEMMA OthersSame ==
  ASSUME RowsInv, NEW m \in Memories, mem' = [mem EXCEPT ![m] = mem'[m]],
         NEW x \in ActiveCores \cap ActiveCores', x = m => Frozen(m)
  PROVE  Frozen(x)
<1>1. CASE x # m
  <2>1. mem'[x] = mem[x] /\ x \in Memories
    BY <1>1 DEF RowsInv, ActiveCores
  <2> QED
    BY <2>1, Same
<1> QED
  BY <1>1

(* The boundary of an admitted write in place.                              *)
LEMMA AdmittedFrozen ==
  ASSUME Inv, OverdueCores # {}, NEW m \in Memories, NEW redated \in BOOLEAN, MadeCore(m),
         Admission(m, mem'[m], redated), ~redated /\ mem[m].core => mem'[m].due = mem[m].due,
         NEW x \in ActiveCores \cap ActiveCores'
  PROVE  Frozen(x)
<1>1. ASSUME x = m PROVE Frozen(m)
  <2>1. mem[m].status # "archived"
    BY <1>1 DEF ActiveCores, Injected
  <2>2. mem[m].core /\ ~redated /\ Entry(mem'[m]) <= Entry(mem[m])
    BY <2>1 DEF Admission, WithinBoundary
  <2> QED
    BY <2>2 DEF Frozen
<1> QED
  BY <1>1, OthersSame DEF Inv, MadeCore

(* A derived write archives some cores and leaves the others alone.         *)
LEMMA DerivedFrozen ==
  ASSUME Inv, NEW m \in Memories, NEW sources \in SUBSET Memories, ~Injected(mem'[m]),
         \A y \in Memories \ {m} : mem'[y] = IF y \in sources THEN Archived(mem[y]) ELSE mem[y],
         NEW x \in ActiveCores \cap ActiveCores'
  PROVE  Frozen(x)
<1>1. x \in Memories /\ x # m /\ RowInv(mem[x])
  BY DEF ActiveCores, Inv, RowsInv
<1>2. x \notin sources
  <2>1. ASSUME x \in sources PROVE FALSE
    <3>1. mem'[x] = Archived(mem[x])
      BY <1>1, <2>1
    <3>2. ~Injected(mem'[x])
      BY <1>1, <3>1, ArchivedRow
    <3> QED
      BY <3>2 DEF ActiveCores
  <2> QED
    BY <2>1
<1> QED
  BY <1>1, <1>2, Same DEF Inv

(* The small steps: only a review that retains gives a row another date.    *)
LEMMA SmallFrozen ==
  ASSUME Inv, NEW m \in Memories, Review(m) \/ Archive(m) \/ FallsDue(m),
         NEW x \in ActiveCores \cap ActiveCores'
  PROVE  Frozen(x)
<1>0. mem' = [mem EXCEPT ![m] = mem'[m]] /\ mem[m] \in Rows
  BY DEF Review, Demote, Retain, Archive, FallsDue, Inv, RowsInv, RowInv
<1>1. ASSUME x = m PROVE Frozen(m)
  <2>1. CASE Demote(m)
    BY <1>0, <1>1, <2>1 DEF Demote, ActiveCores, Injected, Inv, RowsInv, Rows
  <2>2. CASE Archive(m)
    BY <1>0, <1>1, <2>2 DEF Archive, Archived, ActiveCores, Injected, Inv, RowsInv, Rows
  <2>3. CASE \E d \in Dates : Retain(m, d)
    BY <2>3 DEF Frozen
  <2>4. CASE FallsDue(m)
    <3>1. mem'[m].body = mem[m].body /\ mem'[m].note = mem[m].note /\ mem'[m].date = mem[m].date
          /\ mem'[m].due
      BY <1>0, <2>4 DEF FallsDue, Inv, RowsInv, Rows
    <3> QED
      BY <1>0, <3>1 DEF Frozen, Entry, Rows, Dates, ShortDate, LongDate
  <2> QED
    BY <2>1, <2>2, <2>3, <2>4 DEF Review
<1> QED
  BY <1>0, <1>1, OthersSame DEF Inv

(* Every step.                                                              *)
LEMMA StepFrozen ==
  ASSUME Inv, [Next]_mem, OverdueCores # {}, NEW x \in ActiveCores \cap ActiveCores'
  PROVE  Frozen(x)
<1>0. RowsInv /\ x \in Memories
  BY DEF Inv, ActiveCores
<1>1. CASE UNCHANGED mem
  BY <1>0, <1>1, Same
<1>2. ASSUME NEW m \in Memories, Store(m) PROVE Frozen(x)
  <2>1. PICK b \in Bodies :
          \/ StoreOrdinary(m, b)
          \/ \E n \in Notes \cup {Omitted}, redated \in BOOLEAN, d \in Dates, ds \in Declarations :
               StoreCore(m, b, n, redated, d, ds)
    BY <1>2 DEF Store
  <2>2. CASE StoreOrdinary(m, b)
    <3>1. ~Injected(mem'[m]) /\ mem' = [mem EXCEPT ![m] = mem'[m]]
      BY <1>0, <2>2, StoreOrdinaryStep
    <3>2. x # m
      BY <3>1 DEF ActiveCores
    <3> QED
      BY <1>0, <3>1, <3>2, OthersSame
  <2>3. ASSUME NEW n \in Notes \cup {Omitted}, NEW redated \in BOOLEAN, NEW d \in Dates,
               NEW ds \in Declarations, StoreCore(m, b, n, redated, d, ds)
        PROVE  Frozen(x)
    <3>1. /\ MadeCore(m) /\ Admission(m, mem'[m], redated /\ mem[m].date # 0)
          /\ mem[m].core /\ ~redated => mem'[m].due = mem[m].due
      BY <1>0, <2>3, StoreCoreRow
    <3>2. Admission(m, mem'[m], redated)
      BY <1>0, <3>1 DEF Admission, WithinBoundary, RowsInv, RowInv
    <3> QED
      BY <3>1, <3>2, AdmittedFrozen
  <2> QED
    BY <2>1, <2>2, <2>3
<1>3. ASSUME NEW m \in Memories, Set(m) PROVE Frozen(x)
  <2>1. /\ MadeCore(m) /\ Admission(m, mem'[m], FALSE)
        /\ mem[m].core => mem'[m].due = mem[m].due
    BY <1>0, <1>3, SetCoreRow DEF Set
  <2> QED
    BY <2>1, AdmittedFrozen
<1>4. ASSUME NEW m \in Memories, Derive(m) PROVE Frozen(x)
  <2>1. PICK sources \in SUBSET Memories, st \in {"raw", "consolidated"}, b \in Bodies :
          \/ \E decided \in BOOLEAN : DeriveOrdinary(sources, m, st, b, decided)
          \/ \E n \in Notes, d \in Dates, ds \in Declarations \ {Omitted} :
               \E written \in {NoneLength, d, d - ZuluSaves} :
                 DeriveCore(sources, m, st, b, n, written, d, ds)
    BY <1>4 DEF Derive
  <2>2. ASSUME NEW decided \in BOOLEAN, DeriveOrdinary(sources, m, st, b, decided)
        PROVE  Frozen(x)
    <3>1. /\ ~Injected(mem'[m])
          /\ \A y \in Memories \ {m} : mem'[y] = IF y \in sources THEN Archived(mem[y]) ELSE mem[y]
      BY <1>0, <2>2, DeriveOrdinaryStep
    <3> QED
      BY <3>1, DerivedFrozen
  <2>3. ASSUME NEW n \in Notes, NEW d \in Dates, NEW ds \in Declarations \ {Omitted},
               NEW written, DeriveCore(sources, m, st, b, n, written, d, ds)
        PROVE  FALSE
    BY <2>3, DeriveCoreStep
  <2> QED
    BY <2>1, <2>2, <2>3
<1>5. ASSUME NEW m \in Memories, Review(m) \/ Archive(m) \/ FallsDue(m) PROVE Frozen(x)
  BY <1>5, SmallFrozen
<1> QED
  BY <1>1, <1>2, <1>3, <1>4, <1>5 DEF Next

(* While a review is overdue no entry grows and no overdue core becomes     *)
(* current, but by a review that retains it.                                *)
THEOREM OverdueChangesNone == Spec => OverdueFreezes
<1>1. Inv /\ [Next]_mem =>
        [OverdueCores # {} =>
           \A m \in ActiveCores \cap ActiveCores' :
             \/ Entry(mem'[m]) <= Entry(mem[m]) /\ (mem[m].due => mem'[m].due)
             \/ \E d \in Dates : Retain(m, d)]_mem
  BY StepFrozen DEF Frozen
<1> QED
  BY <1>1, Governed, PTL DEF Spec, OverdueFreezes

(* The cores that are injected are few and well formed, whichever of the    *)
(* writes, promotions, revisions and reviews made them.                     *)
THEOREM CoresGoverned == Spec => []CoresSound
<1>1. TypeOK /\ CoresWellFormed /\ CountBounded => CoresSound
  BY DEF CoresSound
<1> QED
  BY <1>1, TypeCorrect, CoreCount, CoreShape, PTL

(* While a review is overdue no path adds a core, and none changes one but  *)
(* by the review that retains it.                                           *)
THEOREM OverdueHeld == Spec => OverdueHolds
BY OverdueAddsNone, OverdueChangesNone DEF OverdueHolds

-----------------------------------------------------------------------------
(* Sums over sets: what the fold of the community module computes.          *)

(* The element that is counted first, and the sums of the subsets of S.     *)
AnyOf(s) == CHOOSE x \in s : TRUE

SumStep(g, f, S) ==
  [s \in SUBSET S |-> IF s = {} THEN 0 ELSE f[AnyOf(s)] + g[s \ {AnyOf(s)}]]

SumOver(f, S) == (CHOOSE g : g = SumStep(g, f, S))[S]

(* A family of subsets of a finite set has one that holds none of the rest. *)
LEMMA SmallestSet ==
  ASSUME NEW S, IsFiniteSet(S), NEW B \in SUBSET (SUBSET S), B # {}
  PROVE  \E s \in B : \A t \in B : t \subseteq s => t = s
<1>1. IsWellFoundedOn(StrictSubsetOrdering(S), SUBSET S)
  BY FS_StrictSubsetOrderingWellFounded, FS_FiniteSubsetsOfFinite
<1>2. \E s \in B : \A t \in B : ~(<<t, s>> \in StrictSubsetOrdering(S))
  BY <1>1, WFMin, Zenon
<1>3. PICK s \in B : \A t \in B : ~(<<t, s>> \in StrictSubsetOrdering(S))
  BY <1>2
<1>4. ASSUME NEW t \in B, t \subseteq s, t # s PROVE FALSE
  <2>1. <<t, s>> \in (SUBSET S) \X (SUBSET S)
    OBVIOUS
  <2>2. <<t, s>> \in StrictSubsetOrdering(S)
    BY <1>4, <2>1 DEF StrictSubsetOrdering
  <2> QED BY <1>3, <2>2
<1> QED BY <1>4

(* It is an element.                                                        *)
LEMMA AnyIsIn == ASSUME NEW s, s # {} PROVE AnyOf(s) \in s
  BY DEF AnyOf

(* A sum does not depend on the set its terms are numbered in.              *)
LEMMA SumIsOne ==
  ASSUME NEW S, NEW T, NEW f, NEW g, NEW h, g = SumStep(g, f, S), h = SumStep(h, f, T),
         NEW s \in (SUBSET S) \cap (SUBSET T), IsFiniteSet(s)
  PROVE  g[s] = h[s]
<1> DEFINE B == {t \in SUBSET s : g[t] # h[t]}
<1>1. SUFFICES ASSUME s \in B PROVE FALSE
  OBVIOUS
<1>2. PICK t \in B : \A v \in B : v \subseteq t => v = t
  <2>1. B \in SUBSET (SUBSET s) /\ B # {}
    BY <1>1
  <2> HIDE DEF B
  <2> QED BY <2>1, SmallestSet
<1>3. t \in SUBSET S /\ t \in SUBSET T
  OBVIOUS
<1>4. /\ g[t] = IF t = {} THEN 0 ELSE f[AnyOf(t)] + g[t \ {AnyOf(t)}]
      /\ h[t] = IF t = {} THEN 0 ELSE f[AnyOf(t)] + h[t \ {AnyOf(t)}]
  BY <1>3, Zenon DEF SumStep
<1>5. t # {}
  BY <1>4
<1>6. t \ {AnyOf(t)} \subseteq t /\ t \ {AnyOf(t)} # t
  BY <1>5, AnyIsIn
<1>7. g[t \ {AnyOf(t)}] = h[t \ {AnyOf(t)}]
  BY <1>2, <1>6
<1> QED BY <1>4, <1>5, <1>7

(* Every finite set has a sum.                                              *)
LEMMA SumThere ==
  ASSUME NEW S, IsFiniteSet(S), NEW f
  PROVE  \E g : g = SumStep(g, f, S)
<1> DEFINE B == {t \in SUBSET S : ~ \E g : g = SumStep(g, f, t)}
<1>1. SUFFICES ASSUME S \in B PROVE FALSE
  OBVIOUS
<1>2. PICK u \in B : \A v \in B : v \subseteq u => v = u
  <2>1. B \in SUBSET (SUBSET S) /\ B # {}
    BY <1>1
  <2> HIDE DEF B
  <2> QED BY <2>1, SmallestSet
<1>3. ASSUME NEW v \in SUBSET u, v # u PROVE \E g : g = SumStep(g, f, v)
  BY <1>2, <1>3
<1>4. IsFiniteSet(u) /\ \A v \in SUBSET u : IsFiniteSet(v)
  BY FS_Subset
<1> DEFINE Part(v) == CHOOSE g : g = SumStep(g, f, v)
           w == [v \in SUBSET u |->
                   IF v = u
                   THEN IF u = {} THEN 0 ELSE f[AnyOf(u)] + Part(u \ {AnyOf(u)})[u \ {AnyOf(u)}]
                   ELSE Part(v)[v]]
<1>5. ASSUME NEW v \in SUBSET u, v # u PROVE Part(v) = SumStep(Part(v), f, v)
  BY <1>3, <1>5, Zenon
<1> HIDE DEF Part
<1>6. ASSUME NEW v \in SUBSET u
      PROVE  w[v] = IF v = {} THEN 0 ELSE f[AnyOf(v)] + w[v \ {AnyOf(v)}]
  <2>1. v # {} => /\ v \ {AnyOf(v)} \in SUBSET v /\ v \ {AnyOf(v)} # u
                  /\ v \ {AnyOf(v)} \in SUBSET u
    BY AnyIsIn
  <2>2. v # {} => w[v \ {AnyOf(v)}] = Part(v \ {AnyOf(v)})[v \ {AnyOf(v)}]
    BY <2>1
  <2>3. CASE v = u
    BY <2>2, <2>3
  <2>4. CASE v # u
    <3>1. Part(v) = SumStep(Part(v), f, v)
      BY <1>5, <2>4
    <3>2. Part(v)[v] = IF v = {} THEN 0 ELSE f[AnyOf(v)] + Part(v)[v \ {AnyOf(v)}]
      <4>1. SumStep(Part(v), f, v)[v] = IF v = {} THEN 0 ELSE f[AnyOf(v)] + Part(v)[v \ {AnyOf(v)}]
        BY DEF SumStep
      <4> QED BY <3>1, <4>1
    <3>3. v # {} => Part(v)[v \ {AnyOf(v)}] = Part(v \ {AnyOf(v)})[v \ {AnyOf(v)}]
      <4> SUFFICES ASSUME v # {} PROVE Part(v)[v \ {AnyOf(v)}] = Part(v \ {AnyOf(v)})[v \ {AnyOf(v)}]
        OBVIOUS
      <4> DEFINE r == v \ {AnyOf(v)}
      <4>1. r \in SUBSET u /\ r # u /\ r \in SUBSET v
        BY <2>1
      <4> HIDE DEF r
      <4>2. Part(r) = SumStep(Part(r), f, r) /\ IsFiniteSet(r)
        BY <1>4, <1>5, <4>1
      <4>3. Part(v)[r] = Part(r)[r]
        BY <3>1, <4>1, <4>2, SumIsOne
      <4> QED BY <4>3 DEF r
    <3>4. w[v] = Part(v)[v]
      BY <2>4
    <3> QED BY <2>2, <3>2, <3>3, <3>4
  <2> QED BY <2>3, <2>4
<1>7. w = SumStep(w, f, u)
  <2>1. SumStep(w, f, u) = [v \in SUBSET u |-> IF v = {} THEN 0 ELSE f[AnyOf(v)] + w[v \ {AnyOf(v)}]]
    BY DEF SumStep
  <2>2. w = [v \in SUBSET u |-> w[v]]
    OBVIOUS
  <2> HIDE DEF w
  <2> QED BY <1>6, <2>1, <2>2
<1> HIDE DEF w
<1> QED BY <1>2, <1>7

(* The sum of a finite set, element by element.                             *)
LEMMA SumUnfolds ==
  ASSUME NEW S, IsFiniteSet(S), NEW f
  PROVE  SumOver(f, S) = IF S = {} THEN 0 ELSE f[AnyOf(S)] + SumOver(f, S \ {AnyOf(S)})
<1> DEFINE Whole(T) == CHOOSE g : g = SumStep(g, f, T)
           r == S \ {AnyOf(S)}
<1>1. IsFiniteSet(r) /\ r \in SUBSET S
  BY FS_Subset
<1>2. ASSUME NEW T, IsFiniteSet(T) PROVE Whole(T) = SumStep(Whole(T), f, T)
  BY <1>2, SumThere, Zenon
<1>3. SumOver(f, S) = Whole(S)[S] /\ SumOver(f, r) = Whole(r)[r]
  BY DEF SumOver
<1> HIDE DEF Whole
<1>4. Whole(S) = SumStep(Whole(S), f, S) /\ Whole(r) = SumStep(Whole(r), f, r)
  BY <1>1, <1>2
<1>5. Whole(S)[r] = Whole(r)[r]
  <2> HIDE DEF r
  <2> QED BY <1>1, <1>4, SumIsOne
<1>6. Whole(S)[S] = IF S = {} THEN 0 ELSE f[AnyOf(S)] + Whole(S)[r]
  <2>1. SumStep(Whole(S), f, S)[S] = IF S = {} THEN 0 ELSE f[AnyOf(S)] + Whole(S)[r]
    BY DEF SumStep
  <2> QED BY <1>4, <2>1
<1> QED BY <1>3, <1>5, <1>6

(* A sum of integers is one.                                                *)
LEMMA SumIsInt ==
  ASSUME NEW S, IsFiniteSet(S), NEW f, \A x \in S : f[x] \in Int
  PROVE  SumOver(f, S) \in Int
<1> DEFINE B == {t \in SUBSET S : SumOver(f, t) \notin Int}
<1>1. SUFFICES ASSUME S \in B PROVE FALSE
  OBVIOUS
<1>2. PICK t \in B : \A v \in B : v \subseteq t => v = t
  <2>1. B \in SUBSET (SUBSET S) /\ B # {}
    BY <1>1
  <2> HIDE DEF B
  <2> QED BY <2>1, SmallestSet
<1>3. IsFiniteSet(t)
  BY FS_Subset
<1>4. SumOver(f, t) = IF t = {} THEN 0 ELSE f[AnyOf(t)] + SumOver(f, t \ {AnyOf(t)})
  BY <1>3, SumUnfolds
<1>5. t # {}
  BY <1>4
<1>6. t \ {AnyOf(t)} \in SUBSET t /\ t \ {AnyOf(t)} # t /\ AnyOf(t) \in S
  BY <1>5, AnyIsIn
<1>7. SumOver(f, t \ {AnyOf(t)}) \in Int
  BY <1>2, <1>6
<1> QED BY <1>4, <1>5, <1>6, <1>7

(* Any element may be counted first.                                        *)
LEMMA SumTakesOut ==
  ASSUME NEW S, IsFiniteSet(S), NEW f, \A x \in S : f[x] \in Int, NEW y \in S
  PROVE  SumOver(f, S) = f[y] + SumOver(f, S \ {y})
<1> DEFINE Good(t) == \A z \in t : SumOver(f, t) = f[z] + SumOver(f, t \ {z})
           B == {t \in SUBSET S : ~ Good(t)}
<1>1. SUFFICES ASSUME S \in B PROVE FALSE
  OBVIOUS
<1>2. PICK t \in B : \A v \in B : v \subseteq t => v = t
  <2>1. B \in SUBSET (SUBSET S) /\ B # {}
    BY <1>1
  <2> HIDE DEF B
  <2> QED BY <2>1, SmallestSet
<1>3. \A v \in SUBSET t : v # t => Good(v)
  <2> HIDE DEF Good
  <2> QED BY <1>2
<1>4. PICK z \in t : SumOver(f, t) # f[z] + SumOver(f, t \ {z})
  BY <1>2
<1>5. \A v \in SUBSET t : IsFiniteSet(v) /\ SumOver(f, v) \in Int
  <2>1. \A v \in SUBSET t : IsFiniteSet(v) /\ \A x \in v : f[x] \in Int
    BY FS_Subset
  <2> QED BY <2>1, SumIsInt
<1> DEFINE p == AnyOf(t)
<1>6. p \in t
  BY AnyIsIn
<1>7. SumOver(f, t) = f[p] + SumOver(f, t \ {p})
  BY <1>5, SumUnfolds
<1> HIDE DEF p
<1>8. p # z
  BY <1>4, <1>7
<1>9. SumOver(f, t \ {p}) = f[z] + SumOver(f, (t \ {p}) \ {z})
  <2>1. Good(t \ {p})
    <3> HIDE DEF Good
    <3> QED BY <1>3, <1>6
  <2> QED BY <1>8, <2>1
<1>10. SumOver(f, t \ {z}) = f[p] + SumOver(f, (t \ {z}) \ {p})
  <2>1. Good(t \ {z})
    <3> HIDE DEF Good
    <3> QED BY <1>3, <1>4
  <2> QED BY <1>6, <1>8, <2>1
<1>11. (t \ {p}) \ {z} = (t \ {z}) \ {p}
  OBVIOUS
<1>12. f[p] \in Int /\ f[z] \in Int /\ SumOver(f, (t \ {z}) \ {p}) \in Int
  <2>1. (t \ {z}) \ {p} \in SUBSET t
    OBVIOUS
  <2> QED BY <1>5, <1>6, <2>1
<1> DEFINE rest == SumOver(f, (t \ {z}) \ {p})
<1>13. /\ SumOver(f, t) = f[p] + SumOver(f, t \ {p})
       /\ SumOver(f, t \ {p}) = f[z] + rest
       /\ SumOver(f, t \ {z}) = f[p] + rest
       /\ f[p] \in Int /\ f[z] \in Int /\ rest \in Int
  BY <1>7, <1>9, <1>10, <1>11, <1>12
<1> HIDE DEF rest
<1>14. SumOver(f, t) = f[z] + SumOver(f, t \ {z})
  <2>1. SumOver(f, t) = f[p] + (f[z] + rest) /\ f[z] + SumOver(f, t \ {z}) = f[z] + (f[p] + rest)
    BY <1>13
  <2>2. f[p] + (f[z] + rest) = f[z] + (f[p] + rest)
    BY <1>13
  <2> QED BY <2>1, <2>2
<1> QED BY <1>4, <1>14

(* Terms that are larger by at most c make a sum larger by at most c each.  *)
LEMMA SumGrows ==
  ASSUME NEW S, IsFiniteSet(S), NEW f, NEW e, NEW c \in Int,
         \A x \in S : f[x] \in Int /\ e[x] \in Int /\ f[x] <= e[x] + c
  PROVE  SumOver(f, S) <= SumOver(e, S) + c * Cardinality(S)
<1> DEFINE B == {t \in SUBSET S : ~(SumOver(f, t) <= SumOver(e, t) + c * Cardinality(t))}
<1>1. SUFFICES ASSUME S \in B PROVE FALSE
  OBVIOUS
<1>2. PICK t \in B : \A v \in B : v \subseteq t => v = t
  <2>1. B \in SUBSET (SUBSET S) /\ B # {}
    BY <1>1
  <2> HIDE DEF B
  <2> QED BY <2>1, SmallestSet
<1>3. IsFiniteSet(t)
  BY FS_Subset
<1>4. /\ SumOver(f, t) = IF t = {} THEN 0 ELSE f[AnyOf(t)] + SumOver(f, t \ {AnyOf(t)})
      /\ SumOver(e, t) = IF t = {} THEN 0 ELSE e[AnyOf(t)] + SumOver(e, t \ {AnyOf(t)})
  BY <1>3, SumUnfolds
<1>5. t # {}
  <2> SUFFICES ASSUME t = {} PROVE FALSE
    OBVIOUS
  <2>1. Cardinality(t) = 0
    BY FS_EmptySet
  <2>2. c * Cardinality(t) = 0
    BY <2>1
  <2>3. SumOver(f, t) = 0 /\ SumOver(e, t) = 0
    BY <1>4
  <2>4. ~(SumOver(f, t) <= SumOver(e, t) + c * Cardinality(t))
    BY <1>2
  <2> QED BY <2>2, <2>3, <2>4
<1> DEFINE p == AnyOf(t)
           r == t \ {p}
<1>6. p \in t /\ p \in S /\ r \in SUBSET t /\ r # t /\ r \in SUBSET S
  BY <1>5, AnyIsIn
<1>7. IsFiniteSet(r) /\ Cardinality(r) \in Int /\ Cardinality(t) = Cardinality(r) + 1
  <2>1. IsFiniteSet(r) /\ Cardinality(r) = Cardinality(t) - 1
    BY <1>3, <1>6, FS_RemoveElement
  <2> QED BY <1>3, <2>1, FS_CardinalityType
<1>8. SumOver(f, r) <= SumOver(e, r) + c * Cardinality(r)
  <2> HIDE DEF r
  <2> QED BY <1>2, <1>6
<1>9. SumOver(f, r) \in Int /\ SumOver(e, r) \in Int
  <2> HIDE DEF r
  <2> QED BY <1>6, <1>7, SumIsInt
<1>10. f[p] \in Int /\ e[p] \in Int /\ f[p] <= e[p] + c
  BY <1>6
<1>11. c * (Cardinality(r) + 1) = c * Cardinality(r) + c /\ c * Cardinality(r) \in Int
  BY <1>7
<1>12. SumOver(f, t) = f[p] + SumOver(f, r) /\ SumOver(e, t) = e[p] + SumOver(e, r)
  BY <1>4, <1>5
<1> HIDE DEF p, r
<1>13. SumOver(f, t) <= SumOver(e, t) + c * Cardinality(t)
  BY <1>7, <1>8, <1>9, <1>10, <1>11, <1>12
<1> QED BY <1>13

(* Terms that are not larger make no larger sum.                            *)
LEMMA SumFollows ==
  ASSUME NEW S, IsFiniteSet(S), NEW f, NEW e,
         \A x \in S : f[x] \in Int /\ e[x] \in Int /\ f[x] <= e[x]
  PROVE  SumOver(f, S) <= SumOver(e, S)
<1>1. SumOver(f, S) <= SumOver(e, S) + 0 * Cardinality(S)
  <2> DEFINE c == 0
  <2>1. c \in Int /\ \A x \in S : f[x] \in Int /\ e[x] \in Int /\ f[x] <= e[x] + c
    OBVIOUS
  <2> HIDE DEF c
  <2>2. SumOver(f, S) <= SumOver(e, S) + c * Cardinality(S)
    BY <2>1, SumGrows
  <2> QED BY <2>2 DEF c
<1>2. 0 * Cardinality(S) = 0
  <2>1. Cardinality(S) \in Int
    BY FS_CardinalityType
  <2> QED BY <2>1
<1>3. SumOver(e, S) \in Int
  BY SumIsInt
<1> QED BY <1>1, <1>2, <1>3

(* Part of a set has no larger sum, when no term is negative.               *)
LEMMA SumOfPart ==
  ASSUME NEW S, IsFiniteSet(S), NEW f, \A x \in S : f[x] \in Nat, NEW T \in SUBSET S
  PROVE  SumOver(f, T) <= SumOver(f, S)
<1> DEFINE B == {t \in SUBSET S : T \subseteq t /\ ~(SumOver(f, T) <= SumOver(f, t))}
<1>1. SUFFICES ASSUME S \in B PROVE FALSE
  OBVIOUS
<1>2. PICK t \in B : \A v \in B : v \subseteq t => v = t
  <2>1. B \in SUBSET (SUBSET S) /\ B # {}
    BY <1>1
  <2> HIDE DEF B
  <2> QED BY <2>1, SmallestSet
<1>3. \A v \in SUBSET S : IsFiniteSet(v) /\ SumOver(f, v) \in Int
  <2>1. \A v \in SUBSET S : IsFiniteSet(v) /\ \A x \in v : f[x] \in Int
    BY FS_Subset
  <2> QED BY <2>1, SumIsInt
<1>4. T # t
  BY <1>3
<1>5. PICK y \in t : y \notin T
  BY <1>4
<1>6. SumOver(f, T) <= SumOver(f, t \ {y})
  BY <1>2, <1>5
<1>7. SumOver(f, t) = f[y] + SumOver(f, t \ {y})
  <2>1. IsFiniteSet(t) /\ \A x \in t : f[x] \in Int
    BY <1>3
  <2> QED BY <2>1, SumTakesOut
<1>8. f[y] \in Nat /\ SumOver(f, t \ {y}) \in Int /\ SumOver(f, T) \in Int
  <2>1. t \ {y} \in SUBSET S
    OBVIOUS
  <2> QED BY <1>3, <2>1
<1> QED BY <1>6, <1>7, <1>8

(* The lengths of the entries, as they are counted and as rendered.         *)
EntryOf == [x \in Memories |-> Entry(mem[x])]
RenderedOf == [x \in Memories |-> Rendered(mem[x])]

(* Digest is such a sum.                                                    *)
LEMMA DigestAdds ==
  ASSUME NEW S \in SUBSET Memories
  PROVE  Digest(S) = SumOver(EntryOf, S)
<1> DEFINE Step(g) == [s \in SUBSET S |->
                         IF s = {} THEN 0 ELSE Entry(mem[AnyOf(s)]) + g[s \ {AnyOf(s)}]]
<1>1. ASSUME NEW g PROVE SumStep(g, EntryOf, S) = Step(g)
  <2>1. \A s \in SUBSET S : s # {} => EntryOf[AnyOf(s)] = Entry(mem[AnyOf(s)])
    BY AnyIsIn DEF EntryOf
  <2> QED BY <2>1 DEF SumStep
<1>2. Digest(S) = (CHOOSE g : g = Step(g))[S]
  BY DEF Digest, MapThenSumSet, MapThenFoldSet, AnyOf
<1> HIDE DEF Step
<1>3. (CHOOSE g : g = Step(g)) = (CHOOSE g : g = SumStep(g, EntryOf, S))
  <2>1. \A g : g = Step(g) <=> g = SumStep(g, EntryOf, S)
    BY <1>1
  <2> QED BY <2>1, Zenon
<1> QED BY <1>2, <1>3 DEF SumOver

(* The digest as it is rendered, of any rows.                               *)
LEMMA RenderedAdds ==
  ASSUME NEW w, NEW S \in SUBSET Memories
  PROVE  MapThenSumSet(LAMBDA m : Rendered(w[m]), S) = SumOver([x \in Memories |-> Rendered(w[x])], S)
<1> DEFINE R == [x \in Memories |-> Rendered(w[x])]
           Step(g) == [s \in SUBSET S |->
                         IF s = {} THEN 0 ELSE Rendered(w[AnyOf(s)]) + g[s \ {AnyOf(s)}]]
<1>1. ASSUME NEW g PROVE SumStep(g, R, S) = Step(g)
  <2>1. \A s \in SUBSET S : s # {} => R[AnyOf(s)] = Rendered(w[AnyOf(s)])
    BY AnyIsIn
  <2> HIDE DEF R
  <2> QED BY <2>1 DEF SumStep
<1>2. MapThenSumSet(LAMBDA m : Rendered(w[m]), S) = (CHOOSE g : g = Step(g))[S]
  BY DEF MapThenSumSet, MapThenFoldSet, AnyOf
<1> HIDE DEF Step, R
<1>3. (CHOOSE g : g = Step(g)) = (CHOOSE g : g = SumStep(g, R, S))
  <2>1. \A g : g = Step(g) <=> g = SumStep(g, R, S)
    BY <1>1
  <2> QED BY <2>1, Zenon
<1>4. MapThenSumSet(LAMBDA m : Rendered(w[m]), S) = SumOver(R, S)
  BY <1>2, <1>3 DEF SumOver
<1> QED BY <1>4 DEF R

(* The limit of the digest, before and after a step.                        *)
RenderedDigest == MapThenSumSet(LAMBDA m : Rendered(mem[m]), ActiveCores)

LEMMA FitsSum ==
  /\ Fits <=> SumOver(RenderedOf, ActiveCores) <= MaxRendered
  /\ Fits' <=> SumOver(RenderedOf', ActiveCores') <= MaxRendered
<1>1. ActiveCores \in SUBSET Memories /\ ActiveCores' \in SUBSET Memories
  BY DEF ActiveCores
<1>2. RenderedDigest = SumOver(RenderedOf, ActiveCores)
  BY <1>1, RenderedAdds DEF RenderedDigest, RenderedOf
<1>3. RenderedDigest' = SumOver(RenderedOf', ActiveCores')
  <2> DEFINE w == mem'
             T == ActiveCores'
  <2> HIDE DEF w, T
  <2>1. MapThenSumSet(LAMBDA m : Rendered(w[m]), T)
          = SumOver([x \in Memories |-> Rendered(w[x])], T)
    BY <1>1, RenderedAdds DEF T
  <2> QED BY <2>1 DEF w, T, RenderedDigest, RenderedOf, MapThenSumSet, MapThenFoldSet
<1>4. (Fits <=> RenderedDigest <= MaxRendered) /\ (Fits' <=> RenderedDigest' <= MaxRendered)
  BY DEF Fits, RenderedDigest
<1> QED BY <1>2, <1>3, <1>4

(* Fewer terms, none of them larger.                                        *)
LEMMA SumShrinks ==
  ASSUME NEW A, IsFiniteSet(A), NEW T \in SUBSET A, NEW f, NEW e,
         \A x \in T : f[x] \in Nat /\ f[x] <= e[x], \A x \in A : e[x] \in Nat
  PROVE  /\ SumOver(f, T) <= SumOver(e, A)
         /\ SumOver(f, T) \in Int /\ SumOver(e, A) \in Int
<1>1. IsFiniteSet(T)
  BY FS_Subset
<1>2. SumOver(f, T) <= SumOver(e, T)
  <2>1. \A x \in T : f[x] \in Int /\ e[x] \in Int /\ f[x] <= e[x]
    OBVIOUS
  <2> QED BY <1>1, <2>1, SumFollows
<1>3. SumOver(e, T) <= SumOver(e, A)
  BY SumOfPart
<1>4. SumOver(f, T) \in Int /\ SumOver(e, T) \in Int /\ SumOver(e, A) \in Int
  <2>1. (\A x \in T : f[x] \in Int /\ e[x] \in Int) /\ (\A x \in A : e[x] \in Int)
    OBVIOUS
  <2> QED BY <1>1, <2>1, SumIsInt
<1> QED BY <1>2, <1>3, <1>4

(* One term joins, of those that stay none is larger.                       *)
LEMMA SumJoins ==
  ASSUME NEW A, IsFiniteSet(A), NEW m, m \notin A, NEW T \in SUBSET (A \cup {m}), NEW f, NEW e,
         \A x \in A \cup {m} : f[x] \in Nat, \A x \in A : e[x] \in Nat /\ f[x] <= e[x]
  PROVE  /\ SumOver(f, T) <= SumOver(e, A) + f[m]
         /\ SumOver(f, T) \in Int /\ SumOver(e, A) \in Int
<1> DEFINE all == A \cup {m}
<1>1. IsFiniteSet(all)
  BY FS_AddElement
<1>2. SumOver(f, T) <= SumOver(f, all)
  BY <1>1, SumOfPart
<1>3. SumOver(f, all) = f[m] + SumOver(f, A)
  <2>1. \A x \in all : f[x] \in Int
    OBVIOUS
  <2>2. m \in all /\ all \ {m} = A
    OBVIOUS
  <2> HIDE DEF all
  <2>3. SumOver(f, all) = f[m] + SumOver(f, all \ {m})
    BY <1>1, <2>1, <2>2, SumTakesOut
  <2> QED BY <2>2, <2>3
<1>4. SumOver(f, A) <= SumOver(e, A)
  BY SumShrinks
<1>5. SumOver(f, T) \in Int /\ SumOver(f, A) \in Int /\ SumOver(e, A) \in Int /\ f[m] \in Int
  <2>1. (\A x \in T : f[x] \in Int) /\ (\A x \in A : f[x] \in Int /\ e[x] \in Int) /\ f[m] \in Int
    OBVIOUS
  <2>2. IsFiniteSet(T)
    BY <1>1, FS_Subset
  <2> QED BY <2>1, <2>2, SumIsInt
<1> HIDE DEF all
<1>6. SumOver(f, T) <= f[m] + SumOver(f, A)
  BY <1>2, <1>3
<1> QED BY <1>4, <1>5, <1>6

-----------------------------------------------------------------------------
(* The length of the digest                                                 *)

(* An entry as it is with a review date without microseconds.               *)
ShortEntry(r) == r.body + r.note + ShortDate
ShortOf == [x \in Memories |-> ShortEntry(mem[x])]
ShortLimit == MaxRendered + (ShortDate - NoneLength) + NoteGrowth
ShortDigest == SumOver(ShortOf, ActiveCores) <= ShortLimit

(* NoteGrowth is there, and no declaration grows by more.                   *)
LEMMA GrowthBounds ==
  ASSUME IsFiniteSet(Notes)
  PROVE  NoteGrowth \in Nat /\ \A n \in Notes : n.kept <= n.raw + NoteGrowth
<1> DEFINE Gains(n) == n.kept - n.raw
           Above(n) == {k \in Notes : Gains(k) >= Gains(n)}
           B == {Above(n) : n \in Notes}
           G == {0} \cup {Gains(n) : n \in Notes}
<1>1. \A n \in Notes : n.kept \in Int /\ n.raw \in Int /\ Gains(n) \in Int
  BY CoreAssumption
<1>2. \E g \in G : \A h \in G : g >= h
  <2>1. CASE Notes = {}
    BY <2>1
  <2>2. CASE Notes # {}
    <3>1. B \in SUBSET (SUBSET Notes) /\ B # {}
      BY <2>2
    <3>2. PICK s \in B : \A t \in B : t \subseteq s => t = s
      <4> HIDE DEF B
      <4> QED BY <3>1, SmallestSet
    <3>3. PICK n \in Notes : s = Above(n)
      OBVIOUS
    <3> HIDE DEF Gains
    <3>4. \A k \in Notes : Gains(n) >= Gains(k)
      <4> SUFFICES ASSUME NEW k \in Notes, ~(Gains(n) >= Gains(k)) PROVE FALSE
        OBVIOUS
      <4>1. Gains(k) > Gains(n)
        BY <1>1
      <4>2. Above(k) \subseteq Above(n) /\ n \in Above(n) /\ n \notin Above(k)
        BY <1>1, <4>1
      <4>3. Above(k) \in B
        OBVIOUS
      <4> HIDE DEF Above, B
      <4> QED BY <3>2, <3>3, <4>2, <4>3
    <3>5. CASE Gains(n) >= 0
      BY <1>1, <3>4, <3>5
    <3>6. CASE ~(Gains(n) >= 0)
      BY <1>1, <3>4, <3>6
    <3> QED BY <3>5, <3>6
  <2> QED BY <2>1, <2>2
<1>3. NoteGrowth \in G /\ \A h \in G : NoteGrowth >= h
  <2>1. NoteGrowth = CHOOSE g \in G : \A h \in G : g >= h
    BY Zenon DEF NoteGrowth, Max
  <2> HIDE DEF G
  <2> QED BY <1>2, <2>1, Zenon
<1>4. NoteGrowth \in Int /\ NoteGrowth >= 0
  BY <1>1, <1>3
<1>5. \A n \in Notes : NoteGrowth >= Gains(n)
  BY <1>3
<1> QED BY <1>1, <1>4, <1>5

(* A row's lengths: all are natural numbers, what is rendered is not longer *)
(* than what is counted, nor is the entry with a shorter date.              *)
LEMMA RowLengths ==
  ASSUME NEW r, RowInv(r)
  PROVE  /\ Entry(r) \in Nat /\ ShortEntry(r) \in Nat
         /\ Rendered(r) \in Nat /\ Rendered(r) <= Entry(r)
         /\ (Injected(r) => /\ ShortEntry(r) <= Entry(r)
                            /\ Entry(r) <= ShortEntry(r) + (LongDate - ShortDate))
<1>1. r.body \in Nat /\ r.note \in Nat /\ r.date \in {0, 25, 32} /\ (r.due => r.date # 0)
      /\ (Injected(r) => r.date # 0)
  BY DEF RowInv, Rows, Injected, Dates, ShortDate, LongDate
<1>2. Entry(r) = r.body + r.note + r.date /\ ShortEntry(r) = r.body + r.note + 25
      /\ Rendered(r) = Entry(r) - (IF r.due THEN 2 ELSE 0)
  BY DEF Entry, ShortEntry, Rendered, ShortDate, DueSaves
<1> QED BY <1>1, <1>2 DEF ShortDate, LongDate

(* The lengths of all rows.                                                 *)
LEMMA AllLengths ==
  ASSUME RowsInv, NEW x \in Memories
  PROVE  /\ EntryOf[x] = Entry(mem[x]) /\ EntryOf[x] \in Nat
         /\ ShortOf[x] = ShortEntry(mem[x]) /\ ShortOf[x] \in Nat
         /\ RenderedOf[x] = Rendered(mem[x]) /\ RenderedOf[x] \in Nat
         /\ RenderedOf[x] <= EntryOf[x]
         /\ (x \in ActiveCores => /\ ShortOf[x] <= EntryOf[x]
                                  /\ EntryOf[x] <= ShortOf[x] + (LongDate - ShortDate))
<1>1. RowInv(mem[x])
  BY DEF RowsInv
<1>2. EntryOf[x] = Entry(mem[x]) /\ ShortOf[x] = ShortEntry(mem[x])
      /\ RenderedOf[x] = Rendered(mem[x])
  BY DEF EntryOf, ShortOf, RenderedOf
<1>3. x \in ActiveCores => Injected(mem[x])
  BY DEF ActiveCores
<1> QED BY <1>1, <1>2, <1>3, RowLengths

(* The same of the rows after a step.                                       *)
LEMMA NextLengths ==
  ASSUME RowsInv', NEW x \in Memories
  PROVE  /\ EntryOf'[x] = Entry(mem'[x])
         /\ ShortOf'[x] = ShortEntry(mem'[x]) /\ ShortOf'[x] \in Nat
         /\ RenderedOf'[x] = Rendered(mem'[x]) /\ RenderedOf'[x] \in Nat
         /\ Rendered(mem'[x]) <= Entry(mem'[x])
<1>1. RowInv(mem'[x])
  BY DEF RowsInv
<1>2. EntryOf'[x] = Entry(mem'[x]) /\ ShortOf'[x] = ShortEntry(mem'[x])
      /\ RenderedOf'[x] = Rendered(mem'[x])
  BY DEF EntryOf, ShortOf, RenderedOf
<1> QED BY <1>1, <1>2, RowLengths

(* A step that adds no core and enlarges none but by its review date.       *)
Steady ==
  /\ ActiveCores' \subseteq ActiveCores
  /\ \A x \in ActiveCores' : ShortEntry(mem'[x]) <= ShortEntry(mem[x])

(* A step that adds no core and enlarges none.                              *)
Quiet == Steady /\ \A x \in ActiveCores' : Rendered(mem'[x]) <= Rendered(mem[x])

(* A step that check_capacity_admission let through, with r for the row of  *)
(* m, while the cores of L leave.                                           *)
Joins(L, m, r) ==
  /\ m \in Memories \ (ActiveCores \ L)
  /\ ActiveCores' \subseteq (ActiveCores \ L) \cup {m}
  /\ \A x \in ActiveCores \ L : mem'[x] = mem[x]
  /\ Digest(ActiveCores \ L) + Entry(r) <= MaxRendered

(* Such steps leave a digest that is not longer.                            *)
LEMMA SteadySums ==
  ASSUME RowsInv, RowsInv', Steady
  PROVE  /\ SumOver(ShortOf', ActiveCores') <= SumOver(ShortOf, ActiveCores)
         /\ SumOver(ShortOf', ActiveCores') \in Int /\ SumOver(ShortOf, ActiveCores) \in Int
<1> DEFINE H == ShortOf'
           T == ActiveCores'
<1>1. \A x \in T : H[x] \in Nat /\ H[x] <= ShortOf[x]
  <2> TAKE x \in T
  <2>1. x \in Memories
    BY DEF ActiveCores
  <2> QED BY <2>1, AllLengths, NextLengths DEF Steady
<1>2. \A x \in ActiveCores : ShortOf[x] \in Nat
  BY AllLengths DEF ActiveCores
<1>3. T \in SUBSET ActiveCores /\ IsFiniteSet(ActiveCores)
  BY FiniteCores DEF Steady
<1> HIDE DEF H, T
<1>4. /\ SumOver(H, T) <= SumOver(ShortOf, ActiveCores)
      /\ SumOver(H, T) \in Int /\ SumOver(ShortOf, ActiveCores) \in Int
  BY <1>1, <1>2, <1>3, SumShrinks
<1> QED BY <1>4 DEF H, T

(* Nor does one that enlarges no entry make it too long.                    *)
LEMMA QuietFits ==
  ASSUME RowsInv, RowsInv', Quiet, Fits
  PROVE  Fits'
<1> DEFINE R == RenderedOf'
           T == ActiveCores'
<1>1. \A x \in T : R[x] \in Nat /\ R[x] <= RenderedOf[x]
  <2> TAKE x \in T
  <2>1. x \in Memories
    BY DEF ActiveCores
  <2> QED BY <2>1, AllLengths, NextLengths DEF Quiet
<1>2. \A x \in ActiveCores : RenderedOf[x] \in Nat
  BY AllLengths DEF ActiveCores
<1>3. T \in SUBSET ActiveCores /\ IsFiniteSet(ActiveCores)
  BY FiniteCores DEF Quiet, Steady
<1> HIDE DEF R, T
<1>4. /\ SumOver(R, T) <= SumOver(RenderedOf, ActiveCores)
      /\ SumOver(R, T) \in Int /\ SumOver(RenderedOf, ActiveCores) \in Int
  BY <1>1, <1>2, <1>3, SumShrinks
<1>5. SumOver(R, T) <= MaxRendered
  <2>1. MaxRendered \in Int
    BY CoreAssumption
  <2> QED BY <1>4, <2>1, FitsSum
<1> QED BY <1>5, FitsSum DEF R, T

(* A step that was admitted leaves a digest within the limit, if what was   *)
(* counted is not less than what m gets.                                    *)
LEMMA JoinSums ==
  ASSUME RowsInv, RowsInv', NEW L, NEW m, NEW r, Joins(L, m, r), Entry(r) \in Int
  PROVE  /\ Entry(mem'[m]) <= Entry(r) => Fits'
         /\ SumOver(ShortOf', ActiveCores') <= MaxRendered - Entry(r) + ShortEntry(mem'[m])
         /\ SumOver(ShortOf', ActiveCores') \in Int
<1> DEFINE A == ActiveCores \ L
           R == RenderedOf'
           H == ShortOf'
           T == ActiveCores'
<1>1. m \in Memories /\ m \notin A /\ T \in SUBSET (A \cup {m}) /\ A \in SUBSET ActiveCores
      /\ A \in SUBSET Memories /\ IsFiniteSet(A)
  BY FiniteCores, FS_Subset DEF Joins, ActiveCores
<1>2. \A x \in A \cup {m} : R[x] \in Nat /\ H[x] \in Nat
  BY <1>1, NextLengths
<1>3. \A x \in A : EntryOf[x] \in Nat /\ R[x] <= EntryOf[x] /\ H[x] <= EntryOf[x]
  <2> TAKE x \in A
  <2>1. x \in Memories /\ x \in ActiveCores
    BY <1>1
  <2>2. R[x] = RenderedOf[x] /\ H[x] = ShortOf[x]
    <3>1. mem'[x] = mem[x]
      BY DEF Joins
    <3> QED BY <2>1, <3>1, AllLengths, NextLengths
  <2> QED BY <2>1, <2>2, AllLengths
<1>4. R[m] = Rendered(mem'[m]) /\ H[m] = ShortEntry(mem'[m]) /\ R[m] <= Entry(mem'[m])
      /\ R[m] \in Int /\ H[m] \in Int
  BY <1>1, NextLengths
<1>5. SumOver(EntryOf, A) + Entry(r) <= MaxRendered
  BY <1>1, DigestAdds DEF Joins
<1>e. Entry(mem'[m]) \in Int
  <2>1. RowInv(mem'[m])
    BY <1>1 DEF RowsInv
  <2> QED BY <2>1, RowLengths
<1> HIDE DEF A, R, H, T
<1>6. /\ SumOver(R, T) <= SumOver(EntryOf, A) + R[m]
      /\ SumOver(R, T) \in Int /\ SumOver(EntryOf, A) \in Int
  BY <1>1, <1>2, <1>3, SumJoins
<1>7. /\ SumOver(H, T) <= SumOver(EntryOf, A) + H[m]
      /\ SumOver(H, T) \in Int
  BY <1>1, <1>2, <1>3, SumJoins
<1>m. MaxRendered \in Int
  BY CoreAssumption
<1>8. Entry(mem'[m]) <= Entry(r) => SumOver(R, T) <= MaxRendered
  BY <1>4, <1>5, <1>6, <1>e, <1>m
<1>9. SumOver(H, T) <= MaxRendered - Entry(r) + ShortEntry(mem'[m])
  BY <1>4, <1>5, <1>6, <1>7, <1>m
<1> QED BY <1>7, <1>8, <1>9, FitsSum DEF R, H, T


(* A write in place that leaves m no core, or no larger one.                *)
LEMMA InPlaceQuiet ==
  ASSUME RowsInv, NEW m \in Memories, mem' = [mem EXCEPT ![m] = mem'[m]],
         Injected(mem'[m]) => /\ Injected(mem[m])
                              /\ Rendered(mem'[m]) <= Rendered(mem[m])
                              /\ ShortEntry(mem'[m]) <= ShortEntry(mem[m])
  PROVE  Quiet
<1> SUFFICES ASSUME NEW x \in ActiveCores'
             PROVE  /\ x \in ActiveCores
                    /\ ShortEntry(mem'[x]) <= ShortEntry(mem[x])
                    /\ Rendered(mem'[x]) <= Rendered(mem[x])
  BY DEF Quiet, Steady
<1>1. x \in Memories /\ Injected(mem'[x])
  BY DEF ActiveCores
<1>2. CASE x = m
  BY <1>1, <1>2 DEF ActiveCores
<1>3. CASE x # m
  <2>1. mem'[x] = mem[x]
    BY <1>1, <1>3 DEF RowsInv
  <2>2. RowInv(mem[x])
    BY <1>1 DEF RowsInv
  <2> QED BY <1>1, <2>1, <2>2, RowLengths DEF ActiveCores
<1> QED BY <1>2, <1>3

(* Archiving and time enlarge nothing.                                      *)
LEMMA SmallQuiet ==
  ASSUME RowsInv, NEW m \in Memories, Archive(m) \/ FallsDue(m)
  PROVE  Quiet
<1>0. RowInv(mem[m]) /\ mem[m] \in Rows /\ m \in DOMAIN mem
  BY DEF RowsInv, RowInv
<1>1. CASE Archive(m)
  <2>1. mem'[m] = Archived(mem[m]) /\ mem' = [mem EXCEPT ![m] = mem'[m]]
    BY <1>0, <1>1 DEF Archive, RowsInv
  <2>2. ~Injected(mem'[m])
    BY <1>0, <2>1, ArchivedRow
  <2> QED BY <2>1, <2>2, InPlaceQuiet
<1>2. CASE FallsDue(m)
  <2>1. mem'[m] = [status |-> mem[m].status, core |-> mem[m].core, body |-> mem[m].body,
                   note |-> mem[m].note, date |-> mem[m].date, due |-> TRUE,
                   details |-> mem[m].details]
        /\ mem' = [mem EXCEPT ![m] = mem'[m]]
    BY <1>0, <1>2 DEF FallsDue, Rows, RowsInv
  <2>2. Injected(mem[m]) /\ ~mem[m].due
    BY <1>2 DEF FallsDue, ActiveCores
  <2>3. mem[m].body \in Nat /\ mem[m].note \in Nat /\ mem[m].date \in Nat
    BY <1>0 DEF Rows, Dates, ShortDate, LongDate
  <2>4. ShortEntry(mem'[m]) <= ShortEntry(mem[m]) /\ Rendered(mem'[m]) <= Rendered(mem[m])
    BY <2>1, <2>2, <2>3 DEF ShortEntry, ShortDate, Rendered, Entry, DueSaves
  <2> QED BY <2>1, <2>2, <2>4, InPlaceQuiet
<1> QED BY <1>1, <1>2

(* A review changes nothing but the date.                                   *)
LEMMA ReviewSteady ==
  ASSUME RowsInv, NEW m \in Memories, Review(m)
  PROVE  Steady
<1>1. ActiveCores' \subseteq ActiveCores
  BY SmallSteps
<1>2. /\ mem' = [mem EXCEPT ![m] = mem'[m]]
      /\ mem'[m].body = mem[m].body /\ mem'[m].note = mem[m].note
  <2>1. mem[m] \in Rows /\ m \in DOMAIN mem
    BY DEF RowsInv
  <2>2. CASE Demote(m)
    BY <2>1, <2>2 DEF Demote, RowsInv, Rows
  <2>3. ASSUME NEW d \in Dates, Retain(m, d)
        PROVE  /\ mem' = [mem EXCEPT ![m] = mem'[m]]
               /\ mem'[m].body = mem[m].body /\ mem'[m].note = mem[m].note
    BY <2>1, <2>3 DEF Retain, RowsInv, Rows
  <2> QED BY <2>2, <2>3 DEF Review
<1>3. ASSUME NEW x \in ActiveCores' PROVE ShortEntry(mem'[x]) <= ShortEntry(mem[x])
  <2>1. x \in Memories /\ RowInv(mem[x])
    BY DEF ActiveCores, RowsInv
  <2>2. mem'[x].body = mem[x].body /\ mem'[x].note = mem[x].note
    BY <1>2, <2>1 DEF RowsInv
  <2>3. ShortEntry(mem'[x]) = ShortEntry(mem[x])
    BY <2>2 DEF ShortEntry
  <2> QED BY <2>1, <2>3, RowLengths
<1> QED BY <1>1, <1>3 DEF Steady

(* An ordinary memory is stored, or a memory made one.                      *)
LEMMA StoreOrdinaryQuiet ==
  ASSUME RowsInv, NEW m \in Memories, NEW b \in Bodies, StoreOrdinary(m, b)
  PROVE  Quiet
BY StoreOrdinaryStep, InPlaceQuiet

(* An admitted write in place is counted, unless the row stays archived.    *)
LEMMA InPlaceCounts ==
  ASSUME RowsInv, NEW m \in Memories, NEW redated \in BOOLEAN, MadeCore(m),
         Admission(m, mem'[m], redated)
  PROVE  Quiet \/ (Injected(mem'[m]) /\ Joins({m}, m, mem'[m]))
<1>0. mem' = [mem EXCEPT ![m] = mem'[m]] /\ RowInv(mem'[m])
  BY DEF MadeCore
<1>1. CASE ~Injected(mem'[m])
  BY <1>0, <1>1, InPlaceQuiet
<1>2. CASE Injected(mem'[m])
  <2>0. mem[m].status # "archived"
    BY <1>2 DEF MadeCore, Injected
  <2>1. Digest(ActiveCores \ {m}) + Entry(mem'[m]) <= MaxRendered
    BY <2>0 DEF Admission, Admits
  <2>2. ActiveCores' \subseteq (ActiveCores \ {m}) \cup {m}
    BY <1>0, InPlace
  <2>3. \A x \in ActiveCores \ {m} : mem'[x] = mem[x]
    BY <1>0 DEF ActiveCores, RowsInv
  <2> QED BY <1>2, <2>1, <2>2, <2>3 DEF Joins
<1> QED BY <1>1, <1>2

(* Deriving an ordinary memory.                                             *)
LEMMA DeriveOrdinaryQuiet ==
  ASSUME RowsInv, NEW m \in Memories, NEW sources \in SUBSET Memories,
         NEW st \in {"raw", "consolidated"}, NEW b \in Bodies, NEW decided \in BOOLEAN,
         DeriveOrdinary(sources, m, st, b, decided)
  PROVE  Quiet
<1>0. ~Injected(mem'[m])
  BY DEF DeriveOrdinary, Replaces, Ordinary, Injected
<1>1. \A x \in Memories \ {m} : mem'[x] = IF x \in sources THEN Archived(mem[x]) ELSE mem[x]
  BY DEF DeriveOrdinary, Replaces
<1>2. ASSUME NEW x \in ActiveCores'
      PROVE  /\ x \in ActiveCores
             /\ ShortEntry(mem'[x]) <= ShortEntry(mem[x])
             /\ Rendered(mem'[x]) <= Rendered(mem[x])
  <2>1. x \in Memories /\ Injected(mem'[x]) /\ x # m /\ RowInv(mem[x])
    BY <1>0, <1>1 DEF ActiveCores, RowsInv
  <2>2. mem'[x] = mem[x]
    BY <1>1, <2>1, ArchivedRow
  <2> QED BY <2>1, <2>2, RowLengths DEF ActiveCores
<1> QED BY <1>2 DEF Quiet, Steady

(* Deriving a core: the declaration is counted as given.                    *)
LEMMA DeriveCoreCounts ==
  ASSUME Inv, NEW m \in Memories, NEW sources \in SUBSET Memories, mem[m].status = "absent",
         NEW st \in {"raw", "consolidated"}, NEW b \in Bodies, NEW n \in Notes, NEW d \in Dates,
         NEW written \in {NoneLength, d, d - ZuluSaves}, NEW ds \in Declarations \ {Omitted},
         DeriveCore(sources, m, st, b, n, written, d, ds),
         NEW q, q = Declared(mem'[m], n, written)
  PROVE  /\ Joins(sources, m, q) /\ Entry(q) \in Int
         /\ ShortEntry(mem'[m]) <= Entry(q) + (ShortDate - NoneLength) + NoteGrowth
<1> DEFINE o == Ordinary(st, b)
           c == CoreRow(o, n, TRUE, d, ds)
           r == Declared(c, n, written)
<1>1. /\ Admits(sources, r) /\ Replaces(sources, m, c)
  BY DEF DeriveCore
<1>2. mem'[m] = c /\ \A x \in Memories \ {m} : mem'[x] = IF x \in sources THEN Archived(mem[x]) ELSE mem[x]
  BY <1>1 DEF Replaces
<1>3. b \in Nat /\ n.raw \in Nat /\ n.kept \in Nat /\ n # Omitted
  BY CoreAssumption
<1>4. c.body = b /\ c.note = n.kept
  BY <1>3 DEF CoreRow, Ordinary
<1>5. r.body = b /\ r.note = n.raw /\ r.date = written
  BY <1>4 DEF Declared, CoreRow
<1>6. Entry(r) = b + n.raw + written /\ ShortEntry(c) = b + n.kept + 25
  BY <1>4, <1>5 DEF Entry, ShortEntry, ShortDate
<1>7. written \in Int /\ written >= 4
  BY DEF NoneLength, Dates, ShortDate, LongDate, ZuluSaves
<1>8. NoteGrowth \in Nat /\ n.kept <= n.raw + NoteGrowth
  BY GrowthBounds, CoreAssumption
<1>9. Entry(r) \in Int /\ ShortEntry(c) <= Entry(r) + (ShortDate - NoneLength) + NoteGrowth
  <2> HIDE DEF o, c, r
  <2>1. Entry(r) \in Int /\ ShortEntry(c) \in Int
    BY <1>3, <1>6, <1>7
  <2>2. b + n.kept + 25 <= (b + n.raw + written) + (25 - 4) + NoteGrowth
    BY <1>3, <1>7, <1>8
  <2> QED BY <1>6, <2>1, <2>2 DEF ShortDate, NoneLength
<1>10. Joins(sources, m, r)
  <2>1. m \notin ActiveCores
    BY DEF ActiveCores, Injected
  <2>2. RowsInv' 
    BY DeriveCoreStep DEF Inv
  <2>3. ActiveCores' \subseteq (ActiveCores \ sources) \cup {m}
    <3>1. RowInv(mem'[m]) /\ Replaces(sources, m, mem'[m])
      BY <1>1, <1>2, <2>2 DEF RowsInv
    <3> QED BY <3>1, DeriveStep DEF Inv
  <2>4. \A x \in ActiveCores \ sources : mem'[x] = mem[x]
    BY <1>2, <2>1 DEF ActiveCores
  <2>5. Digest(ActiveCores \ sources) + Entry(r) <= MaxRendered
    BY <1>1 DEF Admits
  <2> QED BY <2>1, <2>3, <2>4, <2>5 DEF Joins
<1> QED BY <1>2, <1>9, <1>10


(* What each write of a memory does to the digest.                          *)
LEMMA StoreCounts ==
  ASSUME RowsInv, NEW m \in Memories, Store(m)
  PROVE  Quiet \/ (Injected(mem'[m]) /\ Joins({m}, m, mem'[m]))
<1>1. PICK b \in Bodies :
        \/ StoreOrdinary(m, b)
        \/ \E n \in Notes \cup {Omitted}, redated \in BOOLEAN, d \in Dates, ds \in Declarations :
             StoreCore(m, b, n, redated, d, ds)
  BY DEF Store
<1>2. CASE StoreOrdinary(m, b)
  BY <1>2, StoreOrdinaryQuiet
<1>3. ASSUME NEW n \in Notes \cup {Omitted}, NEW redated \in BOOLEAN, NEW d \in Dates,
             NEW ds \in Declarations, StoreCore(m, b, n, redated, d, ds)
      PROVE  Quiet \/ (Injected(mem'[m]) /\ Joins({m}, m, mem'[m]))
  <2>1. MadeCore(m) /\ Admission(m, mem'[m], redated /\ mem[m].date # 0)
    BY <1>3, StoreCoreRow
  <2>2. Admission(m, mem'[m], FALSE)
    BY <2>1 DEF Admission, WithinBoundary
  <2> QED BY <2>1, <2>2, InPlaceCounts
<1> QED BY <1>1, <1>2, <1>3

(* And set_core_memory.                                                     *)
LEMMA SetCounts ==
  ASSUME RowsInv, NEW m \in Memories, Set(m)
  PROVE  Quiet \/ (Injected(mem'[m]) /\ Joins({m}, m, mem'[m]))
<1>1. MadeCore(m) /\ Admission(m, mem'[m], FALSE)
  BY SetCoreRow DEF Set
<1> QED BY <1>1, InPlaceCounts

(* The inductive invariant of the length of the digest: with short dates    *)
(* for all cores it exceeds its limit by what one derived write may have    *)
(* hidden from its admission.                                               *)
SumInv == Inv /\ ShortDigest

(* It holds at first.                                                       *)
LEMMA SumInvInit == Init => SumInv
<1> SUFFICES ASSUME Init PROVE ShortDigest
  BY InvInit DEF SumInv
<1>1. ActiveCores = {}
  BY DEF Init, ActiveCores, Injected, Ordinary
<1>2. SumOver(ShortOf, {}) = 0
  <2>1. IsFiniteSet({})
    BY FS_EmptySet
  <2> QED BY <2>1, SumUnfolds
<1>3. NoteGrowth \in Nat /\ MaxRendered \in Nat
  BY GrowthBounds, CoreAssumption
<1>4. 0 <= ShortLimit
  BY <1>3 DEF ShortLimit, ShortDate, NoneLength
<1> QED BY <1>1, <1>2, <1>4 DEF ShortDigest

(* Steps that enlarge a row by its date only.                               *)
LEMMA SteadyKeeps ==
  ASSUME SumInv, Inv', Steady
  PROVE  SumInv'
<1>1. NoteGrowth \in Nat /\ MaxRendered \in Nat
  BY GrowthBounds, CoreAssumption
<1>2. ShortLimit \in Int
  BY <1>1 DEF ShortLimit, ShortDate, NoneLength
<1>3. /\ SumOver(ShortOf', ActiveCores') <= SumOver(ShortOf, ActiveCores)
      /\ SumOver(ShortOf', ActiveCores') \in Int /\ SumOver(ShortOf, ActiveCores) \in Int
  BY SteadySums DEF SumInv, Inv
<1>4. SumOver(ShortOf', ActiveCores') <= ShortLimit
  BY <1>2, <1>3 DEF SumInv, ShortDigest
<1> QED BY <1>4 DEF SumInv, ShortDigest, ShortLimit

(* A step that adds and enlarges nothing.                                   *)
LEMMA QuietKeeps ==
  ASSUME SumInv, Inv', Quiet
  PROVE  SumInv' /\ (Fits => Fits')
<1>1. SumInv'
  BY SteadyKeeps DEF Quiet
<1>2. Fits => Fits'
  BY QuietFits DEF SumInv, Inv
<1> QED BY <1>1, <1>2

(* A memory written in place is counted as it is.                           *)
LEMMA CountedKeeps ==
  ASSUME SumInv, Inv', NEW m \in Memories, Injected(mem'[m]), Joins({m}, m, mem'[m])
  PROVE  SumInv' /\ Fits'
<1>1. NoteGrowth \in Nat /\ MaxRendered \in Nat
  BY GrowthBounds, CoreAssumption
<1>2. RowInv(mem'[m])
  BY DEF Inv, RowsInv
<1>3. Entry(mem'[m]) \in Int /\ ShortEntry(mem'[m]) \in Int
      /\ ShortEntry(mem'[m]) <= Entry(mem'[m])
  BY <1>2, RowLengths
<1>4. /\ Entry(mem'[m]) <= Entry(mem'[m]) => Fits'
      /\ SumOver(ShortOf', ActiveCores') <= MaxRendered - Entry(mem'[m]) + ShortEntry(mem'[m])
      /\ SumOver(ShortOf', ActiveCores') \in Int
  BY <1>3, JoinSums DEF SumInv, Inv
<1>5. Fits'
  BY <1>3, <1>4
<1>6. SumOver(ShortOf', ActiveCores') <= ShortLimit
  BY <1>1, <1>3, <1>4 DEF ShortLimit, ShortDate, NoneLength
<1> QED BY <1>5, <1>6 DEF SumInv, ShortDigest, ShortLimit

(* A derived core.                                                          *)
LEMMA DeriveCoreKeeps ==
  ASSUME SumInv, Inv', NEW m \in Memories, NEW sources \in SUBSET Memories,
         mem[m].status = "absent",
         NEW st \in {"raw", "consolidated"}, NEW b \in Bodies, NEW n \in Notes, NEW d \in Dates,
         NEW written \in {NoneLength, d, d - ZuluSaves}, NEW ds \in Declarations \ {Omitted},
         DeriveCore(sources, m, st, b, n, written, d, ds)
  PROVE  SumInv'
<1> DEFINE r == Declared(mem'[m], n, written)
<1>0. Inv /\ r = Declared(mem'[m], n, written)
  BY DEF SumInv
<1> HIDE DEF r
<1>1. /\ Joins(sources, m, r) /\ Entry(r) \in Int
      /\ ShortEntry(mem'[m]) <= Entry(r) + (ShortDate - NoneLength) + NoteGrowth
  BY <1>0, DeriveCoreCounts, ZenonT(60)
<1>2. /\ SumOver(ShortOf', ActiveCores') <= MaxRendered - Entry(r) + ShortEntry(mem'[m])
      /\ SumOver(ShortOf', ActiveCores') \in Int
  BY <1>1, JoinSums DEF SumInv, Inv
<1>3. NoteGrowth \in Nat /\ MaxRendered \in Nat
  BY GrowthBounds, CoreAssumption
<1>4. ShortEntry(mem'[m]) \in Int
  <2>1. RowInv(mem'[m])
    BY DEF Inv, RowsInv
  <2> QED BY <2>1, RowLengths
<1>5. SumOver(ShortOf', ActiveCores') <= ShortLimit
  BY <1>1, <1>2, <1>3, <1>4 DEF ShortLimit, ShortDate, NoneLength
<1> QED BY <1>5 DEF SumInv, ShortDigest, ShortLimit

(* Every step.                                                              *)
LEMMA SumInvNext ==
  ASSUME SumInv, [Next]_mem
  PROVE  SumInv' /\ (Fits /\ ~Fits' => \E m \in Memories : Review(m) \/ Derive(m))
<1>0. Inv /\ ShortDigest /\ RowsInv /\ Inv'
  BY InvNext DEF SumInv, Inv
<1>1. CASE UNCHANGED mem
  <2>1. ActiveCores' = ActiveCores
    BY <1>1 DEF ActiveCores
  <2>2. \A x \in ActiveCores : ShortEntry(mem[x]) \in Int /\ Rendered(mem[x]) \in Int
    BY <1>0, RowLengths DEF RowsInv, ActiveCores
  <2>3. Quiet
    BY <1>1, <2>1, <2>2 DEF Quiet, Steady
  <2> QED BY <1>0, <2>3, QuietKeeps
<1>2. ASSUME NEW m \in Memories, Store(m) \/ Set(m)
      PROVE  SumInv' /\ (Fits => Fits')
  <2>1. Quiet \/ (Injected(mem'[m]) /\ Joins({m}, m, mem'[m]))
    BY <1>0, <1>2, StoreCounts, SetCounts
  <2>2. CASE Quiet
    BY <1>0, <2>2, QuietKeeps
  <2>3. CASE Injected(mem'[m]) /\ Joins({m}, m, mem'[m])
    BY <1>0, <2>3, CountedKeeps
  <2> QED BY <2>1, <2>2, <2>3
<1>3. ASSUME NEW m \in Memories, Archive(m) \/ FallsDue(m)
      PROVE  SumInv' /\ (Fits => Fits')
  <2>1. Quiet
    BY <1>0, <1>3, SmallQuiet
  <2> QED BY <1>0, <2>1, QuietKeeps
<1>4. ASSUME NEW m \in Memories, Review(m)
      PROVE  SumInv'
  <2>1. Steady
    BY <1>0, <1>4, ReviewSteady
  <2> QED BY <1>0, <2>1, SteadyKeeps
<1>5. ASSUME NEW m \in Memories, Derive(m)
      PROVE  SumInv'
  <2>1. PICK sources \in SUBSET Memories, st \in {"raw", "consolidated"}, b \in Bodies :
          /\ Derivable(sources, m, st)
          /\ \/ \E decided \in BOOLEAN : DeriveOrdinary(sources, m, st, b, decided)
             \/ \E n \in Notes, d \in Dates, ds \in Declarations \ {Omitted} :
                  \E written \in {NoneLength, d, d - ZuluSaves} :
                    DeriveCore(sources, m, st, b, n, written, d, ds)
    BY <1>5 DEF Derive
  <2>2. ASSUME NEW decided \in BOOLEAN, DeriveOrdinary(sources, m, st, b, decided)
        PROVE  SumInv'
    <3>1. Quiet
      BY <1>0, <2>2, DeriveOrdinaryQuiet
    <3> QED BY <1>0, <3>1, SteadyKeeps DEF Quiet
  <2>3. mem[m].status = "absent"
    BY <2>1 DEF Derivable
  <2>4. ASSUME NEW n \in Notes, NEW d \in Dates, NEW ds \in Declarations \ {Omitted},
               NEW written \in {NoneLength, d, d - ZuluSaves},
               DeriveCore(sources, m, st, b, n, written, d, ds)
        PROVE  SumInv'
    BY <1>0, <2>3, <2>4, DeriveCoreKeeps
  <2> QED BY <2>1, <2>2, <2>4
<1> QED BY <1>1, <1>2, <1>3, <1>4, <1>5 DEF Next

(* However many derived writes and reviews follow each other, the digest    *)
(* exceeds its limit by one hidden growth and the microseconds of the dates.*)
THEOREM DigestOverrunBounded == Spec => []OverrunBounded
<1>1. SumInv => OverrunBounded
  <2> SUFFICES ASSUME SumInv PROVE OverrunBounded
    OBVIOUS
  <2>1. ActiveCores \in SUBSET Memories /\ IsFiniteSet(ActiveCores) /\ Cardinality(ActiveCores) \in Nat
    BY FiniteCores DEF ActiveCores
  <2>2. \A x \in ActiveCores : /\ EntryOf[x] \in Int /\ ShortOf[x] \in Int
                               /\ EntryOf[x] <= ShortOf[x] + (LongDate - ShortDate)
    BY <2>1, AllLengths DEF SumInv, Inv
  <2>3. SumOver(EntryOf, ActiveCores)
          <= SumOver(ShortOf, ActiveCores) + (LongDate - ShortDate) * Cardinality(ActiveCores)
    <3>1. LongDate - ShortDate \in Int
      BY DEF LongDate, ShortDate
    <3> DEFINE c == LongDate - ShortDate
    <3> HIDE DEF c
    <3>2. c \in Int /\ \A x \in ActiveCores : /\ EntryOf[x] \in Int /\ ShortOf[x] \in Int
                                             /\ EntryOf[x] <= ShortOf[x] + c
      BY <2>2, <3>1 DEF c
    <3>3. SumOver(EntryOf, ActiveCores) <= SumOver(ShortOf, ActiveCores) + c * Cardinality(ActiveCores)
      BY <2>1, <3>2, SumGrows
    <3> QED BY <3>3 DEF c
  <2>4. SumOver(EntryOf, ActiveCores) \in Int /\ SumOver(ShortOf, ActiveCores) \in Int
    <3>1. (\A x \in ActiveCores : EntryOf[x] \in Int) /\ (\A x \in ActiveCores : ShortOf[x] \in Int)
      BY <2>2
    <3> QED BY <2>1, <3>1, SumIsInt
  <2>5. Digest(ActiveCores) = SumOver(EntryOf, ActiveCores)
    BY <2>1, DigestAdds
  <2>6. SumOver(ShortOf, ActiveCores) <= MaxRendered + (ShortDate - NoneLength) + NoteGrowth
    BY DEF SumInv, ShortDigest, ShortLimit
  <2>7. MaxRendered + (ShortDate - NoneLength) + NoteGrowth \in Int
        /\ (LongDate - ShortDate) * Cardinality(ActiveCores) \in Int
    <3>1. NoteGrowth \in Nat /\ MaxRendered \in Nat
      BY GrowthBounds, CoreAssumption
    <3> QED BY <2>1, <3>1 DEF ShortDate, NoneLength, LongDate
  <2> DEFINE a == MaxRendered + (ShortDate - NoneLength) + NoteGrowth
             p == (LongDate - ShortDate) * Cardinality(ActiveCores)
  <2>8. /\ Digest(ActiveCores) <= SumOver(ShortOf, ActiveCores) + p
        /\ SumOver(ShortOf, ActiveCores) <= a /\ a \in Int /\ p \in Int
        /\ Digest(ActiveCores) \in Int
    BY <2>3, <2>4, <2>5, <2>6, <2>7
  <2> HIDE DEF a, p
  <2>9. Digest(ActiveCores) <= a + p
    BY <2>4, <2>8
  <2> QED BY <2>9 DEF OverrunBounded, a, p
<1>2. SumInv /\ [Next]_mem => SumInv'
  BY SumInvNext
<1> QED BY <1>1, <1>2, SumInvInit, PTL DEF Spec

(* Storing, promoting and changing a core, archiving one and time never     *)
(* make a digest too long that was within its limit: what the admission     *)
(* counts is what is rendered.                                              *)
THEOREM AdmissionFits == Spec => AdmittedFits
<1>1. SumInv /\ [Next]_mem =>
        [Fits /\ ~Fits' => \E m \in Memories : Review(m) \/ Derive(m)]_mem
  BY SumInvNext
<1>2. SumInv /\ [Next]_mem => SumInv'
  BY SumInvNext
<1> QED BY <1>1, <1>2, SumInvInit, PTL DEF Spec, AdmittedFits

(***************************************************************************)
(* The digest of a new session (SessionHandover), for any sessions, texts  *)
(* and budgets.  First what the proofs need of orders and sums.            *)
(***************************************************************************)

(* R puts the elements of S in one order.                                   *)
Orders(R, S) ==
  /\ \A x \in S : <<x, x>> \notin R
  /\ \A x, y, z \in S : <<x, y>> \in R /\ <<y, z>> \in R => <<x, z>> \in R
  /\ \A x, y \in S : x # y => <<x, y>> \in R \/ <<y, x>> \in R

Ahead(R, S, x) == {y \in S : <<y, x>> \in R}

(* An order is one of every part, and so is the order reversed.             *)
LEMMA OrderOfPart ==
  ASSUME NEW R, NEW S, Orders(R, S), NEW T \in SUBSET S
  PROVE  Orders(R, T)
  BY DEF Orders

LEMMA OrderReversed ==
  ASSUME NEW R, NEW S, Orders(R, S)
  PROVE  Orders({p \in S \X S : <<p[2], p[1]>> \in R}, S)
<1> DEFINE Q == {p \in S \X S : <<p[2], p[1]>> \in R}
<1>1. ASSUME NEW x \in S, NEW y \in S PROVE <<x, y>> \in Q <=> <<y, x>> \in R
  OBVIOUS
<1> HIDE DEF Q
<1>2. Orders(Q, S)
  BY <1>1 DEF Orders
<1> QED BY <1>2 DEF Q

(* What is ahead of an element that is ahead is ahead.                      *)
LEMMA AheadShrinks ==
  ASSUME NEW R, NEW S, Orders(R, S), NEW x \in S, NEW y \in S, <<y, x>> \in R
  PROVE  /\ Ahead(R, S, y) \subseteq Ahead(R, S, x)
         /\ y \in Ahead(R, S, x) /\ y \notin Ahead(R, S, y)
  BY DEF Orders, Ahead

(* A part of a finite set has a first element.                              *)
LEMMA FirstThere ==
  ASSUME NEW R, NEW S, IsFiniteSet(S), Orders(R, S), NEW T \in SUBSET S, T # {}
  PROVE  \E x \in T : \A y \in T : y # x => <<x, y>> \in R
<1> DEFINE B == {Ahead(R, S, x) : x \in T}
<1>1. B \in SUBSET (SUBSET S) /\ B # {}
  BY DEF Ahead
<1>2. PICK s \in B : \A t \in B : t \subseteq s => t = s
  <2> HIDE DEF B
  <2> QED BY <1>1, SmallestSet
<1>3. PICK x \in T : s = Ahead(R, S, x)
  OBVIOUS
<1>4. ASSUME NEW y \in T, <<y, x>> \in R PROVE FALSE
  <2>1. /\ Ahead(R, S, y) \subseteq Ahead(R, S, x)
        /\ y \in Ahead(R, S, x) /\ y \notin Ahead(R, S, y)
    BY <1>4, AheadShrinks
  <2>2. Ahead(R, S, y) \in B
    OBVIOUS
  <2> QED BY <1>2, <1>3, <2>1, <2>2
<1> QED BY <1>4 DEF Orders

LEMMA FirstOfAll ==
  ASSUME NEW S, IsFiniteSet(S), S # {}
  PROVE  \A R : Orders(R, S) => \E x \in S : \A y \in S : y # x => <<x, y>> \in R
<1>1. S \in SUBSET S
  OBVIOUS
<1> QED BY <1>1, FirstThere

(* The number of elements ahead tells the order.                            *)
LEMMA RankTells ==
  ASSUME NEW R, NEW S, IsFiniteSet(S), Orders(R, S), NEW x \in S, NEW y \in S
  PROVE  /\ Cardinality(Ahead(R, S, x)) \in Nat
         /\ <<y, x>> \in R <=> Cardinality(Ahead(R, S, y)) < Cardinality(Ahead(R, S, x))
<1>1. \A z \in S : Ahead(R, S, z) \in SUBSET S /\ IsFiniteSet(Ahead(R, S, z))
                   /\ Cardinality(Ahead(R, S, z)) \in Nat
  <2> TAKE z \in S
  <2>1. Ahead(R, S, z) \in SUBSET S
    BY DEF Ahead
  <2> QED BY <2>1, FS_Subset, FS_CardinalityType
<1>2. ASSUME NEW a \in S, NEW b \in S, <<b, a>> \in R
      PROVE  Cardinality(Ahead(R, S, b)) < Cardinality(Ahead(R, S, a))
  <2>1. /\ Ahead(R, S, b) \subseteq Ahead(R, S, a)
        /\ b \in Ahead(R, S, a) /\ b \notin Ahead(R, S, b)
    BY <1>2, AheadShrinks
  <2>2. /\ Cardinality(Ahead(R, S, b)) <= Cardinality(Ahead(R, S, a))
        /\ Cardinality(Ahead(R, S, b)) # Cardinality(Ahead(R, S, a))
    BY <1>1, <2>1, FS_Subset
  <2> QED BY <1>1, <2>2
<1>3. <<y, x>> \in R \/ <<x, y>> \in R \/ x = y
  BY DEF Orders
<1>4. CASE <<y, x>> \in R
  BY <1>1, <1>2, <1>4
<1>5. CASE <<x, y>> \in R
  <2>1. <<y, x>> \notin R
    BY <1>5 DEF Orders
  <2>2. Cardinality(Ahead(R, S, x)) < Cardinality(Ahead(R, S, y))
    BY <1>2, <1>5
  <2> QED BY <1>1, <2>1, <2>2
<1>6. CASE x = y
  <2>1. <<y, x>> \notin R
    BY <1>6 DEF Orders
  <2> QED BY <1>1, <1>6, <2>1
<1> QED BY <1>3, <1>4, <1>5, <1>6

(* When some element has m or more ahead, m elements have fewer, and all of *)
(* those are ahead of it.                                                   *)
LEMMA TopIsFull ==
  ASSUME NEW R, NEW S, IsFiniteSet(S), Orders(R, S), NEW m \in Nat,
         NEW a \in S, ~(Cardinality(Ahead(R, S, a)) < m)
  PROVE  LET top == {x \in S : Cardinality(Ahead(R, S, x)) < m}
         IN  Cardinality(top) = m /\ \A x \in top : <<x, a>> \in R
<1> DEFINE rank == [x \in S |-> Cardinality(Ahead(R, S, x))]
           top == {x \in S : rank[x] < m}
           low == {x \in S : ~(rank[x] < m)}
<1>0. \A x \in S : rank[x] \in Nat
  BY RankTells
<1>1. \A x, y \in S : rank[y] < rank[x] => <<y, x>> \in R
  BY RankTells
<1>2. PICK s \in low : \A y \in low : y # s => <<s, y>> \in R
  <2>1. low \in SUBSET S /\ low # {}
    OBVIOUS
  <2> HIDE DEF low
  <2> QED BY <2>1, FirstThere
<1>3. top = Ahead(R, S, s)
  <2> HIDE DEF rank
  <2>1. ASSUME NEW x \in top PROVE <<x, s>> \in R
    <3>1. x \in S /\ s \in S /\ rank[x] < m /\ ~(rank[s] < m)
      OBVIOUS
    <3>2. rank[x] < rank[s]
      <4>1. rank[x] \in Nat /\ rank[s] \in Nat
        BY <1>0, <3>1
      <4> HIDE DEF top, low
      <4> QED BY <3>1, <4>1
    <3> HIDE DEF top, low
    <3> QED BY <1>1, <3>1, <3>2
  <2>2. ASSUME NEW x \in S, <<x, s>> \in R PROVE x \in top
    <3>1. x # s /\ <<s, x>> \notin R
      BY <2>2 DEF Orders
    <3> QED BY <1>2, <3>1
  <2>3. top \subseteq S
    OBVIOUS
  <2> HIDE DEF top
  <2> QED BY <2>1, <2>2, <2>3 DEF Ahead
<1>4. Cardinality(top) = rank[s] /\ rank[s] \in Nat /\ rank[s] >= m
  <2>1. s \in S /\ ~(rank[s] < m)
    OBVIOUS
  <2>2. Cardinality(top) = rank[s]
    BY <1>3, <2>1
  <2> HIDE DEF rank, top
  <2> QED BY <1>0, <2>1, <2>2
<1>5. ASSUME rank[s] > m PROVE FALSE
  <2> DEFINE Q == {p \in S \X S : <<p[2], p[1]>> \in R}
  <2>1. top # {} /\ top \in SUBSET S
    <3>1. top \in SUBSET S
      OBVIOUS
    <3> HIDE DEF rank, top
    <3> QED BY <1>4, <1>5, <3>1, FS_EmptySet
  <2>2. PICK b \in top : \A y \in top : y # b => <<b, y>> \in Q
    <3>1. Orders(Q, S)
      BY OrderReversed
    <3> HIDE DEF Q, top
    <3> QED BY <2>1, <3>1, FirstThere
  <2>3. b \in S /\ rank[b] < m
    OBVIOUS
  <2>4. \A y \in top : y # b => <<y, b>> \in R
    BY <2>1, <2>2
  <2>5. top \ {b} \subseteq Ahead(R, S, b)
    <3> HIDE DEF top
    <3> QED BY <2>1, <2>4 DEF Ahead
  <2>6. IsFiniteSet(top) /\ IsFiniteSet(Ahead(R, S, b))
    <3>1. Ahead(R, S, b) \in SUBSET S
      BY DEF Ahead
    <3> HIDE DEF top
    <3> QED BY <2>1, <3>1, FS_Subset
  <2>7. Cardinality(top \ {b}) = Cardinality(top) - 1
    <3> HIDE DEF top
    <3> QED BY <2>6, FS_RemoveElement
  <2>8. Cardinality(top \ {b}) <= rank[b]
    <3>1. rank[b] = Cardinality(Ahead(R, S, b))
      BY <2>3
    <3> HIDE DEF rank, top
    <3>2. Cardinality(top \ {b}) <= Cardinality(Ahead(R, S, b))
      BY <2>5, <2>6, FS_Subset
    <3> QED BY <3>1, <3>2
  <2>9. rank[b] \in Nat
    BY <1>0, <2>3
  <2> HIDE DEF rank, top
  <2> QED BY <1>4, <1>5, <2>3, <2>7, <2>8, <2>9
<1>6. Cardinality(top) = m
  <2> HIDE DEF rank, top
  <2> QED BY <1>4, <1>5
<1>7. \A x \in top : <<x, a>> \in R
  <2>1. \A x \in top : x \in S /\ rank[x] < m /\ ~(rank[a] < m)
    OBVIOUS
  <2>2. \A x \in top : rank[x] < rank[a]
    <3>1. \A x \in top : rank[x] \in Nat /\ rank[a] \in Nat
      BY <1>0, <2>1
    <3> HIDE DEF rank, top
    <3> QED BY <2>1, <3>1
  <2> HIDE DEF rank, top
  <2> QED BY <1>1, <2>1, <2>2
<1> QED BY <1>6, <1>7

(* The greatest and the least of finitely many integers.                    *)
LEMMA MaxThere ==
  ASSUME NEW S \in SUBSET Int, IsFiniteSet(S), S # {}
  PROVE  /\ Max(S) \in S /\ \A x \in S : Max(S) >= x
         /\ Min(S) \in S /\ \A x \in S : Min(S) <= x
<1> DEFINE R == {p \in S \X S : p[1] > p[2]}
           Q == {p \in S \X S : p[1] < p[2]}
<1>1. /\ \A x, y \in S : <<x, y>> \in R <=> x > y
      /\ \A x, y \in S : <<x, y>> \in Q <=> x < y
  OBVIOUS
<1> HIDE DEF R, Q
<1>2. \A x, y, z \in S : /\ ~(x > x) /\ ~(x < x)
                         /\ (x > y /\ y > z => x > z) /\ (x < y /\ y < z => x < z)
                         /\ (x # y => x > y \/ y > x) /\ (x # y => x < y \/ y < x)
  OBVIOUS
<1>3. Orders(R, S) /\ Orders(Q, S)
  BY <1>1, <1>2 DEF Orders
<1>4. PICK g \in S : \A y \in S : y # g => <<g, y>> \in R
  <2>1. \A r : Orders(r, S) => \E x \in S : \A y \in S : y # x => <<x, y>> \in r
    BY FirstOfAll
  <2>2. \E x \in S : \A y \in S : y # x => <<x, y>> \in R
    BY <1>3, <2>1, Zenon
  <2> QED BY <2>2, Zenon
<1>5. PICK l \in S : \A y \in S : y # l => <<l, y>> \in Q
  <2>1. \A r : Orders(r, S) => \E x \in S : \A y \in S : y # x => <<x, y>> \in r
    BY FirstOfAll
  <2>2. \E x \in S : \A y \in S : y # x => <<x, y>> \in Q
    BY <1>3, <2>1, Zenon
  <2> QED BY <2>2, Zenon
<1>6. (\A y \in S : g >= y) /\ (\A y \in S : l <= y)
  <2>1. \A y \in S : (y # g => g > y) /\ (y # l => l < y)
    BY <1>1, <1>4, <1>5
  <2>2. \A y \in S : y \in Int /\ g \in Int /\ l \in Int
    OBVIOUS
  <2> QED BY <2>1, <2>2
<1>7. Max(S) \in S /\ \A x \in S : Max(S) >= x
  BY <1>6 DEF Max
<1>8. Min(S) \in S /\ \A x \in S : Min(S) <= x
  BY <1>6 DEF Min
<1> QED BY <1>7, <1>8

LEMMA OfTwo ==
  ASSUME NEW a \in Int, NEW b \in Int
  PROVE  /\ Max({a, b}) = (IF a >= b THEN a ELSE b)
         /\ Min({a, b}) = (IF a <= b THEN a ELSE b)
<1>1. IsFiniteSet({a, b})
  <2>1. {a, b} = {a} \cup {b} /\ IsFiniteSet({a})
    BY FS_Singleton
  <2> QED BY <2>1, FS_AddElement
<1>2. /\ Max({a, b}) \in {a, b} /\ \A x \in {a, b} : Max({a, b}) >= x
      /\ Min({a, b}) \in {a, b} /\ \A x \in {a, b} : Min({a, b}) <= x
  BY <1>1, MaxThere
<1> QED BY <1>2

(* A sum as the module states it.                                           *)
LEMMA SumOfIs == ASSUME NEW f PROVE SumOf(f) = SumOver(f, DOMAIN f)
<1> DEFINE S == DOMAIN f
<1>1. SumOf(f) = (CHOOSE g : g = [s \in SUBSET S |->
                                    IF s = {} THEN 0 ELSE f[AnyOf(s)] + g[s \ {AnyOf(s)}]])[S]
  BY DEF SumOf, MapThenSumSet, MapThenFoldSet, AnyOf
<1> HIDE DEF S
<1>2. SumOf(f) = SumOver(f, S)
  BY <1>1 DEF SumOver, SumStep
<1> QED BY <1>2 DEF S

LEMMA SumOfNone == ASSUME NEW f PROVE SumOver(f, {}) = 0
  BY FS_EmptySet, SumUnfolds

(* Equal terms make equal sums.                                             *)
LEMMA SumEqual ==
  ASSUME NEW S, IsFiniteSet(S), NEW f, NEW e, \A x \in S : f[x] \in Int /\ f[x] = e[x]
  PROVE  SumOver(f, S) = SumOver(e, S)
<1>1. \A x \in S : f[x] \in Int /\ e[x] \in Int /\ f[x] <= e[x] /\ e[x] <= f[x]
  OBVIOUS
<1>2. SumOver(f, S) <= SumOver(e, S) /\ SumOver(e, S) <= SumOver(f, S)
  BY <1>1, SumFollows
<1>3. SumOver(f, S) \in Int /\ SumOver(e, S) \in Int
  BY <1>1, SumIsInt
<1> QED BY <1>2, <1>3

(* A sum of natural numbers is one.                                         *)
LEMMA SumIsNat ==
  ASSUME NEW f, IsFiniteSet(DOMAIN f), \A x \in DOMAIN f : f[x] \in Nat
  PROVE  SumOf(f) \in Nat
<1> DEFINE S == DOMAIN f
<1>1. SumOf(f) = SumOver(f, S)
  BY SumOfIs
<1>2. SumOver(f, {}) <= SumOver(f, S)
  <2>1. {} \in SUBSET S /\ IsFiniteSet(S) /\ \A x \in S : f[x] \in Nat
    OBVIOUS
  <2> HIDE DEF S
  <2> QED BY <2>1, SumOfPart
<1>3. SumOver(f, S) \in Int
  <2>1. IsFiniteSet(S) /\ \A x \in S : f[x] \in Int
    OBVIOUS
  <2> HIDE DEF S
  <2> QED BY <2>1, SumIsInt
<1> HIDE DEF S
<1> QED BY <1>1, <1>2, <1>3, SumOfNone

(* A sum is the sum of a part and the rest.                                 *)
LEMMA SumSplits ==
  ASSUME NEW S, IsFiniteSet(S), NEW f, \A x \in S : f[x] \in Int, NEW T \in SUBSET S
  PROVE  SumOver(f, S) = SumOver(f, T) + SumOver(f, S \ T)
<1> DEFINE B == {t \in SUBSET S : T \subseteq t /\ SumOver(f, t) # SumOver(f, T) + SumOver(f, t \ T)}
<1>1. SUFFICES ASSUME S \in B PROVE FALSE
  OBVIOUS
<1>2. PICK t \in B : \A v \in B : v \subseteq t => v = t
  <2>1. B \in SUBSET (SUBSET S) /\ B # {}
    BY <1>1
  <2> HIDE DEF B
  <2> QED BY <2>1, SmallestSet
<1>3. \A v \in SUBSET S : IsFiniteSet(v) /\ (\A x \in v : f[x] \in Int) /\ SumOver(f, v) \in Int
  <2>1. \A v \in SUBSET S : IsFiniteSet(v) /\ \A x \in v : f[x] \in Int
    BY FS_Subset
  <2> QED BY <2>1, SumIsInt
<1>4. T # t
  <2>1. T = t => SumOver(f, t \ T) = 0
    <3> SUFFICES ASSUME T = t PROVE SumOver(f, t \ T) = 0
      OBVIOUS
    <3>1. t \ T = {}
      OBVIOUS
    <3> QED BY <3>1, SumOfNone
  <2> QED BY <1>3, <2>1
<1>5. PICK y \in t : y \notin T
  BY <1>4
<1> DEFINE r == t \ {y}
           q == t \ T
<1>6. r \in SUBSET S /\ T \subseteq r /\ r # t /\ r \subseteq t /\ q \in SUBSET S /\ y \in q
      /\ r \ T = q \ {y} /\ r \ T \in SUBSET S /\ t \in SUBSET S
  BY <1>5
<1>7. SumOver(f, r) = SumOver(f, T) + SumOver(f, r \ T)
  <2> HIDE DEF r
  <2> QED BY <1>2, <1>6
<1>8. SumOver(f, t) = f[y] + SumOver(f, r)
  BY <1>3, <1>5, <1>6, SumTakesOut
<1>9. SumOver(f, q) = f[y] + SumOver(f, q \ {y})
  <2> HIDE DEF q
  <2> QED BY <1>3, <1>6, SumTakesOut
<1>10. f[y] \in Int /\ SumOver(f, T) \in Int /\ SumOver(f, r \ T) \in Int
  <2> HIDE DEF r, q
  <2> QED BY <1>3, <1>5, <1>6
<1>11. SumOver(f, t) # SumOver(f, T) + SumOver(f, q)
  OBVIOUS
<1> HIDE DEF r, q, B
<1>12. SumOver(f, q) = f[y] + SumOver(f, r \ T)
  BY <1>6, <1>9
<1> QED BY <1>7, <1>8, <1>10, <1>11, <1>12

(* A sum of terms that are all the same.                                    *)
LEMMA SumOfSame ==
  ASSUME NEW S, IsFiniteSet(S), NEW f, NEW c \in Int, \A x \in S : f[x] = c
  PROVE  SumOver(f, S) = c * Cardinality(S)
<1> DEFINE B == {t \in SUBSET S : SumOver(f, t) # c * Cardinality(t)}
<1>1. SUFFICES ASSUME S \in B PROVE FALSE
  OBVIOUS
<1>2. PICK t \in B : \A v \in B : v \subseteq t => v = t
  <2>1. B \in SUBSET (SUBSET S) /\ B # {}
    BY <1>1
  <2> HIDE DEF B
  <2> QED BY <2>1, SmallestSet
<1>3. IsFiniteSet(t)
  BY FS_Subset
<1>4. t # {}
  <2>1. t = {} => SumOver(f, t) = 0 /\ Cardinality(t) = 0
    BY SumOfNone, FS_EmptySet
  <2>2. c * 0 = 0
    OBVIOUS
  <2>3. SumOver(f, t) # c * Cardinality(t)
    BY <1>2
  <2> QED BY <2>1, <2>2, <2>3
<1> DEFINE p == AnyOf(t)
           r == t \ {p}
<1>5. p \in t /\ p \in S /\ r \in SUBSET S /\ r \subseteq t /\ r # t
  BY <1>4, AnyIsIn
<1>6. SumOver(f, t) = f[p] + SumOver(f, r)
  BY <1>3, <1>4, SumUnfolds
<1>7. Cardinality(t) = Cardinality(r) + 1 /\ Cardinality(r) \in Nat
  <2>1. IsFiniteSet(r) /\ Cardinality(r) = Cardinality(t) - 1
    BY <1>3, <1>5, FS_RemoveElement
  <2> QED BY <1>3, <2>1, FS_CardinalityType
<1>8. SumOver(f, r) = c * Cardinality(r)
  <2> HIDE DEF r
  <2> QED BY <1>2, <1>5
<1>9. c * (Cardinality(r) + 1) = c + c * Cardinality(r)
  BY <1>7
<1>10. f[p] = c
  BY <1>5
<1>11. SumOver(f, t) # c * Cardinality(t)
  BY <1>2
<1> HIDE DEF p, r, B
<1> QED BY <1>6, <1>7, <1>8, <1>9, <1>10, <1>11

(* The values of a function on a finite set are finitely many.              *)
LEMMA ImageFinite ==
  ASSUME NEW f, NEW S, IsFiniteSet(S)
  PROVE  IsFiniteSet({f[x] : x \in S})
<1> DEFINE T == {f[x] : x \in S}
           g == [x \in S |-> f[x]]
<1>1. g \in Surjection(S, T)
  BY DEF Surjection
<1> HIDE DEF T, g
<1>2. IsFiniteSet(T)
  BY <1>1, FS_Surjection
<1> QED BY <1>2 DEF T

(* What an even share is.                                                   *)
LEMMA EvenShare ==
  ASSUME NEW a \in Int, NEW k \in Nat, k # 0
  PROVE  /\ a \div k \in Int
         /\ (a \div k) * k <= a
         /\ a < (a \div k) * k + k
  OBVIOUS

(* A number whose multiple fits is no larger than the share.                *)
LEMMA ShareIsLargest ==
  ASSUME NEW a \in Int, NEW k \in Nat, k # 0, NEW x \in Int
  PROVE  x * k <= a <=> x <= a \div k
<1> DEFINE q == a \div k
<1>1. q \in Int /\ q * k <= a /\ a < q * k + k
  BY EvenShare
<1> HIDE DEF q
<1>2. x <= q => x * k <= a
  BY <1>1
<1>3. x > q => x * k > a
  BY <1>1
<1> QED BY <1>1, <1>2, <1>3 DEF q

(* A part that lacks nothing ahead of its elements has a last one.          *)
LEMMA LastOf ==
  ASSUME NEW R, NEW S, IsFiniteSet(S), Orders(R, S), NEW T \in SUBSET S, T # {},
         \A y \in T : Ahead(R, S, y) \subseteq T
  PROVE  \E b \in T : Ahead(R, S, b) = T \ {b}
<1> DEFINE Q == {p \in S \X S : <<p[2], p[1]>> \in R}
<1>1. PICK b \in T : \A y \in T : y # b => <<b, y>> \in Q
  <2>1. Orders(Q, S)
    BY OrderReversed
  <2> HIDE DEF Q
  <2> QED BY <2>1, FirstThere
<1>2. \A y \in T : y # b => <<y, b>> \in R
  BY <1>1
<1>3. T \ {b} \subseteq Ahead(R, S, b)
  BY <1>2 DEF Ahead
<1>4. b \notin Ahead(R, S, b)
  BY DEF Ahead, Orders
<1> QED BY <1>3, <1>4

-----------------------------------------------------------------------------
(* Water filling.                                                           *)

LengthsOk(L) ==
  /\ IsFiniteSet(DOMAIN L) /\ DOMAIN L \subseteq Int \X Int
  /\ \A i \in DOMAIN L : L[i] \in Nat
  /\ L = [i \in DOMAIN L |-> L[i]]

BeforeIn(L, D) == {p \in D \X D : p[1] \in Before(L, p[2])}
BeforeOf(L) == BeforeIn(L, DOMAIN L)

Share(L, A, i) ==
  (A - SumOver(L, Before(L, i))) \div (Cardinality(DOMAIN L) - Cardinality(Before(L, i)))

Longer(L, A) == {i \in DOMAIN L : L[i] > Share(L, A, i)}

LEMMA InBefore ==
  ASSUME NEW L, NEW i \in DOMAIN L, NEW j \in DOMAIN L
  PROVE  <<j, i>> \in BeforeOf(L) <=> j \in Before(L, i)
<1>1. \A D : i \in D /\ j \in D => (<<j, i>> \in BeforeIn(L, D) <=> j \in Before(L, i))
  BY DEF BeforeIn
<1> QED BY <1>1 DEF BeforeOf

(* Before puts the messages in one order.                                   *)
LEMMA BeforeOrders ==
  ASSUME NEW L, LengthsOk(L)
  PROVE  /\ Orders(BeforeOf(L), DOMAIN L)
         /\ \A i \in DOMAIN L : Ahead(BeforeOf(L), DOMAIN L, i) = Before(L, i)
<1> DEFINE D == DOMAIN L
           less(j, i) == \/ L[j] < L[i]
                         \/ L[j] = L[i] /\ (j[1] < i[1] \/ (j[1] = i[1] /\ j[2] < i[2]))
<1>1. \A i \in D : /\ i[1] \in Int /\ i[2] \in Int /\ L[i] \in Nat
                   /\ i = <<i[1], i[2]>>
  BY DEF LengthsOk
<1>2. ASSUME NEW i \in D, NEW j \in D PROVE <<j, i>> \in BeforeOf(L) <=> less(j, i)
  <2>1. <<j, i>> \in BeforeOf(L) <=> j \in Before(L, i)
    BY InBefore
  <2> QED BY <2>1 DEF Before
<1>3. \A i \in D : ~less(i, i)
  BY <1>1
<1>4. \A i, j, k \in D : less(i, j) /\ less(j, k) => less(i, k)
  BY <1>1
<1>5. \A i, j \in D : i # j => less(i, j) \/ less(j, i)
  BY <1>1
<1>6. \A i \in D : Ahead(BeforeOf(L), D, i) = Before(L, i)
  <2>1. ASSUME NEW i \in D, NEW j \in D PROVE <<j, i>> \in BeforeOf(L) <=> j \in Before(L, i)
    BY InBefore
  <2>2. \A i \in D : Before(L, i) \subseteq D
    BY DEF Before
  <2> HIDE DEF D
  <2> QED BY <2>1, <2>2 DEF Ahead
<1> HIDE DEF less, D
<1>7. Orders(BeforeOf(L), D)
  BY <1>2, <1>3, <1>4, <1>5 DEF Orders
<1> QED BY <1>6, <1>7 DEF D

(* What is known of the messages before one.                                *)
LEMMA BeforeIs ==
  ASSUME NEW L, LengthsOk(L), NEW i \in DOMAIN L
  PROVE  /\ Before(L, i) \in SUBSET DOMAIN L /\ i \notin Before(L, i)
         /\ \A j \in Before(L, i) : Before(L, j) \subseteq Before(L, i) /\ L[j] <= L[i]
         /\ \A j \in DOMAIN L \ Before(L, i) : L[j] >= L[i]
<1>1. \A j \in DOMAIN L : L[j] \in Nat /\ j[1] \in Int /\ j[2] \in Int
  BY DEF LengthsOk
<1>2. Before(L, i) \in SUBSET DOMAIN L
  BY DEF Before
<1>3. \A j \in Before(L, i) : L[j] <= L[i]
  BY <1>1 DEF Before
<1>4. \A j \in DOMAIN L \ Before(L, i) : L[j] >= L[i]
  BY <1>1 DEF Before
<1>5. i \notin Before(L, i)
  BY <1>1 DEF Before
<1>6. ASSUME NEW j \in Before(L, i) PROVE Before(L, j) \subseteq Before(L, i)
  BY <1>1 DEF Before
<1> QED BY <1>2, <1>3, <1>4, <1>5, <1>6

(* The first message that is longer than its share.                         *)
LEMMA FirstLonger ==
  ASSUME NEW L, LengthsOk(L), NEW A, Longer(L, A) # {}
  PROVE  LET i == CHOOSE x \in Longer(L, A) : Before(L, x) \cap Longer(L, A) = {}
         IN  i \in Longer(L, A) /\ Before(L, i) \cap Longer(L, A) = {}
<1> DEFINE longer == Longer(L, A)
<1>1. longer \in SUBSET DOMAIN L
  BY DEF Longer
<1>2. IsFiniteSet(DOMAIN L) /\ Orders(BeforeOf(L), DOMAIN L)
  BY BeforeOrders DEF LengthsOk
<1> HIDE DEF longer
<1>3. PICK x \in longer : \A y \in longer : y # x => <<x, y>> \in BeforeOf(L)
  <2>1. longer # {}
    BY DEF longer
  <2> QED BY <1>1, <1>2, <2>1, FirstThere
<1>4. ASSUME NEW y \in longer, y \in Before(L, x) PROVE FALSE
  <2>1. x \in DOMAIN L /\ y \in DOMAIN L
    BY <1>1
  <2>2. y # x
    BY <1>4, <2>1, BeforeIs
  <2>3. <<x, y>> \in BeforeOf(L)
    BY <1>3, <2>2
  <2>4. <<y, x>> \in BeforeOf(L)
    BY <1>4, <2>1, InBefore
  <2> QED BY <1>2, <2>1, <2>3, <2>4 DEF Orders
<1>5. Before(L, x) \cap longer = {}
  BY <1>4
<1> QED BY <1>5 DEF longer

(* AllocateCap in these terms.                                              *)
LEMMA CapIs ==
  ASSUME NEW L, LengthsOk(L), DOMAIN L # {}, NEW A \in Nat
  PROVE  AllocateCap(L, A) =
           IF Longer(L, A) = {} THEN Max({L[i] : i \in DOMAIN L})
           ELSE Max({1, Share(L, A, CHOOSE i \in Longer(L, A) : Before(L, i) \cap Longer(L, A) = {})})
<1> DEFINE share(i) == (Max({A, 0}) - MapThenSumSet(LAMBDA j : L[j], Before(L, i)))
                         \div (Cardinality(DOMAIN L) - Cardinality(Before(L, i)))
           longer == {i \in DOMAIN L : L[i] > share(i)}
<1>1. Max({A, 0}) = A
  BY OfTwo
<1>2. ASSUME NEW i \in DOMAIN L PROVE share(i) = Share(L, A, i)
  <2> DEFINE T == Before(L, i)
  <2>1. MapThenSumSet(LAMBDA j : L[j], T)
          = (CHOOSE g : g = [s \in SUBSET T |->
                               IF s = {} THEN 0 ELSE L[AnyOf(s)] + g[s \ {AnyOf(s)}]])[T]
    BY DEF MapThenSumSet, MapThenFoldSet, AnyOf
  <2> HIDE DEF T
  <2>2. MapThenSumSet(LAMBDA j : L[j], T) = SumOver(L, T)
    BY <2>1 DEF SumOver, SumStep
  <2> QED BY <1>1, <2>2 DEF Share, T
<1>3. longer = Longer(L, A)
  <2> HIDE DEF share
  <2> QED BY <1>2 DEF Longer
<1>4. AllocateCap(L, A) =
           IF longer = {} THEN Max({L[i] : i \in DOMAIN L})
           ELSE Max({1, share(CHOOSE i \in longer : Before(L, i) \cap longer = {})})
  <2>1. L # <<>>
    <3>1. DOMAIN <<>> = {}
      OBVIOUS
    <3> QED BY <3>1
  <2>2. AllocateCap(L, A) =
          CASE L = <<>> -> 1
            [] L # <<>> /\ longer = {} -> Max({L[i] : i \in DOMAIN L})
            [] OTHER -> Max({1, share(CHOOSE i \in longer : Before(L, i) \cap longer = {})})
    BY DEF AllocateCap
  <2> HIDE DEF longer, share
  <2> QED BY <2>1, <2>2, Zenon
<1>5. longer # {} => (CHOOSE i \in longer : Before(L, i) \cap longer = {}) \in DOMAIN L
  <2> HIDE DEF longer
  <2>1. longer # {} => (CHOOSE i \in longer : Before(L, i) \cap longer = {}) \in Longer(L, A)
    BY <1>3, FirstLonger
  <2> QED BY <2>1 DEF Longer
<1> HIDE DEF share, longer
<1>6. longer # {} => share(CHOOSE i \in longer : Before(L, i) \cap longer = {})
                       = Share(L, A, CHOOSE i \in longer : Before(L, i) \cap longer = {})
  BY <1>2, <1>5
<1> QED BY <1>3, <1>4, <1>6

(* Messages that take no more than their share, and all before them, leave  *)
(* as much for each of the others.                                          *)
LEMMA PartFits ==
  ASSUME NEW L, LengthsOk(L), NEW A \in Nat, NEW T \in SUBSET DOMAIN L,
         \A y \in T : Before(L, y) \subseteq T /\ y \notin Longer(L, A)
  PROVE  /\ SumOver(L, T) \in Int /\ SumOver(L, T) <= A
         /\ \A j \in T : L[j] * (Cardinality(DOMAIN L) - Cardinality(T)) <= A - SumOver(L, T)
<1> DEFINE D == DOMAIN L
           k == Cardinality(D) - Cardinality(T)
<1>1. IsFiniteSet(D) /\ IsFiniteSet(T) /\ Cardinality(D) \in Nat /\ Cardinality(T) \in Nat
      /\ Cardinality(T) <= Cardinality(D)
  BY FS_Subset, FS_CardinalityType DEF LengthsOk
<1>2. \A j \in D : L[j] \in Nat
  BY DEF LengthsOk
<1>3. SumOver(L, T) \in Int
  BY <1>1, <1>2, SumIsInt
<1>4. CASE T = {}
  <2>1. SumOver(L, T) = 0
    BY <1>4, SumOfNone
  <2> QED BY <1>4, <2>1
<1>5. CASE T # {}
  <2>1. PICK b \in T : Before(L, b) = T \ {b}
    <3>1. /\ Orders(BeforeOf(L), D)
          /\ \A i \in D : Ahead(BeforeOf(L), D, i) = Before(L, i)
      BY BeforeOrders
    <3>2. T \in SUBSET D /\ \A y \in T : Ahead(BeforeOf(L), D, y) \subseteq T
      BY <3>1
    <3> HIDE DEF D
    <3>3. \E b \in T : Ahead(BeforeOf(L), D, b) = T \ {b}
      BY <1>1, <1>5, <3>1, <3>2, LastOf
    <3> QED BY <3>1, <3>2, <3>3
  <2>2. SumOver(L, T) = L[b] + SumOver(L, T \ {b})
    BY <1>1, <1>2, SumTakesOut
  <2>3. Cardinality(T \ {b}) = Cardinality(T) - 1
    BY <1>1, FS_RemoveElement
  <2>4. SumOver(L, T \ {b}) \in Int
    <3>1. IsFiniteSet(T \ {b})
      BY <1>1, FS_Subset
    <3> QED BY <1>2, <3>1, SumIsInt
  <2>5. k \in Nat /\ L[b] \in Nat
    BY <1>1, <1>2
  <2> DEFINE a == A - SumOver(L, T \ {b})
             q == a \div (k + 1)
  <2>6. Share(L, A, b) = q
    <3>1. Cardinality(D) - Cardinality(T \ {b}) = k + 1
      BY <1>1, <2>3
    <3> QED BY <2>1, <3>1 DEF Share
  <2>7. ~(L[b] > q)
    BY <2>6 DEF Longer
  <2>8. a \in Int /\ a = A - SumOver(L, T) + L[b]
    BY <1>3, <2>2, <2>4, <2>5
  <2> HIDE DEF a, k
  <2>9. q \in Int /\ q * (k + 1) <= a
    <3> DEFINE m == k + 1
    <3>1. m \in Nat /\ m # 0
      BY <2>5
    <3> HIDE DEF m
    <3>2. a \div m \in Int /\ (a \div m) * m <= a
      BY <2>8, <3>1, EvenShare
    <3> QED BY <3>2 DEF m
  <2> HIDE DEF q
  <2>10. L[b] * (k + 1) <= a
    <3>1. L[b] <= q /\ k + 1 >= 0
      BY <2>5, <2>7, <2>9
    <3>2. L[b] * (k + 1) <= q * (k + 1)
      BY <2>5, <2>9, <3>1
    <3>3. L[b] * (k + 1) \in Int /\ q * (k + 1) \in Int
      BY <2>5, <2>9
    <3> QED BY <2>8, <2>9, <3>2, <3>3
  <2>11. L[b] * (k + 1) = L[b] * k + L[b] /\ L[b] * k \in Nat
    BY <2>5
  <2>12. L[b] * k <= A - SumOver(L, T)
    BY <1>3, <2>5, <2>8, <2>10, <2>11
  <2>13. SumOver(L, T) <= A
    BY <1>3, <2>11, <2>12
  <2>14. ASSUME NEW j \in T PROVE L[j] * k <= A - SumOver(L, T)
    <3>1. L[j] <= L[b] /\ L[j] \in Nat
      BY <1>2, <2>1, BeforeIs
    <3>2. L[j] * k <= L[b] * k /\ L[j] * k \in Int
      BY <2>5, <3>1
    <3> QED BY <1>3, <2>11, <2>12, <3>2
  <2> QED BY <1>3, <2>13, <2>14 DEF k
<1> QED BY <1>4, <1>5

(* What the messages take when none gets more than c.                       *)
CutAt(L, c) == [i \in DOMAIN L |-> Min({L[i], c})]
Spent(L, c) == SumOver(CutAt(L, c), DOMAIN L)

LEMMA CutTerms ==
  ASSUME NEW L, LengthsOk(L), NEW c \in Nat
  PROVE  /\ \A i \in DOMAIN L : /\ CutAt(L, c)[i] \in Nat
                                /\ CutAt(L, c)[i] = IF L[i] <= c THEN L[i] ELSE c
         /\ Spent(L, c) \in Int
         /\ SumOf(CutAt(L, c)) = Spent(L, c)
<1>1. \A i \in DOMAIN L : Min({L[i], c}) = IF L[i] <= c THEN L[i] ELSE c
  <2> TAKE i \in DOMAIN L
  <2> DEFINE v == L[i]
  <2>1. v \in Int /\ c \in Int
    BY DEF LengthsOk
  <2> HIDE DEF v
  <2>2. Min({v, c}) = IF v <= c THEN v ELSE c
    BY <2>1, OfTwo
  <2> QED BY <2>2 DEF v
<1>2. \A i \in DOMAIN L : /\ CutAt(L, c)[i] \in Nat
                          /\ CutAt(L, c)[i] = IF L[i] <= c THEN L[i] ELSE c
  BY <1>1 DEF CutAt, LengthsOk
<1>3. Spent(L, c) \in Int
  BY <1>2, SumIsInt DEF Spent, LengthsOk
<1>4. SumOf(CutAt(L, c)) = Spent(L, c)
  <2>1. DOMAIN CutAt(L, c) = DOMAIN L
    BY DEF CutAt
  <2> QED BY <2>1, SumOfIs DEF Spent
<1> QED BY <1>2, <1>3, <1>4

(* A larger cap leaves no less.                                             *)
LEMMA SpentGrows ==
  ASSUME NEW L, LengthsOk(L), NEW c \in Nat, NEW d \in Nat, c <= d
  PROVE  Spent(L, c) <= Spent(L, d)
<1> DEFINE f == CutAt(L, c)
           e == CutAt(L, d)
           D == DOMAIN L
<1>1. \A i \in D : f[i] \in Int /\ e[i] \in Int /\ f[i] <= e[i]
  <2> TAKE i \in D
  <2>1. /\ CutAt(L, c)[i] = IF L[i] <= c THEN L[i] ELSE c
        /\ CutAt(L, d)[i] = IF L[i] <= d THEN L[i] ELSE d
    BY CutTerms
  <2>2. L[i] \in Nat
    BY DEF LengthsOk
  <2> QED BY <2>1, <2>2
<1>2. IsFiniteSet(D)
  BY DEF LengthsOk
<1> HIDE DEF f, e, D
<1>3. SumOver(f, D) <= SumOver(e, D)
  BY <1>1, <1>2, SumFollows
<1> QED BY <1>3 DEF Spent, f, e, D

(* The messages of T in full and c of each other one.                       *)
LEMMA SpentIs ==
  ASSUME NEW L, LengthsOk(L), NEW c \in Nat, NEW T \in SUBSET DOMAIN L,
         \A i \in T : L[i] <= c, \A i \in DOMAIN L \ T : L[i] >= c
  PROVE  Spent(L, c) = SumOver(L, T) + c * (Cardinality(DOMAIN L) - Cardinality(T))
<1> DEFINE f == CutAt(L, c)
           D == DOMAIN L
<1>1. \A i \in D : f[i] \in Int /\ L[i] \in Nat /\ f[i] = IF L[i] <= c THEN L[i] ELSE c
  BY CutTerms DEF LengthsOk
<1>2. IsFiniteSet(D) /\ IsFiniteSet(T) /\ IsFiniteSet(D \ T)
  BY FS_Subset DEF LengthsOk
<1>3. (\A i \in T : f[i] = L[i]) /\ (\A i \in D \ T : f[i] = c)
  <2>1. ASSUME NEW i \in T PROVE f[i] = L[i]
    BY <1>1
  <2>2. ASSUME NEW i \in D \ T PROVE f[i] = c
    <3>1. L[i] >= c /\ L[i] \in Nat /\ f[i] = IF L[i] <= c THEN L[i] ELSE c
      BY <1>1
    <3> QED BY <3>1
  <2> QED BY <2>1, <2>2
<1> HIDE DEF f
<1>4. SumOver(f, D) = SumOver(f, T) + SumOver(f, D \ T)
  <2> HIDE DEF D
  <2>1. T \in SUBSET D
    BY DEF D
  <2> QED BY <1>1, <1>2, <2>1, SumSplits
<1>5. SumOver(f, T) = SumOver(L, T)
  <2>1. \A x \in T : f[x] \in Int /\ f[x] = L[x]
    BY <1>1, <1>3
  <2> QED BY <1>2, <2>1, SumEqual
<1>6. SumOver(f, D \ T) = c * Cardinality(D \ T)
  BY <1>2, <1>3, SumOfSame
<1>7. Cardinality(D \ T) = Cardinality(D) - Cardinality(T)
  <2>1. D \cap T = T
    OBVIOUS
  <2> QED BY <1>2, <2>1, FS_Difference
<1> QED BY <1>4, <1>5, <1>6, <1>7 DEF Spent, f

(* The cap is the largest at which all messages together take no more than  *)
(* what is available (_handover_allocate_cap).                              *)
Caps(L, A) == {c \in 1..Max({L[i] : i \in DOMAIN L}) : Spent(L, c) <= A}

LEMMA WaterFills ==
  ASSUME NEW L, LengthsOk(L), DOMAIN L # {}, NEW A \in Nat
  PROVE  LET top == Max({L[i] : i \in DOMAIN L})
         IN  /\ top \in Nat
             /\ AllocateCap(L, A) \in Nat
             /\ AllocateCap(L, A) = Max({Min({1, top})} \cup Caps(L, A))
<1> DEFINE D == DOMAIN L
           V == {L[i] : i \in D}
           top == Max(V)
           X == {Min({1, top})} \cup Caps(L, A)
<1>1. IsFiniteSet(D) /\ (\A i \in D : L[i] \in Nat) /\ Cardinality(D) \in Nat
  BY FS_CardinalityType DEF LengthsOk
<1>2. top \in V /\ (\A v \in V : top >= v)
  <2>1. IsFiniteSet(V)
    BY <1>1, ImageFinite
  <2>2. V \in SUBSET Int /\ V # {}
    BY <1>1
  <2> HIDE DEF V
  <2> QED BY <2>1, <2>2, MaxThere
<1>3. top \in Nat /\ (\A i \in D : L[i] <= top) /\ (\E i \in D : top = L[i])
  BY <1>1, <1>2
<1>4. Min({1, top}) = IF top = 0 THEN 0 ELSE 1
  <2> HIDE DEF top
  <2>1. Min({1, top}) = IF 1 <= top THEN 1 ELSE top
    BY <1>3, OfTwo
  <2> QED BY <1>3, <2>1
<1>5. Caps(L, A) = {c \in 1..top : Spent(L, c) <= A}
  BY DEF Caps
<1> HIDE DEF top
<1>6. X \in SUBSET Nat /\ IsFiniteSet(X) /\ X # {}
  <2>1. IsFiniteSet(1..top) /\ Caps(L, A) \in SUBSET (1..top)
    BY <1>3, <1>5, FS_Interval
  <2>2. IsFiniteSet(Caps(L, A))
    BY <2>1, FS_Subset
  <2>3. IsFiniteSet(X)
    BY <2>2, FS_Union, FS_Singleton
  <2>4. X \in SUBSET Nat /\ X # {}
    BY <1>3, <1>4, <2>1
  <2> QED BY <2>3, <2>4
<1>7. ASSUME NEW g \in X, \A x \in X : g >= x
      PROVE  g = Max(X)
  <2>1. X \in SUBSET Int
    BY <1>6
  <2> HIDE DEF X
  <2>2. Max(X) \in X /\ \A x \in X : Max(X) >= x
    BY <1>6, <2>1, MaxThere
  <2>3. g >= Max(X) /\ Max(X) >= g /\ g \in Nat /\ Max(X) \in Nat
    BY <1>6, <1>7, <2>2
  <2> QED BY <2>3
<1>8. CASE Longer(L, A) = {}
  <2>1. AllocateCap(L, A) = top
    BY <1>8, CapIs DEF top
  <2>2. Spent(L, top) <= A
    <3>1. D \in SUBSET D /\ \A y \in D : Before(L, y) \subseteq D /\ y \notin Longer(L, A)
      BY <1>8 DEF Before
    <3>2. SumOver(L, D) \in Int /\ SumOver(L, D) <= A
      BY <3>1, PartFits
    <3>3. Spent(L, top) = SumOver(L, D) + top * (Cardinality(D) - Cardinality(D))
      BY <1>3, <3>1, SpentIs
    <3>4. top * (Cardinality(D) - Cardinality(D)) = 0
      BY <1>1, <1>3
    <3> QED BY <3>2, <3>3, <3>4
  <2>3. top \in X
    BY <1>3, <1>4, <1>5, <2>2
  <2>4. \A x \in X : top >= x
    BY <1>3, <1>4, <1>5
  <2> HIDE DEF X
  <2>5. top = Max(X)
    BY <1>7, <2>3, <2>4
  <2> QED BY <1>3, <2>1, <2>5 DEF X, top
<1>9. CASE Longer(L, A) # {}
  <2> DEFINE i == CHOOSE x \in Longer(L, A) : Before(L, x) \cap Longer(L, A) = {}
             T == Before(L, i)
             k == Cardinality(D) - Cardinality(T)
             a == A - SumOver(L, T)
             q == Share(L, A, i)
  <2>1. i \in Longer(L, A) /\ Before(L, i) \cap Longer(L, A) = {}
    BY <1>9, FirstLonger
  <2> HIDE DEF i
  <2>2. i \in D /\ L[i] > q
    BY <2>1 DEF Longer
  <2>3. /\ T \in SUBSET D /\ i \notin T
        /\ \A y \in T : Before(L, y) \subseteq T /\ y \notin Longer(L, A)
        /\ \A j \in D \ T : L[j] >= L[i]
    BY <2>1, <2>2, BeforeIs
  <2>4. k \in Nat /\ k # 0
    <3>1. IsFiniteSet(T) /\ Cardinality(T) \in Nat /\ Cardinality(T) <= Cardinality(D)
          /\ Cardinality(T) # Cardinality(D)
      BY <1>1, <2>2, <2>3, FS_Subset, FS_CardinalityType
    <3> QED BY <1>1, <3>1
  <2>5. /\ a \in Int /\ a >= 0
        /\ \A j \in T : L[j] * k <= a
    <3>1. /\ SumOver(L, T) \in Int /\ SumOver(L, T) <= A
          /\ \A j \in T : L[j] * k <= a
      BY <2>3, PartFits
    <3> QED BY <3>1
  <2>6. q = a \div k
    BY DEF Share
  <2>7. SumOver(L, T) = A - a
    <3>1. SumOver(L, T) \in Int
      BY <2>3, PartFits
    <3> QED BY <3>1
  <2> HIDE DEF k, a, q
  <2>8. q \in Int /\ q * k <= a /\ a < q * k + k
    BY <2>4, <2>5, <2>6, EvenShare
  <2>9. \A x \in Int : x * k <= a <=> x <= q
    BY <2>4, <2>5, <2>6, ShareIsLargest
  <2>10. q \in Nat
    <3>1. 0 * k <= a
      BY <2>4, <2>5
    <3>2. 0 <= q
      BY <2>9, <3>1
    <3> QED BY <2>8, <3>2
  <2>11. \A j \in T : L[j] <= q
    <3>1. \A j \in T : L[j] \in Int
      BY <1>1, <2>3
    <3> QED BY <2>5, <2>9, <3>1
  <2>12. \A j \in D \ T : L[j] >= q + 1
    <3> TAKE j \in D \ T
    <3>1. L[j] >= L[i] /\ L[j] \in Nat /\ L[i] \in Nat
      BY <1>1, <2>2, <2>3
    <3> QED BY <2>2, <2>10, <3>1
  <2>13. Spent(L, q) <= A
    <3>1. \A j \in D \ T : L[j] >= q
      <4> TAKE j \in D \ T
      <4>1. L[j] >= q + 1 /\ L[j] \in Nat
        BY <1>1, <2>12
      <4> QED BY <2>10, <4>1
    <3>2. Spent(L, q) = SumOver(L, T) + q * k
      BY <2>3, <2>10, <2>11, <3>1, SpentIs DEF k
    <3>3. q * k \in Int
      BY <2>4, <2>10
    <3> QED BY <2>5, <2>7, <2>8, <3>2, <3>3
  <2>14. Spent(L, q + 1) > A
    <3> DEFINE n == q + 1
    <3>1. n \in Nat /\ (\A j \in T : L[j] <= n) /\ (\A j \in D \ T : L[j] >= n)
      <4>1. \A j \in T : L[j] <= q + 1
        <5> TAKE j \in T
        <5>1. L[j] <= q /\ L[j] \in Nat
          BY <1>1, <2>3, <2>11
        <5> QED BY <2>10, <5>1
      <4> QED BY <2>10, <2>12, <4>1
    <3> HIDE DEF n
    <3>2. Spent(L, n) = SumOver(L, T) + n * k
      BY <2>3, <3>1, SpentIs DEF k
    <3>3. n * k = q * k + k /\ q * k \in Int
      BY <2>4, <2>10 DEF n
    <3> QED BY <2>4, <2>5, <2>7, <2>8, <3>2, <3>3 DEF n
  <2>15. \A d \in Nat : Spent(L, d) <= A => d <= q
    <3> SUFFICES ASSUME NEW d \in Nat, d > q PROVE Spent(L, d) > A
      BY <2>10, CutTerms
    <3>1. q + 1 \in Nat /\ q + 1 <= d
      BY <2>10
    <3>2. Spent(L, q + 1) <= Spent(L, d)
      BY <3>1, SpentGrows
    <3>3. Spent(L, d) \in Int /\ Spent(L, q + 1) \in Int
      BY <3>1, CutTerms
    <3> QED BY <2>14, <3>2, <3>3
  <2>16. top >= q + 1 /\ top # 0
    <3>1. L[i] <= top /\ L[i] \in Nat
      BY <1>1, <1>3, <2>2
    <3> QED BY <1>3, <2>2, <2>10, <3>1
  <2>17. AllocateCap(L, A) = Max({1, q})
    BY <1>9, CapIs DEF q, i
  <2>18. Max({1, q}) = IF 1 >= q THEN 1 ELSE q
    BY <2>10, OfTwo
  <2> DEFINE g == IF 1 >= q THEN 1 ELSE q
  <2>19. g \in X
    <3>1. CASE 1 >= q
      BY <1>4, <2>16, <3>1
    <3>2. CASE ~(1 >= q)
      <4>1. q \in 1..top
        BY <1>3, <2>10, <2>16, <3>2
      <4> QED BY <1>5, <2>13, <3>2, <4>1
    <3> QED BY <3>1, <3>2
  <2>20. \A x \in X : g >= x
    <3> TAKE x \in X
    <3>1. CASE x = Min({1, top})
      BY <1>4, <2>10, <2>16, <3>1
    <3>2. CASE x \in Caps(L, A)
      <4>1. x \in Nat /\ Spent(L, x) <= A
        BY <1>3, <1>5, <3>2
      <4> QED BY <2>10, <2>15, <4>1
    <3> QED BY <3>1, <3>2
  <2> HIDE DEF X
  <2>21. g = Max(X)
    <3> HIDE DEF g
    <3> QED BY <1>7, <2>19, <2>20
  <2>22. AllocateCap(L, A) = Max(X) /\ AllocateCap(L, A) \in Nat
    BY <2>10, <2>17, <2>18, <2>21
  <2> QED BY <1>3, <2>22 DEF X, top
<1> QED BY <1>8, <1>9

-----------------------------------------------------------------------------
(* The sessions.                                                            *)

Episodes == [started : Nat, ended : Nat \cup {Running}, active : Nat, work : Works]

HandoverTypes ==
  /\ wall \in Nat
  /\ DOMAIN episodes \subseteq PriorSessions /\ IsFiniteSet(DOMAIN episodes)
  /\ episodes \in [DOMAIN episodes -> Episodes]

LEMMA EpisodeTypes ==
  ASSUME HandoverTypes, NEW s \in DOMAIN episodes
  PROVE  /\ s \in Int
         /\ episodes[s].started \in Nat /\ episodes[s].active \in Nat
         /\ episodes[s].ended \in Int
         /\ Turn(s) \in Works /\ Turn(s) = episodes[s].work
<1>1. episodes[s] \in Episodes
  BY DEF HandoverTypes
<1>2. s \in Int
  BY HandoverAssumption DEF HandoverTypes
<1> QED BY <1>1, <1>2 DEF Episodes, Turn, Running

LEMMA EndTypes ==
  ASSUME HandoverTypes, NEW s \in DOMAIN episodes
  PROVE  EffectiveEnd(s) \in Int /\ EffectiveEnd(s) >= episodes[s].started
<1> DEFINE a == episodes[s].started
           b == episodes[s].ended
           c == episodes[s].active
<1>1. a \in Int /\ b \in Int /\ c \in Int
  BY EpisodeTypes
<1>2. EffectiveEnd(s) = Max({a, b, c})
  BY DEF EffectiveEnd
<1> HIDE DEF a, b, c
<1>3. IsFiniteSet({a, b, c})
  <2>1. {a, b, c} = ({a} \cup {b}) \cup {c} /\ IsFiniteSet({a})
    BY FS_Singleton
  <2>2. IsFiniteSet({a} \cup {b})
    BY <2>1, FS_AddElement
  <2>3. IsFiniteSet(({a} \cup {b}) \cup {c})
    BY <2>2, FS_AddElement
  <2> QED BY <2>1, <2>3
<1>4. Max({a, b, c}) \in {a, b, c} /\ \A x \in {a, b, c} : Max({a, b, c}) >= x
  <2>1. {a, b, c} \in SUBSET Int /\ {a, b, c} # {}
    BY <1>1
  <2> DEFINE S == {a, b, c}
  <2> HIDE DEF S
  <2>2. S \in SUBSET Int /\ S # {} /\ IsFiniteSet(S)
    BY <1>3, <2>1 DEF S
  <2>3. Max(S) \in S /\ \A x \in S : Max(S) >= x
    BY <2>2, MaxThere
  <2> QED BY <2>3 DEF S
<1> QED BY <1>1, <1>2, <1>4 DEF a

(* Sessions in the order of what they did last.                             *)
LaterIn(S) == {p \in S \X S : Later(p[1], p[2])}

LEMMA LaterOrders ==
  ASSUME HandoverTypes, NEW S \in SUBSET DOMAIN episodes
  PROVE  /\ Orders(LaterIn(S), S)
         /\ \A s, o \in S : <<s, o>> \in LaterIn(S) <=> Later(s, o)
         /\ \A s \in S : Ahead(LaterIn(S), S, s) = {o \in S : Later(o, s)}
<1>1. \A s, o \in S : <<s, o>> \in LaterIn(S) <=> Later(s, o)
  BY DEF LaterIn
<1>2. \A s \in S : s \in Int /\ EffectiveEnd(s) \in Int
  BY EpisodeTypes, EndTypes
<1>3. /\ \A s \in S : ~Later(s, s)
      /\ \A s, o, t \in S : Later(s, o) /\ Later(o, t) => Later(s, t)
      /\ \A s, o \in S : s # o => Later(s, o) \/ Later(o, s)
  BY <1>2 DEF Later
<1>4. Orders(LaterIn(S), S)
  BY <1>1, <1>3 DEF Orders
<1>5. \A s \in S : Ahead(LaterIn(S), S, s) = {o \in S : Later(o, s)}
  BY <1>1 DEF Ahead
<1> QED BY <1>1, <1>4, <1>5

LEMMA LatestThere ==
  ASSUME HandoverTypes, NEW S \in SUBSET DOMAIN episodes, S # {}
  PROVE  Latest(S) \in S /\ \A o \in S \ {Latest(S)} : Later(Latest(S), o)
<1>1. IsFiniteSet(S)
  BY FS_Subset DEF HandoverTypes
<1>2. Orders(LaterIn(S), S) /\ \A s, o \in S : <<s, o>> \in LaterIn(S) <=> Later(s, o)
  BY LaterOrders
<1>3. \E x \in S : \A y \in S : y # x => <<x, y>> \in LaterIn(S)
  BY <1>1, <1>2, FirstOfAll
<1>4. \E s \in S : \A o \in S \ {s} : Later(s, o)
  BY <1>2, <1>3
<1> QED BY <1>4, Zenon DEF Latest

(* A cohort is of known sessions.                                           *)
LEMMA CohortKnown ==
  ASSUME NEW before
  PROVE  SelectCohort(before) \in SUBSET DOMAIN episodes
  BY DEF SelectCohort, Prepared, Candidates

(* The session that ended last is told of, unless later ones fill the       *)
(* cohort (_select_cohort).                                                 *)
LEMMA LastEndedTold ==
  ASSUME HandoverTypes, NEW before,
         NEW ended, ended = {s \in Candidates(before) : episodes[s].ended # Running}, ended # {}
  PROVE  \/ Latest(ended) \in SelectCohort(before)
         \/ /\ Cardinality(SelectCohort(before)) = MaxCohort
            /\ \A s \in SelectCohort(before) : Later(s, Latest(ended))
<1> DEFINE prepared == Prepared(before)
           anchor == AnchorOf(prepared)
           floor == episodes[anchor].started - WindowTicks
           expansion == {s \in prepared : EffectiveEnd(s) >= floor}
           near(s) == \E o \in expansion :
                        LET d == episodes[s].started - episodes[o].started
                        IN  d \in -WindowTicks..WindowTicks
           chosen == {s \in prepared : s \in expansion \/ near(s)}
           cohort == {s \in chosen : Cardinality({o \in chosen : Later(o, s)}) < MaxCohort}
<1>1. ended = {s \in prepared : episodes[s].ended # Running}
  BY DEF Prepared
<1>2. prepared \in SUBSET DOMAIN episodes /\ prepared # {}
  <2>1. prepared \in SUBSET DOMAIN episodes
    BY DEF Prepared, Candidates
  <2> HIDE DEF prepared
  <2> QED BY <1>1, <2>1
<1>3. SelectCohort(before) = cohort
  BY <1>2, Zenon DEF SelectCohort
<1> HIDE DEF prepared
<1>4. anchor = Latest(ended)
  BY <1>1 DEF AnchorOf
<1>5. ended \in SUBSET DOMAIN episodes
  BY <1>1, <1>2
<1>6. anchor \in ended
  BY <1>4, <1>5, LatestThere
<1> HIDE DEF anchor
<1>7. anchor \in prepared /\ anchor \in DOMAIN episodes
  BY <1>1, <1>2, <1>6
<1>8. anchor \in chosen
  <2>1. /\ EffectiveEnd(anchor) \in Int /\ EffectiveEnd(anchor) >= episodes[anchor].started
        /\ episodes[anchor].started \in Nat /\ WindowTicks \in Nat
    BY <1>7, EndTypes, EpisodeTypes, HandoverAssumption
  <2>2. EffectiveEnd(anchor) >= floor
    BY <2>1
  <2> QED BY <1>7, <2>2
<1>9. chosen \in SUBSET DOMAIN episodes
  <2>1. chosen \in SUBSET prepared
    OBVIOUS
  <2> QED BY <1>2, <2>1
<1> HIDE DEF chosen
<1> DEFINE R == LaterIn(chosen)
<1>10. /\ IsFiniteSet(chosen) /\ Orders(R, chosen)
       /\ \A s, o \in chosen : <<s, o>> \in R <=> Later(s, o)
       /\ \A s \in chosen : Ahead(R, chosen, s) = {o \in chosen : Later(o, s)}
  <2>1. IsFiniteSet(chosen)
    BY <1>9, FS_Subset DEF HandoverTypes
  <2> QED BY <1>9, <2>1, LaterOrders
<1> HIDE DEF R
<1>11. cohort = {s \in chosen : Cardinality(Ahead(R, chosen, s)) < MaxCohort}
  BY <1>10
<1>12. CASE Cardinality(Ahead(R, chosen, anchor)) < MaxCohort
  BY <1>3, <1>4, <1>8, <1>11, <1>12
<1>13. CASE ~(Cardinality(Ahead(R, chosen, anchor)) < MaxCohort)
  <2> DEFINE top == {s \in chosen : Cardinality(Ahead(R, chosen, s)) < MaxCohort}
  <2>1. MaxCohort \in Nat
    BY HandoverAssumption
  <2>2. Cardinality(top) = MaxCohort /\ \A x \in top : <<x, anchor>> \in R
    BY <1>8, <1>10, <1>13, <2>1, TopIsFull
  <2>3. \A x \in top : Later(x, anchor)
    BY <1>8, <1>10, <2>2
  <2> HIDE DEF top
  <2>4. top = SelectCohort(before)
    BY <1>3, <1>11 DEF top
  <2> QED BY <1>4, <2>2, <2>3, <2>4
<1> QED BY <1>12, <1>13

-----------------------------------------------------------------------------
(* The messages of a session.                                               *)

LEMMA Constants ==
  /\ DigestBudgets \subseteq Nat
  /\ HorizonTicks \in Nat /\ WindowTicks \in Nat /\ MaxCohort \in Nat /\ MaxMidTurn \in Nat
  /\ HeadCap \in Nat /\ MinMessage \in Nat /\ MinMessage # 0
  /\ IndexCreatedMax \in Nat /\ IndexCreatedMax # 0
  /\ IndexTouchedMax \in Nat /\ IndexTouchedMax # 0
  /\ IndexStubLines \in Nat /\ IndexStubLines # 0
  /\ MarkupLen.frame \in Nat /\ MarkupLen.line \in Nat /\ MarkupLen.more \in Nat
  /\ MarkupLen.session \in Nat /\ MarkupLen.block \in Nat /\ MarkupLen.hint \in Nat
  /\ MarkupLen.trunc \in Nat /\ MarkupLen.stub \in Nat
  /\ MarkupLen.line >= MarkupLen.more
  BY HandoverAssumption

LEMMA TurnTypes ==
  ASSUME HandoverTypes, NEW s \in DOMAIN episodes
  PROVE  /\ Turn(s).captured \in BOOLEAN /\ Turn(s).background \in BOOLEAN
         /\ Turn(s).prompt \in Nat /\ Turn(s).response \in Nat
         /\ Turn(s).mids \in Seq(Nat)
         /\ episodes[s].work.created \in Nat /\ episodes[s].work.touched \in Nat
<1>1. Turn(s) \in Works /\ Turn(s) = episodes[s].work
  BY EpisodeTypes
<1> QED BY <1>1 DEF Works

LEMMA MessageTypes ==
  ASSUME HandoverTypes, NEW s \in DOMAIN episodes, NEW n \in Nat
  PROVE  /\ Heads(s) \in Seq(Nat) /\ Len(Heads(s)) >= 1
         /\ MidShown(s, n) \in Seq(Nat) /\ Capped(s, n) \in Seq(Nat)
         /\ Messages(s, n) \in Seq(Nat) /\ Len(Messages(s, n)) >= 1
<1> DEFINE mids == Turn(s).mids
           from == Max({1, Len(mids) - n + 1})
<1>1. mids \in Seq(Nat) /\ Len(mids) \in Nat
  BY TurnTypes
<1>2. from \in Int /\ from >= 1
  <2>1. Len(mids) - n + 1 \in Int
    BY <1>1
  <2> DEFINE k == Len(mids) - n + 1
  <2> HIDE DEF k, mids
  <2>2. Max({1, k}) = IF 1 >= k THEN 1 ELSE k
    BY <2>1, OfTwo DEF k
  <2> QED BY <2>1, <2>2 DEF k
<1>3. MidShown(s, n) \in Seq(Nat)
  <2>1. MidShown(s, n) = SubSeq(mids, from, Len(mids))
    BY DEF MidShown
  <2> HIDE DEF mids, from
  <2> QED BY <1>1, <1>2, <2>1
<1>4. Capped(s, n) \in Seq(Nat)
  BY <1>3, TurnTypes DEF Capped
<1>5. Heads(s) \in Seq(Nat) /\ Len(Heads(s)) >= 1
  <2> DEFINE p == Turn(s).prompt
             m == Min({p, HeadCap})
  <2>1. m \in Nat /\ HeadCap \in Nat /\ Turn(s).background \in BOOLEAN
    <3>1. p \in Nat /\ HeadCap \in Nat /\ Turn(s).background \in BOOLEAN
      BY TurnTypes, Constants
    <3> HIDE DEF p
    <3>2. Min({p, HeadCap}) = IF p <= HeadCap THEN p ELSE HeadCap
      BY <3>1, OfTwo
    <3> QED BY <3>1, <3>2
  <2>2. Heads(s) = <<m>> \o (IF Turn(s).background THEN <<HeadCap>> ELSE <<>>)
    BY DEF Heads
  <2> HIDE DEF m
  <2> QED BY <2>1, <2>2
<1>6. Messages(s, n) \in Seq(Nat) /\ Len(Messages(s, n)) >= 1
  BY <1>4, <1>5 DEF Messages
<1> QED BY <1>3, <1>4, <1>5, <1>6

(* What _handover_lengths hands to the water filling.                       *)
LEMMA LengthsTyped ==
  ASSUME HandoverTypes, NEW full \in SUBSET DOMAIN episodes, NEW n \in Nat
  PROVE  /\ LengthsOk(HandoverLengths(full, n))
         /\ full # {} => DOMAIN HandoverLengths(full, n) # {}
<1> DEFINE at == [s \in full |-> {s} \X DOMAIN Messages(s, n)]
           places == {at[s] : s \in full}
           D == UNION places
           L == HandoverLengths(full, n)
<1>1. \A s \in full : /\ Messages(s, n) \in Seq(Nat) /\ Len(Messages(s, n)) \in Nat
                      /\ Len(Messages(s, n)) >= 1
                      /\ DOMAIN Messages(s, n) = 1..Len(Messages(s, n))
                      /\ s \in Int
  BY MessageTypes, EpisodeTypes
<1>2. IsFiniteSet(D)
  <2>1. IsFiniteSet(full)
    BY FS_Subset DEF HandoverTypes
  <2>2. IsFiniteSet(places)
    <3> HIDE DEF at
    <3> QED BY <2>1, ImageFinite
  <2>3. ASSUME NEW s \in full PROVE IsFiniteSet(at[s])
    <3> DEFINE k == Len(Messages(s, n))
    <3>1. k \in Int /\ at[s] = {s} \X (1..k)
      BY <1>1
    <3> HIDE DEF k, at
    <3>2. IsFiniteSet(1..k)
      BY <3>1, FS_Interval
    <3>3. IsFiniteSet({s})
      BY FS_Singleton
    <3>4. IsFiniteSet({s} \X (1..k))
      BY <3>2, <3>3, FS_Product
    <3> QED BY <3>1, <3>4
  <2>4. \A T \in places : IsFiniteSet(T)
    <3> HIDE DEF at
    <3> QED BY <2>3
  <2> HIDE DEF places
  <2> QED BY <2>2, <2>4, FS_UNION
<1>3. L = [m \in D |-> Messages(m[1], n)[m[2]]]
  <2>1. UNION {{s} \X DOMAIN Messages(s, n) : s \in full} = D
    OBVIOUS
  <2> QED BY <2>1 DEF HandoverLengths
<1>4. ASSUME NEW m \in D PROVE m \in Int \X Int /\ Messages(m[1], n)[m[2]] \in Nat
  <2>1. PICK s \in full : m \in {s} \X DOMAIN Messages(s, n)
    OBVIOUS
  <2>2. m[1] = s /\ m[2] \in DOMAIN Messages(s, n) /\ m = <<s, m[2]>>
    BY <2>1
  <2>3. m[2] \in Int /\ Messages(s, n)[m[2]] \in Nat
    BY <1>1, <2>2
  <2> QED BY <1>1, <2>2, <2>3
<1>5. ASSUME full # {} PROVE D # {}
  <2>1. PICK s \in full : TRUE
    BY <1>5
  <2>2. <<s, 1>> \in at[s]
    BY <1>1, <2>1
  <2> QED BY <2>2
<1> HIDE DEF D, L
<1>6. DOMAIN L = D /\ \A m \in D : L[m] = Messages(m[1], n)[m[2]]
  BY <1>3
<1>7. L = [m \in DOMAIN L |-> L[m]]
  BY <1>3
<1>8. LengthsOk(L)
  BY <1>2, <1>4, <1>6, <1>7 DEF LengthsOk
<1> QED BY <1>5, <1>6, <1>8 DEF L

(* Water filling gives the largest cap that fits.                           *)
LEMMA LevelHolds ==
  ASSUME HandoverTypes,
         digest # NoDigest => digest.cohort \subseteq DOMAIN episodes /\ digest.budget \in Nat
  PROVE  WaterLevel
<1> DEFINE full == Picked(digest.cohort) \ digest.stubs
           L == HandoverLengths(full, 1)
           top == Max({L[i] : i \in DOMAIN L})
           spent(c) == SumOf([i \in DOMAIN L |-> Min({L[i], c})])
<1>1. SUFFICES ASSUME digest # NoDigest, full # {},
                      NEW A \in {digest.budget \div 4, digest.budget \div 2, digest.budget}
               PROVE  AllocateCap(L, A) = Max({Min({1, top})} \cup {c \in 1..top : spent(c) <= A})
  BY Zenon DEF WaterLevel
<1>2. full \in SUBSET DOMAIN episodes
  BY <1>1 DEF Picked
<1>3. LengthsOk(L) /\ DOMAIN L # {}
  <2> HIDE DEF full
  <2> QED BY <1>1, <1>2, LengthsTyped
<1>4. A \in Nat
  <2>1. digest.budget \in Nat
    BY <1>1
  <2>2. digest.budget \div 4 \in Nat /\ digest.budget \div 2 \in Nat
    BY <2>1
  <2> QED BY <1>1, <2>1, <2>2
<1> HIDE DEF L, full
<1>5. /\ top \in Nat
      /\ AllocateCap(L, A) = Max({Min({1, top})} \cup Caps(L, A))
  BY <1>3, <1>4, WaterFills
<1>6. \A c \in 1..top : spent(c) = Spent(L, c)
  <2> TAKE c \in 1..top
  <2>1. c \in Nat
    BY <1>5
  <2> QED BY <1>3, <2>1, CutTerms DEF CutAt
<1> HIDE DEF spent
<1>7. Caps(L, A) = {c \in 1..top : spent(c) <= A}
  <2>1. Caps(L, A) = {c \in 1..top : Spent(L, c) <= A}
    BY DEF Caps
  <2> HIDE DEF top
  <2> QED BY <1>6, <2>1
<1> QED BY <1>5, <1>7

-----------------------------------------------------------------------------
(* A cap that shrinks until the text fits.                                  *)

(* f is the function whose value at c is h[c] where D says to stop, and that *)
(* at the smaller g[c] elsewhere.                                           *)
Shrinks(f, N, D, h, g) == f = [c \in 0..N |-> IF c \in D THEN h[c] ELSE f[g[c]]]

Shrinking(N, D, g) == \A c \in 0..N : c \notin D => g[c] \in Int /\ 0 <= g[c] /\ g[c] < c

LEMMA LeastThere ==
  ASSUME NEW N \in Nat, NEW B \in SUBSET (0..N), B # {}
  PROVE  \E b \in B : b \in Nat /\ b <= N /\ \A c \in 0..N : c < b => c \notin B
<1>1. IsFiniteSet(B)
  <2>1. IsFiniteSet(0..N)
    BY FS_Interval
  <2> QED BY <2>1, FS_Subset
<1>2. B \in SUBSET Int
  OBVIOUS
<1>3. Min(B) \in B /\ \A x \in B : Min(B) <= x
  BY <1>1, <1>2, MaxThere
<1> DEFINE b == Min(B)
<1> HIDE DEF b
<1>4. b \in B /\ \A x \in B : b <= x
  BY <1>3 DEF b
<1>5. b \in Nat /\ b <= N
  BY <1>4
<1>6. ASSUME NEW c \in 0..N, c < b PROVE c \notin B
  BY <1>4, <1>5, <1>6
<1> QED BY <1>4, <1>5, <1>6

(* There is such a function.                                                *)
LEMMA ShrinkingThere ==
  ASSUME NEW N \in Nat, NEW D, NEW h, NEW g, Shrinking(N, D, g)
  PROVE  \E f : Shrinks(f, N, D, h, g)
<1> DEFINE B == {n \in 0..N : ~ \E f : Shrinks(f, n, D, h, g)}
<1>1. SUFFICES ASSUME N \in B PROVE FALSE
  BY DEF Shrinks
<1>2. PICK b \in B : b \in Nat /\ b <= N /\ \A c \in 0..N : c < b => c \notin B
  <2>1. B \in SUBSET (0..N) /\ B # {}
    BY <1>1
  <2> HIDE DEF B
  <2> QED BY <2>1, LeastThere
<1>3. ~ \E f : Shrinks(f, b, D, h, g)
  OBVIOUS
<1>4. CASE b = 0
  <2>1. 0 \in D
    BY <1>2, <1>4 DEF Shrinking
  <2> DEFINE f == [c \in 0..0 |-> h[c]]
  <2>2. \A c \in 0..0 : c = 0
    OBVIOUS
  <2>3. f = [c \in 0..0 |-> IF c \in D THEN h[c] ELSE f[g[c]]]
    BY <2>1, <2>2
  <2> QED BY <1>3, <1>4, <2>3 DEF Shrinks
<1>5. CASE b # 0
  <2>1. b - 1 \in 0..N /\ b - 1 < b
    BY <1>2, <1>5
  <2>2. b - 1 \notin B
    BY <1>2, <2>1
  <2>3. PICK f : Shrinks(f, b - 1, D, h, g)
    BY <2>1, <2>2
  <2>4. \A c \in 0..b : c # b => c \in 0..(b - 1)
    BY <1>2
  <2>5. \A c \in 0..b : c \in D \/ g[c] \in 0..(b - 1)
    <3>1. \A c \in 0..b : c \in 0..N /\ c <= b /\ c \in Int
      BY <1>2
    <3> QED BY <1>2, <3>1 DEF Shrinking
  <2>6. \A c \in 0..(b - 1) : f[c] = IF c \in D THEN h[c] ELSE f[g[c]]
    BY <2>3 DEF Shrinks
  <2> DEFINE e == [c \in 0..b |-> IF c \in D THEN h[c] ELSE f[g[c]]]
  <2>7. \A c \in 0..(b - 1) : c \in 0..b /\ e[c] = f[c]
    BY <1>2, <2>6
  <2>8. \A c \in 0..b : (IF c \in D THEN h[c] ELSE f[g[c]]) = (IF c \in D THEN h[c] ELSE e[g[c]])
    <3> HIDE DEF e
    <3> QED BY <2>5, <2>7
  <2>9. e = [c \in 0..b |-> IF c \in D THEN h[c] ELSE e[g[c]]]
    BY <2>8
  <2> HIDE DEF e
  <2>10. Shrinks(e, b, D, h, g)
    BY <2>9 DEF Shrinks
  <2> QED BY <1>3, <2>10
<1> QED BY <1>4, <1>5

(* Its values are values of h.                                              *)
LEMMA ShrinkingEnds ==
  ASSUME NEW N \in Nat, NEW D, NEW h, NEW g, Shrinking(N, D, g),
         NEW Good, \A c \in 0..N : c \in D => h[c] \in Good,
         NEW f, Shrinks(f, N, D, h, g), NEW c \in 0..N
  PROVE  f[c] \in Good
<1> DEFINE B == {x \in 0..N : f[x] \notin Good}
<1>1. SUFFICES ASSUME c \in B PROVE FALSE
  OBVIOUS
<1>2. PICK b \in B : b \in Nat /\ b <= N /\ \A x \in 0..N : x < b => x \notin B
  <2>1. B \in SUBSET (0..N) /\ B # {}
    BY <1>1
  <2> HIDE DEF B
  <2> QED BY <2>1, LeastThere
<1>3. b \in 0..N /\ f[b] \notin Good
  OBVIOUS
<1>4. f[b] = IF b \in D THEN h[b] ELSE f[g[b]]
  BY <1>3 DEF Shrinks
<1>5. b \notin D
  BY <1>3, <1>4
<1>6. g[b] \in 0..N /\ g[b] < b
  BY <1>2, <1>5 DEF Shrinking
<1>7. f[g[b]] \in Good
  BY <1>2, <1>6
<1> QED BY <1>3, <1>4, <1>5, <1>7

-----------------------------------------------------------------------------
(* The lengths of a handover.                                               *)

(* Sums over sequences of natural numbers.                                  *)
LEMMA SumOfSeq ==
  ASSUME NEW s \in Seq(Nat)
  PROVE  SumOf(s) \in Nat
<1> DEFINE k == Len(s)
<1>1. k \in Int /\ DOMAIN s = 1..k /\ \A i \in DOMAIN s : s[i] \in Nat
  OBVIOUS
<1> HIDE DEF k
<1>2. IsFiniteSet(1..k)
  BY <1>1, FS_Interval
<1> QED BY <1>1, <1>2, SumIsNat

LEMMA SessionLengths ==
  ASSUME HandoverTypes, NEW s \in DOMAIN episodes, NEW n \in Nat, NEW cap \in Nat
  PROVE  /\ CutCount(s, n, cap) \in Nat
         /\ EmptySession(s, n) \in Nat
         /\ FullSession(s, n, cap) \in Nat
<1> DEFINE texts == Capped(s, n)
           cut == [i \in DOMAIN texts |-> Min({texts[i], cap})]
           m == Len(texts)
           p == Turn(s).prompt > HeadCap
<1>1. /\ texts \in Seq(Nat) /\ m \in Nat /\ DOMAIN texts = 1..m
      /\ \A i \in DOMAIN texts : texts[i] \in Nat
  BY MessageTypes
<1>2. Heads(s) \in Seq(Nat) /\ Len(Heads(s)) \in Nat
  BY MessageTypes
<1>3. IsFiniteSet(DOMAIN texts)
  <2> HIDE DEF m, texts
  <2>1. IsFiniteSet(1..m)
    BY <1>1, FS_Interval
  <2> QED BY <1>1, <2>1
<1>4. CutCount(s, n, cap) \in Nat
  <2>1. IsFiniteSet({i \in DOMAIN texts : texts[i] > cap})
    BY <1>3, FS_Subset
  <2> QED BY <2>1, FS_CardinalityType DEF CutCount
<1>5. SumOf(cut) \in Nat
  <2> HIDE DEF texts
  <2>1. \A i \in DOMAIN texts : Min({texts[i], cap}) \in Nat
    <3> TAKE i \in DOMAIN texts
    <3> DEFINE x == texts[i]
    <3>1. x \in Nat
      BY <1>1
    <3> HIDE DEF x
    <3>2. Min({x, cap}) = IF x <= cap THEN x ELSE cap
      BY <3>1, OfTwo
    <3>3. Min({x, cap}) \in Nat
      BY <3>1, <3>2
    <3> QED BY <3>3 DEF x
  <2>2. DOMAIN cut = DOMAIN texts /\ \A i \in DOMAIN cut : cut[i] \in Nat
    BY <2>1
  <2> HIDE DEF cut
  <2> QED BY <1>3, <2>2, SumIsNat
<1>6. EmptySession(s, n) \in Nat
  <2> DEFINE k == Len(Heads(s))
             hint == IF Len(MidShown(s, n)) < Len(Turn(s).mids) THEN MarkupLen.hint ELSE 0
  <2>1. k \in Nat /\ m \in Nat /\ hint \in Nat
    BY <1>1, <1>2, Constants
  <2>2. EmptySession(s, n) = MarkupLen.session + MarkupLen.block * (k + m) + hint
    BY DEF EmptySession
  <2> HIDE DEF k, m, hint
  <2>3. MarkupLen.session \in Nat /\ MarkupLen.block \in Nat
    BY Constants
  <2>4. MarkupLen.block * (k + m) \in Nat
    BY <2>1, <2>3
  <2> QED BY <2>1, <2>2, <2>3, <2>4
<1>7. FullSession(s, n, cap) \in Nat
  <2> DEFINE c == CutCount(s, n, cap)
             one == IF p THEN 1 ELSE 0
             hint == IF c > 0 \/ p THEN MarkupLen.hint ELSE 0
             heads == SumOf(Heads(s))
             body == SumOf(cut)
  <2>1. FullSession(s, n, cap)
          = EmptySession(s, n) + heads + body + MarkupLen.trunc * (c + one) + hint
    BY DEF FullSession
  <2>2. heads \in Nat
    BY <1>2, SumOfSeq
  <2>3. body \in Nat /\ c \in Nat /\ one \in Nat /\ hint \in Nat /\ MarkupLen.trunc \in Nat
    BY <1>4, <1>5, Constants
  <2> HIDE DEF c, one, hint, heads, body
  <2>4. MarkupLen.trunc * (c + one) \in Nat
    BY <2>3
  <2> QED BY <1>6, <2>1, <2>2, <2>3, <2>4
<1> QED BY <1>4, <1>6, <1>7

(* The frame alone is what a handover of stubs takes.                       *)
LEMMA FrameType ==
  ASSUME NEW S, IsFiniteSet(S)
  PROVE  HandoverFrame(S) \in Nat
<1> DEFINE k == Cardinality(S)
           hint == IF S = {} THEN MarkupLen.hint ELSE 0
<1>1. k \in Nat /\ hint \in Nat /\ MarkupLen.frame \in Nat /\ MarkupLen.stub \in Nat
  BY FS_CardinalityType, Constants
<1>2. HandoverFrame(S) = MarkupLen.frame + hint + MarkupLen.stub * k
  BY DEF HandoverFrame
<1> HIDE DEF k, hint
<1>3. MarkupLen.stub * k \in Nat
  BY <1>1
<1> QED BY <1>1, <1>2, <1>3

LEMMA MarkupLengths ==
  ASSUME HandoverTypes, NEW picked \in SUBSET DOMAIN episodes, NEW stubs \in SUBSET picked,
         NEW n \in Nat, NEW cap \in Nat
  PROVE  /\ EmptyMarkup(picked, stubs, n) \in Nat
         /\ RenderMarkup(picked, stubs, n, cap) \in Nat
         /\ SumOf([s \in picked \ stubs |-> CutCount(s, n, cap)]) \in Nat
         /\ picked = stubs => /\ EmptyMarkup(picked, stubs, n) = HandoverFrame(stubs)
                              /\ RenderMarkup(picked, stubs, n, cap) = HandoverFrame(stubs)
<1> DEFINE S == picked \ stubs
           e == [s \in S |-> EmptySession(s, n)]
           f == [s \in S |-> FullSession(s, n, cap)]
           c == [s \in S |-> CutCount(s, n, cap)]
<1>1. IsFiniteSet(S) /\ IsFiniteSet(stubs)
  BY FS_Subset DEF HandoverTypes
<1>2. /\ DOMAIN e = S /\ \A s \in S : e[s] \in Nat
      /\ DOMAIN f = S /\ \A s \in S : f[s] \in Nat
      /\ DOMAIN c = S /\ \A s \in S : c[s] \in Nat
  BY SessionLengths
<1>3. /\ EmptyMarkup(picked, stubs, n) = HandoverFrame(stubs) + SumOf(e)
      /\ RenderMarkup(picked, stubs, n, cap) = HandoverFrame(stubs) + SumOf(f)
  BY DEF EmptyMarkup, RenderMarkup
<1>4. HandoverFrame(stubs) \in Nat
  BY <1>1, FrameType
<1>5. ASSUME picked = stubs PROVE S = {}
  BY <1>5
<1> HIDE DEF e, f, S
<1>6. SumOf(e) \in Nat /\ SumOf(f) \in Nat
  BY <1>1, <1>2, SumIsNat
<1>7. SumOf(c) \in Nat
  <2> HIDE DEF c
  <2> QED BY <1>1, <1>2, SumIsNat
<1>8. ASSUME S = {} PROVE SumOf(e) = 0 /\ SumOf(f) = 0
  BY <1>2, <1>8, SumOfIs, SumOfNone
<1>9. SumOf([s \in picked \ stubs |-> CutCount(s, n, cap)]) \in Nat
  BY <1>7 DEF S
<1> QED BY <1>3, <1>4, <1>5, <1>6, <1>8, <1>9

(* What a fit may come to: one that fits keeps to the limit, one without a  *)
(* session in full is the frame.                                            *)
FitsIn(picked, stubs, limit) ==
  {r \in [fits : BOOLEAN, len : Nat] :
     /\ r.fits => r.len <= limit
     /\ picked = stubs => r.len = HandoverFrame(stubs)}

LEMMA FitKeeps ==
  ASSUME HandoverTypes, NEW picked \in SUBSET DOMAIN episodes, NEW stubs \in SUBSET picked,
         NEW n \in Nat, NEW cap \in Nat, NEW limit \in Int
  PROVE  HandoverFit(picked, stubs, n, limit, cap) \in FitsIn(picked, stubs, limit)
<1> DEFINE len(c) == RenderMarkup(picked, stubs, n, c)
           cuts(c) == SumOf([s \in picked \ stubs |-> CutCount(s, n, c)])
           next(c) == c - Max({1, (len(c) - limit + cuts(c) - 1) \div cuts(c)})
           stop(c) == len(c) <= limit \/ cuts(c) = 0 \/ next(c) < MinMessage
           res(c) == [fits |-> len(c) <= limit, len |-> len(c)]
           D == {c \in 0..cap : stop(c)}
           h == [c \in 0..cap |-> res(c)]
           g == [c \in 0..cap |-> next(c)]
           Good == FitsIn(picked, stubs, limit)
<1>1. HandoverFit(picked, stubs, n, limit, cap)
        = (CHOOSE f : f = [c \in 0..cap |-> IF stop(c) THEN res(c) ELSE f[next(c)]])[cap]
  BY DEF HandoverFit
<1>2. \A c \in 0..cap : /\ len(c) \in Nat /\ cuts(c) \in Nat
                        /\ picked = stubs => len(c) = HandoverFrame(stubs)
  <2> TAKE c \in 0..cap
  <2>1. c \in Nat
    OBVIOUS
  <2> QED BY <2>1, MarkupLengths
<1> HIDE DEF len, cuts
<1>3. ASSUME NEW c \in 0..cap PROVE res(c) \in Good
  <2> DEFINE l == len(c)
  <2>1. l \in Nat /\ (picked = stubs => l = HandoverFrame(stubs))
    BY <1>2
  <2> HIDE DEF l
  <2> DEFINE b == l <= limit
             r == [fits |-> b, len |-> l]
  <2>2. b \in BOOLEAN /\ (b => l <= limit)
    OBVIOUS
  <2> HIDE DEF b
  <2>3. r \in [fits : BOOLEAN, len : Nat] /\ r.fits = b /\ r.len = l
    BY <2>1, <2>2
  <2> HIDE DEF r
  <2>4. r \in FitsIn(picked, stubs, limit)
    BY <2>1, <2>2, <2>3 DEF FitsIn
  <2> QED BY <2>4 DEF l, b, r
<1>4. ASSUME NEW c \in 0..cap, ~stop(c)
      PROVE  next(c) \in Int /\ 0 <= next(c) /\ next(c) < c
  <2> DEFINE q == (len(c) - limit + cuts(c) - 1) \div cuts(c)
  <2>1. cuts(c) \in Nat /\ cuts(c) # 0 /\ len(c) \in Nat
    BY <1>2, <1>4
  <2>2. q \in Int
    <3> DEFINE a == len(c) - limit + cuts(c) - 1
               k == cuts(c)
    <3>1. a \in Int /\ k \in Nat /\ k # 0
      BY <2>1
    <3> HIDE DEF a, k
    <3>2. a \div k \in Int
      BY <3>1, EvenShare
    <3> QED BY <3>2 DEF a, k
  <2>3. next(c) = c - Max({1, q})
    OBVIOUS
  <2>4. ~(next(c) < MinMessage) /\ MinMessage \in Nat
    BY <1>4, Constants
  <2> HIDE DEF q, next
  <2>5. Max({1, q}) = IF 1 >= q THEN 1 ELSE q
    BY <2>2, OfTwo
  <2>6. Max({1, q}) \in Int /\ Max({1, q}) >= 1
    BY <2>2, <2>5
  <2> DEFINE w == Max({1, q})
  <2> HIDE DEF w
  <2>7. w \in Int /\ w >= 1 /\ next(c) = c - w
    BY <2>3, <2>6 DEF w
  <2> QED BY <2>4, <2>7
<1> HIDE DEF stop, next, res, Good
<1>5. Shrinking(cap, D, g)
  BY <1>4 DEF Shrinking
<1>6. \A c \in 0..cap : c \in D => h[c] \in Good
  BY <1>3
<1>7. \A f : [c \in 0..cap |-> IF stop(c) THEN res(c) ELSE f[next(c)]]
             = [c \in 0..cap |-> IF c \in D THEN h[c] ELSE f[g[c]]]
  OBVIOUS
<1>8. \A f : Shrinks(f, cap, D, h, g)
             <=> f = [c \in 0..cap |-> IF stop(c) THEN res(c) ELSE f[next(c)]]
  <2> HIDE DEF D, h, g
  <2> QED BY <1>7 DEF Shrinks
<1> DEFINE fit == CHOOSE f : f = [c \in 0..cap |-> IF stop(c) THEN res(c) ELSE f[next(c)]]
<1>9. fit = [c \in 0..cap |-> IF stop(c) THEN res(c) ELSE fit[next(c)]]
  <2> HIDE DEF D, h, g
  <2>1. \E f : Shrinks(f, cap, D, h, g)
    BY <1>5, ShrinkingThere
  <2>2. \E f : f = [c \in 0..cap |-> IF stop(c) THEN res(c) ELSE f[next(c)]]
    BY <1>8, <2>1
  <2> QED BY <2>2, Zenon
<1>10. Shrinks(fit, cap, D, h, g)
  <2> HIDE DEF fit, D, h, g
  <2> QED BY <1>8, <1>9
<1>11. cap \in 0..cap
  OBVIOUS
<1>12. fit[cap] \in Good
  <2> HIDE DEF fit, D, h, g
  <2> QED BY <1>5, <1>6, <1>10, <1>11, ShrinkingEnds
<1> QED BY <1>1, <1>12 DEF Good

(* The cap is a number, also when there is nothing to cap.                  *)
LEMMA CapType ==
  ASSUME HandoverTypes, NEW full \in SUBSET DOMAIN episodes, NEW n \in Nat, NEW A \in Nat
  PROVE  AllocateCap(HandoverLengths(full, n), A) \in Nat
<1>1. CASE full # {}
  <2> DEFINE L == HandoverLengths(full, n)
  <2>1. LengthsOk(L) /\ DOMAIN L # {}
    BY <1>1, LengthsTyped
  <2> HIDE DEF L
  <2>2. AllocateCap(L, A) \in Nat
    BY <2>1, WaterFills
  <2> QED BY <2>2 DEF L
<1>2. CASE full = {}
  <2>1. UNION {{s} \X DOMAIN Messages(s, n) : s \in {}} = {}
    OBVIOUS
  <2>2. HandoverLengths({}, n) = [m \in {} |-> Messages(m[1], n)[m[2]]]
    BY <2>1 DEF HandoverLengths
  <2>3. [m \in {} |-> Messages(m[1], n)[m[2]]] = <<>>
    OBVIOUS
  <2>4. AllocateCap(<<>>, A) = 1
    BY DEF AllocateCap
  <2> QED BY <1>2, <2>2, <2>3, <2>4
<1> QED BY <1>1, <1>2

LEMMA MessagesFit ==
  ASSUME HandoverTypes, NEW picked \in SUBSET DOMAIN episodes, NEW stubs \in SUBSET picked,
         NEW n \in Nat, NEW limit \in Int
  PROVE  FitMessages(picked, stubs, n, limit, EmptyMarkup(picked, stubs, n))
           \in FitsIn(picked, stubs, limit)
<1> DEFINE empty == EmptyMarkup(picked, stubs, n)
<1>1. empty \in Nat /\ (picked = stubs => empty = HandoverFrame(stubs))
  BY MarkupLengths
<1> HIDE DEF empty
<1>2. CASE limit - empty <= 0
  <2>1. FitMessages(picked, stubs, n, limit, empty) = [fits |-> FALSE, len |-> empty]
    BY <1>2 DEF FitMessages
  <2> QED BY <1>1, <2>1 DEF FitsIn, empty
<1>3. CASE ~(limit - empty <= 0)
  <2> DEFINE cap == AllocateCap(HandoverLengths(picked \ stubs, n), limit - empty)
  <2>1. limit - empty \in Nat
    BY <1>1, <1>3
  <2>2. cap \in Nat
    BY <2>1, CapType
  <2>3. FitMessages(picked, stubs, n, limit, empty) = HandoverFit(picked, stubs, n, limit, cap)
    BY <1>3 DEF FitMessages
  <2> HIDE DEF cap
  <2> QED BY <2>2, <2>3, FitKeeps DEF empty
<1> QED BY <1>2, <1>3

(* With every session stubbed no session is left in full.                   *)
LEMMA AllStubbed ==
  ASSUME HandoverTypes, NEW picked \in SUBSET DOMAIN episodes
  PROVE  OldestTraces(picked, Cardinality(picked)) = picked
<1> DEFINE older(s) == {o \in picked : TraceOlder(o, s)}
<1>1. IsFiniteSet(picked)
  BY FS_Subset DEF HandoverTypes
<1>2. ASSUME NEW s \in picked PROVE Cardinality(older(s)) < Cardinality(picked)
  <2>1. s \in Int /\ episodes[s].active \in Nat
    BY EpisodeTypes
  <2>2. s \notin older(s)
    BY <2>1 DEF TraceOlder
  <2>3. older(s) \in SUBSET picked /\ older(s) # picked
    BY <2>2
  <2> DEFINE T == older(s)
  <2> HIDE DEF T
  <2>4. T \in SUBSET picked /\ T # picked
    BY <2>3 DEF T
  <2>5. IsFiniteSet(T) /\ Cardinality(T) <= Cardinality(picked)
        /\ Cardinality(T) # Cardinality(picked)
    BY <1>1, <2>4, FS_Subset
  <2>6. Cardinality(T) \in Nat /\ Cardinality(picked) \in Nat
    BY <1>1, <2>5, FS_CardinalityType
  <2>7. Cardinality(T) < Cardinality(picked)
    BY <2>5, <2>6
  <2> QED BY <2>7 DEF T
<1> QED BY <1>2 DEF OldestTraces

(* The handover fits, or every session is stubbed and the frame is left.    *)
LEMMA StubbedToFit ==
  ASSUME HandoverTypes, NEW picked \in SUBSET DOMAIN episodes, NEW limit \in Int
  PROVE  LET r == FitAndStub(picked, limit)
         IN  /\ r.len \in Nat
             /\ \/ r.len <= limit
                \/ r.stubs = picked /\ r.len = HandoverFrame(picked)
<1> DEFINE M == Cardinality(picked)
           phase(k) == FitPhase(picked, OldestTraces(picked, k), IF k = -1 THEN MaxMidTurn ELSE 1, limit)
           fitting == {k \in -1..M : phase(k).phase.fits}
           K == {M} \cup fitting
           last == phase(Min(K))
<1>1. M \in Nat
  BY FS_Subset, FS_CardinalityType DEF HandoverTypes
<1>2. \A k \in -1..M : phase(k).phase \in FitsIn(picked, phase(k).stubs, limit)
  <2> TAKE k \in -1..M
  <2> DEFINE n == IF k = -1 THEN MaxMidTurn ELSE 1
             stubs == OldestTraces(picked, k)
  <2>1. n \in Nat /\ stubs \in SUBSET picked
    BY Constants DEF OldestTraces
  <2> HIDE DEF n, stubs
  <2>2. FitPhase(picked, stubs, n, limit).stubs = stubs
    BY DEF FitPhase
  <2>3. FitPhase(picked, stubs, n, limit).phase
          = FitMessages(picked, stubs, n, limit, EmptyMarkup(picked, stubs, n))
    BY DEF FitPhase
  <2>4. FitPhase(picked, stubs, n, limit).phase \in FitsIn(picked, stubs, limit)
    BY <2>1, <2>3, MessagesFit
  <2> QED BY <2>2, <2>4 DEF n, stubs
<1>3. phase(M).stubs = picked
  BY AllStubbed DEF FitPhase
<1>4. FitAndStub(picked, limit) = [len |-> last.phase.len, stubs |-> last.stubs]
  BY DEF FitAndStub
<1> HIDE DEF phase
<1>5. Min(K) \in K
  <2>1. K \in SUBSET Int /\ K # {}
    BY <1>1
  <2>2. IsFiniteSet(K)
    <3>1. IsFiniteSet(-1..M)
      BY <1>1, FS_Interval
    <3>2. fitting \in SUBSET (-1..M)
      OBVIOUS
    <3> HIDE DEF fitting
    <3>3. IsFiniteSet(fitting)
      BY <3>1, <3>2, FS_Subset
    <3>4. IsFiniteSet({M})
      BY FS_Singleton
    <3> QED BY <3>3, <3>4, FS_Union
  <2> HIDE DEF K
  <2> QED BY <2>1, <2>2, MaxThere
<1> DEFINE k == Min(K)
<1> HIDE DEF k
<1>6. k \in -1..M /\ (k = M \/ phase(k).phase.fits)
  BY <1>1, <1>5 DEF k
<1>7. last = phase(k)
  BY DEF k
<1> HIDE DEF last, M
<1>8. /\ last.phase.len \in Nat
      /\ last.phase.fits => last.phase.len <= limit
      /\ picked = last.stubs => last.phase.len = HandoverFrame(last.stubs)
  BY <1>2, <1>6, <1>7 DEF FitsIn
<1>9. CASE last.phase.fits
  BY <1>4, <1>8, <1>9
<1>10. CASE k = M
  <2>1. last.stubs = picked
    BY <1>3, <1>7, <1>10
  <2> QED BY <1>4, <1>8, <2>1
<1> QED BY <1>6, <1>7, <1>9, <1>10

-----------------------------------------------------------------------------
(* The index.                                                               *)

LEMMA MemoryCounts ==
  ASSUME HandoverTypes, NEW cohort \in SUBSET DOMAIN episodes
  PROVE  CreatedBy(cohort) \in Nat /\ TouchedBy(cohort) \in Nat
<1> DEFINE c == [s \in cohort |-> episodes[s].work.created]
           t == [s \in cohort |-> episodes[s].work.touched]
<1>1. IsFiniteSet(cohort)
  BY FS_Subset DEF HandoverTypes
<1>2. /\ DOMAIN c = cohort /\ \A s \in cohort : c[s] \in Nat
      /\ DOMAIN t = cohort /\ \A s \in cohort : t[s] \in Nat
  BY TurnTypes
<1>3. CreatedBy(cohort) = SumOf(c) /\ TouchedBy(cohort) = SumOf(t)
  BY DEF CreatedBy, TouchedBy
<1> HIDE DEF c, t
<1> QED BY <1>1, <1>2, <1>3, SumIsNat

(* An index without a line takes no more than its stub.                     *)
LEMMA EmptyIndexFits ==
  ASSUME NEW created \in Nat, NEW touched \in Nat, created + touched # 0
  PROVE  /\ IndexText(0, 0, created, touched) \in Int
         /\ IndexStub(created, touched) \in Int
         /\ IndexText(0, 0, created, touched) <= IndexStub(created, touched)
<1> DEFINE a == Min({created, IndexCreatedMax})
           b == Min({touched, IndexTouchedMax})
           v == Min({IndexStubLines, a + b})
           more == MarkupLen.more
           line == MarkupLen.line
           frame == MarkupLen.frame
           mc == IF 0 < created THEN more ELSE 0
           mt == IF 0 < touched THEN more ELSE 0
           mv == IF v < created + touched THEN more ELSE 0
<1>1. more \in Nat /\ line \in Nat /\ frame \in Nat /\ line >= more
  BY Constants
<1>2. IndexText(0, 0, created, touched) = frame + line * (0 + 0) + mc + mt
  BY DEF IndexText
<1>3. IndexStub(created, touched) = frame + line * v + mv
  BY DEF IndexStub
<1>4. a = (IF created <= IndexCreatedMax THEN created ELSE IndexCreatedMax) /\ a \in Nat
  <2>1. created \in Int /\ IndexCreatedMax \in Int /\ IndexCreatedMax \in Nat
    BY Constants
  <2>2. a = (IF created <= IndexCreatedMax THEN created ELSE IndexCreatedMax)
    BY <2>1, OfTwo
  <2> HIDE DEF a
  <2> QED BY <2>1, <2>2
<1>5. b = (IF touched <= IndexTouchedMax THEN touched ELSE IndexTouchedMax) /\ b \in Nat
  <2>1. touched \in Int /\ IndexTouchedMax \in Int /\ IndexTouchedMax \in Nat
    BY Constants
  <2>2. b = (IF touched <= IndexTouchedMax THEN touched ELSE IndexTouchedMax)
    BY <2>1, OfTwo
  <2> HIDE DEF b
  <2> QED BY <2>1, <2>2
<1> HIDE DEF a, b, more, line, frame
<1>ab. a \in Nat /\ b \in Nat
  BY <1>4, <1>5
<1>6. v = (IF IndexStubLines <= a + b THEN IndexStubLines ELSE a + b) /\ v \in Nat
  <2>1. IndexStubLines \in Int /\ a + b \in Int /\ IndexStubLines \in Nat
    BY <1>4, <1>5, Constants
  <2> DEFINE w == a + b
  <2> HIDE DEF w
  <2>2. v = (IF IndexStubLines <= a + b THEN IndexStubLines ELSE a + b)
    <3>1. Min({IndexStubLines, w}) = (IF IndexStubLines <= w THEN IndexStubLines ELSE w)
      BY <2>1, OfTwo DEF w
    <3> QED BY <3>1 DEF w
  <2> HIDE DEF v
  <2>3. a + b \in Nat
    BY <1>ab
  <2>4. v \in Nat
    BY <2>1, <2>2, <2>3
  <2> QED BY <2>2, <2>4
<1> HIDE DEF v
<1>7. v >= 1
  BY <1>4, <1>5, <1>6, Constants
<1>8. mc \in Nat /\ mt \in Nat /\ mv \in Nat /\ mc <= more /\ mt <= more
  BY <1>1
<1>9. line * v \in Nat /\ line * v >= line
  BY <1>1, <1>6, <1>7
<1>10. line * (0 + 0) = 0
  BY <1>1
<1>11. mc + mt <= line * v + mv
  <2>1. CASE v = 1
    <3>1. CASE 0 < created /\ 0 < touched
      <4>1. mv = more
        BY <2>1, <3>1
      <4> HIDE DEF mc, mt, mv
      <4> QED BY <1>1, <1>8, <1>9, <4>1
    <3>2. CASE ~(0 < created /\ 0 < touched)
      BY <1>1, <1>8, <1>9, <3>2
    <3> QED BY <3>1, <3>2
  <2>2. CASE v # 1
    <3>1. line * v >= line * 2
      BY <1>1, <1>6, <1>7, <2>2
    <3>2. line * 2 = line + line
      BY <1>1
    <3> HIDE DEF mc, mt, mv
    <3> QED BY <1>1, <1>8, <1>9, <3>1, <3>2
  <2> QED BY <2>1, <2>2
<1> HIDE DEF mc, mt, mv
<1> QED BY <1>1, <1>2, <1>3, <1>8, <1>9, <1>10, <1>11

(* The index of a digest within its budget keeps to its quarter, or is      *)
(* without a line.                                                          *)
LEMMA IndexFits ==
  ASSUME HandoverTypes, NEW cohort \in SUBSET DOMAIN episodes, NEW limit \in Nat
  PROVE  /\ RenderIndex(cohort, limit, FALSE) \in Int
         /\ RenderIndex(cohort, limit, TRUE) \in Int
         /\ RenderIndex(cohort, limit, TRUE) = RenderIndex(cohort, NoLimit, TRUE)
         /\ \/ RenderIndex(cohort, limit, FALSE) <= limit
            \/ RenderIndex(cohort, limit, FALSE) <= RenderIndex(cohort, NoLimit, TRUE)
<1> DEFINE created == CreatedBy(cohort)
           touched == TouchedBy(cohort)
<1>1. created \in Nat /\ touched \in Nat
  BY MemoryCounts
<1>2. MarkupLen.frame \in Int
  BY Constants
<1>3. CASE created + touched = 0
  <2>1. /\ RenderIndex(cohort, limit, FALSE) = MarkupLen.frame
        /\ RenderIndex(cohort, limit, TRUE) = MarkupLen.frame
        /\ RenderIndex(cohort, NoLimit, TRUE) = MarkupLen.frame
    BY <1>3 DEF RenderIndex
  <2> DEFINE frame == MarkupLen.frame
  <2>2. frame \in Int /\ frame <= frame
    BY <1>2
  <2> HIDE DEF frame
  <2> QED BY <2>1, <2>2, Zenon DEF frame
<1>4. CASE created + touched # 0
  <2> DEFINE c0 == Min({created, IndexCreatedMax})
             t0 == Min({touched, IndexTouchedMax})
             text(k) == LET c == Min({c0, k}) IN IndexText(c, k - c, created, touched)
             K == {k \in 1..c0 + t0 : text(k) <= limit}
             X == {0} \cup K
  <2>1. /\ RenderIndex(cohort, limit, FALSE) = IndexBody(created, touched, limit)
        /\ RenderIndex(cohort, limit, TRUE) = IndexStub(created, touched)
        /\ RenderIndex(cohort, NoLimit, TRUE) = IndexStub(created, touched)
    <3>1. limit # NoLimit
      BY DEF NoLimit
    <3> QED BY <1>4, <3>1 DEF RenderIndex
  <2>2. IndexBody(created, touched, limit) = text(Max(X))
    BY DEF IndexBody
  <2> HIDE DEF created, touched
  <2>3. c0 \in Nat /\ t0 \in Nat
    <3>0. /\ created \in Int /\ touched \in Int
          /\ IndexCreatedMax \in Int /\ IndexTouchedMax \in Int
      BY <1>1, Constants
    <3>1. c0 = IF created <= IndexCreatedMax THEN created ELSE IndexCreatedMax
      BY <3>0, OfTwo
    <3>2. t0 = IF touched <= IndexTouchedMax THEN touched ELSE IndexTouchedMax
      BY <3>0, OfTwo
    <3> HIDE DEF c0, t0
    <3> QED BY <1>1, <3>1, <3>2, Constants
  <2> HIDE DEF c0, t0
  <2>4. ASSUME NEW k \in Nat PROVE text(k) \in Int
    <3> DEFINE c == Min({c0, k})
               x == IF c < created THEN MarkupLen.more ELSE 0
               y == IF k - c < touched THEN MarkupLen.more ELSE 0
    <3>1. c = IF c0 <= k THEN c0 ELSE k
      BY <2>3, OfTwo
    <3>2. text(k) = MarkupLen.frame + MarkupLen.line * (c + (k - c)) + x + y
      BY DEF IndexText
    <3> HIDE DEF c, text
    <3>3. c \in Nat
      BY <2>3, <3>1
    <3>4. x \in Int /\ y \in Int /\ MarkupLen.line \in Int
      BY Constants
    <3> HIDE DEF x, y
    <3>5. MarkupLen.line * (c + (k - c)) \in Int
      BY <3>3, <3>4
    <3> QED BY <1>2, <3>2, <3>4, <3>5
  <2>5. text(0) = IndexText(0, 0, created, touched)
    <3>1. Min({c0, 0}) = 0
      <4>1. Min({c0, 0}) = IF c0 <= 0 THEN c0 ELSE 0
        BY <2>3, OfTwo
      <4> QED BY <2>3, <4>1
    <3>2. 0 - 0 = 0
      OBVIOUS
    <3> QED BY <3>1, <3>2
  <2> HIDE DEF text
  <2>6. Max(X) \in X
    <3>1. X \in SUBSET Int /\ X # {}
      OBVIOUS
    <3>2. IsFiniteSet(X)
      <4> DEFINE n == c0 + t0
      <4>1. n \in Int
        BY <2>3
      <4>2. K \in SUBSET (1..n)
        OBVIOUS
      <4> HIDE DEF n, K
      <4>3. IsFiniteSet(1..n)
        BY <4>1, FS_Interval
      <4>4. IsFiniteSet(K)
        BY <4>2, <4>3, FS_Subset
      <4>5. IsFiniteSet({0})
        BY FS_Singleton
      <4> QED BY <4>4, <4>5, FS_Union
    <3> HIDE DEF X
    <3> QED BY <3>1, <3>2, MaxThere
  <2> DEFINE m == Max(X)
  <2> HIDE DEF m
  <2>7. m = 0 \/ (m \in Nat /\ text(m) <= limit)
    <3>1. m \in X
      BY <2>6 DEF m
    <3> QED BY <3>1
  <2>8. IndexBody(created, touched, limit) = text(m)
    BY <2>2 DEF m
  <2>9. /\ IndexText(0, 0, created, touched) \in Int
        /\ IndexStub(created, touched) \in Int
        /\ IndexText(0, 0, created, touched) <= IndexStub(created, touched)
    BY <1>1, <1>4, EmptyIndexFits
  <2>10. text(m) \in Int /\ (text(m) <= limit \/ text(m) <= IndexStub(created, touched))
    BY <2>4, <2>5, <2>7, <2>9
  <2> QED BY <2>1, <2>8, <2>9, <2>10
<1> QED BY <1>3, <1>4

-----------------------------------------------------------------------------
(* The digest.                                                              *)

(* Both parts, with what the index leaves to the handover: within the       *)
(* budget, or all stubs.                                                    *)
LEMMA BothParts ==
  ASSUME HandoverTypes, NEW cohort \in SUBSET DOMAIN episodes, NEW budget \in Nat, NEW index \in Int
  PROVE  LET r == RenderBoth(cohort, budget, index)
             P == Picked(cohort)
         IN  /\ r.len \in Int
             /\ P = {} => r.len = index /\ r.stubs = {}
             /\ P # {} => \/ r.len <= budget \/ r.len = index
                          \/ r.stubs = P /\ r.len = index + (1 + HandoverFrame(P))
<1> DEFINE P == Picked(cohort)
           limit == budget - index - 1
           h == RenderHandover(cohort, limit)
           r == RenderBoth(cohort, budget, index)
<1>1. P \in SUBSET DOMAIN episodes /\ limit \in Int
  BY DEF Picked
<1>2. r = [len |-> index + (IF h.len > 0 THEN 1 + h.len ELSE 0), stubs |-> h.stubs]
  BY DEF RenderBoth, Joined
<1>3. CASE P = {}
  <2>1. h = [len |-> 0, stubs |-> {}]
    BY <1>3 DEF RenderHandover
  <2> HIDE DEF h, r
  <2>2. h.len = 0 /\ h.stubs = {}
    BY <2>1
  <2>3. r.len = index /\ r.stubs = {}
    BY <1>2, <2>2
  <2> QED BY <1>3, <2>3 DEF r
<1>4. CASE P # {}
  <2>1. h = FitAndStub(P, limit)
    BY <1>4 DEF RenderHandover
  <2> HIDE DEF P, limit, h
  <2>2. h.len \in Nat /\ (h.len <= limit \/ (h.stubs = P /\ h.len = HandoverFrame(P)))
    BY <1>1, <2>1, StubbedToFit
  <2> HIDE DEF r
  <2>3. r.len = index + (IF h.len > 0 THEN 1 + h.len ELSE 0) /\ r.stubs = h.stubs
    BY <1>2
  <2> DEFINE l == h.len
  <2> HIDE DEF l
  <2>4. l \in Nat /\ r.len = index + (IF l > 0 THEN 1 + l ELSE 0)
    BY <2>2, <2>3 DEF l
  <2>5. r.len \in Int
    BY <2>4
  <2>6. CASE l = 0
    <3>1. r.len = index
      BY <2>4, <2>6
    <3> QED BY <1>4, <2>5, <3>1 DEF r, P
  <2>7. CASE l # 0
    <3>1. r.len = index + (1 + l)
      BY <2>4, <2>7
    <3>2. CASE l <= limit
      <4>1. l <= budget - index - 1
        BY <3>2 DEF limit
      <4>2. r.len <= budget
        BY <2>4, <3>1, <4>1
      <4> QED BY <1>4, <2>5, <4>2 DEF r, P
    <3>3. CASE ~(l <= limit)
      <4>1. h.stubs = P /\ l = HandoverFrame(P)
        BY <2>2, <3>3 DEF l
      <4>2. r.stubs = P /\ r.len = index + (1 + HandoverFrame(P))
        BY <2>3, <3>1, <4>1
      <4> QED BY <1>4, <2>5, <4>2 DEF r, P
    <3> QED BY <3>2, <3>3
  <2> QED BY <2>6, <2>7
<1> QED BY <1>3, <1>4

(* A digest whose most reduced form fits its budget fits it.                *)
LEMMA DigestKeeps ==
  ASSUME HandoverTypes, NEW cohort \in SUBSET DOMAIN episodes, NEW budget \in Nat, budget # 0,
         budget >= DigestFloor(cohort)
  PROVE  SessionDigest(cohort, budget).len <= budget
<1> DEFINE quarter == budget \div 4
           P == Picked(cohort)
           iq == RenderIndex(cohort, quarter, FALSE)
           reduced == RenderIndex(cohort, quarter, TRUE)
           first == RenderBoth(cohort, budget, iq)
           second == RenderBoth(cohort, budget, reduced)
           frame == HandoverFrame(P)
<1>1. quarter \in Nat /\ quarter <= budget
  OBVIOUS
<1>2. SessionDigest(cohort, budget) = IF first.stubs = {} THEN first ELSE second
  BY DEF SessionDigest, UnlessStubbed
<1>3. DigestFloor(cohort) = RenderIndex(cohort, NoLimit, TRUE) + (IF P = {} THEN 0 ELSE 1 + frame)
  BY DEF DigestFloor
<1> HIDE DEF quarter
<1>r. reduced = RenderIndex(cohort, NoLimit, TRUE)
  BY <1>1, IndexFits
<1>i. iq \in Int
  BY <1>1, IndexFits
<1>s. reduced \in Int
  BY <1>1, IndexFits
<1>4. iq <= quarter \/ iq <= reduced
  BY <1>1, <1>r, IndexFits
<1>5. frame \in Nat
  <2>1. P \in SUBSET DOMAIN episodes
    BY DEF Picked
  <2>2. IsFiniteSet(P)
    BY <2>1, FS_Subset DEF HandoverTypes
  <2> QED BY <2>2, FrameType
<1> HIDE DEF iq, reduced
<1>6. /\ first.len \in Int
      /\ P = {} => first.len = iq /\ first.stubs = {}
      /\ P # {} => \/ first.len <= budget \/ first.len = iq
                   \/ first.stubs = P /\ first.len = iq + (1 + frame)
  BY <1>i, BothParts
<1>7. /\ second.len \in Int
      /\ P = {} => second.len = reduced /\ second.stubs = {}
      /\ P # {} => \/ second.len <= budget \/ second.len = reduced
                   \/ second.stubs = P /\ second.len = reduced + (1 + frame)
  BY <1>s, BothParts
<1> HIDE DEF first, second, P, frame
<1> DEFINE extra == IF P = {} THEN 0 ELSE 1 + frame
<1>8. budget >= reduced + extra /\ extra \in Nat
  <2>1. extra \in Nat
    BY <1>5
  <2> HIDE DEF extra
  <2>2. DigestFloor(cohort) = reduced + extra
    BY <1>3, <1>r, Zenon DEF extra
  <2>3. budget >= DigestFloor(cohort)
    OBVIOUS
  <2>4. budget >= reduced + extra
    BY <2>2, <2>3, Zenon
  <2> QED BY <2>1, <2>4
<1> HIDE DEF extra
<1>9. reduced <= budget /\ iq <= budget
  <2>1. reduced <= budget
    BY <1>8, <1>s
  <2> QED BY <1>1, <1>4, <1>i, <1>s, <2>1
<1>10. CASE first.stubs = {}
  <2>1. first.len <= budget
    BY <1>6, <1>9, <1>10
  <2> QED BY <1>2, <1>10, <2>1
<1>11. CASE first.stubs # {}
  <2>1. P # {}
    BY <1>6, <1>11
  <2>2. second.len <= budget
    BY <1>5, <1>7, <1>8, <1>9, <1>s, <2>1 DEF extra
  <2> QED BY <1>2, <1>11, <2>2
<1> QED BY <1>10, <1>11

-----------------------------------------------------------------------------
(* The sessions move on until a digest is rendered; nothing moves after it. *)

OfKnown(d) == d # NoDigest => d.cohort \in SUBSET DOMAIN episodes /\ d.budget \in Nat

(* The same words for rows e, so that a step can be asked what it leaves.   *)
EndOf(e, s) == LET r == e[s] IN Max({r.started, r.ended, r.active})
LaterOf(e, s, o) == \/ EndOf(e, s) > EndOf(e, o)
                    \/ EndOf(e, s) = EndOf(e, o) /\ s > o
LatestOf(e, S) == CHOOSE s \in S : \A o \in S \ {s} : LaterOf(e, s, o)
CandidatesOf(e, before) ==
  LET all == {s \in DOMAIN e : e[s].started < before /\ e[s].work # NoWork}
  IN  {s \in all : Cardinality({o \in all : \/ e[o].started > e[s].started
                                            \/ e[o].started = e[s].started /\ o > s})
                     < CandidateLimit}

Tells(e, cohort, before) ==
  LET ended == {s \in CandidatesOf(e, before) : e[s].ended # Running}
  IN  ended # {} =>
        \/ LatestOf(e, ended) \in cohort
        \/ /\ Cardinality(cohort) = MaxCohort
           /\ \A s \in cohort : LaterOf(e, s, LatestOf(e, ended))

HandoverInv == HandoverTypes /\ OfKnown(digest) /\ DigestFits /\ EndedNotForgotten

LEMMA HandoverInvInit == HandoverInit => HandoverInv
<1> SUFFICES ASSUME HandoverInit PROVE HandoverInv
  OBVIOUS
<1>1. DOMAIN episodes = {} /\ digest = NoDigest /\ wall = 0
  BY DEF HandoverInit
<1>2. HandoverTypes
  <2>1. episodes \in [DOMAIN episodes -> Episodes]
    BY DEF HandoverInit
  <2> QED BY <1>1, <2>1, FS_EmptySet DEF HandoverTypes
<1> QED BY <1>1, <1>2 DEF HandoverInv, OfKnown, DigestFits, EndedNotForgotten

(* A step of the sessions keeps their rows rows.                            *)
LEMMA RowChanges ==
  ASSUME HandoverTypes, NEW e, wall' \in Nat,
         DOMAIN e \subseteq PriorSessions, IsFiniteSet(DOMAIN e), e \in [DOMAIN e -> Episodes],
         episodes' = e
  PROVE  HandoverTypes'
  BY DEF HandoverTypes

LEMMA SessionSteps ==
  ASSUME HandoverTypes, wall' \in Nat,
         \/ \E s \in PriorSessions : SessionStart(s)
         \/ \E s \in DOMAIN episodes : \/ \E work \in WorkShapes : SessionWork(s, work)
                                       \/ SessionEnd(s)
                                       \/ SessionReopen(s)
         \/ OrphanSweep
         \/ WallTick
  PROVE  HandoverTypes'
<1> DEFINE D == DOMAIN episodes
<1>1. /\ D \subseteq PriorSessions /\ IsFiniteSet(D) /\ wall \in Nat
      /\ \A s \in D : episodes[s] \in Episodes
      /\ episodes \in [D -> Episodes]
  BY DEF HandoverTypes
<1>2. NoWork \in Works /\ WorkShapes \subseteq Works
  BY HandoverAssumption
<1>3. ASSUME NEW s \in PriorSessions, SessionStart(s) PROVE HandoverTypes'
  <2> DEFINE new == [started |-> wall, ended |-> Running, active |-> wall, work |-> NoWork]
             e == [o \in D \cup {s} |-> IF o = s THEN new ELSE episodes[o]]
  <2>1. episodes' = e
    BY <1>3 DEF SessionStart
  <2>2. new \in Episodes
    BY <1>1, <1>2 DEF Episodes
  <2> HIDE DEF new
  <2>3. DOMAIN e = D \cup {s} /\ e \in [D \cup {s} -> Episodes]
    BY <1>1, <2>2
  <2>4. IsFiniteSet(D \cup {s})
    BY <1>1, FS_AddElement
  <2> HIDE DEF e, D
  <2> QED BY <1>1, <2>1, <2>3, <2>4, RowChanges
<1>4. ASSUME NEW s \in D, NEW r \in Episodes, episodes' = [episodes EXCEPT ![s] = r]
      PROVE  HandoverTypes'
  <2> DEFINE e == [episodes EXCEPT ![s] = r]
  <2>1. DOMAIN e = D /\ e \in [D -> Episodes]
    BY <1>1
  <2> HIDE DEF e
  <2> QED BY <1>1, <1>4, <2>1, RowChanges DEF e
<1>5. ASSUME NEW s \in D, NEW work \in WorkShapes, SessionWork(s, work) PROVE HandoverTypes'
  <2> DEFINE r == [episodes[s] EXCEPT !.work = work, !.active = wall]
  <2>1. episodes' = [episodes EXCEPT ![s] = r]
    BY <1>5 DEF SessionWork
  <2>2. r \in Episodes
    BY <1>1, <1>2 DEF Episodes
  <2> HIDE DEF r
  <2> QED BY <1>4, <2>1, <2>2
<1>6. ASSUME NEW s \in D, SessionEnd(s) PROVE HandoverTypes'
  <2> DEFINE r == [episodes[s] EXCEPT !.ended = wall]
  <2>1. episodes' = [episodes EXCEPT ![s] = r]
    BY <1>6 DEF SessionEnd
  <2>2. r \in Episodes
    BY <1>1 DEF Episodes
  <2> HIDE DEF r
  <2> QED BY <1>4, <2>1, <2>2
<1>7. ASSUME NEW s \in D, SessionReopen(s) PROVE HandoverTypes'
  <2> DEFINE r == [episodes[s] EXCEPT !.ended = Running, !.active = wall]
  <2>1. episodes' = [episodes EXCEPT ![s] = r]
    BY <1>7 DEF SessionReopen
  <2>2. r \in Episodes
    BY <1>1 DEF Episodes
  <2> HIDE DEF r
  <2> QED BY <1>4, <2>1, <2>2
<1>8. ASSUME OrphanSweep PROVE HandoverTypes'
  <2> DEFINE row(s) == IF episodes[s].ended = Running
                       THEN [episodes[s] EXCEPT !.ended = episodes[s].active] ELSE episodes[s]
             e == [s \in D |-> row(s)]
  <2>1. episodes' = e
    BY <1>8 DEF OrphanSweep
  <2>2. ASSUME NEW s \in D PROVE row(s) \in Episodes
    BY <1>1 DEF Episodes
  <2> HIDE DEF row
  <2>3. DOMAIN e = D /\ e \in [D -> Episodes]
    BY <2>2
  <2> HIDE DEF e
  <2> QED BY <1>1, <2>1, <2>3, RowChanges
<1>9. ASSUME WallTick PROVE HandoverTypes'
  <2>1. episodes' = episodes
    BY <1>9 DEF WallTick
  <2> HIDE DEF D
  <2> QED BY <2>1 DEF HandoverTypes
<1> QED BY <1>3, <1>5, <1>6, <1>7, <1>8, <1>9

LEMMA SameWords ==
  /\ \A before : Candidates(before) = CandidatesOf(episodes, before)
  /\ \A S : Latest(S) = LatestOf(episodes, S)
  /\ \A s, o : Later(s, o) <=> LaterOf(episodes, s, o)
<1>1. \A before : Candidates(before) = CandidatesOf(episodes, before)
  BY Zenon DEF Candidates, CandidatesOf
<1>2. \A s, o : Later(s, o) <=> LaterOf(episodes, s, o)
  BY Zenon DEF EffectiveEnd, EndOf, Later, LaterOf
<1>3. \A S : Latest(S) = LatestOf(episodes, S)
  BY Zenon DEF EffectiveEnd, EndOf, Later, LaterOf, Latest, LatestOf
<1> QED BY <1>1, <1>2, <1>3

LEMMA TellsIs ==
  EndedNotForgotten <=> (digest # NoDigest => Tells(episodes, digest.cohort, digest.before))
<1> DEFINE C == Candidates(digest.before)
           ended == {s \in C : episodes[s].ended # Running}
           B == \/ Latest(ended) \in digest.cohort
                \/ /\ Cardinality(digest.cohort) = MaxCohort
                   /\ \A s \in digest.cohort : Later(s, Latest(ended))
<1>1. EndedNotForgotten <=> (digest # NoDigest => (ended # {} => B))
  <2>1. EndedNotForgotten <=> (ended # {} /\ digest # NoDigest => B)
    BY Zenon DEF EndedNotForgotten
  <2> HIDE DEF ended, B
  <2> QED BY <2>1
<1>2. C = CandidatesOf(episodes, digest.before)
  BY SameWords, Zenon
<1> HIDE DEF C
<1>3. Tells(episodes, digest.cohort, digest.before) <=>
        (ended # {} => \/ LatestOf(episodes, ended) \in digest.cohort
                       \/ /\ Cardinality(digest.cohort) = MaxCohort
                          /\ \A s \in digest.cohort :
                               LaterOf(episodes, s, LatestOf(episodes, ended)))
  BY <1>2, Zenon DEF Tells
<1> HIDE DEF ended
<1>4. Tells(episodes, digest.cohort, digest.before) <=> (ended # {} => B)
  BY <1>3, SameWords, Zenon
<1> QED BY <1>1, <1>4, Zenon

LEMMA TellsIsNext ==
  (EndedNotForgotten <=> (digest # NoDigest => Tells(episodes, digest.cohort, digest.before)))'
  BY TellsIs, PTL

LEMMA CohortTells ==
  ASSUME HandoverTypes, NEW before
  PROVE  Tells(episodes, SelectCohort(before), before)
<1> DEFINE C == Candidates(before)
           ended == {s \in C : episodes[s].ended # Running}
           cohort == SelectCohort(before)
<1>1. ended # {} =>
        \/ Latest(ended) \in cohort
        \/ /\ Cardinality(cohort) = MaxCohort
           /\ \A s \in cohort : Later(s, Latest(ended))
  BY LastEndedTold
<1>2. C = CandidatesOf(episodes, before)
  BY SameWords, Zenon
<1> HIDE DEF C, cohort
<1>3. Tells(episodes, cohort, before) <=>
        (ended # {} => \/ LatestOf(episodes, ended) \in cohort
                       \/ /\ Cardinality(cohort) = MaxCohort
                          /\ \A s \in cohort : LaterOf(episodes, s, LatestOf(episodes, ended)))
  BY <1>2, Zenon DEF Tells
<1> HIDE DEF ended
<1>4. Tells(episodes, cohort, before)
  BY <1>1, <1>3, SameWords, Zenon
<1> QED BY <1>4 DEF cohort

(* What is rendered fits and tells of the session that ended last.          *)
LEMMA RenderKeeps ==
  ASSUME HandoverTypes, NEW before, NEW budget \in DigestBudgets, RenderSessionDigest(before, budget)
  PROVE  HandoverInv'
<1> DEFINE cohort == SelectCohort(before)
           out == SessionDigest(cohort, budget)
<1>1. /\ digest' = [budget |-> budget, len |-> out.len, floor |-> DigestFloor(cohort),
                    cohort |-> cohort, stubs |-> out.stubs, before |-> before]
      /\ episodes' = episodes /\ wall' = wall
  BY DEF RenderSessionDigest
<1>2. cohort \in SUBSET DOMAIN episodes
  BY CohortKnown
<1>3. budget \in Nat
  BY HandoverAssumption
<1>4. budget > 0 /\ budget >= DigestFloor(cohort) => out.len <= budget
  BY <1>2, <1>3, DigestKeeps
<1>5. Tells(episodes, cohort, before)
  BY CohortTells
<1> HIDE DEF cohort, out
<1>6. /\ digest'.budget = budget /\ digest'.len = out.len /\ digest'.floor = DigestFloor(cohort)
      /\ digest'.cohort = cohort /\ digest'.before = before
  BY <1>1
<1>7. HandoverTypes'
  BY <1>1 DEF HandoverTypes
<1>8. OfKnown(digest)'
  BY <1>1, <1>2, <1>3, <1>6 DEF OfKnown
<1>9. DigestFits'
  BY <1>4, <1>6 DEF DigestFits
<1>10. EndedNotForgotten'
  BY <1>1, <1>5, <1>6, TellsIsNext
<1> QED BY <1>7, <1>8, <1>9, <1>10 DEF HandoverInv

LEMMA HandoverInvNext == HandoverInv /\ [HandoverNext]_handoverVars => HandoverInv'
<1> SUFFICES ASSUME HandoverInv, [HandoverNext]_handoverVars PROVE HandoverInv'
  OBVIOUS
<1>1. HandoverTypes
  BY DEF HandoverInv
<1>2. CASE UNCHANGED handoverVars
  <2>1. wall' = wall /\ episodes' = episodes /\ digest' = digest
    BY <1>2 DEF handoverVars
  <2>2. HandoverTypes' /\ OfKnown(digest)'
    BY <2>1 DEF HandoverInv, HandoverTypes, OfKnown
  <2>3. DigestFits'
    BY <2>1 DEF HandoverInv, DigestFits
  <2>4. EndedNotForgotten'
    BY <2>1, TellsIs, TellsIsNext DEF HandoverInv
  <2> QED BY <2>2, <2>3, <2>4 DEF HandoverInv
<1>3. ASSUME NEW before, NEW budget \in DigestBudgets, RenderSessionDigest(before, budget)
      PROVE  HandoverInv'
  BY <1>1, <1>3, RenderKeeps
<1>4. CASE /\ digest = NoDigest
           /\ \/ \E s \in PriorSessions : SessionStart(s)
              \/ \E s \in DOMAIN episodes : \/ \E work \in WorkShapes : SessionWork(s, work)
                                            \/ SessionEnd(s)
                                            \/ SessionReopen(s)
              \/ OrphanSweep
              \/ WallTick
  <2>1. digest' = NoDigest /\ (wall' = wall \/ wall' = wall + 1)
    BY <1>4 DEF SessionStart, SessionWork, SessionEnd, SessionReopen, OrphanSweep, WallTick
  <2>2. wall' \in Nat
    BY <1>1, <2>1 DEF HandoverTypes
  <2>3. HandoverTypes'
    BY <1>1, <1>4, <2>2, SessionSteps
  <2> QED BY <2>1, <2>3 DEF HandoverInv, OfKnown, DigestFits, EndedNotForgotten, NoDigest
<1> QED BY <1>2, <1>3, <1>4 DEF HandoverNext

(* The digest of a new session keeps to its budget when the most reduced    *)
(* digest does, tells of the session that ended last unless later ones fill *)
(* it, and shares what is left evenly between the messages                  *)
(* (session_digest_service.py: render_session_digest).                      *)
THEOREM HandoverStaysTold == HandoverSpec => []HandoverTold
<1>1. HandoverInv => HandoverTold
  <2> SUFFICES ASSUME HandoverInv PROVE HandoverTold
    OBVIOUS
  <2>1. WaterLevel
    BY LevelHolds DEF HandoverInv, OfKnown
  <2> QED BY <2>1 DEF HandoverInv, HandoverTold
<1> QED BY <1>1, HandoverInvInit, HandoverInvNext, PTL DEF HandoverSpec

=============================================================================
