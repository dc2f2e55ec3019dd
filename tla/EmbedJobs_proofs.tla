--------------------------- MODULE EmbedJobs_proofs ---------------------------
(***************************************************************************)
(* Durable embedding work, for any memories, texts, retry budget, tasks    *)
(* and capacity.  WorkInv is JobsBounded with what a task and a claim hold *)
(* in their hands: a busy task has a snapshot, or its answer would go to   *)
(* no row.  DataInv is VectorsAgree with two facts that make it inductive: *)
(* a memory that is not stored yet has neither rows nor vectors, so a late *)
(* persist cannot meet it; and what a running scan has behind it has no    *)
(* gap, so that its end leaves none.                                       *)
(***************************************************************************)
EXTENDS EmbedJobs, FiniteSetTheorems, TLAPS

RowType == [state : RowStates, tries : Nat, due : BOOLEAN, lease : {"none", "live", "expired"}]

RowOK(r) ==
  /\ r \in RowType
  /\ r.lease = "none" <=> r.state # "running"
  /\ r.tries <= MaxAttempts
  /\ Waits(r) => r.tries < MaxAttempts

Table(jobs) == jobs \in [Keys -> RowType] /\ \A k \in Keys : RowOK(jobs[k])

Busy == {t \in Tasks : tpc[t] # "free"}

ProcessTypes ==
  /\ vecAvailable \in BOOLEAN /\ up \in BOOLEAN /\ draining \in BOOLEAN
  /\ starts \in 0..MaxStarts /\ edits \in 0..MaxEdits

MemoryTypes ==
  /\ status \in [Entities -> {"absent", "active", "archived"}]
  /\ emb \in [Entities -> {"none", "pending", "ready", "archived"}]
  /\ text \in [Entities -> Texts \cup {NoText}]
  /\ vec \in [Entities -> SUBSET Sources]

ScanTypes ==
  /\ rpc \in {"off", "canary", "scan", "done", "failed"}
  /\ scan \subseteq Entities \X {"base", "retrieval"}

WorkerTypes ==
  /\ spc \in {"idle", "claim", "dispatch"} /\ snap \in Keys \cup {NoKey}
  /\ permits \in Nat
  /\ tpc \in [Tasks -> {"free", "queued", "infer", "persist", "retry"}]
  /\ tkey \in [Tasks -> Keys \cup {NoKey}]

InHand ==
  /\ spc = "dispatch" => snap \in Keys
  /\ \A t \in Tasks : tpc[t] # "free" => tkey[t] \in Keys

WorkersOK == WorkerTypes /\ InHand /\ PermitsExact

WorkInv == ProcessTypes /\ MemoryTypes /\ ScanTypes /\ Table(job) /\ WorkersOK

NotStoredIsBlank ==
  \A e \in Entities : status[e] = "absent" =>
    /\ vec[e] = {} /\ emb[e] # "ready"
    /\ \A s \in Sources : job[<<e, s>>] = NoRow

BehindScan ==
  rpc = "scan" =>
    \A e \in Entities : status[e] = "active" =>
      /\ <<e, "base">> \notin scan => \A s \in Base : job[<<e, s>>] # NoRow
      /\ <<e, "retrieval">> \notin scan => text[e] = NoText \/ job[<<e, text[e]>>] # NoRow

DataInv ==
  /\ ArchivedHasNoVector /\ SearchableIffDone /\ ReadyHasVector /\ RecoveryLeavesNoGap
  /\ NotStoredIsBlank /\ BehindScan

EmbedInv == WorkInv /\ DataInv

-----------------------------------------------------------------------------
(* Rows                                                                     *)

(* The invariant is the promise.                                            *)
LEMMA EmbedInvSound == EmbedInv => JobsBounded /\ VectorsAgree
<1> SUFFICES ASSUME EmbedInv PROVE JobsBounded /\ VectorsAgree
  OBVIOUS
<1>1. Table(job) /\ job \in [Keys -> RowType]
  BY DEF EmbedInv, WorkInv, Table, RowOK
<1>2. AttemptsBounded
  BY <1>1 DEF Table, RowOK, AttemptsBounded
<1>3. EmbedTypeOK
  BY <1>1 DEF EmbedInv, WorkInv, ProcessTypes, MemoryTypes, ScanTypes, WorkersOK, WorkerTypes,
     EmbedTypeOK, Table, RowOK, RowType
<1> QED BY <1>2, <1>3 DEF EmbedInv, WorkInv, DataInv, WorkersOK, JobsBounded, VectorsAgree

(* A fresh row has every attempt left.                                      *)
LEMMA FreshRow == RowOK(QueuedRow) /\ RowOK(NoRow) /\ QueuedRow.state = "queued" /\ NoRow.state = "absent"
BY EmbedAssumption DEF QueuedRow, NoRow, Row, RowOK, RowType, RowStates, Waits

(* Ending a row takes its lease away.                                       *)
LEMMA EndedRow ==
  ASSUME NEW r, RowOK(r), NEW st \in {"succeeded", "failed", "cancelled"}
  PROVE  RowOK(Ended(r, st)) /\ Ended(r, st).state = st
<1>1. Ended(r, st) \in RowType
  BY DEF Ended, RowOK, RowType, RowStates
<1> QED BY <1>1 DEF Ended, RowOK, RowType, Waits

(* A row that waits again is only written while an attempt is left.         *)
LEMMA WaitingRow ==
  ASSUME NEW r, RowOK(r), NEW d \in BOOLEAN, ~(r.tries >= MaxAttempts)
  PROVE  RowOK(Row("retry_wait", r.tries, d, "none"))
BY EmbedAssumption DEF Row, RowOK, RowType, RowStates, Waits

(* Taking a row back from a lost worker keeps it within its attempts        *)
(* (_claim_embedding_job).                                                  *)
LEMMA ReclaimedRow ==
  ASSUME NEW r, RowOK(r)
  PROVE  RowOK(Reclaim(r)) /\ Reclaim(r).state \in {"failed", "retry_wait"}
<1>1. CASE r.tries >= MaxAttempts
  BY <1>1, EndedRow DEF Reclaim
<1>2. CASE ~(r.tries >= MaxAttempts)
  <2>1. RowOK(Row("retry_wait", r.tries, TRUE, "none"))
    BY <1>2, WaitingRow
  <2> QED BY <1>2, <2>1 DEF Reclaim, Row
<1> QED BY <1>1, <1>2

(* A claim uses the attempt that a waiting row had left.                    *)
LEMMA ClaimedRow ==
  ASSUME NEW r, RowOK(r), Waits(r)
  PROVE  RowOK(Row("running", r.tries + 1, TRUE, "live"))
BY EmbedAssumption DEF Row, RowOK, RowType, RowStates, Waits

(* What a step that writes no vector may do to a row.                       *)
Quiet(r, s) ==
  \/ s = r
  \/ r.state \notin {"absent", "succeeded"} /\ s.state \notin {"absent", "succeeded"}

(* The rows after the first UPDATE of a claim.                              *)
LEMMA ExpiredTable ==
  ASSUME NEW jobs, Table(jobs), NEW of
  PROVE  /\ Table(ExpireLeases(of, jobs))
         /\ \A k \in Keys : Quiet(jobs[k], ExpireLeases(of, jobs)[k])
<1>1. ASSUME NEW k \in Keys
      PROVE  RowOK(ExpireLeases(of, jobs)[k]) /\ Quiet(jobs[k], ExpireLeases(of, jobs)[k])
  <2>1. RowOK(Reclaim(jobs[k])) /\ Reclaim(jobs[k]).state \in {"failed", "retry_wait"}
    BY ReclaimedRow DEF Table
  <2> QED BY <2>1 DEF Table, ExpireLeases, Quiet, LeaseLost
<1> QED BY <1>1 DEF Table, ExpireLeases, RowOK

(* The rows after a claim.                                                  *)
LEMMA ClaimedTable ==
  ASSUME NEW jobs, Table(jobs), NEW k \in Keys, Claimable(k, jobs)
  PROVE  /\ Table(Claimed(k, jobs))
         /\ \A l \in Keys : Quiet(jobs[l], Claimed(k, jobs)[l])
<1>1. Waits(jobs[k])
  BY DEF Claimable
<1>2. RowOK(Row("running", jobs[k].tries + 1, TRUE, "live"))
  BY <1>1, ClaimedRow DEF Table
<1>3. Claimed(k, jobs) = [l \in Keys |-> IF l = k THEN Row("running", jobs[k].tries + 1, TRUE, "live")
                                         ELSE jobs[l]]
  BY DEF Claimed, Table
<1> QED BY <1>1, <1>2, <1>3 DEF Table, Quiet, Waits, Row, RowOK

(* Two quiet changes are one.                                               *)
LEMMA QuietTwice ==
  ASSUME NEW r, NEW s, NEW u, Quiet(r, s), Quiet(s, u)
  PROVE  Quiet(r, u)
BY DEF Quiet

(* One row of the table is replaced.                                        *)
LEMMA OneRow ==
  ASSUME NEW jobs, Table(jobs), NEW k \in Keys, NEW r, RowOK(r)
  PROVE  Table([jobs EXCEPT ![k] = r])
BY DEF Table, RowOK

(* Queueing the work of a memory leaves a table.                            *)
LEMMA QueuedTables ==
  ASSUME NEW jobs, Table(jobs), NEW e, NEW x
  PROVE  Table(EnqueueBase(e, jobs)) /\ Table(EnqueueRetrieval(e, x, jobs))
<1>1. ASSUME NEW k \in Keys
      PROVE  RowOK(EnqueueBase(e, jobs)[k]) /\ RowOK(EnqueueRetrieval(e, x, jobs)[k])
  <2>1. RowOK(jobs[k]) /\ RowOK(Ended(jobs[k], "cancelled")) /\ RowOK(QueuedRow)
    BY EndedRow, FreshRow DEF Table
  <2> QED BY <2>1 DEF EnqueueBase, EnqueueRetrieval
<1> QED BY <1>1 DEF Table, EnqueueBase, EnqueueRetrieval, RowOK

-----------------------------------------------------------------------------
(* Permits                                                                  *)

(* The busy tasks can be counted.                                           *)
LEMMA BusyFinite == IsFiniteSet(Busy) /\ Cardinality(Busy) \in Nat
<1>1. Busy \in SUBSET Tasks
  BY DEF Busy
<1>2. IsFiniteSet(Busy)
  BY <1>1, EmbedAssumption, FS_Subset
<1> QED BY <1>2, FS_CardinalityType

(* A task that takes up a claim is one more, one that ends is one less.     *)
LEMMA TaskMoves ==
  ASSUME WorkerTypes, NEW t \in Tasks,
         NEW at \in {"free", "queued", "infer", "persist", "retry"}, NEW k \in Keys \cup {NoKey},
         SetTask(t, at, k)
  PROVE  /\ tpc' \in [Tasks -> {"free", "queued", "infer", "persist", "retry"}]
         /\ tkey' \in [Tasks -> Keys \cup {NoKey}]
         /\ \A u \in Tasks : tpc'[u] = (IF u = t THEN at ELSE tpc[u])
                          /\ tkey'[u] = (IF u = t THEN k ELSE tkey[u])
         /\ tpc[t] # "free" /\ at # "free" => Cardinality(Busy') = Cardinality(Busy)
         /\ tpc[t] # "free" /\ at = "free" => Cardinality(Busy') = Cardinality(Busy) - 1
         /\ tpc[t] = "free" /\ at # "free" => Cardinality(Busy') = Cardinality(Busy) + 1
<1>1. /\ tpc' \in [Tasks -> {"free", "queued", "infer", "persist", "retry"}]
      /\ tkey' \in [Tasks -> Keys \cup {NoKey}]
      /\ \A u \in Tasks : tpc'[u] = (IF u = t THEN at ELSE tpc[u])
                       /\ tkey'[u] = (IF u = t THEN k ELSE tkey[u])
  BY DEF WorkerTypes, SetTask
<1>2. ASSUME tpc[t] # "free", at # "free"
      PROVE  Cardinality(Busy') = Cardinality(Busy)
  <2>1. Busy' = Busy
    BY <1>1, <1>2 DEF Busy
  <2> QED BY <2>1
<1>3. ASSUME tpc[t] # "free", at = "free"
      PROVE  Cardinality(Busy') = Cardinality(Busy) - 1
  <2>1. Busy' = Busy \ {t} /\ t \in Busy
    BY <1>1, <1>3 DEF Busy
  <2>2. Cardinality(Busy \ {t}) = Cardinality(Busy) - 1
    BY <2>1, BusyFinite, FS_RemoveElement, Zenon
  <2> QED BY <2>1, <2>2
<1>4. ASSUME tpc[t] = "free", at # "free"
      PROVE  Cardinality(Busy') = Cardinality(Busy) + 1
  <2>1. Busy' = Busy \cup {t} /\ t \notin Busy
    BY <1>1, <1>4 DEF Busy
  <2>2. Cardinality(Busy \cup {t}) = Cardinality(Busy) + 1
    BY <2>1, BusyFinite, FS_AddElement, Zenon
  <2> QED BY <2>1, <2>2
<1> QED BY <1>1, <1>2, <1>3, <1>4

(* A task that goes on keeps its permit and its snapshot.                   *)
LEMMA TaskGoesOn ==
  ASSUME WorkersOK, NEW t \in Tasks, tpc[t] # "free", NEW at \in {"infer", "persist", "retry"},
         SetTask(t, at, tkey[t]), UNCHANGED <<spc, snap, permits>>
  PROVE  WorkersOK'
<1>1. WorkerTypes /\ tkey[t] \in Keys
  BY DEF WorkersOK, InHand
<1>2. /\ tpc' \in [Tasks -> {"free", "queued", "infer", "persist", "retry"}]
      /\ tkey' \in [Tasks -> Keys \cup {NoKey}]
      /\ \A u \in Tasks : tpc'[u] = (IF u = t THEN at ELSE tpc[u])
                       /\ tkey'[u] = (IF u = t THEN tkey[t] ELSE tkey[u])
      /\ Cardinality(Busy') = Cardinality(Busy)
  BY <1>1, TaskMoves
<1> QED BY <1>1, <1>2 DEF WorkersOK, WorkerTypes, InHand, PermitsExact, Held, Busy

(* A task that ends gives its permit back, once.                            *)
LEMMA TaskEnds ==
  ASSUME WorkersOK, NEW t \in Tasks, tpc[t] # "free", EndTask(t), UNCHANGED <<spc, snap>>
  PROVE  WorkersOK'
<1>1. WorkerTypes /\ SetTask(t, "free", NoKey) /\ permits' = permits + 1
  BY DEF WorkersOK, EndTask
<1>2. /\ tpc' \in [Tasks -> {"free", "queued", "infer", "persist", "retry"}]
      /\ tkey' \in [Tasks -> Keys \cup {NoKey}]
      /\ \A u \in Tasks : tpc'[u] = (IF u = t THEN "free" ELSE tpc[u])
                       /\ tkey'[u] = (IF u = t THEN NoKey ELSE tkey[u])
      /\ Cardinality(Busy') = Cardinality(Busy) - 1
  BY <1>1, TaskMoves
<1>3. WorkerTypes' /\ InHand'
  BY <1>1, <1>2 DEF WorkersOK, WorkerTypes, InHand
<1>4. PermitsExact'
  BY <1>1, <1>2, BusyFinite, EmbedAssumption DEF WorkersOK, WorkerTypes, PermitsExact, Held, Busy
<1> QED BY <1>3, <1>4 DEF WorkersOK

(* A failed task ends or goes on to record its failure (_mark_failure).     *)
LEMMA TaskMarked ==
  ASSUME WorkersOK, NEW t \in Tasks, tpc[t] # "free", MarkFailure(t), UNCHANGED <<spc, snap>>
  PROVE  WorkersOK'
BY TaskEnds, TaskGoesOn DEF MarkFailure

(* A scheduler step that moves no task: its permit is out of the semaphore  *)
(* from _capacity.acquire until the claim ends or a task has it.            *)
LEMMA SchedulerMoves ==
  ASSUME WorkersOK, UNCHANGED <<tpc, tkey>>,
         spc' \in {"idle", "claim", "dispatch"}, snap' \in Keys \cup {NoKey},
         spc' = "dispatch" => snap' \in Keys,
         permits' \in Nat,
         \/ permits' = permits /\ (spc = "idle" <=> spc' = "idle")
         \/ permits' = permits - 1 /\ spc = "idle" /\ spc' # "idle"
         \/ permits' = permits + 1 /\ spc # "idle" /\ spc' = "idle"
  PROVE  WorkersOK'
<1>1. WorkerTypes' /\ InHand'
  BY DEF WorkersOK, WorkerTypes, InHand
<1>2. Busy' = Busy
  BY DEF Busy
<1>3. Cardinality(Busy') = Cardinality(Busy)
  BY <1>2
<1>4. PermitsExact'
  BY <1>3, BusyFinite, EmbedAssumption DEF WorkersOK, WorkerTypes, PermitsExact, Held, Busy
<1> QED BY <1>1, <1>4 DEF WorkersOK

(* A process that ended holds nothing.                                      *)
LEMMA WorkersGone == NoWorkers => WorkersOK'
<1> SUFFICES ASSUME NoWorkers PROVE WorkersOK'
  OBVIOUS
<1>1. Busy' = {}
  BY DEF NoWorkers, Busy
<1>2. Cardinality({}) = 0
  BY FS_EmptySet
<1>3. PermitsExact'
  BY <1>1, <1>2, EmbedAssumption DEF NoWorkers, PermitsExact, Held, Busy
<1> QED BY <1>3, EmbedAssumption DEF NoWorkers, WorkersOK, WorkerTypes, InHand

(* Shutdown gives back the permit of every task that no thread took yet     *)
(* (EmbedJobScheduler.stop).                                                *)
LEMMA CancelledGiveBack == WorkersOK /\ BeginDraining => WorkersOK'
<1> SUFFICES ASSUME WorkersOK, BeginDraining PROVE WorkersOK'
  OBVIOUS
<1> DEFINE cancelled == {t \in Tasks : tpc[t] = "queued"}
<1>1. /\ tpc' = [t \in Tasks |-> IF t \in cancelled THEN "free" ELSE tpc[t]]
      /\ tkey' = [t \in Tasks |-> IF t \in cancelled THEN NoKey ELSE tkey[t]]
      /\ permits' = permits + Cardinality(cancelled) /\ UNCHANGED <<spc, snap>>
  BY DEF BeginDraining
<1>2. WorkerTypes
  BY DEF WorkersOK
<1>3. Busy' = Busy \ cancelled /\ cancelled \subseteq Busy
  BY <1>1 DEF Busy
<1> HIDE DEF cancelled
<1>4. /\ Cardinality(cancelled) \in Nat
      /\ Cardinality(Busy \ cancelled) = Cardinality(Busy) - Cardinality(Busy \cap cancelled)
  <2>1. IsFiniteSet(cancelled)
    BY <1>3, BusyFinite, FS_Subset
  <2> QED BY <2>1, BusyFinite, FS_CardinalityType, FS_Difference, Zenon
<1>5. Busy \cap cancelled = cancelled
  BY <1>3
<1>6. Cardinality(Busy') + Cardinality(cancelled) = Cardinality(Busy)
  BY <1>3, <1>4, <1>5, BusyFinite
<1>7. permits' \in Nat
  BY <1>1, <1>2, <1>4 DEF WorkerTypes
<1>8. Cardinality(Busy') \in Nat
  BY <1>3, <1>4, <1>6, BusyFinite, FS_Difference, FS_CardinalityType
<1>9. PermitsExact'
  BY <1>1, <1>2, <1>4, <1>6, <1>8, BusyFinite, EmbedAssumption
     DEF WorkersOK, WorkerTypes, PermitsExact, Held, Busy
<1>10. WorkerTypes' /\ InHand'
  BY <1>1, <1>2, <1>7 DEF WorkersOK, WorkerTypes, InHand
<1> QED BY <1>9, <1>10 DEF WorkersOK

-----------------------------------------------------------------------------
(* Every step keeps the types, the attempts and the permits                 *)

(* The processes and the recovery thread.                                   *)
LEMMA ProcessKeepsWork ==
  WorkInv /\ (StartDaemon \/ ProcessEnds \/ BeginDraining \/ Canary \/ ScanEnds \/ Backfill
              \/ RecoveryFails) => WorkInv'
<1> SUFFICES ASSUME WorkInv,
                    StartDaemon \/ ProcessEnds \/ BeginDraining \/ Canary \/ ScanEnds \/ Backfill
                      \/ RecoveryFails
             PROVE  WorkInv'
  OBVIOUS
<1> USE DEF WorkInv, ProcessTypes, MemoryTypes, ScanTypes
<1>0. UNCHANGED workers => WorkersOK'
  BY DEF workers, WorkersOK, WorkerTypes, InHand, PermitsExact, Held
<1>1. CASE StartDaemon
  BY <1>0, <1>1, EmbedAssumption DEF StartDaemon, memory, rows
<1>2. CASE ProcessEnds
  BY <1>2, WorkersGone DEF ProcessEnds, memory, rows
<1>3. CASE BeginDraining
  <2>1. WorkersOK'
    BY <1>3, CancelledGiveBack
  <2> QED BY <1>3, <2>1 DEF BeginDraining, memory, rows, recovery
<1>4. CASE Canary
  BY <1>0, <1>4 DEF Canary, process, memory, rows
<1>5. CASE ScanEnds
  BY <1>0, <1>5 DEF ScanEnds, process, memory, rows
<1>6. CASE Backfill
  BY <1>0, <1>6 DEF Backfill, process, memory, rows
<1>7. CASE RecoveryFails
  BY <1>0, <1>7 DEF RecoveryFails, process, memory, rows
<1> QED BY <1>1, <1>2, <1>3, <1>4, <1>5, <1>6, <1>7

(* The tool calls, the pages of a scan, and time.                           *)
LEMMA RowsKeepWork ==
  ASSUME WorkInv, NEW e \in Entities, NEW x \in Texts \cup {NoText}, NEW k \in Keys,
         \/ Store(e, x) \/ SetRetrievalText(e, x) \/ Archive(e) \/ ReconcilePage(e)
         \/ LeaseExpires(k) \/ RetryDue(k)
  PROVE  WorkInv'
<1> USE DEF WorkInv, ProcessTypes, MemoryTypes, ScanTypes
<1>0. UNCHANGED workers => WorkersOK'
  BY DEF workers, WorkersOK, WorkerTypes, InHand, PermitsExact, Held
<1>1. CASE Store(e, x)
  <2>1. Table(job')
    BY <1>1, QueuedTables DEF Store
  <2> QED BY <1>0, <1>1, <2>1 DEF Store, process, recovery
<1>2. CASE SetRetrievalText(e, x)
  <2>1. Table(job')
    BY <1>2, QueuedTables DEF SetRetrievalText
  <2> QED BY <1>0, <1>2, <2>1, EmbedAssumption DEF SetRetrievalText, process, recovery
<1>3. CASE Archive(e)
  <2>1. \A l \in Keys : RowOK(job[l]) /\ RowOK(Ended(job[l], "cancelled"))
    BY EndedRow DEF Table
  <2>2. Table(job')
    BY <1>3, <2>1 DEF Archive, Table, RowOK
  <2> QED BY <1>0, <1>3, <2>2 DEF Archive, process, recovery
<1>4. CASE ReconcilePage(e)
  <2>0. \A l \in Keys : RowOK(job[l]) /\ RowOK(Ended(job[l], "cancelled")) /\ RowOK(QueuedRow)
    BY EndedRow, FreshRow DEF Table
  <2>1. CASE ReconcileBase(e)
    <3> DEFINE missing == {s \in Base : job[<<e, s>>] = NoRow}
    <3>1. \/ job' = [l \in Keys |-> IF l[1] = e /\ l[2] \in missing THEN QueuedRow ELSE job[l]]
          \/ job' = job
      BY <2>1 DEF ReconcileBase
    <3> HIDE DEF missing
    <3>2. Table(job')
      BY <2>0, <3>1 DEF Table, RowOK
    <3> QED BY <1>0, <1>4, <2>1, <3>2 DEF ReconcilePage, ReconcileBase, process, memory
  <2>2. CASE ReconcileRetrieval(e)
    <3>1. Table(job')
      <4>1. CASE status[e] = "active" /\ text[e] # NoText
        <5>1. \A l \in Keys : RowOK(job'[l])
          BY <2>0, <2>2, <4>1 DEF ReconcileRetrieval
        <5> QED BY <2>2, <4>1, <5>1 DEF ReconcileRetrieval, Table, RowOK
      <4>2. CASE ~(status[e] = "active" /\ text[e] # NoText)
        BY <2>2, <4>2 DEF ReconcileRetrieval
      <4> QED BY <4>1, <4>2
    <3> QED BY <1>0, <1>4, <2>2, <3>1 DEF ReconcilePage, ReconcileRetrieval, process, memory
  <2> QED BY <1>4, <2>1, <2>2 DEF ReconcilePage
<1>5. CASE LeaseExpires(k)
  <2>1. RowOK([job[k] EXCEPT !.lease = "expired"])
    BY <1>5 DEF LeaseExpires, Table, RowOK, RowType, Waits
  <2>2. Table(job')
    BY <1>5, <2>1, OneRow DEF LeaseExpires
  <2> QED BY <1>0, <1>5, <2>2 DEF LeaseExpires, process, memory, recovery
<1>6. CASE RetryDue(k)
  <2>1. RowOK([job[k] EXCEPT !.due = TRUE])
    BY <1>6 DEF RetryDue, Table, RowOK, RowType, Waits
  <2>2. Table(job')
    BY <1>6, <2>1, OneRow DEF RetryDue
  <2> QED BY <1>0, <1>6, <2>2 DEF RetryDue, process, memory, recovery
<1> QED BY <1>1, <1>2, <1>3, <1>4, <1>5, <1>6

(* What a claim does to the rows: lost leases are taken back, and at most   *)
(* one waiting row is handed out.                                           *)
LEMMA ClaimRows ==
  ASSUME WorkInv, Claim
  PROVE  /\ Table(job') /\ \A k \in Keys : Quiet(job[k], job'[k])
         /\ snap' \in Keys \cup {NoKey}
<1> DEFINE base == ExpireLeases(Base, job)
           all == ExpireLeases(Texts, base)
<1>1. Table(base) /\ \A k \in Keys : Quiet(job[k], base[k])
  BY ExpiredTable DEF WorkInv
<1>2. Table(all) /\ \A k \in Keys : Quiet(base[k], all[k])
  BY <1>1, ExpiredTable
<1>3. \A k \in Keys : Quiet(job[k], all[k])
  BY <1>1, <1>2, QuietTwice
<1>4. \/ \E k \in Entities \X Base : Claimable(k, base) /\ job' = Claimed(k, base) /\ snap' = k
      \/ \E k \in Entities \X Texts : Claimable(k, all) /\ job' = Claimed(k, all) /\ snap' = k
      \/ job' = all /\ snap' = NoKey
  BY DEF Claim
<1>5. \A e \in Entities : \A s \in Base \cup Texts : <<e, s>> \in Keys
  BY DEF Keys, Sources
<1> HIDE DEF base, all
<1>6. CASE \E k \in Entities \X Base : Claimable(k, base) /\ job' = Claimed(k, base) /\ snap' = k
  <2>1. PICK k \in Entities \X Base : Claimable(k, base) /\ job' = Claimed(k, base) /\ snap' = k
    BY <1>6
  <2>2. k \in Keys
    BY <1>5
  <2>3. Table(job') /\ \A l \in Keys : Quiet(base[l], job'[l])
    BY <1>1, <2>1, <2>2, ClaimedTable
  <2> QED BY <1>1, <2>1, <2>2, <2>3, QuietTwice
<1>7. CASE \E k \in Entities \X Texts : Claimable(k, all) /\ job' = Claimed(k, all) /\ snap' = k
  <2>1. PICK k \in Entities \X Texts : Claimable(k, all) /\ job' = Claimed(k, all) /\ snap' = k
    BY <1>7
  <2>2. k \in Keys
    BY <1>5
  <2>3. Table(job') /\ \A l \in Keys : Quiet(all[l], job'[l])
    BY <1>2, <2>1, <2>2, ClaimedTable
  <2> QED BY <1>3, <2>1, <2>2, <2>3, QuietTwice
<1>8. CASE job' = all /\ snap' = NoKey
  BY <1>2, <1>3, <1>8
<1> QED BY <1>4, <1>6, <1>7, <1>8

(* The scheduler thread (_run_iteration).                                   *)
LEMMA SchedulerKeepsWork == WorkInv /\ (AcquirePermit \/ Claim \/ ClaimFails) => WorkInv'
<1> SUFFICES ASSUME WorkInv, AcquirePermit \/ Claim \/ ClaimFails PROVE WorkInv'
  OBVIOUS
<1>0. WorkersOK /\ WorkerTypes /\ InHand
  BY DEF WorkInv, WorkersOK
<1>1. CASE AcquirePermit
  <2>1. WorkersOK'
    BY <1>0, <1>1, SchedulerMoves DEF AcquirePermit, WorkerTypes, InHand
  <2> QED BY <1>1, <2>1 DEF AcquirePermit, WorkInv, ProcessTypes, MemoryTypes, ScanTypes, process,
             memory, rows, recovery
<1>2. CASE Claim
  <2>1. Table(job') /\ snap' \in Keys \cup {NoKey}
    BY <1>2, ClaimRows
  <2>2. WorkersOK'
    BY <1>0, <1>2, <2>1, SchedulerMoves DEF Claim, WorkerTypes
  <2> QED BY <1>2, <2>1, <2>2 DEF Claim, WorkInv, ProcessTypes, MemoryTypes, ScanTypes, process,
             memory, recovery
<1>3. CASE ClaimFails
  <2>1. WorkersOK'
    BY <1>0, <1>3, SchedulerMoves DEF ClaimFails, WorkerTypes, InHand
  <2> QED BY <1>3, <2>1 DEF ClaimFails, WorkInv, ProcessTypes, MemoryTypes, ScanTypes, process,
             memory, rows, recovery
<1> QED BY <1>1, <1>2, <1>3

(* The row that a finished task writes.                                     *)
LEMMA VectorRow ==
  ASSUME WorkInv, NEW k \in Keys, WriteVector(k), UNCHANGED <<status, text>>
  PROVE  Table(job') /\ MemoryTypes'
<1>1. RowOK(Ended(job[k], "succeeded"))
  BY EndedRow DEF WorkInv, Table
<1>2. Table(job')
  BY <1>1, OneRow DEF WorkInv, WriteVector
<1>3. k[1] \in Entities /\ k[2] \in Sources
  BY DEF Keys
<1>4. vec' \in [Entities -> SUBSET Sources]
  BY <1>3 DEF WorkInv, MemoryTypes, WriteVector, Sources
<1>5. emb' \in [Entities -> {"none", "pending", "ready", "archived"}]
  BY <1>3 DEF WorkInv, MemoryTypes, WriteVector
<1> QED BY <1>2, <1>4, <1>5 DEF WorkInv, MemoryTypes

(* The row after _retry_embedding_job.                                      *)
LEMMA RetriedRow ==
  ASSUME WorkInv, NEW t \in Tasks, Retry(t)
  PROVE  Table(job') /\ \A k \in Keys : Quiet(job[k], job'[k])
<1>1. tkey[t] \in Keys /\ Table(job)
  BY DEF WorkInv, WorkersOK, InHand, Retry
<1> DEFINE r == job[tkey[t]]
           s == IF r.tries >= MaxAttempts THEN Ended(r, "failed")
                ELSE Row("retry_wait", r.tries, FALSE, "none")
<1>2. RowOK(s) /\ s.state \in {"failed", "retry_wait"}
  <2>0. RowOK(r)
    BY <1>1 DEF Table
  <2>1. CASE r.tries >= MaxAttempts
    BY <2>0, <2>1, EndedRow
  <2>2. CASE ~(r.tries >= MaxAttempts)
    <3>1. RowOK(Row("retry_wait", r.tries, FALSE, "none"))
      BY <2>0, <2>2, WaitingRow
    <3>2. Row("retry_wait", r.tries, FALSE, "none").state = "retry_wait"
      BY DEF Row
    <3> QED BY <2>2, <3>1, <3>2
  <2> QED BY <2>1, <2>2
<1>3. job' = IF r.state # "running" THEN job ELSE [job EXCEPT ![tkey[t]] = s]
  BY DEF Retry
<1> HIDE DEF s
<1>4. Table([job EXCEPT ![tkey[t]] = s])
  BY <1>1, <1>2, OneRow
<1> QED BY <1>1, <1>2, <1>3, <1>4 DEF Quiet, Table

(* The tasks (_infer_and_persist and its callbacks).                        *)
LEMMA TasksKeepWork ==
  ASSUME WorkInv, NEW t \in Tasks, Dispatch(t) \/ Task(t) \/ TaskFails(t)
  PROVE  WorkInv'
<1>0. WorkersOK /\ WorkerTypes /\ InHand
  BY DEF WorkInv, WorkersOK
<1>a. UNCHANGED <<process, memory, rows, recovery, edits>> /\ WorkersOK' => WorkInv'
  BY DEF WorkInv, ProcessTypes, MemoryTypes, ScanTypes, process, memory, rows, recovery
<1>1. CASE Dispatch(t)
  <2>1. CASE draining
    <3>1. WorkersOK'
      BY <1>0, <1>1, <2>1, SchedulerMoves DEF Dispatch, WorkerTypes
    <3> QED BY <1>1, <1>a, <3>1 DEF Dispatch
  <2>2. CASE ~draining
    <3>1. /\ spc = "dispatch" /\ tpc[t] = "free" /\ snap \in Keys /\ spc' = "idle" /\ snap' = NoKey
          /\ SetTask(t, "queued", snap) /\ permits' = permits
      BY <1>0, <1>1, <2>2 DEF Dispatch, InHand
    <3>2. /\ tpc' \in [Tasks -> {"free", "queued", "infer", "persist", "retry"}]
          /\ tkey' \in [Tasks -> Keys \cup {NoKey}]
          /\ \A u \in Tasks : tpc'[u] = (IF u = t THEN "queued" ELSE tpc[u])
                           /\ tkey'[u] = (IF u = t THEN snap ELSE tkey[u])
          /\ Cardinality(Busy') = Cardinality(Busy) + 1
      BY <1>0, <3>1, TaskMoves
    <3>3. WorkerTypes' /\ InHand'
      BY <1>0, <3>1, <3>2 DEF WorkerTypes, InHand
    <3>4. PermitsExact'
      BY <1>0, <3>1, <3>2, BusyFinite, EmbedAssumption
         DEF WorkersOK, WorkerTypes, PermitsExact, Held, Busy
    <3> QED BY <1>1, <1>a, <3>3, <3>4 DEF Dispatch, WorkersOK
  <2> QED BY <2>1, <2>2
<1>2. CASE TaskStarts(t)
  <2>1. WorkersOK'
    BY <1>0, <1>2, TaskGoesOn DEF TaskStarts
  <2> QED BY <1>2, <1>a, <2>1 DEF TaskStarts
<1>3. CASE Infer(t)
  <2>1. WorkersOK'
    BY <1>0, <1>3, TaskGoesOn, TaskMarked DEF Infer
  <2> QED BY <1>3, <1>a, <2>1 DEF Infer
<1>4. CASE InferFails(t) \/ PersistFails(t)
  <2>1. WorkersOK'
    BY <1>0, <1>4, TaskMarked DEF InferFails, PersistFails
  <2> QED BY <1>4, <1>a, <2>1 DEF InferFails, PersistFails
<1>5. CASE RetryFails(t)
  <2>1. WorkersOK'
    BY <1>0, <1>5, TaskEnds DEF RetryFails
  <2> QED BY <1>5, <1>a, <2>1 DEF RetryFails
<1>6. CASE Persist(t)
  <2>1. WorkersOK'
    BY <1>0, <1>6, TaskEnds, TaskMarked DEF Persist
  <2>2. CASE UNCHANGED rows
    BY <1>6, <1>a, <2>1, <2>2 DEF Persist
  <2>3. CASE WriteVector(tkey[t])
    <3>1. tkey[t] \in Keys /\ UNCHANGED <<status, text>>
      BY <1>0, <1>6 DEF InHand, Persist, memory
    <3>2. Table(job') /\ MemoryTypes'
      BY <2>3, <3>1, VectorRow
    <3> QED BY <1>6, <2>1, <3>2 DEF Persist, WorkInv, ProcessTypes, ScanTypes, process, recovery
  <2> QED BY <1>6, <2>2, <2>3 DEF Persist
<1>7. CASE Retry(t)
  <2>1. WorkersOK'
    BY <1>0, <1>7, TaskEnds DEF Retry
  <2>2. Table(job')
    BY <1>7, RetriedRow
  <2> QED BY <1>7, <2>1, <2>2 DEF Retry, WorkInv, ProcessTypes, MemoryTypes, ScanTypes, process,
             memory, recovery
<1> QED BY <1>1, <1>2, <1>3, <1>4, <1>5, <1>6, <1>7 DEF Task, TaskFails

(* A step that changes nothing.                                             *)
LEMMA WorkStutters == WorkInv /\ UNCHANGED embedVars => WorkInv'
<1> SUFFICES ASSUME WorkInv, UNCHANGED embedVars PROVE WorkInv'
  OBVIOUS
<1>1. WorkersOK'
  BY DEF embedVars, workers, WorkInv, WorkersOK, WorkerTypes, InHand, PermitsExact, Held
<1> QED BY <1>1 DEF embedVars, process, memory, rows, recovery, WorkInv, ProcessTypes,
           MemoryTypes, ScanTypes

(* Every step keeps them.                                                   *)
LEMMA WorkStep == WorkInv /\ [EmbedNext]_embedVars => WorkInv'
<1> SUFFICES ASSUME WorkInv, [EmbedNext]_embedVars PROVE WorkInv'
  OBVIOUS
<1>1. CASE UNCHANGED embedVars
  BY <1>1, WorkStutters
<1>2. CASE StartDaemon \/ ProcessEnds \/ BeginDraining \/ Canary \/ ScanEnds \/ Backfill
           \/ RecoveryFails
  BY <1>2, ProcessKeepsWork
<1>3. CASE AcquirePermit \/ Claim \/ ClaimFails
  BY <1>3, SchedulerKeepsWork
<1>4. CASE \E t \in Tasks : Dispatch(t) \/ Task(t) \/ TaskFails(t)
  BY <1>4, TasksKeepWork
<1>5. CASE \E e \in Entities : Tool(e) \/ ReconcilePage(e)
  <2>1. PICK e \in Entities : Tool(e) \/ ReconcilePage(e)
    BY <1>5
  <2>2. \E x \in Texts \cup {NoText} : Store(e, x) \/ SetRetrievalText(e, x) \/ Archive(e)
                                       \/ ReconcilePage(e)
    BY <2>1 DEF Tool
  <2>3. <<e, "entity">> \in Keys
    BY EmbedAssumption DEF Keys, Sources
  <2> QED BY <2>2, <2>3, RowsKeepWork
<1>6. CASE \E k \in Keys : LeaseExpires(k) \/ RetryDue(k)
  <2>1. PICK k \in Keys : LeaseExpires(k) \/ RetryDue(k)
    BY <1>6
  <2>2. k[1] \in Entities /\ NoText \in Texts \cup {NoText}
    BY DEF Keys
  <2> QED BY <2>1, <2>2, RowsKeepWork
<1> QED BY <1>1, <1>2, <1>3, <1>4, <1>5, <1>6 DEF EmbedNext, Recovery

-----------------------------------------------------------------------------
(* Every step keeps rows, vectors and memories in agreement                 *)

(* Pairs of a memory and a source are the keys of the rows.                 *)
LEMMA KeyPairs ==
  /\ \A e \in Entities, s \in Sources :
       <<e, s>> \in Keys /\ <<e, s>>[1] = e /\ <<e, s>>[2] = s
  /\ \A k \in Keys : k[1] \in Entities /\ k[2] \in Sources /\ k = <<k[1], k[2]>>
BY DEF Keys

(* Claims, lost leases, failures and time write neither vectors nor         *)
(* memories, and change only rows that are neither missing nor done.        *)
LEMMA QuietData ==
  ASSUME WorkInv, DataInv, UNCHANGED <<vecAvailable, status, text, emb, vec, rpc, scan>>,
         \A k \in Keys : Quiet(job[k], job'[k])
  PROVE  DataInv'
<1>1. \A k \in Keys : /\ job[k].state = "succeeded" <=> job'[k].state = "succeeded"
                      /\ job[k] # NoRow => job'[k] # NoRow
                      /\ job[k] = NoRow => job'[k] = NoRow
  BY FreshRow DEF Quiet
<1>2. \A e \in Entities, s \in Sources : <<e, s>> \in Keys
  BY KeyPairs
<1>3. ArchivedHasNoVector' /\ ReadyHasVector'
  BY DEF DataInv, ArchivedHasNoVector, ReadyHasVector
<1>4. SearchableIffDone'
  BY <1>1, <1>2 DEF DataInv, SearchableIffDone, Sources
<1>5. RecoveryLeavesNoGap'
  BY <1>1, <1>2 DEF DataInv, RecoveryLeavesNoGap, Wanted, Sources, WorkInv, MemoryTypes
<1>6. NotStoredIsBlank'
  BY <1>1, <1>2 DEF DataInv, NotStoredIsBlank
<1>7. BehindScan'
  BY <1>1, <1>2 DEF DataInv, BehindScan, Sources, WorkInv, MemoryTypes
<1> QED BY <1>3, <1>4, <1>5, <1>6, <1>7 DEF DataInv

(* A memory is stored with rows for all it wants, and without vectors.      *)
LEMMA StoreData ==
  ASSUME WorkInv, DataInv, NEW e \in Entities, NEW x \in Texts \cup {NoText}, Store(e, x)
  PROVE  DataInv'
<1>1. /\ status[e] = "absent" /\ vec[e] = {} /\ emb[e] # "ready"
      /\ \A s \in Sources : job[<<e, s>>] = NoRow
  BY DEF Store, DataInv, NotStoredIsBlank
<1>2. /\ vecAvailable' = vecAvailable /\ vec' = vec /\ rpc' = rpc /\ scan' = scan
      /\ \A d \in Entities :
           /\ status'[d] = (IF d = e THEN "active" ELSE status[d])
           /\ text'[d] = (IF d = e THEN x ELSE text[d])
           /\ emb'[d] = (IF d = e THEN "pending" ELSE emb[d])
  BY DEF Store, process, recovery, WorkInv, MemoryTypes
<1>3. \A d \in Entities, s \in Sources :
        /\ d # e => job'[<<d, s>>] = job[<<d, s>>]
        /\ d = e /\ s \in Base => job'[<<d, s>>] = QueuedRow
        /\ d = e /\ s \in Texts /\ s = x => job'[<<d, s>>] = QueuedRow
        /\ d = e /\ s \in Texts /\ s # x => job'[<<d, s>>] = NoRow
  <2> SUFFICES ASSUME NEW d \in Entities, NEW s \in Sources
               PROVE  /\ d # e => job'[<<d, s>>] = job[<<d, s>>]
                      /\ d = e /\ s \in Base => job'[<<d, s>>] = QueuedRow
                      /\ d = e /\ s \in Texts /\ s = x => job'[<<d, s>>] = QueuedRow
                      /\ d = e /\ s \in Texts /\ s # x => job'[<<d, s>>] = NoRow
    OBVIOUS
  <2>1. <<d, s>> \in Keys /\ <<d, s>>[1] = d /\ <<d, s>>[2] = s
    BY KeyPairs
  <2>2. EnqueueBase(e, job)[<<d, s>>] = IF d = e /\ s \in Base THEN QueuedRow ELSE job[<<d, s>>]
    BY <2>1 DEF EnqueueBase
  <2>3. ~IsActive(NoRow)
    BY DEF IsActive, NoRow, Row
  <2> QED BY <1>1, <2>1, <2>2, <2>3, EmbedAssumption DEF Store, EnqueueRetrieval
<1>4. QueuedRow.state = "queued" /\ NoRow.state = "absent" /\ QueuedRow # NoRow
  BY FreshRow
<1>5. ArchivedHasNoVector' /\ ReadyHasVector'
  BY <1>1, <1>2 DEF DataInv, ArchivedHasNoVector, ReadyHasVector
<1>6. SearchableIffDone'
  BY <1>1, <1>2, <1>3, <1>4 DEF DataInv, SearchableIffDone, Sources
<1>7. RecoveryLeavesNoGap'
  BY <1>1, <1>2, <1>3, <1>4 DEF DataInv, RecoveryLeavesNoGap, Wanted, Sources, WorkInv, MemoryTypes
<1>8. NotStoredIsBlank'
  BY <1>1, <1>2, <1>3 DEF DataInv, NotStoredIsBlank
<1>9. BehindScan'
  BY <1>1, <1>2, <1>3, <1>4 DEF DataInv, BehindScan, Sources, WorkInv, MemoryTypes
<1> QED BY <1>5, <1>6, <1>7, <1>8, <1>9 DEF DataInv

(* Replacing a text takes the old vector and queues the new source.         *)
LEMMA RetextData ==
  ASSUME WorkInv, DataInv, NEW e \in Entities, NEW x \in Texts \cup {NoText},
         SetRetrievalText(e, x)
  PROVE  DataInv'
<1>1. /\ vecAvailable' = vecAvailable /\ status' = status /\ emb' = emb
      /\ rpc' = rpc /\ scan' = scan /\ status[e] # "absent"
      /\ \A d \in Entities :
           /\ text'[d] = (IF d = e THEN x ELSE text[d])
           /\ vec'[d] = (IF d = e THEN vec[d] \ Texts ELSE vec[d])
  BY DEF SetRetrievalText, process, recovery, WorkInv, MemoryTypes
<1>2. \A d \in Entities, s \in Sources :
        /\ d # e \/ s \in Base => job'[<<d, s>>] = job[<<d, s>>]
        /\ d = e /\ s \in Texts /\ s = x => job'[<<d, s>>] = QueuedRow
        /\ d = e /\ s \in Texts /\ s # x => Quiet(job[<<d, s>>], job'[<<d, s>>])
  <2> SUFFICES ASSUME NEW d \in Entities, NEW s \in Sources
               PROVE  /\ d # e \/ s \in Base => job'[<<d, s>>] = job[<<d, s>>]
                      /\ d = e /\ s \in Texts /\ s = x => job'[<<d, s>>] = QueuedRow
                      /\ d = e /\ s \in Texts /\ s # x => Quiet(job[<<d, s>>], job'[<<d, s>>])
    OBVIOUS
  <2>1. <<d, s>> \in Keys /\ <<d, s>>[1] = d /\ <<d, s>>[2] = s
    BY KeyPairs
  <2>2. Ended(job[<<d, s>>], "cancelled").state = "cancelled"
    BY <2>1, EndedRow DEF WorkInv, Table
  <2> QED BY <2>1, <2>2, EmbedAssumption DEF SetRetrievalText, EnqueueRetrieval, Quiet, IsActive
<1>3. QueuedRow.state = "queued" /\ NoRow.state = "absent" /\ QueuedRow # NoRow
  BY FreshRow
<1>4. ArchivedHasNoVector' /\ ReadyHasVector'
  BY <1>1, EmbedAssumption DEF DataInv, ArchivedHasNoVector, ReadyHasVector
<1>5. SearchableIffDone'
  <2> SUFFICES ASSUME NEW d \in Entities, status'[d] = "active"
               PROVE  /\ \A s \in Base : job'[<<d, s>>].state = "succeeded" => s \in vec'[d]
                      /\ \A y \in Texts : y \in vec'[d] <=>
                           (text'[d] = y /\ job'[<<d, y>>].state = "succeeded")
    BY DEF SearchableIffDone
  <2>1. ASSUME NEW s \in Base, job'[<<d, s>>].state = "succeeded" PROVE s \in vec'[d]
    <3>1. s \in Sources /\ s \notin Texts
      BY EmbedAssumption DEF Sources
    <3>2. job'[<<d, s>>] = job[<<d, s>>]
      BY <1>2, <3>1
    <3>3. s \in vec[d]
      BY <1>1, <2>1, <3>2 DEF DataInv, SearchableIffDone
    <3> QED BY <1>1, <3>1, <3>3
  <2>2. CASE d = e
    <3>1. ASSUME NEW y \in Texts
          PROVE  y \notin vec'[d] /\ ~(text'[d] = y /\ job'[<<d, y>>].state = "succeeded")
      <4>1. y \in Sources
        BY DEF Sources
      <4> QED BY <1>1, <1>2, <1>3, <2>2, <4>1
    <3> QED BY <2>1, <3>1
  <2>3. CASE d # e
    <3>1. ASSUME NEW y \in Texts
          PROVE  y \in vec'[d] <=> (text'[d] = y /\ job'[<<d, y>>].state = "succeeded")
      <4>1. y \in Sources
        BY DEF Sources
      <4>2. job'[<<d, y>>] = job[<<d, y>>]
        BY <1>2, <2>3, <4>1
      <4>3. vec'[d] = vec[d] /\ text'[d] = text[d] /\ status[d] = "active"
        BY <1>1, <2>3
      <4>4. y \in vec[d] <=> (text[d] = y /\ job[<<d, y>>].state = "succeeded")
        BY <4>3 DEF DataInv, SearchableIffDone
      <4> QED BY <4>2, <4>3, <4>4
    <3> QED BY <2>1, <3>1
  <2> QED BY <2>2, <2>3
<1>6. \A d \in Entities, s \in Sources :
        /\ job[<<d, s>>] # NoRow => job'[<<d, s>>] # NoRow
        /\ s \in Texts /\ text'[d] # text[d] /\ s = text'[d] => job'[<<d, s>>] # NoRow
  <2> SUFFICES ASSUME NEW d \in Entities, NEW s \in Sources
               PROVE  /\ job[<<d, s>>] # NoRow => job'[<<d, s>>] # NoRow
                      /\ s \in Texts /\ text'[d] # text[d] /\ s = text'[d] => job'[<<d, s>>] # NoRow
    OBVIOUS
  <2>1. CASE d # e \/ s \in Base
    BY <1>1, <1>2, <2>1, EmbedAssumption DEF WorkInv, MemoryTypes, Sources
  <2>2. CASE d = e /\ s \in Texts
    BY <1>1, <1>2, <1>3, <2>2 DEF Quiet
  <2> QED BY <2>1, <2>2 DEF Sources
<1>7. RecoveryLeavesNoGap'
  <2> SUFFICES ASSUME rpc' = "done", NEW d \in Entities, status'[d] = "active",
                      NEW s \in Base \cup ({text'[d]} \ {NoText})
               PROVE  job'[<<d, s>>] # NoRow
    BY DEF RecoveryLeavesNoGap, Wanted
  <2>1. text'[d] \in Texts \cup {NoText} /\ s \in Sources
    BY <1>1 DEF WorkInv, MemoryTypes, Sources
  <2>2. s \in Wanted(d) => job[<<d, s>>] # NoRow
    BY <1>1 DEF DataInv, RecoveryLeavesNoGap
  <2> QED BY <1>6, <2>1, <2>2 DEF Wanted
<1>8. NotStoredIsBlank'
  BY <1>1, <1>2 DEF DataInv, NotStoredIsBlank
<1>9. BehindScan'
  <2> SUFFICES ASSUME rpc' = "scan", NEW d \in Entities, status'[d] = "active"
               PROVE  /\ <<d, "base">> \notin scan' => \A s \in Base : job'[<<d, s>>] # NoRow
                      /\ <<d, "retrieval">> \notin scan' =>
                           text'[d] = NoText \/ job'[<<d, text'[d]>>] # NoRow
    BY DEF BehindScan
  <2>1. text'[d] \in Texts \cup {NoText} /\ Texts \cup Base \subseteq Sources
    BY <1>1 DEF WorkInv, MemoryTypes, Sources
  <2>2. /\ <<d, "base">> \notin scan => \A s \in Base : job[<<d, s>>] # NoRow
        /\ <<d, "retrieval">> \notin scan => text[d] = NoText \/ job[<<d, text[d]>>] # NoRow
    BY <1>1 DEF DataInv, BehindScan
  <2> QED BY <1>1, <1>6, <2>1, <2>2
<1> QED BY <1>4, <1>5, <1>7, <1>8, <1>9 DEF DataInv

(* An archived memory has no work left and, with sqlite_vec, no vector.     *)
LEMMA ArchiveData ==
  ASSUME WorkInv, DataInv, NEW e \in Entities, Archive(e)
  PROVE  DataInv'
<1>1. /\ vecAvailable' = vecAvailable /\ text' = text /\ rpc' = rpc /\ scan' = scan
      /\ status[e] = "active"
      /\ \A d \in Entities :
           /\ status'[d] = (IF d = e THEN "archived" ELSE status[d])
           /\ emb'[d] = (IF d = e THEN "archived" ELSE emb[d])
           /\ vec'[d] = (IF d = e /\ vecAvailable THEN {} ELSE vec[d])
  BY DEF Archive, process, recovery, WorkInv, MemoryTypes
<1>2. \A d \in Entities, s \in Sources : d # e => job'[<<d, s>>] = job[<<d, s>>]
  BY KeyPairs DEF Archive
<1>3. ArchivedHasNoVector' /\ ReadyHasVector'
  BY <1>1 DEF DataInv, ArchivedHasNoVector, ReadyHasVector
<1>4. SearchableIffDone'
  <2> SUFFICES ASSUME NEW d \in Entities, d # e, status[d] = "active"
               PROVE  /\ \A s \in Base : job'[<<d, s>>].state = "succeeded" => s \in vec'[d]
                      /\ \A y \in Texts : y \in vec'[d] <=>
                           (text'[d] = y /\ job'[<<d, y>>].state = "succeeded")
    BY <1>1 DEF SearchableIffDone
  <2>1. vec'[d] = vec[d] /\ text'[d] = text[d]
    BY <1>1
  <2>2. \A s \in Base \cup Texts : job'[<<d, s>>] = job[<<d, s>>]
    BY <1>2 DEF Sources
  <2> QED BY <2>1, <2>2 DEF DataInv, SearchableIffDone
<1>5. RecoveryLeavesNoGap'
  BY <1>1, <1>2 DEF DataInv, RecoveryLeavesNoGap, Wanted, Sources, WorkInv, MemoryTypes
<1>6. NotStoredIsBlank'
  BY <1>1, <1>2 DEF DataInv, NotStoredIsBlank
<1>7. BehindScan'
  BY <1>1, <1>2 DEF DataInv, BehindScan, Sources, WorkInv, MemoryTypes
<1> QED BY <1>3, <1>4, <1>5, <1>6, <1>7 DEF DataInv

(* Recovery begins, ends or is given up; the canary may find no gap.        *)
LEMMA RecoveryData ==
  ASSUME WorkInv, DataInv,
         StartDaemon \/ ProcessEnds \/ Canary \/ Backfill \/ ScanEnds \/ RecoveryFails
  PROVE  DataInv'
<1>1. UNCHANGED <<vecAvailable, status, text, emb, vec, job>>
  BY DEF StartDaemon, ProcessEnds, Canary, Backfill, ScanEnds, RecoveryFails, process, memory, rows
<1>2. ArchivedHasNoVector' /\ SearchableIffDone' /\ ReadyHasVector' /\ NotStoredIsBlank'
  BY <1>1 DEF DataInv, ArchivedHasNoVector, SearchableIffDone, ReadyHasVector, NotStoredIsBlank
<1>3. BehindScan'
  <2>1. rpc' = "scan" => scan' = {e \in Entities : status[e] = "active"} \X {"base", "retrieval"}
    BY DEF StartDaemon, ProcessEnds, Canary, Backfill, ScanEnds, RecoveryFails
  <2> QED BY <1>1, <2>1 DEF BehindScan
<1>4. RecoveryLeavesNoGap'
  <2>1. CASE Canary
    BY <1>1, <2>1 DEF Canary, RecoveryGap, RecoveryLeavesNoGap, Wanted
  <2>2. CASE ScanEnds
    BY <1>1, <2>2 DEF ScanEnds, DataInv, BehindScan, RecoveryLeavesNoGap, Wanted
  <2>3. CASE StartDaemon \/ ProcessEnds \/ Backfill \/ RecoveryFails
    BY <2>3 DEF StartDaemon, ProcessEnds, Backfill, RecoveryFails, RecoveryLeavesNoGap
  <2> QED BY <2>1, <2>2, <2>3
<1> QED BY <1>2, <1>3, <1>4 DEF DataInv

(* A page of the scan queues what is missing, and takes only a vector whose *)
(* job did not succeed.                                                     *)
LEMMA PageData ==
  ASSUME WorkInv, DataInv, NEW e \in Entities, ReconcilePage(e)
  PROVE  DataInv'
<1>1. UNCHANGED <<vecAvailable, status, text, rpc>>
  BY DEF ReconcilePage, process, memory
<1>2. QueuedRow.state = "queued" /\ NoRow.state = "absent" /\ QueuedRow # NoRow
  BY FreshRow
<1>3. CASE ReconcileBase(e)
  <2>1. CASE status[e] # "active" \/ {s \in Base : job[<<e, s>>] = NoRow} = {}
    <3>1. UNCHANGED <<job, emb, vec>> /\ scan' = scan \ {<<e, "base">>}
      BY <1>3, <2>1 DEF ReconcileBase
    <3>2. /\ ArchivedHasNoVector' /\ SearchableIffDone' /\ ReadyHasVector' /\ NotStoredIsBlank'
          /\ RecoveryLeavesNoGap'
      BY <1>1, <3>1 DEF DataInv, ArchivedHasNoVector, SearchableIffDone, ReadyHasVector,
         NotStoredIsBlank, RecoveryLeavesNoGap, Wanted
    <3>3. BehindScan'
      BY <1>1, <2>1, <3>1 DEF DataInv, BehindScan
    <3> QED BY <3>2, <3>3 DEF DataInv
  <2>2. CASE status[e] = "active" /\ {s \in Base : job[<<e, s>>] = NoRow} # {}
    <3>1. /\ vec' = vec /\ scan' = scan \ {<<e, "base">>} /\ emb' = [emb EXCEPT ![e] = "pending"]
          /\ job' = [k \in Keys |-> IF k[1] = e /\ k[2] \in {s \in Base : job[<<e, s>>] = NoRow}
                                    THEN QueuedRow ELSE job[k]]
      BY <1>3, <2>2 DEF ReconcileBase
    <3>2. \A d \in Entities, s \in Sources :
            job'[<<d, s>>] = IF d = e /\ s \in Base /\ job[<<d, s>>] = NoRow THEN QueuedRow
                             ELSE job[<<d, s>>]
      BY <3>1, KeyPairs
    <3>3. ArchivedHasNoVector' /\ ReadyHasVector'
      BY <1>1, <3>1 DEF DataInv, ArchivedHasNoVector, ReadyHasVector, WorkInv, MemoryTypes
    <3>4. SearchableIffDone'
      <4>1. \A d \in Entities, s \in Base \cup Texts :
              job'[<<d, s>>].state = "succeeded" <=> job[<<d, s>>].state = "succeeded"
        BY <1>2, <3>2 DEF Sources
      <4> QED BY <1>1, <3>1, <4>1 DEF DataInv, SearchableIffDone
    <3>5. RecoveryLeavesNoGap' /\ BehindScan'
      <4>1. \A d \in Entities, s \in Sources :
              /\ job[<<d, s>>] # NoRow => job'[<<d, s>>] # NoRow
              /\ d = e /\ s \in Base => job'[<<d, s>>] # NoRow
        BY <1>2, <3>2
      <4> QED BY <1>1, <3>1, <4>1 DEF DataInv, RecoveryLeavesNoGap, BehindScan, Wanted, Sources,
                 WorkInv, MemoryTypes
    <3>6. NotStoredIsBlank'
      BY <1>1, <2>2, <3>1, <3>2 DEF DataInv, NotStoredIsBlank, WorkInv, MemoryTypes
    <3> QED BY <3>3, <3>4, <3>5, <3>6 DEF DataInv
  <2> QED BY <2>1, <2>2
<1>4. CASE ReconcileRetrieval(e)
  <2>1. CASE status[e] # "active" \/ text[e] = NoText
    <3>1. UNCHANGED <<job, emb, vec>> /\ scan' = scan \ {<<e, "retrieval">>}
      BY <1>4, <2>1 DEF ReconcileRetrieval
    <3>2. /\ ArchivedHasNoVector' /\ SearchableIffDone' /\ ReadyHasVector' /\ NotStoredIsBlank'
          /\ RecoveryLeavesNoGap'
      BY <1>1, <3>1 DEF DataInv, ArchivedHasNoVector, SearchableIffDone, ReadyHasVector,
         NotStoredIsBlank, RecoveryLeavesNoGap, Wanted
    <3>3. BehindScan'
      BY <1>1, <2>1, <3>1 DEF DataInv, BehindScan
    <3> QED BY <3>2, <3>3 DEF DataInv
  <2>2. CASE status[e] = "active" /\ text[e] # NoText
    <3>0. text[e] \in Texts /\ text[e] \in Sources
      BY <2>2 DEF WorkInv, MemoryTypes, Sources
    <3>1. /\ emb' = emb /\ scan' = scan \ {<<e, "retrieval">>}
          /\ \A d \in Entities :
               vec'[d] = IF d = e /\ job[<<e, text[e]>>].state # "succeeded" THEN vec[d] \ Texts
                         ELSE vec[d]
      BY <1>4, <2>2 DEF ReconcileRetrieval, WorkInv, MemoryTypes
    <3>2. \A d \in Entities, s \in Sources :
            /\ d # e \/ s \in Base => job'[<<d, s>>] = job[<<d, s>>]
            /\ d = e /\ s = text[e] =>
                 job'[<<d, s>>] = IF job[<<d, s>>] = NoRow THEN QueuedRow ELSE job[<<d, s>>]
            /\ d = e /\ s \in Texts /\ s # text[e] => Quiet(job[<<d, s>>], job'[<<d, s>>])
      <4> SUFFICES ASSUME NEW d \in Entities, NEW s \in Sources
                   PROVE  /\ d # e \/ s \in Base => job'[<<d, s>>] = job[<<d, s>>]
                          /\ d = e /\ s = text[e] =>
                               job'[<<d, s>>] = IF job[<<d, s>>] = NoRow THEN QueuedRow
                                                ELSE job[<<d, s>>]
                          /\ d = e /\ s \in Texts /\ s # text[e] =>
                               Quiet(job[<<d, s>>], job'[<<d, s>>])
        OBVIOUS
      <4>1. <<d, s>> \in Keys /\ <<d, s>>[1] = d /\ <<d, s>>[2] = s
        BY KeyPairs
      <4>2. Ended(job[<<d, s>>], "cancelled").state = "cancelled"
        BY <4>1, EndedRow DEF WorkInv, Table
      <4> QED BY <1>4, <2>2, <3>0, <4>1, <4>2, EmbedAssumption
              DEF ReconcileRetrieval, Quiet, IsActive
    <3>3. ArchivedHasNoVector' /\ ReadyHasVector'
      BY <1>1, <3>1, EmbedAssumption DEF DataInv, ArchivedHasNoVector, ReadyHasVector
    <3>4. \A d \in Entities, s \in Sources :
            /\ job'[<<d, s>>].state = "succeeded" <=> job[<<d, s>>].state = "succeeded"
            /\ job[<<d, s>>] # NoRow => job'[<<d, s>>] # NoRow
            /\ d = e /\ s = text[e] => job'[<<d, s>>] # NoRow
            /\ d # e => job'[<<d, s>>] = job[<<d, s>>]
      BY <1>2, <3>0, <3>2 DEF Quiet, Sources
    <3>5. SearchableIffDone'
      <4> SUFFICES ASSUME NEW d \in Entities, status[d] = "active"
                   PROVE  /\ \A s \in Base : job'[<<d, s>>].state = "succeeded" => s \in vec'[d]
                          /\ \A y \in Texts : y \in vec'[d] <=>
                               (text[d] = y /\ job'[<<d, y>>].state = "succeeded")
        BY <1>1 DEF SearchableIffDone
      <4>1. /\ \A s \in Base : job[<<d, s>>].state = "succeeded" => s \in vec[d]
            /\ \A y \in Texts : y \in vec[d] <=>
                 (text[d] = y /\ job[<<d, y>>].state = "succeeded")
        BY DEF DataInv, SearchableIffDone
      <4>2. \A s \in Base \cup Texts :
              job'[<<d, s>>].state = "succeeded" <=> job[<<d, s>>].state = "succeeded"
        BY <3>4 DEF Sources
      <4>3. \A s \in Base : s \notin Texts
        BY EmbedAssumption
      <4> QED BY <3>1, <4>1, <4>2, <4>3
    <3>6. RecoveryLeavesNoGap' /\ BehindScan'
      BY <1>1, <3>1, <3>4 DEF DataInv, RecoveryLeavesNoGap, BehindScan, Wanted, Sources, WorkInv,
         MemoryTypes
    <3>7. NotStoredIsBlank'
      BY <1>1, <2>2, <3>1, <3>4 DEF DataInv, NotStoredIsBlank
    <3> QED BY <3>3, <3>5, <3>6, <3>7 DEF DataInv
  <2> QED BY <2>1, <2>2
<1> QED BY <1>3, <1>4 DEF ReconcilePage

(* A vector is written for a row that is still running, for a memory that   *)
(* is not archived, of the text it has now.                                 *)
LEMMA VectorData ==
  ASSUME WorkInv, DataInv, NEW k \in Keys, Current(k), vecAvailable, WriteVector(k),
         UNCHANGED <<vecAvailable, status, text, rpc, scan>>
  PROVE  DataInv'
<1>1. PICK e \in Entities, z \in Sources : k = <<e, z>> /\ k[1] = e /\ k[2] = z
  BY KeyPairs
<1>2. job[<<e, z>>].state = "running" /\ status[e] = "active" /\ (z \in Texts => text[e] = z)
  <2>1. job[<<e, z>>].state = "running" /\ status[e] # "archived" /\ (z \in Texts => text[e] = z)
    BY <1>1 DEF Current
  <2>2. status[e] # "absent"
    BY <2>1, FreshRow DEF DataInv, NotStoredIsBlank
  <2> QED BY <2>1, <2>2 DEF WorkInv, MemoryTypes
<1>3. \A d \in Entities :
        /\ vec'[d] = (IF d # e THEN vec[d] ELSE IF z \in Texts THEN (vec[d] \ Texts) \cup {z}
                      ELSE vec[d] \cup {z})
        /\ emb'[d] = (IF d = e /\ z = "entity" THEN "ready" ELSE emb[d])
  BY <1>1 DEF WriteVector, WorkInv, MemoryTypes
<1>4. Ended(job[k], "succeeded").state = "succeeded"
  BY EndedRow DEF WorkInv, Table
<1>5. \A d \in Entities, s \in Sources :
        /\ <<d, s>> = <<e, z>> => job'[<<d, s>>].state = "succeeded"
        /\ <<d, s>> # <<e, z>> => job'[<<d, s>>] = job[<<d, s>>]
  BY <1>1, <1>4, KeyPairs DEF WriteVector, WorkInv, Table
<1>6. ArchivedHasNoVector'
  BY <1>2, <1>3 DEF DataInv, ArchivedHasNoVector
<1>7. ReadyHasVector'
  BY <1>3, EmbedAssumption DEF DataInv, ReadyHasVector
<1>8. SearchableIffDone'
  <2> SUFFICES ASSUME NEW d \in Entities, status[d] = "active"
               PROVE  /\ \A s \in Base : job'[<<d, s>>].state = "succeeded" => s \in vec'[d]
                      /\ \A y \in Texts : y \in vec'[d] <=>
                           (text[d] = y /\ job'[<<d, y>>].state = "succeeded")
    BY DEF SearchableIffDone
  <2>1. /\ \A s \in Base : job[<<d, s>>].state = "succeeded" => s \in vec[d]
        /\ \A y \in Texts : y \in vec[d] <=> (text[d] = y /\ job[<<d, y>>].state = "succeeded")
    BY DEF DataInv, SearchableIffDone
  <2>2. \A s \in Base \cup Texts :
          /\ d = e /\ s = z => job'[<<d, s>>].state = "succeeded"
          /\ ~(d = e /\ s = z) => job'[<<d, s>>] = job[<<d, s>>]
    BY <1>5 DEF Sources
  <2>3. \A s \in Base : s \notin Texts
    BY EmbedAssumption
  <2>4. \A s \in Base : job'[<<d, s>>].state = "succeeded" => s \in vec'[d]
    BY <1>3, <2>1, <2>2, <2>3
  <2>5. ASSUME NEW y \in Texts
        PROVE  y \in vec'[d] <=> (text[d] = y /\ job'[<<d, y>>].state = "succeeded")
    <3>1. CASE d = e /\ z \in Texts
      BY <1>2, <1>3, <2>1, <2>2, <3>1
    <3>2. CASE ~(d = e /\ z \in Texts)
      <4>1. y \in vec'[d] <=> y \in vec[d]
        BY <1>3, <3>2
      <4>2. job'[<<d, y>>] = job[<<d, y>>]
        BY <2>2, <3>2
      <4> QED BY <2>1, <4>1, <4>2
    <3> QED BY <3>1, <3>2
  <2> QED BY <2>4, <2>5
<1>9. RecoveryLeavesNoGap' /\ BehindScan'
  <2>1. \A d \in Entities, s \in Sources : job[<<d, s>>] # NoRow => job'[<<d, s>>] # NoRow
    BY <1>5, FreshRow
  <2> QED BY <2>1 DEF DataInv, RecoveryLeavesNoGap, BehindScan, Wanted, Sources, WorkInv,
             MemoryTypes
<1>10. NotStoredIsBlank'
  <2> SUFFICES ASSUME NEW d \in Entities, status[d] = "absent"
               PROVE  /\ vec'[d] = {} /\ emb'[d] # "ready"
                      /\ \A s \in Sources : job'[<<d, s>>] = NoRow
    BY DEF NotStoredIsBlank
  <2>1. d # e
    BY <1>2
  <2>2. \A s \in Sources : job'[<<d, s>>] = job[<<d, s>>]
    BY <1>5, <2>1
  <2> QED BY <1>3, <2>1, <2>2 DEF DataInv, NotStoredIsBlank
<1> QED BY <1>6, <1>7, <1>8, <1>9, <1>10 DEF DataInv

(* Every step keeps the agreement.                                          *)
LEMMA DataStep == WorkInv /\ DataInv /\ [EmbedNext]_embedVars => DataInv'
<1> SUFFICES ASSUME WorkInv, DataInv, [EmbedNext]_embedVars PROVE DataInv'
  OBVIOUS
<1>0. ASSUME UNCHANGED <<vecAvailable, status, text, emb, vec, rpc, scan, job>> PROVE DataInv'
  BY <1>0, QuietData DEF Quiet
<1>1. CASE UNCHANGED embedVars
  BY <1>0, <1>1 DEF embedVars, process, memory, rows, recovery
<1>2. CASE StartDaemon \/ ProcessEnds \/ Canary \/ ScanEnds \/ Backfill \/ RecoveryFails
  BY <1>2, RecoveryData
<1>3. CASE BeginDraining \/ AcquirePermit \/ ClaimFails
  BY <1>0, <1>3 DEF BeginDraining, AcquirePermit, ClaimFails, process, memory, rows, recovery
<1>4. CASE Claim
  <2>1. \A k \in Keys : Quiet(job[k], job'[k])
    BY <1>4, ClaimRows
  <2> QED BY <1>4, <2>1, QuietData DEF Claim, process, memory, recovery
<1>5. CASE \E e \in Entities : Tool(e) \/ ReconcilePage(e)
  BY <1>5, StoreData, RetextData, ArchiveData, PageData DEF Tool
<1>6. CASE \E k \in Keys : LeaseExpires(k) \/ RetryDue(k)
  <2>1. PICK k \in Keys : LeaseExpires(k) \/ RetryDue(k)
    BY <1>6
  <2>2. Table(job) /\ RowOK(job[k])
    BY DEF WorkInv, Table
  <2>3. \A l \in Keys : Quiet(job[l], job'[l])
    <3>1. CASE LeaseExpires(k)
      BY <2>2, <3>1 DEF LeaseExpires, Quiet, Table, RowOK, RowType
    <3>2. CASE RetryDue(k)
      BY <2>2, <3>2 DEF RetryDue, Quiet, Table, RowOK, RowType
    <3> QED BY <2>1, <3>1, <3>2
  <2> QED BY <2>1, <2>3, QuietData DEF LeaseExpires, RetryDue, process, memory, recovery
<1>7. CASE \E t \in Tasks : Dispatch(t) \/ TaskStarts(t) \/ Infer(t) \/ TaskFails(t)
  BY <1>0, <1>7 DEF Dispatch, TaskStarts, Infer, TaskFails, InferFails, PersistFails, RetryFails,
     process, memory, rows, recovery
<1>8. CASE \E t \in Tasks : Persist(t)
  <2>1. PICK t \in Tasks : Persist(t)
    BY <1>8
  <2>2. UNCHANGED <<vecAvailable, status, text, rpc, scan>> /\ tkey[t] \in Keys
    BY <2>1 DEF Persist, process, memory, recovery, WorkInv, WorkersOK, InHand
  <2>3. CASE UNCHANGED rows
    BY <1>0, <2>2, <2>3 DEF rows
  <2>4. CASE Current(tkey[t]) /\ vecAvailable /\ WriteVector(tkey[t])
    BY <2>2, <2>4, VectorData
  <2> QED BY <2>1, <2>3, <2>4 DEF Persist
<1>9. CASE \E t \in Tasks : Retry(t)
  <2>1. PICK t \in Tasks : Retry(t)
    BY <1>9
  <2>2. \A k \in Keys : Quiet(job[k], job'[k])
    BY <2>1, RetriedRow
  <2> QED BY <2>1, <2>2, QuietData DEF Retry, process, memory, recovery
<1> QED BY <1>1, <1>2, <1>3, <1>4, <1>5, <1>6, <1>7, <1>8, <1>9 DEF EmbedNext, Recovery, Task

-----------------------------------------------------------------------------
(* A database of an earlier version satisfies the invariant.                *)
LEMMA EmbedInvInit == EmbedInit => EmbedInv
<1> SUFFICES ASSUME EmbedInit PROVE EmbedInv
  OBVIOUS
<1>1. job = [k \in Keys |-> NoRow] /\ RowOK(NoRow) /\ NoRow.state = "absent"
  BY FreshRow DEF EmbedInit
<1>2. Table(job)
  BY <1>1 DEF Table, RowOK
<1>3. \A e \in Entities, s \in Sources : job[<<e, s>>] = NoRow
  BY <1>1, KeyPairs
<1>4. vec = [e \in Entities |-> IF emb[e] = "ready" THEN {"entity"} ELSE {}]
  BY DEF EmbedInit
<1>5. WorkersOK
  <2>1. Busy = {}
    BY DEF EmbedInit, Busy
  <2>2. Cardinality({}) = 0
    BY FS_EmptySet
  <2>3. PermitsExact
    BY <2>1, <2>2, EmbedAssumption DEF EmbedInit, PermitsExact, Held, Busy
  <2> QED BY <2>3, EmbedAssumption DEF EmbedInit, WorkersOK, WorkerTypes, InHand
<1>6. WorkInv
  <2>0. /\ vecAvailable \in BOOLEAN /\ up = FALSE /\ draining = FALSE /\ starts = 0 /\ edits = 0
        /\ rpc = "off" /\ scan = {} /\ 0 \in 0..MaxStarts /\ 0 \in 0..MaxEdits
    <3>1. 0 \in 0..MaxStarts /\ 0 \in 0..MaxEdits
      BY EmbedAssumption
    <3> QED BY <3>1 DEF EmbedInit
  <2>1. ProcessTypes /\ ScanTypes
    BY <2>0 DEF ProcessTypes, ScanTypes
  <2>2. vec \in [Entities -> SUBSET Sources]
    BY <1>4, EmbedAssumption DEF Sources
  <2>3. MemoryTypes
    BY <2>2 DEF EmbedInit, MemoryTypes
  <2> QED BY <1>2, <1>5, <2>1, <2>3 DEF WorkInv
<1>7. ArchivedHasNoVector /\ ReadyHasVector /\ RecoveryLeavesNoGap /\ BehindScan
  BY <1>4 DEF EmbedInit, ArchivedHasNoVector, ReadyHasVector, RecoveryLeavesNoGap, BehindScan
<1>8. NotStoredIsBlank
  BY <1>3, <1>4 DEF EmbedInit, NotStoredIsBlank
<1>9. SearchableIffDone
  <2>1. \A e \in Entities, s \in Base \cup Texts : job[<<e, s>>].state # "succeeded"
    BY <1>1, <1>3 DEF Sources
  <2>2. \A e \in Entities, y \in Texts : y \notin vec[e]
    BY <1>4, EmbedAssumption
  <2> QED BY <2>1, <2>2 DEF SearchableIffDone
<1> QED BY <1>6, <1>7, <1>8, <1>9 DEF EmbedInv, DataInv

(* The invariant holds throughout.                                          *)
LEMMA EmbedInvHolds == EmbedSpec => []EmbedInv
<1>1. EmbedInv /\ [EmbedNext]_embedVars => EmbedInv'
  BY WorkStep, DataStep DEF EmbedInv
<1> QED BY <1>1, EmbedInvInit, PTL DEF EmbedSpec

(* Whatever mix of failures, lost leases, late answers, crashes and         *)
(* restarts happens, no job is tried more often than its retry budget, and  *)
(* every permit of the scheduler is in the semaphore or with exactly one    *)
(* claim or task (_claim_embedding_job, _retry_embedding_job,               *)
(* EmbedJobScheduler).                                                      *)
THEOREM JobsStayBounded == EmbedSpec => []JobsBounded
BY EmbedInvHolds, EmbedInvSound, PTL

(* What search finds agrees with memories and job rows, whatever was        *)
(* archived, given another text or recovered while a task computed          *)
(* (_persist_embedding_if_current, archive_memory,                          *)
(* reconcile_all_embedding_jobs, _run_embedding_recovery).                  *)
THEOREM VectorsStayTrue == EmbedSpec => []VectorsAgree
BY EmbedInvHolds, EmbedInvSound, PTL

=============================================================================
