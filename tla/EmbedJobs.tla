------------------------------ MODULE EmbedJobs ------------------------------
(***************************************************************************)
(* Durable embedding work: the job rows and vectors of                     *)
(* src/saltmdb/domain/services/embedding_service.py, the scheduler with    *)
(* its two inference workers, the recovery scan of daemon/server.py, and   *)
(* the memory writes that queue and cancel work.                           *)
(*                                                                         *)
(* Every function that runs as one write-coordinator job is one action.    *)
(* Inference runs between a claim and a persist and can outlast the lease. *)
(* Title and content of a stored memory are frozen, so its "entity" and    *)
(* "chunk" jobs have one source each; its retrieval text may be replaced,  *)
(* and each text is a source of its own.                                   *)
(***************************************************************************)
EXTENDS Integers, FiniteSets

CONSTANTS
  Entities,
  Base,          \* kinds of embedding_jobs rows: "entity" and "chunk"
  Texts,         \* retrieval texts
  NoText,        \* retrieval_text IS NULL
  NoKey,         \* no snapshot in hand
  Tasks,         \* bound: calls of _infer_and_persist under way
  Capacity,      \* the semaphore and the pool: 2
  MaxAttempts,   \* len(EMBEDDING_RETRY_DELAYS_S)
  MaxStarts,     \* bound: daemon processes started one after the other
  MaxEdits       \* bound: retrieval texts replaced in place

Sources == Base \cup Texts
Keys == Entities \X Sources

ASSUME EmbedAssumption ==
  /\ "entity" \in Base /\ Base \subseteq {"entity", "chunk"}
  /\ NoText \notin Texts /\ Texts \cap Base = {}
  /\ NoKey \notin Keys /\ IsFiniteSet(Tasks)
  /\ Capacity \in Nat \ {0} /\ MaxAttempts \in Nat \ {0}
  /\ MaxStarts \in Nat /\ MaxEdits \in Nat

VARIABLES
  vecAvailable, \* sqlite_vec can be imported
  up, starts,  \* the daemon runs; how often it was started
  draining,    \* shutdown: the scheduler is stopped, the coordinator refuses jobs
  status,      \* entities.status
  emb,         \* entities.embedding_status
  text,        \* entities.retrieval_text
  vec,         \* sources whose vectors are stored
  job,         \* rows of embedding_jobs and retrieval_embedding_jobs
  spc, snap,   \* the scheduler thread and the snapshot it claimed
  permits,     \* _capacity
  tpc, tkey,   \* each task and its snapshot
  rpc, scan,   \* the recovery thread and what its scan has still to visit
  edits        \* bound counter

process == <<vecAvailable, up, starts, draining>>
memory == <<status, text>>
rows == <<emb, vec, job>>
workers == <<spc, snap, permits, tpc, tkey>>
recovery == <<rpc, scan>>
embedVars == <<process, memory, rows, workers, recovery, edits>>

Row(st, n, due, lease) == [state |-> st, tries |-> n, due |-> due, lease |-> lease]
NoRow == Row("absent", 0, FALSE, "none")
QueuedRow == Row("queued", 0, TRUE, "none")

IsActive(r) == r.state \in {"queued", "running", "retry_wait"}
Waits(r) == r.state \in {"queued", "retry_wait"}

Ended(r, st) == [r EXCEPT !.state = st, !.lease = "none"]

Wanted(e) == Base \cup ({text[e]} \ {NoText})

(* A database of an earlier version may hold active memories without job    *)
(* rows, already embedded or not.                                           *)
EmbedInit ==
  /\ vecAvailable \in BOOLEAN
  /\ up = FALSE /\ starts = 0 /\ draining = FALSE
  /\ status \in [Entities -> {"absent", "active"}]
  /\ text \in [Entities -> Texts \cup {NoText}]
  /\ emb \in [Entities -> {"none", "ready"}]
  /\ \A e \in Entities : status[e] = "absent" => text[e] = NoText /\ emb[e] = "none"
  /\ vec = [e \in Entities |-> IF emb[e] = "ready" THEN {"entity"} ELSE {}]
  /\ job = [k \in Keys |-> NoRow]
  /\ spc = "idle" /\ snap = NoKey /\ permits = Capacity
  /\ tpc = [t \in Tasks |-> "free"] /\ tkey = [t \in Tasks |-> NoKey]
  /\ rpc = "off" /\ scan = {}
  /\ edits = 0

-----------------------------------------------------------------------------
(* The process                                                              *)

NoWorkers ==
  /\ spc' = "idle" /\ snap' = NoKey /\ permits' = Capacity
  /\ tpc' = [t \in Tasks |-> "free"] /\ tkey' = [t \in Tasks |-> NoKey]

StartDaemon ==
  /\ ~up /\ starts < MaxStarts
  /\ up' = TRUE /\ starts' = starts + 1
  /\ rpc' = "canary"
  /\ UNCHANGED <<vecAvailable, draining, memory, rows, workers, scan, edits>>

(* A crash, or the end of the shutdown sequence: rows stay as they are.     *)
ProcessEnds ==
  /\ up
  /\ up' = FALSE /\ draining' = FALSE
  /\ NoWorkers
  /\ rpc' = "off" /\ scan' = {}
  /\ UNCHANGED <<vecAvailable, starts, memory, rows, edits>>

(* EmbedJobScheduler.stop cancels tasks that no pool thread took yet, and   *)
(* their callback gives the permit back; begin_draining then refuses jobs.  *)
BeginDraining ==
  LET cancelled == {t \in Tasks : tpc[t] = "queued"}
  IN /\ up /\ ~draining
     /\ draining' = TRUE
     /\ tpc' = [t \in Tasks |-> IF t \in cancelled THEN "free" ELSE tpc[t]]
     /\ tkey' = [t \in Tasks |-> IF t \in cancelled THEN NoKey ELSE tkey[t]]
     /\ permits' = permits + Cardinality(cancelled)
     /\ UNCHANGED <<vecAvailable, up, starts, memory, rows, spc, snap, recovery, edits>>

Serving == up /\ ~draining

-----------------------------------------------------------------------------
(* Memory writes                                                            *)

(* enqueue_retrieval_embedding_job_for_entity, force=True                   *)
EnqueueRetrieval(e, x, jobs) ==
  [k \in Keys |->
     IF k[1] # e \/ k[2] \notin Texts THEN jobs[k]
     ELSE IF k[2] = x THEN QueuedRow
     ELSE IF IsActive(jobs[k]) THEN Ended(jobs[k], "cancelled") ELSE jobs[k]]

(* enqueue_embedding_jobs_for_entity, force=True                            *)
EnqueueBase(e, jobs) ==
  [k \in Keys |-> IF k[1] = e /\ k[2] \in Base THEN QueuedRow ELSE jobs[k]]

(* store_memory, and the new row of revise, supersede and consolidate.      *)
Store(e, x) ==
  /\ Serving /\ status[e] = "absent"
  /\ status' = [status EXCEPT ![e] = "active"]
  /\ text' = [text EXCEPT ![e] = x]
  /\ emb' = [emb EXCEPT ![e] = "pending"]
  /\ job' = EnqueueRetrieval(e, x, EnqueueBase(e, job))
  /\ UNCHANGED <<process, vec, workers, recovery, edits>>

(* store_memory with the id of an existing memory and a retrieval_text: the *)
(* old vector and the old work go before the new source is queued.  Nothing *)
(* asks whether the memory is archived.                                     *)
SetRetrievalText(e, x) ==
  /\ Serving /\ status[e] # "absent" /\ edits < MaxEdits
  /\ edits' = edits + 1
  /\ text' = [text EXCEPT ![e] = x]
  /\ vec' = [vec EXCEPT ![e] = @ \ Texts]
  /\ job' = EnqueueRetrieval(e, x, job)
  /\ UNCHANGED <<process, status, emb, workers, recovery>>

(* archive_memory, a replaced memory, a consolidated parent: cancel, clear. *)
Archive(e) ==
  /\ Serving /\ status[e] = "active"
  /\ status' = [status EXCEPT ![e] = "archived"]
  /\ emb' = [emb EXCEPT ![e] = "archived"]
  /\ job' = [k \in Keys |-> IF k[1] = e /\ IsActive(job[k])
                            THEN Ended(job[k], "cancelled") ELSE job[k]]
  /\ vec' = IF vecAvailable THEN [vec EXCEPT ![e] = {}] ELSE vec
  /\ UNCHANGED <<process, text, workers, recovery, edits>>

-----------------------------------------------------------------------------
(* Recovery                                                                 *)

(* EMBEDDING_RECOVERY_GAP_SQL                                               *)
RecoveryGap(e) == status[e] = "active" /\ \E s \in Wanted(e) : job[<<e, s>>] = NoRow

(* The canary of _run_embedding_recovery decides about the full scan.       *)
Canary ==
  /\ Serving /\ rpc = "canary"
  /\ IF \E e \in Entities : RecoveryGap(e)
     THEN rpc' = "scan" /\ scan' = {e \in Entities : status[e] = "active"} \X {"base", "retrieval"}
     ELSE rpc' = "done" /\ UNCHANGED scan
  /\ UNCHANGED <<process, memory, rows, workers, edits>>

(* run_backfill_chunk_embeddings_now always scans.                          *)
Backfill ==
  /\ Serving /\ rpc \in {"done", "failed"}
  /\ rpc' = "scan"
  /\ scan' = {e \in Entities : status[e] = "active"} \X {"base", "retrieval"}
  /\ UNCHANGED <<process, memory, rows, workers, edits>>

(* reconcile_embedding_jobs: rows that exist are left alone.                *)
ReconcileBase(e) ==
  /\ <<e, "base">> \in scan
  /\ scan' = scan \ {<<e, "base">>}
  /\ LET missing == {s \in Base : job[<<e, s>>] = NoRow}
     IN IF status[e] = "active" /\ missing # {}
        THEN /\ job' = [k \in Keys |-> IF k[1] = e /\ k[2] \in missing THEN QueuedRow ELSE job[k]]
             /\ emb' = [emb EXCEPT ![e] = "pending"]
        ELSE UNCHANGED <<job, emb>>
  /\ UNCHANGED vec

(* reconcile_retrieval_embedding_jobs: work for another text is cancelled,  *)
(* a vector without a succeeded job goes, a missing row is queued.          *)
ReconcileRetrieval(e) ==
  /\ <<e, "retrieval">> \in scan
  /\ scan' = scan \ {<<e, "retrieval">>}
  /\ LET x == text[e]
     IN IF status[e] = "active" /\ x # NoText
        THEN /\ vec' = IF job[<<e, x>>].state = "succeeded" THEN vec
                       ELSE [vec EXCEPT ![e] = @ \ Texts]
             /\ job' = [k \in Keys |->
                          IF k[1] # e \/ k[2] \notin Texts THEN job[k]
                          ELSE IF k[2] = x THEN (IF job[k] = NoRow THEN QueuedRow ELSE job[k])
                          ELSE IF IsActive(job[k]) THEN Ended(job[k], "cancelled") ELSE job[k]]
        ELSE UNCHANGED <<job, vec>>
  /\ UNCHANGED emb

(* One page of reconcile_all_embedding_jobs, here one memory.               *)
ReconcilePage(e) ==
  /\ Serving /\ rpc = "scan"
  /\ ReconcileBase(e) \/ ReconcileRetrieval(e)
  /\ UNCHANGED <<process, memory, workers, rpc, edits>>

ScanEnds ==
  /\ up /\ rpc = "scan" /\ scan = {}
  /\ rpc' = "done"
  /\ UNCHANGED <<process, memory, rows, workers, scan, edits>>

(* An exception, the stop event or a refusing coordinator ends recovery.    *)
RecoveryFails ==
  /\ up /\ rpc \in {"canary", "scan"}
  /\ rpc' = "failed" /\ scan' = {}
  /\ UNCHANGED <<process, memory, rows, workers, edits>>

-----------------------------------------------------------------------------
(* Time                                                                     *)

LeaseExpires(k) ==
  /\ job[k].lease = "live"
  /\ job' = [job EXCEPT ![k].lease = "expired"]
  /\ UNCHANGED <<process, memory, emb, vec, workers, recovery, edits>>

RetryDue(k) ==
  /\ job[k].state = "retry_wait" /\ ~job[k].due
  /\ job' = [job EXCEPT ![k].due = TRUE]
  /\ UNCHANGED <<process, memory, emb, vec, workers, recovery, edits>>

-----------------------------------------------------------------------------
(* Claiming                                                                 *)

(* _run_iteration: a permit first.                                          *)
AcquirePermit ==
  /\ Serving /\ spc = "idle" /\ permits > 0
  /\ permits' = permits - 1
  /\ spc' = "claim"
  /\ UNCHANGED <<process, memory, rows, snap, tpc, tkey, recovery, edits>>

LeaseLost(r) == r.state = "running" /\ r.lease = "expired"

(* Seeded fault: every lost lease is tried again.                           *)
AlwaysReclaim(r) == Row("retry_wait", r.tries, TRUE, "none")

(* A worker that lost its lease has used up an attempt.                     *)
Reclaim(r) ==
  IF r.tries >= MaxAttempts THEN Ended(r, "failed")
  ELSE Row("retry_wait", r.tries, TRUE, "none")

(* Seeded fault: a running row stays with its worker for ever.              *)
ExpireNothing(of, jobs) == jobs

(* The first UPDATE of a claim takes back what lost its lease.              *)
ExpireLeases(of, jobs) ==
  [k \in Keys |-> IF k[2] \in of /\ LeaseLost(jobs[k]) THEN Reclaim(jobs[k]) ELSE jobs[k]]

Claimable(k, jobs) ==
  /\ Waits(jobs[k]) /\ jobs[k].due
  /\ status[k[1]] # "archived"
  /\ k[2] \in Texts => text[k[1]] = k[2]

Claimed(k, jobs) ==
  [jobs EXCEPT ![k] = Row("running", @.tries + 1, TRUE, "live")]

(* _claim_any_embedding_job: base work first; the retrieval table, and its  *)
(* lost leases, are looked at only if there is none.                        *)
Claim ==
  /\ Serving /\ spc = "claim"
  /\ LET base == ExpireLeases(Base, job)
         all  == ExpireLeases(Texts, base)
         dueBase == {k \in Entities \X Base : Claimable(k, base)}
         dueText == {k \in Entities \X Texts : Claimable(k, all)}
     IN \/ \E k \in dueBase : job' = Claimed(k, base) /\ snap' = k
        \/ dueBase = {} /\ \E k \in dueText : job' = Claimed(k, all) /\ snap' = k
        \/ dueBase = {} /\ dueText = {} /\ job' = all /\ snap' = NoKey
  /\ IF snap' = NoKey THEN spc' = "idle" /\ permits' = permits + 1
     ELSE spc' = "dispatch" /\ UNCHANGED permits
  /\ UNCHANGED <<process, memory, emb, vec, tpc, tkey, recovery, edits>>

(* The claim raised: a locked database, or a draining coordinator.          *)
ClaimFails ==
  /\ up /\ spc = "claim"
  /\ spc' = "idle"
  /\ permits' = permits + 1
  /\ UNCHANGED <<process, memory, rows, snap, tpc, tkey, recovery, edits>>

-----------------------------------------------------------------------------
(* Tasks                                                                    *)

SetTask(t, at, k) == tpc' = [tpc EXCEPT ![t] = at] /\ tkey' = [tkey EXCEPT ![t] = k]
EndTask(t) == SetTask(t, "free", NoKey) /\ permits' = permits + 1

(* _mark_failure: submit the retry, or only give the permit back.           *)
MarkFailure(t) ==
  IF draining THEN EndTask(t)
  ELSE SetTask(t, "retry", tkey[t]) /\ UNCHANGED permits

(* _pool.submit; a pool that is shut down raises.                           *)
Dispatch(t) ==
  /\ up /\ spc = "dispatch" /\ tpc[t] = "free"
  /\ spc' = "idle" /\ snap' = NoKey
  /\ IF draining THEN permits' = permits + 1 /\ UNCHANGED <<tpc, tkey>>
     ELSE SetTask(t, "queued", snap) /\ UNCHANGED permits
  /\ UNCHANGED <<process, memory, rows, recovery, edits>>

TaskStarts(t) ==
  /\ tpc[t] = "queued"
  /\ SetTask(t, "infer", tkey[t])
  /\ UNCHANGED <<process, memory, rows, spc, snap, permits, recovery, edits>>

(* _infer_and_persist: inference ends and the persist is submitted.         *)
Infer(t) ==
  /\ tpc[t] = "infer"
  /\ IF draining THEN MarkFailure(t)
     ELSE SetTask(t, "persist", tkey[t]) /\ UNCHANGED permits
  /\ UNCHANGED <<process, memory, rows, spc, snap, recovery, edits>>

InferFails(t) ==
  /\ tpc[t] = "infer"
  /\ MarkFailure(t)
  /\ UNCHANGED <<process, memory, rows, spc, snap, recovery, edits>>

(* Seeded fault: the rows are not read again.                               *)
CurrentUnread(k) == TRUE

(* What a persist finds when it reads the rows again.                       *)
Current(k) ==
  /\ job[k].state = "running"
  /\ status[k[1]] # "archived"
  /\ k[2] \in Texts => text[k[1]] = k[2]

WriteVector(k) ==
  /\ vec' = [vec EXCEPT ![k[1]] = (IF k[2] \in Texts THEN @ \ Texts ELSE @) \cup {k[2]}]
  /\ emb' = IF k[2] = "entity" THEN [emb EXCEPT ![k[1]] = "ready"] ELSE emb
  /\ job' = [job EXCEPT ![k] = Ended(@, "succeeded")]

(* _persist_embedding_if_current and its retrieval twin.  Without           *)
(* sqlite_vec the first returns as if done, the second raises.              *)
Persist(t) ==
  /\ up /\ tpc[t] = "persist"
  /\ \/ Current(tkey[t]) /\ vecAvailable /\ WriteVector(tkey[t]) /\ EndTask(t)
     \/ /\ ~Current(tkey[t]) \/ (~vecAvailable /\ tkey[t][2] \in Base)
        /\ UNCHANGED rows
        /\ EndTask(t)
     \/ /\ Current(tkey[t]) /\ ~vecAvailable /\ tkey[t][2] \in Texts
        /\ UNCHANGED rows
        /\ MarkFailure(t)
  /\ UNCHANGED <<process, memory, spc, snap, recovery, edits>>

(* The persist raised, or begin_draining cancelled it.                      *)
PersistFails(t) ==
  /\ tpc[t] = "persist"
  /\ MarkFailure(t)
  /\ UNCHANGED <<process, memory, rows, spc, snap, recovery, edits>>

(* _retry_embedding_job: by job id, whoever holds the claim now.            *)
Retry(t) ==
  /\ up /\ tpc[t] = "retry"
  /\ LET r == job[tkey[t]]
     IN job' = IF r.state # "running" THEN job
               ELSE [job EXCEPT ![tkey[t]] =
                       IF r.tries >= MaxAttempts THEN Ended(r, "failed")
                       ELSE Row("retry_wait", r.tries, FALSE, "none")]
  /\ EndTask(t)
  /\ UNCHANGED <<process, memory, emb, vec, spc, snap, recovery, edits>>

(* Recording the failure failed or was cancelled; the lease will expire.    *)
RetryFails(t) ==
  /\ tpc[t] = "retry"
  /\ EndTask(t)
  /\ UNCHANGED <<process, memory, rows, spc, snap, recovery, edits>>

-----------------------------------------------------------------------------
Tool(e) ==
  \/ \E x \in Texts \cup {NoText} : Store(e, x) \/ SetRetrievalText(e, x)
  \/ Archive(e)
Recovery == Canary \/ ScanEnds \/ \E e \in Entities : ReconcilePage(e)
Task(t) == TaskStarts(t) \/ Infer(t) \/ Persist(t) \/ Retry(t)
TaskFails(t) == InferFails(t) \/ PersistFails(t) \/ RetryFails(t)

EmbedNext ==
  \/ StartDaemon \/ ProcessEnds \/ BeginDraining
  \/ \E e \in Entities : Tool(e)
  \/ Recovery \/ Backfill \/ RecoveryFails
  \/ \E k \in Keys : LeaseExpires(k) \/ RetryDue(k)
  \/ AcquirePermit \/ Claim \/ ClaimFails
  \/ \E t \in Tasks : Dispatch(t) \/ Task(t) \/ TaskFails(t)

EmbedSpec == EmbedInit /\ [][EmbedNext]_embedVars

(* Time passes, threads run and inference returns; the database is not      *)
(* locked on every single claim.                                            *)
EmbedFairness ==
  /\ WF_embedVars(AcquirePermit) /\ SF_embedVars(Claim)
  /\ WF_embedVars(\E t \in Tasks : Dispatch(t))
  /\ \A t \in Tasks : WF_embedVars(Task(t))
  /\ \A k \in Keys : WF_embedVars(LeaseExpires(k)) /\ WF_embedVars(RetryDue(k))

EmbedFairSpec == EmbedSpec /\ EmbedFairness

-----------------------------------------------------------------------------
(* Properties                                                               *)

RowStates == {"absent", "queued", "running", "retry_wait", "succeeded", "failed", "cancelled"}

(* Every variable has its type, and a job row holds a lease exactly while   *)
(* it is running.                                                           *)
EmbedTypeOK ==
  /\ {vecAvailable, up} \subseteq BOOLEAN /\ starts \in 0..MaxStarts /\ draining \in BOOLEAN
  /\ status \in [Entities -> {"absent", "active", "archived"}]
  /\ emb \in [Entities -> {"none", "pending", "ready", "archived"}]
  /\ text \in [Entities -> Texts \cup {NoText}]
  /\ vec \in [Entities -> SUBSET Sources]
  /\ job \in [Keys -> [state : RowStates, tries : Nat, due : BOOLEAN,
                       lease : {"none", "live", "expired"}]]
  /\ \A k \in Keys : job[k].lease = "none" <=> job[k].state # "running"
  /\ spc \in {"idle", "claim", "dispatch"} /\ snap \in Keys \cup {NoKey}
  /\ permits \in Nat
  /\ tpc \in [Tasks -> {"free", "queued", "infer", "persist", "retry"}]
  /\ tkey \in [Tasks -> Keys \cup {NoKey}]
  /\ rpc \in {"off", "canary", "scan", "done", "failed"}
  /\ scan \subseteq Entities \X {"base", "retrieval"}
  /\ edits \in 0..MaxEdits

(* "Never let lease recovery turn a fifth crash into unbounded sixth or     *)
(* seventh claims" (_claim_embedding_job): work that will be claimed again  *)
(* has an attempt left, after any mix of failures, crashes, lost leases and *)
(* late answers.                                                            *)
AttemptsBounded ==
  \A k \in Keys : job[k].tries <= MaxAttempts /\ (Waits(job[k]) => job[k].tries < MaxAttempts)

Held == Cardinality({t \in Tasks : tpc[t] # "free"}) + (IF spc = "idle" THEN 0 ELSE 1)

(* Each permit is either in the semaphore or with one claim or task,        *)
(* whichever way it ended: a leak would stop embedding for good, a double   *)
(* release would overcommit the pool (_run_iteration, _infer_and_persist,   *)
(* _persist_done, _mark_failure).                                           *)
PermitsExact == permits + Held = Capacity

(* An archived memory keeps no vector, whatever inference finishes late     *)
(* (archive_memory against _persist_embedding_if_current).                  *)
ArchivedHasNoVector ==
  vecAvailable => \A e \in Entities : status[e] = "archived" => vec[e] = {}

(* For an active memory a job that succeeded means a vector that search     *)
(* finds, and a retrieval vector is that of the present text: no sequence   *)
(* of replaced texts, late persists and recovery scans leaves a stale one   *)
(* or loses a good one.                                                     *)
SearchableIffDone ==
  \A e \in Entities : status[e] = "active" =>
    /\ \A s \in Base : job[<<e, s>>].state = "succeeded" => s \in vec[e]
    /\ \A x \in Texts : x \in vec[e] <=> (text[e] = x /\ job[<<e, x>>].state = "succeeded")

(* embedding_status = 'ready' lets vector search look for the memory, so    *)
(* its vector must be there.                                                *)
ReadyHasVector == \A e \in Entities : emb[e] = "ready" => "entity" \in vec[e]

(* When recovery is through, by its canary or by its scan, every active     *)
(* memory has a job row for every source (_run_embedding_recovery), even if *)
(* memories were stored, changed and archived while it scanned.             *)
RecoveryLeavesNoGap ==
  rpc = "done" =>
    \A e \in Entities : status[e] = "active" => \A s \in Wanted(e) : job[<<e, s>>] # NoRow

(* While a daemon stays up every job of an active memory ends: claimed,     *)
(* failed, lost and retried, it succeeds, fails for good or is cancelled.   *)
EveryJobEnds ==
  <>[]Serving =>
    \A k \in Keys : IsActive(job[k]) ~> (~IsActive(job[k]) \/ status[k[1]] = "archived")

(* Attempts of every job stay within MaxAttempts and each permit is held by *)
(* one task, through lost leases, late failures, crashes and restarts.      *)
JobsBounded == EmbedTypeOK /\ AttemptsBounded /\ PermitsExact

(* What search can find agrees with the memories and with the job rows,     *)
(* whatever was archived, retexted or recovered while a task computed.      *)
VectorsAgree == ArchivedHasNoVector /\ SearchableIffDone /\ ReadyHasVector /\ RecoveryLeavesNoGap

=============================================================================
