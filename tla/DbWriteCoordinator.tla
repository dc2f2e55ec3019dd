-------------------------- MODULE DbWriteCoordinator --------------------------
(***************************************************************************)
(* The daemon's single database writer, src/saltmdb/daemon/                *)
(* db_write_coordinator.py, with the transaction wrapper it runs jobs in   *)
(* (src/saltmdb/db/connection.py).                                         *)
(*                                                                         *)
(* Threads: the writer thread (pc in wpc), any number of submitting        *)
(* threads, and the thread that shuts the daemon down.  Each critical      *)
(* section of _admission_lock is one action; everything the code does      *)
(* outside the lock is a step of its own.  A job stands for one call of    *)
(* submit or submit_maintenance.                                           *)
(***************************************************************************)
EXTENDS Integers, Sequences, FiniteSets

CONSTANTS
  Jobs,             \* the calls of submit / submit_maintenance
  NoJob,            \* "no job in hand", "no callback"
  Background,       \* jobs submitted with priority="background"
  Maintenance,      \* jobs wrapped in _Maintenance, run outside a transaction
  Callback,         \* Callback[j]: the job that j's done-callback submits if j fails
  ForegroundBurst,  \* the literal 8 of _next_job
  MaxRetries        \* RETRY_MAX_ATTEMPTS of write_transaction_retrying

ASSUME JobsAssumption ==
  /\ NoJob \notin Jobs
  /\ Background \subseteq Jobs
  /\ Maintenance \subseteq Background
  /\ Callback \in [Jobs -> Jobs \cup {NoJob}]
  /\ \A i, j \in Jobs : Callback[i] = Callback[j] /\ Callback[i] # NoJob => i = j

ASSUME BoundsAssumption == ForegroundBurst \in Nat \ {0} /\ MaxRetries \in Nat

VARIABLES
  started,     \* _started
  stopping,    \* _stopping
  foreground,  \* _foreground, a FIFO queue
  background,  \* _background, a FIFO queue
  fut,         \* what each job's Future (or its submit call) has come to
  notifyDue,   \* submitters between the admission and the notify of submit
  wpc,         \* where the writer thread is
  cur,         \* the job the writer has in hand
  run,         \* foreground_run
  attempt,     \* retries of the current transaction so far
  active,      \* _active_transaction
  tx,          \* jobs whose writes are in the open SQLite transaction
  committed,   \* jobs whose writes are in the database
  dpc,         \* where each caller of begin_draining is
  todo,        \* its jobs_to_cancel
  overtakes    \* history: foreground jobs taken while background work waited

lanes == <<foreground, background>>
writer == <<wpc, cur, run, attempt, active, tx, committed, overtakes>>
drains == <<dpc, todo>>
vars == <<started, stopping, lanes, fut, notifyDue, writer, drains>>

Drainers == {"main", "writer"}

FutStates == {"none", "pending", "inline", "result", "exception", "rejected"}

WriterPcs == {"off", "opening", "check", "next", "recheck", "prewait", "waiting",
              "begin", "running", "settleOk", "settleErr", "settleFatal",
              "callback", "callbackFatal", "finally", "openFailed", "dead"}

Elements(s) == {s[i] : i \in 1..Len(s)}
CallbackJobs == {Callback[j] : j \in Jobs} \ {NoJob}

(* __init__ *)
Init ==
  /\ started = FALSE
  /\ stopping = FALSE
  /\ foreground = <<>>
  /\ background = <<>>
  /\ fut = [j \in Jobs |-> "none"]
  /\ notifyDue = {}
  /\ wpc = "off"
  /\ cur = NoJob
  /\ run = 0
  /\ attempt = 0
  /\ active = FALSE
  /\ tx = {}
  /\ committed = {}
  /\ dpc = [t \in Drainers |-> "idle"]
  /\ todo = [t \in Drainers |-> {}]
  /\ overtakes = 0

-----------------------------------------------------------------------------
(* Admission                                                                *)

(* The admission block of submit and submit_maintenance: refused before     *)
(* start and once draining began, appended to its lane otherwise.           *)
Admit(j) ==
  IF started /\ ~stopping
  THEN /\ fut' = [fut EXCEPT ![j] = "pending"]
       /\ foreground' = IF j \in Background THEN foreground ELSE Append(foreground, j)
       /\ background' = IF j \in Background THEN Append(background, j) ELSE background
  ELSE /\ fut' = [fut EXCEPT ![j] = "rejected"]
       /\ UNCHANGED lanes

(* A thread other than the writer submits.  A callback that was attached    *)
(* after its future had already failed runs on the attaching thread.        *)
Submit(j) ==
  /\ fut[j] = "none"
  /\ \A p \in Jobs : Callback[p] = j => fut[p] = "exception"
  /\ Admit(j)
  /\ notifyDue' = IF started /\ ~stopping THEN notifyDue \cup {j} ELSE notifyDue
  /\ UNCHANGED <<started, stopping, writer, drains>>

(* The second critical section of submit: _wakeup.notify().                 *)
Notify(j) ==
  /\ j \in notifyDue
  /\ notifyDue' = notifyDue \ {j}
  /\ wpc' = IF wpc = "waiting" THEN "check" ELSE wpc
  /\ UNCHANGED <<started, stopping, lanes, fut, cur, run, attempt, active, tx,
                 committed, overtakes, drains>>

(* submit called on the writer thread while in_transaction(): fn runs at    *)
(* once on the writer's connection, inside the transaction if one is open,  *)
(* as a bare autocommit statement otherwise.                                *)
RunInline(j) ==
  /\ fut' = [fut EXCEPT ![j] = IF tx = {} THEN "result" ELSE "inline"]
  /\ tx' = IF tx = {} THEN {} ELSE tx \cup {j}
  /\ committed' = IF tx = {} THEN committed \cup {j} ELSE committed
  /\ UNCHANGED lanes

WriterSubmit(j) ==
  IF active THEN RunInline(j) ELSE Admit(j) /\ UNCHANGED <<tx, committed>>

-----------------------------------------------------------------------------
(* The writer thread                                                        *)

Start ==
  /\ ~started /\ wpc = "off"
  /\ started' = TRUE
  /\ wpc' = "opening"
  /\ UNCHANGED <<stopping, lanes, fut, notifyDue, cur, run, attempt, active, tx,
                 committed, overtakes, drains>>

(* _run opens the writer's connection.                                      *)
OpenConnection ==
  /\ wpc = "opening"
  /\ wpc' \in {"check", "openFailed"}
  /\ UNCHANGED <<started, stopping, lanes, fut, notifyDue, cur, run, attempt,
                 active, tx, committed, overtakes, drains>>

(* _wait_for_job reads _stopping without the lock, before and after         *)
(* _next_job.                                                               *)
CheckStopping ==
  /\ wpc \in {"check", "recheck"}
  /\ wpc' = IF stopping THEN "finally" ELSE IF wpc = "check" THEN "next" ELSE "prewait"
  /\ UNCHANGED <<started, stopping, lanes, fut, notifyDue, cur, run, attempt,
                 active, tx, committed, overtakes, drains>>

TakeForeground ==
  /\ foreground # <<>>
  /\ cur' = Head(foreground)
  /\ foreground' = Tail(foreground)
  /\ run' = run + 1
  /\ overtakes' = IF background = <<>> THEN 0 ELSE overtakes + 1
  /\ wpc' = "begin"
  /\ UNCHANGED background

TakeBackground ==
  /\ background # <<>>
  /\ cur' = Head(background)
  /\ background' = Tail(background)
  /\ run' = 0
  /\ overtakes' = 0
  /\ wpc' = "begin"
  /\ UNCHANGED foreground

TakeNothing ==
  /\ foreground = <<>> /\ background = <<>>
  /\ wpc' = "recheck"
  /\ UNCHANGED <<lanes, cur, run, overtakes>>

(* Seeded fault: off by one.                                                *)
LateBackgroundTurn == run > ForegroundBurst /\ background # <<>>

(* After ForegroundBurst foreground jobs in a row a waiting background job  *)
(* goes first.                                                              *)
BackgroundTurn == run >= ForegroundBurst /\ background # <<>>

NextJob ==
  /\ wpc = "next"
  /\ \/ (BackgroundTurn \/ foreground = <<>>) /\ TakeBackground
     \/ ~BackgroundTurn /\ TakeForeground
     \/ TakeNothing
  /\ UNCHANGED <<started, stopping, fut, notifyDue, attempt, active, tx, committed, drains>>

(* Seeded fault: the lanes are not read again under the lock.               *)
WaitUnchecked == ~stopping

(* _wait_for_job blocks only if, under the lock, there is still no work.    *)
MustWait == foreground = <<>> /\ background = <<>> /\ ~stopping

WaitForWakeup ==
  /\ wpc = "prewait"
  /\ wpc' = IF MustWait THEN "waiting" ELSE "check"
  /\ UNCHANGED <<started, stopping, lanes, fut, notifyDue, cur, run, attempt,
                 active, tx, committed, overtakes, drains>>

(* _execute_job up to BEGIN IMMEDIATE.                                      *)
BeginJob ==
  /\ wpc = "begin"
  /\ active' = TRUE
  /\ tx' = {cur} \ Maintenance
  /\ attempt' = 0
  /\ wpc' = "running"
  /\ UNCHANGED <<started, stopping, lanes, fut, notifyDue, cur, run, committed,
                 overtakes, drains>>

(* The job's function calls submit on the writer thread and uses the value  *)
(* at once.  Maintenance functions never do.                                *)
SubmitNested(j) ==
  /\ wpc = "running" /\ cur \notin Maintenance
  /\ j \notin Maintenance \cup CallbackJobs \cup tx
  /\ Callback[j] = NoJob /\ fut[j] \in {"none", "inline"}
  /\ WriterSubmit(j)
  /\ UNCHANGED <<started, stopping, notifyDue, wpc, cur, run, attempt, active,
                 overtakes, drains>>

(* "database is locked": the transaction is rolled back and fn runs again.  *)
RetryTransaction ==
  /\ wpc = "running" /\ cur \notin Maintenance
  /\ attempt < MaxRetries
  /\ attempt' = attempt + 1
  /\ tx' = {cur}
  /\ UNCHANGED <<started, stopping, lanes, fut, notifyDue, wpc, cur, run, active,
                 committed, overtakes, drains>>

(* Seeded fault: a call that ran inline counts as done when the outer       *)
(* transaction is rolled back.                                              *)
SettleInlineDone(kept) ==
  fut' = [j \in Jobs |-> IF fut[j] = "inline" THEN "result" ELSE fut[j]]

(* The calls that ran inline share the fate of the outer transaction; one   *)
(* that a retry did not repeat left no writes.                              *)
SettleInline(kept) ==
  fut' = [j \in Jobs |->
            IF fut[j] # "inline" THEN fut[j]
            ELSE IF j \in kept THEN "result" ELSE "exception"]

(* The flag is cleared before the future is settled, so that callbacks      *)
(* enqueue normally.                                                        *)
ClearActive == active' = FALSE

CommitJob ==
  /\ wpc = "running"
  /\ committed' = committed \cup tx
  /\ SettleInline(tx)
  /\ tx' = {}
  /\ ClearActive
  /\ wpc' = "settleOk"
  /\ UNCHANGED <<started, stopping, lanes, notifyDue, cur, run, attempt, overtakes, drains>>

(* Seeded fault: COMMIT in a finally clause.                                *)
FailJobCommitting ==
  /\ wpc = "running"
  /\ committed' = committed \cup tx
  /\ SettleInline({})
  /\ tx' = {}
  /\ ClearActive
  /\ wpc' \in {"settleErr", "settleFatal"}
  /\ UNCHANGED <<started, stopping, lanes, notifyDue, cur, run, attempt, overtakes, drains>>

(* An Exception rolls back; any other BaseException also ends the thread,   *)
(* and its transaction dies with the connection.                            *)
FailJob ==
  /\ wpc = "running"
  /\ SettleInline({})
  /\ tx' = {}
  /\ ClearActive
  /\ wpc' \in {"settleErr", "settleFatal"}
  /\ UNCHANGED <<started, stopping, lanes, notifyDue, cur, run, attempt, committed,
                 overtakes, drains>>

(* job.future.set_result / set_exception.                                   *)
SettleFuture ==
  /\ wpc \in {"settleOk", "settleErr", "settleFatal"}
  /\ fut' = [fut EXCEPT ![cur] = IF wpc = "settleOk" THEN "result" ELSE "exception"]
  /\ wpc' = IF wpc = "settleFatal" THEN "callbackFatal" ELSE "callback"
  /\ UNCHANGED <<started, stopping, lanes, notifyDue, cur, run, attempt, active, tx,
                 committed, overtakes, drains>>

(* The done-callback on the writer thread (if it was attached in time, and  *)
(* submits), then the finally clause of _execute_job.                       *)
RunCallback ==
  /\ wpc \in {"callback", "callbackFatal"}
  /\ \/ /\ fut[cur] = "exception" /\ Callback[cur] # NoJob
        /\ fut[Callback[cur]] = "none"
        /\ WriterSubmit(Callback[cur])
     \/ UNCHANGED <<fut, lanes, tx, committed>>
  /\ active' = FALSE
  /\ cur' = NoJob
  /\ wpc' = IF wpc = "callback" THEN "check" ELSE "finally"
  /\ UNCHANGED <<started, stopping, notifyDue, run, attempt, overtakes, drains>>

-----------------------------------------------------------------------------
(* begin_draining, called by the shutdown sequence and by the writer itself *)

MayDrain(t) == t = "writer" => wpc \in {"finally", "openFailed"}

(* Seeded fault: jobs_to_cancel is assigned per lane instead of extended.   *)
DrainTakeLastLane(t) ==
  /\ dpc[t] = "idle" /\ MayDrain(t)
  /\ stopping' = TRUE
  /\ todo' = [todo EXCEPT ![t] = Elements(background)]
  /\ foreground' = <<>>
  /\ background' = <<>>
  /\ dpc' = [dpc EXCEPT ![t] = "cancel"]
  /\ UNCHANGED <<started, fut, notifyDue, writer>>

DrainTake(t) ==
  /\ dpc[t] = "idle" /\ MayDrain(t)
  /\ stopping' = TRUE
  /\ todo' = [todo EXCEPT ![t] = Elements(foreground) \cup Elements(background)]
  /\ foreground' = <<>>
  /\ background' = <<>>
  /\ dpc' = [dpc EXCEPT ![t] = "cancel"]
  /\ UNCHANGED <<started, fut, notifyDue, writer>>

(* set_exception outside the lock.  A callback that runs here, or later on  *)
(* the thread that attaches it, is a Submit that finds _stopping set.       *)
DrainCancel(t, j) ==
  /\ dpc[t] = "cancel" /\ j \in todo[t]
  /\ todo' = [todo EXCEPT ![t] = @ \ {j}]
  /\ fut' = [fut EXCEPT ![j] = "exception"]
  /\ UNCHANGED <<started, stopping, lanes, notifyDue, writer, dpc>>

(* notify_all; the writer then closes its connection and ends.              *)
DrainNotify(t) ==
  /\ dpc[t] = "cancel" /\ todo[t] = {}
  /\ dpc' = [dpc EXCEPT ![t] = "done"]
  /\ wpc' = IF t = "writer" THEN "dead" ELSE IF wpc = "waiting" THEN "check" ELSE wpc
  /\ started' = IF t = "writer" /\ wpc = "openFailed" THEN FALSE ELSE started
  /\ UNCHANGED <<stopping, lanes, fut, notifyDue, cur, run, attempt, active, tx,
                 committed, overtakes, todo>>

(* Nothing is left to do after shutdown.                                    *)
Terminated ==
  /\ \A t \in Drainers : dpc[t] = "done"
  /\ notifyDue = {}
  /\ UNCHANGED vars

-----------------------------------------------------------------------------
WriterStep ==
  \/ OpenConnection \/ CheckStopping \/ NextJob \/ WaitForWakeup
  \/ BeginJob \/ CommitJob \/ FailJob \/ SettleFuture \/ RunCallback

DrainStep(t) == (\E j \in Jobs : DrainCancel(t, j)) \/ DrainNotify(t)

Next ==
  \/ Start
  \/ \E j \in Jobs : Submit(j) \/ Notify(j) \/ SubmitNested(j)
  \/ RetryTransaction
  \/ WriterStep
  \/ \E t \in Drainers : DrainTake(t) \/ DrainStep(t)
  \/ Terminated

Spec == Init /\ [][Next]_vars

(* Every thread that can run eventually does, and job functions return.     *)
(* Nothing obliges anyone to submit or to shut the daemon down.             *)
Fairness ==
  /\ WF_vars(WriterStep)
  /\ WF_vars(DrainTake("writer"))
  /\ \A t \in Drainers : WF_vars(DrainStep(t))
  /\ \A j \in Jobs : WF_vars(Notify(j))

FairSpec == Spec /\ Fairness

-----------------------------------------------------------------------------
(* Properties                                                               *)

(* Every variable of the coordinator has its type; in particular a          *)
(* transaction is retried at most RETRY_MAX_ATTEMPTS times                  *)
(* (write_transaction_retrying) and the writer has a job in hand exactly    *)
(* while it executes one.                                                   *)
TypeOK ==
  /\ started \in BOOLEAN /\ stopping \in BOOLEAN /\ active \in BOOLEAN
  /\ foreground \in Seq(Jobs) /\ background \in Seq(Jobs)
  /\ fut \in [Jobs -> FutStates]
  /\ notifyDue \subseteq Jobs
  /\ wpc \in WriterPcs
  /\ cur \in Jobs \cup {NoJob}
  /\ (cur \in Jobs) <=> wpc \in {"begin", "running", "settleOk", "settleErr",
                                 "settleFatal", "callback", "callbackFatal"}
  /\ run \in Nat /\ overtakes \in Nat
  /\ attempt \in 0..MaxRetries
  /\ tx \subseteq Jobs /\ committed \subseteq Jobs
  /\ dpc \in [Drainers -> {"idle", "cancel", "done"}]
  /\ todo \in [Drainers -> SUBSET Jobs]

InHand == IF wpc \in {"begin", "running", "settleOk", "settleErr", "settleFatal"}
          THEN {cur} ELSE {}
Cancelling == UNION {todo[t] : t \in Drainers}

(* No admitted job is dropped between the queues, the writer and the        *)
(* threads in begin_draining: whoever waits on an unsettled future waits    *)
(* for somebody who still holds the job.                                    *)
NoJobLost ==
  \A j \in Jobs : fut[j] = "pending" =>
     j \in Elements(foreground) \cup Elements(background) \cup InHand \cup Cancelling

Distinct(s) == \A i, k \in 1..Len(s) : s[i] = s[k] => i = k

(* Each job is held in one place only, and what is held is not settled yet: *)
(* set_result and set_exception are never called on a done future, which    *)
(* would raise and abort the loop of begin_draining or kill the writer.     *)
HeldOnce ==
  LET F == Elements(foreground)
      B == Elements(background)
  IN /\ Distinct(foreground) /\ Distinct(background)
     /\ F \cap B = {} /\ (F \cup B) \cap InHand = {}
     /\ (F \cup B \cup InHand) \cap Cancelling = {}
     /\ todo["main"] \cap todo["writer"] = {}
     /\ \A j \in F \cup B \cup InHand \cup Cancelling : fut[j] = "pending"

(* Once begin_draining took the lock the lanes stay empty, whatever         *)
(* submitters and callbacks are still on their way: no job is queued that   *)
(* the writer will never look at.                                           *)
StoppingEmptiesLanes == stopping => foreground = <<>> /\ background = <<>>

(* A caller is told that its write succeeded exactly if the write is in the *)
(* database: a failed, refused or cancelled job left nothing behind.  The   *)
(* one window is between COMMIT and set_result.                             *)
ReportedIffCommitted ==
  \A j \in Jobs \ Maintenance :
     j \in committed <=> fut[j] = "result" \/ (wpc = "settleOk" /\ j = cur)

(* Nothing reaches the database but by the COMMIT of an open transaction:   *)
(* a done-callback that submits is queued, never run as a bare statement on *)
(* the writer's connection.                                                 *)
WritesOnlyByCommit ==
  [][committed' # committed => wpc = "running" /\ committed' = committed \cup tx]_vars

(* "No more than eight foreground jobs can overtake waiting background      *)
(* work" (the comment of _next_job).                                        *)
BackgroundNotStarved == overtakes <= ForegroundBurst

(* Every admitted job settles, whatever the order of admission, notify,     *)
(* wait and shutdown: no wakeup is lost and no caller of submit blocks      *)
(* forever.                                                                 *)
EveryJobSettles ==
  \A j \in Jobs : fut[j] = "pending" ~> fut[j] \in {"result", "exception"}

(* Once draining began the writer thread ends, which the join of shutdown   *)
(* waits for.                                                               *)
WriterStops == (stopping /\ wpc # "off") ~> wpc = "dead"

(* The promise of the coordinator to its callers: each future, and each     *)
(* call of submit that raised, as its caller sees it.                       *)
Phase == IF stopping THEN "closed" ELSE IF started THEN "open" ELSE "new"
Seen == [none |-> "none", pending |-> "accepted", inline |-> "joined", result |-> "ok",
         exception |-> "failed", rejected |-> "refused"]
Outcome == [j \in Jobs |-> Seen[fut[j]]]

Promise == INSTANCE SerialWriter WITH
  Durable <- Jobs \ Maintenance, phase <- Phase, outcome <- Outcome, log <- committed

(* The lanes, the condition variable, the retries and the two drains        *)
(* together implement a serial writer that decides each call once.          *)
ImplementsSerialWriter == Promise!Spec

(* The writer keeps what it was given: while submitters, callbacks, the     *)
(* writer and two calls of begin_draining interleave, each unsettled job is *)
(* held in exactly one place and nothing is queued behind a stopped writer. *)
CustodyKept == TypeOK /\ NoJobLost /\ HeldOnce /\ StoppingEmptiesLanes

(* Whoever waits for the writer is answered: each future settles, and the   *)
(* thread that shutdown joins ends.                                         *)
WriterAnswers == EveryJobSettles /\ WriterStops

=============================================================================
