---------------------------- MODULE DigestDelivery ----------------------------
(***************************************************************************)
(* How a session gets its digest: the SessionStart hook fetches the core   *)
(* digest and the last-session digest and prints them; what it could not   *)
(* fetch stays in a marker file that the UserPromptSubmit hook claims by   *)
(* renaming it, fetches and prints.  Hooks are short-lived processes that  *)
(* share nothing but the two marker files, may run side by side and may be *)
(* killed by the harness between any two system calls.  A marker is        *)
(* renamed in one call and written in two: opening it empties it, and a    *)
(* process killed before the second leaves it empty.  Calls of the command *)
(* line tool take time, everything else is immediate.                      *)
(***************************************************************************)
EXTENDS Integers, FiniteSets

CONSTANTS Prompts,        \* UserPromptSubmit hook processes that may overlap
          StartBudget,    \* BUDGET_S of the SessionStart hook
          RetryBudget,    \* BUDGET_S of the UserPromptSubmit hook
          RunningGrace,   \* RUNNING_GRACE_S
          ClaimStale,     \* CLAIM_STALE_S
          MaxRetries,     \* MAX_RETRY_ATTEMPTS
          MaxSessionStarts, MaxKills

ASSUME DigestConstants ==
  /\ {StartBudget, RetryBudget, RunningGrace, ClaimStale, MaxRetries} \subseteq Nat
  /\ MaxRetries > 0 /\ RunningGrace <= ClaimStale

VARIABLES pendingFile,    \* digest-pending-<session>.json
          claimedFile,    \* digest-pending-<session>.json.claimed
          bootHook,       \* the SessionStart process
          retryHook,      \* the UserPromptSubmit processes
          book            \* what was owed, printed and given up, for the properties

digestVars == <<pendingFile, claimedFile, bootHook, retryHook, book>>

Parts   == {"core", "session"}
Ages    == 0..ClaimStale
Never   == -1                \* running_since is None
Start   == "start"
Writers == Prompts \cup {Start}

\* A marker that names no part is empty or torn text, which read_digest_pending ignores.
NoFile == [here |-> FALSE, parts |-> {}, attempts |-> 0, since |-> Never, mtime |-> 0, open |-> {}]
Marker(ps, n, s) ==
  [NoFile EXCEPT !.here = TRUE, !.parts = ps, !.attempts = n, !.since = s]
Readable(f) == f.parts # {}

\* Path.write_text: opening truncates; the text then lands in every file the open
\* descriptor still leads to, a rename included, and mixes with what another process has
\* written there meanwhile.  A write that fails leaves what there is.
OpenMarker(w) ==
  pendingFile' = [Marker({}, 0, Never) EXCEPT !.open = pendingFile.open \cup {w}]

Landed(f, w, m) ==
  IF w \notin f.open THEN {f}
  ELSE {[x EXCEPT !.open = f.open \ {w}] :
          x \in {m} \cup (IF Readable(f) THEN {Marker({}, 0, Never)} ELSE {})}

WriteMarker(w, m, written) ==
  /\ pendingFile' \in Landed(pendingFile, w, IF written THEN m ELSE pendingFile)
  /\ claimedFile' \in Landed(claimedFile, w, IF written THEN m ELSE claimedFile)

LetGo(f, w) == [f EXCEPT !.open = @ \ {w}]

\* prune_stale_state: a file as old as the model's clock tells may be a day old, or not yet.
Pruned(f) == {f} \cup (IF f.here /\ f.mtime = ClaimStale THEN {NoFile} ELSE {})

BootOff  == [pc |-> "off", age |-> 0, expected |-> {}, before |-> {}, missing |-> {}]
RetryOff == [pc |-> "off", age |-> 0, parts |-> {}, attempts |-> 0, got |-> {}]

DigestInit ==
  /\ pendingFile = NoFile
  /\ claimedFile = NoFile
  /\ bootHook = BootOff
  /\ retryHook = [r \in Prompts |-> RetryOff]
  /\ book = [owed |-> {}, shown |-> {}, cut |-> {}, failed |-> 0, starts |-> 0,
             kills |-> 0, amiss |-> FALSE]

RetriesBusy == {r \in Prompts : retryHook[r].pc # "off"}
Goes(r, pc) == retryHook' = [retryHook EXCEPT ![r].pc = pc]
BootGoes(pc) == bootHook' = [bootHook EXCEPT !.pc = pc]

\* No two hooks overlapped, one was killed at most, and every write of a marker succeeded.
\* (A second kill may lose a part: a start killed before it reconciles leaves a marker that
\* the next claim renames over an old claim.)
Orderly(b) == ~ b.amiss /\ b.kills <= 1

\* The book of the parts is kept as long as that holds.
Note(b) == book' = IF Orderly(b) THEN b
                   ELSE [b EXCEPT !.owed = {}, !.shown = {}, !.cut = {}, !.failed = 0]

-----------------------------------------------------------------------------
(* SessionStart. *)

\* A compaction only needs the core digest back.  The marker is read before any slow work,
\* to keep what an earlier start or retry left in it; a part only a pruned file held is let go.
BootSetup(compact) ==
  LET expected == IF compact THEN {"core"} ELSE Parts
  IN /\ bootHook.pc = "off"
     /\ book.starts < MaxSessionStarts
     /\ pendingFile' \in Pruned(pendingFile)
     /\ claimedFile' \in Pruned(claimedFile)
     /\ bootHook' = [BootOff EXCEPT !.pc = "open", !.expected = expected,
                                    !.before = expected \cup pendingFile'.parts]
     /\ Note([book EXCEPT !.starts = @ + 1,
          !.owed = @ \ ((pendingFile.parts \cup claimedFile.parts)
                          \ (pendingFile'.parts \cup claimedFile'.parts)),
          !.amiss = @ \/ RetriesBusy # {}])
     /\ UNCHANGED retryHook

BeginFetching(told) ==
  /\ BootGoes("fetch core")
  /\ Note([book EXCEPT !.failed = 0, !.amiss = @ \/ ~ told,
                          !.owed = @ \cup bootHook.expected,
                          !.shown = @ \ bootHook.expected, !.cut = @ \ bootHook.expected])

BootOpen(opened) ==
  /\ bootHook.pc = "open"
  /\ IF opened THEN OpenMarker(Start) /\ BootGoes("write") /\ UNCHANGED book
               ELSE BeginFetching(FALSE) /\ UNCHANGED pendingFile
  /\ UNCHANGED <<claimedFile, retryHook>>

BootWrite(written) ==
  /\ bootHook.pc = "write"
  /\ WriteMarker(Start, Marker(bootHook.before, 0, 0), written)
  /\ BeginFetching(written)
  /\ UNCHANGED retryHook

\* run_cli_bounded: a call fails, times out with the budget, or answers within it.
BootFetch(ok) ==
  LET part == IF bootHook.pc = "fetch core" THEN "core" ELSE "session"
  IN /\ bootHook.pc \in {"fetch core", "fetch session"}
     /\ ok => bootHook.age < StartBudget
     /\ bootHook' = [bootHook EXCEPT
          !.missing = IF ok THEN @ ELSE @ \cup {part},
          !.pc = IF part = "core" /\ "session" \in bootHook.expected
                 THEN "fetch session" ELSE "health"]
     /\ UNCHANGED <<pendingFile, claimedFile, retryHook, book>>

\* The overdue notice is fetched last and takes its share of the budget; then all is printed.
BootEmit ==
  /\ bootHook.pc = "health"
  /\ bootHook' = [bootHook EXCEPT !.pc = "reconcile"]
  /\ Note([book EXCEPT !.shown = @ \cup (bootHook.expected \ bootHook.missing)])
  /\ UNCHANGED <<pendingFile, claimedFile, retryHook>>

\* Seeded fault: the parts of a claim a killed retry left behind are not taken over.
UnionPending == bootHook.before \cup pendingFile.parts
AllPending == bootHook.before \cup pendingFile.parts \cup claimedFile.parts

\* What is left to deliver is written again, or the marker removed.
BootReconcile ==
  LET left == AllPending \ (bootHook.expected \ bootHook.missing)
  IN /\ bootHook.pc = "reconcile"
     /\ pendingFile' = IF left = {} THEN NoFile ELSE pendingFile
     /\ bootHook' = [bootHook EXCEPT !.pc = IF left = {} THEN "clear" ELSE "reopen",
                                     !.before = left]
     /\ UNCHANGED <<claimedFile, retryHook, book>>

BootReopen(opened) ==
  /\ bootHook.pc = "reopen"
  /\ IF opened THEN OpenMarker(Start) /\ BootGoes("rewrite") /\ UNCHANGED book
               ELSE /\ BootGoes("clear") /\ Note([book EXCEPT !.amiss = TRUE])
                    /\ UNCHANGED pendingFile
  /\ UNCHANGED <<claimedFile, retryHook>>

BootRewrite(written) ==
  /\ bootHook.pc = "rewrite"
  /\ WriteMarker(Start, Marker(bootHook.before, 0, Never), written)
  /\ BootGoes("clear")
  /\ Note([book EXCEPT !.amiss = @ \/ ~ written])
  /\ UNCHANGED retryHook

BootClear ==
  /\ bootHook.pc = "clear"
  /\ claimedFile' = NoFile
  /\ bootHook' = BootOff
  /\ UNCHANGED <<pendingFile, retryHook, book>>

-----------------------------------------------------------------------------
(* UserPromptSubmit. *)

\* _claim_ready: what the two files look like decides how to go on.
Look(r) ==
  /\ retryHook[r].pc = "off"
  /\ \/ /\ Readable(pendingFile)
        /\ ~ (pendingFile.since # Never /\ pendingFile.since < RunningGrace)
        /\ Goes(r, "claim")
     \/ /\ ~ Readable(pendingFile) /\ claimedFile.here
        /\ Goes(r, "stat")
  /\ Note([book EXCEPT !.amiss = @ \/ RetriesBusy # {} \/ bootHook.pc # "off"])
  /\ UNCHANGED <<pendingFile, claimedFile, bootHook>>

StatClaim(r) ==
  /\ retryHook[r].pc = "stat"
  /\ Goes(r, IF claimedFile.here /\ claimedFile.mtime >= ClaimStale THEN "recover" ELSE "off")
  /\ UNCHANGED <<pendingFile, claimedFile, bootHook, book>>

RecoverStaleClaim(r) ==
  /\ retryHook[r].pc = "recover"
  /\ IF claimedFile.here
     THEN /\ pendingFile' = claimedFile
          /\ claimedFile' = NoFile
          /\ Goes(r, IF Readable(claimedFile) THEN "claim" ELSE "off")
     ELSE Goes(r, "off") /\ UNCHANGED <<pendingFile, claimedFile>>
  /\ UNCHANGED <<bootHook, book>>

\* The rename is atomic and keeps the time stamp of the marker.
ClaimMarker(r) ==
  /\ retryHook[r].pc = "claim"
  /\ IF pendingFile.here
     THEN /\ claimedFile' = pendingFile
          /\ pendingFile' = NoFile
          /\ Goes(r, "touch")
     ELSE Goes(r, "off") /\ UNCHANGED <<pendingFile, claimedFile>>
  /\ UNCHANGED <<bootHook, book>>

TouchClaim(r) ==
  /\ retryHook[r].pc = "touch"
  /\ claimedFile' = IF claimedFile.here THEN [claimedFile EXCEPT !.mtime = 0] ELSE NoFile
  /\ Goes(r, "read")
  /\ UNCHANGED <<pendingFile, bootHook, book>>

ReadClaim(r) ==
  /\ retryHook[r].pc = "read"
  /\ retryHook' = [retryHook EXCEPT ![r] =
       IF Readable(claimedFile)
       THEN [RetryOff EXCEPT !.pc = "cli", !.parts = claimedFile.parts,
                             !.attempts = claimedFile.attempts]
       ELSE RetryOff]
  /\ UNCHANGED <<pendingFile, claimedFile, bootHook, book>>

\* The command line tool is looked up only now; without one the claim is given back.
ResolveCli(r, found) ==
  /\ retryHook[r].pc = "cli"
  /\ IF found
     THEN Goes(r, "fetch") /\ UNCHANGED <<pendingFile, claimedFile>>
     ELSE /\ Goes(r, "off")
          /\ pendingFile' = IF claimedFile.here THEN claimedFile ELSE pendingFile
          /\ claimedFile' = NoFile
  /\ UNCHANGED <<bootHook, book>>

\* The parts are fetched in order and the first that fails ends the fetching.
NextPart(r) == IF "core" \in retryHook[r].parts \ retryHook[r].got THEN "core" ELSE "session"

RetryFetch(r, ok) ==
  /\ retryHook[r].pc = "fetch"
  /\ ok => retryHook[r].age < RetryBudget
  /\ LET got == retryHook[r].got \cup (IF ok THEN {NextPart(r)} ELSE {})
     IN retryHook' = [retryHook EXCEPT ![r].got = got,
          ![r].pc = IF ok /\ got # retryHook[r].parts THEN "fetch" ELSE "emit"]
  /\ UNCHANGED <<pendingFile, claimedFile, bootHook, book>>

RetryEmit(r) ==
  /\ retryHook[r].pc = "emit"
  /\ Goes(r, "finish")
  /\ Note([book EXCEPT !.shown = @ \cup retryHook[r].got])
  /\ UNCHANGED <<pendingFile, claimedFile, bootHook>>

RetryAgain(n) == n + 1 < MaxRetries

\* Seeded fault: a marker that is written again starts counting anew.
NextAttemptsKept(n) == n
NextAttempts(n) == n + 1

LeftOver(r) == retryHook[r].parts \ retryHook[r].got

\* A part that failed often enough is given up; what is left else goes into a new marker.
FinishOpen(r, opened) ==
  LET again == LeftOver(r) # {} /\ RetryAgain(retryHook[r].attempts)
  IN /\ retryHook[r].pc = "finish"
     /\ IF again /\ opened THEN OpenMarker(r) ELSE UNCHANGED pendingFile
     /\ Goes(r, IF again /\ opened THEN "write" ELSE "unlink")
     /\ Note([book EXCEPT
          !.failed = IF LeftOver(r) # {} /\ @ < MaxRetries THEN @ + 1 ELSE @,
          !.owed = IF book.failed >= MaxRetries - 1 THEN @ \ LeftOver(r) ELSE @,
          !.amiss = @ \/ (again /\ ~ opened)])
     /\ UNCHANGED <<claimedFile, bootHook>>

FinishWrite(r, written) ==
  /\ retryHook[r].pc = "write"
  /\ WriteMarker(r, Marker(LeftOver(r), NextAttempts(retryHook[r].attempts), Never), written)
  /\ Goes(r, "unlink")
  /\ Note([book EXCEPT !.amiss = @ \/ ~ written])
  /\ UNCHANGED bootHook

FinishUnlink(r) ==
  /\ retryHook[r].pc = "unlink"
  /\ claimedFile' = NoFile
  /\ retryHook' = [retryHook EXCEPT ![r] = RetryOff]
  /\ UNCHANGED <<pendingFile, bootHook, book>>

-----------------------------------------------------------------------------
(* The harness and the clock. *)

\* What a start killed inside a write was writing is in no file any more.
KillStart ==
  /\ bootHook.pc # "off" /\ book.kills < MaxKills
  /\ bootHook' = BootOff
  /\ pendingFile' = LetGo(pendingFile, Start) /\ claimedFile' = LetGo(claimedFile, Start)
  /\ Note([book EXCEPT !.kills = @ + 1,
       !.cut = IF bootHook.pc \in {"write", "rewrite"} THEN @ \cup bootHook.before ELSE @])
  /\ UNCHANGED retryHook

KillRetry(r) ==
  /\ r \in RetriesBusy /\ book.kills < MaxKills
  /\ retryHook' = [retryHook EXCEPT ![r] = RetryOff]
  /\ pendingFile' = LetGo(pendingFile, r) /\ claimedFile' = LetGo(claimedFile, r)
  /\ Note([book EXCEPT !.kills = @ + 1])
  /\ UNCHANGED bootHook

Older(a, limit) == IF a < limit THEN a + 1 ELSE a
IdleSteps == {"off", "fetch core", "fetch session", "health", "fetch"}

DigestTick ==
  /\ bootHook.pc \in IdleSteps /\ bootHook.age < StartBudget
  /\ \A r \in Prompts : retryHook[r].pc \in IdleSteps /\ retryHook[r].age < RetryBudget
  /\ pendingFile.here \/ claimedFile.here
  /\ bootHook' = IF bootHook.pc = "off" THEN bootHook
                 ELSE [bootHook EXCEPT !.age = Older(@, StartBudget)]
  /\ retryHook' = [r \in Prompts |-> IF retryHook[r].pc = "off" THEN retryHook[r]
                     ELSE [retryHook[r] EXCEPT !.age = Older(@, RetryBudget)]]
  /\ pendingFile' = IF pendingFile.here
       THEN [pendingFile EXCEPT !.mtime = Older(@, ClaimStale),
               !.since = IF @ = Never THEN Never ELSE Older(@, RunningGrace)]
       ELSE NoFile
  /\ claimedFile' = IF claimedFile.here
       THEN [claimedFile EXCEPT !.mtime = Older(@, ClaimStale),
               !.since = IF @ = Never THEN Never ELSE Older(@, RunningGrace)]
       ELSE NoFile
  /\ <<bootHook', retryHook', pendingFile', claimedFile'>>
       # <<bootHook, retryHook, pendingFile, claimedFile>>
  /\ UNCHANGED book

RetryStep(r) ==
  \/ Look(r) \/ StatClaim(r) \/ RecoverStaleClaim(r) \/ ClaimMarker(r) \/ TouchClaim(r)
  \/ ReadClaim(r) \/ ResolveCli(r, TRUE) \/ RetryFetch(r, TRUE) \/ RetryFetch(r, FALSE)
  \/ RetryEmit(r) \/ FinishUnlink(r)
  \/ \E done \in BOOLEAN : FinishOpen(r, done) \/ FinishWrite(r, done)

BootStep ==
  \/ BootFetch(TRUE) \/ BootFetch(FALSE) \/ BootEmit \/ BootReconcile \/ BootClear
  \/ \E done \in BOOLEAN : \/ BootOpen(done) \/ BootWrite(done)
                           \/ BootReopen(done) \/ BootRewrite(done)

DigestNext ==
  \/ \E compact \in BOOLEAN : BootSetup(compact)
  \/ BootStep
  \/ \E r \in Prompts : RetryStep(r) \/ ResolveCli(r, FALSE)
  \/ KillStart
  \/ \E r \in Prompts : KillRetry(r)
  \/ DigestTick

\* The user keeps prompting, started hooks run, time passes, and the tool stays installed.
DigestFair ==
  /\ WF_digestVars(BootStep)
  /\ \A r \in Prompts : WF_digestVars(RetryStep(r)) /\ SF_digestVars(ResolveCli(r, TRUE))
  /\ SF_digestVars(DigestTick)

DigestSpec == DigestInit /\ [][DigestNext]_digestVars /\ DigestFair

-----------------------------------------------------------------------------
FileOK(f) ==
  /\ f.parts \subseteq Parts /\ f.attempts \in 0..(MaxRetries - 1)
  /\ f.mtime \in Ages /\ f.since \in Ages \cup {Never}
  /\ f.open \subseteq Writers
  /\ Readable(f) \/ f.open # {} => f.here

\* The marker files hold parts, a number of attempts below the limit, and times: a marker is
\* never written with its attempts used up.
DigestTypeOK ==
  /\ FileOK(pendingFile) /\ FileOK(claimedFile)
  /\ bootHook.age \in 0..StartBudget
  /\ \A r \in Prompts : retryHook[r].age \in 0..RetryBudget

\* Where a part can be that is still to be delivered.
InHand ==
  pendingFile.parts \cup claimedFile.parts
    \cup (IF bootHook.pc = "off" THEN {} ELSE bootHook.before)
    \cup UNION {retryHook[r].parts : r \in RetriesBusy}

\* A part that a session start promised is printed, or noted in a marker file, or in the
\* hands of a hook that still runs, or was tried MAX_RETRY_ATTEMPTS times, or was what a start
\* was writing into the marker when it was killed between opening and writing it.
NoPartForgotten == Orderly(book) => book.owed \subseteq book.cut \cup book.shown \cup InHand

\* The parts that wait in a marker file do not stay for ever: they are printed or given up
\* while the user keeps prompting and the tool can be found.
MarkersSettle == (Readable(pendingFile) \/ Readable(claimedFile))
                   ~> (~ Readable(pendingFile) /\ ~ Readable(claimedFile))

\* The part of the digest that a session start could not deliver is kept in a marker file until
\* a prompt has shown it, through timeouts, a kill and a claim that goes stale; the one
\* moment it is in no file is while a start writes the marker.
PartsKept == DigestTypeOK /\ NoPartForgotten

=============================================================================
