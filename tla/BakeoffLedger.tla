--------------------------- MODULE BakeoffLedger ---------------------------
(***************************************************************************)
(* The chain of custody of one retrieval bakeoff                           *)
(* (scripts/benchmarking/bakeoff_state.py, bakeoff_orchestrator.py): a run *)
(* directory whose checkpoint advances from SPEC_FROZEN to PROMOTED or     *)
(* RETAINED, each step paid for with signed evidence, written by cooperat- *)
(* ing orchestrator processes that hold an flock and that may be killed    *)
(* between any two of the files they replace.  Beside it the vault of blind*)
(* queries, opened only with an unlock the user confirmed for one winner.  *)
(*                                                                         *)
(* A fingerprint is the content it hashes, so artifacts are compared as    *)
(* values; a checkpoint's fingerprint covers its predecessor's, so a       *)
(* checkpoint is the whole chain of steps that led to it.                  *)
(***************************************************************************)
EXTENDS Naturals, Sequences, FiniteSets, SequencesExt

CONSTANTS
  Orchestrators,      \* processes that run the orchestrator's command line
  Experiments,        \* signed BakeoffSpecs
  Pipelines,          \* contenders a development winner may name
  QueryFiles,         \* contents the blind query file may have
  MaxLedgerKills,     \* kills of an orchestrator
  MaxSigned           \* unlocks and manifest receipts the custodian signs

\* A file that holds no spec.
NoSpec == "none"

ASSUME LedgerConstants == NoSpec \notin Experiments

VARIABLES
  ledger,     \* the run directory: the files the orchestrators replace
  clerk,      \* what each orchestrator is doing under the lock
  signed,     \* unlocks and manifest receipts signed so far
  opened,     \* blind reads that were let through
  kills

ledgerVars == <<ledger, clerk, signed, opened, kills>>

(***************************************************************************)
(* ALLOWED_TRANSITIONS and TRANSITION_EVIDENCE_KINDS.                      *)
(***************************************************************************)
Terminal == {"PROMOTED", "RETAINED"}

Allowed(state) ==
  CASE state = "SPEC_FROZEN"       -> {"DEV_INDEXED"}
    [] state = "DEV_INDEXED"       -> {"DEV_RETRIEVED"}
    [] state = "DEV_RETRIEVED"     -> {"DEV_JUDGED"}
    [] state = "DEV_JUDGED"        -> {"DEV_WINNER_SIGNED"}
    [] state = "DEV_WINNER_SIGNED" -> {"BLIND_UNLOCKED"}
    [] state = "BLIND_UNLOCKED"    -> {"BLIND_COMPLETE"}
    [] state = "BLIND_COMPLETE"    -> Terminal
    [] OTHER                       -> {}

(***************************************************************************)
(* Signed artifacts.  "sound" is what its own validator asks of the        *)
(* artifact's content: full coverage and no failures of a stage receipt,   *)
(* the metric vector, eligibility and 400 queries of a winner, the 800     *)
(* queries, deltas and attestation of a blind evaluation.                  *)
(***************************************************************************)
Stage(kind, run, sound) == [kind |-> kind, run |-> run, sound |-> sound]
Winner(run, p, sound) ==
  [kind |-> "DevelopmentWinner", run |-> run, pipeline |-> p, sound |-> sound]
Unlock(run, w) == [kind |-> "BlindUnlock", run |-> run, winner |-> w]
ManifestReceipt(run, w, u, f) ==
  [kind |-> "BlindQueryManifestReceipt", run |-> run, winner |-> w,
   unlock |-> u, file |-> f]
Evaluation(run, p, gates) ==
  [kind |-> "BlindEvaluation", run |-> run, pipeline |-> p, gates |-> gates]
Decision(run, promotion, gates, names) ==
  [kind |-> "PromotionDecision", run |-> run, promotion |-> promotion,
   gates |-> gates, names |-> names]

StageKind ==
  [DEV_INDEXED |-> "IndexBuildReceipt", DEV_RETRIEVED |-> "RetrievalRunBundle",
   DEV_JUDGED |-> "DevelopmentJudgments"]

ValidStage(a, spec) == a.run = spec /\ a.sound
ValidWinner(w, spec) == w.run = spec /\ w.sound
ValidUnlock(u, spec, w) == ValidWinner(w, spec) /\ u = Unlock(spec, w)
ValidReceipt(r, spec, w, u) ==
  ValidUnlock(u, spec, w) /\ r = ManifestReceipt(spec, w, u, r.file)
ValidDecision(d, spec) == d.run = spec /\ d.promotion = d.gates

AllWinners == {Winner(s, p, b) : s \in Experiments, p \in Pipelines, b \in BOOLEAN}
AllEvaluations ==
  {Evaluation(s, p, g) : s \in Experiments, p \in Pipelines, g \in BOOLEAN}
SignedUnlocks == {a \in signed : a.kind = "BlindUnlock"}
SignedReceipts == {a \in signed : a.kind = "BlindQueryManifestReceipt"}

(***************************************************************************)
(* The evidence each transition accepts, out of all that may be handed to  *)
(* it: _validate_transition_artifact of the orchestrator and of the state  *)
(* machine.                                                                *)
(***************************************************************************)
StageEvidence(target, spec) ==
  LET offered == {Stage(StageKind[target], s, b) : s \in Experiments, b \in BOOLEAN}
  IN  {{a} : a \in {a \in offered : ValidStage(a, spec)}}

WinnersOf(spec) == {w \in AllWinners : ValidWinner(w, spec)}
WinnerEvidence(spec) == {{w} : w \in WinnersOf(spec)}

\* The winner handed in with the unlock.
UnlockEvidence(spec) ==
  {{u.winner, u} : u \in {u \in SignedUnlocks : ValidUnlock(u, spec, u.winner)}}

EvaluationEvidence(spec) == {{b} : b \in {b \in AllEvaluations : b.run = spec}}

Custody(spec, w) ==
  {[winner |-> w, evaluation |-> b, unlock |-> r.unlock, receipt |-> r] :
     b \in {b \in AllEvaluations : b.run = spec /\ b.pipeline = w.pipeline},
     r \in {r \in SignedReceipts : ValidReceipt(r, spec, w, r.unlock)}}

\* The decision names the chain handed in with it, repeats what the evaluation
\* measured, and says what the terminal state says.
Verdicts(target, spec, names) ==
  {d \in {Decision(spec, p, g, names) : p \in BOOLEAN, g \in BOOLEAN} :
     /\ ValidDecision(d, spec)
     /\ d.gates = names.evaluation.gates
     /\ d.promotion = (target = "PROMOTED")}

TerminalEvidence(target, spec) ==
  UNION {{{c.winner, c.evaluation, c.unlock, c.receipt, d} :
            d \in Verdicts(target, spec, c)} :
         c \in UNION {Custody(spec, w) : w \in WinnersOf(spec)}}

Accepted(target, spec) ==
  CASE target \in DOMAIN StageKind   -> StageEvidence(target, spec)
    [] target = "DEV_WINNER_SIGNED" -> WinnerEvidence(spec)
    [] target = "BLIND_UNLOCKED"    -> UnlockEvidence(spec)
    [] target = "BLIND_COMPLETE"    -> EvaluationEvidence(spec)
    [] OTHER                        -> TerminalEvidence(target, spec)

(***************************************************************************)
(* The run directory.  A checkpoint is its chain of steps; <<>> is a file  *)
(* that does not exist.                                                    *)
(***************************************************************************)
Step(state, evidence) == [state |-> state, evidence |-> evidence]
EmptyRun ==
  [spec |-> NoSpec, history |-> <<>>, checkpoint |-> <<>>,
   index |-> <<>>, receipts |-> <<>>]
Resting == [pc |-> "idle", chain |-> <<>>, spec |-> NoSpec]

LedgerInit ==
  /\ ledger = EmptyRun
  /\ clerk = [o \in Orchestrators |-> Resting]
  /\ signed = {} /\ opened = {} /\ kills = 0

ChainIntact(copies) ==
  \A i \in 1..Len(copies) :
     Front(copies[i]) = IF i = 1 THEN <<>> ELSE copies[i - 1]

\* BakeoffStateMachine.load: the checkpoint is the newest entry of an unbroken
\* history.
Loads(l) ==
  /\ l.checkpoint # <<>> /\ l.history # <<>>
  /\ Last(l.history) = l.checkpoint
  /\ ChainIntact(l.history)

\* verify_checkpoint_history: the orchestrator's own copies end in it too.
Verifies(l) ==
  /\ l.index # <<>> /\ ChainIntact(l.index)
  /\ Loads(l) /\ Last(l.index) = l.checkpoint

\* Seeded fault: the lock file is opened but never locked.
LockNever(o) == clerk[o].pc = "idle"

LockFree(o) == \A p \in Orchestrators : clerk[p].pc = "idle"

(***************************************************************************)
(* initialize: refuses a directory that holds any of the four files, then  *)
(* freezes the spec.                                                       *)
(***************************************************************************)
Initialize(o, s) ==
  /\ LockFree(o)
  /\ ledger.spec = NoSpec /\ ledger.checkpoint = <<>>
  /\ ledger.index = <<>> /\ ledger.receipts = <<>>
  /\ clerk' = [clerk EXCEPT ![o] =
       [pc |-> "spec", spec |-> s,
        chain |-> <<Step("SPEC_FROZEN", {})>>]]
  /\ UNCHANGED <<ledger, signed, opened, kills>>

WriteSpec(o) ==
  /\ clerk[o].pc = "spec"
  /\ ledger' = [ledger EXCEPT !.spec = clerk[o].spec]
  /\ clerk' = [clerk EXCEPT ![o].pc = "history"]
  /\ UNCHANGED <<signed, opened, kills>>

(***************************************************************************)
(* advance and BakeoffStateMachine.transition up to the first write: load, *)
(* verify, compare the spec, check the edge, validate the evidence, and    *)
(* compute the next checkpoint from the one just loaded.                   *)
(***************************************************************************)
Advance(o, s) ==
  /\ LockFree(o)
  /\ Verifies(ledger)
  /\ ledger.spec = s
  /\ \E target \in Allowed(Last(ledger.checkpoint).state) :
     \E e \in Accepted(target, s) :
        clerk' = [clerk EXCEPT ![o] =
          [pc |-> "history", spec |-> s,
           chain |-> Append(ledger.checkpoint, Step(target, e))]]
  /\ UNCHANGED <<ledger, signed, opened, kills>>

\* _write_checkpoint: first the immutable history entry ...
WriteHistory(o) ==
  /\ clerk[o].pc = "history"
  /\ ledger' = [ledger EXCEPT !.history = Append(@, clerk[o].chain)]
  /\ clerk' = [clerk EXCEPT ![o].pc = "checkpoint"]
  /\ UNCHANGED <<signed, opened, kills>>

\* ... then the file everyone loads.
WriteCheckpoint(o) ==
  /\ clerk[o].pc = "checkpoint"
  /\ ledger' = [ledger EXCEPT !.checkpoint = clerk[o].chain]
  /\ clerk' = [clerk EXCEPT ![o].pc = "record"]
  /\ UNCHANGED <<signed, opened, kills>>

\* _record_checkpoint: the orchestrator's copy, refused unless it follows the
\* last copy.
RecordCheckpoint(o) ==
  /\ clerk[o].pc = "record"
  /\ LET follows == Front(clerk[o].chain)
                      = IF ledger.index = <<>> THEN <<>> ELSE Last(ledger.index)
     IN  /\ ledger' = IF follows
                      THEN [ledger EXCEPT !.index = Append(@, clerk[o].chain)]
                      ELSE ledger
         /\ clerk' = [clerk EXCEPT ![o] =
              IF follows THEN [@ EXCEPT !.pc = "receipt"] ELSE Resting]
  /\ UNCHANGED <<signed, opened, kills>>

\* _record_receipt, then the lock is released.
RecordReceipt(o) ==
  /\ clerk[o].pc = "receipt"
  /\ ledger' = [ledger EXCEPT !.receipts = Append(@, clerk[o].chain)]
  /\ clerk' = [clerk EXCEPT ![o] = Resting]
  /\ UNCHANGED <<signed, opened, kills>>

\* The process dies; the kernel drops its flock, the files stay as they are.
KillClerk(o) ==
  /\ clerk[o].pc # "idle" /\ kills < MaxLedgerKills
  /\ clerk' = [clerk EXCEPT ![o] = Resting]
  /\ kills' = kills + 1
  /\ UNCHANGED <<ledger, signed, opened>>

(***************************************************************************)
(* The custodian.  build_blind_unlock needs the user's confirmation for    *)
(* one winner; build_blind_manifest_receipt binds the query bytes to it.   *)
(***************************************************************************)
BuildBlindUnlock ==
  /\ Cardinality(signed) < MaxSigned
  /\ \E s \in Experiments, w \in AllWinners :
       /\ ValidWinner(w, s)
       /\ signed' = signed \cup {Unlock(s, w)}
  /\ UNCHANGED <<ledger, clerk, opened, kills>>

BuildManifestReceipt ==
  /\ Cardinality(signed) < MaxSigned
  /\ \E s \in Experiments, w \in AllWinners, u \in SignedUnlocks, f \in QueryFiles :
       /\ ValidUnlock(u, s, w)
       /\ signed' = signed \cup {ManifestReceipt(s, w, u, f)}
  /\ UNCHANGED <<ledger, clerk, opened, kills>>

Authorized(s, w, u, r, bytes) ==
  ValidUnlock(u, s, w) /\ ValidReceipt(r, s, w, u) /\ bytes = r.file

\* authorize_blind_file, and through it the blind retrieval cell, the blind
\* judge packets and the blind evaluation.
AuthorizeBlindFile ==
  /\ \E s \in Experiments, w \in AllWinners, u \in SignedUnlocks,
        r \in SignedReceipts, bytes \in QueryFiles :
       /\ Authorized(s, w, u, r, bytes)
       /\ opened' = opened \cup {[spec |-> s, winner |-> w, bytes |-> bytes]}
  /\ opened' # opened
  /\ UNCHANGED <<ledger, clerk, signed, kills>>

LedgerNext ==
  \/ \E o \in Orchestrators :
       \/ \E s \in Experiments : Initialize(o, s) \/ Advance(o, s)
       \/ WriteSpec(o) \/ WriteHistory(o) \/ WriteCheckpoint(o)
       \/ RecordCheckpoint(o) \/ RecordReceipt(o) \/ KillClerk(o)
  \/ BuildBlindUnlock \/ BuildManifestReceipt \/ AuthorizeBlindFile

LedgerSpec == LedgerInit /\ [][LedgerNext]_ledgerVars

-----------------------------------------------------------------------------
(* Properties.                                                             *)

(***************************************************************************)
(* The immutable history is one chain whatever the number of orchestrators *)
(* and wherever one is killed: every entry continues the one before along  *)
(* an allowed edge, and the orchestrator's copies and receipts never hold  *)
(* a checkpoint the history does not (_write_checkpoint before             *)
(* _record_checkpoint before _record_receipt, all under _run_lock).        *)
(***************************************************************************)
LedgerChained ==
  /\ ChainIntact(ledger.history)
  /\ \A i \in 2..Len(ledger.history) :
       Last(ledger.history[i]).state \in Allowed(Last(ledger.history[i - 1]).state)
  /\ IsPrefix(ledger.index, ledger.history)
  /\ ToSet(ledger.receipts) \subseteq ToSet(ledger.index)

(***************************************************************************)
(* A run ends PROMOTED exactly when the blind evaluation it rests on       *)
(* passed the gates, and that evaluation, the unlock and the manifest      *)
(* receipt are all of the one winner in the evidence (the terminal branch  *)
(* of _validate_transition_artifact).                                      *)
(***************************************************************************)
VerdictCoherent ==
  \A i \in 1..Len(ledger.history) :
    LET last == Last(ledger.history[i])
        Of(kind) == {a \in last.evidence : a.kind = kind}
    IN  last.state \in Terminal =>
          \E w \in Of("DevelopmentWinner"), b \in Of("BlindEvaluation"),
             u \in Of("BlindUnlock"), r \in Of("BlindQueryManifestReceipt") :
             /\ {w.run, b.run, u.run, r.run} = {ledger.spec}
             /\ b.pipeline = w.pipeline /\ u.winner = w /\ r.winner = w
             /\ r.unlock = u
             /\ b.gates = (last.state = "PROMOTED")

(***************************************************************************)
(* Blind queries are read only after the user confirmed an unlock for the  *)
(* very winner the reader names, and only in the bytes the receipt of that *)
(* unlock was signed over (authorize_blind_file).                          *)
(***************************************************************************)
BlindReadsAuthorized ==
  \A read \in opened :
    /\ Unlock(read.spec, read.winner) \in signed
    /\ ManifestReceipt(read.spec, read.winner,
                       Unlock(read.spec, read.winner), read.bytes) \in signed

(***************************************************************************)
(* History is append-only and a terminal run stays where it ended: no step *)
(* rewrites an entry or adds one after PROMOTED or RETAINED ("terminal     *)
(* runs cannot be restarted under the same run ID").                       *)
(***************************************************************************)
TerminalFinal ==
  [][/\ IsPrefix(ledger.history, ledger'.history)
     /\ (ledger.history # <<>> /\ Last(Last(ledger.history)).state \in Terminal
           => ledger'.history = ledger.history)]_ledgerVars

\* The record of an experiment can be trusted: chained, complete for its verdict, opened only
\* with an authorization, and final, while two orchestrators write it and one is killed.
LedgerSound == [](LedgerChained /\ VerdictCoherent /\ BlindReadsAuthorized) /\ TerminalFinal

=============================================================================
