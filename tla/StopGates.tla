------------------------------- MODULE StopGates -------------------------------
(***************************************************************************)
(* The hooks that guard one agent session: the search gate before a tool   *)
(* call, the flags written after one, and the three gates that run         *)
(* whenever the agent wants to stop (self-critique, retrieval outcome,     *)
(* related memories).  A gate that blocks puts its prompt into the         *)
(* transcript and the agent goes on in the same turn.  The gates share no  *)
(* files, but each sees the stops the others cause.  The transcript is the *)
(* sequence of the lines their patterns can match.                         *)
(***************************************************************************)
EXTENDS Integers, Sequences, FiniteSets

CONSTANTS MemoryIds,      \* memories the related-memories command may return
          MaxListed,      \* MAX_LISTED
          MaxPrompts,     \* MAX_PROMPTS_PER_SESSION
          MaxCap,         \* MAX_SESSION_CAP
          MaxTurns, MaxToolLines   \* bounds of the run

ASSUME GateConstants ==
  {MaxListed, MaxPrompts, MaxCap} \subseteq Nat /\ IsFiniteSet(MemoryIds)

VARIABLES transcript,     \* the lines of the session
          turn,           \* the current turn, as the harness and the properties see it
          critique,       \* the four state files of the self-critique gate
          flag,           \* retrieval-outcome-pending and search-memory-called
          related,        \* the state file of the related-memories hook
          harness         \* what this harness offers: a transcript path, stop_hook_active

gateVars == <<transcript, turn, critique, flag, related, harness>>

\* An "ask1" line is the Stage 1 prompt and holds the done marker in its text, an "ask2" line
\* is the Stage 2 prompt and holds the no-lesson sentinel in its text.
Last(kinds) == LET at == {i \in DOMAIN transcript : transcript[i] \in kinds}
               IN IF at = {} THEN 0 ELSE CHOOSE i \in at : \A j \in at : j <= i
Has(kind, from) == \E i \in DOMAIN transcript : i >= from /\ transcript[i] = kind

OpenTurn == [open |-> TRUE, n |-> 1, blocked |-> FALSE, lists |-> 0,
             silent |-> FALSE]

GateInit ==
  /\ transcript = <<"user">>
  /\ turn = OpenTurn
  /\ critique = [count |-> 0, stage2 |-> 0, fires |-> 0, cap |-> 0, asks |-> 0]
  /\ flag = [outcome |-> 0, searched |-> FALSE]
  /\ related = [prompts |-> 0, pending |-> FALSE, shown |-> {}, seen |-> {}, again |-> FALSE]
  /\ harness \in [readable : BOOLEAN, active : BOOLEAN]

-----------------------------------------------------------------------------
(* Tool calls and their hooks. *)

ToolLines == Cardinality({i \in DOMAIN transcript : transcript[i] \in {"risky", "search", "store"}})
Write(kind) == transcript' = Append(transcript, kind)

\* Rule 1: without a search this session the call is denied, if that can be known at all.
SearchGateAllows == flag.searched \/ ~ harness.readable \/ Has("search", 1)

RiskyTool ==
  /\ turn.open /\ SearchGateAllows
  /\ ToolLines < MaxToolLines
  /\ Write("risky")
  /\ UNCHANGED <<turn, critique, flag, related, harness>>

SearchFlags == [outcome |-> 1, searched |-> TRUE]

\* The PostToolUse hook sets both flags; not every harness runs it.
SearchMemory(hooked) ==
  /\ turn.open
  /\ ToolLines < MaxToolLines
  /\ Write("search")
  /\ flag' = IF hooked THEN SearchFlags ELSE flag
  /\ turn' = [turn EXCEPT !.silent = @ \/ hooked]
  /\ UNCHANGED <<critique, related, harness>>

LogOutcome ==
  /\ turn.open /\ flag.outcome > 0
  /\ flag' = [flag EXCEPT !.outcome = 0]
  /\ turn' = [turn EXCEPT !.silent = FALSE]
  /\ UNCHANGED <<transcript, critique, related, harness>>

StoreMemory ==
  /\ turn.open
  /\ ToolLines < MaxToolLines
  /\ Write("store")
  /\ UNCHANGED <<turn, critique, flag, related, harness>>

\* The agent answers the self-critique questions, with the marker it was told to write.
Answer ==
  /\ turn.open
  /\ Last({"ask1"}) > Last({"answer"})
  /\ Write("answer")
  /\ UNCHANGED <<turn, critique, flag, related, harness>>

-----------------------------------------------------------------------------
(* The self-critique gate. *)

RetriesSpent(n) == n >= 2

\* Seeded fault: a retry is counted as a new episode and a new episode is not.
NewEpisodeSwapped(n) == n = 1
NewEpisode(n) == n = 0

Quiet(c) == [files |-> c, ask |-> "none"]

Stage1(c, roll) ==
  LET cap == IF c.cap > 0 THEN c.cap ELSE roll
  IN CASE RetriesSpent(c.count) -> Quiet([c EXCEPT !.count = 0])
       [] ~ RetriesSpent(c.count) /\ NewEpisode(c.count) /\ c.fires >= cap
            -> Quiet([c EXCEPT !.cap = cap])
       [] ~ RetriesSpent(c.count) /\ NewEpisode(c.count) /\ c.fires < cap
            -> [files |-> [c EXCEPT !.cap = cap, !.fires = @ + 1, !.count = @ + 1, !.asks = @ + 1],
                ask |-> "ask1"]
       [] OTHER -> [files |-> [c EXCEPT !.count = @ + 1, !.asks = @ + 1], ask |-> "ask1"]

Closed(from) == Has("store", from) \/ Has("ask2", from)

Stage2(c) ==
  LET marker == Last({"answer", "ask1"})
  IN CASE Closed(marker) -> Quiet([c EXCEPT !.count = 0, !.stage2 = 0])
       [] ~ Closed(marker) /\ c.stage2 >= 1 -> Quiet([c EXCEPT !.stage2 = 0])
       [] OTHER -> [files |-> [c EXCEPT !.stage2 = 1], ask |-> "ask2"]

\* The window starts after the last question wherever there is one, else at the user's line.
WindowStart == IF Last({"ask1"}) > 0 THEN Last({"ask1"}) + 1 ELSE Last({"user"})

CritiqueGate(roll) ==
  LET fresh == Last({"user"}) > Last({"ask1"})
      c     == IF fresh THEN [critique EXCEPT !.count = 0, !.stage2 = 0] ELSE critique
  IN CASE ~ harness.readable -> Quiet(critique)
       [] harness.readable /\ Last({"ask1"}) > 0 /\ Has("answer", WindowStart) -> Stage2(c)
       [] harness.readable /\ ~ (Last({"ask1"}) > 0 /\ Has("answer", WindowStart))
            -> IF Has("risky", WindowStart) THEN Stage1(c, roll) ELSE Quiet(c)

-----------------------------------------------------------------------------
(* The other two gates. *)

\* Seeded fault: the flag is left as it is when the agent was told once.
NudgedNot == 1
Nudged == 2

OutcomeGate == [flag EXCEPT !.outcome = IF @ = 1 THEN Nudged ELSE 0]

Remember(ids) == related.shown \cup ids

Guarded(late) ==
  \/ harness.active /\ turn.blocked
  \/ related.pending /\ ~ late

\* What the hook lists: fresh rows of the command's answer, at most MAX_LISTED of them.
\* late: the flag of the last block is older than PENDING_MAX_AGE_S.
RelatedRows(rows, late) ==
  IF Guarded(late) \/ related.prompts >= MaxPrompts THEN {}
  ELSE LET fresh == rows \ (related.shown \cup (IF harness.readable THEN related.seen ELSE {}))
       IN IF Cardinality(fresh) <= MaxListed THEN fresh
          ELSE CHOOSE s \in SUBSET fresh : Cardinality(s) = MaxListed

RelatedState(listed) ==
  IF listed = {} THEN [related EXCEPT !.pending = FALSE]
  ELSE [related EXCEPT !.prompts = @ + 1, !.pending = TRUE, !.shown = Remember(listed),
                       !.seen = @ \cup listed, !.again = @ \/ (listed \cap related.seen # {})]

-----------------------------------------------------------------------------
(* The harness. *)

\* One Stop event runs every gate; if none blocks, the turn is over.
StopEvent(roll, rows, late) ==
  LET crit   == CritiqueGate(roll)
      listed == RelatedRows(rows, late)
      nudge  == flag.outcome = 1
      blocks == crit.ask # "none" \/ listed # {} \/ nudge
  IN /\ turn.open
     /\ critique' = crit.files
     /\ transcript' = IF crit.ask = "none" THEN transcript ELSE Append(transcript, crit.ask)
     /\ flag' = OutcomeGate
     /\ related' = RelatedState(listed)
     /\ turn' = [turn EXCEPT !.open = blocks, !.blocked = blocks,
                             !.lists = IF listed = {} THEN @ ELSE @ + 1,
                             !.silent = @ /\ ~ nudge]
     /\ UNCHANGED harness

NewPrompt ==
  /\ ~ turn.open /\ turn.n < MaxTurns
  /\ Write("user")
  /\ turn' = [OpenTurn EXCEPT !.n = turn.n + 1]
  /\ UNCHANGED <<critique, flag, related, harness>>

SomeStop == \E roll \in 1..MaxCap, rows \in SUBSET MemoryIds, late \in BOOLEAN :
              /\ critique.cap > 0 => roll = critique.cap
              /\ late => related.pending
              /\ related.prompts >= MaxPrompts => rows = {}
              /\ StopEvent(roll, rows, late)

GateNext ==
  \/ RiskyTool \/ LogOutcome \/ StoreMemory \/ Answer
  \/ \E hooked \in BOOLEAN : SearchMemory(hooked)
  \/ SomeStop
  \/ NewPrompt

\* The agent wants to stop again after every block.
GateSpec == GateInit /\ [][GateNext]_gateVars /\ WF_gateVars(SomeStop)

-----------------------------------------------------------------------------
\* The counters of the state files keep their limits, with two questions to an episode and
\* one Stage 2 prompt to an answer: a retry burns no part of the session's cap, and no other
\* gate's block makes the self-critique gate ask more.
CritiqueBounded ==
  /\ critique.cap > 0 => critique.fires <= critique.cap
  /\ critique.asks <= 2 * critique.fires
  /\ Cardinality({i \in DOMAIN transcript : transcript[i] = "ask2"})
       <= Cardinality({i \in DOMAIN transcript : transcript[i] = "answer"})

\* "Listed ids are remembered in shown_ids and never listed again in the session", also where
\* the transcript cannot be read, and at most MAX_PROMPTS_PER_SESSION blocks list any.
ListedOnce == ~ related.again /\ related.prompts <= MaxPrompts

\* The related-memories hook blocks a turn at most once if the harness says that a stop
\* follows a block, whatever the other gates do in that turn.
OneListPerTurn == harness.active => turn.lists <= 1

\* No turn ends with a search the agent was neither told to report on nor reported on.
SearchReported == ~ turn.open => ~ turn.silent

\* The gates together let every turn end.
TurnCloses == turn.open ~> ~ turn.open

\* Each gate blocks a stop only as often as it may, lists a memory once, and no search goes
\* unreported, in any order of stops, re-stops and unreadable transcripts.
GatesBounded == CritiqueBounded /\ ListedOnce /\ OneListPerTurn /\ SearchReported

=============================================================================
