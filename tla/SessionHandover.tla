---------------------------- MODULE SessionHandover ----------------------------
(***************************************************************************)
(* The digest a new session gets of the sessions before it in its          *)
(* directory (domain/services/session_digest_service.py): one cohort of    *)
(* earlier sessions, the index of the memories they wrote, and the         *)
(* handover of their newest turns, shrunk and finally stubbed until both   *)
(* fit a budget of characters.                                             *)
(*                                                                         *)
(* Text is abstracted to its length.  The session table changes by the     *)
(* steps of the sessions themselves; rendering reads it at one moment.     *)
(***************************************************************************)
EXTENDS Integers, Sequences, FiniteSetsExt, TLC

CONSTANTS
    PriorSessions,  \* session ids, ordered integers
    WorkShapes,     \* the content a session may have left: newest turn, memories
    NoWork,         \* the content of a session that left none
    DigestBudgets,  \* the budgets callers ask for (0 turns the handover off)
    HorizonTicks,   \* bound on the clock
    WindowTicks,    \* HANDOVER_WINDOW_SECONDS
    RunningMaxAge,  \* HANDOVER_RUNNING_MAX_AGE_HOURS
    MaxCohort,      \* HANDOVER_MAX_SESSIONS
    CandidateLimit, \* COHORT_CANDIDATE_LIMIT
    MaxMidTurn,     \* HANDOVER_MAX_MID_TURN
    MinMessage,     \* HANDOVER_MIN_MESSAGE_CHARS
    HeadCap,        \* USER_MESSAGE_HEAD_CHARS
    IndexCreatedMax, IndexTouchedMax, IndexStubLines,
    MarkupLen       \* lengths of the markup around the text

Works == [captured : BOOLEAN, prompt : Nat, mids : Seq(Nat), response : Nat,
          background : BOOLEAN, created : Nat, touched : Nat]

ASSUME HandoverAssumption ==
    /\ PriorSessions \subseteq Int
    /\ WorkShapes \cup {NoWork} \subseteq Works
    /\ DigestBudgets \subseteq Nat
    /\ {HorizonTicks, WindowTicks, MaxCohort, MaxMidTurn, HeadCap} \subseteq Nat
    /\ {MinMessage, IndexCreatedMax, IndexTouchedMax, IndexStubLines} \subseteq Nat \ {0}
    /\ MarkupLen \in [frame : Nat, line : Nat, more : Nat, session : Nat, block : Nat, hint : Nat,
                     trunc : Nat, stub : Nat]
    /\ MarkupLen.line >= MarkupLen.more

VARIABLES
    wall,      \* the clock
    episodes,  \* the rows of _agent_sessions with their newest trace and their memories
    digest     \* the digest last rendered, or NoDigest

handoverVars == <<wall, episodes, digest>>

NoDigest == [budget |-> 0, len |-> 0, floor |-> 0, cohort |-> {}, stubs |-> {}, before |-> 0]
Running == -1
NoLimit == -1

-----------------------------------------------------------------------------
(* Selecting the cohort.                                                    *)

EffectiveEnd(s) == LET r == episodes[s] IN Max({r.started, r.ended, r.active})

\* Sessions with content, started before the cutoff, at most CandidateLimit by start.
Candidates(before) ==
    LET all == {s \in DOMAIN episodes : episodes[s].started < before /\ episodes[s].work # NoWork}
    IN  {s \in all : Cardinality({o \in all : \/ episodes[o].started > episodes[s].started
                                              \/ episodes[o].started = episodes[s].started /\ o > s})
                       < CandidateLimit}

\* A running session that has been silent for too long does not count.
Prepared(before) ==
    {s \in Candidates(before) :
       episodes[s].ended = Running => wall - EffectiveEnd(s) \in 0..RunningMaxAge}

Later(s, o) == \/ EffectiveEnd(s) > EffectiveEnd(o)
               \/ EffectiveEnd(s) = EffectiveEnd(o) /\ s > o

Latest(S) == CHOOSE s \in S : \A o \in S \ {s} : Later(s, o)

\* Seeded fault: a running session can be the anchor although others have ended.
AnchorOfAll(prepared) == Latest(prepared)

\* The newest ended session, or the newest running one when none has ended.
AnchorOf(prepared) ==
    LET ended == {s \in prepared : episodes[s].ended # Running}
    IN  Latest(IF ended # {} THEN ended ELSE prepared)

SelectCohort(before) ==
    LET prepared  == Prepared(before)
        floor     == episodes[AnchorOf(prepared)].started - WindowTicks
        expansion == {s \in prepared : EffectiveEnd(s) >= floor}
        near(s)   == \E o \in expansion :
                       LET d == episodes[s].started - episodes[o].started
                       IN  d \in -WindowTicks..WindowTicks
        chosen    == {s \in prepared : s \in expansion \/ near(s)}
    IN  IF prepared = {} THEN {}
        ELSE {s \in chosen : Cardinality({o \in chosen : Later(o, s)}) < MaxCohort}

-----------------------------------------------------------------------------
(* The index of memories.                                                   *)

SumOf(f) == MapThenSumSet(LAMBDA i : f[i], DOMAIN f)

CreatedBy(cohort) == SumOf([s \in cohort |-> episodes[s].work.created])
TouchedBy(cohort) == SumOf([s \in cohort |-> episodes[s].work.touched])

IndexText(c, t, created, touched) ==
    MarkupLen.frame + MarkupLen.line * (c + t)
      + (IF c < created THEN MarkupLen.more ELSE 0) + (IF t < touched THEN MarkupLen.more ELSE 0)

\* The stub of the index: a few lines, whatever the budget.
IndexStub(created, touched) ==
    LET visible == Min({IndexStubLines,
                        Min({created, IndexCreatedMax}) + Min({touched, IndexTouchedMax})})
    IN  MarkupLen.frame + MarkupLen.line * visible
          + (IF visible < created + touched THEN MarkupLen.more ELSE 0)

\* Lines are dropped one by one, touched memories before created ones.
IndexBody(created, touched, limit) ==
    LET c0 == Min({created, IndexCreatedMax})
        t0 == Min({touched, IndexTouchedMax})
        text(k) == LET c == Min({c0, k}) IN IndexText(c, k - c, created, touched)
    IN  text(Max({0} \cup {k \in 1..c0 + t0 : text(k) <= limit}))

RenderIndex(cohort, limit, stubbed) ==
    LET created == CreatedBy(cohort)
        touched == TouchedBy(cohort)
    IN  IF created + touched = 0 THEN MarkupLen.frame
        ELSE IF stubbed THEN IndexStub(created, touched)
        ELSE IF limit = NoLimit
        THEN IndexText(Min({created, IndexCreatedMax}), Min({touched, IndexTouchedMax}),
                       created, touched)
        ELSE IndexBody(created, touched, limit)

-----------------------------------------------------------------------------
(* The handover of the newest turns.                                        *)

Turn(s) == episodes[s].work
Picked(cohort) == {s \in cohort : Turn(s).captured}

\* The mid-turn messages shown: the last n.
MidShown(s, n) ==
    LET mids == Turn(s).mids
    IN  SubSeq(mids, Max({1, Len(mids) - n + 1}), Len(mids))

\* The messages whose length the cap decides: mid-turn messages and the response.
Capped(s, n) == MidShown(s, n) \o (IF Turn(s).response > 0 THEN <<Turn(s).response>> ELSE <<>>)

\* Prompts are cut at HeadCap; a background turn also quotes the request before it.
Heads(s) == <<Min({Turn(s).prompt, HeadCap})>>
              \o (IF Turn(s).background THEN <<HeadCap>> ELSE <<>>)

CutCount(s, n, cap) == Cardinality({i \in DOMAIN Capped(s, n) : Capped(s, n)[i] > cap})

\* A session in full, without the texts.
EmptySession(s, n) ==
    MarkupLen.session + MarkupLen.block * (Len(Heads(s)) + Len(Capped(s, n)))
      + (IF Len(MidShown(s, n)) < Len(Turn(s).mids) THEN MarkupLen.hint ELSE 0)

FullSession(s, n, cap) ==
    LET texts == Capped(s, n)
        cuts  == CutCount(s, n, cap)
        promptCut == Turn(s).prompt > HeadCap
    IN  EmptySession(s, n) + SumOf(Heads(s))
          + SumOf([i \in DOMAIN texts |-> Min({texts[i], cap})])
          + MarkupLen.trunc * (cuts + IF promptCut THEN 1 ELSE 0)
          + (IF cuts > 0 \/ promptCut THEN MarkupLen.hint ELSE 0)

HandoverFrame(stubs) ==
    MarkupLen.frame + (IF stubs = {} THEN MarkupLen.hint ELSE 0) + MarkupLen.stub * Cardinality(stubs)

EmptyMarkup(picked, stubs, n) ==
    HandoverFrame(stubs) + SumOf([s \in picked \ stubs |-> EmptySession(s, n)])

RenderMarkup(picked, stubs, n, cap) ==
    HandoverFrame(stubs) + SumOf([s \in picked \ stubs |-> FullSession(s, n, cap)])

\* The lengths of all messages of the sessions in full, by session and place.
Messages(s, n) == Heads(s) \o Capped(s, n)

HandoverLengths(full, n) ==
    [m \in UNION {{s} \X DOMAIN Messages(s, n) : s \in full} |-> Messages(m[1], n)[m[2]]]

\* The messages shorter than message i; of two of one length the first is.
Before(lengths, i) ==
    {j \in DOMAIN lengths :
       \/ lengths[j] < lengths[i]
       \/ lengths[j] = lengths[i] /\ (j[1] < i[1] \/ (j[1] = i[1] /\ j[2] < i[2]))}

\* Water filling, the shortest message first: the first that is longer than an
\* even share of what is left ends it, and all that are not shorter get that share.
AllocateCap(lengths, available) ==
    LET share(i) == (Max({available, 0}) - MapThenSumSet(LAMBDA j : lengths[j], Before(lengths, i)))
                      \div (Cardinality(DOMAIN lengths) - Cardinality(Before(lengths, i)))
        longer == {i \in DOMAIN lengths : lengths[i] > share(i)}
    IN  CASE lengths = <<>> -> 1
          [] lengths # <<>> /\ longer = {} -> Max({lengths[i] : i \in DOMAIN lengths})
          [] OTHER -> Max({1, share(CHOOSE i \in longer : Before(lengths, i) \cap longer = {})})

\* The cap shrinks by the overflow's share until the text fits or the floor is hit.
HandoverFit(picked, stubs, n, limit, cap) ==
    LET fit[c \in 0..cap] ==
          LET len  == RenderMarkup(picked, stubs, n, c)
              cuts == SumOf([s \in picked \ stubs |-> CutCount(s, n, c)])
              next == c - Max({1, (len - limit + cuts - 1) \div cuts})
          IN  IF len <= limit \/ cuts = 0 \/ next < MinMessage
              THEN [fits |-> len <= limit, len |-> len] ELSE fit[next]
    IN  fit[cap]

FitMessages(picked, stubs, n, limit, empty) ==
    IF limit - empty <= 0
    THEN [fits |-> FALSE, len |-> empty]
    ELSE HandoverFit(picked, stubs, n, limit,
                     AllocateCap(HandoverLengths(picked \ stubs, n), limit - empty))

FitPhase(picked, stubs, n, limit) ==
    [phase |-> FitMessages(picked, stubs, n, limit, EmptyMarkup(picked, stubs, n)),
     stubs |-> stubs]

\* Stubs are made in the order of the newest traces, the oldest first.
TraceOlder(s, o) == \/ episodes[s].active < episodes[o].active
                    \/ episodes[s].active = episodes[o].active /\ s < o

OldestTraces(picked, k) ==
    {s \in picked : Cardinality({o \in picked : TraceOlder(o, s)}) < k}

\* All messages, then only the last mid-turn message, then stubs, one more at a
\* time: the first phase that fits, or the last, is the handover.
FitAndStub(picked, limit) ==
    LET M == Cardinality(picked)
        phase(k) == FitPhase(picked, OldestTraces(picked, k), IF k = -1 THEN MaxMidTurn ELSE 1, limit)
        last == phase(Min({M} \cup {k \in -1..M : phase(k).phase.fits}))
    IN  [len |-> last.phase.len, stubs |-> last.stubs]

RenderHandover(cohort, limit) ==
    IF Picked(cohort) = {} THEN [len |-> 0, stubs |-> {}] ELSE FitAndStub(Picked(cohort), limit)

Joined(index, handover) ==
    [len |-> index + (IF handover.len > 0 THEN 1 + handover.len ELSE 0), stubs |-> handover.stubs]

UnlessStubbed(first, second) == IF first.stubs = {} THEN first ELSE second

\* Both parts, the handover with what the index leaves it.
RenderBoth(cohort, budget, index) == Joined(index, RenderHandover(cohort, budget - index - 1))

\* The index takes a quarter; when the handover had to stub, the index is stubbed
\* too and the handover is rendered again with what is left.
SessionDigest(cohort, budget) ==
    IF budget = 0 THEN [len |-> RenderIndex(cohort, NoLimit, FALSE), stubs |-> {}]
    ELSE UnlessStubbed(RenderBoth(cohort, budget, RenderIndex(cohort, budget \div 4, FALSE)),
                       RenderBoth(cohort, budget, RenderIndex(cohort, budget \div 4, TRUE)))

\* What the most reduced digest takes: the stub of the index and all sessions stubbed.
DigestFloor(cohort) ==
    RenderIndex(cohort, NoLimit, TRUE)
      + (IF Picked(cohort) = {} THEN 0 ELSE 1 + HandoverFrame(Picked(cohort)))

-----------------------------------------------------------------------------
(* The sessions and the reader.                                             *)

SessionStart(s) ==
    /\ s \notin DOMAIN episodes
    /\ \A o \in PriorSessions : o < s => o \in DOMAIN episodes
    /\ episodes' = [o \in DOMAIN episodes \cup {s} |->
                      IF o = s THEN [started |-> wall, ended |-> Running, active |-> wall,
                                     work |-> NoWork]
                      ELSE episodes[o]]
    /\ UNCHANGED <<wall, digest>>

\* The session captures a turn or writes memories; both are activity.
SessionWork(s, work) ==
    /\ episodes[s].ended = Running
    /\ episodes' = [episodes EXCEPT ![s].work = work, ![s].active = wall]
    /\ UNCHANGED <<wall, digest>>

SessionEnd(s) ==
    /\ episodes[s].ended = Running
    /\ episodes' = [episodes EXCEPT ![s].ended = wall]
    /\ UNCHANGED <<wall, digest>>

\* A new daemon closes every open row, as of its last activity.
OrphanSweep ==
    /\ \E s \in DOMAIN episodes : episodes[s].ended = Running
    /\ episodes' = [s \in DOMAIN episodes |->
                      IF episodes[s].ended = Running
                      THEN [episodes[s] EXCEPT !.ended = episodes[s].active] ELSE episodes[s]]
    /\ UNCHANGED <<wall, digest>>

\* An adapter that says hello again reopens its row.
SessionReopen(s) ==
    /\ episodes[s].ended # Running
    /\ episodes' = [episodes EXCEPT ![s].ended = Running, ![s].active = wall]
    /\ UNCHANGED <<wall, digest>>

WallTick ==
    /\ wall < HorizonTicks
    /\ wall' = wall + 1
    /\ UNCHANGED <<episodes, digest>>

\* Asked for at the horizon: an earlier request is the same request with every
\* time shifted, and all sessions can be shifted to a later start.
RenderSessionDigest(before, budget) ==
    /\ digest = NoDigest
    /\ wall = HorizonTicks
    /\ \E cohort \in {SelectCohort(before)} : \E out \in {SessionDigest(cohort, budget)} :
         digest' = [budget |-> budget, len |-> out.len, floor |-> DigestFloor(cohort),
                    cohort |-> cohort, stubs |-> out.stubs, before |-> before]
    /\ UNCHANGED <<wall, episodes>>

HandoverInit ==
    /\ wall = 0
    /\ episodes = [s \in {} |-> 0]
    /\ digest = NoDigest

HandoverNext ==
    \/ /\ digest = NoDigest
       /\ \/ \E s \in PriorSessions : SessionStart(s)
          \/ \E s \in DOMAIN episodes : \/ \E work \in WorkShapes : SessionWork(s, work)
                                        \/ SessionEnd(s)
                                        \/ SessionReopen(s)
          \/ OrphanSweep
          \/ WallTick
    \/ \E before \in {wall, wall + 1}, budget \in DigestBudgets : RenderSessionDigest(before, budget)

HandoverSpec == HandoverInit /\ [][HandoverNext]_handoverVars

-----------------------------------------------------------------------------
(* Properties.                                                              *)

\* "Render a budget-bounded index and handover" (session_digest_service.py:1): the
\* two parts together never exceed the budget when the most reduced digest fits
\* it, although the index is not trimmed below its frame, its stub ignores the
\* budget, and either can grow when the other is reduced (lines 657-673).
DigestFits ==
    digest.budget >= digest.floor /\ digest # NoDigest /\ digest.budget > 0
      => digest.len <= digest.budget

\* The newest session that ended before the cutoff is in the cohort, unless
\* running sessions with later activity fill it: concurrent sessions do not push
\* the one to hand over from out of the window (lines 62-97).
EndedNotForgotten ==
    LET ended == {s \in Candidates(digest.before) : episodes[s].ended # Running}
    IN  ended # {} /\ digest # NoDigest =>
          \/ Latest(ended) \in digest.cohort
          \/ /\ Cardinality(digest.cohort) = MaxCohort
             /\ \A s \in digest.cohort : Later(s, Latest(ended))

\* Water filling gives the largest cap at which all messages together take no more
\* than what is available, for every selection of sessions (lines 527-538).
WaterLevel ==
    digest # NoDigest /\ digest.budget > 0 =>
        LET full    == Picked(digest.cohort) \ digest.stubs
            lengths == HandoverLengths(full, 1)
            spent(c) == SumOf([i \in DOMAIN lengths |-> Min({lengths[i], c})])
            top     == Max({lengths[i] : i \in DOMAIN lengths})
        IN  full # {} =>
              \A available \in {digest.budget \div 4, digest.budget \div 2, digest.budget} :
                AllocateCap(lengths, available)
                  = Max({Min({1, top})} \cup {c \in 1..top : spent(c) <= available})

\* The digest of a new session keeps to its budget, tells of the session that ended last, and
\* shares what is left evenly between the sessions it tells of.
HandoverTold == DigestFits /\ EndedNotForgotten /\ WaterLevel

=============================================================================
