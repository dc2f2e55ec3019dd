----------------------------- MODULE MC_Bakeoff -----------------------------
(***************************************************************************)
(* How a retrieval pipeline is chosen: the ledger of an experiment, the    *)
(* judging of its pooled results, and the fresh development set.  They     *)
(* share no variable, so one of them runs in a behaviour and the others    *)
(* stand still in one initial state.                                       *)
(*                                                                         *)
(* The judging has the baseline and one contender, two documents and three *)
(* judges.                                                                 *)
(*                                                                         *)
(* The fresh set has three queries, one per kind of facet; record files of *)
(* which one touches a protected source and one a protected family; index  *)
(* states in which the arms order the pool differently, the pool is cut, a *)
(* channel is empty, and a title is no longer unique.                      *)
(***************************************************************************)
EXTENDS BakeoffLedger, BakeoffJudging, FreshDevelopment

CONSTANTS e1, e2

\* The judges may differ on either document, by one grade or all three of them, and agree.
MCOpinions ==
  {[d \in {e1, e2} |-> IF d = e1 THEN o[1] ELSE o[2]] :
     o \in {<<2, 0>>, <<2, 1>>, <<2, 2>>, <<1, 2>>, <<0, 2>>, <<1, 1>>}}

\* The blind phase has the same actions; work is done again in the first.
MCMaxRemakes == [dev |-> 1, blind |-> 0]

MCFreshQueries == <<"t", "k", "n">>
MCDiscounts == <<1000, 631>>

Records(fam, src) ==
  [q \in {"t", "k", "n"} |->
     CASE q = "t" -> [facet |-> "exact_title", family |-> "f1", sources |-> {"d1"}]
       [] q = "k" -> [facet |-> "keyword", family |-> fam, sources |-> {src}]
       [] OTHER   -> [facet |-> "strict_negative", family |-> "f3", sources |-> {}]]

MCRecordFiles == {Records("f2", "d1"), Records("f2", "p1"), Records("fp", "d2")}

MCRunSpeeds == {[baseline |-> 100, candidate |-> c] : c \in {100, 120}}

\* The experiments of the fresh set, and the judges, differ in nothing but their names.
MCAlike == Permutations(FreshExperiments) \cup Permutations(Roles)

Chan(i, s) == [ids |-> i, scores |-> s]
Lexi(i, s) == [ids |-> i, raw |-> s]

\* lexical d1 d2, dense d2 d3: the pool is d2 d1, reranked d1 d2
Turned(t) == [lex |-> Lexi(<<"d1", "d2">>, <<-3, -1>>),
              dense |-> Chan(<<"d2", "d3">>, <<5, 4>>), title |-> t]
\* the dense channel returns nothing
Halved(t) == [lex |-> Lexi(<<"d3", "d1">>, <<-2, -2>>),
              dense |-> Chan(<<>>, <<>>), title |-> t]
\* two channels with nothing in common: the union is longer than the pool
Split(t) == [lex |-> Lexi(<<"d3", "d1">>, <<-9, -9>>),
             dense |-> Chan(<<"d2">>, <<7>>), title |-> t]

State(t, k, n) == [q \in {"t", "k", "n"} |->
                     CASE q = "t" -> t [] q = "k" -> k [] OTHER -> n]

MCIndexStates ==
  {State(Turned({"d1"}), Turned({}), Halved({})),
   State(Turned({"d1"}), Turned({}), Turned({})),
   State(Turned({"d1"}), Split({}), Halved({})),
   State(Turned({"d1", "d2"}), Turned({}), Halved({}))}

-----------------------------------------------------------------------------
VARIABLE part

bakeoffVars == <<part, ledgerVars, judgingVars, freshVars>>

FreshIdle ==
  /\ study = EmptyStudy /\ trial = NoTrial /\ cleared = Unwritten
  /\ live = (CHOOSE s \in IndexStates : TRUE) /\ panel = <<>> /\ redone = 0

BakeoffInit ==
  /\ part \in {"ledger", "judging", "fresh"}
  /\ LedgerInit /\ JudgingInit
  /\ IF part = "fresh" THEN FreshInit ELSE FreshIdle

BakeoffNext ==
  \/ part = "ledger" /\ LedgerNext /\ UNCHANGED <<part, judgingVars, freshVars>>
  \/ part = "judging" /\ JudgingNext /\ UNCHANGED <<part, ledgerVars, freshVars>>
  \/ part = "fresh" /\ FreshNext /\ UNCHANGED <<part, ledgerVars, judgingVars>>

BakeoffSpec == BakeoffInit /\ [][BakeoffNext]_bakeoffVars
=============================================================================
