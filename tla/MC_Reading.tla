----------------------------- MODULE MC_Reading -----------------------------
(***************************************************************************)
(* What an agent reads: a search and its pages, an assembled context, and  *)
(* the community index behind a global question.  Each is asked of a store *)
(* of its own, so one of them runs in a behaviour and the others stand     *)
(* still in one initial state.                                             *)
(***************************************************************************)
EXTENDS SearchPipeline, ContextAssembly, CommunityIndex

-----------------------------------------------------------------------------
(* A corpus of three memories and the queries asked of it.                 *)
CONSTANTS m1, m2, m3

MCRecency == <<m1, m2, m3>>
MCVectorOrder == <<m1, m2, m3>>
MCSideOrder == <<m3, m2>>

\* Chains, cycles and one fork.
MCCorpora ==
  {[live |-> {m1, m2, m3}, visible |-> v, edges |-> e, corrected |-> {}] :
     v \in {{m1, m2, m3}} \cup {{m1, m2, m3} \ {m} : m \in {m1, m2, m3}},
     e \in {{}, {<<m1, m2>>, <<m3, m2>>}} \cup
           {{<<x[1], x[2]>>, <<x[2], x[3]>>} :
              x \in {x \in {m1, m2, m3} \X {m1, m2, m3} \X {m1, m2, m3} : x[1] # x[2] /\ x[2] # x[3]}} \cup
           {{<<x[1], x[2]>>} : x \in {x \in {m1, m2, m3} \X {m1, m2, m3} : x[1] # x[2]}}}

Asked(mode, lex, full, topic, titled, side, encoder) ==
  [mode |-> mode, lex |-> lex, full |-> full, topic |-> topic, titled |-> titled,
   side |-> side, fresh |-> {m3}, encoder |-> encoder,
   semantic |-> encoder \/ lex # <<m1>>, events |-> {m2}]

MCQueries ==
  {Asked("strict", lex, full, topic, {}, side, encoder) :
     lex \in {<<>>, <<m1>>, <<m3, m1>>, <<m2, m3>>}, full \in {{}, {m1, m3}},
     topic \in {{}, {m1}, {m2, m3}}, side \in {"none", "chunk"}, encoder \in BOOLEAN}
  \cup
  {Asked("strict", <<m2, m3>>, {m3}, {m2}, {}, "retrieval", TRUE),
   Asked("browse", <<>>, {}, {}, {}, "none", FALSE)}
  \cup
  {Asked(mode, lex, {m1, m3}, {}, titled, side, encoder) :
     mode \in {"broad", "collapse", "history"}, lex \in {<<m1>>, <<m3, m1>>},
     titled \in {{}, {m1}, {m1, m2}}, side \in {"none", "retrieval"}, encoder \in BOOLEAN}

-----------------------------------------------------------------------------
(* Four memories, and the graphs and requests a call starts from.          *)
CONSTANTS a, b, c, d

MCPlace == [m \in {a, b, c, d} |-> IF m = a THEN 1 ELSE IF m = b THEN 2 ELSE IF m = c THEN 3 ELSE 4]
MCTokens == [m \in {a, b, c, d} |-> IF m \in {a, c} THEN 1 ELSE 2]

MCGraphs ==
  {[life |-> life, contra |-> contra, assoc |-> assoc, live |-> live,
    visible |-> visible, community |-> community] :
     life \in {{}, {<<b, a>>}, {<<b, a>>, <<b, c>>}, {<<d, c>>, <<c, b>>, <<b, a>>}},
     contra \in {{}, {<<a, b>>, <<c, d>>}, {<<a, c>>}, {<<a, d>>}},
     assoc \in {{<<a, d>>}, {<<c, b>>, <<b, d>>}},
     live \in {{a, b, c, d}, {d}},
     visible \in {{a, b, c, d}, {a, b, d}},
     community \in {[m \in {a, b, c, d} |-> IF m \in {c, d} THEN 1 ELSE 0]}}

MCRequests ==
  {[anchors |-> anchors, budget |-> budget] :
     anchors \in {<<a>>, <<b, a>>, <<d, a, d>>}, budget \in {1, 3}}

-----------------------------------------------------------------------------
(* Three memories in a line.                                               *)
CONSTANTS k1, k2, k3

MCPairs == {<<k1, k2>>, <<k2, k3>>}
\* k3 and k2 match the query equally well.
MCSimilarity == [m \in {k1, k2, k3} |-> IF m = k1 THEN 1 ELSE 3]
MCIdOrder == [m \in {k1, k2, k3} |-> IF m = k1 THEN 1 ELSE IF m = k2 THEN 3 ELSE 2]

-----------------------------------------------------------------------------
(* One part to a behaviour.                                                *)

VARIABLE part

readingVars == <<part, searchVars, ctxVars, indexVars>>

SearchIdle ==
  /\ corpus = [live |-> Memories, visible |-> Memories, edges |-> {}, corrected |-> {}]
  /\ query = Asked("browse", <<>>, {}, {}, {}, "none", FALSE)
  /\ search = [NewSearch EXCEPT !.window = StartWindow(query, 0),
                                !.began = EligibleSet(corpus)]
  /\ edits = 0

CtxIdle ==
  /\ graph = [life |-> {}, contra |-> {}, assoc |-> {}, live |-> {a, b, c, d},
              visible |-> {a, b, c, d}, community |-> [m \in {a, b, c, d} |-> 0]]
  /\ call = [NewCall([anchors |-> <<a>>, budget |-> 1]) EXCEPT !.seen = graph.visible]
  /\ writes = 0

ReadingInit ==
  /\ part \in {"search", "context", "communities"}
  /\ IF part = "search" THEN SearchInit ELSE SearchIdle
  /\ IF part = "context" THEN CtxInit ELSE CtxIdle
  /\ IndexInit

ReadingNext ==
  \/ part = "search" /\ SearchNext /\ UNCHANGED <<part, ctxVars, indexVars>>
  \/ part = "context" /\ CtxNext /\ UNCHANGED <<part, searchVars, indexVars>>
  \/ part = "communities" /\ IndexNext /\ UNCHANGED <<part, searchVars, ctxVars>>

ReadingSpec == ReadingInit /\ [][ReadingNext]_readingVars
=============================================================================
