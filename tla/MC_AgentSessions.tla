--------------------------- MODULE MC_AgentSessions ---------------------------
(***************************************************************************)
(* An agent's session as the daemon sees it, as a later session is told of *)
(* it, and as the client's hooks record its turns.  The three share no     *)
(* variable, so one of them runs in a behaviour and the others stand still *)
(* in their initial state.                                                 *)
(***************************************************************************)
EXTENDS MC_DaemonSessions, SessionHandover, TraceCapture

(* A session that left nothing but its writes, and one that left work behind. *)
Left(captured, prompt, mids, response, background, created, touched) ==
    [captured |-> captured, prompt |-> prompt, mids |-> mids, response |-> response,
     background |-> background, created |-> created, touched |-> touched]

MCShapes == {Left(FALSE, 0, <<>>, 0, FALSE, 2, 0), Left(TRUE, 3, <<2, 6>>, 9, TRUE, 1, 1)}
MCNoWork == Left(FALSE, 0, <<>>, 0, FALSE, 0, 0)
MCMarkup == [frame |-> 2, line |-> 3, more |-> 1, session |-> 3, block |-> 1, hint |-> 2,
             trunc |-> 1, stub |-> 2]

-----------------------------------------------------------------------------
VARIABLE part

sessionVars == <<part, sessionsVars, handoverVars, traceVars>>

AgentSessionsInit ==
  /\ part \in {"daemon", "handover", "traces"}
  /\ SessionsInit /\ HandoverInit /\ TraceInit

AgentSessionsNext ==
  \/ /\ part = "daemon" /\ SessionsNext
     /\ UNCHANGED <<part, handoverVars, traceVars>>
  \/ /\ part = "handover" /\ HandoverNext
     /\ UNCHANGED <<part, sessionsVars, traceVars>>
  \/ /\ part = "traces" /\ TraceNext
     /\ UNCHANGED <<part, sessionsVars, handoverVars>>

AgentSessionsSpec == AgentSessionsInit /\ [][AgentSessionsNext]_sessionVars
=============================================================================
