------------------------- MODULE DaemonLifetime_proofs -------------------------
(***************************************************************************)
(* How long a daemon lives and who owns the database: the proofs about the *)
(* sessions of one daemon, then those about the election between daemons.  *)
(***************************************************************************)
EXTENDS DaemonSessions, DaemonElection, FiniteSetTheorems, WellFoundedInduction, TLAPS

(***************************************************************************)
(* The daemon's sessions, leases and lifetime, for any connections, calls, *)
(* agents, timers and restarts.  SessionsInv adds to what the runs check   *)
(* the facts that make it inductive: a lease for each call in dispatch,    *)
(* where a handler stands when its record exists or is closing, that of    *)
(* two connections of one agent at least one is gone, and what is clear    *)
(* before the process serves.                                              *)
(***************************************************************************)

CallsOf(c) == {k \in Calls : cpc[k] = "dispatch" /\ caller[k] = c}

LeasesCounted == \A c \in Conns : leases[c] = Cardinality(CallsOf(c))

InSession == {"reply", "session", "drainLeases", "closeRow", "acked", "leave"}
Parting == {"drainLeases", "closeRow", "acked"}

(* A record exists from the row written until the handler leaves.           *)
RecordsPlaced ==
  \A c \in Conns :
    /\ c \in registered <=> hpc[c] \in InSession
    /\ c \in closing => hpc[c] \in Parting \cup {"leave", "closed"}
    /\ hpc[c] \in Parting => c \in closing /\ c \in leaving /\ c \notin gone
    /\ hpc[c] \in {"drainLeases", "closeRow"} => row[Agent[c]] = "open"

OneLivePerAgent ==
  \A c, d \in Conns :
    c # d /\ Agent[c] = Agent[d] /\ hpc[c] # "none" /\ hpc[d] # "none" => c \in gone \/ d \in gone

NotYetServing ==
  mpc \in {"down", "publish"} =>
    /\ ~recovery /\ drainedBy = NoTimer
    /\ \A t \in TimerIds : timer[t] = "free"
    /\ \A c \in Conns : hpc[c] \in {"none", "closed"}
    /\ \A k \in Calls : cpc[k] \in {"idle", "done", "refused", "killed"}

DrainedByDrains == drainedBy # NoTimer => draining

Counts == InflightExact /\ LeasesCounted /\ GoodbyeWaitsForCalls
Lifetime == GraceKillsNoWork /\ DrainedByDrains /\ IdleIsTimed /\ NotYetServing
Rows == RecordsPlaced /\ OneLivePerAgent /\ LiveRowOpen /\ OpenRowIsCurrent

SessionsInv == SessionsTypeOK /\ Counts /\ Lifetime /\ Rows

-----------------------------------------------------------------------------
(* The grace timer                                                          *)

TimerType == [TimerIds -> {"free", "armed", "fired"}]

(* Cancelling leaves timers, and frees none that had fired.                 *)
LEMMA CancelledTypes == SessionsTypeOK => Cancelled \in TimerType
BY DEF SessionsTypeOK, Cancelled, TimerType

(* An idle daemon has a timer after _release_inflight and                   *)
(* unregister_session; a busy one keeps what it had.                        *)
LEMMA Rearmed ==
  ASSUME SessionsTypeOK, NEW idle \in BOOLEAN, RearmIf(idle)
  PROVE  /\ timer' \in TimerType /\ current' \in TimerIds \cup {NoTimer}
         /\ idle => \E t \in TimerIds : timer'[t] # "free"
<1>1. CASE idle
  <2>1. PICK t \in TimerIds : timer' = [Cancelled EXCEPT ![t] = "armed"] /\ current' = t
    BY <1>1 DEF RearmIf, StartGrace
  <2>2. timer' \in TimerType /\ timer'[t] = "armed"
    BY <2>1, CancelledTypes DEF TimerType
  <2> QED BY <2>1, <2>2
<1>2. CASE ~idle
  BY <1>2 DEF RearmIf, grace, SessionsTypeOK, TimerType
<1> QED BY <1>1, <1>2

(* _release_inflight gives one back.                                        *)
LEMMA Released ==
  ASSUME SessionsTypeOK, inflight > 0, ReleaseInflight
  PROVE  /\ inflight' = inflight - 1 /\ inflight' \in Nat
         /\ timer' \in TimerType /\ current' \in TimerIds \cup {NoTimer}
         /\ sessions = {} /\ inflight' = 0 /\ ~draining /\ ~foreground =>
              \E t \in TimerIds : timer'[t] # "free"
<1>1. inflight' = inflight - 1 /\ inflight' \in Nat
  BY DEF SessionsTypeOK, ReleaseInflight
<1>2. GoesIdle(sessions, inflight - 1) \in BOOLEAN /\ RearmIf(GoesIdle(sessions, inflight - 1))
  BY DEF GoesIdle, ReleaseInflight
<1>3. /\ timer' \in TimerType /\ current' \in TimerIds \cup {NoTimer}
      /\ GoesIdle(sessions, inflight - 1) => \E t \in TimerIds : timer'[t] # "free"
  BY <1>2, Rearmed
<1> QED BY <1>1, <1>3 DEF GoesIdle

(* unregister_session takes the record and, if none is left, arms a timer.  *)
LEMMA Unregistered ==
  ASSUME SessionsTypeOK, NEW c \in Conns, UnregisterSession(c)
  PROVE  /\ sessions' = sessions \ {c} /\ registered' = registered \ {c}
         /\ timer' \in TimerType /\ current' \in TimerIds \cup {NoTimer}
         /\ sessions' = {} /\ inflight = 0 /\ ~draining /\ ~foreground =>
              \E t \in TimerIds : timer'[t] # "free"
<1>1. sessions' = sessions \ {c} /\ registered' = registered \ {c}
  BY DEF UnregisterSession
<1>2. GoesIdle(sessions \ {c}, inflight) \in BOOLEAN /\ RearmIf(GoesIdle(sessions \ {c}, inflight))
  BY DEF GoesIdle, UnregisterSession
<1>3. /\ timer' \in TimerType /\ current' \in TimerIds \cup {NoTimer}
      /\ GoesIdle(sessions \ {c}, inflight) => \E t \in TimerIds : timer'[t] # "free"
  BY <1>2, Rearmed
<1> QED BY <1>1, <1>3 DEF GoesIdle

-----------------------------------------------------------------------------
(* Dispatches in flight                                                     *)

(* The dispatches can be counted.                                           *)
LEMMA DispatchFinite == IsFiniteSet(InDispatch) /\ Cardinality(InDispatch) \in Nat
<1>1. InDispatch \in SUBSET Calls
  BY DEF InDispatch
<1>2. IsFiniteSet(InDispatch)
  BY <1>1, SessionsAssumption, FS_Subset
<1> QED BY <1>2, FS_CardinalityType

(* So can the calls of one connection.                                      *)
LEMMA CallsOfFinite ==
  ASSUME NEW c PROVE IsFiniteSet(CallsOf(c)) /\ Cardinality(CallsOf(c)) \in Nat
<1>1. CallsOf(c) \in SUBSET Calls
  BY DEF CallsOf
<1>2. IsFiniteSet(CallsOf(c))
  BY <1>1, SessionsAssumption, FS_Subset
<1> QED BY <1>2, FS_CardinalityType

(* Counting an element more.                                                *)
LEMMA OneMore ==
  ASSUME NEW S, IsFiniteSet(S), NEW x, x \notin S
  PROVE  Cardinality(S \cup {x}) = Cardinality(S) + 1
BY FS_AddElement, Zenon

(* Counting an element less.                                                *)
LEMMA OneLess ==
  ASSUME NEW S, IsFiniteSet(S), NEW x, x \in S
  PROVE  Cardinality(S \ {x}) = Cardinality(S) - 1
BY FS_RemoveElement, Zenon

(* A member makes the count positive.                                       *)
LEMMA NotEmptyCounts ==
  ASSUME NEW S, IsFiniteSet(S), NEW x, x \in S
  PROVE  Cardinality(S) > 0
<1>1. Cardinality(S) # 0
  BY FS_EmptySet, Zenon
<1>2. Cardinality(S) \in Nat
  BY FS_CardinalityType
<1> QED BY <1>1, <1>2

(* A dispatch or the recovery thread in hand: the counter is positive.      *)
LEMMA InHandCounts ==
  ASSUME SessionsTypeOK, InflightExact, recovery \/ \E k \in Calls : k \in InDispatch
  PROVE  inflight > 0
<1>1. CASE recovery
  BY <1>1, DispatchFinite DEF SessionsTypeOK, InflightExact
<1>2. CASE \E k \in Calls : k \in InDispatch
  <2>1. Cardinality(InDispatch) > 0
    BY <1>2, DispatchFinite, NotEmptyCounts
  <2> QED BY <2>1, DispatchFinite DEF SessionsTypeOK, InflightExact
<1> QED BY <1>1, <1>2

-----------------------------------------------------------------------------
(* Types                                                                    *)

(* A process that goes leaves nothing but rows, and handlers that ended.    *)
LEMMA EndsTypes ==
  ASSUME SessionsTypeOK, ProcessEnds
  PROVE  SessionsTypeOK'
<1>1. hpc' \in [Conns -> HandlerPcs] /\ cpc' \in [Calls -> CallPcs] /\ gone' \subseteq Conns
  BY DEF SessionsTypeOK, ProcessEnds, HandlerPcs, CallPcs
<1>2. /\ leases' \in [Conns -> Nat] /\ inflight' \in Nat
      /\ timer' \in [TimerIds -> {"free", "armed", "fired"}]
  BY DEF ProcessEnds, NoProcess
<1> QED BY <1>1, <1>2 DEF SessionsTypeOK, ProcessEnds, NoProcess

(* The process and its timers.                                              *)
LEMMA ProcessTypes ==
  ASSUME SessionsTypeOK, InflightExact,
         Main \/ Watcher \/ Timers \/ RecoveryEnds \/ Signal \/ Crash
  PROVE  SessionsTypeOK'
<1> USE DEF SessionsTypeOK, life, records, grace, stop, handlers, calls, table
<1>1. CASE StartServices
  <2>1. starts' \in 0..MaxStarts
    BY <1>1, SessionsAssumption DEF StartServices
  <2>2. row' \in [Agents -> {"absent", "open", "goodbye", "orphaned"}]
    BY <1>1 DEF StartServices, ReconcileOrphanedSessions
  <2> QED BY <1>1, <2>1, <2>2 DEF StartServices
<1>2. CASE Publish
  <2>1. timer' \in [TimerIds -> {"free", "armed", "fired"}] /\ current' = NoTimer
    BY <1>2, CancelledTypes DEF Publish, CancelGrace, TimerType
  <2> QED BY <1>2, <2>1 DEF Publish
<1>3. CASE InitialGraceCancel
  <2>1. timer' \in [TimerIds -> {"free", "armed", "fired"}]
    BY <1>3, CancelledTypes DEF InitialGraceCancel, TimerType
  <2> QED BY <1>3, <2>1 DEF InitialGraceCancel
<1>4. CASE InitialGraceStore
  BY <1>4 DEF InitialGraceStore
<1>5. CASE BeginDraining
  BY <1>5 DEF BeginDraining
<1>6. CASE CloseCoordinator
  BY <1>6 DEF CloseCoordinator
<1>7. CASE Exit \/ Crash
  BY <1>7, EndsTypes DEF Exit, Crash
<1>8. CASE Timers
  <2>1. PICK t \in TimerIds : TimerExpires(t) \/ GraceFire(t)
    BY <1>8 DEF Timers
  <2>2. CASE TimerExpires(t)
    BY <2>2 DEF TimerExpires
  <2>3. CASE GraceFire(t)
    BY <2>3 DEF GraceFire
  <2> QED BY <2>1, <2>2, <2>3
<1>9. CASE RecoveryEnds
  <2>1. inflight > 0
    BY <1>9, InHandCounts DEF RecoveryEnds
  <2>2. /\ inflight' \in Nat /\ timer' \in TimerType /\ current' \in TimerIds \cup {NoTimer}
    BY <1>9, <2>1, Released DEF RecoveryEnds
  <2> QED BY <1>9, <2>2 DEF RecoveryEnds, TimerType
<1>10. CASE Signal
  BY <1>10 DEF Signal
<1> QED BY <1>1, <1>2, <1>3, <1>4, <1>5, <1>6, <1>7, <1>8, <1>9, <1>10 DEF Main, Watcher

(* A connection and its handler.                                            *)
LEMMA HandlerTypes ==
  ASSUME SessionsTypeOK, NEW c \in Conns, Client(c) \/ Handler(c)
  PROVE  SessionsTypeOK'
<1> USE DEF SessionsTypeOK, life, records, grace, stop, handlers, calls, table
<1>0. UnregisterSession(c) => /\ timer' \in [TimerIds -> {"free", "armed", "fired"}]
                              /\ current' \in TimerIds \cup {NoTimer}
                              /\ sessions' \subseteq Conns /\ registered' \subseteq Conns
  BY Unregistered DEF TimerType
<1>a. Agent[c] \in Agents
  BY SessionsAssumption
<1>1. CASE HelloArrives(c)
  <2>1. hpc' \in [Conns -> HandlerPcs]
    BY <1>1 DEF HelloArrives, HandlerPcs
  <2> QED BY <1>1, <2>1 DEF HelloArrives
<1>2. CASE ClientGone(c)
  BY <1>2 DEF ClientGone
<1>3. CASE GoodbyeArrives(c)
  <2>1. hpc' \in [Conns -> HandlerPcs]
    BY <1>3 DEF GoodbyeArrives, HandlerPcs
  <2> QED BY <1>3, <2>1 DEF GoodbyeArrives
<1>4. CASE Hello(c)
  <2>1. hpc' \in [Conns -> HandlerPcs]
    BY <1>4 DEF Hello, AdmitHello, CloseHandler, HandlerPcs
  <2>2. /\ timer' \in [TimerIds -> {"free", "armed", "fired"}]
        /\ current' \in TimerIds \cup {NoTimer}
    BY <1>4, CancelledTypes DEF Hello, AdmitHello, TimerType
  <2> QED BY <1>4, <2>1, <2>2 DEF Hello, AdmitHello
<1>5. CASE RecordSession(c)
  <2>1. hpc' \in [Conns -> HandlerPcs]
    BY <1>5 DEF RecordSession, CloseHandler, HandlerPcs
  <2>2. row' \in [Agents -> {"absent", "open", "goodbye", "orphaned"}] /\ greeted' \subseteq Agents
    BY <1>5, <1>a DEF RecordSession
  <2>3. /\ timer' \in [TimerIds -> {"free", "armed", "fired"}]
        /\ current' \in TimerIds \cup {NoTimer}
        /\ sessions' \subseteq Conns /\ registered' \subseteq Conns
    BY <1>0, <1>5 DEF RecordSession
  <2> QED BY <1>5, <2>1, <2>2, <2>3 DEF RecordSession
<1>6. CASE HelloReply(c)
  <2>1. hpc' \in [Conns -> HandlerPcs]
    BY <1>6 DEF HelloReply, CloseHandler, HandlerPcs
  <2>3. /\ timer' \in [TimerIds -> {"free", "armed", "fired"}]
        /\ current' \in TimerIds \cup {NoTimer}
        /\ sessions' \subseteq Conns /\ registered' \subseteq Conns
    BY <1>0, <1>6 DEF HelloReply
  <2> QED BY <1>6, <2>1, <2>3 DEF HelloReply
<1>7. CASE SocketDropped(c) \/ LeaveSessionLoop(c)
  <2>1. hpc' \in [Conns -> HandlerPcs]
    BY <1>7 DEF SocketDropped, LeaveSessionLoop, CloseHandler, HandlerPcs
  <2> QED BY <1>0, <1>7, <2>1 DEF SocketDropped, LeaveSessionLoop
<1>8. CASE GoodbyeDrained(c)
  <2>1. hpc' \in [Conns -> HandlerPcs]
    BY <1>8 DEF GoodbyeDrained, HandlerPcs
  <2> QED BY <1>8, <2>1 DEF GoodbyeDrained
<1>9. CASE CloseAgentSession(c)
  <2>1. hpc' \in [Conns -> HandlerPcs]
    BY <1>9 DEF CloseAgentSession, HandlerPcs
  <2>2. row' \in [Agents -> {"absent", "open", "goodbye", "orphaned"}]
    BY <1>9, <1>a DEF CloseAgentSession
  <2> QED BY <1>9, <2>1, <2>2 DEF CloseAgentSession
<1> QED BY <1>1, <1>2, <1>3, <1>4, <1>5, <1>6, <1>7, <1>8, <1>9 DEF Client, Handler

(* A tool call.                                                             *)
LEMMA CallTypes ==
  ASSUME SessionsTypeOK, InflightExact, NEW k \in Calls, CallArrives(k) \/ CallHandler(k)
  PROVE  SessionsTypeOK'
<1> USE DEF SessionsTypeOK, life, records, grace, stop, handlers, calls, table
<1>1. CASE CallArrives(k)
  <2>1. cpc' \in [Calls -> CallPcs]
    BY <1>1 DEF CallArrives, SetCall, CallPcs
  <2>2. caller' \in [Calls -> Conns \cup {NoConn}]
    BY <1>1 DEF CallArrives
  <2> QED BY <1>1, <2>1, <2>2 DEF CallArrives
<1>2. CASE AcquireInflight(k)
  <2>1. cpc' \in [Calls -> CallPcs]
    BY <1>2 DEF AcquireInflight, SetCall, CallPcs
  <2>2. /\ timer' \in [TimerIds -> {"free", "armed", "fired"}]
        /\ current' \in TimerIds \cup {NoTimer} /\ inflight' \in Nat
    BY <1>2, CancelledTypes DEF AcquireInflight, CancelGrace, TimerType
  <2> QED BY <1>2, <2>1, <2>2 DEF AcquireInflight
<1>3. CASE ValidateCaller(k)
  <2>1. cpc' \in [Calls -> CallPcs]
    BY <1>3 DEF ValidateCaller, SetCall, CallPcs
  <2>2. leases' \in [Conns -> Nat]
    BY <1>3 DEF ValidateCaller
  <2> QED BY <1>3, <2>1, <2>2 DEF ValidateCaller
<1>4. CASE Dispatch(k)
  <2>1. cpc' \in [Calls -> CallPcs]
    BY <1>4 DEF Dispatch, SetCall, CallPcs
  <2>2. leases' \in [Conns -> Nat]
    BY <1>4 DEF Dispatch
  <2> QED BY <1>4, <2>1, <2>2 DEF Dispatch
<1>5. CASE CallEnds(k)
  <2>1. cpc' \in [Calls -> CallPcs]
    BY <1>5 DEF CallEnds, SetCall, CallPcs
  <2>2. inflight > 0
    BY <1>5, InHandCounts DEF CallEnds, InDispatch
  <2>3. /\ inflight' \in Nat /\ timer' \in TimerType /\ current' \in TimerIds \cup {NoTimer}
    BY <1>5, <2>2, Released DEF CallEnds
  <2> QED BY <1>5, <2>1, <2>3 DEF CallEnds, TimerType
<1> QED BY <1>1, <1>2, <1>3, <1>4, <1>5 DEF CallHandler

(* Every step keeps the types.                                              *)
LEMMA TypesStep == SessionsTypeOK /\ InflightExact /\ [SessionsNext]_sessionsVars => SessionsTypeOK'
<1> SUFFICES ASSUME SessionsTypeOK, InflightExact, [SessionsNext]_sessionsVars
             PROVE  SessionsTypeOK'
  OBVIOUS
<1>1. CASE UNCHANGED sessionsVars
  BY <1>1 DEF sessionsVars, SessionsTypeOK, life, records, grace, stop, handlers, calls, table
<1> QED BY <1>1, ProcessTypes, HandlerTypes, CallTypes DEF SessionsNext

-----------------------------------------------------------------------------
(* Every step keeps the counters exact                                      *)

(* Steps that touch no call leave the counters to what they were.           *)
LEMMA CountersKept ==
  ASSUME Counts, UNCHANGED <<cpc, caller, leases, inflight, recovery>>
  PROVE  InflightExact' /\ LeasesCounted'
BY DEF Counts, InflightExact, InDispatch, LeasesCounted, CallsOf

(* A goodbye goes past its wait with its leases back, or is waived          *)
(* (begin_goodbye).                                                         *)
LEMMA HandlerCounts ==
  ASSUME SessionsTypeOK, Counts, NEW c \in Conns, Client(c) \/ Handler(c)
  PROVE  Counts'
<1>1. UNCHANGED <<cpc, caller, leases, inflight, recovery>>
  BY DEF Client, Handler, HelloArrives, ClientGone, GoodbyeArrives, Hello, RecordSession, HelloReply,
     SocketDropped, GoodbyeDrained, CloseAgentSession, LeaveSessionLoop, calls, records, UnregisterSession
<1>2. InflightExact' /\ LeasesCounted'
  BY <1>1, CountersKept
<1>3. GoodbyeWaitsForCalls'
  <2>1. CASE GoodbyeDrained(c)
    <3>1. /\ closing' = closing /\ waived \subseteq waived' /\ hpc[c] = "drainLeases"
          /\ hpc' = [hpc EXCEPT ![c] = "closeRow"]
          /\ leases[c] = 0 \/ c \in waived'
      BY <2>1 DEF GoodbyeDrained, LeasesBack
    <3>2. leases[c] = 0 => \A k \in Calls : cpc[k] = "dispatch" => caller[k] # c
      <4> SUFFICES ASSUME leases[c] = 0, NEW k \in Calls, cpc[k] = "dispatch", caller[k] = c
                   PROVE  FALSE
        OBVIOUS
      <4>1. k \in CallsOf(c)
        BY DEF CallsOf
      <4>2. Cardinality(CallsOf(c)) > 0
        BY <4>1, CallsOfFinite, NotEmptyCounts
      <4> QED BY <4>2 DEF Counts, LeasesCounted
    <3> QED BY <1>1, <3>1, <3>2 DEF Counts, GoodbyeWaitsForCalls, SessionsTypeOK
  <2>2. CASE GoodbyeArrives(c)
    BY <1>1, <2>2 DEF GoodbyeArrives, records, Counts, GoodbyeWaitsForCalls, SessionsTypeOK
  <2>3. CASE ~GoodbyeDrained(c) /\ ~GoodbyeArrives(c)
    <3>1. /\ closing' = closing /\ waived' = waived
          /\ hpc' = hpc \/ (hpc[c] # "drainLeases" /\ \E at \in HandlerPcs : hpc' = [hpc EXCEPT ![c] = at])
      BY <2>3 DEF Client, Handler, HelloArrives, ClientGone, Hello, AdmitHello, RecordSession,
         HelloReply, SocketDropped, CloseAgentSession, LeaveSessionLoop, CloseHandler, records,
         HandlerPcs
    <3> QED BY <1>1, <3>1 DEF Counts, GoodbyeWaitsForCalls, SessionsTypeOK
  <2> QED BY <2>1, <2>2, <2>3
<1> QED BY <1>2, <1>3 DEF Counts

(* The process: only the recovery thread is counted.                        *)
LEMMA ProcessCounts ==
  ASSUME SessionsTypeOK, Counts, NotYetServing,
         Main \/ Watcher \/ Timers \/ RecoveryEnds \/ Signal \/ Crash
  PROVE  Counts'
<1>1. CASE Exit \/ Crash
  <2>1. /\ inflight' = 0 /\ recovery' = FALSE /\ closing' = {} /\ leases' = [c \in Conns |-> 0]
        /\ cpc' = [k \in Calls |-> IF cpc[k] \in {"idle", "done", "refused"} THEN cpc[k] ELSE "killed"]
    BY <1>1 DEF Exit, Crash, ProcessEnds, NoProcess
  <2>2. InDispatch' = {} /\ \A c \in Conns : CallsOf(c)' = {}
    BY <2>1 DEF InDispatch, CallsOf
  <2>3. Cardinality({}) = 0
    BY FS_EmptySet
  <2> QED BY <2>1, <2>2, <2>3 DEF Counts, InflightExact, LeasesCounted, GoodbyeWaitsForCalls
<1>2. CASE Publish
  <2>1. /\ ~recovery /\ recovery' = TRUE /\ inflight' = inflight + 1
        /\ UNCHANGED <<cpc, caller, leases, closing, waived, hpc>>
    BY <1>2 DEF Publish, NotYetServing, records, handlers, calls
  <2>2. InflightExact'
    BY <2>1, DispatchFinite DEF Counts, InflightExact, InDispatch, SessionsTypeOK
  <2>3. LeasesCounted' /\ GoodbyeWaitsForCalls'
    BY <2>1 DEF Counts, LeasesCounted, CallsOf, GoodbyeWaitsForCalls
  <2> QED BY <2>2, <2>3 DEF Counts
<1>3. CASE RecoveryEnds
  <2>1. /\ recovery /\ recovery' = FALSE /\ inflight' = inflight - 1
        /\ UNCHANGED <<cpc, caller, leases, closing, waived, hpc>>
    BY <1>3 DEF RecoveryEnds, ReleaseInflight, records, handlers, calls
  <2>2. InflightExact'
    BY <2>1, DispatchFinite DEF Counts, InflightExact, InDispatch, SessionsTypeOK
  <2>3. LeasesCounted' /\ GoodbyeWaitsForCalls'
    BY <2>1 DEF Counts, LeasesCounted, CallsOf, GoodbyeWaitsForCalls
  <2> QED BY <2>2, <2>3 DEF Counts
<1>4. CASE \/ StartServices \/ InitialGraceCancel \/ InitialGraceStore \/ BeginDraining
           \/ CloseCoordinator \/ Timers \/ Signal
  <2>1. UNCHANGED <<cpc, caller, leases, inflight, recovery, closing, waived, hpc>>
    BY <1>4 DEF StartServices, InitialGraceCancel, InitialGraceStore, BeginDraining, CloseCoordinator,
       Timers, TimerExpires, GraceFire, Signal, records, handlers, calls
  <2> QED BY <2>1, CountersKept DEF Counts, GoodbyeWaitsForCalls
<1> QED BY <1>1, <1>2, <1>3, <1>4 DEF Main, Watcher

(* A call is counted from _acquire_inflight to _release_inflight, and holds *)
(* a lease only while it is dispatched.                                     *)
LEMMA CallCounts ==
  ASSUME SessionsTypeOK, Counts, NEW k \in Calls, CallArrives(k) \/ CallHandler(k)
  PROVE  Counts'
<1>0. /\ UNCHANGED <<recovery, closing, waived, hpc>>
      /\ cpc \in [Calls -> CallPcs] /\ caller \in [Calls -> Conns \cup {NoConn}]
      /\ leases \in [Conns -> Nat] /\ inflight \in Nat
  BY DEF CallArrives, CallHandler, AcquireInflight, ValidateCaller, Dispatch, CallEnds, records,
     handlers, SessionsTypeOK
<1>a. ASSUME UNCHANGED leases, \A c \in Conns : CallsOf(c)' = CallsOf(c)
      PROVE  LeasesCounted' /\ GoodbyeWaitsForCalls'
  BY <1>0, <1>a DEF Counts, LeasesCounted, CallsOf, GoodbyeWaitsForCalls, SessionsTypeOK
<1>b. ASSUME UNCHANGED inflight, InDispatch' = InDispatch PROVE InflightExact'
  BY <1>0, <1>b DEF Counts, InflightExact
<1>1. CASE CallArrives(k)
  <2>1. /\ UNCHANGED <<leases, inflight>> /\ cpc[k] = "idle"
        /\ cpc' = [cpc EXCEPT ![k] = IF draining THEN "refused" ELSE "checked"]
        /\ \A l \in Calls \ {k} : caller'[l] = caller[l]
    BY <1>0, <1>1 DEF CallArrives, SetCall, records
  <2>2. InDispatch' = InDispatch /\ \A c \in Conns : CallsOf(c)' = CallsOf(c)
    BY <1>0, <2>1 DEF InDispatch, CallsOf
  <2> QED BY <1>a, <1>b, <2>1, <2>2 DEF Counts
<1>2. CASE AcquireInflight(k)
  <2>1. UNCHANGED <<leases, caller>> /\ cpc[k] = "checked"
    BY <1>2 DEF AcquireInflight, records
  <2>2. CASE Admissible
    <3>1. inflight' = inflight + 1 /\ cpc' = [cpc EXCEPT ![k] = "validate"]
      BY <1>2, <2>2 DEF AcquireInflight, SetCall
    <3>2. /\ InDispatch' = InDispatch \cup {k} /\ k \notin InDispatch
          /\ \A c \in Conns : CallsOf(c)' = CallsOf(c)
      BY <1>0, <2>1, <3>1 DEF InDispatch, CallsOf
    <3>3. Cardinality(InDispatch') = Cardinality(InDispatch) + 1
      BY <3>2, DispatchFinite, OneMore
    <3>4. InflightExact'
      BY <1>0, <3>1, <3>3, DispatchFinite DEF Counts, InflightExact
    <3> QED BY <1>a, <2>1, <3>2, <3>4 DEF Counts
  <2>3. CASE ~Admissible
    <3>1. UNCHANGED inflight /\ cpc' = [cpc EXCEPT ![k] = "refused"]
      BY <1>2, <2>3 DEF AcquireInflight, SetCall
    <3>2. InDispatch' = InDispatch /\ \A c \in Conns : CallsOf(c)' = CallsOf(c)
      BY <1>0, <2>1, <3>1 DEF InDispatch, CallsOf
    <3> QED BY <1>a, <1>b, <2>1, <3>1, <3>2 DEF Counts
  <2> QED BY <2>2, <2>3
<1>3. CASE ValidateCaller(k)
  <2>1. UNCHANGED <<inflight, caller>> /\ cpc[k] = "validate"
    BY <1>3 DEF ValidateCaller
  <2>2. CASE caller[k] = NoConn \/ ~CallerLive(caller[k])
    <3>1. /\ UNCHANGED leases
          /\ cpc' = [cpc EXCEPT ![k] = IF caller[k] = NoConn THEN "dispatch" ELSE "release"]
      BY <1>3, <2>2 DEF ValidateCaller, SetCall
    <3>2. InDispatch' = InDispatch
      BY <1>0, <2>1, <3>1 DEF InDispatch
    <3>3. \A c \in Conns : CallsOf(c)' = CallsOf(c)
      BY <1>0, <2>1, <3>1, SessionsAssumption DEF CallsOf
    <3> QED BY <1>a, <1>b, <2>1, <3>1, <3>2, <3>3 DEF Counts
  <2>3. CASE caller[k] # NoConn /\ CallerLive(caller[k])
    <3>1. /\ leases' = [leases EXCEPT ![caller[k]] = @ + 1]
          /\ cpc' = [cpc EXCEPT ![k] = "dispatch"]
          /\ caller[k] \in Conns /\ caller[k] \notin closing
      BY <1>0, <1>3, <2>3 DEF ValidateCaller, SetCall, CallerLive
    <3>2. InflightExact'
      <4>1. InDispatch' = InDispatch
        BY <1>0, <2>1, <3>1 DEF InDispatch
      <4> QED BY <1>b, <2>1, <4>1
    <3>3. LeasesCounted'
      <4> SUFFICES ASSUME NEW c \in Conns PROVE leases'[c] = Cardinality(CallsOf(c)')
        BY DEF LeasesCounted
      <4>0. leases[c] = Cardinality(CallsOf(c))
        BY DEF Counts, LeasesCounted
      <4>1. CASE c = caller[k]
        <5>1. CallsOf(c)' = CallsOf(c) \cup {k} /\ k \notin CallsOf(c)
          BY <1>0, <2>1, <3>1, <4>1 DEF CallsOf
        <5>2. Cardinality(CallsOf(c)') = Cardinality(CallsOf(c)) + 1
          BY <5>1, CallsOfFinite, OneMore
        <5> QED BY <1>0, <3>1, <4>0, <4>1, <5>2
      <4>2. CASE c # caller[k]
        <5>1. CallsOf(c)' = CallsOf(c)
          BY <1>0, <2>1, <3>1, <4>2 DEF CallsOf
        <5> QED BY <1>0, <3>1, <4>0, <4>2, <5>1
      <4> QED BY <4>1, <4>2
    <3>4. GoodbyeWaitsForCalls'
      BY <1>0, <2>1, <3>1 DEF Counts, GoodbyeWaitsForCalls
    <3> QED BY <3>2, <3>3, <3>4 DEF Counts
  <2> QED BY <2>2, <2>3
<1>4. CASE Dispatch(k)
  <2>1. /\ UNCHANGED <<inflight, caller>> /\ cpc[k] = "dispatch"
        /\ cpc' = [cpc EXCEPT ![k] = "release"]
        /\ leases' = IF caller[k] = NoConn THEN leases
                     ELSE [leases EXCEPT ![caller[k]] = IF @ > 0 THEN @ - 1 ELSE 0]
    BY <1>4 DEF Dispatch, SetCall
  <2>2. InDispatch' = InDispatch
    BY <1>0, <2>1 DEF InDispatch
  <2>3. LeasesCounted'
    <3> SUFFICES ASSUME NEW c \in Conns PROVE leases'[c] = Cardinality(CallsOf(c)')
      BY DEF LeasesCounted
    <3>0. leases[c] = Cardinality(CallsOf(c))
      BY DEF Counts, LeasesCounted
    <3>1. CASE c = caller[k]
      <4>1. CallsOf(c)' = CallsOf(c) \ {k} /\ k \in CallsOf(c)
        BY <1>0, <2>1, <3>1 DEF CallsOf
      <4>2. Cardinality(CallsOf(c)') = Cardinality(CallsOf(c)) - 1 /\ Cardinality(CallsOf(c)) > 0
        BY <4>1, CallsOfFinite, OneLess, NotEmptyCounts
      <4>3. leases'[c] = leases[c] - 1
        BY <1>0, <2>1, <3>0, <3>1, <4>2, SessionsAssumption
      <4> QED BY <3>0, <4>2, <4>3
    <3>2. CASE c # caller[k]
      <4>1. CallsOf(c)' = CallsOf(c)
        BY <1>0, <2>1, <3>2 DEF CallsOf
      <4> QED BY <1>0, <2>1, <3>0, <3>2, <4>1
    <3> QED BY <3>1, <3>2
  <2>4. GoodbyeWaitsForCalls'
    BY <1>0, <2>1 DEF Counts, GoodbyeWaitsForCalls
  <2> QED BY <1>b, <2>1, <2>2, <2>3, <2>4 DEF Counts
<1>5. CASE CallEnds(k)
  <2>1. /\ UNCHANGED <<leases, caller>> /\ cpc[k] = "release" /\ cpc' = [cpc EXCEPT ![k] = "done"]
        /\ inflight' = inflight - 1
    BY <1>5 DEF CallEnds, SetCall, ReleaseInflight, records
  <2>2. /\ InDispatch' = InDispatch \ {k} /\ k \in InDispatch
        /\ \A c \in Conns : CallsOf(c)' = CallsOf(c)
    BY <1>0, <2>1 DEF InDispatch, CallsOf
  <2>3. Cardinality(InDispatch') = Cardinality(InDispatch) - 1
    BY <2>2, DispatchFinite, OneLess
  <2>4. InflightExact'
    BY <1>0, <2>1, <2>3, DispatchFinite DEF Counts, InflightExact
  <2> QED BY <1>a, <2>1, <2>2, <2>4 DEF Counts
<1> QED BY <1>1, <1>2, <1>3, <1>4, <1>5 DEF CallHandler

-----------------------------------------------------------------------------
(* Every step keeps the lifetime sound                                      *)

(* A step of the process, its timers or its end.                            *)
LEMMA ProcessLifetime ==
  ASSUME SessionsTypeOK, Counts, Lifetime,
         Main \/ Watcher \/ Timers \/ RecoveryEnds \/ Signal \/ Crash
  PROVE  Lifetime'
<1> USE DEF Lifetime, GraceKillsNoWork, DrainedByDrains, IdleIsTimed, NotYetServing,
            life, records, grace, stop, handlers, calls
<1>1. CASE StartServices
  BY <1>1 DEF StartServices
<1>2. CASE Publish
  BY <1>2, SessionsAssumption DEF Publish, SessionsTypeOK
<1>3. CASE InitialGraceCancel
  BY <1>3 DEF InitialGraceCancel
<1>4. CASE InitialGraceStore
  <2>1. \E t \in TimerIds : timer'[t] # "free"
    BY <1>4 DEF InitialGraceStore, SessionsTypeOK
  <2> QED BY <1>4, <2>1 DEF InitialGraceStore
<1>5. CASE BeginDraining
  BY <1>5 DEF BeginDraining
<1>6. CASE CloseCoordinator
  BY <1>6 DEF CloseCoordinator
<1>7. CASE Exit \/ Crash
  BY <1>7 DEF Exit, Crash, ProcessEnds, NoProcess, SessionsTypeOK, HandlerPcs, CallPcs
<1>8. CASE Timers
  <2>1. PICK t \in TimerIds : TimerExpires(t) \/ GraceFire(t)
    BY <1>8 DEF Timers
  <2>2. CASE TimerExpires(t)
    <3>1. timer'[t] = "fired" /\ timer[t] # "free"
      BY <2>2 DEF TimerExpires, Armed, SessionsTypeOK
    <3> QED BY <2>2, <3>1 DEF TimerExpires
  <2>3. CASE GraceFire(t)
    <3>1. timer[t] # "free"
      BY <2>3 DEF GraceFire
    <3> QED BY <2>3, <3>1 DEF GraceFire
  <2> QED BY <2>1, <2>2, <2>3
<1>9. CASE RecoveryEnds
  <2>1. inflight > 0
    BY <1>9, InHandCounts DEF RecoveryEnds, Counts
  <2>2. /\ inflight' = inflight - 1
        /\ sessions = {} /\ inflight' = 0 /\ ~draining /\ ~foreground =>
             \E t \in TimerIds : timer'[t] # "free"
    BY <1>9, <2>1, Released DEF RecoveryEnds
  <2> QED BY <1>9, <2>1, <2>2 DEF RecoveryEnds
<1>10. CASE Signal
  BY <1>10 DEF Signal
<1> QED BY <1>1, <1>2, <1>3, <1>4, <1>5, <1>6, <1>7, <1>8, <1>9, <1>10 DEF Main, Watcher

(* A hello is turned away once the process drains; the last session that    *)
(* ends arms the timer.                                                     *)
LEMMA HandlerLifetime ==
  ASSUME SessionsTypeOK, Lifetime, NEW c \in Conns, Client(c) \/ Handler(c)
  PROVE  Lifetime'
<1>0. UNCHANGED <<mpc, foreground, inflight, recovery, draining, drainedBy>>
  BY DEF Client, Handler, HelloArrives, ClientGone, GoodbyeArrives, Hello, RecordSession, HelloReply,
     SocketDropped, GoodbyeDrained, CloseAgentSession, LeaveSessionLoop, life, stop
<1>1. hpc' = hpc \/ mpc \notin {"down", "publish"}
  BY DEF Lifetime, NotYetServing, Client, Handler, HelloArrives, ClientGone, GoodbyeArrives, Hello,
     RecordSession, HelloReply, SocketDropped, GoodbyeDrained, CloseAgentSession, LeaveSessionLoop
<1>2. CASE UnregisterSession(c) /\ mpc \notin {"down", "publish"}
  <2>1. /\ sessions' = sessions \ {c}
        /\ sessions' = {} /\ inflight = 0 /\ ~draining /\ ~foreground =>
             \E t \in TimerIds : timer'[t] # "free"
    BY <1>2, Unregistered
  <2>2. GraceKillsNoWork' /\ DrainedByDrains' /\ IdleIsTimed'
    BY <1>0, <2>1 DEF Lifetime, GraceKillsNoWork, DrainedByDrains, IdleIsTimed
  <2> QED BY <1>0, <1>2, <2>2 DEF Lifetime, NotYetServing
<1>3. CASE UNCHANGED <<sessions, grace>>
  <2>1. UNCHANGED cpc
    BY DEF Client, Handler, HelloArrives, ClientGone, GoodbyeArrives, Hello, RecordSession, HelloReply,
       SocketDropped, GoodbyeDrained, CloseAgentSession, LeaveSessionLoop, calls
  <2> QED BY <1>0, <1>1, <1>3, <2>1 DEF grace, Lifetime, GraceKillsNoWork, DrainedByDrains,
             IdleIsTimed, NotYetServing
<1>4. CASE Hello(c) /\ ~draining
  <2>1. mpc \notin {"down", "publish"} /\ sessions' # {}
    BY <1>4 DEF Hello, AdmitHello, Lifetime, NotYetServing
  <2> QED BY <1>0, <1>4, <2>1 DEF Lifetime, GraceKillsNoWork, DrainedByDrains, IdleIsTimed,
             NotYetServing
<1>5. CASE Hello(c) /\ draining
  BY <1>3, <1>5 DEF Hello, AdmitHello
<1>6. CASE RecordSession(c) \/ HelloReply(c) \/ SocketDropped(c) \/ LeaveSessionLoop(c)
  <2>1. mpc \notin {"down", "publish"}
    BY <1>6 DEF Lifetime, NotYetServing, RecordSession, HelloReply, SocketDropped, LeaveSessionLoop
  <2> QED BY <1>2, <1>3, <1>6, <2>1 DEF RecordSession, HelloReply, SocketDropped, LeaveSessionLoop
<1>7. CASE \/ HelloArrives(c) \/ ClientGone(c) \/ GoodbyeArrives(c) \/ GoodbyeDrained(c)
           \/ CloseAgentSession(c)
  BY <1>3, <1>7 DEF HelloArrives, ClientGone, GoodbyeArrives, GoodbyeDrained, CloseAgentSession
<1> QED BY <1>4, <1>5, <1>6, <1>7 DEF Client, Handler

(* A call is turned away once the process drains; the last one that ends    *)
(* arms the timer.                                                          *)
LEMMA CallLifetime ==
  ASSUME SessionsTypeOK, Counts, Lifetime, NEW k \in Calls, CallArrives(k) \/ CallHandler(k)
  PROVE  Lifetime'
<1>0. UNCHANGED <<mpc, foreground, sessions, recovery, draining, drainedBy, hpc>>
  BY DEF CallArrives, CallHandler, AcquireInflight, ValidateCaller, Dispatch, CallEnds, life, stop,
     handlers
<1>1. mpc \notin {"down", "publish"}
  BY DEF Lifetime, NotYetServing, CallArrives, CallHandler, AcquireInflight, ValidateCaller, Dispatch,
     CallEnds
<1>2. CASE UNCHANGED <<inflight, grace>>
  BY <1>0, <1>1, <1>2 DEF grace, Lifetime, GraceKillsNoWork, DrainedByDrains, IdleIsTimed,
     NotYetServing
<1>3. CASE AcquireInflight(k)
  <2>1. CASE draining
    BY <1>2, <1>3, <2>1 DEF AcquireInflight, Admissible
  <2>2. CASE ~draining
    <3>1. inflight' # 0 /\ drainedBy = NoTimer
      BY <1>3, <2>2 DEF AcquireInflight, Admissible, SessionsTypeOK, Lifetime, DrainedByDrains
    <3> QED BY <1>0, <1>1, <3>1 DEF Lifetime, GraceKillsNoWork, DrainedByDrains, IdleIsTimed,
               NotYetServing
  <2> QED BY <2>1, <2>2
<1>4. CASE CallEnds(k)
  <2>1. inflight > 0
    BY <1>4, InHandCounts DEF CallEnds, InDispatch, Counts
  <2>2. /\ inflight' = inflight - 1
        /\ sessions = {} /\ inflight' = 0 /\ ~draining /\ ~foreground =>
             \E t \in TimerIds : timer'[t] # "free"
    BY <1>4, <2>1, Released DEF CallEnds
  <2> QED BY <1>0, <1>1, <2>1, <2>2 DEF Lifetime, GraceKillsNoWork, DrainedByDrains, IdleIsTimed,
             NotYetServing
<1>5. CASE CallArrives(k) \/ ValidateCaller(k) \/ Dispatch(k)
  BY <1>2, <1>5 DEF CallArrives, ValidateCaller, Dispatch
<1> QED BY <1>3, <1>4, <1>5 DEF CallHandler

-----------------------------------------------------------------------------
(* Every step keeps the rows true                                           *)

(* A step that touches neither handlers nor rows.                           *)
LEMMA RowsKept ==
  ASSUME Rows, UNCHANGED <<mpc, registered, closing, hpc, gone, leaving, row, greeted>>
  PROVE  Rows'
BY DEF Rows, RecordsPlaced, OneLivePerAgent, LiveRowOpen, OpenRowIsCurrent

(* The process: rows of an earlier one are closed before it serves, and its *)
(* end leaves no record.                                                    *)
LEMMA ProcessRows ==
  ASSUME SessionsTypeOK, Lifetime, Rows,
         Main \/ Watcher \/ Timers \/ RecoveryEnds \/ Signal \/ Crash
  PROVE  Rows'
<1>1. CASE StartServices
  <2>1. /\ UNCHANGED <<registered, closing, hpc, gone, leaving>> /\ mpc = "down"
        /\ \A a \in Agents : row'[a] # "open"
    BY <1>1 DEF StartServices, ReconcileOrphanedSessions, records, handlers, SessionsTypeOK
  <2>2. \A c \in Conns : hpc[c] \in {"none", "closed"}
    BY <2>1 DEF Lifetime, NotYetServing
  <2>3. registered \subseteq Conns /\ \A c \in Conns : c \notin registered
    BY <2>2 DEF SessionsTypeOK, Rows, RecordsPlaced, InSession
  <2> QED BY <2>1, <2>2, <2>3 DEF Rows, RecordsPlaced, Parting, OneLivePerAgent, LiveRowOpen,
             OpenRowIsCurrent
<1>2. CASE Exit \/ Crash
  <2>1. /\ mpc' = "down" /\ registered' = {} /\ closing' = {}
        /\ \A c \in Conns : hpc'[c] = IF hpc[c] = "none" THEN "none" ELSE "closed"
        /\ gone \subseteq gone'
    BY <1>2 DEF Exit, Crash, ProcessEnds, NoProcess
  <2> QED BY <2>1 DEF Rows, RecordsPlaced, InSession, Parting, OneLivePerAgent, LiveRowOpen,
             OpenRowIsCurrent
<1>3. CASE ~StartServices /\ ~Exit /\ ~Crash
  <2>1. UNCHANGED <<registered, closing, hpc, gone, leaving, row, greeted>>
    BY <1>3 DEF Main, Watcher, Timers, Publish, InitialGraceCancel, InitialGraceStore, BeginDraining,
       CloseCoordinator, TimerExpires, GraceFire, RecoveryEnds, Signal, records, handlers, table
  <2>2. mpc # "down" \/ mpc' = mpc
    BY <1>3 DEF Main, Watcher, Timers, Publish, InitialGraceCancel, InitialGraceStore, BeginDraining,
       CloseCoordinator, TimerExpires, GraceFire, RecoveryEnds, Signal, life
  <2> QED BY <2>1, <2>2 DEF Rows, RecordsPlaced, OneLivePerAgent, LiveRowOpen, OpenRowIsCurrent
<1> QED BY <1>1, <1>2, <1>3

(* A handler that ends takes its record with it.                            *)
LEMMA EndedRows ==
  ASSUME SessionsTypeOK, Rows, NEW c \in Conns, hpc[c] \in InSession \cup {"hello", "record"},
         hpc' = [hpc EXCEPT ![c] = "closed"], registered' = registered \ {c},
         gone \subseteq gone', UNCHANGED <<mpc, closing, leaving, row, greeted>>,
         gone' \subseteq gone \cup {c}
  PROVE  Rows'
<1>1. \A d \in Conns : hpc'[d] = IF d = c THEN "closed" ELSE hpc[d]
  BY DEF SessionsTypeOK
<1>2. RecordsPlaced'
  BY <1>1 DEF Rows, RecordsPlaced, InSession, Parting
<1>3. OneLivePerAgent'
  BY <1>1 DEF Rows, OneLivePerAgent, InSession
<1>4. LiveRowOpen' /\ OpenRowIsCurrent'
  BY DEF Rows, LiveRowOpen, OpenRowIsCurrent
<1> QED BY <1>2, <1>3, <1>4 DEF Rows

(* Connections and their handlers: a goodbye can close the row of no other  *)
(* connection of its agent, because every other one is gone.                *)
LEMMA HandlerRows ==
  ASSUME SessionsTypeOK, Lifetime, Rows, NEW c \in Conns, Client(c) \/ Handler(c)
  PROVE  Rows'
<1>0. hpc \in [Conns -> HandlerPcs] /\ row \in [Agents -> {"absent", "open", "goodbye", "orphaned"}]
      /\ Agent \in [Conns -> Agents] /\ UNCHANGED mpc
  BY SessionsAssumption DEF SessionsTypeOK, Client, Handler, HelloArrives, ClientGone, GoodbyeArrives,
     Hello, RecordSession, HelloReply, SocketDropped, GoodbyeDrained, CloseAgentSession,
     LeaveSessionLoop, life
<1>1. CASE HelloArrives(c)
  <2>1. /\ UNCHANGED <<registered, closing, gone, leaving, row, greeted>> /\ hpc[c] = "none"
        /\ hpc'[c] \in {"closed", "hello"} /\ \A d \in Conns \ {c} : hpc'[d] = hpc[d]
        /\ \A d \in Conns \ {c} : Agent[d] = Agent[c] => hpc[d] = "none" \/ d \in gone
    BY <1>0, <1>1 DEF HelloArrives, records, table
  <2>2. RecordsPlaced'
    BY <2>1 DEF Rows, RecordsPlaced, InSession, Parting
  <2>3. OneLivePerAgent'
    BY <2>1 DEF Rows, OneLivePerAgent
  <2>4. LiveRowOpen' /\ OpenRowIsCurrent'
    BY <1>0, <2>1 DEF Rows, LiveRowOpen, OpenRowIsCurrent
  <2> QED BY <2>2, <2>3, <2>4 DEF Rows
<1>2. CASE ClientGone(c)
  <2>1. UNCHANGED <<registered, closing, hpc, leaving, row, greeted>> /\ gone' = gone \cup {c}
        /\ c \notin leaving
    BY <1>2 DEF ClientGone, records, table
  <2> QED BY <1>0, <2>1 DEF Rows, RecordsPlaced, OneLivePerAgent, LiveRowOpen, OpenRowIsCurrent
<1>3. CASE GoodbyeArrives(c)
  <2>1. /\ UNCHANGED <<registered, gone, row, greeted>> /\ leaving' = leaving \cup {c}
        /\ hpc[c] = "session" /\ c \notin gone
        /\ \/ hpc' = [hpc EXCEPT ![c] = "leave"] /\ closing' = closing
           \/ hpc' = [hpc EXCEPT ![c] = "drainLeases"] /\ closing' = closing \cup {c}
    BY <1>3 DEF GoodbyeArrives, table
  <2>2. row[Agent[c]] = "open"
    BY <2>1 DEF Rows, RecordsPlaced, LiveRowOpen, InSession, Parting
  <2>3. RecordsPlaced'
    BY <1>0, <2>1, <2>2 DEF Rows, RecordsPlaced, InSession, Parting
  <2>4. OneLivePerAgent' /\ LiveRowOpen' /\ OpenRowIsCurrent'
    BY <1>0, <2>1 DEF Rows, OneLivePerAgent, LiveRowOpen, OpenRowIsCurrent
  <2> QED BY <2>3, <2>4 DEF Rows
<1>4. CASE Hello(c)
  <2>1. /\ UNCHANGED <<registered, closing, gone, leaving, row, greeted>> /\ hpc[c] = "hello"
        /\ hpc'[c] \in {"closed", "record"} /\ \A d \in Conns \ {c} : hpc'[d] = hpc[d]
    BY <1>0, <1>4 DEF Hello, AdmitHello, CloseHandler, records, table
  <2>2. RecordsPlaced'
    BY <2>1 DEF Rows, RecordsPlaced, InSession, Parting
  <2>3. OneLivePerAgent' /\ LiveRowOpen' /\ OpenRowIsCurrent'
    BY <1>0, <2>1 DEF Rows, OneLivePerAgent, LiveRowOpen, OpenRowIsCurrent
  <2> QED BY <2>2, <2>3 DEF Rows
<1>5. CASE RecordSession(c)
  <2>1. CASE UnregisterSession(c) /\ CloseHandler(c) /\ UNCHANGED table
    BY <1>0, <1>5, <2>1, EndedRows DEF RecordSession, UnregisterSession, CloseHandler, table
  <2>2. CASE /\ row' = [row EXCEPT ![Agent[c]] = "open"] /\ greeted' = greeted \cup {Agent[c]}
             /\ registered' = registered \cup {c} /\ hpc' = [hpc EXCEPT ![c] = "reply"]
    <3>1. UNCHANGED <<closing, gone, leaving>> /\ hpc[c] = "record"
      BY <1>5 DEF RecordSession
    <3>2. \A d \in Conns : hpc'[d] = IF d = c THEN "reply" ELSE hpc[d]
      BY <1>0, <2>2
    <3>3. \A a \in Agents : row'[a] = IF a = Agent[c] THEN "open" ELSE row[a]
      BY <1>0, <2>2
    <3>4. RecordsPlaced'
      BY <1>0, <2>2, <3>1, <3>2, <3>3 DEF Rows, RecordsPlaced, InSession, Parting
    <3>5. OneLivePerAgent' /\ LiveRowOpen' /\ OpenRowIsCurrent'
      BY <1>0, <2>2, <3>1, <3>2, <3>3 DEF Rows, OneLivePerAgent, LiveRowOpen, OpenRowIsCurrent,
         SessionsTypeOK
    <3> QED BY <3>4, <3>5 DEF Rows
  <2> QED BY <1>5, <2>1, <2>2 DEF RecordSession
<1>6. CASE HelloReply(c)
  <2>1. CASE UnregisterSession(c) /\ CloseHandler(c) /\ gone' = gone \cup {c}
    BY <1>0, <1>6, <2>1, EndedRows DEF HelloReply, UnregisterSession, CloseHandler, table, InSession
  <2>2. CASE c \notin gone /\ hpc' = [hpc EXCEPT ![c] = "session"] /\ UNCHANGED <<registered, gone>>
    <3>1. UNCHANGED <<closing, leaving, row, greeted>> /\ hpc[c] = "reply"
      BY <1>6 DEF HelloReply, table
    <3>2. RecordsPlaced'
      BY <1>0, <2>2, <3>1 DEF Rows, RecordsPlaced, InSession, Parting
    <3>3. OneLivePerAgent' /\ LiveRowOpen' /\ OpenRowIsCurrent'
      BY <1>0, <2>2, <3>1 DEF Rows, OneLivePerAgent, LiveRowOpen, OpenRowIsCurrent
    <3> QED BY <3>2, <3>3 DEF Rows
  <2> QED BY <1>6, <2>1, <2>2 DEF HelloReply
<1>7. CASE SocketDropped(c) \/ LeaveSessionLoop(c)
  BY <1>0, <1>7, EndedRows DEF SocketDropped, LeaveSessionLoop, UnregisterSession, CloseHandler, table,
     InSession
<1>8. CASE GoodbyeDrained(c)
  <2>1. /\ UNCHANGED <<registered, closing, gone, leaving, row, greeted>> /\ hpc[c] = "drainLeases"
        /\ hpc' = [hpc EXCEPT ![c] = "closeRow"]
    BY <1>8 DEF GoodbyeDrained, table
  <2>2. RecordsPlaced'
    BY <1>0, <2>1 DEF Rows, RecordsPlaced, InSession, Parting
  <2>3. OneLivePerAgent' /\ LiveRowOpen' /\ OpenRowIsCurrent'
    BY <1>0, <2>1 DEF Rows, OneLivePerAgent, LiveRowOpen, OpenRowIsCurrent
  <2> QED BY <2>2, <2>3 DEF Rows
<1>9. CASE CloseAgentSession(c)
  <2>1. /\ UNCHANGED <<registered, closing, gone, leaving, greeted>> /\ hpc[c] = "closeRow"
        /\ hpc'[c] \in {"acked", "leave"} /\ \A d \in Conns \ {c} : hpc'[d] = hpc[d]
        /\ \A a \in Agents : a # Agent[c] \/ row' = row => row'[a] = row[a]
        /\ \A a \in Agents : row'[a] = "open" => row[a] = "open"
    BY <1>0, <1>9 DEF CloseAgentSession, records
  <2>2. c \in closing /\ c \notin gone
    BY <2>1 DEF Rows, RecordsPlaced, Parting
  <2>3. \A d \in Conns \ {c} : Agent[d] = Agent[c] /\ hpc[d] # "none" => d \in gone
    BY <2>1, <2>2 DEF Rows, OneLivePerAgent
  <2>4. RecordsPlaced'
    BY <1>0, <2>1, <2>2, <2>3 DEF Rows, RecordsPlaced, InSession, Parting
  <2>5. OneLivePerAgent' /\ OpenRowIsCurrent'
    BY <1>0, <2>1 DEF Rows, OneLivePerAgent, OpenRowIsCurrent
  <2>6. LiveRowOpen'
    <3> SUFFICES ASSUME NEW d \in registered, d \notin closing, d \notin gone
                 PROVE  row'[Agent[d]] = "open"
      BY <2>1 DEF LiveRowOpen
    <3>1. d \in Conns /\ hpc[d] # "none" /\ d # c
      BY <2>2 DEF SessionsTypeOK, Rows, RecordsPlaced, InSession
    <3>2. Agent[d] # Agent[c] /\ Agent[d] \in Agents
      BY <1>0, <2>3, <3>1
    <3> QED BY <2>1, <3>2 DEF Rows, LiveRowOpen
  <2> QED BY <2>4, <2>5, <2>6 DEF Rows
<1> QED BY <1>1, <1>2, <1>3, <1>4, <1>5, <1>6, <1>7, <1>8, <1>9 DEF Client, Handler

-----------------------------------------------------------------------------
(* No process has been started.                                             *)
LEMMA SessionsInvInit == SessionsInit => SessionsInv
<1> SUFFICES ASSUME SessionsInit PROVE SessionsInv
  OBVIOUS
<1>1. SessionsTypeOK
  <2>1. 0 \in 0..MaxStarts
    BY SessionsAssumption
  <2>2. /\ leases \in [Conns -> Nat] /\ hpc \in [Conns -> HandlerPcs] /\ cpc \in [Calls -> CallPcs]
        /\ caller \in [Calls -> Conns \cup {NoConn}]
        /\ timer \in [TimerIds -> {"free", "armed", "fired"}]
        /\ row \in [Agents -> {"absent", "open", "goodbye", "orphaned"}]
    BY DEF SessionsInit, HandlerPcs, CallPcs
  <2> QED BY <2>1, <2>2 DEF SessionsInit, SessionsTypeOK
<1>2. InDispatch = {} /\ \A c \in Conns : CallsOf(c) = {}
  BY DEF SessionsInit, InDispatch, CallsOf
<1>3. Cardinality({}) = 0
  BY FS_EmptySet
<1>4. Counts
  BY <1>2, <1>3 DEF SessionsInit, Counts, InflightExact, LeasesCounted, GoodbyeWaitsForCalls
<1>5. Lifetime
  BY DEF SessionsInit, Lifetime, GraceKillsNoWork, DrainedByDrains, IdleIsTimed, NotYetServing
<1>6. Rows
  BY DEF SessionsInit, Rows, RecordsPlaced, InSession, Parting, OneLivePerAgent, LiveRowOpen,
     OpenRowIsCurrent
<1> QED BY <1>1, <1>4, <1>5, <1>6 DEF SessionsInv

(* Every critical section and every thread's step keeps the invariant.      *)
LEMMA SessionsInvStep == SessionsInv /\ [SessionsNext]_sessionsVars => SessionsInv'
<1> SUFFICES ASSUME SessionsInv, [SessionsNext]_sessionsVars PROVE SessionsInv'
  OBVIOUS
<1>0. SessionsTypeOK /\ Counts /\ InflightExact /\ Lifetime /\ NotYetServing /\ Rows
  BY DEF SessionsInv, Counts, Lifetime
<1>1. SessionsTypeOK'
  BY <1>0, TypesStep
<1>2. CASE UNCHANGED sessionsVars
  <2>1. Counts'
    BY <1>0, <1>2, CountersKept DEF sessionsVars, records, handlers, calls, Counts, GoodbyeWaitsForCalls
  <2>2. Lifetime'
    BY <1>0, <1>2 DEF sessionsVars, life, records, grace, stop, handlers, calls, Lifetime,
       GraceKillsNoWork, DrainedByDrains, IdleIsTimed, NotYetServing
  <2>3. Rows'
    BY <1>0, <1>2, RowsKept DEF sessionsVars, life, records, handlers, table
  <2> QED BY <1>1, <2>1, <2>2, <2>3 DEF SessionsInv
<1>3. CASE Main \/ Watcher \/ Timers \/ RecoveryEnds \/ Signal \/ Crash
  BY <1>0, <1>1, <1>3, ProcessCounts, ProcessLifetime, ProcessRows DEF SessionsInv
<1>4. CASE \E c \in Conns : Client(c) \/ Handler(c)
  BY <1>0, <1>1, <1>4, HandlerCounts, HandlerLifetime, HandlerRows DEF SessionsInv
<1>5. CASE \E k \in Calls : CallArrives(k) \/ CallHandler(k)
  <2>1. PICK k \in Calls : CallArrives(k) \/ CallHandler(k)
    BY <1>5
  <2>2. UNCHANGED <<mpc, registered, closing, hpc, gone, leaving, row, greeted>>
    BY <2>1 DEF CallArrives, CallHandler, AcquireInflight, ValidateCaller, Dispatch, CallEnds, life,
       records, handlers, table
  <2>3. Rows'
    BY <1>0, <2>2, RowsKept
  <2> QED BY <1>0, <1>1, <2>1, <2>3, CallCounts, CallLifetime DEF SessionsInv
<1> QED BY <1>2, <1>3, <1>4, <1>5 DEF SessionsNext

(* The invariant holds throughout.                                          *)
LEMMA SessionsInvHolds == SessionsSpec => []SessionsInv
BY SessionsInvInit, SessionsInvStep, PTL DEF SessionsSpec

(* Through reconnects, late calls, goodbyes that wait, crashes and          *)
(* restarts, _inflight counts exactly the running dispatches, and a goodbye *)
(* past its wait has no call of its session left (_acquire_inflight,        *)
(* _validate_caller_session, begin_goodbye).                                *)
THEOREM LeasesStayExact == SessionsSpec => []LeasesExact
<1>1. SessionsInv => LeasesExact
  BY DEF SessionsInv, Counts, LeasesExact
<1> QED BY <1>1, SessionsInvHolds, PTL

(* The grace timer ends only a daemon without work, and a serving daemon    *)
(* that is idle always has one (_grace_fire, unregister_session,            *)
(* _release_inflight).                                                      *)
THEOREM GraceStaysSound == SessionsSpec => []GraceSound
<1>1. SessionsInv => GraceSound
  BY DEF SessionsInv, Lifetime, GraceSound
<1> QED BY <1>1, SessionsInvHolds, PTL

(* A live session has an open row, and a running daemon knows every open    *)
(* row (record_agent_session, reconcile_orphaned_sessions).                 *)
THEOREM RowsStayTrue == SessionsSpec => []RowsTrue
<1>1. SessionsInv => RowsTrue
  BY DEF SessionsInv, Rows, RowsTrue
<1> QED BY <1>1, SessionsInvHolds, PTL

(* One step acknowledges a goodbye only with its row written, and reopens   *)
(* a closed row only for a hello.                                           *)
LEMMA DurableStep ==
  ASSUME SessionsInv, [SessionsNext]_sessionsVars
  PROVE  /\ \A c \in Conns : hpc'[c] = "acked" /\ hpc[c] # "acked" => row'[Agent[c]] = "goodbye"
         /\ \A a \in Agents : row[a] = "goodbye" => row'[a] \in {"goodbye", "open"}
<1>0. /\ hpc \in [Conns -> HandlerPcs] /\ Agent \in [Conns -> Agents]
      /\ row \in [Agents -> {"absent", "open", "goodbye", "orphaned"}]
  BY SessionsAssumption DEF SessionsInv, SessionsTypeOK
<1>1. CASE StartServices
  BY <1>0, <1>1 DEF StartServices, ReconcileOrphanedSessions, handlers
<1>2. CASE \E c \in Conns : RecordSession(c)
  <2>1. PICK c \in Conns : RecordSession(c)
    BY <1>2
  <2> QED BY <1>0, <2>1 DEF RecordSession, CloseHandler, table
<1>3. CASE \E c \in Conns : CloseAgentSession(c)
  <2>1. PICK c \in Conns : CloseAgentSession(c)
    BY <1>3
  <2>2. row[Agent[c]] = "open" /\ Agent[c] \in Agents
    BY <1>0, <2>1 DEF SessionsInv, Rows, RecordsPlaced, CloseAgentSession
  <2> QED BY <1>0, <2>1, <2>2 DEF CloseAgentSession
<1>4. CASE Exit \/ Crash
  BY <1>4 DEF Exit, Crash, ProcessEnds
<1>5. CASE UNCHANGED <<hpc, row>>
  BY <1>5
<1>6. CASE \E c \in Conns : \/ HelloArrives(c) \/ GoodbyeArrives(c) \/ Hello(c) \/ HelloReply(c)
                            \/ SocketDropped(c) \/ GoodbyeDrained(c) \/ LeaveSessionLoop(c)
  <2>1. PICK c \in Conns : \/ HelloArrives(c) \/ GoodbyeArrives(c) \/ Hello(c) \/ HelloReply(c)
                           \/ SocketDropped(c) \/ GoodbyeDrained(c) \/ LeaveSessionLoop(c)
    BY <1>6
  <2>2. UNCHANGED row /\ \A d \in Conns : hpc'[d] = "acked" => hpc[d] = "acked"
    BY <1>0, <2>1 DEF HelloArrives, GoodbyeArrives, Hello, AdmitHello, HelloReply, SocketDropped,
       GoodbyeDrained, LeaveSessionLoop, CloseHandler, table
  <2> QED BY <2>2
<1>7. CASE \/ Publish \/ InitialGraceCancel \/ InitialGraceStore \/ BeginDraining \/ CloseCoordinator
           \/ Timers \/ RecoveryEnds \/ Signal \/ (\E c \in Conns : ClientGone(c))
           \/ (\E k \in Calls : CallArrives(k) \/ CallHandler(k)) \/ UNCHANGED sessionsVars
  <2>1. UNCHANGED <<hpc, row>>
    BY <1>7 DEF Publish, InitialGraceCancel, InitialGraceStore, BeginDraining, CloseCoordinator, Timers,
       TimerExpires, GraceFire, RecoveryEnds, Signal, ClientGone, CallArrives, CallHandler,
       AcquireInflight, ValidateCaller, Dispatch, CallEnds, sessionsVars, handlers, table
  <2> QED BY <1>5, <2>1
<1> QED BY <1>1, <1>2, <1>3, <1>4, <1>6, <1>7 DEF SessionsNext, Main, Watcher, Client, Handler

(* "Persist the definitive lifecycle transition before acknowledging        *)
(* goodbye" (_session_loop), whatever other connections the agent left      *)
(* behind; and reconcile_orphaned_sessions never rewrites a clean goodbye.  *)
THEOREM RowsStayDurable == SessionsSpec => RowsDurable
<1>1. SessionsInv /\ [SessionsNext]_sessionsVars =>
        [\A c \in Conns : hpc'[c] = "acked" /\ hpc[c] # "acked" => row'[Agent[c]] = "goodbye"]_sessionsVars
  BY DurableStep
<1>2. SessionsInv /\ [SessionsNext]_sessionsVars =>
        [\A a \in Agents : row[a] = "goodbye" => row'[a] \in {"goodbye", "open"}]_sessionsVars
  BY DurableStep
<1> QED BY <1>1, <1>2, SessionsInvHolds, PTL DEF SessionsSpec, RowsDurable, AckedIsDurable,
           OnlyHelloReopens

-----------------------------------------------------------------------------
(***************************************************************************)
(* One owner per database, for any number of processes, adapters, faults   *)
(* and any timing of the retries.  ElectInv says which port, file and      *)
(* writer belong to a process at each point of its start and of its        *)
(* shutdown, and how often a write has run at each point of its call.      *)
(***************************************************************************)

Ats == {"none", "boot", "guard", "initializing", "durable", "listening", "published", "serving",
        "beaten", "gone"}
Stops == {"no", "drained", "closed", "joined", "removed", "released"}
CallAts == {"idle", "wait", "ready", "sent", "answered", "done", "lost", "starting", "failed"}
Holders == Procs \cup {Nobody}

DaemonType == [at : Ats, stop : Stops, drain : BOOLEAN, cb : BOOLEAN, asked : BOOLEAN, timer : BOOLEAN,
               recovery : BOOLEAN, writer : BOOLEAN, work : SUBSET Adapters, keep : BOOLEAN]
CallType == [at : CallAts, write : BOOLEAN, info : Holders, alive : BOOLEAN, miss : Nat, tries : Nat,
             probed : Nat, age : Nat, due : BOOLEAN, again : BOOLEAN, ran : Nat]
PortsType == [guard : Holders, probe : Holders, file : Holders]

FullTypes ==
  /\ daemon \in [Procs -> DaemonType] /\ ports \in PortsType
  /\ adapter \in [Adapters -> CallType] /\ stamp \in 0..SpawnGap /\ faults \in Nat

(* What a process holds, by where its start or its shutdown stands.         *)
HoldsGuard(d) ==
  /\ d.at \in {"guard", "initializing", "durable", "listening", "published", "serving"}
  /\ d.stop # "released"
HoldsProbe(d) ==
  /\ d.at \in {"initializing", "durable", "listening", "published", "serving"}
  /\ d.stop \in {"no", "drained"}
HoldsFile(d) ==
  /\ d.at \in {"published", "serving"}
  /\ d.stop \in {"no", "drained", "closed", "joined"}
MayWrite(d) ==
  /\ d.at \in {"durable", "listening", "published", "serving"}
  /\ d.stop \in {"no", "drained", "closed"}

PortsOwned ==
  \A p \in Procs :
    /\ HoldsGuard(daemon[p]) => ports.guard = p
    /\ HoldsProbe(daemon[p]) <=> ports.probe = p
    /\ HoldsFile(daemon[p]) => ports.file = p
    /\ daemon[p].writer => MayWrite(daemon[p])
    /\ daemon[p].stop # "no" => daemon[p].at = "serving"

(* How often a write has run, by where its call stands.                     *)
CallTrue(a) ==
  /\ a.at = "idle" => ~a.write
  /\ a.write =>
       /\ a.ran <= 1
       /\ a.at \in {"wait", "ready", "sent", "starting", "failed"} => a.ran = 0
       /\ a.at \in {"answered", "done"} => a.ran = 1

(* A write a daemon has in hand has not run, here or elsewhere.             *)
InHandTrue(p, a) ==
  /\ a.at # "idle"
  /\ a.write => a.at \in {"sent", "lost"} /\ a.info = p /\ a.ran = 0

CallsTrue ==
  /\ \A c \in Adapters : CallTrue(adapter[c])
  /\ \A p \in Procs : \A c \in daemon[p].work : InHandTrue(p, adapter[c])

ElectInv == FullTypes /\ PortsOwned /\ CallsTrue

-----------------------------------------------------------------------------
(* Operators                                                                *)

(* Processes are numbered from one, so none of them is Nobody.              *)
LEMMA ProcsAreNamed == Nobody \notin Procs /\ Procs \subseteq Nat
BY ElectionConstants DEF Procs, Nobody

(* The watcher's steps follow one another in StopOrder.                     *)
LEMMA StopSteps ==
  /\ StopAfter("no") = "drained" /\ StopAfter("drained") = "closed" /\ StopAfter("closed") = "joined"
  /\ StopAfter("joined") = "removed" /\ StopAfter("removed") = "released"
  /\ StopAfter("released") = "exited"
<1>1. DOMAIN StopOrder = 1..7
  BY DEF StopOrder
<1>2. \A i, j \in 1..7 : StopOrder[i] = StopOrder[j] => i = j
  BY DEF StopOrder
<1>3. \A i \in 1..7 : (CHOOSE j \in DOMAIN StopOrder : StopOrder[j] = StopOrder[i]) = i
  BY <1>1, <1>2
<1>4. /\ StopOrder[1] = "no" /\ StopOrder[2] = "drained" /\ StopOrder[3] = "closed" /\ StopOrder[4] = "joined"
      /\ StopOrder[5] = "removed" /\ StopOrder[6] = "released" /\ StopOrder[7] = "exited"
  BY DEF StopOrder
<1>5. ASSUME NEW i \in 1..6 PROVE StopAfter(StopOrder[i]) = StopOrder[1 + i]
  <2>1. (CHOOSE j \in DOMAIN StopOrder : StopOrder[j] = StopOrder[i]) = i
    BY <1>3
  <2> QED BY <2>1, Zenon DEF StopAfter
<1> QED BY <1>4, <1>5

(* A shutdown that has removed the file is past that step.                  *)
LEMMA RemovedIsPast ==
  ASSUME NEW p, daemon[p].stop \in {"removed", "released"} PROVE Past(p, "removed")
<1>1. DOMAIN StopOrder = 1..7 /\ StopOrder[5] = "removed" /\ StopOrder[6] = "released"
  BY DEF StopOrder
<1> QED BY <1>1 DEF Past

(* A set of naturals has a least one.                                       *)
LEMMA LeastNatural ==
  ASSUME NEW S \in SUBSET Nat, S # {} PROVE \E x \in S : \A y \in S : x <= y
<1>1. IsWellFoundedOn({ss \in Nat \X Nat : ss[1] < ss[2]}, Nat)
  BY NatLessThanWellFounded, Zenon DEF OpToRel
<1>2. \E x \in S : \A y \in S : ~(<<y, x>> \in {ss \in Nat \X Nat : ss[1] < ss[2]})
  BY <1>1, WFMin, Zenon
<1>3. PICK x \in S : \A y \in S : ~(<<y, x>> \in {ss \in Nat \X Nat : ss[1] < ss[2]})
  BY <1>2
<1>4. ASSUME NEW y \in S PROVE x <= y
  <2>1. x \in Nat /\ y \in Nat /\ <<y, x>> \in Nat \X Nat
    OBVIOUS
  <2>2. ~(y < x)
    BY <1>3, <2>1
  <2> QED BY <2>1, <2>2
<1> QED BY <1>4

(* The process that is spawned is one that was not.                         *)
LEMMA NextUnspawned ==
  ASSUME Unspawned # {}
  PROVE  (CHOOSE q \in Unspawned : \A r \in Unspawned : q <= r) \in Unspawned
<1>1. Unspawned \in SUBSET Nat
  BY ProcsAreNamed DEF Unspawned
<1>2. \E x \in Unspawned : \A y \in Unspawned : x <= y
  BY <1>1, LeastNatural
<1> QED BY <1>2

-----------------------------------------------------------------------------
(* What the theorem says follows from the invariant                         *)

(* OneOwner, from who holds what.                                           *)
LEMMA InvIsOneOwner == ElectInv => OneOwner
<1> SUFFICES ASSUME ElectInv PROVE OneOwner
  OBVIOUS
<1>0. /\ \A p \in Procs : daemon[p] \in DaemonType
      /\ \A c \in Adapters : adapter[c] \in CallType
  BY DEF ElectInv, FullTypes
<1>1. ElectTypeOK
  <2>1. \A p \in Procs : daemon[p].at \in Ats /\ daemon[p].work \subseteq Adapters
    BY <1>0 DEF DaemonType
  <2>2. \A c \in Adapters : adapter[c].at \in CallAts
    BY <1>0 DEF CallType
  <2> QED BY <2>1, <2>2 DEF ElectTypeOK, ElectInv, FullTypes, PortsType, Holders, Ats, CallAts
<1>2. OwnFile
  <2>1. ASSUME NEW p \in Procs, daemon[p].at \in {"published", "serving"}, ~Past(p, "removed")
        PROVE  HoldsFile(daemon[p])
    <3>1. daemon[p].stop \in Stops
      BY <1>0 DEF DaemonType
    <3> QED BY <2>1, <3>1, RemovedIsPast DEF HoldsFile, Stops
  <2> QED BY <2>1 DEF OwnFile, ElectInv, PortsOwned
<1>3. WinnerFindsProbe
  <2>1. ASSUME NEW p \in Procs, daemon[p].at = "guard", ports.probe # Nobody PROVE FALSE
    <3>1. ports.probe \in Procs
      BY <2>1 DEF ElectInv, FullTypes, PortsType, Holders
    <3>2. PICK q \in Procs : q = ports.probe /\ HoldsProbe(daemon[q])
      BY <3>1 DEF ElectInv, PortsOwned
    <3>3. HoldsGuard(daemon[q])
      BY <3>2 DEF HoldsProbe, HoldsGuard
    <3>4. HoldsGuard(daemon[p])
      BY <2>1 DEF HoldsGuard, ElectInv, PortsOwned
    <3>5. p = q
      BY <3>3, <3>4 DEF ElectInv, PortsOwned
    <3> QED BY <2>1, <3>2, <3>5 DEF HoldsProbe
  <2> QED BY <2>1 DEF WinnerFindsProbe
<1>4. OneWriter
  <2>1. \A p \in Procs : daemon[p].writer => HoldsGuard(daemon[p])
    BY DEF ElectInv, PortsOwned, MayWrite, HoldsGuard
  <2> QED BY <2>1 DEF OneWriter, ElectInv, PortsOwned
<1>5. WriteOutcomeTrue
  BY DEF WriteOutcomeTrue, ElectInv, CallsTrue, CallTrue
<1> QED BY <1>1, <1>2, <1>3, <1>4, <1>5 DEF OneOwner

-----------------------------------------------------------------------------
(* Who holds what                                                           *)

(* At most one process is between winning the guard and releasing it.       *)
LEMMA OneHolder ==
  ASSUME PortsOwned, NEW p \in Procs, NEW q \in Procs, HoldsGuard(daemon[p]), HoldsGuard(daemon[q])
  PROVE  p = q
BY DEF PortsOwned

(* Who holds the probe port or the file, or writes, holds the guard.        *)
LEMMA GuardComesFirst ==
  ASSUME NEW d, HoldsProbe(d) \/ HoldsFile(d) \/ MayWrite(d) PROVE HoldsGuard(d)
BY DEF HoldsProbe, HoldsFile, MayWrite, HoldsGuard

(* Nothing about ownership changes while no process moves in its start or   *)
(* its shutdown.                                                            *)
LEMMA NobodyMoves ==
  ASSUME PortsOwned, UNCHANGED ports,
         \A p \in Procs : /\ daemon'[p].at = daemon[p].at /\ daemon'[p].stop = daemon[p].stop
                          /\ daemon'[p].writer = daemon[p].writer
  PROVE  PortsOwned'
<1>1. ASSUME NEW p \in Procs
      PROVE  /\ HoldsGuard(daemon'[p]) <=> HoldsGuard(daemon[p])
             /\ HoldsProbe(daemon'[p]) <=> HoldsProbe(daemon[p])
             /\ HoldsFile(daemon'[p]) <=> HoldsFile(daemon[p])
             /\ MayWrite(daemon'[p]) <=> MayWrite(daemon[p])
  BY DEF HoldsGuard, HoldsProbe, HoldsFile, MayWrite
<1> QED BY <1>1 DEF PortsOwned

(* A process that exits holds nothing any more; its file may stay.          *)
LEMMA VanishOwned ==
  ASSUME FullTypes, PortsOwned, NEW p \in Procs, Vanish(p)
  PROVE  /\ daemon' \in [Procs -> DaemonType] /\ ports' \in PortsType /\ PortsOwned'
         /\ \A q \in Procs : daemon'[q].work \subseteq daemon[q].work
<1> DEFINE dead == [Unborn EXCEPT !.at = "gone"]
<1>1. /\ daemon' \in [Procs -> DaemonType] /\ daemon'[p] = dead
      /\ \A q \in Procs : q # p => daemon'[q] = daemon[q]
  <2>1. dead \in DaemonType
    BY DEF Unborn, DaemonType, Ats, Stops
  <2>2. daemon' = [daemon EXCEPT ![p] = dead]
    BY DEF Vanish
  <2> QED BY <2>1, <2>2 DEF FullTypes
<1>2. /\ dead.at = "gone" /\ dead.stop = "no" /\ dead.writer = FALSE /\ dead.work = {}
  BY DEF Unborn
<1>3. /\ ports' \in PortsType /\ ports'.file = ports.file
      /\ ports'.guard = IF ports.guard = p THEN Nobody ELSE ports.guard
      /\ ports'.probe = IF ports.probe = p THEN Nobody ELSE ports.probe
  BY DEF Vanish, FullTypes, PortsType, Holders
<1> HIDE DEF dead
<1>4. ~HoldsGuard(dead) /\ ~HoldsProbe(dead) /\ ~HoldsFile(dead)
  BY <1>2 DEF HoldsGuard, HoldsProbe, HoldsFile
<1>5. PortsOwned'
  <2> SUFFICES ASSUME NEW q \in Procs
               PROVE  /\ HoldsGuard(daemon'[q]) => ports'.guard = q
                      /\ HoldsProbe(daemon'[q]) <=> ports'.probe = q
                      /\ HoldsFile(daemon'[q]) => ports'.file = q
                      /\ daemon'[q].writer => MayWrite(daemon'[q])
                      /\ daemon'[q].stop # "no" => daemon'[q].at = "serving"
    BY DEF PortsOwned
  <2>1. CASE q = p
    BY <1>1, <1>2, <1>3, <1>4, <2>1, ProcsAreNamed
  <2>2. CASE q # p
    BY <1>1, <1>3, <2>2, ProcsAreNamed DEF PortsOwned
  <2> QED BY <2>1, <2>2
<1> QED BY <1>1, <1>2, <1>3, <1>5

(* One process moves: it is enough to look at what it holds afterwards, and *)
(* that no other process lost what it holds.                                *)
LEMMA OneMoves ==
  ASSUME PortsOwned, NEW p \in Procs,
         \A q \in Procs : q # p => daemon'[q] = daemon[q],
         HoldsGuard(daemon'[p]) => ports'.guard = p,
         HoldsProbe(daemon'[p]) <=> ports'.probe = p,
         HoldsFile(daemon'[p]) => ports'.file = p,
         daemon'[p].writer => MayWrite(daemon'[p]),
         daemon'[p].stop # "no" => daemon'[p].at = "serving",
         \A q \in Procs : q # p => /\ HoldsGuard(daemon[q]) => ports'.guard = q
                                   /\ ports'.probe = q <=> ports.probe = q
                                   /\ HoldsFile(daemon[q]) => ports'.file = q
  PROVE  PortsOwned'
<1> SUFFICES ASSUME NEW q \in Procs
             PROVE  /\ HoldsGuard(daemon'[q]) => ports'.guard = q
                    /\ HoldsProbe(daemon'[q]) <=> ports'.probe = q
                    /\ HoldsFile(daemon'[q]) => ports'.file = q
                    /\ daemon'[q].writer => MayWrite(daemon'[q])
                    /\ daemon'[q].stop # "no" => daemon'[q].at = "serving"
  BY DEF PortsOwned
<1>1. CASE q = p
  BY <1>1
<1>2. CASE q # p
  BY <1>2 DEF PortsOwned
<1> QED BY <1>1, <1>2

(* Steps that only take calls out of a daemon's hands keep the outcomes.    *)
LEMMA CallsStay ==
  ASSUME CallsTrue, UNCHANGED adapter,
         \A q \in Procs : daemon'[q].work \subseteq daemon[q].work
  PROVE  CallsTrue'
BY DEF CallsTrue

-----------------------------------------------------------------------------
(* The start                                                                *)

(* One process turns from its record into d: the invariant needs what d     *)
(* holds, and that the other processes keep what they hold.                 *)
LEMMA ProcessMoves ==
  ASSUME ElectInv, NEW p \in Procs, NEW d \in DaemonType, daemon' = [daemon EXCEPT ![p] = d],
         d.work \subseteq daemon[p].work, ports' \in PortsType, faults' \in Nat,
         UNCHANGED <<adapter, stamp>>,
         HoldsGuard(d) => ports'.guard = p,
         HoldsProbe(d) <=> ports'.probe = p,
         HoldsFile(d) => ports'.file = p,
         d.writer => MayWrite(d),
         d.stop # "no" => d.at = "serving",
         \A q \in Procs : q # p => /\ HoldsGuard(daemon[q]) => ports'.guard = q
                                   /\ ports'.probe = q <=> ports.probe = q
                                   /\ HoldsFile(daemon[q]) => ports'.file = q
  PROVE  ElectInv'
<1>0. FullTypes /\ PortsOwned /\ CallsTrue
  BY DEF ElectInv
<1>1. /\ daemon' \in [Procs -> DaemonType] /\ daemon'[p] = d
      /\ \A q \in Procs : q # p => daemon'[q] = daemon[q]
  BY <1>0 DEF FullTypes
<1>2. PortsOwned'
  BY <1>0, <1>1, OneMoves
<1>3. CallsTrue'
  BY <1>0, <1>1, CallsStay
<1> QED BY <1>0, <1>1, <1>2, <1>3 DEF ElectInv, FullTypes

(* A process that exits, for whatever reason.                               *)
LEMMA VanishInv ==
  ASSUME ElectInv, NEW p \in Procs, Vanish(p), UNCHANGED <<adapter, stamp>>, faults' \in Nat
  PROVE  ElectInv'
<1>0. FullTypes /\ PortsOwned /\ CallsTrue
  BY DEF ElectInv
<1>1. /\ daemon' \in [Procs -> DaemonType] /\ ports' \in PortsType /\ PortsOwned'
      /\ \A q \in Procs : daemon'[q].work \subseteq daemon[q].work
  BY <1>0, VanishOwned
<1>2. CallsTrue'
  BY <1>0, <1>1, CallsStay
<1> QED BY <1>0, <1>1, <1>2 DEF ElectInv, FullTypes

(* The winner of the guard, or a process that lost it.                      *)
LEMMA BindGuardInv ==
  ASSUME ElectInv, NEW p \in Procs, BindGuard(p) PROVE ElectInv'
<1>0. FullTypes /\ PortsOwned /\ daemon[p] \in DaemonType /\ daemon[p].at = "boot"
  BY DEF ElectInv, FullTypes, BindGuard
<1>1. daemon[p].stop = "no" /\ ~daemon[p].writer /\ ports.probe # p
  BY <1>0 DEF PortsOwned, MayWrite, HoldsProbe
<1> DEFINE d(to) == [daemon[p] EXCEPT !.at = to]
<1>2. ASSUME NEW to \in {"guard", "beaten"}
      PROVE  /\ d(to) \in DaemonType /\ d(to).at = to /\ d(to).stop = "no" /\ ~d(to).writer
             /\ d(to).work = daemon[p].work
  BY <1>0, <1>1 DEF DaemonType, Ats
<1>3. \A to : Step(p, "boot", to) => daemon' = [daemon EXCEPT ![p] = d(to)]
  BY DEF Step
<1> HIDE DEF d
<1>4. \A to \in {"guard", "beaten"} : ~HoldsProbe(d(to)) /\ ~HoldsFile(d(to))
  BY <1>2 DEF HoldsProbe, HoldsFile
<1>5. CASE ports.guard = Nobody
  <2>1. daemon' = [daemon EXCEPT ![p] = d("guard")] /\ ports' = [ports EXCEPT !.guard = p]
    BY <1>3, <1>5 DEF BindGuard
  <2>2. ports' \in PortsType /\ ports'.guard = p /\ ports'.probe = ports.probe /\ ports'.file = ports.file
    BY <1>0, <2>1 DEF FullTypes, PortsType, Holders
  <2>3. \A q \in Procs : ~HoldsGuard(daemon[q]) /\ ~HoldsFile(daemon[q])
    BY <1>0, <1>5, ProcsAreNamed, GuardComesFirst DEF PortsOwned
  <2> QED BY <1>0, <1>1, <1>2, <1>4, <2>1, <2>2, <2>3, ProcessMoves DEF BindGuard, FullTypes
<1>6. CASE ports.guard # Nobody
  <2>1. daemon' = [daemon EXCEPT ![p] = d("beaten")] /\ UNCHANGED ports
    BY <1>3, <1>6 DEF BindGuard
  <2>2. ~HoldsGuard(d("beaten"))
    BY <1>2 DEF HoldsGuard
  <2> QED BY <1>0, <1>1, <1>2, <1>4, <2>1, <2>2, ProcessMoves DEF BindGuard, FullTypes, PortsOwned
<1> QED BY <1>5, <1>6

(* The winner binds the probe port.                                         *)
LEMMA BindProbeInv ==
  ASSUME ElectInv, NEW p \in Procs, BindProbe(p) PROVE ElectInv'
<1>0. FullTypes /\ PortsOwned /\ daemon[p] \in DaemonType /\ daemon[p].at = "guard" /\ faults' \in Nat
  BY DEF ElectInv, FullTypes, BindProbe
<1>1. daemon[p].stop = "no" /\ ~daemon[p].writer /\ ports.guard = p
  BY <1>0 DEF PortsOwned, MayWrite, HoldsGuard
<1>2. CASE ports.probe = Nobody
  <2> DEFINE d == [daemon[p] EXCEPT !.at = "initializing"]
  <2>1. daemon' = [daemon EXCEPT ![p] = d] /\ ports' = [ports EXCEPT !.probe = p]
    BY <1>2 DEF BindProbe, Step
  <2>2. /\ d \in DaemonType /\ d.at = "initializing" /\ d.stop = "no" /\ ~d.writer
        /\ d.work = daemon[p].work
    BY <1>0, <1>1 DEF DaemonType, Ats
  <2>3. ports' \in PortsType /\ ports'.guard = ports.guard /\ ports'.probe = p /\ ports'.file = ports.file
    BY <1>0, <2>1 DEF FullTypes, PortsType, Holders
  <2> HIDE DEF d
  <2>4. HoldsProbe(d) /\ ~HoldsFile(d)
    BY <2>2 DEF HoldsProbe, HoldsFile
  <2>5. \A q \in Procs : q # p => /\ HoldsGuard(daemon[q]) => ports'.guard = q
                                  /\ ports'.probe = q <=> ports.probe = q
                                  /\ HoldsFile(daemon[q]) => ports'.file = q
    BY <1>0, <1>2, <2>3, ProcsAreNamed DEF PortsOwned
  <2>6. UNCHANGED <<adapter, stamp>>
    BY DEF BindProbe
  <2> QED BY <1>0, <1>1, <2>1, <2>2, <2>3, <2>4, <2>5, <2>6, ProcessMoves
<1>3. CASE ports.probe # Nobody
  BY <1>0, <1>3, VanishInv DEF BindProbe
<1> QED BY <1>2, <1>3

(* A step of the start that takes or leaves no port.                        *)
LEMMA StartInv ==
  ASSUME ElectInv, NEW p \in Procs, ElectServices(p) \/ Listen(p) \/ Arm(p) PROVE ElectInv'
<1>0. FullTypes /\ PortsOwned /\ daemon[p] \in DaemonType /\ faults' \in Nat /\ UNCHANGED <<ports, adapter, stamp>>
  BY DEF ElectInv, FullTypes, ElectServices, Listen, Arm
<1>1. PICK d \in DaemonType :
        /\ daemon' = [daemon EXCEPT ![p] = d] /\ d.work = daemon[p].work /\ d.stop = daemon[p].stop
        /\ \/ daemon[p].at = "initializing" /\ d.at = "durable" /\ d.writer
           \/ daemon[p].at = "durable" /\ d.at = "listening" /\ d.writer = daemon[p].writer
           \/ daemon[p].at = "published" /\ d.at = "serving" /\ d.writer = daemon[p].writer
  <2>1. CASE ElectServices(p)
    <3> DEFINE d == [daemon[p] EXCEPT !.at = "durable", !.writer = TRUE]
    <3>1. d \in DaemonType /\ d.work = daemon[p].work /\ d.stop = daemon[p].stop /\ d.at = "durable" /\ d.writer
      BY <1>0 DEF DaemonType, Ats
    <3>2. daemon' = [daemon EXCEPT ![p] = d]
      BY <1>0, <2>1 DEF ElectServices, FullTypes
    <3> QED BY <2>1, <3>1, <3>2 DEF ElectServices
  <2>2. CASE Listen(p)
    <3> DEFINE d == [daemon[p] EXCEPT !.at = "listening"]
    <3>1. d \in DaemonType /\ d.work = daemon[p].work /\ d.stop = daemon[p].stop /\ d.at = "listening"
          /\ d.writer = daemon[p].writer
      BY <1>0 DEF DaemonType, Ats
    <3>2. daemon' = [daemon EXCEPT ![p] = d]
      BY <1>0, <2>2 DEF Listen, Step, FullTypes
    <3> QED BY <2>2, <3>1, <3>2 DEF Listen, Step
  <2>3. CASE Arm(p)
    <3> DEFINE d == [daemon[p] EXCEPT !.at = "serving", !.cb = TRUE, !.timer = ~daemon[p].keep]
    <3>1. d \in DaemonType /\ d.work = daemon[p].work /\ d.stop = daemon[p].stop /\ d.at = "serving"
          /\ d.writer = daemon[p].writer
      BY <1>0 DEF DaemonType, Ats
    <3>2. daemon' = [daemon EXCEPT ![p] = d]
      BY <1>0, <2>3 DEF Arm, FullTypes
    <3> QED BY <2>3, <3>1, <3>2 DEF Arm
  <2> QED BY <2>1, <2>2, <2>3
<1>2. daemon[p].stop = "no" /\ ports.guard = p /\ ports.probe = p
  BY <1>0, <1>1 DEF PortsOwned, HoldsGuard, HoldsProbe
<1>3. HoldsProbe(d) /\ MayWrite(d) /\ (HoldsFile(d) => HoldsFile(daemon[p]))
  BY <1>1, <1>2 DEF HoldsProbe, MayWrite, HoldsFile
<1> QED BY <1>0, <1>1, <1>2, <1>3, ProcessMoves DEF FullTypes, PortsOwned

(* The winner publishes itself; nobody else's file is in the way.           *)
LEMMA PublishReadyInv ==
  ASSUME ElectInv, NEW p \in Procs, PublishReady(p) PROVE ElectInv'
<1>0. /\ FullTypes /\ PortsOwned /\ daemon[p] \in DaemonType /\ faults' \in Nat
      /\ daemon[p].at = "listening" /\ UNCHANGED <<adapter, stamp>>
  BY DEF ElectInv, FullTypes, PublishReady
<1> DEFINE d == [daemon[p] EXCEPT !.at = "published", !.recovery = TRUE]
<1>1. /\ d \in DaemonType /\ d.work = daemon[p].work /\ d.stop = daemon[p].stop /\ d.at = "published"
      /\ d.writer = daemon[p].writer
  BY <1>0 DEF DaemonType, Ats
<1>2. daemon' = [daemon EXCEPT ![p] = d]
  BY <1>0 DEF PublishReady, FullTypes
<1>3. ports' \in PortsType /\ ports'.guard = ports.guard /\ ports'.probe = ports.probe /\ ports'.file = p
  BY <1>0 DEF PublishReady, WriteFile, FullTypes, PortsType, Holders
<1> HIDE DEF d
<1>4. daemon[p].stop = "no" /\ HoldsGuard(daemon[p]) /\ ports.guard = p /\ ports.probe = p
  BY <1>0 DEF PortsOwned, HoldsGuard, HoldsProbe
<1>5. HoldsProbe(d) /\ MayWrite(d)
  BY <1>1, <1>4 DEF HoldsProbe, MayWrite
<1>6. \A q \in Procs : q # p => ~HoldsFile(daemon[q])
  BY <1>0, <1>4, GuardComesFirst, OneHolder
<1> QED BY <1>0, <1>1, <1>2, <1>3, <1>4, <1>5, <1>6, ProcessMoves DEF PortsOwned

(* A failed start, a crash, or a signal before the handlers are installed.  *)
LEMMA ExitInv ==
  ASSUME ElectInv, NEW p \in Procs, StartFails(p) \/ ElectCrash(p) PROVE ElectInv'
<1>1. Vanish(p) /\ faults' = faults + 1 /\ UNCHANGED <<adapter, stamp>>
  BY DEF StartFails, ElectCrash
<1>2. faults' \in Nat
  BY <1>1 DEF ElectInv, FullTypes
<1> QED BY <1>1, <1>2, VanishInv

-----------------------------------------------------------------------------
(* The shutdown                                                             *)

(* A step of p that leaves where it stands alone.                           *)
LEMMA StandsStill ==
  ASSUME ElectInv, NEW p \in Procs, NEW d \in DaemonType, daemon' = [daemon EXCEPT ![p] = d],
         d.work \subseteq daemon[p].work, d.at = daemon[p].at, d.stop = daemon[p].stop,
         d.writer = daemon[p].writer, UNCHANGED <<ports, adapter, stamp>>, faults' \in Nat
  PROVE  ElectInv'
<1>0. FullTypes /\ PortsOwned /\ CallsTrue
  BY DEF ElectInv
<1>1. daemon' \in [Procs -> DaemonType] /\ daemon'[p] = d /\ \A q \in Procs : q # p => daemon'[q] = daemon[q]
  BY <1>0 DEF FullTypes
<1>2. \A q \in Procs : /\ daemon'[q].at = daemon[q].at /\ daemon'[q].stop = daemon[q].stop
                       /\ daemon'[q].writer = daemon[q].writer /\ daemon'[q].work \subseteq daemon[q].work
  BY <1>1
<1>3. PortsOwned'
  BY <1>0, <1>2, NobodyMoves
<1>4. CallsTrue'
  BY <1>0, <1>2, CallsStay
<1> QED BY <1>0, <1>1, <1>3, <1>4 DEF ElectInv, FullTypes

(* The recovery thread ends; the grace timer fires.                         *)
LEMMA TimersInv ==
  ASSUME ElectInv, NEW p \in Procs, ElectRecoveryEnds(p) \/ ElectGraceFire(p) PROVE ElectInv'
<1>0. FullTypes /\ daemon[p] \in DaemonType /\ faults' \in Nat /\ UNCHANGED <<ports, adapter, stamp>>
  BY DEF ElectInv, FullTypes, ElectRecoveryEnds, ElectGraceFire
<1>1. CASE ElectRecoveryEnds(p)
  <2> DEFINE d == [daemon[p] EXCEPT !.recovery = FALSE,
                     !.timer = @ \/ (daemon[p].work = {} /\ ~daemon[p].drain /\ ~daemon[p].keep)]
  <2>1. daemon' = [daemon EXCEPT ![p] = d]
    BY <1>0, <1>1 DEF ElectRecoveryEnds, FullTypes
  <2>2. d \in DaemonType /\ d.work = daemon[p].work /\ d.at = daemon[p].at /\ d.stop = daemon[p].stop
        /\ d.writer = daemon[p].writer
    BY <1>0 DEF DaemonType
  <2> HIDE DEF d
  <2> QED BY <1>0, <2>1, <2>2, StandsStill
<1>2. CASE ElectGraceFire(p)
  <2> DEFINE idle == ~Busy(daemon[p])
             d == [daemon[p] EXCEPT !.timer = FALSE, !.drain = @ \/ idle, !.asked = @ \/ (idle /\ daemon[p].cb)]
  <2>1. daemon' = [daemon EXCEPT ![p] = d]
    BY <1>0, <1>2 DEF ElectGraceFire, FullTypes
  <2>a. idle \in BOOLEAN
    BY DEF Busy
  <2> HIDE DEF idle
  <2>2. d \in DaemonType /\ d.work = daemon[p].work /\ d.at = daemon[p].at /\ d.stop = daemon[p].stop
        /\ d.writer = daemon[p].writer
    BY <1>0, <2>a DEF DaemonType
  <2> HIDE DEF d
  <2> QED BY <1>0, <2>1, <2>2, StandsStill
<1> QED BY <1>1, <1>2

(* SIGTERM kills a process that is starting and asks one that serves.       *)
LEMMA SignalInv ==
  ASSUME ElectInv, NEW p \in Procs, ElectSignal(p) PROVE ElectInv'
<1>0. FullTypes /\ daemon[p] \in DaemonType /\ faults' \in Nat /\ UNCHANGED <<adapter, stamp>>
  BY DEF ElectInv, FullTypes, ElectSignal
<1>1. CASE daemon[p].at \in {"published", "serving"}
  <2> DEFINE d == [daemon[p] EXCEPT !.asked = TRUE]
  <2>1. daemon' = [daemon EXCEPT ![p] = d] /\ UNCHANGED ports
    BY <1>0, <1>1 DEF ElectSignal, FullTypes
  <2>2. d \in DaemonType /\ d.work = daemon[p].work /\ d.at = daemon[p].at /\ d.stop = daemon[p].stop
        /\ d.writer = daemon[p].writer
    BY <1>0 DEF DaemonType
  <2> HIDE DEF d
  <2> QED BY <1>0, <2>1, <2>2, StandsStill
<1>2. CASE daemon[p].at \notin {"published", "serving"}
  BY <1>0, <1>2, VanishInv DEF ElectSignal
<1> QED BY <1>1, <1>2

(* A shutdown step gives back what it says, while the writer is joined      *)
(* before the guard is free for a successor.                                *)
LEMMA StopInv ==
  ASSUME ElectInv, NEW p \in Procs, Stop(p) PROVE ElectInv'
<1>0. /\ FullTypes /\ PortsOwned /\ daemon[p] \in DaemonType /\ faults' \in Nat
      /\ UNCHANGED <<adapter, stamp>> /\ daemon[p].at = "serving" /\ daemon[p].stop \in Stops
  BY DEF ElectInv, FullTypes, Stop, DaemonType
<1> DEFINE to == StopAfter(daemon[p].stop)
<1>1. \/ daemon[p].stop = "no" /\ to = "drained"
      \/ daemon[p].stop = "drained" /\ to = "closed"
      \/ daemon[p].stop = "closed" /\ to = "joined"
      \/ daemon[p].stop = "joined" /\ to = "removed"
      \/ daemon[p].stop = "removed" /\ to = "released"
      \/ daemon[p].stop = "released" /\ to = "exited"
  BY <1>0, StopSteps DEF Stops
<1> HIDE DEF to
<1>2. CASE to = "exited"
  BY <1>0, <1>2, VanishInv DEF Stop, to
<1>3. CASE to # "exited"
  <2> DEFINE d == [daemon[p] EXCEPT !.stop = to, !.drain = TRUE, !.writer = @ /\ to # "joined"]
  <2>1. /\ daemon' = [daemon EXCEPT ![p] = d]
        /\ ports' = [ports EXCEPT !.probe = IF to = "closed" /\ @ = p THEN Nobody ELSE @,
                                  !.file = IF to = "removed" THEN Nobody ELSE @,
                                  !.guard = IF to = "released" THEN Nobody ELSE @]
    BY <1>0, <1>3 DEF Stop, to, FullTypes
  <2>2. to \in Stops
    BY <1>1, <1>3 DEF Stops
  <2>3. d \in DaemonType /\ d.work = daemon[p].work /\ d.at = "serving" /\ d.stop = to
        /\ (d.writer => daemon[p].writer /\ to # "joined")
    BY <1>0, <2>2 DEF DaemonType
  <2>4. /\ ports' \in PortsType
        /\ ports'.probe = IF to = "closed" /\ ports.probe = p THEN Nobody ELSE ports.probe
        /\ ports'.file = IF to = "removed" THEN Nobody ELSE ports.file
        /\ ports'.guard = IF to = "released" THEN Nobody ELSE ports.guard
    BY <1>0, <2>1 DEF FullTypes, PortsType, Holders
  <2> HIDE DEF d
  <2>5. /\ HoldsGuard(daemon[p]) /\ ports.guard = p
        /\ HoldsFile(d) => HoldsFile(daemon[p]) /\ to # "removed"
        /\ HoldsProbe(d) <=> to = "drained"
        /\ HoldsProbe(daemon[p]) <=> to \in {"drained", "closed"}
        /\ HoldsGuard(d) <=> to # "released"
    BY <1>0, <1>1, <1>3, <2>3 DEF PortsOwned, HoldsGuard, HoldsFile, HoldsProbe
  <2>6. d.writer => MayWrite(d)
    BY <1>0, <1>1, <2>3 DEF PortsOwned, MayWrite
  <2>7. ASSUME NEW q \in Procs, q # p
        PROVE  ~HoldsGuard(daemon[q]) /\ ~HoldsFile(daemon[q])
    BY <1>0, <2>5, <2>7, OneHolder, GuardComesFirst
  <2>8. HoldsProbe(d) <=> ports'.probe = p
    BY <1>0, <1>1, <2>4, <2>5, ProcsAreNamed DEF PortsOwned
  <2>9. \A q \in Procs : q # p => (ports'.probe = q <=> ports.probe = q)
    BY <2>4, ProcsAreNamed
  <2>10. (HoldsGuard(d) => ports'.guard = p) /\ (HoldsFile(d) => ports'.file = p)
    BY <1>0, <2>4, <2>5 DEF PortsOwned
  <2> QED BY <1>0, <2>1, <2>3, <2>4, <2>6, <2>7, <2>8, <2>9, <2>10, ProcessMoves
<1> QED BY <1>2, <1>3

-----------------------------------------------------------------------------
(* The adapters                                                             *)

(* A process is spawned: it holds nothing yet.                              *)
LEMMA SpawnedOwned ==
  ASSUME FullTypes, PortsOwned, Unspawned # {}, NEW keep \in BOOLEAN, UNCHANGED ports,
         LET p == CHOOSE q \in Unspawned : \A r \in Unspawned : q <= r
         IN daemon' = [daemon EXCEPT ![p].at = "boot", ![p].keep = keep]
  PROVE  /\ daemon' \in [Procs -> DaemonType] /\ PortsOwned'
         /\ \A q \in Procs : daemon'[q].work = daemon[q].work
<1> DEFINE p == CHOOSE q \in Unspawned : \A r \in Unspawned : q <= r
           d == [daemon[p] EXCEPT !.at = "boot", !.keep = keep]
<1>1. p \in Unspawned
  BY NextUnspawned
<1>2. daemon' = [daemon EXCEPT ![p].at = "boot", ![p].keep = keep]
  OBVIOUS
<1> HIDE DEF p
<1>3. p \in Procs /\ daemon[p] \in DaemonType /\ daemon[p].at = "none"
  BY <1>1 DEF Unspawned, FullTypes
<1>4. d \in DaemonType /\ d.at = "boot" /\ d.stop = daemon[p].stop /\ d.writer = daemon[p].writer
      /\ d.work = daemon[p].work
  BY <1>3 DEF DaemonType, Ats
<1>5. daemon' = [daemon EXCEPT ![p] = d]
  BY <1>2, <1>3 DEF FullTypes
<1> HIDE DEF d
<1>6. daemon' \in [Procs -> DaemonType] /\ daemon'[p] = d /\ \A q \in Procs : q # p => daemon'[q] = daemon[q]
  BY <1>3, <1>4, <1>5 DEF FullTypes
<1>7. d.stop = "no" /\ ~d.writer /\ ports.probe # p
  BY <1>3, <1>4 DEF PortsOwned, MayWrite, HoldsProbe
<1>8. ~HoldsGuard(d) /\ ~HoldsProbe(d) /\ ~HoldsFile(d)
  BY <1>4 DEF HoldsGuard, HoldsProbe, HoldsFile
<1>9. PortsOwned'
  BY <1>3, <1>6, <1>7, <1>8, OneMoves DEF PortsOwned
<1> QED BY <1>4, <1>6, <1>9

(* The call of c turns into a, whatever becomes of the processes.           *)
LEMMA CallTurns ==
  ASSUME ElectInv, NEW c \in Adapters, NEW a \in CallType, Set(c, a), CallTrue(a),
         \A p \in Procs : c \in daemon'[p].work => InHandTrue(p, a),
         \A p \in Procs : daemon'[p].work \subseteq daemon[p].work \cup {c},
         daemon' \in [Procs -> DaemonType], PortsOwned', UNCHANGED ports,
         stamp' \in 0..SpawnGap, faults' \in Nat
  PROVE  ElectInv'
<1>0. FullTypes /\ CallsTrue
  BY DEF ElectInv
<1>1. adapter' \in [Adapters -> CallType] /\ adapter'[c] = a
      /\ \A b \in Adapters : b # c => adapter'[b] = adapter[b]
  BY <1>0 DEF FullTypes, Set
<1>2. \A b \in Adapters : CallTrue(adapter'[b])
  BY <1>0, <1>1 DEF CallsTrue
<1>3. ASSUME NEW p \in Procs, NEW b \in daemon'[p].work PROVE InHandTrue(p, adapter'[b])
  <2>1. CASE b = c
    BY <1>1, <2>1
  <2>2. CASE b # c
    <3>1. b \in daemon[p].work /\ b \in Adapters
      BY <2>2 DEF DaemonType
    <3> QED BY <1>0, <1>1, <2>2, <3>1 DEF CallsTrue
  <2> QED BY <2>1, <2>2
<1>4. CallsTrue'
  BY <1>2, <1>3 DEF CallsTrue
<1> QED BY <1>0, <1>1, <1>4 DEF ElectInv, FullTypes

(* The call of c turns into a and no process changes.                       *)
LEMMA OnlyCallTurns ==
  ASSUME ElectInv, NEW c \in Adapters, NEW a \in CallType, Set(c, a), CallTrue(a),
         \A p \in Procs : c \in daemon[p].work => InHandTrue(p, a),
         UNCHANGED <<daemon, ports>>, stamp' \in 0..SpawnGap, faults' \in Nat
  PROVE  ElectInv'
<1>1. daemon' \in [Procs -> DaemonType] /\ PortsOwned'
  BY DEF ElectInv, FullTypes, PortsOwned
<1> QED BY <1>1, CallTurns

(* A reachable daemon is a process.                                         *)
LEMMA ReachableProc == FullTypes => Reachable \in Holders
BY DEF FullTypes, PortsType, Reachable, FileNames, Holders

(* Spawning, as an adapter does it.                                         *)
LEMMA SpawnOwned ==
  ASSUME FullTypes, PortsOwned, Unspawned # {}, Spawn(FALSE), UNCHANGED ports
  PROVE  /\ daemon' \in [Procs -> DaemonType] /\ PortsOwned' /\ stamp' \in 0..SpawnGap
         /\ \A q \in Procs : daemon'[q].work = daemon[q].work
<1>1. stamp' \in 0..SpawnGap
  BY ElectionConstants DEF Spawn
<1>2. LET p == CHOOSE q \in Unspawned : \A r \in Unspawned : q <= r
      IN daemon' = [daemon EXCEPT ![p].at = "boot", ![p].keep = FALSE]
  BY DEF Spawn
<1> QED BY <1>1, <1>2, SpawnedOwned

(* Connecting, or beginning to wait, with a call whose write has not run.   *)
LEMMA BeginEnsureInv ==
  ASSUME ElectInv, NEW c \in Adapters, NEW a \in CallType, BeginEnsure(c, a),
         a.write => a.ran = 0,
         \A p \in Procs : c \in daemon[p].work => ~a.write,
         UNCHANGED ports, faults' \in Nat
  PROVE  ElectInv'
<1>0. FullTypes /\ PortsOwned
  BY DEF ElectInv
<1>1. ASSUME NEW b \in CallType, b.at \in {"ready", "wait"}, b.write = a.write, b.ran = a.ran
      PROVE  CallTrue(b) /\ \A p \in Procs : c \in daemon[p].work => InHandTrue(p, b)
  BY <1>1 DEF CallTrue, InHandTrue, CallType
<1>2. CASE Reachable # Nobody
  <2> DEFINE b == [a EXCEPT !.at = "ready", !.info = Reachable]
  <2>1. Set(c, b) /\ UNCHANGED <<daemon, stamp>>
    BY <1>2 DEF BeginEnsure
  <2>2. b \in CallType /\ b.at = "ready" /\ b.write = a.write /\ b.ran = a.ran
    BY <1>0, ReachableProc DEF CallType, CallAts
  <2> HIDE DEF b
  <2>3. CallTrue(b) /\ \A p \in Procs : c \in daemon[p].work => InHandTrue(p, b)
    BY <1>1, <2>2
  <2> QED BY <1>0, <2>1, <2>2, <2>3, OnlyCallTurns DEF FullTypes
<1>3. CASE Reachable = Nobody
  <2> DEFINE b == [a EXCEPT !.at = "wait", !.alive = TRUE, !.miss = 0, !.tries = 0, !.probed = 0,
                          !.due = FALSE]
  <2>1. /\ Set(c, b)
        /\ \/ Unspawned # {} /\ Spawn(FALSE)
           \/ UNCHANGED <<daemon, stamp>>
    BY <1>3 DEF BeginEnsure, SpawnDue
  <2>2. b \in CallType /\ b.at = "wait" /\ b.write = a.write /\ b.ran = a.ran
    BY DEF CallType, CallAts
  <2> HIDE DEF b
  <2>3. CallTrue(b) /\ \A p \in Procs : c \in daemon[p].work => InHandTrue(p, b)
    BY <1>1, <2>2
  <2>4. CASE Unspawned # {} /\ Spawn(FALSE)
    <3>1. /\ daemon' \in [Procs -> DaemonType] /\ PortsOwned' /\ stamp' \in 0..SpawnGap
          /\ \A q \in Procs : daemon'[q].work = daemon[q].work
      BY <1>0, <2>4, SpawnOwned
    <3> QED BY <2>1, <2>2, <2>3, <3>1, CallTurns
  <2>5. CASE UNCHANGED <<daemon, stamp>>
    BY <1>0, <2>1, <2>2, <2>3, <2>5, OnlyCallTurns DEF FullTypes
  <2> QED BY <2>1, <2>4, <2>5
<1> QED BY <1>2, <1>3

(* A tool call begins.                                                      *)
LEMMA CallInv ==
  ASSUME ElectInv, NEW c \in Adapters, NEW w \in BOOLEAN, Call(c, w) PROVE ElectInv'
<1> DEFINE a == [NoCall EXCEPT !.write = w, !.again = TRUE]
<1>1. a \in CallType /\ a.ran = 0
  BY DEF NoCall, CallType, CallAts, Holders
<1>2. BeginEnsure(c, a) /\ UNCHANGED <<ports, faults>> /\ adapter[c].at = "idle"
  BY DEF Call
<1> HIDE DEF a
<1>3. \A p \in Procs : c \notin daemon[p].work
  BY <1>2 DEF ElectInv, CallsTrue, InHandTrue
<1>4. faults' \in Nat
  BY <1>2 DEF ElectInv, FullTypes
<1> QED BY <1>1, <1>2, <1>3, <1>4, BeginEnsureInv

(* An owner probe counts; it is not the call.                               *)
LEMMA ProbeKeeps ==
  ASSUME NEW a \in CallType
  PROVE  /\ ProbeOwner(a) \in CallType /\ ProbeOwner(a).at = a.at
         /\ ProbeOwner(a).write = a.write /\ ProbeOwner(a).ran = a.ran
<1>1. CASE a.probed < ProbeEvery
  BY <1>1 DEF ProbeOwner
<1>2. CASE ~(a.probed < ProbeEvery) /\ OwnerSeen
  <2> DEFINE b == [a EXCEPT !.alive = TRUE, !.miss = 0, !.tries = 0, !.probed = 0]
  <2>1. b \in CallType /\ b.at = a.at /\ b.write = a.write /\ b.ran = a.ran
    BY DEF CallType
  <2> QED BY <1>2, <2>1 DEF ProbeOwner
<1>3. CASE ~(a.probed < ProbeEvery) /\ ~OwnerSeen /\ ~a.alive
  <2> DEFINE b == [a EXCEPT !.probed = 0]
  <2>1. b \in CallType /\ b.at = a.at /\ b.write = a.write /\ b.ran = a.ran
    BY DEF CallType
  <2> QED BY <1>3, <2>1 DEF ProbeOwner
<1>4. CASE ~(a.probed < ProbeEvery) /\ ~OwnerSeen /\ a.alive
  <2> DEFINE still == a.miss + 1 < ProbeMisses
             more == a.miss + 1
             b == [a EXCEPT !.miss = more, !.alive = still, !.probed = 0]
  <2>1. still \in BOOLEAN /\ more \in Nat
    BY DEF CallType
  <2>2. ProbeOwner(a) = b
    BY <1>4 DEF ProbeOwner
  <2> HIDE DEF still, more
  <2>3. b \in CallType /\ b.at = a.at /\ b.write = a.write /\ b.ran = a.ran
    BY <2>1 DEF CallType
  <2> QED BY <2>2, <2>3
<1> QED BY <1>1, <1>2, <1>3, <1>4

(* One attempt of a wait: the counters change, the outcome does not.        *)
LEMMA AttemptInv ==
  ASSUME ElectInv, NEW c \in Adapters, Attempt(c) PROVE ElectInv'
<1>0. FullTypes /\ PortsOwned /\ adapter[c] \in CallType /\ adapter[c].at = "wait" /\ faults' \in Nat
      /\ UNCHANGED ports
  BY DEF ElectInv, FullTypes, Attempt
<1> DEFINE a == ProbeOwner([adapter[c] EXCEPT !.due = FALSE])
           b == IF a.alive THEN a ELSE [a EXCEPT !.tries = @ + 1]
           e == IF GiveUp(b) THEN Failure(b) ELSE b
<1>1. a \in CallType /\ a.at = "wait" /\ a.write = adapter[c].write /\ a.ran = adapter[c].ran
  <2> DEFINE g == [adapter[c] EXCEPT !.due = FALSE]
  <2>1. g \in CallType /\ g.at = "wait" /\ g.write = adapter[c].write /\ g.ran = adapter[c].ran
    BY <1>0 DEF CallType
  <2> HIDE DEF g
  <2>2. ProbeOwner(g) \in CallType /\ ProbeOwner(g).at = "wait" /\ ProbeOwner(g).write = adapter[c].write
        /\ ProbeOwner(g).ran = adapter[c].ran
    BY <2>1, ProbeKeeps
  <2> QED BY <2>2 DEF g
<1>2. /\ \/ /\ Reachable # Nobody
            /\ Set(c, [a EXCEPT !.at = "ready", !.info = Reachable]) /\ UNCHANGED <<daemon, stamp>>
         \/ Set(c, e) /\ ((Unspawned # {} /\ Spawn(FALSE)) \/ UNCHANGED <<daemon, stamp>>)
  BY DEF Attempt, SpawnDue
<1> HIDE DEF a
<1>3. b \in CallType /\ b.at = "wait" /\ b.write = adapter[c].write /\ b.ran = adapter[c].ran
  BY <1>1 DEF CallType
<1> HIDE DEF b
<1>4. /\ e \in CallType /\ e.at \in {"wait", "starting", "failed"}
      /\ e.write = adapter[c].write /\ e.ran = adapter[c].ran
  BY <1>3 DEF Failure, CallType, CallAts
<1> HIDE DEF e
<1>5. /\ adapter[c].write => adapter[c].ran = 0
      /\ \A p \in Procs : c \in daemon[p].work => ~adapter[c].write
  BY <1>0 DEF ElectInv, CallsTrue, CallTrue, InHandTrue
<1>6. ASSUME NEW f \in CallType, f.at \in {"ready", "wait", "starting", "failed"}, f.write = adapter[c].write,
             f.ran = adapter[c].ran
      PROVE  CallTrue(f) /\ \A p \in Procs : c \in daemon[p].work => InHandTrue(p, f)
  BY <1>5, <1>6 DEF CallTrue, InHandTrue, CallType
<1>7. CASE Set(c, [a EXCEPT !.at = "ready", !.info = Reachable]) /\ UNCHANGED <<daemon, stamp>>
  <2> DEFINE f == [a EXCEPT !.at = "ready", !.info = Reachable]
  <2>1. f \in CallType /\ f.at = "ready" /\ f.write = adapter[c].write /\ f.ran = adapter[c].ran
    BY <1>0, <1>1, ReachableProc DEF CallType, CallAts
  <2>2. Set(c, f)
    BY <1>7
  <2> HIDE DEF f
  <2>3. CallTrue(f) /\ \A p \in Procs : c \in daemon[p].work => InHandTrue(p, f)
    BY <1>6, <2>1
  <2> QED BY <1>0, <1>7, <2>1, <2>2, <2>3, OnlyCallTurns DEF FullTypes
<1>8. CASE Set(c, e) /\ Unspawned # {} /\ Spawn(FALSE)
  <2>1. /\ daemon' \in [Procs -> DaemonType] /\ PortsOwned' /\ stamp' \in 0..SpawnGap
        /\ \A q \in Procs : daemon'[q].work = daemon[q].work
    BY <1>0, <1>8, SpawnOwned
  <2>2. CallTrue(e) /\ \A p \in Procs : c \in daemon[p].work => InHandTrue(p, e)
    BY <1>4, <1>6
  <2> QED BY <1>0, <1>4, <1>8, <2>1, <2>2, CallTurns
<1>9. CASE Set(c, e) /\ UNCHANGED <<daemon, stamp>>
  <2>1. CallTrue(e) /\ \A p \in Procs : c \in daemon[p].work => InHandTrue(p, e)
    BY <1>4, <1>6
  <2> QED BY <1>0, <1>4, <1>9, <2>1, OnlyCallTurns DEF FullTypes
<1> QED BY <1>2, <1>7, <1>8, <1>9

(* A daemon admits a call, or the call is refused before anything ran.      *)
LEMMA SendInv ==
  ASSUME ElectInv, NEW c \in Adapters, Send(c) PROVE ElectInv'
<1> DEFINE a == adapter[c]
           p == a.info
<1>0. /\ FullTypes /\ PortsOwned /\ a \in CallType /\ a.at = "ready" /\ p \in Holders
      /\ faults' \in Nat /\ UNCHANGED ports
  BY DEF ElectInv, FullTypes, Send, CallType
<1>1. /\ a.write => a.ran = 0
      /\ \A q \in Procs : c \in daemon[q].work => ~a.write
  BY <1>0 DEF ElectInv, CallsTrue, CallTrue, InHandTrue
<1>2. CASE Answers(p)
  <2> DEFINE d == [daemon[p] EXCEPT !.work = @ \cup {c}, !.timer = FALSE]
             f == [a EXCEPT !.at = "sent"]
  <2>1. p \in Procs /\ daemon[p] \in DaemonType
    BY <1>0, <1>2 DEF Answers, Holders, FullTypes
  <2>2. daemon' = [daemon EXCEPT ![p] = d] /\ Set(c, f) /\ UNCHANGED stamp
    BY <1>0, <1>2, <2>1 DEF Send, FullTypes
  <2>3. d \in DaemonType /\ d.at = daemon[p].at /\ d.stop = daemon[p].stop /\ d.writer = daemon[p].writer
        /\ d.work = daemon[p].work \cup {c}
    BY <2>1 DEF DaemonType
  <2>4. f \in CallType /\ f.at = "sent" /\ f.info = p /\ f.write = a.write /\ f.ran = a.ran
    BY <1>0 DEF CallType, CallAts
  <2> HIDE DEF d, f
  <2>5. daemon' \in [Procs -> DaemonType] /\ daemon'[p] = d /\ \A q \in Procs : q # p => daemon'[q] = daemon[q]
    BY <1>0, <2>1, <2>2, <2>3 DEF FullTypes
  <2>6. \A q \in Procs : /\ daemon'[q].at = daemon[q].at /\ daemon'[q].stop = daemon[q].stop
                         /\ daemon'[q].writer = daemon[q].writer
                         /\ daemon'[q].work \subseteq daemon[q].work \cup {c}
    BY <2>3, <2>5
  <2>7. PortsOwned'
    BY <1>0, <2>6, NobodyMoves
  <2>8. CallTrue(f)
    BY <1>1, <2>4 DEF CallTrue, CallType
  <2>9. ASSUME NEW q \in Procs, c \in daemon'[q].work PROVE InHandTrue(q, f)
    <3>1. CASE q = p
      BY <1>1, <2>4, <3>1 DEF InHandTrue
    <3>2. CASE q # p
      BY <1>1, <2>4, <2>5, <2>9, <3>2 DEF InHandTrue
    <3> QED BY <3>1, <3>2
  <2> QED BY <1>0, <2>2, <2>4, <2>5, <2>6, <2>7, <2>8, <2>9, CallTurns DEF FullTypes
<1>3. CASE ~Answers(p) /\ a.again
  <2> DEFINE f == [a EXCEPT !.again = FALSE]
  <2>1. BeginEnsure(c, f)
    BY <1>3 DEF Send
  <2>2. f \in CallType /\ f.write = a.write /\ f.ran = a.ran
    BY <1>0 DEF CallType
  <2> HIDE DEF f
  <2> QED BY <1>0, <1>1, <2>1, <2>2, BeginEnsureInv
<1>4. CASE ~Answers(p) /\ ~a.again
  <2> DEFINE f == [a EXCEPT !.at = "failed"]
  <2>1. Set(c, f) /\ UNCHANGED <<daemon, stamp>>
    BY <1>4 DEF Send
  <2>2. f \in CallType /\ f.write = a.write /\ f.ran = a.ran /\ f.at = "failed"
    BY <1>0 DEF CallType, CallAts
  <2> HIDE DEF f
  <2>3. CallTrue(f) /\ \A q \in Procs : c \in daemon[q].work => InHandTrue(q, f)
    BY <1>1, <2>2 DEF CallTrue, InHandTrue, CallType
  <2> QED BY <1>0, <2>1, <2>2, <2>3, OnlyCallTurns DEF FullTypes
<1> QED BY <1>2, <1>3, <1>4

(* A daemon runs the tool once for each call in its hands.                  *)
LEMMA HandleInv ==
  ASSUME ElectInv, NEW p \in Procs, NEW c \in Adapters, Handle(p, c) PROVE ElectInv'
<1>0. /\ FullTypes /\ PortsOwned /\ adapter[c] \in CallType /\ daemon[p] \in DaemonType
      /\ c \in daemon[p].work /\ UNCHANGED <<ports, stamp, faults>>
  BY DEF ElectInv, FullTypes, Handle
<1> DEFINE last == daemon[p].work = {c} /\ ~daemon[p].recovery /\ ~daemon[p].drain /\ ~daemon[p].keep
           d == [daemon[p] EXCEPT !.work = @ \ {c}, !.timer = @ \/ last]
           more == adapter[c].ran + 1
           here == adapter[c].at = "sent" /\ adapter[c].info = p
           f == IF here THEN [adapter[c] EXCEPT !.at = "answered", !.ran = more]
                ELSE [adapter[c] EXCEPT !.ran = more]
<1>1. daemon' = [daemon EXCEPT ![p] = d] /\ Set(c, f)
  BY <1>0 DEF Handle, FullTypes
<1>2. last \in BOOLEAN /\ more \in Nat /\ more = adapter[c].ran + 1
  BY <1>0 DEF CallType
<1> HIDE DEF last, more
<1>3. d \in DaemonType /\ d.at = daemon[p].at /\ d.stop = daemon[p].stop /\ d.writer = daemon[p].writer
      /\ d.work = daemon[p].work \ {c}
  BY <1>0, <1>2 DEF DaemonType
<1>4. /\ f \in CallType /\ f.write = adapter[c].write /\ f.ran = more
      /\ (here /\ f.at = "answered") \/ (~here /\ f.at = adapter[c].at)
  BY <1>0, <1>2 DEF CallType, CallAts
<1> HIDE DEF d, f
<1>5. daemon' \in [Procs -> DaemonType] /\ daemon'[p] = d /\ \A q \in Procs : q # p => daemon'[q] = daemon[q]
  BY <1>0, <1>1, <1>3 DEF FullTypes
<1>6. \A q \in Procs : /\ daemon'[q].at = daemon[q].at /\ daemon'[q].stop = daemon[q].stop
                       /\ daemon'[q].writer = daemon[q].writer
                       /\ daemon'[q].work \subseteq daemon[q].work \cup {c}
  BY <1>3, <1>5
<1>7. PortsOwned'
  BY <1>0, <1>6, NobodyMoves
<1>8. /\ adapter[c].at # "idle"
      /\ adapter[c].write => adapter[c].at \in {"sent", "lost"} /\ adapter[c].info = p /\ adapter[c].ran = 0
  BY <1>0 DEF ElectInv, CallsTrue, InHandTrue
<1>9. CallTrue(f)
  BY <1>2, <1>4, <1>8 DEF CallTrue
<1>10. ASSUME NEW q \in Procs, c \in daemon'[q].work PROVE InHandTrue(q, f)
  <2>1. q # p /\ c \in daemon[q].work
    BY <1>3, <1>5, <1>10
  <2>2. ~adapter[c].write
    BY <1>8, <2>1 DEF ElectInv, CallsTrue, InHandTrue
  <2> QED BY <1>4, <1>8, <2>2 DEF InHandTrue
<1> QED BY <1>0, <1>1, <1>4, <1>5, <1>6, <1>7, <1>9, <1>10, CallTurns DEF FullTypes

(* The reply arrives, or a read that was lost twice ends in an error.       *)
LEMMA EndInv ==
  ASSUME ElectInv, NEW c \in Adapters, Receive(c) \/ LoseRetry(c) PROVE ElectInv'
<1>0. FullTypes /\ adapter[c] \in CallType /\ UNCHANGED <<daemon, ports, stamp, faults>>
  BY DEF ElectInv, FullTypes, Receive, LoseRetry
<1>1. CASE Receive(c)
  <2> DEFINE f == [adapter[c] EXCEPT !.at = "done"]
  <2>1. Set(c, f) /\ adapter[c].at = "answered"
    BY <1>1 DEF Receive
  <2>2. f \in CallType /\ f.write = adapter[c].write /\ f.ran = adapter[c].ran /\ f.at = "done"
    BY <1>0 DEF CallType, CallAts
  <2> HIDE DEF f
  <2>3. CallTrue(f) /\ \A q \in Procs : c \in daemon[q].work => InHandTrue(q, f)
    BY <2>1, <2>2 DEF CallTrue, InHandTrue, ElectInv, CallsTrue
  <2> QED BY <1>0, <2>1, <2>2, <2>3, OnlyCallTurns DEF FullTypes
<1>2. CASE LoseRetry(c)
  <2> DEFINE f == [adapter[c] EXCEPT !.at = "failed"]
  <2>1. Set(c, f) /\ ~adapter[c].write
    BY <1>2 DEF LoseRetry
  <2>2. f \in CallType /\ f.write = adapter[c].write /\ f.at = "failed"
    BY <1>0 DEF CallType, CallAts
  <2> HIDE DEF f
  <2>3. CallTrue(f) /\ \A q \in Procs : c \in daemon[q].work => InHandTrue(q, f)
    BY <2>1, <2>2 DEF CallTrue, InHandTrue
  <2> QED BY <1>0, <2>1, <2>2, <2>3, OnlyCallTurns DEF FullTypes
<1> QED BY <1>1, <1>2

(* The connection is lost after sending: a write is told so, a read begins  *)
(* again, although a daemon may still have it in hand.                      *)
LEMMA LoseReplyInv ==
  ASSUME ElectInv, NEW c \in Adapters, LoseReply(c) PROVE ElectInv'
<1>0. /\ FullTypes /\ adapter[c] \in CallType /\ UNCHANGED ports /\ faults' \in Nat
      /\ adapter[c].at \in {"sent", "answered"} /\ MidCall(c)
  BY DEF ElectInv, FullTypes, LoseReply
<1>1. CASE adapter[c].write
  <2> DEFINE f == [adapter[c] EXCEPT !.at = "lost"]
  <2>1. Set(c, f) /\ UNCHANGED <<daemon, stamp>>
    BY <1>0, <1>1 DEF MidCall
  <2>2. f \in CallType /\ f.write = adapter[c].write /\ f.at = "lost" /\ f.ran = adapter[c].ran
        /\ f.info = adapter[c].info
    BY <1>0 DEF CallType, CallAts
  <2> HIDE DEF f
  <2>3. CallTrue(f) /\ \A q \in Procs : c \in daemon[q].work => InHandTrue(q, f)
    BY <1>1, <2>2 DEF CallTrue, InHandTrue, ElectInv, CallsTrue
  <2> QED BY <1>0, <2>1, <2>2, <2>3, OnlyCallTurns DEF FullTypes
<1>2. CASE ~adapter[c].write
  <2> DEFINE f == [adapter[c] EXCEPT !.again = FALSE]
  <2>1. BeginEnsure(c, f)
    BY <1>0, <1>2 DEF MidCall
  <2>2. f \in CallType /\ ~f.write
    BY <1>0, <1>2 DEF CallType
  <2> HIDE DEF f
  <2> QED BY <1>0, <2>1, <2>2, BeginEnsureInv
<1> QED BY <1>1, <1>2

-----------------------------------------------------------------------------
(* Every step                                                               *)

(* A retry delay passes.                                                    *)
LEMMA TickInv == ElectInv /\ ElectTick => ElectInv'
<1> SUFFICES ASSUME ElectInv, ElectTick PROVE ElectInv'
  OBVIOUS
<1>0. FullTypes /\ PortsOwned /\ CallsTrue /\ UNCHANGED <<daemon, ports, faults>>
  BY DEF ElectInv, ElectTick
<1>1. stamp' \in 0..SpawnGap
  <2>1. stamp \in Nat /\ SpawnGap \in Nat /\ stamp <= SpawnGap
    BY <1>0, ElectionConstants DEF FullTypes
  <2>2. stamp' = IF stamp < SpawnGap THEN stamp + 1 ELSE stamp
    BY DEF ElectTick, StampAge
  <2> QED BY <2>1, <2>2
<1>2. ASSUME NEW c \in Adapters
      PROVE  /\ adapter'[c] \in CallType /\ adapter'[c].at = adapter[c].at /\ adapter'[c].ran = adapter[c].ran
             /\ adapter'[c].write = adapter[c].write /\ adapter'[c].info = adapter[c].info
  <2>0. adapter[c] \in CallType
    BY <1>0 DEF FullTypes
  <2>1. CASE c \in Waiting
    <3> DEFINE age == IF adapter[c].age < StartCap THEN adapter[c].age + 1 ELSE adapter[c].age
               prb == IF adapter[c].probed < ProbeEvery THEN adapter[c].probed + 1 ELSE adapter[c].probed
               f == [adapter[c] EXCEPT !.due = TRUE, !.age = age, !.probed = prb]
    <3>1. adapter'[c] = f
      BY <2>1 DEF ElectTick
    <3>2. age \in Nat /\ prb \in Nat
      BY <2>0 DEF CallType
    <3> HIDE DEF age, prb
    <3>3. /\ f \in CallType /\ f.at = adapter[c].at /\ f.ran = adapter[c].ran
          /\ f.write = adapter[c].write /\ f.info = adapter[c].info
      BY <2>0, <3>2 DEF CallType
    <3> QED BY <3>1, <3>3
  <2>2. CASE c \notin Waiting
    BY <2>0, <2>2 DEF ElectTick
  <2> QED BY <2>1, <2>2
<1>3. adapter' \in [Adapters -> CallType]
  <2>1. adapter' = [c \in Adapters |-> adapter'[c]]
    BY DEF ElectTick
  <2> QED BY <1>2, <2>1
<1>4. PortsOwned'
  BY <1>0 DEF PortsOwned
<1>5. CallsTrue'
  <2>1. \A c \in Adapters : CallTrue(adapter'[c])
    BY <1>0, <1>2 DEF CallsTrue, CallTrue
  <2>2. ASSUME NEW p \in Procs, NEW c \in daemon'[p].work PROVE InHandTrue(p, adapter'[c])
    <3>1. c \in Adapters /\ c \in daemon[p].work
      BY <1>0 DEF FullTypes, DaemonType
    <3> QED BY <1>0, <1>2, <3>1 DEF CallsTrue, InHandTrue
  <2> QED BY <2>1, <2>2 DEF CallsTrue
<1> QED BY <1>0, <1>1, <1>3, <1>4, <1>5 DEF ElectInv, FullTypes

(* The start command spawns a daemon.                                       *)
LEMMA StartCommandInv == ElectInv /\ StartCommand => ElectInv'
<1> SUFFICES ASSUME ElectInv, StartCommand PROVE ElectInv'
  OBVIOUS
<1>0. /\ FullTypes /\ PortsOwned /\ CallsTrue /\ UNCHANGED <<ports, adapter, stamp>>
      /\ faults' \in Nat /\ Unspawned # {}
  BY DEF ElectInv, FullTypes, StartCommand
<1>1. LET p == CHOOSE q \in Unspawned : \A r \in Unspawned : q <= r
      IN daemon' = [daemon EXCEPT ![p].at = "boot", ![p].keep = TRUE]
  BY DEF StartCommand
<1>2. /\ daemon' \in [Procs -> DaemonType] /\ PortsOwned'
      /\ \A q \in Procs : daemon'[q].work = daemon[q].work
  BY <1>0, <1>1, SpawnedOwned
<1>3. CallsTrue'
  BY <1>0, <1>2, CallsStay
<1> QED BY <1>0, <1>2, <1>3 DEF ElectInv, FullTypes

(* Nobody runs, nothing is published, no call was made.                     *)
LEMMA InitInv == ElectInit => ElectInv
<1> SUFFICES ASSUME ElectInit PROVE ElectInv
  OBVIOUS
<1>1. Unborn \in DaemonType /\ NoCall \in CallType
  <2>1. Unborn \in DaemonType
    BY DEF Unborn, DaemonType, Ats, Stops
  <2>2. NoCall \in CallType
    BY DEF NoCall, CallType, CallAts, Holders
  <2> QED BY <2>1, <2>2
<1>2. FullTypes
  BY <1>1, ElectionConstants DEF ElectInit, FullTypes, PortsType, Holders
<1>3. PortsOwned
  BY ProcsAreNamed DEF ElectInit, PortsOwned, HoldsGuard, HoldsProbe, HoldsFile, Unborn
<1>4. CallsTrue
  BY DEF ElectInit, CallsTrue, CallTrue, NoCall, Unborn
<1> QED BY <1>2, <1>3, <1>4 DEF ElectInv

(* Every step of a process, an adapter or the clock keeps the invariant.    *)
LEMMA StepInv == ElectInv /\ [ElectNext]_evars => ElectInv'
<1> SUFFICES ASSUME ElectInv, [ElectNext]_evars PROVE ElectInv'
  OBVIOUS
<1>1. ASSUME NEW p \in Procs, DaemonStep(p) \/ StartFails(p) \/ ElectSignal(p) \/ ElectCrash(p)
      PROVE  ElectInv'
  <2>1. CASE \E c \in Adapters : Handle(p, c)
    BY <2>1, HandleInv
  <2> QED BY <1>1, <2>1, BindGuardInv, BindProbeInv, StartInv, PublishReadyInv, ExitInv, TimersInv,
             SignalInv, StopInv DEF DaemonStep
<1>2. ASSUME NEW c \in Adapters, AdapterStep(c) \/ \E w \in BOOLEAN : Call(c, w) PROVE ElectInv'
  BY <1>2, AttemptInv, SendInv, EndInv, LoseReplyInv, CallInv DEF AdapterStep
<1>3. CASE UNCHANGED evars
  BY <1>3 DEF evars, ElectInv, FullTypes, PortsOwned, CallsTrue
<1> QED BY <1>1, <1>2, <1>3, TickInv, StartCommandInv DEF ElectNext

(* One daemon per database: while processes race for the guard port, die    *)
(* at any step, are killed or shut down, and successors start before their  *)
(* predecessors are gone, at most one writes, the discovery file and the    *)
(* probe port are the owner's own (main, _shutdown_sequence), and a write   *)
(* ran as often as its caller was told (call_method).                       *)
THEOREM OwnerStaysOne == ElectSpec => []OneOwner
<1>1. ElectSpec => []ElectInv
  BY InitInv, StepInv, PTL DEF ElectSpec
<1> QED BY <1>1, InvIsOneOwner, PTL

=============================================================================
