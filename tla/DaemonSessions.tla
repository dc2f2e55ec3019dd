---------------------------- MODULE DaemonSessions ----------------------------
(***************************************************************************)
(* The daemon process of src/saltmdb/daemon/server.py: hello sessions,     *)
(* one-shot tool calls, leases, the grace timer, the shutdown sequence,    *)
(* crashes and restarts, with the _agent_sessions rows of                  *)
(* src/saltmdb/db/agent_sessions.py that outlive the process.              *)
(*                                                                         *)
(* Every critical section of _DaemonState._lock is one action.  A          *)
(* connection handler, a tool-call handler, the timer threads, the main    *)
(* thread and the shutdown watcher interleave between them.                *)
(***************************************************************************)
EXTENDS Integers, FiniteSets

CONSTANTS
  Conns,      \* hello connections
  Calls,      \* one-shot tool_call requests
  Agents,     \* agent_session_ids
  Agent,      \* Agent[c]: the agent session that says hello on connection c
  NoConn,     \* a call that carries no caller metadata
  TimerIds,   \* bound: threading.Timer objects alive at once
  NoTimer,    \* _shutdown_timer is None
  MaxStarts   \* bound: daemon processes started one after the other

ASSUME SessionsAssumption ==
  /\ Agent \in [Conns -> Agents]
  /\ NoConn \notin Conns
  /\ NoTimer \notin TimerIds
  /\ IsFiniteSet(Conns) /\ IsFiniteSet(Calls)
  /\ MaxStarts \in Nat

VARIABLES
  starts,     \* daemon processes started so far
  mpc,        \* the main thread
  foreground, \* --foreground
  sessions,   \* _sessions
  registered, \* keys of _agent_sessions
  closing,    \* records with closing = True
  leases,     \* leases of each record
  inflight,   \* _inflight
  draining,   \* _draining
  timer,      \* each Timer object: free, armed, or fired and not yet run
  current,    \* _shutdown_timer
  requested,  \* shutdown_requested
  coordOpen,  \* the write coordinator admits jobs
  recovery,   \* the embedding recovery thread is running
  hpc,        \* handler of each hello connection
  gone,       \* connections whose client closed its end
  leaving,    \* connections on which the client sent goodbye
  waived,     \* goodbyes that gave up waiting for leases
  cpc,        \* handler of each tool call
  caller,     \* the connection whose capability the call carries
  row,        \* _agent_sessions table: absent, open, goodbye, orphaned
  greeted,    \* history: agents recorded by the running process
  drainedBy   \* history: the timer whose firing drained the running process

table == <<row, greeted>>
life == <<starts, mpc, foreground>>
grace == <<timer, current>>
records == <<registered, closing, leases, waived>>
handlers == <<hpc, gone, leaving>>
calls == <<cpc, caller>>
stop == <<draining, requested, coordOpen, drainedBy>>
sessionsVars == <<life, sessions, records, inflight, grace, stop, recovery, handlers,
          calls, table>>

(* A process that has not been started, or has gone.                        *)
NoProcess ==
  /\ mpc' = "down"
  /\ foreground' = FALSE
  /\ sessions' = {} /\ registered' = {} /\ closing' = {} /\ waived' = {}
  /\ leases' = [c \in Conns |-> 0]
  /\ inflight' = 0
  /\ draining' = FALSE /\ requested' = FALSE /\ coordOpen' = FALSE
  /\ drainedBy' = NoTimer
  /\ timer' = [t \in TimerIds |-> "free"] /\ current' = NoTimer
  /\ recovery' = FALSE

SessionsInit ==
  /\ starts = 0
  /\ mpc = "down"
  /\ foreground = FALSE
  /\ sessions = {} /\ registered = {} /\ closing = {} /\ waived = {}
  /\ leases = [c \in Conns |-> 0]
  /\ inflight = 0
  /\ draining = FALSE /\ requested = FALSE /\ coordOpen = FALSE
  /\ drainedBy = NoTimer
  /\ timer = [t \in TimerIds |-> "free"] /\ current = NoTimer
  /\ recovery = FALSE
  /\ hpc = [c \in Conns |-> "none"]
  /\ gone = {} /\ leaving = {}
  /\ cpc = [k \in Calls |-> "idle"]
  /\ caller = [k \in Calls |-> NoConn]
  /\ row = [a \in Agents |-> "absent"]
  /\ greeted = {}

-----------------------------------------------------------------------------
(* The grace timer                                                          *)

Armed(t) == timer[t] = "armed"

(* Timer.cancel() stops a timer that waits; one that fired runs on.         *)
Cancelled == IF current # NoTimer /\ timer[current] = "armed"
             THEN [timer EXCEPT ![current] = "free"] ELSE timer

CancelGrace == timer' = Cancelled /\ current' = NoTimer

(* _start_grace_timer                                                       *)
StartGrace ==
  \E t \in TimerIds :
     /\ Cancelled[t] = "free"
     /\ timer' = [Cancelled EXCEPT ![t] = "armed"]
     /\ current' = t

(* The test that unregister_session and _release_inflight share.            *)
GoesIdle(s, n) == s = {} /\ n = 0 /\ ~draining /\ ~foreground

RearmIf(idle) == IF idle THEN StartGrace ELSE UNCHANGED grace

(* The Timer's 30 seconds are over: its thread runs and wants the lock.     *)
TimerExpires(t) ==
  /\ Armed(t)
  /\ timer' = [timer EXCEPT ![t] = "fired"]
  /\ UNCHANGED <<life, sessions, records, inflight, current, stop, recovery,
                 handlers, calls, table>>

(* _grace_fire                                                              *)
GraceFire(t) ==
  /\ timer[t] = "fired"
  /\ timer' = [timer EXCEPT ![t] = "free"]
  /\ IF sessions # {} \/ inflight # 0
     THEN current' = NoTimer /\ UNCHANGED stop
     ELSE /\ draining' = TRUE
          /\ requested' = TRUE
          /\ drainedBy' = IF draining THEN drainedBy ELSE t
          /\ UNCHANGED <<current, coordOpen>>
  /\ UNCHANGED <<life, sessions, records, inflight, recovery, handlers, calls,
                 table>>

-----------------------------------------------------------------------------
(* The process                                                              *)

(* _start_durable_services: the coordinator starts and every row that an    *)
(* earlier process left open is closed before anything is served.           *)
ReconcileOrphanedSessions ==
  row' = [a \in Agents |-> IF row[a] = "open" THEN "orphaned" ELSE row[a]]

StartServices ==
  /\ mpc = "down" /\ starts < MaxStarts
  /\ starts' = starts + 1
  /\ foreground' \in BOOLEAN
  /\ coordOpen' = TRUE
  /\ ReconcileOrphanedSessions
  /\ greeted' = {}
  /\ mpc' = "publish"
  /\ UNCHANGED <<sessions, records, inflight, grace, draining, requested, drainedBy,
                 recovery, handlers, calls>>

(* _publish_ready: the recovery thread counts as a dispatch in flight.      *)
Publish ==
  /\ mpc = "publish"
  /\ inflight' = inflight + 1
  /\ recovery' = TRUE
  /\ CancelGrace
  /\ mpc' = IF foreground THEN "serving" ELSE "graceCancel"
  /\ UNCHANGED <<starts, foreground, sessions, records, stop, handlers, calls, table>>

(* start_initial_grace_period calls _start_grace_timer without the lock:    *)
(* the old timer is cancelled, then the new one is stored and started.      *)
InitialGraceCancel ==
  /\ mpc = "graceCancel"
  /\ timer' = Cancelled
  /\ mpc' = "graceStore"
  /\ UNCHANGED <<starts, foreground, sessions, records, inflight, current,
                 stop, recovery, handlers, calls, table>>

InitialGraceStore ==
  /\ mpc = "graceStore"
  /\ \E t \in TimerIds :
       /\ timer[t] = "free"
       /\ timer' = [timer EXCEPT ![t] = "armed"]
       /\ current' = t
  /\ mpc' = "serving"
  /\ UNCHANGED <<starts, foreground, sessions, records, inflight, stop, recovery,
                 handlers, calls, table>>

(* Seeded fault: the timer is armed again only when a session ends.         *)
ReleaseWithoutRearm == inflight' = inflight - 1 /\ UNCHANGED grace

(* _release_inflight                                                        *)
ReleaseInflight ==
  /\ inflight' = inflight - 1
  /\ RearmIf(GoesIdle(sessions, inflight - 1))

(* _run_embedding_recovery ends, normally, by an error or stopped.          *)
RecoveryEnds ==
  /\ recovery
  /\ recovery' = FALSE
  /\ ReleaseInflight
  /\ UNCHANGED <<life, sessions, records, stop, handlers, calls, table>>

(* SIGTERM or SIGINT                                                        *)
Signal ==
  /\ mpc # "down" /\ ~requested
  /\ requested' = TRUE
  /\ UNCHANGED <<life, sessions, records, inflight, grace, draining, coordOpen,
                 drainedBy, recovery, handlers, calls, table>>

(* _shutdown_sequence on the watcher thread.                                *)
BeginDraining ==
  /\ requested /\ mpc \notin {"down", "publish"} /\ ~draining
  /\ draining' = TRUE
  /\ UNCHANGED <<life, sessions, records, inflight, grace, requested, coordOpen,
                 drainedBy, recovery, handlers, calls, table>>

CloseCoordinator ==
  /\ requested /\ mpc \notin {"down", "publish"} /\ draining /\ coordOpen
  /\ coordOpen' = FALSE
  /\ UNCHANGED <<life, sessions, records, inflight, grace, draining, requested,
                 drainedBy, recovery, handlers, calls, table>>

(* Everything but the table dies with the process: handlers, timers, locks. *)
ProcessEnds ==
  /\ NoProcess
  /\ hpc' = [c \in Conns |-> IF hpc[c] = "none" THEN "none" ELSE "closed"]
  /\ cpc' = [k \in Calls |-> IF cpc[k] \in {"idle", "done", "refused"} THEN cpc[k] ELSE "killed"]
  /\ gone' = gone \cup {c \in Conns : hpc[c] # "none"}
  /\ greeted' = {}
  /\ UNCHANGED <<starts, leaving, caller, row>>

(* os._exit(0) at the end of the sequence, which waits for serve_forever.   *)
Exit == requested /\ draining /\ ~coordOpen /\ mpc = "serving" /\ ProcessEnds

(* kill -9, out of memory, power loss.                                      *)
Crash == mpc # "down" /\ ProcessEnds

-----------------------------------------------------------------------------
(* Hello connections: _RpcRequestHandler.handle and _session_loop           *)

(* unregister_session                                                       *)
UnregisterSession(c) ==
  /\ sessions' = sessions \ {c}
  /\ registered' = registered \ {c}
  /\ RearmIf(GoesIdle(sessions \ {c}, inflight))

CloseHandler(c) == hpc' = [hpc EXCEPT ![c] = "closed"]

(* handle_request reads _draining without the lock before anything else.    *)
HelloArrives(c) ==
  /\ mpc = "serving" /\ hpc[c] = "none"
  /\ \A d \in Conns : Agent[d] = Agent[c] => d \notin leaving
  /\ \A d \in Conns \ {c} : Agent[d] = Agent[c] => hpc[d] = "none" \/ d \in gone
  /\ hpc' = [hpc EXCEPT ![c] = IF draining THEN "closed" ELSE "hello"]
  /\ UNCHANGED <<life, sessions, records, inflight, grace, stop, recovery, gone,
                 leaving, calls, table>>

(* Seeded fault: _draining is only read before the lock.                    *)
AdmitHelloUnchecked(c) ==
  /\ sessions' = sessions \cup {c}
  /\ CancelGrace
  /\ hpc' = [hpc EXCEPT ![c] = "record"]

(* _handle_hello under the lock: refuse, or register and cancel the timer.  *)
AdmitHello(c) ==
  IF draining
  THEN /\ CloseHandler(c)
       /\ UNCHANGED <<sessions, grace>>
  ELSE /\ sessions' = sessions \cup {c}
       /\ timer' = Cancelled /\ current' = NoTimer
       /\ hpc' = [hpc EXCEPT ![c] = "record"]

Hello(c) ==
  /\ hpc[c] = "hello"
  /\ AdmitHello(c)
  /\ UNCHANGED <<life, records, inflight, stop, recovery, gone, leaving, calls, table>>

(* _record_agent_session: the row is written, then the capability exists.   *)
(* The write may fail, and does once the coordinator drains.                *)
RecordSession(c) ==
  /\ hpc[c] = "record"
  /\ \/ /\ coordOpen
        /\ row' = [row EXCEPT ![Agent[c]] = "open"]
        /\ greeted' = greeted \cup {Agent[c]}
        /\ registered' = registered \cup {c}
        /\ hpc' = [hpc EXCEPT ![c] = "reply"]
        /\ UNCHANGED <<sessions, grace>>
     \/ /\ UnregisterSession(c)
        /\ CloseHandler(c)
        /\ UNCHANGED table
  /\ UNCHANGED <<life, closing, leases, waived, inflight, stop, recovery, gone,
                 leaving, calls>>

(* The answer reaches the client, or sending it fails.                      *)
HelloReply(c) ==
  /\ hpc[c] = "reply"
  /\ \/ /\ c \notin gone
        /\ hpc' = [hpc EXCEPT ![c] = "session"]
        /\ UNCHANGED <<sessions, registered, grace, gone>>
     \/ /\ UnregisterSession(c)
        /\ CloseHandler(c)
        /\ gone' = gone \cup {c}
  /\ UNCHANGED <<life, closing, leases, waived, inflight, stop, recovery, leaving,
                 calls, table>>

(* The client closes its end without goodbye (crash, force_reconnect).      *)
ClientGone(c) ==
  /\ hpc[c] # "none" /\ c \notin gone \cup leaving
  /\ gone' = gone \cup {c}
  /\ UNCHANGED <<life, sessions, records, inflight, grace, stop, recovery, hpc,
                 leaving, calls, table>>

(* Seeded fault: a raw disconnect ends the agent session's row.             *)
SocketDroppedCloses(c) ==
  /\ hpc[c] = "session" /\ c \in gone
  /\ UnregisterSession(c)
  /\ CloseHandler(c)
  /\ row' = [row EXCEPT ![Agent[c]] = "goodbye"]
  /\ UNCHANGED <<life, closing, leases, waived, inflight, stop, recovery, gone,
                 leaving, calls, greeted>>

(* _session_loop sees the drop; the row keeps ended_at NULL.                *)
SocketDropped(c) ==
  /\ hpc[c] = "session" /\ c \in gone
  /\ UnregisterSession(c)
  /\ CloseHandler(c)
  /\ UNCHANGED <<life, closing, leases, waived, inflight, stop, recovery, gone,
                 leaving, calls, table>>

(* goodbye: refused while draining, otherwise begin_goodbye fences the      *)
(* record.                                                                  *)
GoodbyeArrives(c) ==
  /\ hpc[c] = "session" /\ c \notin gone
  /\ leaving' = leaving \cup {c}
  /\ IF draining
     THEN /\ hpc' = [hpc EXCEPT ![c] = "leave"]
          /\ UNCHANGED closing
     ELSE /\ hpc' = [hpc EXCEPT ![c] = "drainLeases"]
          /\ closing' = closing \cup {c}
  /\ UNCHANGED <<life, sessions, registered, leases, waived, inflight, grace, stop,
                 recovery, gone, calls, table>>

(* The wait ends when the leases are back, or at                            *)
(* DAEMON_GOODBYE_LEASE_DRAIN_TIMEOUT_S.                                    *)
LeasesBack(c) == leases[c] = 0

GoodbyeDrained(c) ==
  /\ hpc[c] = "drainLeases"
  /\ \/ LeasesBack(c) /\ UNCHANGED waived
     \/ ~LeasesBack(c) /\ waived' = waived \cup {c}
  /\ hpc' = [hpc EXCEPT ![c] = "closeRow"]
  /\ UNCHANGED <<life, sessions, registered, closing, leases, inflight, grace, stop,
                 recovery, gone, leaving, calls, table>>

(* Seeded fault: a failed write of ended_at is acknowledged.                *)
CloseAgentSessionAnyway(c) ==
  /\ hpc[c] = "closeRow"
  /\ row' = IF coordOpen /\ row[Agent[c]] = "open"
            THEN [row EXCEPT ![Agent[c]] = "goodbye"] ELSE row
  /\ hpc' = [hpc EXCEPT ![c] = "acked"]
  /\ UNCHANGED <<life, sessions, records, inflight, grace, stop, recovery, gone,
                 leaving, calls, greeted>>

(* close_agent_session, before goodbye is acknowledged.                     *)
CloseAgentSession(c) ==
  /\ hpc[c] = "closeRow"
  /\ \/ /\ coordOpen
        /\ row' = [row EXCEPT ![Agent[c]] = IF @ = "open" THEN "goodbye" ELSE @]
        /\ hpc' = [hpc EXCEPT ![c] = "acked"]
     \/ /\ hpc' = [hpc EXCEPT ![c] = "leave"]
        /\ UNCHANGED row
  /\ UNCHANGED <<life, sessions, records, inflight, grace, stop, recovery, gone,
                 leaving, calls, greeted>>

(* The finally clause of _session_loop.                                     *)
LeaveSessionLoop(c) ==
  /\ hpc[c] \in {"acked", "leave"}
  /\ UnregisterSession(c)
  /\ CloseHandler(c)
  /\ UNCHANGED <<life, closing, leases, waived, inflight, stop, recovery, gone,
                 leaving, calls, table>>

-----------------------------------------------------------------------------
(* One-shot tool calls                                                      *)

SetCall(k, at) == cpc' = [cpc EXCEPT ![k] = at]

(* The call carries the capability its adapter holds, or none.              *)
CallArrives(k) ==
  /\ mpc = "serving" /\ cpc[k] = "idle"
  /\ \E c \in {NoConn} \cup {d \in Conns : hpc[d] = "session"} :
       caller' = [caller EXCEPT ![k] = c]
  /\ SetCall(k, IF draining THEN "refused" ELSE "checked")
  /\ UNCHANGED <<life, sessions, records, inflight, grace, stop, recovery,
                 handlers, table>>

(* _acquire_inflight tests _draining again, under the lock.                 *)
Admissible == ~draining

AcquireInflight(k) ==
  /\ cpc[k] = "checked"
  /\ IF Admissible
     THEN inflight' = inflight + 1 /\ CancelGrace /\ SetCall(k, "validate")
     ELSE SetCall(k, "refused") /\ UNCHANGED <<inflight, grace>>
  /\ UNCHANGED <<life, sessions, records, stop, recovery, handlers, caller, table>>

(* Seeded fault: closing is not looked at.                                  *)
CallerRegistered(c) == c \in registered

(* A live record that is not closing.                                       *)
CallerLive(c) == c \in registered /\ c \notin closing

(* _validate_caller_session takes a lease on the caller's record.           *)
ValidateCaller(k) ==
  /\ cpc[k] = "validate"
  /\ \/ caller[k] = NoConn /\ SetCall(k, "dispatch") /\ UNCHANGED leases
     \/ /\ caller[k] # NoConn /\ CallerLive(caller[k])
        /\ leases' = [leases EXCEPT ![caller[k]] = @ + 1]
        /\ SetCall(k, "dispatch")
     \/ /\ caller[k] # NoConn /\ ~CallerLive(caller[k])
        /\ SetCall(k, "release")
        /\ UNCHANGED leases
  /\ UNCHANGED <<life, sessions, registered, closing, waived, inflight, grace, stop,
                 recovery, handlers, caller, table>>

(* dispatch_tool returned or raised; _release_caller_lease.                 *)
Dispatch(k) ==
  /\ cpc[k] = "dispatch"
  /\ leases' = IF caller[k] = NoConn THEN leases
               ELSE [leases EXCEPT ![caller[k]] = IF @ > 0 THEN @ - 1 ELSE 0]
  /\ SetCall(k, "release")
  /\ UNCHANGED <<life, sessions, registered, closing, waived, inflight, grace, stop,
                 recovery, handlers, caller, table>>

(* The finally clause of handle_request.                                    *)
CallEnds(k) ==
  /\ cpc[k] = "release"
  /\ SetCall(k, "done")
  /\ ReleaseInflight
  /\ UNCHANGED <<life, sessions, records, stop, recovery, handlers, caller, table>>

-----------------------------------------------------------------------------
Main == StartServices \/ Publish \/ InitialGraceCancel \/ InitialGraceStore
Watcher == BeginDraining \/ CloseCoordinator \/ Exit
Timers == \E t \in TimerIds : TimerExpires(t) \/ GraceFire(t)
Client(c) == HelloArrives(c) \/ ClientGone(c) \/ GoodbyeArrives(c)
Handler(c) ==
  \/ Hello(c) \/ RecordSession(c) \/ HelloReply(c) \/ SocketDropped(c)
  \/ GoodbyeDrained(c) \/ CloseAgentSession(c) \/ LeaveSessionLoop(c)
CallHandler(k) == AcquireInflight(k) \/ ValidateCaller(k) \/ Dispatch(k) \/ CallEnds(k)

SessionsNext ==
  \/ Main \/ Watcher \/ Timers \/ RecoveryEnds \/ Signal \/ Crash
  \/ \E c \in Conns : Client(c) \/ Handler(c)
  \/ \E k \in Calls : CallArrives(k) \/ CallHandler(k)

SessionsSpec == SessionsInit /\ [][SessionsNext]_sessionsVars

(* Threads of a running process run and timers expire.  A tool may hang in  *)
(* dispatch; nobody has to connect, call, leave, signal, crash or start the *)
(* daemon again.                                                            *)
SessionsFairness ==
  /\ WF_sessionsVars(Publish \/ InitialGraceCancel \/ InitialGraceStore)
  /\ WF_sessionsVars(Watcher)
  /\ WF_sessionsVars(RecoveryEnds)
  /\ \A t \in TimerIds : WF_sessionsVars(TimerExpires(t)) /\ WF_sessionsVars(GraceFire(t))
  /\ \A c \in Conns : WF_sessionsVars(Handler(c))
  /\ \A k \in Calls : WF_sessionsVars(AcquireInflight(k) \/ ValidateCaller(k) \/ CallEnds(k))

SessionsFairSpec == SessionsSpec /\ SessionsFairness

-----------------------------------------------------------------------------
(* Properties                                                               *)

HandlerPcs == {"none", "hello", "record", "reply", "session", "drainLeases", "closeRow",
               "acked", "leave", "closed"}
CallPcs == {"idle", "checked", "validate", "dispatch", "release", "done", "refused", "killed"}

(* Every variable has its type; the counters never go below zero.           *)
SessionsTypeOK ==
  /\ starts \in 0..MaxStarts
  /\ mpc \in {"down", "publish", "graceCancel", "graceStore", "serving"}
  /\ foreground \in BOOLEAN /\ draining \in BOOLEAN /\ requested \in BOOLEAN
  /\ coordOpen \in BOOLEAN /\ recovery \in BOOLEAN
  /\ sessions \subseteq Conns /\ registered \subseteq Conns /\ closing \subseteq Conns
  /\ waived \subseteq Conns /\ gone \subseteq Conns /\ leaving \subseteq Conns
  /\ leases \in [Conns -> Nat] /\ inflight \in Nat
  /\ timer \in [TimerIds -> {"free", "armed", "fired"}]
  /\ current \in TimerIds \cup {NoTimer} /\ drainedBy \in TimerIds \cup {NoTimer}
  /\ hpc \in [Conns -> HandlerPcs] /\ cpc \in [Calls -> CallPcs]
  /\ caller \in [Calls -> Conns \cup {NoConn}]
  /\ row \in [Agents -> {"absent", "open", "goodbye", "orphaned"}]
  /\ greeted \subseteq Agents

InDispatch == {k \in Calls : cpc[k] \in {"validate", "dispatch", "release"}}

(* _inflight counts exactly the dispatches that run, the recovery thread    *)
(* included: one too many and the daemon never stops, one too few and the   *)
(* grace timer kills a call (_acquire_inflight / _release_inflight).        *)
InflightExact == inflight = Cardinality(InDispatch) + (IF recovery THEN 1 ELSE 0)

(* A shutdown begun by the grace timer interrupts nobody, neither when it   *)
(* begins nor later: whoever passed the unlocked _draining test is turned   *)
(* away by the second one under the lock.                                   *)
GraceKillsNoWork == drainedBy # NoTimer => sessions = {} /\ inflight = 0

(* A serving daemon with nothing to do has a timer running, in whatever     *)
(* order timers fired, were cancelled, orphaned or replaced.                *)
IdleIsTimed ==
  mpc = "serving" /\ sessions = {} /\ inflight = 0 /\ ~draining /\ ~foreground =>
    \E t \in TimerIds : timer[t] # "free"

(* Once goodbye went past its wait for leases, no call of that session is   *)
(* still being dispatched, unless the wait timed out (begin_goodbye).       *)
GoodbyeWaitsForCalls ==
  \A c \in closing \ waived : hpc[c] # "drainLeases" =>
     \A k \in Calls : cpc[k] = "dispatch" => caller[k] # c

(* The row of a session that its adapter uses is open, even while handlers  *)
(* of the adapter's earlier, abandoned connections are still ending.        *)
LiveRowOpen ==
  \A c \in registered \ (closing \cup gone) : row[Agent[c]] = "open"

(* While a daemon runs, an open row is one it wrote itself: what a dead     *)
(* process left open was closed before the first hello                      *)
(* (reconcile_orphaned_sessions).                                           *)
OpenRowIsCurrent == mpc # "down" => \A a \in Agents : row[a] = "open" => a \in greeted

(* "Persist the definitive lifecycle transition before acknowledging        *)
(* goodbye" (_session_loop).                                                *)
AckedIsDurable ==
  [][\A c \in Conns : hpc'[c] = "acked" /\ hpc[c] # "acked" => row'[Agent[c]] = "goodbye"]_sessionsVars

(* A clean goodbye is not rewritten as a lost session: only a hello changes *)
(* such a row (reconcile_orphaned_sessions).                                *)
OnlyHelloReopens ==
  [][\A a \in Agents : row[a] = "goodbye" => row'[a] \in {"goodbye", "open"}]_sessionsVars

(* close_session records "a definitive normal goodbye": an adapter that     *)
(* said goodbye never comes back, so neither does its row.                  *)
GoodbyeIsFinal ==
  [][\A a \in Agents : row[a] = "goodbye" => row'[a] = "goodbye"]_sessionsVars

(* A background daemon that stays idle stops.                               *)
IdleDaemonStops ==
  <>[](sessions = {} /\ inflight = 0 /\ ~foreground) => []<>(mpc = "down")

(* Every goodbye is answered, even if a tool of that session hangs.         *)
GoodbyeAnswered ==
  \A c \in Conns : hpc[c] = "drainLeases" ~> hpc[c] = "closed"

(* The leases of the registry agree with the calls that hold them, through  *)
(* reconnects, late calls and goodbyes that wait for running tools.         *)
LeasesExact == SessionsTypeOK /\ InflightExact /\ GoodbyeWaitsForCalls

(* The grace timer ends only a daemon without work, and an idle daemon has  *)
(* one, whatever timers were cancelled or replaced on the way.              *)
GraceSound == GraceKillsNoWork /\ IdleIsTimed

(* A registered session has an open row, and an open row is of an agent     *)
(* that this daemon greeted, also after a crash of an earlier one.          *)
RowsTrue == LiveRowOpen /\ OpenRowIsCurrent

(* An acknowledged goodbye is in the database, and only a hello undoes it.  *)
RowsDurable == AckedIsDurable /\ OnlyHelloReopens

(* What a daemon owes at the end: it stops when idle, and it answers a      *)
(* goodbye even if a tool of that session hangs.                            *)
SessionsEnd == IdleDaemonStops /\ GoodbyeAnswered

=============================================================================
