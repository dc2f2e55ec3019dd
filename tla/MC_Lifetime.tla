----------------------------- MODULE MC_Lifetime -----------------------------
(***************************************************************************)
(* How long a daemon lives: the one daemon that serves sessions and leaves *)
(* when it is idle, and the daemons that are spawned and elected.  They    *)
(* share no variable, so one of them runs in a behaviour and the other     *)
(* stands still in its initial state.                                      *)
(***************************************************************************)
EXTENDS MC_DaemonSessions, DaemonElection

VARIABLE part

lifetimeVars == <<part, sessionsVars, evars>>

Serves == part = "sessions"
Elects == part = "election"

LifetimeInit == part \in {"sessions", "election"} /\ SessionsInit /\ ElectInit

LifetimeNext ==
  \/ Serves /\ SessionsNext /\ UNCHANGED <<part, evars>>
  \/ Elects /\ ElectNext /\ UNCHANGED <<part, sessionsVars>>

\* SessionsFairness and ElectFair, each while its daemon is the one that runs.
LifetimeFair ==
  /\ WF_sessionsVars(Serves /\ (Publish \/ InitialGraceCancel \/ InitialGraceStore))
  /\ WF_sessionsVars(Serves /\ Watcher)
  /\ WF_sessionsVars(Serves /\ RecoveryEnds)
  /\ \A t \in TimerIds : WF_sessionsVars(Serves /\ TimerExpires(t))
                         /\ WF_sessionsVars(Serves /\ GraceFire(t))
  /\ \A c \in Conns : WF_sessionsVars(Serves /\ Handler(c))
  /\ \A k \in Calls :
       WF_sessionsVars(Serves /\ (AcquireInflight(k) \/ ValidateCaller(k) \/ CallEnds(k)))
  /\ \A p \in Procs : /\ WF_evars(Elects /\ ElectRecoveryEnds(p))
                      /\ WF_evars(Elects /\ Arm(p))
                      /\ WF_evars(Elects /\ ElectGraceFire(p))
                      /\ WF_evars(Elects /\ Stop(p))
  /\ \A c \in Adapters : WF_evars(Elects /\ Attempt(c))
  /\ WF_evars(Elects /\ ElectTick)

LifetimeSpec == LifetimeInit /\ [][LifetimeNext]_lifetimeVars /\ LifetimeFair
=============================================================================
