--------------------------- MODULE DaemonElection ---------------------------
(***************************************************************************)
(* How one daemon per database comes up, is found, is called and goes away: *)
(* daemon/server.py (main, the shutdown sequence, the grace timer),         *)
(* daemon/discovery.py (the discovery file), daemon/client.py (spawn or     *)
(* connect, one call) and daemon/service.py (start and stop commands).      *)
(*                                                                         *)
(* The guard port is the ownership mutex, the probe port answers identify,  *)
(* the discovery file names the service port and the token.  A process may  *)
(* die at any point; the system then frees its ports, its file stays.       *)
(* Hello sessions are DaemonSessions'; here a daemon is busy with one-shot  *)
(* calls and its embedding recovery.  A tick is one retry delay.            *)
(***************************************************************************)
EXTENDS Naturals, FiniteSets

CONSTANTS
  MaxProcs,      \* bound: daemon processes ever spawned
  Adapters,      \* processes that call a tool through the daemon
  ProbeEvery,    \* ticks between owner probes
  ProbeMisses,   \* unanswered probes before the owner counts as dead
  RespawnEvery,  \* attempts between speculative spawns
  MaxTries,      \* attempts without an owner before giving up
  SpawnGap,      \* ticks between two spawns, over all processes
  StartCap,      \* ticks one call may wait for the daemon
  MaxFaults      \* bound: crashes, failed starts and signals

Procs == 1..MaxProcs
Nobody == 0

ASSUME ElectionConstants ==
  /\ {MaxProcs, ProbeEvery, ProbeMisses, RespawnEvery, MaxTries, SpawnGap, StartCap, MaxFaults} \subseteq Nat
  /\ ProbeEvery > 0 /\ RespawnEvery > 0

VARIABLES
  daemon,   \* daemon[p]: [at, stop, drain, cb, asked, timer, recovery, writer, work, keep]
  ports,    \* [guard, probe, file]: holder of each port, process the file names
  adapter,  \* adapter[c]: one tool call
  stamp,    \* ticks since the last spawn, at most SpawnGap
  faults    \* faults so far

evars == <<daemon, ports, adapter, stamp, faults>>

Unborn == [at |-> "none", stop |-> "no", drain |-> FALSE, cb |-> FALSE, asked |-> FALSE,
           timer |-> FALSE, recovery |-> FALSE, writer |-> FALSE, work |-> {}, keep |-> FALSE]
NoCall == [at |-> "idle", write |-> FALSE, info |-> Nobody, alive |-> FALSE, miss |-> 0, tries |-> 0,
           probed |-> 0, age |-> 0, due |-> FALSE, again |-> FALSE, ran |-> 0]

ElectInit ==
  /\ daemon = [p \in Procs |-> Unborn]
  /\ ports = [guard |-> Nobody, probe |-> Nobody, file |-> Nobody]
  /\ adapter = [c \in Adapters |-> NoCall]
  /\ stamp = SpawnGap
  /\ faults = 0

Alive(p) == daemon[p].at \notin {"none", "beaten", "gone"}
Step(p, from, to) == daemon[p].at = from /\ daemon' = [daemon EXCEPT ![p].at = to]
Busy(d) == d.recovery \/ d.work # {}
\* serve_forever runs and the daemon has not begun to drain: a ping is answered.
Answers(p) == p # Nobody /\ daemon[p].at = "serving" /\ daemon[p].stop = "no" /\ ~daemon[p].drain
\* The answer of the probe port: any holder whose accept loop runs.
OwnerSeen == ports.probe # Nobody

----------------------------------------------------------------------------
(* main: the order in which a daemon comes up.                              *)

\* The process is gone; the system closes its sockets.
Vanish(p) ==
  /\ daemon' = [daemon EXCEPT ![p] = [Unborn EXCEPT !.at = "gone"]]
  /\ ports' = [ports EXCEPT !.guard = IF @ = p THEN Nobody ELSE @, !.probe = IF @ = p THEN Nobody ELSE @]

\* The guard port is the election; the loser exits at once.
BindGuard(p) ==
  /\ daemon[p].at = "boot"
  /\ IF ports.guard = Nobody
     THEN Step(p, "boot", "guard") /\ ports' = [ports EXCEPT !.guard = p]
     ELSE Step(p, "boot", "beaten") /\ UNCHANGED ports
  /\ UNCHANGED <<adapter, stamp, faults>>

BindProbe(p) ==
  /\ daemon[p].at = "guard"
  /\ IF ports.probe = Nobody
     THEN Step(p, "guard", "initializing") /\ ports' = [ports EXCEPT !.probe = p]
     ELSE Vanish(p)
  /\ UNCHANGED <<adapter, stamp, faults>>

\* init_db, the write coordinator, orphaned sessions, the embedding scheduler.
ElectServices(p) ==
  /\ daemon[p].at = "initializing"
  /\ daemon' = [daemon EXCEPT ![p].at = "durable", ![p].writer = TRUE]
  /\ UNCHANGED <<ports, adapter, stamp, faults>>

\* The service listener, then the viewer; the identify answer turns to ready.
Listen(p) == Step(p, "durable", "listening") /\ UNCHANGED <<ports, adapter, stamp, faults>>

\* The database, the coordinator or the viewer fails to start: the writer is
\* stopped, both ports are closed, the process exits.
StartFails(p) ==
  /\ daemon[p].at \in {"initializing", "durable", "listening"} /\ faults < MaxFaults
  /\ Vanish(p)
  /\ faults' = faults + 1
  /\ UNCHANGED <<adapter, stamp>>

\* discovery.write replaces the file at once, whatever process it named.
WriteFile(p) == ports' = [ports EXCEPT !.file = p]

\* Token and discovery file, the last step before the recovery thread starts.
PublishReady(p) ==
  /\ daemon[p].at = "listening"
  /\ daemon' = [daemon EXCEPT ![p].at = "published", ![p].recovery = TRUE]
  /\ WriteFile(p)
  /\ UNCHANGED <<adapter, stamp, faults>>

ElectRecoveryEnds(p) ==
  /\ daemon[p].recovery
  /\ daemon' = [daemon EXCEPT ![p].recovery = FALSE,
                  ![p].timer = @ \/ (daemon[p].work = {} /\ ~daemon[p].drain /\ ~daemon[p].keep)]
  /\ UNCHANGED <<ports, adapter, stamp, faults>>

\* Seeded fault: the initial grace period is not started.
ArmCallbackOnly(p) ==
  /\ daemon[p].at = "published"
  /\ daemon' = [daemon EXCEPT ![p].at = "serving", ![p].cb = TRUE]
  /\ UNCHANGED <<ports, adapter, stamp, faults>>

\* The shutdown watcher, the callback, the initial grace period, serve_forever.
Arm(p) ==
  /\ daemon[p].at = "published"
  /\ daemon' = [daemon EXCEPT ![p].at = "serving", ![p].cb = TRUE, ![p].timer = ~daemon[p].keep]
  /\ UNCHANGED <<ports, adapter, stamp, faults>>

\* The grace timer: with nothing in flight the daemon drains; the request to shut
\* down is lost when the callback is not set yet.
ElectGraceFire(p) ==
  /\ daemon[p].timer
  /\ daemon' = [daemon EXCEPT ![p].timer = FALSE, ![p].drain = @ \/ ~Busy(daemon[p]),
                  ![p].asked = @ \/ (~Busy(daemon[p]) /\ daemon[p].cb)]
  /\ UNCHANGED <<ports, adapter, stamp, faults>>

\* SIGTERM, from the stop command or systemd: before the handlers are installed
\* it kills the process, afterwards it asks for a shutdown.
ElectSignal(p) ==
  /\ Alive(p) /\ faults < MaxFaults
  /\ faults' = faults + 1
  /\ IF daemon[p].at \in {"published", "serving"}
     THEN daemon' = [daemon EXCEPT ![p].asked = TRUE] /\ UNCHANGED ports
     ELSE Vanish(p)
  /\ UNCHANGED <<adapter, stamp>>

ElectCrash(p) ==
  /\ Alive(p) /\ faults < MaxFaults
  /\ faults' = faults + 1
  /\ Vanish(p)
  /\ UNCHANGED <<adapter, stamp>>

----------------------------------------------------------------------------
(* The shutdown sequence of the watcher thread, in its order.               *)

\* Seeded fault: the guard is released before the writer has stopped.
StopOrderWriterLast == <<"no", "drained", "closed", "removed", "released", "joined", "exited">>

StopOrder == <<"no", "drained", "closed", "joined", "removed", "released", "exited">>

StopAfter(s) == StopOrder[1 + CHOOSE i \in DOMAIN StopOrder : StopOrder[i] = s]

\* The shutdown of p has taken step s.
Past(p, s) == \E i, j \in DOMAIN StopOrder : i <= j /\ StopOrder[i] = s /\ StopOrder[j] = daemon[p].stop

\* One step: drain, close service and probe port, join the writer, remove the
\* discovery file whatever it names, release the guard, exit.
Stop(p) ==
  /\ daemon[p].at = "serving" /\ daemon[p].asked
  /\ LET to == StopAfter(daemon[p].stop)
     IN IF to = "exited" THEN Vanish(p)
        ELSE /\ daemon' = [daemon EXCEPT ![p].stop = to, ![p].drain = TRUE,
                             ![p].writer = @ /\ to # "joined"]
             /\ ports' = [ports EXCEPT
                  !.probe = IF to = "closed" /\ @ = p THEN Nobody ELSE @,
                  !.file = IF to = "removed" THEN Nobody ELSE @,
                  !.guard = IF to = "released" THEN Nobody ELSE @]
  /\ UNCHANGED <<adapter, stamp, faults>>

----------------------------------------------------------------------------
(* The adapter: find or spawn the daemon, then one call.                    *)

Unspawned == {p \in Procs : daemon[p].at = "none"}

\* One spawn per interval over all processes: the process's own interval is
\* contained in the stamp file's.  A persistent daemon has no grace timer.
SpawnDue == stamp >= SpawnGap /\ Unspawned # {}

Spawn(persistent) ==
  LET p == CHOOSE q \in Unspawned : \A r \in Unspawned : q <= r
  IN /\ daemon' = [daemon EXCEPT ![p].at = "boot", ![p].keep = persistent]
     /\ stamp' = 0

\* discovery.read: the process of the last file written, dead or alive; a file
\* that is missing or malformed names nobody.
FileNames == ports.file

\* The daemon the file names, if it answers a ping with its token.
Reachable == IF Answers(FileNames) THEN FileNames ELSE Nobody

Set(c, a) == adapter' = [adapter EXCEPT ![c] = a]

\* ensure_daemon_running before its loop: connect, or wait and spawn if no
\* owner answers the probe.
BeginEnsure(c, a) ==
  IF Reachable # Nobody
  THEN Set(c, [a EXCEPT !.at = "ready", !.info = Reachable]) /\ UNCHANGED <<daemon, stamp>>
  ELSE LET w == [a EXCEPT !.at = "wait", !.alive = TRUE, !.miss = 0, !.tries = 0, !.probed = 0,
                          !.due = FALSE]
       IN IF ~OwnerSeen /\ SpawnDue
          THEN Spawn(FALSE) /\ Set(c, w)
          ELSE Set(c, w) /\ UNCHANGED <<daemon, stamp>>

Call(c, write) ==
  /\ adapter[c].at = "idle"
  /\ BeginEnsure(c, [NoCall EXCEPT !.write = write, !.again = TRUE])
  /\ UNCHANGED <<ports, faults>>

\* What a due owner probe changes: an answer resets both counters.
ProbeOwner(a) ==
  IF a.probed < ProbeEvery THEN a
  ELSE IF OwnerSeen THEN [a EXCEPT !.alive = TRUE, !.miss = 0, !.tries = 0, !.probed = 0]
  ELSE IF ~a.alive THEN [a EXCEPT !.probed = 0]
  ELSE [a EXCEPT !.miss = @ + 1, !.alive = a.miss + 1 < ProbeMisses, !.probed = 0]

GiveUp(a) == a.age >= StartCap \/ (~a.alive /\ a.tries >= MaxTries)

\* The error of a wait that ends: still starting, or nobody came up.
Failure(a) == [a EXCEPT !.at = IF a.alive THEN "starting" ELSE "failed"]

\* One iteration of the wait: connect, probe, count, respawn, give up.
Attempt(c) ==
  /\ adapter[c].at = "wait" /\ adapter[c].due
  /\ LET a == ProbeOwner([adapter[c] EXCEPT !.due = FALSE])
         b == IF a.alive THEN a ELSE [a EXCEPT !.tries = @ + 1]
         respawn == ~b.alive /\ b.tries % RespawnEvery = 0 /\ SpawnDue
     IN IF Reachable # Nobody
        THEN Set(c, [a EXCEPT !.at = "ready", !.info = Reachable]) /\ UNCHANGED <<daemon, stamp>>
        ELSE /\ IF respawn THEN Spawn(FALSE) ELSE UNCHANGED <<daemon, stamp>>
             /\ Set(c, IF GiveUp(b) THEN Failure(b) ELSE b)
  /\ UNCHANGED <<ports, faults>>

\* An interval that has passed stays passed.
StampAge(t) == IF t < SpawnGap THEN t + 1 ELSE t

Waiting == {c \in Adapters : adapter[c].at = "wait"}

\* A retry delay passes for every waiting adapter and for the stamp file.
ElectTick ==
  /\ Waiting # {} \/ stamp < SpawnGap
  /\ \A c \in Waiting : ~adapter[c].due
  /\ adapter' = [c \in Adapters |->
       IF c \in Waiting
       THEN [adapter[c] EXCEPT !.due = TRUE, !.age = IF @ < StartCap THEN @ + 1 ELSE @,
                               !.probed = IF @ < ProbeEvery THEN @ + 1 ELSE @]
       ELSE adapter[c]]
  /\ stamp' = StampAge(stamp)
  /\ UNCHANGED <<daemon, ports, faults>>

\* The request reaches a daemon that admits it, is refused by one that drains or
\* finds nobody: both refusals happen before anything runs and are retried once.
Send(c) ==
  LET a == adapter[c]
      p == a.info
  IN /\ a.at = "ready"
     /\ \/ /\ Answers(p)
           /\ daemon' = [daemon EXCEPT ![p].work = @ \cup {c}, ![p].timer = FALSE]
           /\ Set(c, [a EXCEPT !.at = "sent"])
           /\ UNCHANGED stamp
        \/ /\ ~Answers(p)
           /\ IF a.again THEN BeginEnsure(c, [a EXCEPT !.again = FALSE])
              ELSE Set(c, [a EXCEPT !.at = "failed"]) /\ UNCHANGED <<daemon, stamp>>
     /\ UNCHANGED <<ports, faults>>

\* The daemon runs the tool; without work left the grace timer starts.
Handle(p, c) ==
  /\ Alive(p) /\ c \in daemon[p].work
  /\ daemon' = [daemon EXCEPT ![p].work = @ \ {c},
       ![p].timer = @ \/ (daemon[p].work = {c} /\ ~daemon[p].recovery /\ ~daemon[p].drain /\ ~daemon[p].keep)]
  /\ Set(c, IF adapter[c].at = "sent" /\ adapter[c].info = p
            THEN [adapter[c] EXCEPT !.at = "answered", !.ran = @ + 1]
            ELSE [adapter[c] EXCEPT !.ran = @ + 1])
  /\ UNCHANGED <<ports, stamp, faults>>

Receive(c) ==
  /\ adapter[c].at = "answered"
  /\ Set(c, [adapter[c] EXCEPT !.at = "done"])
  /\ UNCHANGED <<daemon, ports, stamp, faults>>

\* The connection is lost after the request was sent (the daemon went away, the
\* read timed out): a read is called once more, a write is reported as lost.
MidCall(c) ==
  IF adapter[c].write
  THEN Set(c, [adapter[c] EXCEPT !.at = "lost"]) /\ UNCHANGED <<daemon, stamp>>
  ELSE BeginEnsure(c, [adapter[c] EXCEPT !.again = FALSE])

LoseReply(c) ==
  /\ adapter[c].at \in {"sent", "answered"}
  /\ adapter[c].again \/ adapter[c].write
  /\ ~Alive(adapter[c].info) \/ faults < MaxFaults
  /\ faults' = IF Alive(adapter[c].info) THEN faults + 1 ELSE faults
  /\ MidCall(c)
  /\ UNCHANGED ports

\* A read that is lost again after its retry ends in an error.
LoseRetry(c) ==
  /\ adapter[c].at \in {"sent", "answered"}
  /\ ~adapter[c].again /\ ~adapter[c].write /\ ~Alive(adapter[c].info)
  /\ Set(c, [adapter[c] EXCEPT !.at = "failed"])
  /\ UNCHANGED <<daemon, ports, stamp, faults>>

\* The start command: a persistent daemon when nobody is reachable and no owner
\* answers; it does not look at the stamp.
StartCommand ==
  /\ Reachable = Nobody /\ ~OwnerSeen /\ Unspawned # {} /\ faults < MaxFaults
  /\ LET p == CHOOSE q \in Unspawned : \A r \in Unspawned : q <= r
     IN daemon' = [daemon EXCEPT ![p].at = "boot", ![p].keep = TRUE]
  /\ faults' = faults + 1
  /\ UNCHANGED <<ports, adapter, stamp>>

DaemonStep(p) ==
  \/ BindGuard(p) \/ BindProbe(p) \/ ElectServices(p) \/ Listen(p) \/ PublishReady(p)
  \/ ElectRecoveryEnds(p) \/ Arm(p) \/ ElectGraceFire(p) \/ Stop(p) \/ \E c \in Adapters : Handle(p, c)
AdapterStep(c) ==
  Attempt(c) \/ Send(c) \/ Receive(c) \/ LoseReply(c) \/ LoseRetry(c)

ElectNext ==
  \/ \E p \in Procs : DaemonStep(p) \/ StartFails(p) \/ ElectSignal(p) \/ ElectCrash(p)
  \/ \E c \in Adapters : AdapterStep(c) \/ \E w \in BOOLEAN : Call(c, w)
  \/ ElectTick \/ StartCommand

\* Every thread keeps running and timers fire; a start may take for ever, and
\* nobody has to call, crash or send a signal.
ElectFair ==
  /\ \A p \in Procs : WF_evars(ElectRecoveryEnds(p)) /\ WF_evars(Arm(p)) /\ WF_evars(ElectGraceFire(p)) /\ WF_evars(Stop(p))
  /\ \A c \in Adapters : WF_evars(Attempt(c))
  /\ WF_evars(ElectTick)

ElectSpec == ElectInit /\ [][ElectNext]_evars /\ ElectFair

----------------------------------------------------------------------------
(* Properties.                                                              *)

\* The shape of the state.
ElectTypeOK ==
  /\ \A p \in Procs : daemon[p].at \in {"none", "boot", "guard", "initializing", "durable", "listening",
                                        "published", "serving", "beaten", "gone"}
                      /\ daemon[p].work \subseteq Adapters
  /\ ports \in [guard : Procs \cup {Nobody}, probe : Procs \cup {Nobody}, file : Procs \cup {Nobody}]
  /\ \A c \in Adapters : adapter[c].at \in {"idle", "wait", "ready", "sent", "answered", "done", "lost",
                                            "starting", "failed"}
  /\ stamp \in 0..SpawnGap

\* From publication until it removes the file itself, a daemon is the one the
\* discovery file names: an outgoing predecessor never deletes its successor's
\* file, although it deletes whatever it finds (discovery.remove).
OwnFile ==
  \A p \in Procs : daemon[p].at \in {"published", "serving"} /\ ~Past(p, "removed")
                   => ports.file = p

\* A process that wins the guard finds the probe port free: no predecessor still
\* listens there (else the winner would roll back and nobody would serve).
WinnerFindsProbe ==
  \A p \in Procs : daemon[p].at = "guard" => ports.probe = Nobody

\* At most one process has a running database writer, over crashes, failed starts
\* and a successor that starts while its predecessor shuts down.
OneWriter ==
  \A p, q \in Procs : daemon[p].writer /\ daemon[q].writer => p = q

\* What a caller is told about a write is true: it ran at most once, "done" means
\* once, and "starting" (nothing was executed, repeat the call) means never.
WriteOutcomeTrue ==
  \A c \in Adapters : adapter[c].write =>
    /\ adapter[c].ran <= 1
    /\ adapter[c].at = "done" => adapter[c].ran = 1
    /\ adapter[c].at \in {"starting", "failed"} => adapter[c].ran = 0

\* A daemon that refuses calls because it drains does go away, also when its grace
\* timer fired before the shutdown callback was set (main sets it last).
DrainEnds == \A p \in Procs : daemon[p].drain ~> daemon[p].at = "gone"

\* A call that waits for the daemon ends: connected, or with an error, also when
\* the owner hangs in its start.
EnsureReturns == \A c \in Adapters : adapter[c].at = "wait" ~> adapter[c].at # "wait"

\* One process owns the database: while processes race for the ports, die and are replaced, one
\* of them writes, the discovery file and the probe port are its own, and an adapter is told
\* the truth about its write.
OneOwner == ElectTypeOK /\ OwnFile /\ WinnerFindsProbe /\ OneWriter /\ WriteOutcomeTrue

\* A drain that was requested at any moment of start up ends the process, and a client that
\* waits for a daemon stops waiting.
ElectionEnds == DrainEnds /\ EnsureReturns

=============================================================================
