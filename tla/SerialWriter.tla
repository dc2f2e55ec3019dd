----------------------------- MODULE SerialWriter -----------------------------
(***************************************************************************)
(* What DbWriteCoordinator promises its callers, with no queues, threads   *)
(* or retries: a call is accepted only between opening and closing, is     *)
(* decided once, and is reported as a success exactly if its writes were   *)
(* added to the log.  A call made from inside a running job joins that     *)
(* job's transaction and shares its fate.                                  *)
(***************************************************************************)
EXTENDS FiniteSets

CONSTANTS Jobs, Durable    \* Durable: jobs that write in a transaction

VARIABLES phase, outcome, log

vars == <<phase, outcome, log>>

Joined == {j \in Jobs : outcome[j] = "joined"}

Init ==
  /\ phase = "new"
  /\ outcome = [j \in Jobs |-> "none"]
  /\ log = {}

Open  == phase = "new" /\ phase' = "open" /\ UNCHANGED <<outcome, log>>
Close == phase # "closed" /\ phase' = "closed" /\ UNCHANGED <<outcome, log>>

Decide(j, from, to) ==
  /\ outcome[j] = from
  /\ outcome' = [outcome EXCEPT ![j] = to]
  /\ UNCHANGED <<phase, log>>

Accept(j) == phase = "open" /\ Decide(j, "none", "accepted")
Refuse(j) == phase # "open" /\ Decide(j, "none", "refused")
Join(j)   == Decide(j, "none", "joined")
Report(j) == (j \in Durable => j \in log) /\ Decide(j, "accepted", "ok")
Fail(j)   == j \notin log /\ Decide(j, "accepted", "failed")

(* The group of one accepted job and the calls that joined it becomes       *)
(* durable at once; calls that joined an abandoned attempt failed.          *)
Commit(j, group) ==
  /\ outcome[j] = "accepted" /\ j \in Durable \ log
  /\ log' = log \cup {j} \cup group
  /\ outcome' = [k \in Jobs |-> IF k \notin Joined THEN outcome[k]
                                ELSE IF k \in group THEN "ok" ELSE "failed"]
  /\ UNCHANGED phase

RollBack ==
  /\ Joined # {}
  /\ outcome' = [k \in Jobs |-> IF k \in Joined THEN "failed" ELSE outcome[k]]
  /\ UNCHANGED <<phase, log>>

Next ==
  \/ Open \/ Close \/ RollBack
  \/ \E j \in Jobs :
       \/ Accept(j) \/ Refuse(j) \/ Join(j) \/ Report(j) \/ Fail(j)
       \/ \E group \in SUBSET Joined : Commit(j, group)

Spec == Init /\ [][Next]_vars
=============================================================================
