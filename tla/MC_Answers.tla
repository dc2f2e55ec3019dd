------------------------------ MODULE MC_Answers ------------------------------
(***************************************************************************)
(* What must come to an end: a queued embedding job, the delivery of a     *)
(* digest that a session start missed, and a turn that a stop hook         *)
(* blocked.  They share no variable, so one of them runs in a behaviour    *)
(* and the others stand still in one initial state.                        *)
(***************************************************************************)
EXTENDS MC_EmbedJobs, DigestDelivery, StopGates

VARIABLE part

answerVars == <<part, embedVars, digestVars, gateVars>>

Embeds == part = "embedding"
Delivers == part = "digest"
Stops == part = "stop"

EmbedIdle ==
  /\ vecAvailable = FALSE /\ up = FALSE /\ starts = 0 /\ draining = FALSE
  /\ status = [e \in Entities |-> "absent"] /\ text = [e \in Entities |-> NoText]
  /\ emb = [e \in Entities |-> "none"] /\ vec = [e \in Entities |-> {}]
  /\ job = [k \in Keys |-> NoRow]
  /\ spc = "idle" /\ snap = NoKey /\ permits = Capacity
  /\ tpc = [t \in Tasks |-> "free"] /\ tkey = [t \in Tasks |-> NoKey]
  /\ rpc = "off" /\ scan = {} /\ edits = 0

\* A turn that is over: no hook of a stop is due.
GatesIdle ==
  /\ transcript = <<"user">>
  /\ turn = [OpenTurn EXCEPT !.open = FALSE]
  /\ critique = [count |-> 0, stage2 |-> 0, fires |-> 0, cap |-> 0, asks |-> 0]
  /\ flag = [outcome |-> 0, searched |-> FALSE]
  /\ related = [prompts |-> 0, pending |-> FALSE, shown |-> {}, seen |-> {}, again |-> FALSE]
  /\ harness = [readable |-> TRUE, active |-> FALSE]

AnswersInit ==
  /\ part \in {"embedding", "digest", "stop"}
  /\ IF Embeds THEN EmbedInit ELSE EmbedIdle
  /\ DigestInit
  /\ IF Stops THEN GateInit ELSE GatesIdle

AnswersNext ==
  \/ Embeds /\ EmbedNext /\ UNCHANGED <<part, digestVars, gateVars>>
  \/ Delivers /\ DigestNext /\ UNCHANGED <<part, embedVars, gateVars>>
  \/ Stops /\ GateNext /\ UNCHANGED <<part, embedVars, digestVars>>

\* The fairness of each, while it is the one that runs.
AnswersFair ==
  /\ WF_embedVars(Embeds /\ AcquirePermit) /\ SF_embedVars(Embeds /\ Claim)
  /\ WF_embedVars(Embeds /\ \E t \in Tasks : Dispatch(t))
  /\ \A t \in Tasks : WF_embedVars(Embeds /\ Task(t))
  /\ \A k \in Keys : WF_embedVars(Embeds /\ LeaseExpires(k)) /\ WF_embedVars(Embeds /\ RetryDue(k))
  /\ WF_digestVars(Delivers /\ BootStep)
  /\ \A r \in Prompts : /\ WF_digestVars(Delivers /\ RetryStep(r))
                        /\ SF_digestVars(Delivers /\ ResolveCli(r, TRUE))
  /\ SF_digestVars(Delivers /\ DigestTick)
  /\ WF_gateVars(Stops /\ SomeStop)

AnswersSpec == AnswersInit /\ [][AnswersNext]_answerVars /\ AnswersFair
=============================================================================
