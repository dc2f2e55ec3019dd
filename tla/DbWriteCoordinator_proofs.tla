---------------------- MODULE DbWriteCoordinator_proofs ----------------------
(***************************************************************************)
(* What holds of the write coordinator for any set of jobs, any burst      *)
(* length and any number of retries.                                       *)
(***************************************************************************)
EXTENDS DbWriteCoordinator, SequenceTheorems, TLAPS

USE DEF lanes, writer, drains, Drainers

(* Appending a job to a lane adds the job to the lane's elements.           *)
LEMMA AppendElements ==
  ASSUME NEW s \in Seq(Jobs), NEW j \in Jobs
  PROVE  /\ Append(s, j) \in Seq(Jobs)
         /\ Elements(Append(s, j)) = Elements(s) \cup {j}
         /\ Distinct(s) /\ j \notin Elements(s) => Distinct(Append(s, j))
BY DEF Elements, Distinct

(* Taking the head of a lane removes that job and no other.                 *)
LEMMA TailElements ==
  ASSUME NEW s \in Seq(Jobs), s # <<>>, Distinct(s)
  PROVE  /\ Head(s) \in Jobs /\ Head(s) \in Elements(s)
         /\ Tail(s) \in Seq(Jobs)
         /\ Elements(Tail(s)) = Elements(s) \ {Head(s)}
         /\ Distinct(Tail(s))
<1>1. Head(s) = s[1] /\ Len(s) \in Nat \ {0} /\ Tail(s) \in Seq(Jobs)
  OBVIOUS
<1>2. Len(Tail(s)) = Len(s) - 1 /\ \A i \in 1..Len(s) - 1 : Tail(s)[i] = s[i + 1]
  OBVIOUS
<1>3. \A x \in Elements(s) : x # Head(s) => x \in Elements(Tail(s))
  <2> SUFFICES ASSUME NEW i \in 1..Len(s), s[i] # Head(s)
               PROVE  s[i] \in Elements(Tail(s))
    BY DEF Elements
  <2>1. i - 1 \in 1..Len(s) - 1 /\ s[i] = Tail(s)[i - 1]
    BY <1>1, <1>2
  <2> QED BY <2>1, <1>2 DEF Elements
<1>4. \A i \in 1..Len(Tail(s)) : Tail(s)[i] \in Elements(s) \ {Head(s)}
  BY <1>1, <1>2 DEF Elements, Distinct
<1>5. Elements(Tail(s)) = Elements(s) \ {Head(s)}
  BY <1>3, <1>4 DEF Elements
<1>6. Distinct(Tail(s))
  BY <1>1, <1>2 DEF Distinct
<1> QED BY <1>1, <1>5, <1>6 DEF Elements

-----------------------------------------------------------------------------
(* The inductive invariant for admission, custody and draining.             *)

(* A thread holds jobs to cancel only inside begin_draining, and the writer *)
(* is there only on its way out.                                            *)
OnlyDrainersCancel ==
  /\ \A t \in Drainers : (dpc[t] # "cancel" => todo[t] = {}) /\ (dpc[t] # "idle" => stopping)
  /\ dpc["writer"] = "cancel" => wpc \in {"finally", "openFailed"}

Custody ==
  TypeOK /\ OnlyDrainersCancel /\ StoppingEmptiesLanes /\ HeldOnce /\ NoJobLost

(* A coordinator that was just constructed holds no job.                    *)
LEMMA CustodyInit == Init => Custody
<1> SUFFICES ASSUME Init PROVE Custody
  OBVIOUS
<1>1. Elements(<<>>) = {} /\ Distinct(<<>>)
  BY DEF Elements, Distinct
<1>2. InHand = {} /\ Cancelling = {}
  BY DEF Init, InHand, Cancelling
<1>3. TypeOK
  <2>1. foreground \in Seq(Jobs) /\ background \in Seq(Jobs)
    BY DEF Init
  <2>2. fut \in [Jobs -> FutStates]
    BY DEF Init, FutStates
  <2>3. attempt \in 0..MaxRetries /\ run \in Nat /\ overtakes \in Nat
    BY BoundsAssumption DEF Init
  <2>4. wpc \in WriterPcs /\ cur \in Jobs \cup {NoJob} /\ cur \notin Jobs
    BY JobsAssumption DEF Init, WriterPcs
  <2>5. /\ dpc \in [Drainers -> {"idle", "cancel", "done"}]
        /\ todo \in [Drainers -> SUBSET Jobs]
    BY DEF Init
  <2> QED BY <2>1, <2>2, <2>3, <2>4, <2>5 DEF Init, TypeOK
<1>4. OnlyDrainersCancel /\ StoppingEmptiesLanes /\ NoJobLost
  BY DEF Init, OnlyDrainersCancel, StoppingEmptiesLanes, NoJobLost
<1>5. HeldOnce
  BY <1>1, <1>2 DEF Init, HeldOnce
<1> QED BY <1>3, <1>4, <1>5 DEF Custody

USE DEF OnlyDrainersCancel

(* Whether it admits or refuses, the admission block leaves lanes of jobs.  *)
LEMMA AdmitTypes ==
  ASSUME TypeOK, NEW j \in Jobs, Admit(j)
  PROVE  fut' \in [Jobs -> FutStates] /\ foreground' \in Seq(Jobs) /\ background' \in Seq(Jobs)
<1>1. Append(foreground, j) \in Seq(Jobs) /\ Append(background, j) \in Seq(Jobs)
  BY AppendElements DEF TypeOK
<1>2. CASE started /\ ~stopping
  BY <1>1, <1>2 DEF TypeOK, Admit, FutStates
<1>3. CASE ~(started /\ ~stopping)
  BY <1>3 DEF TypeOK, Admit, FutStates
<1> QED BY <1>2, <1>3

(* Every action keeps the types, and the writer out of its main loop while  *)
(* it drains.                                                               *)
LEMMA TypeStep ==
  TypeOK /\ OnlyDrainersCancel /\ [Next]_vars => TypeOK' /\ OnlyDrainersCancel'
<1> SUFFICES ASSUME TypeOK, OnlyDrainersCancel, [Next]_vars
             PROVE  TypeOK' /\ OnlyDrainersCancel'
  OBVIOUS
<1> USE JobsAssumption, BoundsAssumption DEF TypeOK
<1>1. CASE Start
  BY <1>1 DEF Start, WriterPcs
<1>2. ASSUME NEW j \in Jobs, Submit(j) PROVE TypeOK' /\ OnlyDrainersCancel'
  <2>1. fut' \in [Jobs -> FutStates] /\ foreground' \in Seq(Jobs) /\ background' \in Seq(Jobs)
    BY <1>2, AdmitTypes DEF Submit
  <2> QED BY <1>2, <2>1 DEF Submit
<1>3. ASSUME NEW j \in Jobs, Notify(j) PROVE TypeOK' /\ OnlyDrainersCancel'
  BY <1>3 DEF Notify, WriterPcs
<1>4. ASSUME NEW j \in Jobs, SubmitNested(j) PROVE TypeOK' /\ OnlyDrainersCancel'
  <2>1. CASE active
    BY <1>4, <2>1 DEF SubmitNested, WriterSubmit, RunInline, FutStates
  <2>2. CASE ~active
    <3>1. fut' \in [Jobs -> FutStates] /\ foreground' \in Seq(Jobs) /\ background' \in Seq(Jobs)
      BY <1>4, <2>2, AdmitTypes DEF SubmitNested, WriterSubmit
    <3> QED BY <1>4, <2>2, <3>1 DEF SubmitNested, WriterSubmit
  <2> QED BY <2>1, <2>2
<1>5. CASE RetryTransaction
  BY <1>5 DEF RetryTransaction
<1>6. CASE OpenConnection
  BY <1>6 DEF OpenConnection, WriterPcs
<1>7. CASE CheckStopping
  BY <1>7 DEF CheckStopping, WriterPcs
<1>8. CASE NextJob
  <2>1. CASE TakeForeground
    BY <1>8, <2>1 DEF NextJob, TakeForeground, WriterPcs
  <2>2. CASE TakeBackground
    BY <1>8, <2>2 DEF NextJob, TakeBackground, WriterPcs
  <2>3. CASE TakeNothing
    BY <1>8, <2>3 DEF NextJob, TakeNothing, WriterPcs
  <2> QED BY <1>8, <2>1, <2>2, <2>3 DEF NextJob
<1>9. CASE WaitForWakeup
  BY <1>9 DEF WaitForWakeup, WriterPcs
<1>10. CASE BeginJob
  BY <1>10 DEF BeginJob, WriterPcs
<1>11. CASE CommitJob
  BY <1>11 DEF CommitJob, SettleInline, ClearActive, FutStates, WriterPcs
<1>12. CASE FailJob
  BY <1>12 DEF FailJob, SettleInline, ClearActive, FutStates, WriterPcs
<1>13. CASE SettleFuture
  BY <1>13 DEF SettleFuture, FutStates, WriterPcs
<1>14. CASE RunCallback
  <2>1. fut' \in [Jobs -> FutStates] /\ foreground' \in Seq(Jobs) /\ background' \in Seq(Jobs)
        /\ tx' \subseteq Jobs /\ committed' \subseteq Jobs
    <3>1. CASE UNCHANGED <<fut, lanes, tx, committed>>
      BY <3>1
    <3>2. CASE Callback[cur] \in Jobs /\ Admit(Callback[cur]) /\ UNCHANGED <<tx, committed>>
      BY <3>2, AdmitTypes
    <3>3. CASE Callback[cur] \in Jobs /\ RunInline(Callback[cur])
      BY <3>3 DEF RunInline, FutStates
    <3> QED BY <1>14, <3>1, <3>2, <3>3 DEF RunCallback, WriterSubmit
  <2> QED BY <1>14, <2>1 DEF RunCallback, WriterPcs
<1>15. ASSUME NEW t \in Drainers, DrainTake(t) PROVE TypeOK' /\ OnlyDrainersCancel'
  BY <1>15 DEF DrainTake, MayDrain, Elements
<1>16. ASSUME NEW t \in Drainers, NEW j \in Jobs, DrainCancel(t, j)
       PROVE  TypeOK' /\ OnlyDrainersCancel'
  BY <1>16 DEF DrainCancel, FutStates
<1>17. ASSUME NEW t \in Drainers, DrainNotify(t) PROVE TypeOK' /\ OnlyDrainersCancel'
  BY <1>17 DEF DrainNotify, WriterPcs
<1>18. CASE Terminated \/ UNCHANGED vars
  BY <1>18 DEF Terminated, vars
<1> QED
  BY <1>1, <1>2, <1>3, <1>4, <1>5, <1>6, <1>7, <1>8, <1>9, <1>10, <1>11, <1>12, <1>13,
     <1>14, <1>15, <1>16, <1>17, <1>18 DEF Next, WriterStep, DrainStep

(* Whatever a lane, the writer or a thread in begin_draining holds.         *)
Held == Elements(foreground) \cup Elements(background) \cup InHand \cup Cancelling

(* A step that moves no job between lanes, writer and drainers and settles  *)
(* none of the jobs they hold keeps custody.                                *)
LEMMA CustodyFrame ==
  ASSUME Custody, UNCHANGED <<stopping, lanes, todo>>, InHand' = InHand,
         \A j \in Jobs : fut[j] = "pending" <=> fut'[j] = "pending"
  PROVE  StoppingEmptiesLanes' /\ HeldOnce' /\ NoJobLost'
<1>1. Cancelling' = Cancelling
  BY DEF Cancelling
<1>2. Held \subseteq Jobs
  BY DEF Custody, TypeOK, Elements, InHand, Cancelling, Held
<1>3. StoppingEmptiesLanes' /\ NoJobLost'
  BY <1>1 DEF Custody, StoppingEmptiesLanes, NoJobLost
<1>4. HeldOnce'
  BY <1>1, <1>2 DEF Custody, HeldOnce, Held
<1> QED BY <1>3, <1>4

(* Admitting a job whose future is not pending puts it in one lane.         *)
LEMMA CustodyAdmit ==
  ASSUME Custody, NEW j \in Jobs, fut[j] # "pending", Admit(j),
         UNCHANGED <<stopping, todo>>, InHand' = InHand
  PROVE  StoppingEmptiesLanes' /\ HeldOnce' /\ NoJobLost'
<1>1. Cancelling' = Cancelling
  BY DEF Cancelling
<1>2. CASE started /\ ~stopping
  <2>1. j \notin Held
    BY DEF Custody, HeldOnce, Held
  <2>2. /\ Distinct(foreground') /\ Distinct(background')
        /\ \/ /\ Elements(foreground') = Elements(foreground) \cup {j}
              /\ Elements(background') = Elements(background)
           \/ /\ Elements(foreground') = Elements(foreground)
              /\ Elements(background') = Elements(background) \cup {j}
    <3>1. foreground \in Seq(Jobs) /\ background \in Seq(Jobs)
      BY DEF Custody, TypeOK
    <3>2. Distinct(foreground) /\ Distinct(background)
      BY DEF Custody, HeldOnce
    <3>3. /\ Distinct(Append(foreground, j)) /\ Distinct(Append(background, j))
          /\ Elements(Append(foreground, j)) = Elements(foreground) \cup {j}
          /\ Elements(Append(background, j)) = Elements(background) \cup {j}
      BY <3>1, <3>2, <2>1, AppendElements DEF Held
    <3>4. CASE j \in Background
      BY <1>2, <3>2, <3>3, <3>4 DEF Admit
    <3>5. CASE j \notin Background
      BY <1>2, <3>2, <3>3, <3>5 DEF Admit
    <3> QED BY <3>4, <3>5
  <2>3. fut' = [fut EXCEPT ![j] = "pending"] /\ fut \in [Jobs -> FutStates]
    BY <1>2 DEF Admit, Custody, TypeOK
  <2>4. \A k \in Held : k \in Jobs
    BY DEF Custody, TypeOK, Elements, InHand, Cancelling, Held
  <2>5. HeldOnce'
    BY <1>1, <2>1, <2>2, <2>3, <2>4 DEF Custody, HeldOnce, Held
  <2>6. NoJobLost'
    BY <1>1, <2>2, <2>3 DEF Custody, NoJobLost
  <2> QED BY <1>2, <2>5, <2>6 DEF StoppingEmptiesLanes
<1>3. CASE ~(started /\ ~stopping)
  BY <1>3, CustodyFrame DEF Admit, Custody, TypeOK
<1> QED BY <1>2, <1>3

(* Every step keeps custody.                                                *)
LEMMA CustodyStep == Custody /\ [Next]_vars => Custody'
<1> SUFFICES ASSUME Custody, [Next]_vars
             PROVE  StoppingEmptiesLanes' /\ HeldOnce' /\ NoJobLost'
  BY TypeStep DEF Custody
<1> DEFINE Kept == StoppingEmptiesLanes' /\ HeldOnce' /\ NoJobLost'
<1>0. TypeOK
  BY DEF Custody
<1>1. CASE Start
  BY <1>1, CustodyFrame DEF Start, InHand
<1>2. ASSUME NEW j \in Jobs, Submit(j) PROVE Kept
  BY <1>2, CustodyAdmit DEF Submit, InHand
<1>3. ASSUME NEW j \in Jobs, Notify(j) PROVE Kept
  BY <1>3, CustodyFrame DEF Notify, InHand
<1>4. ASSUME NEW j \in Jobs, SubmitNested(j) PROVE Kept
  <2>1. fut[j] # "pending" /\ UNCHANGED <<stopping, todo>> /\ InHand' = InHand
    BY <1>4 DEF SubmitNested, InHand
  <2>2. CASE active
    BY <1>0, <1>4, <2>1, <2>2, CustodyFrame
       DEF SubmitNested, WriterSubmit, RunInline, TypeOK
  <2>3. CASE ~active
    BY <1>4, <2>1, <2>3, CustodyAdmit DEF SubmitNested, WriterSubmit
  <2> QED BY <2>2, <2>3
<1>5. CASE RetryTransaction
  BY <1>5, CustodyFrame DEF RetryTransaction, InHand
<1>6. CASE OpenConnection
  BY <1>6, CustodyFrame DEF OpenConnection, InHand
<1>7. CASE CheckStopping
  BY <1>7, CustodyFrame DEF CheckStopping, InHand
<1>8. CASE NextJob
  <2> USE DEF Custody
  <2>1. InHand = {} /\ Cancelling' = Cancelling
    BY <1>8 DEF NextJob, InHand, Cancelling
  <2>2. foreground \in Seq(Jobs) /\ background \in Seq(Jobs)
    BY <1>0 DEF TypeOK
  <2>3. Distinct(foreground) /\ Distinct(background)
    BY DEF HeldOnce
  <2>4. CASE TakeForeground
    <3>1. InHand' = {Head(foreground)} /\ UNCHANGED <<stopping, fut, background, todo>>
      BY <1>8, <2>4 DEF NextJob, TakeForeground, InHand
    <3>2. /\ Head(foreground) \in Elements(foreground) /\ Distinct(foreground')
          /\ Elements(foreground') = Elements(foreground) \ {Head(foreground)}
      BY <2>2, <2>3, <2>4, TailElements DEF TakeForeground
    <3>3. HeldOnce'
      BY <2>1, <3>1, <3>2 DEF HeldOnce
    <3>4. NoJobLost'
      BY <2>1, <3>1, <3>2 DEF NoJobLost
    <3> QED BY <2>4, <3>1, <3>3, <3>4 DEF StoppingEmptiesLanes, TakeForeground
  <2>5. CASE TakeBackground
    <3>1. InHand' = {Head(background)} /\ UNCHANGED <<stopping, fut, foreground, todo>>
      BY <1>8, <2>5 DEF NextJob, TakeBackground, InHand
    <3>2. /\ Head(background) \in Elements(background) /\ Distinct(background')
          /\ Elements(background') = Elements(background) \ {Head(background)}
      BY <2>2, <2>3, <2>5, TailElements DEF TakeBackground
    <3>3. HeldOnce'
      BY <2>1, <3>1, <3>2 DEF HeldOnce
    <3>4. NoJobLost'
      BY <2>1, <3>1, <3>2 DEF NoJobLost
    <3> QED BY <2>5, <3>1, <3>3, <3>4 DEF StoppingEmptiesLanes, TakeBackground
  <2>6. CASE TakeNothing
    BY <1>8, <2>6, CustodyFrame DEF NextJob, TakeNothing, InHand
  <2> QED BY <1>8, <2>4, <2>5, <2>6 DEF NextJob
<1>9. CASE WaitForWakeup
  BY <1>9, CustodyFrame DEF WaitForWakeup, InHand
<1>10. CASE BeginJob
  BY <1>10, CustodyFrame DEF BeginJob, InHand
<1>11. CASE CommitJob
  <2>1. InHand' = InHand /\ UNCHANGED <<stopping, lanes, todo>>
    BY <1>11 DEF CommitJob, InHand
  <2>2. \A j \in Jobs : fut[j] = "pending" <=> fut'[j] = "pending"
    BY <1>11 DEF CommitJob, SettleInline
  <2> QED BY <2>1, <2>2, CustodyFrame
<1>12. CASE FailJob
  <2>1. InHand' = InHand /\ UNCHANGED <<stopping, lanes, todo>>
    BY <1>12 DEF FailJob, InHand
  <2>2. \A j \in Jobs : fut[j] = "pending" <=> fut'[j] = "pending"
    BY <1>12 DEF FailJob, SettleInline
  <2> QED BY <2>1, <2>2, CustodyFrame
<1>13. CASE SettleFuture
  <2> USE DEF Custody
  <2>1. InHand = {cur} /\ InHand' = {} /\ Cancelling' = Cancelling
    BY <1>13 DEF SettleFuture, InHand, Cancelling
  <2>2. /\ UNCHANGED <<stopping, lanes, todo>> /\ cur \in Jobs
        /\ fut'[cur] \in {"result", "exception"}
        /\ \A j \in Jobs \ {cur} : fut'[j] = fut[j]
    BY <1>0, <1>13 DEF SettleFuture, TypeOK
  <2>3. Held \subseteq Jobs
    BY <1>0 DEF TypeOK, Elements, InHand, Cancelling, Held
  <2>4. HeldOnce'
    BY <2>1, <2>2, <2>3 DEF HeldOnce, Held
  <2>5. NoJobLost'
    BY <2>1, <2>2 DEF NoJobLost
  <2> QED BY <2>2, <2>4, <2>5 DEF StoppingEmptiesLanes
<1>14. CASE RunCallback
  <2>1. UNCHANGED <<stopping, todo>> /\ InHand' = InHand
    BY <1>14 DEF RunCallback, InHand
  <2>2. CASE UNCHANGED <<fut, lanes, tx, committed>>
    BY <2>1, <2>2, CustodyFrame
  <2>3. CASE /\ Callback[cur] # NoJob /\ fut[Callback[cur]] = "none"
             /\ WriterSubmit(Callback[cur])
    <3>1. Callback[cur] \in Jobs
      BY <1>0, <1>14, <2>3, JobsAssumption DEF RunCallback, TypeOK
    <3>2. CASE active
      BY <1>0, <2>1, <2>3, <3>1, <3>2, CustodyFrame DEF WriterSubmit, RunInline, TypeOK
    <3>3. CASE ~active
      BY <2>1, <2>3, <3>1, <3>3, CustodyAdmit DEF WriterSubmit
    <3> QED BY <3>2, <3>3
  <2> QED BY <1>14, <2>2, <2>3 DEF RunCallback
<1>15. ASSUME NEW t \in Drainers, DrainTake(t) PROVE Kept
  <2> USE DEF Custody
  <2>1. Elements(<<>>) = {} /\ Distinct(<<>>)
    BY DEF Elements, Distinct
  <2>2. InHand' = InHand /\ fut' = fut /\ foreground' = <<>> /\ background' = <<>>
    BY <1>15 DEF DrainTake, InHand
  <2>3. /\ todo[t] = {} /\ todo'[t] = Elements(foreground) \cup Elements(background)
        /\ \A u \in Drainers \ {t} : todo'[u] = todo[u]
    BY <1>0, <1>15 DEF DrainTake, TypeOK
  <2>4. Cancelling' = Cancelling \cup Elements(foreground) \cup Elements(background)
    BY <2>3 DEF Cancelling
  <2>5. HeldOnce'
    <3>1. todo'["main"] \cap todo'["writer"] = {}
      BY <2>3 DEF HeldOnce, Cancelling
    <3> QED BY <2>1, <2>2, <2>4, <3>1 DEF HeldOnce
  <2>6. NoJobLost'
    BY <2>1, <2>2, <2>4 DEF NoJobLost
  <2> QED BY <2>2, <2>5, <2>6 DEF StoppingEmptiesLanes
<1>16. ASSUME NEW t \in Drainers, NEW j \in Jobs, DrainCancel(t, j) PROVE Kept
  <2> USE DEF Custody
  <2>1. /\ UNCHANGED <<stopping, lanes>> /\ InHand' = InHand
        /\ fut'[j] = "exception" /\ \A k \in Jobs \ {j} : fut'[k] = fut[k]
    BY <1>0, <1>16 DEF DrainCancel, InHand, TypeOK
  <2>2. /\ j \in todo[t] /\ todo'[t] = todo[t] \ {j}
        /\ \A u \in Drainers \ {t} : todo'[u] = todo[u] /\ j \notin todo[u]
    BY <1>0, <1>16 DEF DrainCancel, TypeOK, HeldOnce
  <2>3. j \in Cancelling /\ Cancelling' = Cancelling \ {j}
    BY <2>2 DEF Cancelling
  <2>4. Held \subseteq Jobs
    BY <1>0 DEF TypeOK, Elements, InHand, Cancelling, Held
  <2>5. HeldOnce'
    <3>1. todo'["main"] \cap todo'["writer"] = {}
      BY <2>2 DEF HeldOnce
    <3> QED BY <2>1, <2>3, <2>4, <3>1 DEF HeldOnce, Held
  <2>6. NoJobLost'
    BY <2>1, <2>3 DEF NoJobLost
  <2> QED BY <2>1, <2>5, <2>6 DEF StoppingEmptiesLanes
<1>17. ASSUME NEW t \in Drainers, DrainNotify(t) PROVE Kept
  <2>1. InHand' = InHand
    BY <1>0, <1>17 DEF DrainNotify, InHand, Custody
  <2> QED BY <1>17, <2>1, CustodyFrame DEF DrainNotify
<1>18. CASE Terminated \/ UNCHANGED vars
  BY <1>18, CustodyFrame DEF Terminated, vars, InHand
<1> QED
  BY <1>1, <1>2, <1>3, <1>4, <1>5, <1>6, <1>7, <1>8, <1>9, <1>10, <1>11, <1>12, <1>13,
     <1>14, <1>15, <1>16, <1>17, <1>18 DEF Next, WriterStep, DrainStep

(* The variables of the coordinator keep their types.                       *)
THEOREM TypeCorrect == Spec => []TypeOK
<1>1. Spec => []Custody
  BY CustodyInit, CustodyStep, PTL DEF Spec
<1> QED BY <1>1, PTL DEF Custody

(* No admitted job is dropped, none is in two places or settled twice, and  *)
(* the lanes stay empty once begin_draining took the lock.                  *)
THEOREM JobCustody == Spec => []CustodyKept
<1>1. Spec => []Custody
  BY CustodyInit, CustodyStep, PTL DEF Spec
<1>2. Custody => CustodyKept
  BY DEF Custody, CustodyKept
<1> QED BY <1>1, <1>2, PTL

-----------------------------------------------------------------------------
(* Fairness of the two lanes                                                *)

(* run never falls behind the count of overtakes.                           *)
RunCountsOvertakes == overtakes <= run /\ overtakes <= ForegroundBurst

(* However long tools keep writing, waiting background work is overtaken    *)
(* by at most ForegroundBurst of them (_next_job).                          *)
THEOREM BackgroundServed == Spec => []BackgroundNotStarved
<1>1. Init => RunCountsOvertakes
  BY BoundsAssumption DEF Init, RunCountsOvertakes
<1>2. TypeOK /\ RunCountsOvertakes /\ [Next]_vars => RunCountsOvertakes'
  <2> SUFFICES ASSUME TypeOK, RunCountsOvertakes, [Next]_vars
               PROVE  RunCountsOvertakes'
    OBVIOUS
  <2> USE BoundsAssumption DEF TypeOK, RunCountsOvertakes
  <2>1. CASE UNCHANGED <<run, overtakes>>
    BY <2>1
  <2>2. CASE NextJob
    BY <2>2 DEF NextJob, TakeForeground, TakeBackground, TakeNothing, BackgroundTurn
  <2>3. CASE Next /\ ~NextJob
    <3>1. UNCHANGED <<run, overtakes>>
      BY <2>3 DEF Next, WriterStep, DrainStep, Start, Submit, Notify, SubmitNested,
         RetryTransaction, OpenConnection, CheckStopping, WaitForWakeup, BeginJob,
         CommitJob, FailJob, SettleFuture, RunCallback, DrainTake, DrainCancel,
         DrainNotify, Terminated, vars
    <3> QED BY <2>1, <3>1
  <2> QED BY <2>1, <2>2, <2>3 DEF vars
<1>3. RunCountsOvertakes => BackgroundNotStarved
  BY DEF RunCountsOvertakes, BackgroundNotStarved
<1> QED BY <1>1, <1>2, <1>3, TypeCorrect, PTL DEF Spec

-----------------------------------------------------------------------------
(* What callers are told                                                    *)

(* The open transaction holds the job in hand and the calls that ran        *)
(* inline; outside a job there is neither a transaction nor an inline call, *)
(* and maintenance takes no part in any of it.                              *)
TransactionShape ==
  /\ wpc = "running" =>
       /\ active
       /\ (cur \in Maintenance => tx = {} /\ \A j \in Jobs : fut[j] # "inline")
       /\ (cur \notin Maintenance => cur \in tx)
       /\ \A j \in tx : j = cur \/ fut[j] = "inline"
  /\ Maintenance \cap (tx \cup committed) = {}
  /\ wpc # "running" => ~active /\ tx = {} /\ \A j \in Jobs : fut[j] # "inline"

Ledger == Custody /\ TransactionShape /\ ReportedIffCommitted

(* Before the first job nothing is reported and nothing is committed.       *)
LEMMA LedgerInit == Init => Ledger
BY CustodyInit DEF Init, Ledger, TransactionShape, ReportedIffCommitted

(* A step outside a job that settles nothing, or settles a pending job that *)
(* the writer does not hold, leaves the books right.                        *)
LEMMA LedgerFrame ==
  ASSUME Ledger, UNCHANGED <<active, tx, committed>>,
         UNCHANGED <<wpc, cur>> \/ {wpc, wpc'} \cap {"running", "settleOk"} = {},
         \A j \in Jobs : fut'[j] # fut[j] =>
            /\ fut[j] \in {"none", "pending"} /\ j \notin InHand
            /\ fut'[j] \in {"pending", "rejected", "exception"}
  PROVE  TransactionShape' /\ ReportedIffCommitted'
<1> USE DEF Ledger
<1>1. tx \subseteq Jobs
  BY DEF Custody, TypeOK
<1>2. TransactionShape'
  BY <1>1 DEF TransactionShape
<1>3. ReportedIffCommitted'
  BY DEF ReportedIffCommitted
<1> QED BY <1>2, <1>3

(* Every step keeps the books right.                                        *)
LEMMA LedgerStep == Ledger /\ [Next]_vars => Ledger'
<1> SUFFICES ASSUME Ledger, [Next]_vars
             PROVE  TransactionShape' /\ ReportedIffCommitted'
  BY CustodyStep DEF Ledger
<1> DEFINE Right == TransactionShape' /\ ReportedIffCommitted'
<1>0. Custody /\ TypeOK /\ fut \in [Jobs -> FutStates] /\ tx \subseteq Jobs
  BY DEF Ledger, Custody, TypeOK
<1>1. CASE Start
  BY <1>1, LedgerFrame DEF Start
<1>2. ASSUME NEW j \in Jobs, Submit(j) PROVE Right
  <2>1. j \notin InHand
    BY <1>2 DEF Submit, Ledger, Custody, HeldOnce
  <2>2. UNCHANGED writer /\ fut' \in {[fut EXCEPT ![j] = "pending"], [fut EXCEPT ![j] = "rejected"]}
    BY <1>2 DEF Submit, Admit
  <2> QED BY <1>0, <1>2, <2>1, <2>2, LedgerFrame DEF Submit
<1>3. ASSUME NEW j \in Jobs, Notify(j) PROVE Right
  BY <1>3, LedgerFrame DEF Notify
<1>4. ASSUME NEW j \in Jobs, SubmitNested(j) PROVE Right
  <2>1. /\ wpc = "running" /\ active /\ cur \in tx /\ fut[j] \in {"none", "inline"}
        /\ UNCHANGED <<wpc, cur, active>> /\ cur \notin Maintenance /\ j \notin Maintenance
    BY <1>4 DEF SubmitNested, Ledger, TransactionShape
  <2>2. fut' = [fut EXCEPT ![j] = "inline"] /\ tx' = tx \cup {j} /\ committed' = committed
    BY <1>4, <2>1 DEF SubmitNested, WriterSubmit, RunInline
  <2>3. TransactionShape'
    BY <1>0, <2>1, <2>2 DEF Ledger, TransactionShape
  <2>4. ReportedIffCommitted'
    BY <1>0, <2>1, <2>2 DEF Ledger, ReportedIffCommitted
  <2> QED BY <2>3, <2>4
<1>5. CASE RetryTransaction
  BY <1>5 DEF RetryTransaction, Ledger, TransactionShape, ReportedIffCommitted
<1>6. CASE OpenConnection
  BY <1>6, LedgerFrame DEF OpenConnection
<1>7. CASE CheckStopping
  BY <1>7, LedgerFrame DEF CheckStopping
<1>8. CASE NextJob
  BY <1>8, LedgerFrame DEF NextJob, TakeForeground, TakeBackground, TakeNothing
<1>9. CASE WaitForWakeup
  BY <1>9, LedgerFrame DEF WaitForWakeup
<1>10. CASE BeginJob
  BY <1>10 DEF BeginJob, Ledger, TransactionShape, ReportedIffCommitted
<1>11. CASE CommitJob
  <2>1. /\ wpc = "running" /\ wpc' = "settleOk" /\ cur' = cur /\ tx' = {} /\ ~active'
        /\ committed' = committed \cup tx
        /\ \A j \in Jobs : fut'[j] = IF fut[j] # "inline" THEN fut[j]
                                    ELSE IF j \in tx THEN "result" ELSE "exception"
    BY <1>11 DEF CommitJob, SettleInline, ClearActive
  <2>2. cur \in Jobs /\ fut[cur] = "pending"
    BY <1>0, <2>1 DEF TypeOK, Custody, HeldOnce, InHand
  <2>3. ReportedIffCommitted'
    BY <2>1, <2>2 DEF Ledger, TransactionShape, ReportedIffCommitted
  <2>4. TransactionShape'
    BY <2>1 DEF TransactionShape, Ledger
  <2> QED BY <2>3, <2>4
<1>12. CASE FailJob
  <2>1. /\ wpc = "running" /\ wpc' \in {"settleErr", "settleFatal"} /\ tx' = {} /\ ~active'
        /\ committed' = committed
        /\ \A j \in Jobs : fut'[j] = IF fut[j] # "inline" THEN fut[j] ELSE "exception"
    BY <1>12 DEF FailJob, SettleInline, ClearActive
  <2>2. ReportedIffCommitted'
    BY <2>1 DEF Ledger, ReportedIffCommitted
  <2>3. TransactionShape'
    BY <2>1 DEF TransactionShape, Ledger
  <2> QED BY <2>2, <2>3
<1>13. CASE SettleFuture
  <2>1. /\ wpc \in {"settleOk", "settleErr", "settleFatal"}
        /\ wpc' \in {"callback", "callbackFatal"} /\ UNCHANGED <<cur, tx, active, committed>>
    BY <1>13 DEF SettleFuture
  <2>2. cur \in Jobs /\ fut[cur] = "pending"
    BY <1>0, <2>1 DEF TypeOK, Custody, HeldOnce, InHand
  <2>3. /\ fut'[cur] = IF wpc = "settleOk" THEN "result" ELSE "exception"
        /\ \A j \in Jobs \ {cur} : fut'[j] = fut[j]
    BY <1>0, <1>13, <2>2 DEF SettleFuture
  <2>4. ReportedIffCommitted'
    BY <2>1, <2>2, <2>3 DEF Ledger, ReportedIffCommitted
  <2>5. TransactionShape'
    BY <2>1, <2>2, <2>3 DEF Ledger, TransactionShape
  <2> QED BY <2>4, <2>5
<1>14. CASE RunCallback
  <2>1. /\ ~active /\ UNCHANGED <<active, tx, committed>> /\ InHand = {}
        /\ {wpc, wpc'} \cap {"running", "settleOk"} = {}
    BY <1>0, <1>14 DEF RunCallback, WriterSubmit, Ledger, TransactionShape, InHand, TypeOK
  <2>2. CASE fut' = fut
    BY <2>1, <2>2, LedgerFrame
  <2>3. CASE /\ Callback[cur] # NoJob /\ fut[Callback[cur]] = "none"
             /\ WriterSubmit(Callback[cur])
    <3>1. fut' \in {[fut EXCEPT ![Callback[cur]] = "pending"],
                    [fut EXCEPT ![Callback[cur]] = "rejected"]}
      BY <2>1, <2>3 DEF WriterSubmit, Admit
    <3> QED BY <1>0, <2>1, <2>3, <3>1, LedgerFrame
  <2> QED BY <1>14, <2>2, <2>3 DEF RunCallback
<1>15. ASSUME NEW t \in Drainers, DrainTake(t) PROVE Right
  BY <1>15, LedgerFrame DEF DrainTake
<1>16. ASSUME NEW t \in Drainers, NEW j \in Jobs, DrainCancel(t, j) PROVE Right
  <2>1. j \in Cancelling /\ UNCHANGED writer /\ fut' = [fut EXCEPT ![j] = "exception"]
    BY <1>16 DEF DrainCancel, Cancelling
  <2>2. fut[j] = "pending" /\ j \notin InHand
    BY <1>0, <2>1 DEF Custody, HeldOnce
  <2> QED BY <1>0, <2>1, <2>2, LedgerFrame
<1>17. ASSUME NEW t \in Drainers, DrainNotify(t) PROVE Right
  <2>1. UNCHANGED wpc \/ {wpc, wpc'} \cap {"running", "settleOk"} = {}
    BY <1>0, <1>17 DEF DrainNotify, Custody
  <2> QED BY <1>17, <2>1, LedgerFrame DEF DrainNotify
<1>18. CASE Terminated \/ UNCHANGED vars
  BY <1>18, LedgerFrame DEF Terminated, vars
<1> QED
  BY <1>1, <1>2, <1>3, <1>4, <1>5, <1>6, <1>7, <1>8, <1>9, <1>10, <1>11, <1>12, <1>13,
     <1>14, <1>15, <1>16, <1>17, <1>18 DEF Next, WriterStep, DrainStep

(* A caller is told of success exactly if its writes are in the database,   *)
(* whatever is retried, rolled back, nested, cancelled or refused.          *)
THEOREM HonestReports == Spec => []ReportedIffCommitted
<1>1. Spec => []Ledger
  BY LedgerInit, LedgerStep, PTL DEF Spec
<1> QED BY <1>1, PTL DEF Ledger

(* No write reaches the database outside a COMMIT.                          *)
THEOREM CommitsOnly == Spec => WritesOnlyByCommit
<1>1. Ledger /\ [Next]_vars =>
        (committed' # committed => wpc = "running" /\ committed' = committed \cup tx)
  <2> SUFFICES ASSUME Ledger, Next, committed' # committed
               PROVE  wpc = "running" /\ committed' = committed \cup tx
    BY DEF vars
  <2>1. CASE CommitJob
    BY <2>1 DEF CommitJob
  <2>2. ASSUME NEW j \in Jobs, SubmitNested(j) PROVE FALSE
    BY <2>2 DEF SubmitNested, WriterSubmit, RunInline, Ledger, TransactionShape
  <2>3. CASE RunCallback
    BY <2>3 DEF RunCallback, WriterSubmit, Ledger, TransactionShape
  <2> QED
    BY <2>1, <2>2, <2>3 DEF Next, WriterStep, DrainStep, Start, Submit, Notify,
       RetryTransaction, OpenConnection, CheckStopping, NextJob, WaitForWakeup, BeginJob,
       FailJob, SettleFuture, DrainTake, DrainCancel, DrainNotify, Terminated, vars
<1>2. Spec => []Ledger
  BY LedgerInit, LedgerStep, PTL DEF Spec
<1> QED BY <1>1, <1>2, PTL DEF Spec, WritesOnlyByCommit

-----------------------------------------------------------------------------
(* The coordinator implements SerialWriter                                  *)

(* What a caller sees of a future that did not change did not change.       *)
LEMMA SameOutcome ==
  ASSUME UNCHANGED fut PROVE Outcome' = Outcome
BY DEF Outcome

(* Settling one future decides one call and no other.                       *)
LEMMA DecideOutcome ==
  ASSUME TypeOK, NEW j \in Jobs, NEW x \in FutStates, fut' = [fut EXCEPT ![j] = x]
  PROVE  Outcome' = [Outcome EXCEPT ![j] = Seen[x]]
BY DEF TypeOK, Outcome

(* The admission block accepts while the writer is open, and refuses else.  *)
LEMMA AdmitDecides ==
  ASSUME TypeOK, NEW j \in Jobs, fut[j] = "none", Admit(j),
         UNCHANGED <<started, stopping, committed>>
  PROVE  Promise!Next
<1>1. Outcome[j] = "none" /\ UNCHANGED <<Phase, committed>>
  BY DEF Outcome, Seen, Phase
<1>2. CASE started /\ ~stopping
  <2>1. Outcome' = [Outcome EXCEPT ![j] = "accepted"] /\ Phase = "open"
    BY <1>2, DecideOutcome DEF Admit, Seen, FutStates, Phase
  <2>2. Promise!Accept(j)
    BY <1>1, <2>1 DEF Promise!Accept, Promise!Decide
  <2> QED BY <2>2 DEF Promise!Next
<1>3. CASE ~(started /\ ~stopping)
  <2>1. Outcome' = [Outcome EXCEPT ![j] = "refused"] /\ Phase # "open"
    BY <1>3, DecideOutcome DEF Admit, Seen, FutStates, Phase
  <2>2. Promise!Refuse(j)
    BY <1>1, <2>1 DEF Promise!Refuse, Promise!Decide
  <2> QED BY <2>2 DEF Promise!Next
<1> QED BY <1>2, <1>3

(* A new coordinator looks like a new serial writer.                        *)
LEMMA PromiseInit == Init => Promise!Init
BY DEF Init, Promise!Init, Phase, Outcome, Seen

(* Every step of the coordinator is a step of the serial writer or changes  *)
(* nothing its callers can see.                                             *)
LEMMA PromiseStep == Ledger /\ [Next]_vars => [Promise!Next]_(Promise!vars)
<1> SUFFICES ASSUME Ledger, [Next]_vars, ~UNCHANGED <<Phase, Outcome, committed>>
             PROVE  Promise!Next
  BY DEF Promise!vars
<1> USE DEF Ledger, Custody
<1>0. TypeOK /\ fut \in [Jobs -> FutStates]
  BY DEF TypeOK
<1>1. CASE Start
  <2>1. Phase = "new" /\ Phase' = "open" /\ UNCHANGED <<Outcome, committed>>
    BY <1>1, SameOutcome DEF Start, Phase
  <2> QED BY <2>1 DEF Promise!Next, Promise!Open
<1>2. ASSUME NEW j \in Jobs, Submit(j) PROVE Promise!Next
  BY <1>0, <1>2, AdmitDecides DEF Submit
<1>3. ASSUME NEW j \in Jobs, SubmitNested(j) PROVE Promise!Next
  <2>1. wpc = "running" /\ active /\ tx # {} /\ fut[j] \in {"none", "inline"}
    BY <1>3 DEF SubmitNested, TransactionShape
  <2>2. fut' = [fut EXCEPT ![j] = "inline"] /\ UNCHANGED <<Phase, committed>>
    BY <1>3, <2>1 DEF SubmitNested, WriterSubmit, RunInline, Phase
  <2>3. Outcome' = [Outcome EXCEPT ![j] = "joined"]
    BY <1>0, <2>2, DecideOutcome DEF Seen, FutStates
  <2>4. fut[j] = "none" /\ Outcome[j] = "none"
    <3>1. fut[j] = "inline" => fut' = fut
      BY <1>0, <2>2
    <3> QED BY <2>1, <2>2, <3>1, SameOutcome DEF Outcome, Seen
  <2>5. Promise!Join(j)
    BY <2>2, <2>3, <2>4 DEF Promise!Join, Promise!Decide
  <2> QED BY <2>5 DEF Promise!Next
<1>4. CASE CommitJob
  <2>1. /\ wpc = "running" /\ UNCHANGED Phase /\ committed' = committed \cup tx
        /\ fut' = [j \in Jobs |-> IF fut[j] # "inline" THEN fut[j]
                                ELSE IF j \in tx THEN "result" ELSE "exception"]
    BY <1>4 DEF CommitJob, SettleInline, Phase
  <2>2. cur \in Jobs /\ fut[cur] = "pending"
    BY <1>0, <2>1 DEF TypeOK, HeldOnce, InHand
  <2>3. cur \notin Maintenance
    <3> SUFFICES ASSUME cur \in Maintenance PROVE FALSE
      OBVIOUS
    <3>1. tx = {} /\ \A j \in Jobs : fut[j] # "inline"
      BY <2>1 DEF TransactionShape
    <3>2. fut' = fut /\ committed' = committed
      BY <1>0, <2>1, <3>1
    <3> QED BY <2>1, <3>2, SameOutcome
  <2>4. cur \in tx /\ tx \subseteq Jobs /\ \A j \in tx : j = cur \/ fut[j] = "inline"
    BY <1>0, <2>1, <2>3 DEF TransactionShape, TypeOK
  <2>5. cur \notin committed
    BY <2>1, <2>2, <2>3 DEF ReportedIffCommitted
  <2>6. \A j \in Jobs : j \in Promise!Joined <=> fut[j] = "inline"
    BY <1>0 DEF Promise!Joined, Outcome, Seen, FutStates
  <2>7. tx \ {cur} \in SUBSET Promise!Joined
    BY <2>4, <2>6
  <2>8. Outcome' = [k \in Jobs |-> IF k \notin Promise!Joined THEN Outcome[k]
                                ELSE IF k \in tx \ {cur} THEN "ok" ELSE "failed"]
    BY <2>1, <2>2, <2>4, <2>6 DEF Outcome, Seen
  <2>9. Outcome[cur] = "accepted" /\ cur \in (Jobs \ Maintenance) \ committed
    BY <2>2, <2>3, <2>5 DEF Outcome, Seen
  <2>10. Promise!Commit(cur, tx \ {cur})
    BY <2>1, <2>4, <2>8, <2>9 DEF Promise!Commit
  <2> QED BY <2>2, <2>7, <2>10 DEF Promise!Next
<1>5. CASE FailJob
  <2>1. /\ UNCHANGED <<Phase, committed>>
        /\ fut' = [j \in Jobs |-> IF fut[j] # "inline" THEN fut[j] ELSE "exception"]
    BY <1>5 DEF FailJob, SettleInline, Phase
  <2>2. \A j \in Jobs : j \in Promise!Joined <=> fut[j] = "inline"
    BY <1>0 DEF Promise!Joined, Outcome, Seen, FutStates
  <2>3. Outcome' = [k \in Jobs |-> IF k \in Promise!Joined THEN "failed" ELSE Outcome[k]]
    BY <2>1, <2>2 DEF Outcome, Seen
  <2>4. Promise!Joined # {}
    <3> SUFFICES ASSUME Promise!Joined = {} PROVE FALSE
      OBVIOUS
    <3>1. fut' = fut
      BY <1>0, <2>1, <2>2
    <3> QED BY <2>1, <3>1, SameOutcome
  <2>5. Promise!RollBack
    BY <2>1, <2>3, <2>4 DEF Promise!RollBack
  <2> QED BY <2>5 DEF Promise!Next
<1>6. CASE SettleFuture
  <2>1. wpc \in {"settleOk", "settleErr", "settleFatal"} /\ UNCHANGED <<Phase, committed>>
    BY <1>6 DEF SettleFuture, Phase
  <2>2. cur \in Jobs /\ fut[cur] = "pending" /\ Outcome[cur] = "accepted"
    BY <1>0, <2>1 DEF TypeOK, HeldOnce, InHand, Outcome, Seen
  <2>3. CASE wpc = "settleOk"
    <3>1. Outcome' = [Outcome EXCEPT ![cur] = "ok"]
      BY <1>0, <1>6, <2>2, <2>3, DecideOutcome DEF SettleFuture, Seen, FutStates
    <3>2. cur \in Jobs \ Maintenance => cur \in committed
      BY <2>3 DEF ReportedIffCommitted
    <3>3. Promise!Report(cur)
      BY <2>1, <2>2, <3>1, <3>2 DEF Promise!Report, Promise!Decide
    <3> QED BY <2>2, <3>3 DEF Promise!Next
  <2>4. CASE wpc # "settleOk"
    <3>1. Outcome' = [Outcome EXCEPT ![cur] = "failed"]
      BY <1>0, <1>6, <2>2, <2>4, DecideOutcome DEF SettleFuture, Seen, FutStates
    <3>2. cur \notin committed
      BY <2>2, <2>4 DEF ReportedIffCommitted, TransactionShape
    <3>3. Promise!Fail(cur)
      BY <2>1, <2>2, <3>1, <3>2 DEF Promise!Fail, Promise!Decide
    <3> QED BY <2>2, <3>3 DEF Promise!Next
  <2> QED BY <2>3, <2>4
<1>7. CASE RunCallback
  <2>1. ~active /\ UNCHANGED <<started, stopping, committed>> /\ cur \in Jobs
    BY <1>0, <1>7 DEF RunCallback, WriterSubmit, TransactionShape, TypeOK
  <2>2. CASE UNCHANGED <<fut, lanes, tx, committed>>
    BY <2>1, <2>2, SameOutcome DEF Phase
  <2>3. CASE /\ Callback[cur] # NoJob /\ fut[Callback[cur]] = "none"
             /\ WriterSubmit(Callback[cur])
    <3>1. Callback[cur] \in Jobs
      BY <2>1, <2>3, JobsAssumption
    <3> QED BY <1>0, <2>1, <2>3, <3>1, AdmitDecides DEF WriterSubmit
  <2> QED BY <1>7, <2>2, <2>3 DEF RunCallback
<1>8. ASSUME NEW t \in Drainers, DrainTake(t) PROVE Promise!Next
  <2>1. UNCHANGED <<Outcome, committed>> /\ Phase' = "closed"
    BY <1>8, SameOutcome DEF DrainTake, Phase
  <2>2. Phase # "closed"
    BY <2>1
  <2>3. Promise!Close
    BY <2>1, <2>2 DEF Promise!Close
  <2> QED BY <2>3 DEF Promise!Next
<1>9. ASSUME NEW t \in Drainers, NEW j \in Jobs, DrainCancel(t, j) PROVE Promise!Next
  <2>1. j \in Cancelling /\ UNCHANGED <<Phase, committed>> /\ fut' = [fut EXCEPT ![j] = "exception"]
    BY <1>9 DEF DrainCancel, Cancelling, Phase
  <2>2. fut[j] = "pending" /\ j \notin InHand
    BY <2>1 DEF HeldOnce
  <2>3. j \notin committed
    BY <2>2 DEF ReportedIffCommitted, TransactionShape, InHand
  <2>4. Outcome[j] = "accepted" /\ Outcome' = [Outcome EXCEPT ![j] = "failed"]
    <3>1. Outcome[j] = "accepted"
      BY <2>2 DEF Outcome, Seen
    <3> QED BY <1>0, <2>1, <3>1, DecideOutcome DEF Seen, FutStates
  <2>5. Promise!Fail(j)
    BY <2>1, <2>3, <2>4 DEF Promise!Fail, Promise!Decide
  <2> QED BY <2>5 DEF Promise!Next
<1>10. ASSUME NEW t \in Drainers, DrainNotify(t) PROVE FALSE
  <2>1. stopping /\ stopping' /\ UNCHANGED <<fut, committed>>
    BY <1>10 DEF DrainNotify
  <2> QED BY <2>1, SameOutcome DEF Phase
<1>11. ASSUME UNCHANGED <<started, stopping, fut, committed>> PROVE FALSE
  BY <1>11, SameOutcome DEF Phase
<1>12. CASE \/ RetryTransaction \/ OpenConnection \/ CheckStopping \/ NextJob \/ WaitForWakeup
            \/ BeginJob \/ Terminated \/ UNCHANGED vars \/ \E j \in Jobs : Notify(j)
  BY <1>11, <1>12 DEF RetryTransaction, OpenConnection, CheckStopping, NextJob,
     WaitForWakeup, BeginJob, Terminated, vars, Notify
<1> QED
  BY <1>1, <1>2, <1>3, <1>4, <1>5, <1>6, <1>7, <1>8, <1>9, <1>10, <1>12
     DEF Next, WriterStep, DrainStep

(* The coordinator with its lanes, threads, retries and drains implements   *)
(* the serial writer its callers see.                                       *)
THEOREM Implementation == Spec => ImplementsSerialWriter
<1>1. Spec => []Ledger
  BY LedgerInit, LedgerStep, PTL DEF Spec
<1> QED BY <1>1, PromiseInit, PromiseStep, PTL DEF Spec, ImplementsSerialWriter, Promise!Spec
=============================================================================
