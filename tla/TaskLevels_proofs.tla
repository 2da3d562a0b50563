-------------------------- MODULE TaskLevels_proofs --------------------------
(***************************************************************************)
(* What the rows of the Task Center keep for those who rely on them later: *)
(* no task is left executing by nobody, a level stands before the content  *)
(* it protects and never changes, and a sample says what its human said.   *)
(* Last, that all of it together implements the life TaskPromise states.   *)
(***************************************************************************)
EXTENDS TaskCenter_proofs

USE KindsAssumption, RequestsAssumption, ThreadsAssumption
    DEF Exec

-----------------------------------------------------------------------------
(* No zombie *)

\* what the recovery still has to visit; after it, the job thread executes
\* every executing user row itself
ZombieInv ==
    \A t \in Task \ EvalTask : status[t] \in ExecutionStates =>
        /\ phase[Job] \in {"recover", "recovered"} => t \in todo
        /\ phase[Job] \notin {"down", "recover", "recovered"} /\ ~lossy =>
              hold[Job] = t /\ phase[Job] \in RuntimePhases \cup {"boom"}

\* Nothing executes at first.
LEMMA InitZombie == Init => ZombieInv
BY DEF Init, ZombieInv, ExecutionStates

\* Whoever lets go of a user row has seen it leave execution.
LEMMA NextZombie ==
  TypeOK /\ WorkInv /\ StageInv /\ ZombieInv /\ [Next]_vars => ZombieInv'
<1> SUFFICES ASSUME TypeOK, WorkInv, StageInv, ZombieInv, [Next]_vars PROVE ZombieInv'
  OBVIOUS
<1> USE DEF TypeOK, StoreTypeOK, ApiTypeOK, WorkerTypeOK, rows, storeVars,
        apiVars, workerVars, local, Rest, Goto, Release, Move, Append,
        SetTaskStatus, MoveWithEvent, Working, RuntimePhases,
        WorkInv, Holding, Known, Exclusive, StageInv, Rows, Dead, ZombieInv,
        ExecutionStates
<1>1. ASSUME NEW t \in Task, NEW D \in SUBSET Task, NEW B \in SUBSET D,
             CreateInsert(t, D, B), UNCHANGED workerVars
      PROVE  ZombieInv'
  BY <1>1 DEF CreateInsert
<1>2. ASSUME NEW t \in Task, CreateEnqueue(t), UNCHANGED workerVars
      PROVE  ZombieInv'
  BY <1>2, LegalMoves DEF CreateEnqueue
<1>3. ASSUME NEW t \in Task, CreateRefused(t), UNCHANGED workerVars
      PROVE  ZombieInv'
  BY <1>3 DEF CreateRefused
<1>4. ASSUME NEW t \in Task, CreateEvent(t), UNCHANGED workerVars
      PROVE  ZombieInv'
  BY <1>4 DEF CreateEvent
<1>5. ASSUME NEW t \in Task, CancelRead(t), UNCHANGED workerVars
      PROVE  ZombieInv'
  BY <1>5 DEF CancelRead
<1>6. ASSUME NEW t \in Task, CancelWrite(t), UNCHANGED workerVars
      PROVE  ZombieInv'
  BY <1>6, LegalMoves DEF CancelWrite
<1>7. ASSUME NEW t \in Task, CancelRefused(t), UNCHANGED workerVars
      PROVE  ZombieInv'
  BY <1>7 DEF CancelRefused
<1>8. ASSUME NEW t \in Task, CancelEvent(t), UNCHANGED workerVars
      PROVE  ZombieInv'
  BY <1>8 DEF CancelEvent
<1>9. ASSUME NEW t \in Task, Approve(t), UNCHANGED workerVars PROVE ZombieInv'
  BY <1>9, LegalMoves DEF Approve, Decide, Label
<1>10. ASSUME NEW t \in Task, Reject(t), UNCHANGED workerVars PROVE ZombieInv'
  BY <1>10, LegalMoves DEF Reject, Decide, Label
<1>11. ASSUME NEW t \in Task, ApiAbandon(t), UNCHANGED workerVars
      PROVE  ZombieInv'
  BY <1>11 DEF ApiAbandon
<1>12. ASSUME ResolveScan, UNCHANGED apiVars PROVE ZombieInv'
  BY <1>12 DEF ResolveScan, Candidates
<1>13. ASSUME ResolveNotDue, UNCHANGED apiVars PROVE ZombieInv'
  BY <1>13 DEF ResolveNotDue
<1>14. ASSUME ResolveDone, UNCHANGED apiVars PROVE ZombieInv'
  BY <1>14 DEF ResolveDone
<1>15. ASSUME NEW t \in Task, ResolveRead(t), UNCHANGED apiVars
      PROVE  ZombieInv'
  BY <1>15 DEF ResolveRead, Pipeable, BoundUpstreams
<1>16. ASSUME NEW t \in Task, ResolvePoison(t), UNCHANGED apiVars
      PROVE  ZombieInv'
  BY <1>16 DEF ResolvePoison
<1>17. ASSUME NEW t \in Task, ResolveWrite(t), UNCHANGED apiVars
      PROVE  ZombieInv'
  <2>1. CASE EnqueueDependent(t)
    BY <1>17, <2>1, LegalMoves, SMTT(30) DEF ResolveWrite, ResolveForget,
       EnqueueDependent, CancelDependent, Classify
  <2>2. CASE CancelDependent(t)
    BY <1>17, <2>2, LegalMoves, SMTT(30) DEF ResolveWrite, ResolveForget,
       EnqueueDependent, CancelDependent, Classify
  <2>3. CASE UNCHANGED << status, events, inputs, witness, classif >>
    BY <1>17, <2>3, LegalMoves, SMTT(30) DEF ResolveWrite, ResolveForget,
       EnqueueDependent, CancelDependent, Classify
  <2> QED
    BY <1>17, <2>1, <2>2, <2>3 DEF ResolveWrite
<1>18. ASSUME Start, UNCHANGED apiVars PROVE ZombieInv'
  BY <1>18 DEF Start
<1>19. ASSUME RecoverEvent, UNCHANGED apiVars PROVE ZombieInv'
  BY <1>19 DEF RecoverEvent
<1>20. ASSUME RecoverDone, UNCHANGED apiVars PROVE ZombieInv'
  BY <1>20 DEF RecoverDone, InWorker
<1>21. ASSUME NEW t \in Task, Recover(t), UNCHANGED apiVars PROVE ZombieInv'
  <2>1. CASE status[t] \in ExecutionStates
    BY <1>21, <2>1, LegalMoves, SMTT(30) DEF Recover, ExecutionStates
  <2>2. CASE status[t] \notin ExecutionStates
    BY <1>21, <2>2, LegalMoves, SMTT(30) DEF Recover, ExecutionStates
  <2> QED
    BY <2>1, <2>2
<1>22. ASSUME PollNothing, UNCHANGED apiVars PROVE ZombieInv'
  BY <1>22 DEF PollNothing
<1>23. ASSUME NEW t \in Task, Claim(t), UNCHANGED apiVars PROVE ZombieInv'
  <2>1. CASE phase'[Job] = "claimed"
    BY <1>23, <2>1, LegalMoves, SMTT(30) DEF Claim
  <2>2. CASE phase'[Job] # "claimed"
    BY <1>23, <2>2, LegalMoves, SMTT(30) DEF Claim
  <2> QED
    BY <2>1, <2>2
<1>24. ASSUME NEW e \in Exec, Quarantine(e), UNCHANGED apiVars PROVE ZombieInv'
  <2>1. CASE status[hold[e]] \in ExecutionStates
    BY <1>24, <2>1, SMTT(30) DEF Quarantine, ExecutionStates
  <2>2. CASE status[hold[e]] \notin ExecutionStates
    BY <1>24, <2>2, SMTT(30) DEF Quarantine, ExecutionStates
  <2> QED
    BY <2>1, <2>2
<1>25. ASSUME NEW e \in Exec, Refuse(e), UNCHANGED apiVars PROVE ZombieInv'
  BY <1>25 DEF Refuse, Classify
<1>26. ASSUME NEW e \in Exec, Derive(e), UNCHANGED apiVars PROVE ZombieInv'
  BY <1>26 DEF Derive, Classify
<1>27. ASSUME NEW e \in Exec, StartValidation(e), UNCHANGED apiVars
      PROVE  ZombieInv'
  BY <1>27 DEF StartValidation
<1>28. ASSUME NEW e \in Exec, ValidatePass(e), UNCHANGED apiVars
      PROVE  ZombieInv'
  BY <1>28 DEF ValidatePass
<1>29. ASSUME NEW e \in Exec, ValidateFail(e), UNCHANGED apiVars
      PROVE  ZombieInv'
  BY <1>29 DEF ValidateFail
<1>30. ASSUME NEW e \in Exec, EnterRunning(e), UNCHANGED apiVars
      PROVE  ZombieInv'
  BY <1>30, LegalMoves DEF EnterRunning
<1>31. ASSUME NEW e \in Exec, RunWorkflow(e), UNCHANGED apiVars
      PROVE  ZombieInv'
  BY <1>31 DEF RunWorkflow
<1>32. ASSUME NEW e \in Exec, RegisterOutputs(e), UNCHANGED apiVars
      PROVE  ZombieInv'
  BY <1>32 DEF RegisterOutputs
<1>33. ASSUME NEW e \in Exec, SetTaskOutputs(e), UNCHANGED apiVars
      PROVE  ZombieInv'
  BY <1>33 DEF SetTaskOutputs
<1>34. ASSUME NEW e \in Exec, RecordSample(e), UNCHANGED apiVars
      PROVE  ZombieInv'
  BY <1>34 DEF RecordSample, Sampled
<1>35. ASSUME NEW e \in Exec, RequestReview(e), UNCHANGED apiVars
      PROVE  ZombieInv'
  BY <1>35, LegalMoves DEF RequestReview
<1>36. ASSUME NEW e \in Exec, EnterAnalyzing(e), UNCHANGED apiVars
      PROVE  ZombieInv'
  BY <1>36, LegalMoves DEF EnterAnalyzing
<1>37. ASSUME NEW e \in Exec, Complete(e), UNCHANGED apiVars PROVE ZombieInv'
  BY <1>37, LegalMoves DEF Complete
<1>38. ASSUME NEW e \in Exec, Close(e), UNCHANGED apiVars PROVE ZombieInv'
  BY <1>38 DEF Close
<1>39. ASSUME NEW e \in Exec, MarkFailed(e), UNCHANGED apiVars PROVE ZombieInv'
  <2>1. CASE phase[e] = "failing"
    BY <1>39, <2>1, LegalMoves, SMTT(30) DEF MarkFailed, ExecutionStates
  <2>2. CASE phase[e] = "refusing"
    BY <1>39, <2>2, LegalMoves, SMTT(30) DEF MarkFailed, ExecutionStates
  <2> QED
    BY <1>39, <2>1, <2>2 DEF MarkFailed
<1>40. ASSUME NEW e \in Exec, FailedEvent(e), UNCHANGED apiVars
      PROVE  ZombieInv'
  <2>1. CASE phase[e] = "failed"
    BY <1>40, <2>1, SMTT(30) DEF FailedEvent
  <2>2. CASE phase[e] = "refused"
    BY <1>40, <2>2, SMTT(30) DEF FailedEvent
  <2> QED
    BY <1>40, <2>1, <2>2 DEF FailedEvent
<1>41. ASSUME NEW e \in Exec, FailureSample(e), UNCHANGED apiVars
      PROVE  ZombieInv'
  BY <1>41 DEF FailureSample, Sampled
<1>42. ASSUME NEW e \in Exec, Race(e), UNCHANGED apiVars PROVE ZombieInv'
  <2>1. CASE e = Job
    <3>1. /\ hold[Job] \in Task /\ phase[Job] \in RuntimePhases
          /\ phase[Job] # "closing"
      BY <1>42, <2>1 DEF Race
    <3>2. status[hold[Job]] \notin ExecutionStates
      BY <1>42, <2>1, <3>1, SMTT(30) DEF Race, Target, Legal, TRANSITIONS,
         States
    <3>3. /\ UNCHANGED << status, lossy, todo >>
          /\ phase'[Job] = "again"
      BY <1>42, <2>1 DEF Race
    <3> QED
      BY <3>1, <3>2, <3>3
  <2>2. CASE e # Job
    BY <1>42, <2>2, SMTT(30) DEF Race
  <2> QED
    BY <2>1, <2>2
<1>43. ASSUME NEW e \in Exec, FailBestEffort(e), UNCHANGED apiVars
      PROVE  ZombieInv'
  <2>1. CASE status[hold[e]] \in ExecutionStates /\ e = Job
    BY <1>43, <2>1, LegalMoves, SMTT(30) DEF FailBestEffort, ExecutionStates
  <2>2. CASE status[hold[e]] \in ExecutionStates /\ e # Job
    BY <1>43, <2>2, LegalMoves, SMTT(30) DEF FailBestEffort, ExecutionStates
  <2>3. CASE status[hold[e]] \notin ExecutionStates /\ e = Job
    BY <1>43, <2>3, LegalMoves, SMTT(30) DEF FailBestEffort, ExecutionStates
  <2>4. CASE status[hold[e]] \notin ExecutionStates /\ e # Job
    BY <1>43, <2>4, LegalMoves, SMTT(30) DEF FailBestEffort, ExecutionStates
  <2> QED
    BY <2>1, <2>2, <2>3, <2>4
<1>44. ASSUME NEW e \in Exec, FailBestEffortEvent(e), UNCHANGED apiVars
      PROVE  ZombieInv'
  BY <1>44 DEF FailBestEffortEvent
<1>45. ASSUME NEW e \in Exec, NEW t \in Task, EvalInsert(e, t), UNCHANGED
              apiVars
      PROVE  ZombieInv'
  BY <1>45 DEF EvalInsert
<1>46. ASSUME NEW e \in Exec, EvalQueue(e), UNCHANGED apiVars PROVE ZombieInv'
  BY <1>46, LegalMoves DEF EvalQueue
<1>47. ASSUME NEW e \in Exec, EvalClaim(e), UNCHANGED apiVars PROVE ZombieInv'
  <2>1. CASE fault \/ status[hold[e]] # "queued"
    BY <1>47, <2>1, LegalMoves, SMTT(30) DEF EvalClaim
  <2>2. CASE ~(fault \/ status[hold[e]] # "queued")
    BY <1>47, <2>2, LegalMoves, SMTT(30) DEF EvalClaim
  <2> QED
    BY <2>1, <2>2
<1>48. ASSUME NEW e \in Exec, EvalRaise(e), UNCHANGED apiVars PROVE ZombieInv'
  BY <1>48 DEF EvalRaise
<1>49. ASSUME NEW e \in Exec, CliStop(e), UNCHANGED apiVars PROVE ZombieInv'
  BY <1>49 DEF CliStop
<1>50. ASSUME Crash, UNCHANGED apiVars PROVE ZombieInv'
  BY <1>50 DEF Crash, InWorker
<1>51. ASSUME ResolveAbort, UNCHANGED apiVars PROVE ZombieInv'
  BY <1>51 DEF ResolveAbort, ResolveForget
<1>52. ASSUME NEW e \in Exec, Raise(e), UNCHANGED apiVars PROVE ZombieInv'
  BY <1>52 DEF Raise
<1>53. ASSUME NEW e \in Exec, LoseFailure(e), UNCHANGED apiVars
      PROVE  ZombieInv'
  BY <1>53 DEF LoseFailure
<1>54. CASE Latch \/ Backfill
  BY <1>54 DEF Latch, Backfill, Unclassified
<1>55. CASE UNCHANGED vars
  BY <1>55 DEF vars
<1> QED
  BY ONLY [Next]_vars, <1>1, <1>2, <1>3, <1>4, <1>5, <1>6, <1>7, <1>8,
     <1>9, <1>10, <1>11, <1>12, <1>13, <1>14, <1>15, <1>16, <1>17,
     <1>18, <1>19, <1>20, <1>21, <1>22, <1>23, <1>24, <1>25, <1>26,
     <1>27, <1>28, <1>29, <1>30, <1>31, <1>32, <1>33, <1>34, <1>35,
     <1>36, <1>37, <1>38, <1>39, <1>40, <1>41, <1>42, <1>43, <1>44,
     <1>45, <1>46, <1>47, <1>48, <1>49, <1>50, <1>51, <1>52, <1>53,
     <1>54, <1>55
     DEF Next, ApiStep, Creating, Cancelling, WorkerStep, JobStep, ResolverStep,
         RecoveryStep, ClaimStep, RuntimeStep, EvalStep, Disturbance

\* After a restart and its recovery no user row is left executing by nobody.
THEOREM NoZombieCorrect == Spec => []NoZombie
<1>1. TypeOK /\ ZombieInv => NoZombie
  BY DEF ZombieInv, NoZombie
<1> QED
  BY <1>1, InitZombie, NextZombie, TypeCorrect, WorkCorrect, StageCorrect, PTL
     DEF Spec

-----------------------------------------------------------------------------
(* Levels *)

\* A level once written is never changed.
Frozen == \A t \in Task : classif[t] # "null" => classif'[t] = classif[t]

\* Every writer of a level looks whether there is one.
LEMMA NextFrozen ==
  TypeOK /\ WorkInv /\ [Next]_vars => Frozen
<1> SUFFICES ASSUME TypeOK, WorkInv, [Next]_vars PROVE Frozen
  OBVIOUS
<1> USE DEF TypeOK, StoreTypeOK, ApiTypeOK, WorkerTypeOK, rows, storeVars,
        apiVars, workerVars, local, Rest, Goto, Release, Move, Append,
        SetTaskStatus, MoveWithEvent, Working, RuntimePhases,
        WorkInv, Holding, Known, Exclusive, StageInv, Rows, Dead, Frozen
<1>1. ASSUME NEW t \in Task, NEW D \in SUBSET Task, NEW B \in SUBSET D,
             CreateInsert(t, D, B), UNCHANGED workerVars
      PROVE  Frozen
  BY <1>1 DEF CreateInsert
<1>2. ASSUME NEW t \in Task, CreateEnqueue(t), UNCHANGED workerVars
      PROVE  Frozen
  BY <1>2, LegalMoves DEF CreateEnqueue
<1>3. ASSUME NEW t \in Task, CreateRefused(t), UNCHANGED workerVars
      PROVE  Frozen
  BY <1>3 DEF CreateRefused
<1>4. ASSUME NEW t \in Task, CreateEvent(t), UNCHANGED workerVars PROVE Frozen
  BY <1>4 DEF CreateEvent
<1>5. ASSUME NEW t \in Task, CancelRead(t), UNCHANGED workerVars PROVE Frozen
  BY <1>5 DEF CancelRead
<1>6. ASSUME NEW t \in Task, CancelWrite(t), UNCHANGED workerVars PROVE Frozen
  BY <1>6, LegalMoves DEF CancelWrite
<1>7. ASSUME NEW t \in Task, CancelRefused(t), UNCHANGED workerVars
      PROVE  Frozen
  BY <1>7 DEF CancelRefused
<1>8. ASSUME NEW t \in Task, CancelEvent(t), UNCHANGED workerVars PROVE Frozen
  BY <1>8 DEF CancelEvent
<1>9. ASSUME NEW t \in Task, Approve(t), UNCHANGED workerVars PROVE Frozen
  BY <1>9, LegalMoves DEF Approve, Decide, Label
<1>10. ASSUME NEW t \in Task, Reject(t), UNCHANGED workerVars PROVE Frozen
  BY <1>10, LegalMoves DEF Reject, Decide, Label
<1>11. ASSUME NEW t \in Task, ApiAbandon(t), UNCHANGED workerVars PROVE Frozen
  BY <1>11 DEF ApiAbandon
<1>12. ASSUME ResolveScan, UNCHANGED apiVars PROVE Frozen
  BY <1>12 DEF ResolveScan, Candidates
<1>13. ASSUME ResolveNotDue, UNCHANGED apiVars PROVE Frozen
  BY <1>13 DEF ResolveNotDue
<1>14. ASSUME ResolveDone, UNCHANGED apiVars PROVE Frozen
  BY <1>14 DEF ResolveDone
<1>15. ASSUME NEW t \in Task, ResolveRead(t), UNCHANGED apiVars PROVE Frozen
  BY <1>15 DEF ResolveRead, Pipeable, BoundUpstreams
<1>16. ASSUME NEW t \in Task, ResolvePoison(t), UNCHANGED apiVars PROVE Frozen
  BY <1>16 DEF ResolvePoison
<1>17. ASSUME NEW t \in Task, ResolveWrite(t), UNCHANGED apiVars PROVE Frozen
  <2>1. CASE EnqueueDependent(t)
    BY <1>17, <2>1, LegalMoves, SMTT(30) DEF ResolveWrite, ResolveForget,
       EnqueueDependent, CancelDependent, Classify
  <2>2. CASE CancelDependent(t)
    BY <1>17, <2>2, LegalMoves, SMTT(30) DEF ResolveWrite, ResolveForget,
       EnqueueDependent, CancelDependent, Classify
  <2>3. CASE UNCHANGED << status, events, inputs, witness, classif >>
    BY <1>17, <2>3, LegalMoves, SMTT(30) DEF ResolveWrite, ResolveForget,
       EnqueueDependent, CancelDependent, Classify
  <2> QED
    BY <1>17, <2>1, <2>2, <2>3 DEF ResolveWrite
<1>18. ASSUME Start, UNCHANGED apiVars PROVE Frozen
  BY <1>18 DEF Start
<1>19. ASSUME RecoverEvent, UNCHANGED apiVars PROVE Frozen
  BY <1>19 DEF RecoverEvent
<1>20. ASSUME RecoverDone, UNCHANGED apiVars PROVE Frozen
  BY <1>20 DEF RecoverDone, InWorker
<1>21. ASSUME NEW t \in Task, Recover(t), UNCHANGED apiVars PROVE Frozen
  <2>1. CASE status[t] \in ExecutionStates
    BY <1>21, <2>1, LegalMoves, SMTT(30) DEF Recover, ExecutionStates
  <2>2. CASE status[t] \notin ExecutionStates
    BY <1>21, <2>2, LegalMoves, SMTT(30) DEF Recover, ExecutionStates
  <2> QED
    BY <2>1, <2>2
<1>22. ASSUME PollNothing, UNCHANGED apiVars PROVE Frozen
  BY <1>22 DEF PollNothing
<1>23. ASSUME NEW t \in Task, Claim(t), UNCHANGED apiVars PROVE Frozen
  <2>1. CASE phase'[Job] = "claimed"
    BY <1>23, <2>1, LegalMoves, SMTT(30) DEF Claim
  <2>2. CASE phase'[Job] # "claimed"
    BY <1>23, <2>2, LegalMoves, SMTT(30) DEF Claim
  <2> QED
    BY <2>1, <2>2
<1>24. ASSUME NEW e \in Exec, Quarantine(e), UNCHANGED apiVars PROVE Frozen
  <2>1. CASE status[hold[e]] \in ExecutionStates
    BY <1>24, <2>1, SMTT(30) DEF Quarantine, ExecutionStates
  <2>2. CASE status[hold[e]] \notin ExecutionStates
    BY <1>24, <2>2, SMTT(30) DEF Quarantine, ExecutionStates
  <2> QED
    BY <2>1, <2>2
<1>25. ASSUME NEW e \in Exec, Refuse(e), UNCHANGED apiVars PROVE Frozen
  BY <1>25 DEF Refuse, Classify
<1>26. ASSUME NEW e \in Exec, Derive(e), UNCHANGED apiVars PROVE Frozen
  BY <1>26 DEF Derive, Classify
<1>27. ASSUME NEW e \in Exec, StartValidation(e), UNCHANGED apiVars
      PROVE  Frozen
  BY <1>27 DEF StartValidation
<1>28. ASSUME NEW e \in Exec, ValidatePass(e), UNCHANGED apiVars PROVE Frozen
  BY <1>28 DEF ValidatePass
<1>29. ASSUME NEW e \in Exec, ValidateFail(e), UNCHANGED apiVars PROVE Frozen
  BY <1>29 DEF ValidateFail
<1>30. ASSUME NEW e \in Exec, EnterRunning(e), UNCHANGED apiVars PROVE Frozen
  BY <1>30, LegalMoves DEF EnterRunning
<1>31. ASSUME NEW e \in Exec, RunWorkflow(e), UNCHANGED apiVars PROVE Frozen
  BY <1>31 DEF RunWorkflow
<1>32. ASSUME NEW e \in Exec, RegisterOutputs(e), UNCHANGED apiVars
      PROVE  Frozen
  BY <1>32 DEF RegisterOutputs
<1>33. ASSUME NEW e \in Exec, SetTaskOutputs(e), UNCHANGED apiVars PROVE Frozen
  BY <1>33 DEF SetTaskOutputs
<1>34. ASSUME NEW e \in Exec, RecordSample(e), UNCHANGED apiVars PROVE Frozen
  BY <1>34 DEF RecordSample, Sampled
<1>35. ASSUME NEW e \in Exec, RequestReview(e), UNCHANGED apiVars PROVE Frozen
  BY <1>35, LegalMoves DEF RequestReview
<1>36. ASSUME NEW e \in Exec, EnterAnalyzing(e), UNCHANGED apiVars PROVE Frozen
  BY <1>36, LegalMoves DEF EnterAnalyzing
<1>37. ASSUME NEW e \in Exec, Complete(e), UNCHANGED apiVars PROVE Frozen
  BY <1>37, LegalMoves DEF Complete
<1>38. ASSUME NEW e \in Exec, Close(e), UNCHANGED apiVars PROVE Frozen
  BY <1>38 DEF Close
<1>39. ASSUME NEW e \in Exec, MarkFailed(e), UNCHANGED apiVars PROVE Frozen
  <2>1. CASE phase[e] = "failing"
    BY <1>39, <2>1, LegalMoves, SMTT(30) DEF MarkFailed, ExecutionStates
  <2>2. CASE phase[e] = "refusing"
    BY <1>39, <2>2, LegalMoves, SMTT(30) DEF MarkFailed, ExecutionStates
  <2> QED
    BY <1>39, <2>1, <2>2 DEF MarkFailed
<1>40. ASSUME NEW e \in Exec, FailedEvent(e), UNCHANGED apiVars PROVE Frozen
  <2>1. CASE phase[e] = "failed"
    BY <1>40, <2>1, SMTT(30) DEF FailedEvent
  <2>2. CASE phase[e] = "refused"
    BY <1>40, <2>2, SMTT(30) DEF FailedEvent
  <2> QED
    BY <1>40, <2>1, <2>2 DEF FailedEvent
<1>41. ASSUME NEW e \in Exec, FailureSample(e), UNCHANGED apiVars PROVE Frozen
  BY <1>41 DEF FailureSample, Sampled
<1>42. ASSUME NEW e \in Exec, Race(e), UNCHANGED apiVars PROVE Frozen
  <2>1. CASE e = Job
    BY <1>42, <2>1, SMTT(30) DEF Race
  <2>2. CASE e # Job
    BY <1>42, <2>2, SMTT(30) DEF Race
  <2> QED
    BY <2>1, <2>2
<1>43. ASSUME NEW e \in Exec, FailBestEffort(e), UNCHANGED apiVars PROVE Frozen
  <2>1. CASE status[hold[e]] \in ExecutionStates /\ e = Job
    BY <1>43, <2>1, LegalMoves, SMTT(30) DEF FailBestEffort, ExecutionStates
  <2>2. CASE status[hold[e]] \in ExecutionStates /\ e # Job
    BY <1>43, <2>2, LegalMoves, SMTT(30) DEF FailBestEffort, ExecutionStates
  <2>3. CASE status[hold[e]] \notin ExecutionStates /\ e = Job
    BY <1>43, <2>3, LegalMoves, SMTT(30) DEF FailBestEffort, ExecutionStates
  <2>4. CASE status[hold[e]] \notin ExecutionStates /\ e # Job
    BY <1>43, <2>4, LegalMoves, SMTT(30) DEF FailBestEffort, ExecutionStates
  <2> QED
    BY <2>1, <2>2, <2>3, <2>4
<1>44. ASSUME NEW e \in Exec, FailBestEffortEvent(e), UNCHANGED apiVars
      PROVE  Frozen
  BY <1>44 DEF FailBestEffortEvent
<1>45. ASSUME NEW e \in Exec, NEW t \in Task, EvalInsert(e, t), UNCHANGED
              apiVars
      PROVE  Frozen
  BY <1>45 DEF EvalInsert
<1>46. ASSUME NEW e \in Exec, EvalQueue(e), UNCHANGED apiVars PROVE Frozen
  BY <1>46, LegalMoves DEF EvalQueue
<1>47. ASSUME NEW e \in Exec, EvalClaim(e), UNCHANGED apiVars PROVE Frozen
  <2>1. CASE fault \/ status[hold[e]] # "queued"
    BY <1>47, <2>1, LegalMoves, SMTT(30) DEF EvalClaim
  <2>2. CASE ~(fault \/ status[hold[e]] # "queued")
    BY <1>47, <2>2, LegalMoves, SMTT(30) DEF EvalClaim
  <2> QED
    BY <2>1, <2>2
<1>48. ASSUME NEW e \in Exec, EvalRaise(e), UNCHANGED apiVars PROVE Frozen
  BY <1>48 DEF EvalRaise
<1>49. ASSUME NEW e \in Exec, CliStop(e), UNCHANGED apiVars PROVE Frozen
  BY <1>49 DEF CliStop
<1>50. ASSUME Crash, UNCHANGED apiVars PROVE Frozen
  BY <1>50 DEF Crash, InWorker
<1>51. ASSUME ResolveAbort, UNCHANGED apiVars PROVE Frozen
  BY <1>51 DEF ResolveAbort, ResolveForget
<1>52. ASSUME NEW e \in Exec, Raise(e), UNCHANGED apiVars PROVE Frozen
  BY <1>52 DEF Raise
<1>53. ASSUME NEW e \in Exec, LoseFailure(e), UNCHANGED apiVars PROVE Frozen
  BY <1>53 DEF LoseFailure
<1>54. CASE Latch \/ Backfill
  BY <1>54 DEF Latch, Backfill, Unclassified
<1>55. CASE UNCHANGED vars
  BY <1>55 DEF vars
<1> QED
  BY ONLY [Next]_vars, <1>1, <1>2, <1>3, <1>4, <1>5, <1>6, <1>7, <1>8,
     <1>9, <1>10, <1>11, <1>12, <1>13, <1>14, <1>15, <1>16, <1>17,
     <1>18, <1>19, <1>20, <1>21, <1>22, <1>23, <1>24, <1>25, <1>26,
     <1>27, <1>28, <1>29, <1>30, <1>31, <1>32, <1>33, <1>34, <1>35,
     <1>36, <1>37, <1>38, <1>39, <1>40, <1>41, <1>42, <1>43, <1>44,
     <1>45, <1>46, <1>47, <1>48, <1>49, <1>50, <1>51, <1>52, <1>53,
     <1>54, <1>55
     DEF Next, ApiStep, Creating, Cancelling, WorkerStep, JobStep, ResolverStep,
         RecoveryStep, ClaimStep, RuntimeStep, EvalStep, Disturbance

\* The level of a task is written once, whoever comes to write it
\* (repos.py set_task_data_classification).
THEOREM ImmutableCorrect == Spec => LevelIsImmutable
<1>1. TypeOK /\ WorkInv /\ [Next]_vars => [Frozen]_vars
  BY NextFrozen
<1> QED
  BY <1>1, TypeCorrect, WorkCorrect, PTL DEF Spec, LevelIsImmutable, Frozen

\* Before the level is derived there is none, and afterwards there is one.
LevelInv ==
    /\ LevelIsDerived
    /\ ContentIsClassified
    /\ \A t \in Task : status[t] = "absent" =>
          classif[t] = "null" /\ artifact[t] = "none" /\ sample[t] = "none"
    /\ \A e \in Exec : phase[e] \in RuntimePhases \ {"claimed"} => classif[hold[e]] # "null"
    /\ \A t \in Task : status[t] \in {"waiting_review", "completed"} => classif[t] # "null"

\* The rows of an earlier release are classified or not yet executed.
LEMMA InitLevel == Init => LevelInv
<1> SUFFICES ASSUME Init PROVE LevelInv
  OBVIOUS
<1>1. \A t \in Task : /\ t \in LegacyDone => classif[t] # "null"
                      /\ t \notin LegacyDone => classif[t] = "null"
                      /\ artifact[t] # "none" => t \in LegacyDone
                      /\ sample[t] = "none"
  BY DEF Init
<1>2. \A t \in Task :
         /\ t \in LegacyDone => status[t] \in {"completed", "failed"}
         /\ t \notin LegacyDone => status[t] \in {"created", "queued", "absent"}
  BY DEF Init
<1>3. \A e \in Exec : phase[e] \in {"idle", "down"}
  BY DEF Init
<1> QED
  BY <1>1, <1>2, <1>3
     DEF LevelInv, LevelIsDerived, ContentIsClassified, RuntimePhases

\* Threads classify before they produce, and nobody else classifies what may
\* still be executed.
LEMMA NextLevel ==
  TypeOK /\ WorkInv /\ StageInv /\ LevelInv /\ [Next]_vars => LevelInv'
<1> SUFFICES ASSUME TypeOK, WorkInv, StageInv, LevelInv, [Next]_vars PROVE LevelInv'
  OBVIOUS
<1> USE DEF TypeOK, StoreTypeOK, ApiTypeOK, WorkerTypeOK, rows, storeVars,
        apiVars, workerVars, local, Rest, Goto, Release, Move, Append,
        SetTaskStatus, MoveWithEvent, Working, RuntimePhases,
        WorkInv, Holding, Known, Exclusive, StageInv, Rows, Dead, LevelInv,
        LevelIsDerived, ContentIsClassified, ExecutionStates
<1>1. ASSUME NEW t \in Task, NEW D \in SUBSET Task, NEW B \in SUBSET D,
             CreateInsert(t, D, B), UNCHANGED workerVars
      PROVE  LevelInv'
  BY <1>1 DEF CreateInsert, Exists
<1>2. ASSUME NEW t \in Task, CreateEnqueue(t), UNCHANGED workerVars
      PROVE  LevelInv'
  BY <1>2, LegalMoves DEF CreateEnqueue
<1>3. ASSUME NEW t \in Task, CreateRefused(t), UNCHANGED workerVars
      PROVE  LevelInv'
  BY <1>3 DEF CreateRefused
<1>4. ASSUME NEW t \in Task, CreateEvent(t), UNCHANGED workerVars
      PROVE  LevelInv'
  BY <1>4 DEF CreateEvent
<1>5. ASSUME NEW t \in Task, CancelRead(t), UNCHANGED workerVars
      PROVE  LevelInv'
  BY <1>5 DEF CancelRead
<1>6. ASSUME NEW t \in Task, CancelWrite(t), UNCHANGED workerVars
      PROVE  LevelInv'
  BY <1>6, LegalMoves DEF CancelWrite
<1>7. ASSUME NEW t \in Task, CancelRefused(t), UNCHANGED workerVars
      PROVE  LevelInv'
  BY <1>7 DEF CancelRefused
<1>8. ASSUME NEW t \in Task, CancelEvent(t), UNCHANGED workerVars
      PROVE  LevelInv'
  BY <1>8 DEF CancelEvent
<1>9. ASSUME NEW t \in Task, Approve(t), UNCHANGED workerVars PROVE LevelInv'
  BY <1>9, LegalMoves DEF Approve, Decide, Label
<1>10. ASSUME NEW t \in Task, Reject(t), UNCHANGED workerVars PROVE LevelInv'
  BY <1>10, LegalMoves DEF Reject, Decide, Label
<1>11. ASSUME NEW t \in Task, ApiAbandon(t), UNCHANGED workerVars
      PROVE  LevelInv'
  BY <1>11 DEF ApiAbandon
<1>12. ASSUME ResolveScan, UNCHANGED apiVars PROVE LevelInv'
  BY <1>12 DEF ResolveScan, Candidates
<1>13. ASSUME ResolveNotDue, UNCHANGED apiVars PROVE LevelInv'
  BY <1>13 DEF ResolveNotDue
<1>14. ASSUME ResolveDone, UNCHANGED apiVars PROVE LevelInv'
  BY <1>14 DEF ResolveDone
<1>15. ASSUME NEW t \in Task, ResolveRead(t), UNCHANGED apiVars PROVE LevelInv'
  BY <1>15 DEF ResolveRead, Pipeable, BoundUpstreams
<1>16. ASSUME NEW t \in Task, ResolvePoison(t), UNCHANGED apiVars
      PROVE  LevelInv'
  BY <1>16 DEF ResolvePoison
<1>17. ASSUME NEW t \in Task, ResolveWrite(t), UNCHANGED apiVars
      PROVE  LevelInv'
  <2>1. CASE EnqueueDependent(t)
    BY <1>17, <2>1, LegalMoves, SMTT(30) DEF ResolveWrite, ResolveForget,
       EnqueueDependent, CancelDependent, Classify
  <2>2. CASE CancelDependent(t)
    BY <1>17, <2>2, LegalMoves, SMTT(30) DEF ResolveWrite, ResolveForget,
       EnqueueDependent, CancelDependent, Classify
  <2>3. CASE UNCHANGED << status, events, inputs, witness, classif >>
    BY <1>17, <2>3, LegalMoves, SMTT(30) DEF ResolveWrite, ResolveForget,
       EnqueueDependent, CancelDependent, Classify
  <2> QED
    BY <1>17, <2>1, <2>2, <2>3 DEF ResolveWrite
<1>18. ASSUME Start, UNCHANGED apiVars PROVE LevelInv'
  BY <1>18 DEF Start
<1>19. ASSUME RecoverEvent, UNCHANGED apiVars PROVE LevelInv'
  BY <1>19 DEF RecoverEvent
<1>20. ASSUME RecoverDone, UNCHANGED apiVars PROVE LevelInv'
  BY <1>20 DEF RecoverDone, InWorker
<1>21. ASSUME NEW t \in Task, Recover(t), UNCHANGED apiVars PROVE LevelInv'
  <2>1. CASE status[t] \in ExecutionStates
    BY <1>21, <2>1, LegalMoves, SMTT(30) DEF Recover, ExecutionStates
  <2>2. CASE status[t] \notin ExecutionStates
    BY <1>21, <2>2, LegalMoves, SMTT(30) DEF Recover, ExecutionStates
  <2> QED
    BY <2>1, <2>2
<1>22. ASSUME PollNothing, UNCHANGED apiVars PROVE LevelInv'
  BY <1>22 DEF PollNothing
<1>23. ASSUME NEW t \in Task, Claim(t), UNCHANGED apiVars PROVE LevelInv'
  <2>1. CASE phase'[Job] = "claimed"
    BY <1>23, <2>1, LegalMoves, SMTT(30) DEF Claim
  <2>2. CASE phase'[Job] # "claimed"
    BY <1>23, <2>2, LegalMoves, SMTT(30) DEF Claim
  <2> QED
    BY <2>1, <2>2
<1>24. ASSUME NEW e \in Exec, Quarantine(e), UNCHANGED apiVars PROVE LevelInv'
  <2>1. CASE status[hold[e]] \in ExecutionStates
    BY <1>24, <2>1, SMTT(30) DEF Quarantine, ExecutionStates
  <2>2. CASE status[hold[e]] \notin ExecutionStates
    BY <1>24, <2>2, SMTT(30) DEF Quarantine, ExecutionStates
  <2> QED
    BY <2>1, <2>2
<1>25. ASSUME NEW e \in Exec, Refuse(e), UNCHANGED apiVars PROVE LevelInv'
  BY <1>25 DEF Refuse, Classify
<1>26. ASSUME NEW e \in Exec, Derive(e), UNCHANGED apiVars PROVE LevelInv'
  BY <1>26 DEF Derive, Classify
<1>27. ASSUME NEW e \in Exec, StartValidation(e), UNCHANGED apiVars
      PROVE  LevelInv'
  BY <1>27 DEF StartValidation
<1>28. ASSUME NEW e \in Exec, ValidatePass(e), UNCHANGED apiVars
      PROVE  LevelInv'
  BY <1>28 DEF ValidatePass
<1>29. ASSUME NEW e \in Exec, ValidateFail(e), UNCHANGED apiVars
      PROVE  LevelInv'
  BY <1>29 DEF ValidateFail
<1>30. ASSUME NEW e \in Exec, EnterRunning(e), UNCHANGED apiVars
      PROVE  LevelInv'
  BY <1>30, LegalMoves DEF EnterRunning
<1>31. ASSUME NEW e \in Exec, RunWorkflow(e), UNCHANGED apiVars PROVE LevelInv'
  BY <1>31 DEF RunWorkflow
<1>32. ASSUME NEW e \in Exec, RegisterOutputs(e), UNCHANGED apiVars
      PROVE  LevelInv'
  BY <1>32 DEF RegisterOutputs
<1>33. ASSUME NEW e \in Exec, SetTaskOutputs(e), UNCHANGED apiVars
      PROVE  LevelInv'
  BY <1>33 DEF SetTaskOutputs
<1>34. ASSUME NEW e \in Exec, RecordSample(e), UNCHANGED apiVars
      PROVE  LevelInv'
  BY <1>34 DEF RecordSample, Sampled
<1>35. ASSUME NEW e \in Exec, RequestReview(e), UNCHANGED apiVars
      PROVE  LevelInv'
  BY <1>35, LegalMoves DEF RequestReview
<1>36. ASSUME NEW e \in Exec, EnterAnalyzing(e), UNCHANGED apiVars
      PROVE  LevelInv'
  BY <1>36, LegalMoves DEF EnterAnalyzing
<1>37. ASSUME NEW e \in Exec, Complete(e), UNCHANGED apiVars PROVE LevelInv'
  BY <1>37, LegalMoves DEF Complete
<1>38. ASSUME NEW e \in Exec, Close(e), UNCHANGED apiVars PROVE LevelInv'
  BY <1>38 DEF Close
<1>39. ASSUME NEW e \in Exec, MarkFailed(e), UNCHANGED apiVars PROVE LevelInv'
  <2>1. CASE phase[e] = "failing"
    BY <1>39, <2>1, LegalMoves, SMTT(30) DEF MarkFailed, ExecutionStates
  <2>2. CASE phase[e] = "refusing"
    BY <1>39, <2>2, LegalMoves, SMTT(30) DEF MarkFailed, ExecutionStates
  <2> QED
    BY <1>39, <2>1, <2>2 DEF MarkFailed
<1>40. ASSUME NEW e \in Exec, FailedEvent(e), UNCHANGED apiVars PROVE LevelInv'
  <2>1. CASE phase[e] = "failed"
    BY <1>40, <2>1, SMTT(30) DEF FailedEvent
  <2>2. CASE phase[e] = "refused"
    BY <1>40, <2>2, SMTT(30) DEF FailedEvent
  <2> QED
    BY <1>40, <2>1, <2>2 DEF FailedEvent
<1>41. ASSUME NEW e \in Exec, FailureSample(e), UNCHANGED apiVars
      PROVE  LevelInv'
  BY <1>41 DEF FailureSample, Sampled
<1>42. ASSUME NEW e \in Exec, Race(e), UNCHANGED apiVars PROVE LevelInv'
  <2>1. CASE e = Job
    BY <1>42, <2>1, SMTT(30) DEF Race
  <2>2. CASE e # Job
    BY <1>42, <2>2, SMTT(30) DEF Race
  <2> QED
    BY <2>1, <2>2
<1>43. ASSUME NEW e \in Exec, FailBestEffort(e), UNCHANGED apiVars
      PROVE  LevelInv'
  <2>1. CASE status[hold[e]] \in ExecutionStates /\ e = Job
    BY <1>43, <2>1, LegalMoves, SMTT(30) DEF FailBestEffort, ExecutionStates
  <2>2. CASE status[hold[e]] \in ExecutionStates /\ e # Job
    BY <1>43, <2>2, LegalMoves, SMTT(30) DEF FailBestEffort, ExecutionStates
  <2>3. CASE status[hold[e]] \notin ExecutionStates /\ e = Job
    BY <1>43, <2>3, LegalMoves, SMTT(30) DEF FailBestEffort, ExecutionStates
  <2>4. CASE status[hold[e]] \notin ExecutionStates /\ e # Job
    BY <1>43, <2>4, LegalMoves, SMTT(30) DEF FailBestEffort, ExecutionStates
  <2> QED
    BY <2>1, <2>2, <2>3, <2>4
<1>44. ASSUME NEW e \in Exec, FailBestEffortEvent(e), UNCHANGED apiVars
      PROVE  LevelInv'
  BY <1>44 DEF FailBestEffortEvent
<1>45. ASSUME NEW e \in Exec, NEW t \in Task, EvalInsert(e, t), UNCHANGED
              apiVars
      PROVE  LevelInv'
  BY <1>45 DEF EvalInsert
<1>46. ASSUME NEW e \in Exec, EvalQueue(e), UNCHANGED apiVars PROVE LevelInv'
  BY <1>46, LegalMoves DEF EvalQueue
<1>47. ASSUME NEW e \in Exec, EvalClaim(e), UNCHANGED apiVars PROVE LevelInv'
  <2>1. CASE fault \/ status[hold[e]] # "queued"
    BY <1>47, <2>1, LegalMoves, SMTT(30) DEF EvalClaim
  <2>2. CASE ~(fault \/ status[hold[e]] # "queued")
    BY <1>47, <2>2, LegalMoves, SMTT(30) DEF EvalClaim
  <2> QED
    BY <2>1, <2>2
<1>48. ASSUME NEW e \in Exec, EvalRaise(e), UNCHANGED apiVars PROVE LevelInv'
  BY <1>48 DEF EvalRaise
<1>49. ASSUME NEW e \in Exec, CliStop(e), UNCHANGED apiVars PROVE LevelInv'
  BY <1>49 DEF CliStop
<1>50. ASSUME Crash, UNCHANGED apiVars PROVE LevelInv'
  BY <1>50 DEF Crash, InWorker
<1>51. ASSUME ResolveAbort, UNCHANGED apiVars PROVE LevelInv'
  BY <1>51 DEF ResolveAbort, ResolveForget
<1>52. ASSUME NEW e \in Exec, Raise(e), UNCHANGED apiVars PROVE LevelInv'
  BY <1>52 DEF Raise
<1>53. ASSUME NEW e \in Exec, LoseFailure(e), UNCHANGED apiVars PROVE LevelInv'
  BY <1>53 DEF LoseFailure
<1>54. CASE Latch \/ Backfill
  <2>1. CASE Latch
    BY <2>1 DEF Latch
  <2>2. CASE Backfill
    <3>1. PICK level \in [Task -> Levels] :
             classif' = [t \in Task |-> IF Unclassified(t) THEN level[t]
                                        ELSE classif[t]]
      BY <2>2 DEF Backfill
    <3>2. /\ UNCHANGED << status, artifact, sample, phase, hold >>
          /\ classif' \in [Task -> Levels \cup {"null"}]
      BY <2>2, <3>1 DEF Backfill
    <3>3. ASSUME NEW t \in Task
          PROVE  /\ classif[t] # "null" => classif'[t] = classif[t]
                 /\ status[t] \in {"absent", "created", "queued"} \cup ExecutionStates
                       => classif'[t] = classif[t]
      BY <3>1, TerminalStates DEF Unclassified
    <3>4. LevelIsDerived' /\ ContentIsClassified'
      BY <3>2, <3>3
    <3> QED
      BY <3>2, <3>3, <3>4
  <2> QED
    BY <1>54, <2>1, <2>2
<1>55. CASE UNCHANGED vars
  BY <1>55 DEF vars
<1> QED
  BY ONLY [Next]_vars, <1>1, <1>2, <1>3, <1>4, <1>5, <1>6, <1>7, <1>8,
     <1>9, <1>10, <1>11, <1>12, <1>13, <1>14, <1>15, <1>16, <1>17,
     <1>18, <1>19, <1>20, <1>21, <1>22, <1>23, <1>24, <1>25, <1>26,
     <1>27, <1>28, <1>29, <1>30, <1>31, <1>32, <1>33, <1>34, <1>35,
     <1>36, <1>37, <1>38, <1>39, <1>40, <1>41, <1>42, <1>43, <1>44,
     <1>45, <1>46, <1>47, <1>48, <1>49, <1>50, <1>51, <1>52, <1>53,
     <1>54, <1>55
     DEF Next, ApiStep, Creating, Cancelling, WorkerStep, JobStep, ResolverStep,
         RecoveryStep, ClaimStep, RuntimeStep, EvalStep, Disturbance

\* No artifact and no sample of a task precedes its level (ADR-0025).
THEOREM ClassifiedCorrect == Spec => []ContentIsClassified
<1>1. LevelInv => ContentIsClassified
  BY DEF LevelInv
<1> QED
  BY <1>1, InitLevel, NextLevel, TypeCorrect, WorkCorrect, StageCorrect, PTL
     DEF Spec

\* Nobody pre-empts the level a task derives when it is executed.
THEOREM DerivedCorrect == Spec => []LevelIsDerived
<1>1. LevelInv => LevelIsDerived
  BY DEF LevelInv
<1> QED
  BY <1>1, InitLevel, NextLevel, TypeCorrect, WorkCorrect, StageCorrect, PTL
     DEF Spec

-----------------------------------------------------------------------------
(* Labels *)

Verdicts == {"review_approved", "review_rejected"}

\* A thread that may still write a sample works on an undecided task.
LabelInv ==
    /\ LabelIsVerdict
    /\ \A e \in Exec :
          phase[e] \in RuntimePhases \ {"closing"} /\ hold[e] \in Task
             => events[hold[e]] \cap Verdicts = {}

\* There are no samples and no reviews at first.
LEMMA InitLabel == Init => LabelInv
BY DEF Init, LabelInv, LabelIsVerdict, Verdicts, RuntimePhases

\* A label is written by the review it names.
LEMMA NextLabel ==
  TypeOK /\ WorkInv /\ StageInv /\ DecisionInv /\ LabelInv /\ [Next]_vars => LabelInv'
<1> SUFFICES ASSUME TypeOK, WorkInv, StageInv, DecisionInv, LabelInv, [Next]_vars PROVE LabelInv'
  OBVIOUS
<1> USE DEF TypeOK, StoreTypeOK, ApiTypeOK, WorkerTypeOK, rows, storeVars,
        apiVars, workerVars, local, Rest, Goto, Release, Move, Append,
        SetTaskStatus, MoveWithEvent, Working, RuntimePhases,
        WorkInv, Holding, Known, Exclusive, StageInv, Rows, Dead, LabelInv,
        LabelIsVerdict, Verdicts
<1>1. ASSUME NEW t \in Task, NEW D \in SUBSET Task, NEW B \in SUBSET D,
             CreateInsert(t, D, B), UNCHANGED workerVars
      PROVE  LabelInv'
  BY <1>1 DEF CreateInsert
<1>2. ASSUME NEW t \in Task, CreateEnqueue(t), UNCHANGED workerVars
      PROVE  LabelInv'
  BY <1>2, LegalMoves DEF CreateEnqueue
<1>3. ASSUME NEW t \in Task, CreateRefused(t), UNCHANGED workerVars
      PROVE  LabelInv'
  BY <1>3 DEF CreateRefused
<1>4. ASSUME NEW t \in Task, CreateEvent(t), UNCHANGED workerVars
      PROVE  LabelInv'
  BY <1>4 DEF CreateEvent
<1>5. ASSUME NEW t \in Task, CancelRead(t), UNCHANGED workerVars
      PROVE  LabelInv'
  BY <1>5 DEF CancelRead
<1>6. ASSUME NEW t \in Task, CancelWrite(t), UNCHANGED workerVars
      PROVE  LabelInv'
  BY <1>6, LegalMoves DEF CancelWrite
<1>7. ASSUME NEW t \in Task, CancelRefused(t), UNCHANGED workerVars
      PROVE  LabelInv'
  BY <1>7 DEF CancelRefused
<1>8. ASSUME NEW t \in Task, CancelEvent(t), UNCHANGED workerVars
      PROVE  LabelInv'
  BY <1>8 DEF CancelEvent
<1>9. ASSUME NEW t \in Task, Approve(t), UNCHANGED workerVars PROVE LabelInv'
  BY <1>9, LegalMoves DEF Approve, Decide, Label
<1>10. ASSUME NEW t \in Task, Reject(t), UNCHANGED workerVars PROVE LabelInv'
  BY <1>10, LegalMoves DEF Reject, Decide, Label
<1>11. ASSUME NEW t \in Task, ApiAbandon(t), UNCHANGED workerVars
      PROVE  LabelInv'
  BY <1>11 DEF ApiAbandon
<1>12. ASSUME ResolveScan, UNCHANGED apiVars PROVE LabelInv'
  BY <1>12 DEF ResolveScan, Candidates
<1>13. ASSUME ResolveNotDue, UNCHANGED apiVars PROVE LabelInv'
  BY <1>13 DEF ResolveNotDue
<1>14. ASSUME ResolveDone, UNCHANGED apiVars PROVE LabelInv'
  BY <1>14 DEF ResolveDone
<1>15. ASSUME NEW t \in Task, ResolveRead(t), UNCHANGED apiVars PROVE LabelInv'
  BY <1>15 DEF ResolveRead, Pipeable, BoundUpstreams
<1>16. ASSUME NEW t \in Task, ResolvePoison(t), UNCHANGED apiVars
      PROVE  LabelInv'
  BY <1>16 DEF ResolvePoison
<1>17. ASSUME NEW t \in Task, ResolveWrite(t), UNCHANGED apiVars
      PROVE  LabelInv'
  <2>1. CASE EnqueueDependent(t)
    BY <1>17, <2>1, LegalMoves, SMTT(30) DEF ResolveWrite, ResolveForget,
       EnqueueDependent, CancelDependent, Classify
  <2>2. CASE CancelDependent(t)
    BY <1>17, <2>2, LegalMoves, SMTT(30) DEF ResolveWrite, ResolveForget,
       EnqueueDependent, CancelDependent, Classify
  <2>3. CASE UNCHANGED << status, events, inputs, witness, classif >>
    BY <1>17, <2>3, LegalMoves, SMTT(30) DEF ResolveWrite, ResolveForget,
       EnqueueDependent, CancelDependent, Classify
  <2> QED
    BY <1>17, <2>1, <2>2, <2>3 DEF ResolveWrite
<1>18. ASSUME Start, UNCHANGED apiVars PROVE LabelInv'
  BY <1>18 DEF Start
<1>19. ASSUME RecoverEvent, UNCHANGED apiVars PROVE LabelInv'
  BY <1>19 DEF RecoverEvent
<1>20. ASSUME RecoverDone, UNCHANGED apiVars PROVE LabelInv'
  BY <1>20 DEF RecoverDone, InWorker
<1>21. ASSUME NEW t \in Task, Recover(t), UNCHANGED apiVars PROVE LabelInv'
  <2>1. CASE status[t] \in ExecutionStates
    BY <1>21, <2>1, LegalMoves, SMTT(30) DEF Recover, ExecutionStates
  <2>2. CASE status[t] \notin ExecutionStates
    BY <1>21, <2>2, LegalMoves, SMTT(30) DEF Recover, ExecutionStates
  <2> QED
    BY <2>1, <2>2
<1>22. ASSUME PollNothing, UNCHANGED apiVars PROVE LabelInv'
  BY <1>22 DEF PollNothing
<1>23. ASSUME NEW t \in Task, Claim(t), UNCHANGED apiVars PROVE LabelInv'
  <2>1. CASE phase'[Job] = "claimed"
    <3>1. events[t] \cap Verdicts = {}
      BY <1>23, <2>1, LegalMoves DEF Claim, DecisionInv
    <3>2. /\ UNCHANGED << events, sample >> /\ hold' = [hold EXCEPT ![Job] = t]
          /\ phase' = [phase EXCEPT ![Job] = "claimed"]
      BY <1>23, <2>1 DEF Claim
    <3> QED
      BY <3>1, <3>2
  <2>2. CASE phase'[Job] # "claimed"
    BY <1>23, <2>2, LegalMoves, SMTT(30) DEF Claim
  <2> QED
    BY <2>1, <2>2
<1>24. ASSUME NEW e \in Exec, Quarantine(e), UNCHANGED apiVars PROVE LabelInv'
  <2>1. CASE status[hold[e]] \in ExecutionStates
    BY <1>24, <2>1, SMTT(30) DEF Quarantine, ExecutionStates
  <2>2. CASE status[hold[e]] \notin ExecutionStates
    BY <1>24, <2>2, SMTT(30) DEF Quarantine, ExecutionStates
  <2> QED
    BY <2>1, <2>2
<1>25. ASSUME NEW e \in Exec, Refuse(e), UNCHANGED apiVars PROVE LabelInv'
  BY <1>25 DEF Refuse, Classify
<1>26. ASSUME NEW e \in Exec, Derive(e), UNCHANGED apiVars PROVE LabelInv'
  BY <1>26 DEF Derive, Classify
<1>27. ASSUME NEW e \in Exec, StartValidation(e), UNCHANGED apiVars
      PROVE  LabelInv'
  BY <1>27 DEF StartValidation
<1>28. ASSUME NEW e \in Exec, ValidatePass(e), UNCHANGED apiVars
      PROVE  LabelInv'
  BY <1>28 DEF ValidatePass
<1>29. ASSUME NEW e \in Exec, ValidateFail(e), UNCHANGED apiVars
      PROVE  LabelInv'
  BY <1>29 DEF ValidateFail
<1>30. ASSUME NEW e \in Exec, EnterRunning(e), UNCHANGED apiVars
      PROVE  LabelInv'
  BY <1>30, LegalMoves DEF EnterRunning
<1>31. ASSUME NEW e \in Exec, RunWorkflow(e), UNCHANGED apiVars PROVE LabelInv'
  BY <1>31 DEF RunWorkflow
<1>32. ASSUME NEW e \in Exec, RegisterOutputs(e), UNCHANGED apiVars
      PROVE  LabelInv'
  BY <1>32 DEF RegisterOutputs
<1>33. ASSUME NEW e \in Exec, SetTaskOutputs(e), UNCHANGED apiVars
      PROVE  LabelInv'
  BY <1>33 DEF SetTaskOutputs
<1>34. ASSUME NEW e \in Exec, RecordSample(e), UNCHANGED apiVars
      PROVE  LabelInv'
  BY <1>34 DEF RecordSample, Sampled, UserTask
<1>35. ASSUME NEW e \in Exec, RequestReview(e), UNCHANGED apiVars
      PROVE  LabelInv'
  BY <1>35, LegalMoves DEF RequestReview
<1>36. ASSUME NEW e \in Exec, EnterAnalyzing(e), UNCHANGED apiVars
      PROVE  LabelInv'
  BY <1>36, LegalMoves DEF EnterAnalyzing
<1>37. ASSUME NEW e \in Exec, Complete(e), UNCHANGED apiVars PROVE LabelInv'
  BY <1>37, LegalMoves DEF Complete
<1>38. ASSUME NEW e \in Exec, Close(e), UNCHANGED apiVars PROVE LabelInv'
  BY <1>38 DEF Close
<1>39. ASSUME NEW e \in Exec, MarkFailed(e), UNCHANGED apiVars PROVE LabelInv'
  <2>1. CASE phase[e] = "failing"
    BY <1>39, <2>1, LegalMoves, SMTT(30) DEF MarkFailed, ExecutionStates
  <2>2. CASE phase[e] = "refusing"
    BY <1>39, <2>2, LegalMoves, SMTT(30) DEF MarkFailed, ExecutionStates
  <2> QED
    BY <1>39, <2>1, <2>2 DEF MarkFailed
<1>40. ASSUME NEW e \in Exec, FailedEvent(e), UNCHANGED apiVars PROVE LabelInv'
  <2>1. CASE phase[e] = "failed"
    BY <1>40, <2>1, SMTT(30) DEF FailedEvent
  <2>2. CASE phase[e] = "refused"
    BY <1>40, <2>2, SMTT(30) DEF FailedEvent
  <2> QED
    BY <1>40, <2>1, <2>2 DEF FailedEvent
<1>41. ASSUME NEW e \in Exec, FailureSample(e), UNCHANGED apiVars
      PROVE  LabelInv'
  BY <1>41 DEF FailureSample, Sampled, UserTask
<1>42. ASSUME NEW e \in Exec, Race(e), UNCHANGED apiVars PROVE LabelInv'
  <2>1. CASE e = Job
    BY <1>42, <2>1, SMTT(30) DEF Race
  <2>2. CASE e # Job
    BY <1>42, <2>2, SMTT(30) DEF Race
  <2> QED
    BY <2>1, <2>2
<1>43. ASSUME NEW e \in Exec, FailBestEffort(e), UNCHANGED apiVars
      PROVE  LabelInv'
  <2>1. CASE status[hold[e]] \in ExecutionStates /\ e = Job
    BY <1>43, <2>1, LegalMoves, SMTT(30) DEF FailBestEffort, ExecutionStates
  <2>2. CASE status[hold[e]] \in ExecutionStates /\ e # Job
    BY <1>43, <2>2, LegalMoves, SMTT(30) DEF FailBestEffort, ExecutionStates
  <2>3. CASE status[hold[e]] \notin ExecutionStates /\ e = Job
    BY <1>43, <2>3, LegalMoves, SMTT(30) DEF FailBestEffort, ExecutionStates
  <2>4. CASE status[hold[e]] \notin ExecutionStates /\ e # Job
    BY <1>43, <2>4, LegalMoves, SMTT(30) DEF FailBestEffort, ExecutionStates
  <2> QED
    BY <2>1, <2>2, <2>3, <2>4
<1>44. ASSUME NEW e \in Exec, FailBestEffortEvent(e), UNCHANGED apiVars
      PROVE  LabelInv'
  BY <1>44 DEF FailBestEffortEvent
<1>45. ASSUME NEW e \in Exec, NEW t \in Task, EvalInsert(e, t), UNCHANGED
              apiVars
      PROVE  LabelInv'
  BY <1>45 DEF EvalInsert
<1>46. ASSUME NEW e \in Exec, EvalQueue(e), UNCHANGED apiVars PROVE LabelInv'
  BY <1>46, LegalMoves DEF EvalQueue
<1>47. ASSUME NEW e \in Exec, EvalClaim(e), UNCHANGED apiVars PROVE LabelInv'
  <2>1. CASE fault \/ status[hold[e]] # "queued"
    BY <1>47, <2>1, LegalMoves, SMTT(30) DEF EvalClaim
  <2>2. CASE ~(fault \/ status[hold[e]] # "queued")
    <3>1. hold[e] \in Task /\ events[hold[e]] \cap Verdicts = {}
      BY <1>47, <2>2 DEF EvalClaim, DecisionInv
    <3>2. /\ UNCHANGED << events, sample, hold >>
          /\ phase' = [phase EXCEPT ![e] = "claimed"]
      BY <1>47, <2>2 DEF EvalClaim
    <3> QED
      BY <3>1, <3>2
  <2> QED
    BY <2>1, <2>2
<1>48. ASSUME NEW e \in Exec, EvalRaise(e), UNCHANGED apiVars PROVE LabelInv'
  BY <1>48 DEF EvalRaise
<1>49. ASSUME NEW e \in Exec, CliStop(e), UNCHANGED apiVars PROVE LabelInv'
  BY <1>49 DEF CliStop
<1>50. ASSUME Crash, UNCHANGED apiVars PROVE LabelInv'
  BY <1>50 DEF Crash, InWorker
<1>51. ASSUME ResolveAbort, UNCHANGED apiVars PROVE LabelInv'
  BY <1>51 DEF ResolveAbort, ResolveForget
<1>52. ASSUME NEW e \in Exec, Raise(e), UNCHANGED apiVars PROVE LabelInv'
  BY <1>52 DEF Raise
<1>53. ASSUME NEW e \in Exec, LoseFailure(e), UNCHANGED apiVars PROVE LabelInv'
  BY <1>53 DEF LoseFailure
<1>54. CASE Latch \/ Backfill
  BY <1>54 DEF Latch, Backfill, Unclassified
<1>55. CASE UNCHANGED vars
  BY <1>55 DEF vars
<1> QED
  BY ONLY [Next]_vars, <1>1, <1>2, <1>3, <1>4, <1>5, <1>6, <1>7, <1>8,
     <1>9, <1>10, <1>11, <1>12, <1>13, <1>14, <1>15, <1>16, <1>17,
     <1>18, <1>19, <1>20, <1>21, <1>22, <1>23, <1>24, <1>25, <1>26,
     <1>27, <1>28, <1>29, <1>30, <1>31, <1>32, <1>33, <1>34, <1>35,
     <1>36, <1>37, <1>38, <1>39, <1>40, <1>41, <1>42, <1>43, <1>44,
     <1>45, <1>46, <1>47, <1>48, <1>49, <1>50, <1>51, <1>52, <1>53,
     <1>54, <1>55
     DEF Next, ApiStep, Creating, Cancelling, WorkerStep, JobStep, ResolverStep,
         RecoveryStep, ClaimStep, RuntimeStep, EvalStep, Disturbance

\* The label of a sample is the verdict of the human who decided its task, and
\* an eval task leaves no sample.
THEOREM LabelCorrect == Spec => []LabelIsVerdict
<1>1. LabelInv => LabelIsVerdict
  BY DEF LabelInv
<1> QED
  BY <1>1, InitLabel, NextLabel, TypeCorrect, WorkCorrect, StageCorrect,
     DecisionCorrect, PTL DEF Spec

-----------------------------------------------------------------------------
(* The promise *)

\* A thread that has run its task has run it, and a task that was not
\* submitted needs nothing.
DoneInv ==
    /\ \A e \in Exec :
          phase[e] \in {"ran", "registered", "listed", "sampled", "analyzing"}
             => runs[hold[e]] > 0
    /\ \A t \in Task : status[t] = "absent" => deps[t] = {}

\* Nothing runs at first, and the rows of an earlier release exist.
LEMMA InitDone == Init => DoneInv
<1> SUFFICES ASSUME Init PROVE DoneInv
  OBVIOUS
<1>1. \A t \in Task : status[t] = "absent" => t \notin LegacyOpen
  BY DEF Init
<1>2. \A t \in Task \ LegacyOpen : deps[t] = {}
  BY DEF Init
<1>3. \A e \in Exec : phase[e] \in {"idle", "down"}
  BY DEF Init
<1> QED
  BY <1>1, <1>2, <1>3 DEF DoneInv

\* Only RunWorkflow leads to the phases after it.
LEMMA NextDone ==
  TypeOK /\ WorkInv /\ DoneInv /\ [Next]_vars => DoneInv'
<1> SUFFICES ASSUME TypeOK, WorkInv, DoneInv, [Next]_vars PROVE DoneInv'
  OBVIOUS
<1> USE DEF TypeOK, StoreTypeOK, ApiTypeOK, WorkerTypeOK, rows, storeVars,
        apiVars, workerVars, local, Rest, Goto, Release, Move, Append,
        SetTaskStatus, MoveWithEvent, Working, RuntimePhases,
        WorkInv, Holding, Known, Exclusive, StageInv, Rows, Dead, DoneInv
<1>1. ASSUME NEW t \in Task, NEW D \in SUBSET Task, NEW B \in SUBSET D,
             CreateInsert(t, D, B), UNCHANGED workerVars
      PROVE  DoneInv'
  BY <1>1 DEF CreateInsert
<1>2. ASSUME NEW t \in Task, CreateEnqueue(t), UNCHANGED workerVars
      PROVE  DoneInv'
  BY <1>2, LegalMoves DEF CreateEnqueue
<1>3. ASSUME NEW t \in Task, CreateRefused(t), UNCHANGED workerVars
      PROVE  DoneInv'
  BY <1>3 DEF CreateRefused
<1>4. ASSUME NEW t \in Task, CreateEvent(t), UNCHANGED workerVars
      PROVE  DoneInv'
  BY <1>4 DEF CreateEvent
<1>5. ASSUME NEW t \in Task, CancelRead(t), UNCHANGED workerVars PROVE DoneInv'
  BY <1>5 DEF CancelRead
<1>6. ASSUME NEW t \in Task, CancelWrite(t), UNCHANGED workerVars
      PROVE  DoneInv'
  BY <1>6, LegalMoves DEF CancelWrite
<1>7. ASSUME NEW t \in Task, CancelRefused(t), UNCHANGED workerVars
      PROVE  DoneInv'
  BY <1>7 DEF CancelRefused
<1>8. ASSUME NEW t \in Task, CancelEvent(t), UNCHANGED workerVars
      PROVE  DoneInv'
  BY <1>8 DEF CancelEvent
<1>9. ASSUME NEW t \in Task, Approve(t), UNCHANGED workerVars PROVE DoneInv'
  BY <1>9, LegalMoves DEF Approve, Decide, Label
<1>10. ASSUME NEW t \in Task, Reject(t), UNCHANGED workerVars PROVE DoneInv'
  BY <1>10, LegalMoves DEF Reject, Decide, Label
<1>11. ASSUME NEW t \in Task, ApiAbandon(t), UNCHANGED workerVars
      PROVE  DoneInv'
  BY <1>11 DEF ApiAbandon
<1>12. ASSUME ResolveScan, UNCHANGED apiVars PROVE DoneInv'
  BY <1>12 DEF ResolveScan, Candidates
<1>13. ASSUME ResolveNotDue, UNCHANGED apiVars PROVE DoneInv'
  BY <1>13 DEF ResolveNotDue
<1>14. ASSUME ResolveDone, UNCHANGED apiVars PROVE DoneInv'
  BY <1>14 DEF ResolveDone
<1>15. ASSUME NEW t \in Task, ResolveRead(t), UNCHANGED apiVars PROVE DoneInv'
  BY <1>15 DEF ResolveRead, Pipeable, BoundUpstreams
<1>16. ASSUME NEW t \in Task, ResolvePoison(t), UNCHANGED apiVars
      PROVE  DoneInv'
  BY <1>16 DEF ResolvePoison
<1>17. ASSUME NEW t \in Task, ResolveWrite(t), UNCHANGED apiVars PROVE DoneInv'
  <2>1. CASE EnqueueDependent(t)
    BY <1>17, <2>1, LegalMoves, SMTT(30) DEF ResolveWrite, ResolveForget,
       EnqueueDependent, CancelDependent, Classify
  <2>2. CASE CancelDependent(t)
    BY <1>17, <2>2, LegalMoves, SMTT(30) DEF ResolveWrite, ResolveForget,
       EnqueueDependent, CancelDependent, Classify
  <2>3. CASE UNCHANGED << status, events, inputs, witness, classif >>
    BY <1>17, <2>3, LegalMoves, SMTT(30) DEF ResolveWrite, ResolveForget,
       EnqueueDependent, CancelDependent, Classify
  <2> QED
    BY <1>17, <2>1, <2>2, <2>3 DEF ResolveWrite
<1>18. ASSUME Start, UNCHANGED apiVars PROVE DoneInv'
  BY <1>18 DEF Start
<1>19. ASSUME RecoverEvent, UNCHANGED apiVars PROVE DoneInv'
  BY <1>19 DEF RecoverEvent
<1>20. ASSUME RecoverDone, UNCHANGED apiVars PROVE DoneInv'
  BY <1>20 DEF RecoverDone, InWorker
<1>21. ASSUME NEW t \in Task, Recover(t), UNCHANGED apiVars PROVE DoneInv'
  <2>1. CASE status[t] \in ExecutionStates
    BY <1>21, <2>1, LegalMoves, SMTT(30) DEF Recover, ExecutionStates
  <2>2. CASE status[t] \notin ExecutionStates
    BY <1>21, <2>2, LegalMoves, SMTT(30) DEF Recover, ExecutionStates
  <2> QED
    BY <2>1, <2>2
<1>22. ASSUME PollNothing, UNCHANGED apiVars PROVE DoneInv'
  BY <1>22 DEF PollNothing
<1>23. ASSUME NEW t \in Task, Claim(t), UNCHANGED apiVars PROVE DoneInv'
  <2>1. CASE phase'[Job] = "claimed"
    BY <1>23, <2>1, LegalMoves, SMTT(30) DEF Claim
  <2>2. CASE phase'[Job] # "claimed"
    BY <1>23, <2>2, LegalMoves, SMTT(30) DEF Claim
  <2> QED
    BY <2>1, <2>2
<1>24. ASSUME NEW e \in Exec, Quarantine(e), UNCHANGED apiVars PROVE DoneInv'
  <2>1. CASE status[hold[e]] \in ExecutionStates
    BY <1>24, <2>1, SMTT(30) DEF Quarantine, ExecutionStates
  <2>2. CASE status[hold[e]] \notin ExecutionStates
    BY <1>24, <2>2, SMTT(30) DEF Quarantine, ExecutionStates
  <2> QED
    BY <2>1, <2>2
<1>25. ASSUME NEW e \in Exec, Refuse(e), UNCHANGED apiVars PROVE DoneInv'
  BY <1>25 DEF Refuse, Classify
<1>26. ASSUME NEW e \in Exec, Derive(e), UNCHANGED apiVars PROVE DoneInv'
  BY <1>26 DEF Derive, Classify
<1>27. ASSUME NEW e \in Exec, StartValidation(e), UNCHANGED apiVars
      PROVE  DoneInv'
  BY <1>27 DEF StartValidation
<1>28. ASSUME NEW e \in Exec, ValidatePass(e), UNCHANGED apiVars PROVE DoneInv'
  BY <1>28 DEF ValidatePass
<1>29. ASSUME NEW e \in Exec, ValidateFail(e), UNCHANGED apiVars PROVE DoneInv'
  BY <1>29 DEF ValidateFail
<1>30. ASSUME NEW e \in Exec, EnterRunning(e), UNCHANGED apiVars PROVE DoneInv'
  BY <1>30, LegalMoves DEF EnterRunning
<1>31. ASSUME NEW e \in Exec, RunWorkflow(e), UNCHANGED apiVars PROVE DoneInv'
  BY <1>31 DEF RunWorkflow
<1>32. ASSUME NEW e \in Exec, RegisterOutputs(e), UNCHANGED apiVars
      PROVE  DoneInv'
  BY <1>32 DEF RegisterOutputs
<1>33. ASSUME NEW e \in Exec, SetTaskOutputs(e), UNCHANGED apiVars
      PROVE  DoneInv'
  BY <1>33 DEF SetTaskOutputs
<1>34. ASSUME NEW e \in Exec, RecordSample(e), UNCHANGED apiVars PROVE DoneInv'
  BY <1>34 DEF RecordSample, Sampled
<1>35. ASSUME NEW e \in Exec, RequestReview(e), UNCHANGED apiVars
      PROVE  DoneInv'
  BY <1>35, LegalMoves DEF RequestReview
<1>36. ASSUME NEW e \in Exec, EnterAnalyzing(e), UNCHANGED apiVars
      PROVE  DoneInv'
  BY <1>36, LegalMoves DEF EnterAnalyzing
<1>37. ASSUME NEW e \in Exec, Complete(e), UNCHANGED apiVars PROVE DoneInv'
  BY <1>37, LegalMoves DEF Complete
<1>38. ASSUME NEW e \in Exec, Close(e), UNCHANGED apiVars PROVE DoneInv'
  BY <1>38 DEF Close
<1>39. ASSUME NEW e \in Exec, MarkFailed(e), UNCHANGED apiVars PROVE DoneInv'
  <2>1. CASE phase[e] = "failing"
    BY <1>39, <2>1, LegalMoves, SMTT(30) DEF MarkFailed, ExecutionStates
  <2>2. CASE phase[e] = "refusing"
    BY <1>39, <2>2, LegalMoves, SMTT(30) DEF MarkFailed, ExecutionStates
  <2> QED
    BY <1>39, <2>1, <2>2 DEF MarkFailed
<1>40. ASSUME NEW e \in Exec, FailedEvent(e), UNCHANGED apiVars PROVE DoneInv'
  <2>1. CASE phase[e] = "failed"
    BY <1>40, <2>1, SMTT(30) DEF FailedEvent
  <2>2. CASE phase[e] = "refused"
    BY <1>40, <2>2, SMTT(30) DEF FailedEvent
  <2> QED
    BY <1>40, <2>1, <2>2 DEF FailedEvent
<1>41. ASSUME NEW e \in Exec, FailureSample(e), UNCHANGED apiVars
      PROVE  DoneInv'
  BY <1>41 DEF FailureSample, Sampled
<1>42. ASSUME NEW e \in Exec, Race(e), UNCHANGED apiVars PROVE DoneInv'
  <2>1. CASE e = Job
    BY <1>42, <2>1, SMTT(30) DEF Race
  <2>2. CASE e # Job
    BY <1>42, <2>2, SMTT(30) DEF Race
  <2> QED
    BY <2>1, <2>2
<1>43. ASSUME NEW e \in Exec, FailBestEffort(e), UNCHANGED apiVars
      PROVE  DoneInv'
  <2>1. CASE status[hold[e]] \in ExecutionStates /\ e = Job
    BY <1>43, <2>1, LegalMoves, SMTT(30) DEF FailBestEffort, ExecutionStates
  <2>2. CASE status[hold[e]] \in ExecutionStates /\ e # Job
    BY <1>43, <2>2, LegalMoves, SMTT(30) DEF FailBestEffort, ExecutionStates
  <2>3. CASE status[hold[e]] \notin ExecutionStates /\ e = Job
    BY <1>43, <2>3, LegalMoves, SMTT(30) DEF FailBestEffort, ExecutionStates
  <2>4. CASE status[hold[e]] \notin ExecutionStates /\ e # Job
    BY <1>43, <2>4, LegalMoves, SMTT(30) DEF FailBestEffort, ExecutionStates
  <2> QED
    BY <2>1, <2>2, <2>3, <2>4
<1>44. ASSUME NEW e \in Exec, FailBestEffortEvent(e), UNCHANGED apiVars
      PROVE  DoneInv'
  BY <1>44 DEF FailBestEffortEvent
<1>45. ASSUME NEW e \in Exec, NEW t \in Task, EvalInsert(e, t), UNCHANGED
              apiVars
      PROVE  DoneInv'
  BY <1>45 DEF EvalInsert
<1>46. ASSUME NEW e \in Exec, EvalQueue(e), UNCHANGED apiVars PROVE DoneInv'
  BY <1>46, LegalMoves DEF EvalQueue
<1>47. ASSUME NEW e \in Exec, EvalClaim(e), UNCHANGED apiVars PROVE DoneInv'
  <2>1. CASE fault \/ status[hold[e]] # "queued"
    BY <1>47, <2>1, LegalMoves, SMTT(30) DEF EvalClaim
  <2>2. CASE ~(fault \/ status[hold[e]] # "queued")
    BY <1>47, <2>2, LegalMoves, SMTT(30) DEF EvalClaim
  <2> QED
    BY <2>1, <2>2
<1>48. ASSUME NEW e \in Exec, EvalRaise(e), UNCHANGED apiVars PROVE DoneInv'
  BY <1>48 DEF EvalRaise
<1>49. ASSUME NEW e \in Exec, CliStop(e), UNCHANGED apiVars PROVE DoneInv'
  BY <1>49 DEF CliStop
<1>50. ASSUME Crash, UNCHANGED apiVars PROVE DoneInv'
  BY <1>50 DEF Crash, InWorker
<1>51. ASSUME ResolveAbort, UNCHANGED apiVars PROVE DoneInv'
  BY <1>51 DEF ResolveAbort, ResolveForget
<1>52. ASSUME NEW e \in Exec, Raise(e), UNCHANGED apiVars PROVE DoneInv'
  BY <1>52 DEF Raise
<1>53. ASSUME NEW e \in Exec, LoseFailure(e), UNCHANGED apiVars PROVE DoneInv'
  BY <1>53 DEF LoseFailure
<1>54. CASE Latch \/ Backfill
  BY <1>54 DEF Latch, Backfill, Unclassified
<1>55. CASE UNCHANGED vars
  BY <1>55 DEF vars
<1> QED
  BY ONLY [Next]_vars, <1>1, <1>2, <1>3, <1>4, <1>5, <1>6, <1>7, <1>8,
     <1>9, <1>10, <1>11, <1>12, <1>13, <1>14, <1>15, <1>16, <1>17,
     <1>18, <1>19, <1>20, <1>21, <1>22, <1>23, <1>24, <1>25, <1>26,
     <1>27, <1>28, <1>29, <1>30, <1>31, <1>32, <1>33, <1>34, <1>35,
     <1>36, <1>37, <1>38, <1>39, <1>40, <1>41, <1>42, <1>43, <1>44,
     <1>45, <1>46, <1>47, <1>48, <1>49, <1>50, <1>51, <1>52, <1>53,
     <1>54, <1>55
     DEF Next, ApiStep, Creating, Cancelling, WorkerStep, JobStep, ResolverStep,
         RecoveryStep, ClaimStep, RuntimeStep, EvalStep, Disturbance

\* the phases of the threads in Executing
Inside == RuntimePhases \cup {"boom", "boomed"}

\* no thread takes up a task
NoTake ==
    \A e \in Exec : phase'[e] \in Inside =>
        phase[e] \in Inside /\ hold'[e] = hold[e]

\* the row of a task moves, if it does, within one part of its life
Same(t) ==
    /\ \/ status'[t] = status[t]
       \/ status[t] \in {"created", "queued"} /\ status'[t] \in {"created", "queued"}
       \/ status[t] \in ExecutionStates /\ status'[t] \in ExecutionStates
    /\ "review_approved" \in events'[t] <=> "review_approved" \in events[t]

\* a step nobody but the threads notices
Calm == /\ deps' = deps /\ runs' = runs
        /\ \A t \in Task : Same(t)
        /\ NoTake

\* the actions that may take a task from one part of its life to another
Special ==
    \/ /\ UNCHANGED workerVars
       /\ \E t \in Task :
             \/ \E D \in SUBSET Task : \E B \in SUBSET D : CreateInsert(t, D, B)
             \/ CancelWrite(t) \/ Approve(t) \/ Reject(t)
    \/ \E t \in Task :
          \/ ResolveWrite(t) /\ CancelDependent(t)
          \/ Claim(t) \/ Recover(t) \/ \E e \in Exec : EvalInsert(e, t)
    \/ \E e \in Exec :
          \/ Quarantine(e) \/ RunWorkflow(e) \/ RequestReview(e) \/ Complete(e)
          \/ MarkFailed(e) \/ FailBestEffort(e) \/ EvalClaim(e)

\* Every other action is calm.
LEMMA StepKinds ==
  TypeOK /\ WorkInv /\ [Next]_vars => Calm \/ Special
<1> SUFFICES ASSUME TypeOK, WorkInv, [Next]_vars PROVE Calm \/ Special
  OBVIOUS
<1> USE DEF TypeOK, StoreTypeOK, ApiTypeOK, WorkerTypeOK, rows, storeVars,
        apiVars, workerVars, local, Rest, Goto, Release, Move, Append,
        SetTaskStatus, MoveWithEvent, Working, RuntimePhases,
        WorkInv, Holding, Known, Exclusive, StageInv, Rows, Dead, Calm, Same, NoTake, Inside,
        ExecutionStates
<1>1. ASSUME NEW t \in Task, NEW D \in SUBSET Task, NEW B \in SUBSET D,
             CreateInsert(t, D, B), UNCHANGED workerVars
      PROVE  Calm \/ Special
  BY <1>1 DEF Special
<1>2. ASSUME NEW t \in Task, CreateEnqueue(t), UNCHANGED workerVars
      PROVE  Calm \/ Special
  BY <1>2, LegalMoves DEF CreateEnqueue
<1>3. ASSUME NEW t \in Task, CreateRefused(t), UNCHANGED workerVars
      PROVE  Calm \/ Special
  BY <1>3 DEF CreateRefused
<1>4. ASSUME NEW t \in Task, CreateEvent(t), UNCHANGED workerVars
      PROVE  Calm \/ Special
  BY <1>4 DEF CreateEvent
<1>5. ASSUME NEW t \in Task, CancelRead(t), UNCHANGED workerVars
      PROVE  Calm \/ Special
  BY <1>5 DEF CancelRead
<1>6. ASSUME NEW t \in Task, CancelWrite(t), UNCHANGED workerVars
      PROVE  Calm \/ Special
  BY <1>6 DEF Special
<1>7. ASSUME NEW t \in Task, CancelRefused(t), UNCHANGED workerVars
      PROVE  Calm \/ Special
  BY <1>7 DEF CancelRefused
<1>8. ASSUME NEW t \in Task, CancelEvent(t), UNCHANGED workerVars
      PROVE  Calm \/ Special
  BY <1>8 DEF CancelEvent
<1>9. ASSUME NEW t \in Task, Approve(t), UNCHANGED workerVars
      PROVE  Calm \/ Special
  BY <1>9 DEF Special
<1>10. ASSUME NEW t \in Task, Reject(t), UNCHANGED workerVars
      PROVE  Calm \/ Special
  BY <1>10 DEF Special
<1>11. ASSUME NEW t \in Task, ApiAbandon(t), UNCHANGED workerVars
      PROVE  Calm \/ Special
  BY <1>11 DEF ApiAbandon
<1>12. ASSUME ResolveScan, UNCHANGED apiVars PROVE Calm \/ Special
  BY <1>12 DEF ResolveScan, Candidates
<1>13. ASSUME ResolveNotDue, UNCHANGED apiVars PROVE Calm \/ Special
  BY <1>13 DEF ResolveNotDue
<1>14. ASSUME ResolveDone, UNCHANGED apiVars PROVE Calm \/ Special
  BY <1>14 DEF ResolveDone
<1>15. ASSUME NEW t \in Task, ResolveRead(t), UNCHANGED apiVars
      PROVE  Calm \/ Special
  BY <1>15 DEF ResolveRead, Pipeable, BoundUpstreams
<1>16. ASSUME NEW t \in Task, ResolvePoison(t), UNCHANGED apiVars
      PROVE  Calm \/ Special
  BY <1>16 DEF ResolvePoison
<1>17. ASSUME NEW t \in Task, ResolveWrite(t), UNCHANGED apiVars
      PROVE  Calm \/ Special
  <2>1. CASE EnqueueDependent(t)
    BY <1>17, <2>1, LegalMoves, SMTT(30) DEF ResolveWrite, ResolveForget,
       EnqueueDependent
  <2>2. CASE CancelDependent(t)
    BY <1>17, <2>2 DEF Special
  <2>3. CASE UNCHANGED << status, events, inputs, witness, classif >>
    BY <1>17, <2>3, SMTT(30) DEF ResolveWrite, ResolveForget
  <2> QED
    BY <1>17, <2>1, <2>2, <2>3 DEF ResolveWrite
<1>18. ASSUME Start, UNCHANGED apiVars PROVE Calm \/ Special
  BY <1>18 DEF Start
<1>19. ASSUME RecoverEvent, UNCHANGED apiVars PROVE Calm \/ Special
  BY <1>19 DEF RecoverEvent
<1>20. ASSUME RecoverDone, UNCHANGED apiVars PROVE Calm \/ Special
  BY <1>20 DEF RecoverDone, InWorker
<1>21. ASSUME NEW t \in Task, Recover(t), UNCHANGED apiVars
      PROVE  Calm \/ Special
  BY <1>21 DEF Special
<1>22. ASSUME PollNothing, UNCHANGED apiVars PROVE Calm \/ Special
  BY <1>22 DEF PollNothing
<1>23. ASSUME NEW t \in Task, Claim(t), UNCHANGED apiVars PROVE Calm \/ Special
  BY <1>23 DEF Special
<1>24. ASSUME NEW e \in Exec, Quarantine(e), UNCHANGED apiVars
      PROVE  Calm \/ Special
  BY <1>24 DEF Special
<1>25. ASSUME NEW e \in Exec, Refuse(e), UNCHANGED apiVars
      PROVE  Calm \/ Special
  BY <1>25 DEF Refuse, Classify
<1>26. ASSUME NEW e \in Exec, Derive(e), UNCHANGED apiVars
      PROVE  Calm \/ Special
  BY <1>26 DEF Derive, Classify
<1>27. ASSUME NEW e \in Exec, StartValidation(e), UNCHANGED apiVars
      PROVE  Calm \/ Special
  BY <1>27 DEF StartValidation
<1>28. ASSUME NEW e \in Exec, ValidatePass(e), UNCHANGED apiVars
      PROVE  Calm \/ Special
  BY <1>28 DEF ValidatePass
<1>29. ASSUME NEW e \in Exec, ValidateFail(e), UNCHANGED apiVars
      PROVE  Calm \/ Special
  BY <1>29 DEF ValidateFail
<1>30. ASSUME NEW e \in Exec, EnterRunning(e), UNCHANGED apiVars
      PROVE  Calm \/ Special
  BY <1>30, LegalMoves DEF EnterRunning
<1>31. ASSUME NEW e \in Exec, RunWorkflow(e), UNCHANGED apiVars
      PROVE  Calm \/ Special
  BY <1>31 DEF Special
<1>32. ASSUME NEW e \in Exec, RegisterOutputs(e), UNCHANGED apiVars
      PROVE  Calm \/ Special
  BY <1>32 DEF RegisterOutputs
<1>33. ASSUME NEW e \in Exec, SetTaskOutputs(e), UNCHANGED apiVars
      PROVE  Calm \/ Special
  BY <1>33 DEF SetTaskOutputs
<1>34. ASSUME NEW e \in Exec, RecordSample(e), UNCHANGED apiVars
      PROVE  Calm \/ Special
  BY <1>34 DEF RecordSample, Sampled
<1>35. ASSUME NEW e \in Exec, RequestReview(e), UNCHANGED apiVars
      PROVE  Calm \/ Special
  BY <1>35 DEF Special
<1>36. ASSUME NEW e \in Exec, EnterAnalyzing(e), UNCHANGED apiVars
      PROVE  Calm \/ Special
  BY <1>36, LegalMoves DEF EnterAnalyzing
<1>37. ASSUME NEW e \in Exec, Complete(e), UNCHANGED apiVars
      PROVE  Calm \/ Special
  BY <1>37 DEF Special
<1>38. ASSUME NEW e \in Exec, Close(e), UNCHANGED apiVars PROVE Calm \/ Special
  BY <1>38 DEF Close
<1>39. ASSUME NEW e \in Exec, MarkFailed(e), UNCHANGED apiVars
      PROVE  Calm \/ Special
  BY <1>39 DEF Special
<1>40. ASSUME NEW e \in Exec, FailedEvent(e), UNCHANGED apiVars
      PROVE  Calm \/ Special
  <2>1. CASE phase[e] = "failed"
    BY <1>40, <2>1, SMTT(30) DEF FailedEvent
  <2>2. CASE phase[e] = "refused"
    BY <1>40, <2>2, SMTT(30) DEF FailedEvent
  <2> QED
    BY <1>40, <2>1, <2>2 DEF FailedEvent
<1>41. ASSUME NEW e \in Exec, FailureSample(e), UNCHANGED apiVars
      PROVE  Calm \/ Special
  BY <1>41 DEF FailureSample, Sampled
<1>42. ASSUME NEW e \in Exec, Race(e), UNCHANGED apiVars PROVE Calm \/ Special
  <2>1. CASE e = Job
    BY <1>42, <2>1, SMTT(30) DEF Race
  <2>2. CASE e # Job
    BY <1>42, <2>2, SMTT(30) DEF Race
  <2> QED
    BY <2>1, <2>2
<1>43. ASSUME NEW e \in Exec, FailBestEffort(e), UNCHANGED apiVars
      PROVE  Calm \/ Special
  BY <1>43 DEF Special
<1>44. ASSUME NEW e \in Exec, FailBestEffortEvent(e), UNCHANGED apiVars
      PROVE  Calm \/ Special
  BY <1>44 DEF FailBestEffortEvent
<1>45. ASSUME NEW e \in Exec, NEW t \in Task, EvalInsert(e, t), UNCHANGED
              apiVars
      PROVE  Calm \/ Special
  BY <1>45 DEF Special
<1>46. ASSUME NEW e \in Exec, EvalQueue(e), UNCHANGED apiVars
      PROVE  Calm \/ Special
  BY <1>46, LegalMoves DEF EvalQueue
<1>47. ASSUME NEW e \in Exec, EvalClaim(e), UNCHANGED apiVars
      PROVE  Calm \/ Special
  BY <1>47 DEF Special
<1>48. ASSUME NEW e \in Exec, EvalRaise(e), UNCHANGED apiVars
      PROVE  Calm \/ Special
  BY <1>48 DEF EvalRaise
<1>49. ASSUME NEW e \in Exec, CliStop(e), UNCHANGED apiVars
      PROVE  Calm \/ Special
  BY <1>49 DEF CliStop
<1>50. ASSUME Crash, UNCHANGED apiVars PROVE Calm \/ Special
  BY <1>50 DEF Crash, InWorker
<1>51. ASSUME ResolveAbort, UNCHANGED apiVars PROVE Calm \/ Special
  BY <1>51 DEF ResolveAbort, ResolveForget
<1>52. ASSUME NEW e \in Exec, Raise(e), UNCHANGED apiVars PROVE Calm \/ Special
  BY <1>52 DEF Raise
<1>53. ASSUME NEW e \in Exec, LoseFailure(e), UNCHANGED apiVars
      PROVE  Calm \/ Special
  BY <1>53 DEF LoseFailure
<1>54. CASE Latch \/ Backfill
  BY <1>54 DEF Latch, Backfill, Unclassified
<1>55. CASE UNCHANGED vars
  BY <1>55 DEF vars
<1> QED
  BY ONLY [Next]_vars, <1>1, <1>2, <1>3, <1>4, <1>5, <1>6, <1>7, <1>8,
     <1>9, <1>10, <1>11, <1>12, <1>13, <1>14, <1>15, <1>16, <1>17,
     <1>18, <1>19, <1>20, <1>21, <1>22, <1>23, <1>24, <1>25, <1>26,
     <1>27, <1>28, <1>29, <1>30, <1>31, <1>32, <1>33, <1>34, <1>35,
     <1>36, <1>37, <1>38, <1>39, <1>40, <1>41, <1>42, <1>43, <1>44,
     <1>45, <1>46, <1>47, <1>48, <1>49, <1>50, <1>51, <1>52, <1>53,
     <1>54, <1>55
     DEF Next, ApiStep, Creating, Cancelling, WorkerStep, JobStep, ResolverStep,
         RecoveryStep, ClaimStep, RuntimeStep, EvalStep, Disturbance

\* the parts of the life of all tasks, and the tasks somebody works on
LifeOf == [t \in Task |-> Life(t)]
Worked == {hold[e] : e \in Executing}

\* Which part of its life the row of a task stands for.
LEMMA LifeCases ==
  ASSUME TypeOK, NEW t \in Task
  PROVE  /\ status[t] = "absent" => Life(t) = "none"
         /\ status[t] \in {"created", "queued"} => Life(t) = "waiting"
         /\ status[t] \in ExecutionStates => Life(t) = "working"
         /\ status[t] = "waiting_review" => Life(t) = "review"
         /\ status[t] = "completed" /\ SignedOff(t) => Life(t) = "released"
         /\ status[t] = "completed" /\ ~SignedOff(t) => Life(t) = "unsigned"
         /\ status[t] = "failed" => Life(t) = "failed"
         /\ status[t] = "cancelled" => Life(t) = "cancelled"
         /\ status[t] \in {"absent", "created", "queued", "waiting_review",
                           "completed", "failed", "cancelled"} \cup ExecutionStates
BY DEF Life, TypeOK, StoreTypeOK, States, ExecutionStates

\* The same of the row after a step.
LEMMA LifeAfter ==
  ASSUME NEW t \in Task
  PROVE  /\ status'[t] \in {"created", "queued"} => Life(t)' = "waiting"
         /\ status'[t] \in ExecutionStates => Life(t)' = "working"
         /\ status'[t] = "waiting_review" => Life(t)' = "review"
         /\ status'[t] = "completed" /\ SignedOff(t)' => Life(t)' = "released"
         /\ status'[t] = "failed" => Life(t)' = "failed"
         /\ status'[t] = "cancelled" => Life(t)' = "cancelled"
BY DEF Life, ExecutionStates

\* A row that moves within a part of its life stays in it.
LEMMA SameLife ==
  ASSUME TypeOK, TypeOK', NEW t \in Task, Same(t)
  PROVE  Life(t)' = Life(t)
<1>1. SignedOff(t)' <=> SignedOff(t)
  BY DEF Same, SignedOff
<1>2. CASE status'[t] = status[t]
  <2>1. CASE SignedOff(t)
    BY <1>1, <1>2, <2>1 DEF Life
  <2>2. CASE ~SignedOff(t)
    BY <1>1, <1>2, <2>2 DEF Life
  <2> QED
    BY <2>1, <2>2
<1>3. CASE status[t] \in {"created", "queued"} /\ status'[t] \in {"created", "queued"}
  BY <1>3 DEF Life, ExecutionStates
<1>4. CASE status[t] \in ExecutionStates /\ status'[t] \in ExecutionStates
  BY <1>4 DEF Life, ExecutionStates
<1> QED
  BY <1>2, <1>3, <1>4 DEF Same

\* One task goes to another part of its life.
LEMMA OneLife ==
  ASSUME TypeOK, TypeOK', NEW t \in Task, \A u \in Task \ {t} : Same(u)
  PROVE  LifeOf' = [LifeOf EXCEPT ![t] = Life(t)']
<1>1. \A u \in Task \ {t} : Life(u)' = Life(u)
  BY SameLife
<1> QED
  BY <1>1 DEF LifeOf

\* Without a taking up, those who work on tasks are among those who did.
LEMMA NobodyTakes ==
  ASSUME NoTake
  PROVE  Worked' \subseteq Worked
BY DEF NoTake, Worked, Executing, Inside

\* A calm step is one of the threads alone.
LEMMA CalmMaps ==
  ASSUME TypeOK, TypeOK', Calm
  PROVE  [Promise!PromiseNext]_(Promise!promiseVars)
<1>1. LifeOf' = LifeOf
  BY SameLife DEF Calm, LifeOf
<1>2. Worked' \in SUBSET Worked
  BY NobodyTakes DEF Calm
<1>3. {t \in Task : runs[t] > 0}' = {t \in Task : runs[t] > 0}
  BY DEF Calm
<1>4. Promise!LetGo
  BY <1>1, <1>2, <1>3 DEF Promise!LetGo, Calm, LifeOf, Worked
<1> QED
  BY <1>4 DEF Promise!PromiseNext

\* A row that fails or is cancelled before it ended is given up, by the thread
\* that works on it or by another.
LEMMA GiveUpMaps ==
  ASSUME TypeOK, TypeOK', NEW t \in Task,
         status[t] \in {"created", "queued"} \cup ExecutionStates,
         status'[t] \in {"failed", "cancelled"},
         \A u \in Task \ {t} : Same(u),
         deps' = deps, runs' = runs, NoTake,
         \A e \in Exec : phase[e] \in Inside /\ hold[e] # t =>
             phase'[e] \in Inside /\ hold'[e] = hold[e]
  PROVE  [Promise!PromiseNext]_(Promise!promiseVars)
<1>1. LifeOf' = [LifeOf EXCEPT ![t] = Life(t)']
  BY OneLife
<1>2. LifeOf[t] \in {"waiting", "working"} /\ Life(t)' \in {"failed", "cancelled"}
  BY LifeCases, LifeAfter DEF LifeOf
<1>3. Worked' \in {Worked, Worked \ {t}}
  <2>1. Worked' \subseteq Worked
    BY NobodyTakes
  <2>2. Worked \ {t} \subseteq Worked'
    BY DEF Worked, Executing, Inside
  <2> QED
    BY <2>1, <2>2
<1>4. {u \in Task : runs[u] > 0}' = {u \in Task : runs[u] > 0}
  OBVIOUS
<1>5. Promise!GiveUp(t)
  BY <1>1, <1>2, <1>3, <1>4 DEF Promise!GiveUp, Promise!Become, LifeOf, Worked
<1> QED
  BY <1>5 DEF Promise!PromiseNext

\* A request inserts a task that needs what exists and may feed it.
LEMMA InsertMaps ==
  ASSUME TypeOK, TypeOK', UNCHANGED workerVars, NEW t \in Task,
         NEW D \in SUBSET Task, NEW B \in SUBSET D, CreateInsert(t, D, B)
  PROVE  [Promise!PromiseNext]_(Promise!promiseVars)
<1> USE DEF TypeOK, StoreTypeOK
<1>1. /\ status[t] = "absent" /\ status' = [status EXCEPT ![t] = "created"]
      /\ deps' = [deps EXCEPT ![t] = D] /\ events' = events
      /\ UNCHANGED << phase, hold, runs >>
  BY DEF CreateInsert, Exists, Move, workerVars
<1>2. LifeOf' = [LifeOf EXCEPT ![t] = "waiting"]
  <2>1. Life(t)' = "waiting"
    BY <1>1, LifeAfter
  <2> QED
    BY <1>1, <2>1, OneLife DEF Same
<1>3. LifeOf[t] \in {"none"}
  BY <1>1, LifeCases DEF LifeOf
<1>4. D \in SUBSET {u \in {v \in Task : ~Foreign(v, t)} : LifeOf[u] # "none"}
  <2>1. ASSUME NEW u \in D PROVE u \in Task /\ ~Foreign(u, t) /\ LifeOf[u] # "none"
    <3>1. u \in Task /\ status[u] # "absent" /\ u \notin EvalTask /\ Conv[u] = Conv[t]
      BY DEF CreateInsert, Dependable, Exists, User
    <3> QED
      BY <3>1, LifeCases DEF LifeOf, Foreign
  <2> QED
    BY <2>1
<1>5. Worked' = Worked /\ {u \in Task : runs[u] > 0}' = {u \in Task : runs[u] > 0}
  BY <1>1 DEF Worked, Executing
<1>6. Promise!Submit(t)
  <2>1. [x \in Task |-> {u \in Task : ~Foreign(u, x)}][t] = {u \in Task : ~Foreign(u, t)}
    OBVIOUS
  <2> QED
    BY <1>1, <1>2, <1>3, <1>4, <1>5, <2>1
       DEF Promise!Submit, Promise!Become, LifeOf, Worked
<1> QED
  BY <1>6 DEF Promise!PromiseNext

\* So does an eval case, whose task needs nothing.
LEMMA EvalInsertMaps ==
  ASSUME TypeOK, TypeOK', DoneInv, NEW e \in Exec, NEW t \in Task, EvalInsert(e, t)
  PROVE  [Promise!PromiseNext]_(Promise!promiseVars)
<1> USE DEF TypeOK, StoreTypeOK, WorkerTypeOK
<1>1. /\ status[t] = "absent" /\ status' = [status EXCEPT ![t] = "created"]
      /\ deps' = deps /\ events' = events /\ runs' = runs
      /\ phase[e] = "idle" /\ phase' = [phase EXCEPT ![e] = "case"]
      /\ hold' = [hold EXCEPT ![e] = t]
  BY DEF EvalInsert, Move, Goto, Rest
<1>2. LifeOf' = [LifeOf EXCEPT ![t] = "waiting"]
  <2>1. Life(t)' = "waiting"
    BY <1>1, LifeAfter
  <2> QED
    BY <1>1, <2>1, OneLife DEF Same
<1>3. LifeOf[t] \in {"none"}
  BY <1>1, LifeCases DEF LifeOf
<1>4. deps' = [deps EXCEPT ![t] = {}]
  BY <1>1 DEF DoneInv
<1>5. Worked' = Worked
  BY <1>1 DEF Worked, Executing, RuntimePhases
<1>6. {u \in Task : runs[u] > 0}' = {u \in Task : runs[u] > 0}
  BY <1>1
<1>7. Promise!Submit(t)
  BY <1>2, <1>3, <1>4, <1>5, <1>6 DEF Promise!Submit, Promise!Become, LifeOf,
     Worked
<1> QED
  BY <1>7 DEF Promise!PromiseNext

\* A claim, of a user task or of an eval task, takes up a task nobody works on.
LEMMA TakeUpMaps ==
  ASSUME TypeOK, TypeOK', NEW e \in Exec, NEW t \in Task,
         status[t] = "queued", status' = [status EXCEPT ![t] = "validating"],
         UNCHANGED << events, deps, runs >>,
         phase[e] \notin Inside, phase' = [phase EXCEPT ![e] = "claimed"],
         hold' = [hold EXCEPT ![e] = t], t \notin Worked
  PROVE  [Promise!PromiseNext]_(Promise!promiseVars)
<1> USE DEF TypeOK, StoreTypeOK, WorkerTypeOK
<1>1. LifeOf' = [LifeOf EXCEPT ![t] = "working"]
  <2>1. Life(t)' = "working"
    BY LifeAfter DEF ExecutionStates
  <2> QED
    BY <2>1, OneLife DEF Same
<1>2. LifeOf[t] \in {"waiting"}
  BY LifeCases DEF LifeOf
<1>3. Worked' = Worked \cup {t}
  BY DEF Worked, Executing, Inside, RuntimePhases
<1>4. {u \in Task : runs[u] > 0}' = {u \in Task : runs[u] > 0}
  OBVIOUS
<1>5. Promise!TakeUp(t)
  BY <1>1, <1>2, <1>3, <1>4 DEF Promise!TakeUp, Promise!Become, LifeOf, Worked
<1> QED
  BY <1>5 DEF Promise!PromiseNext

\* The claim of the job thread takes up the task, or gives it up when its owner
\* lineage is poisoned.
LEMMA ClaimMaps ==
  ASSUME TypeOK, TypeOK', WorkInv, NEW t \in Task, Claim(t)
  PROVE  [Promise!PromiseNext]_(Promise!promiseVars)
<1> USE DEF TypeOK, StoreTypeOK, WorkerTypeOK
<1>1. status[t] = "queued" /\ t \notin EvalTask /\ phase[Job] = "poll"
  BY DEF Claim, Oldest, Queued
<1>2. UNCHANGED << deps, runs >>
  BY DEF Claim
<1>3. phase[Job] \notin Inside
  BY <1>1 DEF Inside, RuntimePhases
<1>4. t \notin Worked
  BY <1>1, <1>3 DEF Worked, Executing, Inside, WorkInv, Exclusive
<1>5. CASE /\ SetTaskStatus(t, "validating")
           /\ Goto(Job, "poll", "claimed") /\ hold' = [hold EXCEPT ![Job] = t]
  <2>1. /\ status' = [status EXCEPT ![t] = "validating"] /\ events' = events
        /\ phase' = [phase EXCEPT ![Job] = "claimed"]
    BY <1>5 DEF SetTaskStatus, Move, Goto
  <2> QED
    BY <1>1, <1>2, <1>3, <1>4, <1>5, <2>1, TakeUpMaps
<1>6. CASE /\ Move(t, "failed") /\ Append(t, "task_failed")
           /\ Goto(Job, "poll", "again") /\ UNCHANGED hold
  <2>1. /\ status' = [status EXCEPT ![t] = "failed"]
        /\ events' = [events EXCEPT ![t] = @ \cup {"task_failed"}]
        /\ phase' = [phase EXCEPT ![Job] = "again"] /\ hold' = hold
    BY <1>6 DEF Move, Append, Goto
  <2>2. \A u \in Task \ {t} : Same(u)
    BY <2>1 DEF Same
  <2>3. NoTake
    BY <2>1 DEF NoTake, Inside, RuntimePhases
  <2>4. \A e \in Exec : phase[e] \in Inside => phase'[e] \in Inside /\ hold'[e] = hold[e]
    BY <2>1, <1>3
  <2>5. status'[t] = "failed"
    BY <2>1
  <2> QED
    BY <1>1, <1>2, <2>2, <2>3, <2>4, <2>5, GiveUpMaps
<1> QED
  BY <1>5, <1>6 DEF Claim

\* The claim of an eval case takes up its task or leaves it.
LEMMA EvalClaimMaps ==
  ASSUME TypeOK, TypeOK', WorkInv, NEW e \in Exec, EvalClaim(e)
  PROVE  [Promise!PromiseNext]_(Promise!promiseVars)
<1> USE DEF TypeOK, StoreTypeOK, WorkerTypeOK
<1>1. phase[e] = "casequeued" /\ e \in EvalThread /\ UNCHANGED << deps, runs >>
  BY DEF EvalClaim, Rest
<1>2. PICK t \in EvalTask : t \in Task /\ t = hold[e]
  BY <1>1 DEF WorkInv, Holding, Working, Exclusive
<1>3. phase[e] \notin Inside
  BY <1>1 DEF Inside, RuntimePhases
<1>4. CASE fault \/ status[t] # "queued"
  <2>1. /\ UNCHANGED << status, events >>
        /\ phase' = [phase EXCEPT ![e] = "idle"]
        /\ hold' = [hold EXCEPT ![e] = None]
    BY <1>1, <1>2, <1>4 DEF EvalClaim, Release
  <2>2. Calm
    BY <1>1, <2>1 DEF Calm, Same, NoTake, Inside, RuntimePhases
  <2> QED
    BY <2>2, CalmMaps
<1>5. CASE ~(fault \/ status[t] # "queued")
  <2>1. /\ status' = [status EXCEPT ![t] = "validating"] /\ events' = events
        /\ phase' = [phase EXCEPT ![e] = "claimed"] /\ hold' = hold
    BY <1>1, <1>2, <1>5 DEF EvalClaim, SetTaskStatus, Move, Goto
  <2>2. hold' = [hold EXCEPT ![e] = t]
    BY <1>2, <2>1
  <2>3. t \notin Worked
    <3>1. SUFFICES ASSUME NEW f \in Executing, hold[f] = t PROVE FALSE
      BY DEF Worked
    <3>2. f \in Exec /\ phase[f] \in Inside
      BY DEF Executing, Inside
    <3>3. f # Job
      BY <1>2, <3>1, <3>2 DEF WorkInv, Exclusive, Inside, RuntimePhases
    <3> QED
      BY <1>1, <1>2, <1>3, <3>1, <3>2, <3>3 DEF WorkInv, Exclusive
  <2> QED
    BY <1>1, <1>2, <1>3, <1>5, <2>1, <2>2, <2>3, TakeUpMaps
<1> QED
  BY <1>4, <1>5

\* A workflow is entered by the thread that works on its task, for the first
\* time, on what was released.
LEMMA ActMaps ==
  ASSUME TypeOK, TypeOK', WorkInv, ReplayInv, ConsumeInv, NEW e \in Exec,
         RunWorkflow(e)
  PROVE  [Promise!PromiseNext]_(Promise!promiseVars)
<1> USE DEF TypeOK, StoreTypeOK, WorkerTypeOK
<1>1. PICK t \in Task : t = hold[e]
  BY DEF RunWorkflow, Goto, WorkInv, Holding, Working, RuntimePhases
<1>2. /\ phase[e] = "running" /\ UNCHANGED << status, events, hold, deps >>
      /\ runs' = [runs EXCEPT ![t] = @ + 1]
      /\ \E next \in {"ran", "failing"} : phase' = [phase EXCEPT ![e] = next]
  BY <1>1 DEF RunWorkflow, Goto, Rest
<1>3. runs[t] = 0 /\ Ready(t)
  BY <1>1, <1>2 DEF ReplayInv, ConsumeInv, Gate
<1>4. {u \in Task : runs[u] > 0}' = {u \in Task : runs[u] > 0} \cup {t}
  BY <1>2, <1>3
<1>5. t \in Worked /\ Worked' = Worked
  BY <1>1, <1>2 DEF Worked, Executing, RuntimePhases
<1>6. LifeOf' = LifeOf
  <2>1. \A u \in Task : Same(u)
    BY <1>2 DEF Same
  <2> QED
    BY <2>1, SameLife DEF LifeOf
<1>7. \A u \in deps[t] : u \in {v \in Task : ~Foreign(v, t)} /\ LifeOf[u] = "released"
  BY <1>3, LifeCases DEF Ready, LifeOf
<1>8. Promise!Act(t)
  <2>1. [x \in Task |-> {u \in Task : ~Foreign(u, x)}][t] = {u \in Task : ~Foreign(u, t)}
    OBVIOUS
  <2>2. t \in Worked \ {u \in Task : runs[u] > 0}
    BY <1>3, <1>5
  <2> QED
    BY <1>2, <1>4, <1>5, <1>6, <1>7, <2>1, <2>2 DEF Promise!Act, LifeOf, Worked
<1> QED
  BY <1>8 DEF Promise!PromiseNext

\* A thread that has run its task hands it to the reviewer, or releases what
\* needs none.
LEMMA ConcludeMaps ==
  ASSUME TypeOK, TypeOK', WorkInv, StageInv, DoneInv, NEW e \in Exec,
         RequestReview(e) \/ Complete(e)
  PROVE  [Promise!PromiseNext]_(Promise!promiseVars)
<1> USE DEF TypeOK, StoreTypeOK, WorkerTypeOK
<1>1. phase[e] \in {"sampled", "analyzing"} /\ phase' = [phase EXCEPT ![e] = "closing"]
  BY DEF RequestReview, Complete, Goto
<1>2. PICK t \in Task : t = hold[e]
  BY <1>1 DEF WorkInv, Holding, Working, RuntimePhases
<1>3. UNCHANGED << deps, runs, hold >> /\ runs[t] > 0
  BY <1>1, <1>2 DEF RequestReview, Complete, Rest, DoneInv
<1>4. t \in Worked /\ Worked' = Worked
  BY <1>1, <1>2, <1>3 DEF Worked, Executing, RuntimePhases
<1>5. /\ \A u \in Task \ {t} : Same(u)
      /\ status[t] \in ExecutionStates
      /\ Life(t)' = IF t \in AutoTask THEN "released" ELSE "review"
  <2>1. CASE RequestReview(e)
    <3>1. /\ t \notin AutoTask /\ Legal(t, "waiting_review")
          /\ status' = [status EXCEPT ![t] = "waiting_review"]
          /\ events' = [events EXCEPT ![t] = @ \cup {"review_requested"}]
      BY <1>2, <2>1 DEF RequestReview, NeedsReview, MoveWithEvent, Move, Append
    <3>2. status[t] \in ExecutionStates
      BY <3>1, LegalMoves DEF ExecutionStates
    <3> QED
      BY <3>1, <3>2, LifeAfter DEF Same
  <2>2. CASE Complete(e)
    <3>1. /\ Legal(t, "completed") /\ phase[e] = "analyzing"
          /\ status' = [status EXCEPT ![t] = "completed"]
          /\ events' = [events EXCEPT ![t] = @ \cup {"task_completed"}]
      BY <1>2, <2>2 DEF Complete, MoveWithEvent, Move, Append, Goto
    <3>2. t \in AutoTask /\ status[t] \in {"cancelled", "failed", "analyzing"}
      BY <1>2, <3>1 DEF StageInv, Rows, Dead
    <3>3. status[t] \in ExecutionStates
      BY <3>1, <3>2, LegalMoves DEF ExecutionStates
    <3>4. SignedOff(t)'
      BY <3>2 DEF SignedOff
    <3> QED
      BY <3>1, <3>2, <3>3, <3>4, LifeAfter DEF Same
  <2> QED
    BY <2>1, <2>2
<1>6. LifeOf' = [LifeOf EXCEPT ![t] = IF t \in AutoTask THEN "released" ELSE "review"]
  BY <1>5, OneLife
<1>7. LifeOf[t] \in {"working"}
  BY <1>5, LifeCases DEF LifeOf
<1>8. t \in Worked \cap {u \in Task : runs[u] > 0}
  BY <1>3, <1>4
<1>9. {u \in Task : runs[u] > 0}' = {u \in Task : runs[u] > 0}
  BY <1>3
<1>10. Promise!Conclude(t)
  BY <1>3, <1>4, <1>6, <1>7, <1>8, <1>9
     DEF Promise!Conclude, Promise!Become, LifeOf, Worked
<1> QED
  BY <1>10 DEF Promise!PromiseNext

\* The reviewer of a user task decides it.
LEMMA JudgeMaps ==
  ASSUME TypeOK, TypeOK', UNCHANGED workerVars, NEW t \in Task,
         Approve(t) \/ Reject(t)
  PROVE  [Promise!PromiseNext]_(Promise!promiseVars)
<1> USE DEF TypeOK, StoreTypeOK
<1>1. /\ status[t] = "waiting_review" /\ t \in Task \ EvalTask
      /\ UNCHANGED << deps, phase, hold, runs >>
  BY DEF Approve, Reject, Decide, User, workerVars
<1>2. /\ \A u \in Task \ {t} : Same(u)
      /\ Life(t)' \in {"released", "failed"}
  <2>1. CASE Approve(t)
    <3>1. /\ status' = [status EXCEPT ![t] = "completed"]
          /\ events' = [events EXCEPT ![t] = @ \cup {"review_approved"}]
      BY <2>1 DEF Approve, Decide, MoveWithEvent, Move, Append
    <3>2. SignedOff(t)'
      BY <3>1 DEF SignedOff
    <3> QED
      BY <3>1, <3>2, LifeAfter DEF Same
  <2>2. CASE Reject(t)
    <3>1. /\ status' = [status EXCEPT ![t] = "failed"]
          /\ events' = [events EXCEPT ![t] = @ \cup {"review_rejected"}]
      BY <2>2 DEF Reject, Decide, MoveWithEvent, Move, Append
    <3> QED
      BY <3>1, LifeAfter DEF Same
  <2> QED
    BY <2>1, <2>2
<1>3. LifeOf' = [LifeOf EXCEPT ![t] = Life(t)']
  BY <1>2, OneLife
<1>4. LifeOf[t] \in {"review"}
  BY <1>1, LifeCases DEF LifeOf
<1>5. Worked' = Worked /\ {u \in Task : runs[u] > 0}' = {u \in Task : runs[u] > 0}
  BY <1>1 DEF Worked, Executing
<1>6. Promise!Judge(t)
  BY <1>1, <1>2, <1>3, <1>4, <1>5 DEF Promise!Judge, Promise!Become, LifeOf,
     Worked
<1> QED
  BY <1>6 DEF Promise!PromiseNext

\* A cancel, by a request or by the resolver, and a recovery take a task from
\* whoever works on it.
LEMMA OthersMap ==
  ASSUME TypeOK, TypeOK', WorkInv, NEW t \in Task,
         \/ CancelWrite(t) /\ UNCHANGED workerVars
         \/ ResolveWrite(t) /\ CancelDependent(t)
         \/ Recover(t)
  PROVE  [Promise!PromiseNext]_(Promise!promiseVars)
<1> USE DEF TypeOK, StoreTypeOK, WorkerTypeOK
<1>1. CASE CancelWrite(t) /\ UNCHANGED workerVars
  <2>1. /\ Legal(t, "cancelled") /\ status' = [status EXCEPT ![t] = "cancelled"]
        /\ UNCHANGED << events, deps, runs, phase, hold >>
    BY <1>1 DEF CancelWrite, SetTaskStatus, Move, workerVars
  <2>2. status[t] \in {"created", "queued"} \cup ExecutionStates
    BY <2>1, LegalMoves, LifeCases
  <2>3. /\ \A u \in Task \ {t} : Same(u)
        /\ NoTake /\ status'[t] = "cancelled"
    BY <2>1 DEF Same, NoTake
  <2> QED
    BY <2>1, <2>2, <2>3, GiveUpMaps
<1>2. CASE ResolveWrite(t) /\ CancelDependent(t)
  <2>1. /\ status[t] = "created" /\ status' = [status EXCEPT ![t] = "cancelled"]
        /\ events' = [events EXCEPT ![t] = @ \cup {"task_cancelled"}]
        /\ UNCHANGED << deps, runs >>
        /\ phase[Job] = "decide" /\ phase' = [phase EXCEPT ![Job] = "resolve"]
        /\ hold' = [hold EXCEPT ![Job] = None]
    BY <1>2 DEF ResolveWrite, ResolveForget, CancelDependent, MoveWithEvent,
       Move, Append, Goto
  <2>2. /\ \A u \in Task \ {t} : Same(u)
        /\ status'[t] = "cancelled"
    BY <2>1 DEF Same
  <2>3. phase[Job] \notin Inside /\ phase'[Job] \notin Inside
    BY <2>1 DEF Inside, RuntimePhases
  <2>4. \A e \in Exec : phase[e] \in Inside \/ phase'[e] \in Inside =>
           phase'[e] = phase[e] /\ hold'[e] = hold[e]
    BY <2>1, <2>3
  <2>5. NoTake
    BY <2>4 DEF NoTake
  <2> QED
    BY <2>1, <2>2, <2>4, <2>5, GiveUpMaps
<1>3. CASE Recover(t) /\ status[t] \in ExecutionStates
  <2>1. /\ status' = [status EXCEPT ![t] = "failed"]
        /\ UNCHANGED << events, deps, runs >>
        /\ phase[Job] = "recover" /\ phase' = [phase EXCEPT ![Job] = "recovered"]
        /\ hold' = [hold EXCEPT ![Job] = t]
    BY <1>3 DEF Recover, SetTaskStatus, Move, Goto
  <2>2. /\ \A u \in Task \ {t} : Same(u)
        /\ status'[t] = "failed"
    BY <2>1 DEF Same
  <2>3. phase[Job] \notin Inside /\ phase'[Job] \notin Inside
    BY <2>1 DEF Inside, RuntimePhases
  <2>4. \A e \in Exec : phase[e] \in Inside \/ phase'[e] \in Inside =>
           phase'[e] = phase[e] /\ hold'[e] = hold[e]
    BY <2>1, <2>3
  <2>5. NoTake
    BY <2>4 DEF NoTake
  <2> QED
    BY <1>3, <2>1, <2>2, <2>4, <2>5, GiveUpMaps
<1>4. CASE Recover(t) /\ status[t] \notin ExecutionStates
  <2>1. UNCHANGED << status, events, deps, runs, phase, hold >>
    BY <1>4 DEF Recover
  <2>2. Calm
    BY <2>1 DEF Calm, Same, NoTake
  <2> QED
    BY <2>2, CalmMaps
<1> QED
  BY <1>1, <1>2, <1>3, <1>4

\* A thread that fails its task gives it up, at once or in its next steps; one
\* that finds it moved lets go of it.
LEMMA FailureMaps ==
  ASSUME TypeOK, TypeOK', WorkInv, StageInv, NEW e \in Exec,
         Quarantine(e) \/ MarkFailed(e) \/ FailBestEffort(e)
  PROVE  [Promise!PromiseNext]_(Promise!promiseVars)
<1> USE DEF TypeOK, StoreTypeOK, WorkerTypeOK
<1>1. phase[e] \in {"claimed", "refusing", "failing", "boom"}
  BY DEF Quarantine, MarkFailed, FailBestEffort, Goto
<1>2. PICK t \in Task : t = hold[e]
  BY <1>1 DEF WorkInv, Holding, Working, RuntimePhases
<1>3. UNCHANGED << deps, runs >>
  BY DEF Quarantine, MarkFailed, FailBestEffort, Rest
<1>4. /\ \A f \in Exec \ {e} : phase'[f] = phase[f] /\ hold'[f] = hold[f]
      /\ phase'[e] \in Inside => hold'[e] = hold[e]
  BY DEF Quarantine, MarkFailed, FailBestEffort, Goto, Release, Inside,
     RuntimePhases
<1>5. NoTake
  BY <1>1, <1>4 DEF NoTake, Inside, RuntimePhases
<1>6. \A f \in Exec : phase[f] \in Inside /\ hold[f] # t =>
         phase'[f] \in Inside /\ hold'[f] = hold[f]
  BY <1>2, <1>4
<1>7. CASE status[t] \in ExecutionStates
  <2>1. /\ status' = [status EXCEPT ![t] = "failed"]
        /\ \/ events' = events
           \/ events' = [events EXCEPT ![t] = @ \cup {"task_failed"}]
    BY <1>2, <1>7 DEF Quarantine, MarkFailed, FailBestEffort, SetTaskStatus,
       Move, Append
  <2>2. /\ \A u \in Task \ {t} : Same(u)
        /\ status'[t] = "failed"
    BY <2>1 DEF Same
  <2> QED
    BY <1>3, <1>5, <1>6, <1>7, <2>2, GiveUpMaps
<1>8. CASE status[t] \notin ExecutionStates
  <2>1. ~MarkFailed(e)
    <3>1. SUFFICES ASSUME MarkFailed(e) PROVE FALSE
      OBVIOUS
    <3>2. Legal(t, "failed") /\ phase[e] \in {"refusing", "failing"}
      BY <1>2, <3>1 DEF MarkFailed, SetTaskStatus, Goto
    <3>3. status[t] \in Dead \cup {"validating", "running"}
      BY <1>2, <3>2 DEF StageInv, Rows
    <3> QED
      BY <1>8, <3>2, <3>3, LegalMoves DEF Dead, ExecutionStates
  <2>2. /\ status' = status
        /\ \/ events' = events
           \/ events' = [events EXCEPT ![t] = @ \cup {"warning"}]
    BY <1>2, <1>8, <2>1 DEF Quarantine, FailBestEffort, Append
  <2>3. \A u \in Task : Same(u)
    <3>1. SUFFICES ASSUME NEW u \in Task
          PROVE  "review_approved" \in events'[u] <=> "review_approved" \in events[u]
      BY <2>2 DEF Same
    <3>2. events \in [Task -> SUBSET EventTypes]
      BY DEF TypeOK, StoreTypeOK
    <3>3. CASE events' = events
      BY <3>3
    <3>4. CASE events' = [events EXCEPT ![t] = @ \cup {"warning"}]
      <4>1. CASE u = t
        BY ONLY <3>2, <3>4, <4>1
      <4>2. CASE u # t
        BY ONLY <3>1, <3>2, <3>4, <4>2
      <4> QED
        BY <4>1, <4>2
    <3> QED
      BY <2>2, <3>3, <3>4
  <2>4. Calm
    BY <1>3, <1>5, <2>3 DEF Calm
  <2> QED
    BY <2>4, CalmMaps
<1> QED
  BY <1>7, <1>8

\* What the promise rests on: who holds which task at which status (WorkInv,
\* StageInv), that a task that waits has not run (ReplayInv), that a workflow is
\* only entered on released inputs (ConsumeInv), and DoneInv.
PromiseInv == TypeOK /\ WorkInv /\ StageInv /\ ReplayInv /\ ConsumeInv /\ DoneInv

\* Every step of the Task Center is a step of the promise or none.
LEMMA PromiseStep ==
  ASSUME PromiseInv, TypeOK', [Next]_vars
  PROVE  [Promise!PromiseNext]_(Promise!promiseVars)
<1> USE DEF PromiseInv
<1>1. CASE Calm
  BY <1>1, CalmMaps
<1>2. CASE Special
  BY <1>2, InsertMaps, OthersMap, JudgeMaps, ClaimMaps, EvalInsertMaps,
     FailureMaps, ActMaps, ConcludeMaps, EvalClaimMaps DEF Special
<1> QED
  BY <1>1, <1>2, StepKinds

\* At first nobody works, and the rows of an earlier release wait or have ended.
LEMMA PromiseStart == Init => Promise!PromiseInit
<1> SUFFICES ASSUME Init PROVE Promise!PromiseInit
  OBVIOUS
<1>1. TypeOK
  BY InitType
<1>2. \A t \in Task : status[t] \in {"absent", "created", "queued", "completed", "failed"}
  BY DEF Init
<1>3. LifeOf \in [Task -> Promise!Ends \cup {"none", "waiting"}]
  BY <1>1, <1>2, LifeCases DEF LifeOf, Promise!Ends
<1>4. deps \in [Task -> SUBSET Task]
  BY <1>1 DEF TypeOK, StoreTypeOK
<1>5. Worked = {} /\ {t \in Task : runs[t] > 0} = {}
  <2>1. \A e \in Exec : phase[e] \in {"idle", "down"}
    BY DEF Init
  <2>2. \A t \in Task : runs[t] = 0
    BY DEF Init
  <2> QED
    BY <2>1, <2>2 DEF Worked, Executing, RuntimePhases
<1> QED
  BY <1>3, <1>4, <1>5 DEF Promise!PromiseInit, LifeOf, Worked

\* Requests, resolver, recovery, threads and crashes together implement the
\* life a task is promised, for any tasks, threads, dependencies and old rows.
THEOREM PromiseCorrect == Spec => ImplementsPromise
<1>1. Init => Promise!PromiseInit
  BY PromiseStart
<1>2. PromiseInv /\ TypeOK' /\ [Next]_vars
         => [Promise!PromiseNext]_(Promise!promiseVars)
  BY PromiseStep
<1> QED
  BY <1>1, <1>2, TypeCorrect, WorkCorrect, StageCorrect, InitReplay,
     NextReplay,
     InitConsume, NextConsume, InitDone, NextDone, PTL
     DEF Spec, PromiseInv, ImplementsPromise, Promise!PromiseSpec

=============================================================================
