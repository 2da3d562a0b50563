-------------------------- MODULE TaskCenter_proofs --------------------------
(***************************************************************************)
(* Theorems about TaskCenter for every set of tasks and threads, every     *)
(* dependency graph, every legacy state and every number of disturbances:  *)
(* the types, what the row of a task can be while a thread works on it, and*)
(* what follows about replay, reviews and consumption.                     *)
(***************************************************************************)
EXTENDS TaskCenter, TLAPS

USE KindsAssumption, RequestsAssumption, ThreadsAssumption
    DEF Exec

-----------------------------------------------------------------------------
(* Types *)

LEMMA InitType == Init => TypeOK
<1> SUFFICES ASSUME Init PROVE TypeOK
  OBVIOUS
<1> USE DEF Init
<1>1. StoreTypeOK
  <2>1. status \in [Task -> States \cup {"absent"}]
    BY DEF States
  <2>2. deps \in [Task -> SUBSET Task] /\ inputs \in [Task -> SUBSET Task]
    OBVIOUS
  <2>3. /\ binding \in [Task -> SUBSET Task] /\ witness \in [Task -> SUBSET Task]
        /\ before \in [Task -> SUBSET Task]
    OBVIOUS
  <2>4. /\ classif \in [Task -> Levels \cup {"null"}]
        /\ sample \in [Task -> {"none", "success", "failure", "accepted", "rejected"}]
    OBVIOUS
  <2>7. artifact \in [Task -> {"none", "registered", "listed", "stray"}]
    OBVIOUS
  <2>5. events \in [Task -> SUBSET EventTypes]
    BY DEF EventTypes
  <2>6. disturbed \in 0 .. MaxDisturb
    OBVIOUS
  <2>8. fault \in BOOLEAN
    OBVIOUS
  <2> QED
    BY <2>1, <2>2, <2>3, <2>4, <2>5, <2>6, <2>7, <2>8 DEF StoreTypeOK
<1>2. ApiTypeOK
  BY DEF ApiTypeOK, Started
<1>3. WorkerTypeOK
  <2>1. phase \in [Exec -> Phases]
    BY DEF Phases, RuntimePhases
  <2> QED
    BY <2>1 DEF WorkerTypeOK
<1> QED
  BY <1>1, <1>2, <1>3 DEF TypeOK


\* the two elementary writes keep the columns they write in range
LEMMA Typed ==
  ASSUME TypeOK, NEW t
  PROVE  /\ \A s \in States : Move(t, s) => status' \in [Task -> States \cup {"absent"}]
         /\ \A type \in EventTypes : Append(t, type) => events' \in [Task -> SUBSET EventTypes]
BY DEF TypeOK, StoreTypeOK, Move, Append

LEMMA NextType == TypeOK /\ [Next]_vars => TypeOK'
<1> SUFFICES ASSUME TypeOK, [Next]_vars PROVE TypeOK'
  OBVIOUS
<1> USE DEF TypeOK, StoreTypeOK, ApiTypeOK, WorkerTypeOK, rows, storeVars,
        apiVars, workerVars, local, Rest, Goto, Release, Disturb, Move, Append,
        SetTaskStatus, MoveWithEvent, States, EventTypes, Phases, RuntimePhases
<1>1. ASSUME NEW t \in Task, NEW D \in SUBSET Task, NEW B \in SUBSET D,
             CreateInsert(t, D, B), UNCHANGED workerVars
      PROVE  TypeOK'
  BY <1>1 DEF CreateInsert
<1>2. ASSUME NEW t \in Task, CreateEnqueue(t), UNCHANGED workerVars
      PROVE  TypeOK'
  BY <1>2 DEF CreateEnqueue
<1>3. ASSUME NEW t \in Task, CreateRefused(t), UNCHANGED workerVars
      PROVE  TypeOK'
  BY <1>3 DEF CreateRefused
<1>4. ASSUME NEW t \in Task, CreateEvent(t), UNCHANGED workerVars PROVE TypeOK'
  BY <1>4 DEF CreateEvent
<1>5. ASSUME NEW t \in Task, CancelRead(t), UNCHANGED workerVars PROVE TypeOK'
  BY <1>5 DEF CancelRead
<1>6. ASSUME NEW t \in Task, CancelWrite(t), UNCHANGED workerVars PROVE TypeOK'
  BY <1>6 DEF CancelWrite
<1>7. ASSUME NEW t \in Task, CancelRefused(t), UNCHANGED workerVars
      PROVE  TypeOK'
  BY <1>7 DEF CancelRefused
<1>8. ASSUME NEW t \in Task, CancelEvent(t), UNCHANGED workerVars PROVE TypeOK'
  BY <1>8 DEF CancelEvent
<1>9. ASSUME NEW t \in Task, Approve(t), UNCHANGED workerVars PROVE TypeOK'
  BY <1>9 DEF Approve, Decide, Label
<1>10. ASSUME NEW t \in Task, Reject(t), UNCHANGED workerVars PROVE TypeOK'
  BY <1>10 DEF Reject, Decide, Label
<1>11. ASSUME NEW t \in Task, ApiAbandon(t), UNCHANGED workerVars PROVE TypeOK'
  BY <1>11 DEF ApiAbandon
<1>12. ASSUME ResolveScan, UNCHANGED apiVars PROVE TypeOK'
  BY <1>12 DEF ResolveScan, Candidates
<1>13. ASSUME ResolveNotDue, UNCHANGED apiVars PROVE TypeOK'
  BY <1>13 DEF ResolveNotDue
<1>14. ASSUME ResolveDone, UNCHANGED apiVars PROVE TypeOK'
  BY <1>14 DEF ResolveDone
<1>15. ASSUME NEW t \in Task, ResolveRead(t), UNCHANGED apiVars PROVE TypeOK'
  BY <1>15 DEF ResolveRead, Pipeable, BoundUpstreams
<1>16. ASSUME NEW t \in Task, ResolvePoison(t), UNCHANGED apiVars PROVE TypeOK'
  BY <1>16 DEF ResolvePoison
<1>17. ASSUME NEW t \in Task, ResolveWrite(t), UNCHANGED apiVars PROVE TypeOK'
  <2>1. UNCHANGED << deps, binding, before, artifact, sample, fault, disturbed,
                     todo, runs, lossy, create, cancel >>
    BY <1>17 DEF ResolveWrite
  <2>2. phase' \in [Exec -> Phases] /\ hold' \in [Exec -> Task \cup {None}]
        /\ verdict' \in {"none", "enqueue", "cancel"} /\ piped' \in SUBSET Task
    BY <1>17 DEF ResolveWrite, ResolveForget
  <2>3. CASE EnqueueDependent(t)
    BY <2>1, <2>2, <2>3 DEF EnqueueDependent
  <2>4. CASE CancelDependent(t)
    BY <2>1, <2>2, <2>4 DEF CancelDependent, Classify
  <2>5. CASE UNCHANGED << status, events, inputs, witness, classif >>
    BY <2>1, <2>2, <2>5
  <2> QED
    BY <1>17, <2>3, <2>4, <2>5 DEF ResolveWrite
<1>18. ASSUME Start, UNCHANGED apiVars PROVE TypeOK'
  BY <1>18 DEF Start
<1>19. ASSUME RecoverEvent, UNCHANGED apiVars PROVE TypeOK'
  BY <1>19 DEF RecoverEvent
<1>20. ASSUME RecoverDone, UNCHANGED apiVars PROVE TypeOK'
  BY <1>20 DEF RecoverDone, InWorker
<1>21. ASSUME NEW t \in Task, Recover(t), UNCHANGED apiVars PROVE TypeOK'
  <2>1. /\ phase' \in [Exec -> Phases] /\ hold' \in [Exec -> Task \cup {None}]
        /\ todo' \in SUBSET Task
        /\ UNCHANGED << deps, binding, inputs, witness, before, classif, artifact,
                        sample, fault, disturbed, apiVars, verdict, piped, runs,
                        lossy, events >>
    BY <1>21 DEF Recover
  <2>2. UNCHANGED status \/ Move(t, "failed")
    BY <1>21 DEF Recover
  <2>3. status' \in [Task -> States \cup {"absent"}]
    BY ONLY TypeOK, <2>2, Typed DEF TypeOK, StoreTypeOK, States
  <2> QED
    BY <2>1, <2>3
<1>22. ASSUME PollNothing, UNCHANGED apiVars PROVE TypeOK'
  BY <1>22 DEF PollNothing
<1>23. ASSUME NEW t \in Task, Claim(t), UNCHANGED apiVars PROVE TypeOK'
  <2>1. CASE phase'[Job] = "claimed"
    BY <1>23, <2>1, SMTT(30) DEF Claim
  <2>2. CASE phase'[Job] # "claimed"
    BY <1>23, <2>2, SMTT(30) DEF Claim
  <2> QED
    BY <2>1, <2>2
<1>24. ASSUME NEW e \in Exec, Quarantine(e), UNCHANGED apiVars PROVE TypeOK'
  <2>1. /\ phase' \in [Exec -> Phases] /\ hold' \in [Exec -> Task \cup {None}]
        /\ UNCHANGED << deps, binding, inputs, witness, before, classif, artifact,
                        sample, fault, disturbed, apiVars, local, runs, lossy >>
    BY <1>24 DEF Quarantine
  <2>2. \/ UNCHANGED << status, events >>
        \/ Move(hold[e], "failed") /\ Append(hold[e], "task_failed")
    BY <1>24 DEF Quarantine
  <2>3. status' \in [Task -> States \cup {"absent"}]
    BY ONLY TypeOK, <2>2, Typed DEF TypeOK, StoreTypeOK, States
  <2>4. events' \in [Task -> SUBSET EventTypes]
    BY ONLY TypeOK, <2>2, Typed DEF TypeOK, StoreTypeOK, EventTypes
  <2> QED
    BY <2>1, <2>3, <2>4
<1>25. ASSUME NEW e \in Exec, Refuse(e), UNCHANGED apiVars PROVE TypeOK'
  BY <1>25 DEF Refuse, Classify
<1>26. ASSUME NEW e \in Exec, Derive(e), UNCHANGED apiVars PROVE TypeOK'
  <2>1. PICK level \in Levels : Classify(hold[e], level)
    BY <1>26 DEF Derive
  <2>2. classif' \in [Task -> Levels \cup {"null"}]
    BY <2>1 DEF Classify
  <2> QED
    BY <1>26, <2>2 DEF Derive
<1>27. ASSUME NEW e \in Exec, StartValidation(e), UNCHANGED apiVars
      PROVE  TypeOK'
  BY <1>27 DEF StartValidation
<1>28. ASSUME NEW e \in Exec, ValidatePass(e), UNCHANGED apiVars PROVE TypeOK'
  BY <1>28 DEF ValidatePass
<1>29. ASSUME NEW e \in Exec, ValidateFail(e), UNCHANGED apiVars PROVE TypeOK'
  BY <1>29 DEF ValidateFail
<1>30. ASSUME NEW e \in Exec, EnterRunning(e), UNCHANGED apiVars PROVE TypeOK'
  BY <1>30 DEF EnterRunning
<1>31. ASSUME NEW e \in Exec, RunWorkflow(e), UNCHANGED apiVars PROVE TypeOK'
  <2>1. runs' \in [Task -> Nat]
    <3>1. runs' = [runs EXCEPT ![hold[e]] = runs[hold[e]] + 1]
      BY <1>31 DEF RunWorkflow
    <3>2. \A t \in Task : runs[t] + 1 \in Nat
      OBVIOUS
    <3> QED
      BY <3>1, <3>2
  <2>2. phase' \in [Exec -> Phases]
    BY <1>31 DEF RunWorkflow
  <2> QED
    BY <1>31, <2>1, <2>2 DEF RunWorkflow
<1>32. ASSUME NEW e \in Exec, RegisterOutputs(e), UNCHANGED apiVars
      PROVE  TypeOK'
  BY <1>32 DEF RegisterOutputs
<1>33. ASSUME NEW e \in Exec, SetTaskOutputs(e), UNCHANGED apiVars
      PROVE  TypeOK'
  BY <1>33 DEF SetTaskOutputs
<1>34. ASSUME NEW e \in Exec, RecordSample(e), UNCHANGED apiVars PROVE TypeOK'
  BY <1>34 DEF RecordSample, Sampled
<1>35. ASSUME NEW e \in Exec, RequestReview(e), UNCHANGED apiVars PROVE TypeOK'
  BY <1>35 DEF RequestReview
<1>36. ASSUME NEW e \in Exec, EnterAnalyzing(e), UNCHANGED apiVars
      PROVE  TypeOK'
  BY <1>36 DEF EnterAnalyzing
<1>37. ASSUME NEW e \in Exec, Complete(e), UNCHANGED apiVars PROVE TypeOK'
  BY <1>37 DEF Complete
<1>38. ASSUME NEW e \in Exec, Close(e), UNCHANGED apiVars PROVE TypeOK'
  BY <1>38 DEF Close
<1>39. ASSUME NEW e \in Exec, MarkFailed(e), UNCHANGED apiVars PROVE TypeOK'
  <2>1. phase' \in [Exec -> Phases]
    BY <1>39 DEF MarkFailed
  <2>2. status' \in [Task -> States \cup {"absent"}]
    BY <1>39 DEF MarkFailed
  <2> QED
    BY <1>39, <2>1, <2>2 DEF MarkFailed
<1>40. ASSUME NEW e \in Exec, FailedEvent(e), UNCHANGED apiVars PROVE TypeOK'
  <2>1. phase' \in [Exec -> Phases] /\ hold' \in [Exec -> Task \cup {None}]
    <3>1. CASE phase[e] = "failed"
      BY <1>40, <3>1 DEF FailedEvent
    <3>2. CASE phase[e] = "refused"
      BY <1>40, <3>2, SMTT(30) DEF FailedEvent
    <3> QED
      BY <1>40, <3>1, <3>2 DEF FailedEvent
  <2>2. events' \in [Task -> SUBSET EventTypes]
    BY <1>40 DEF FailedEvent
  <2> QED
    BY <1>40, <2>1, <2>2 DEF FailedEvent
<1>41. ASSUME NEW e \in Exec, FailureSample(e), UNCHANGED apiVars PROVE TypeOK'
  BY <1>41 DEF FailureSample, Sampled
<1>42. ASSUME NEW e \in Exec, Race(e), UNCHANGED apiVars PROVE TypeOK'
  <2>1. CASE e = Job
    BY <1>42, <2>1, SMTT(30) DEF Race
  <2>2. CASE e # Job
    BY <1>42, <2>2, SMTT(30) DEF Race
  <2> QED
    BY <2>1, <2>2
<1>43. ASSUME NEW e \in Exec, FailBestEffort(e), UNCHANGED apiVars
      PROVE  TypeOK'
  <2>1. CASE status[hold[e]] \in ExecutionStates /\ e = Job
    BY <1>43, <2>1, SMTT(30) DEF FailBestEffort
  <2>2. CASE status[hold[e]] \in ExecutionStates /\ e # Job
    BY <1>43, <2>2, SMTT(30) DEF FailBestEffort
  <2>3. CASE status[hold[e]] \notin ExecutionStates /\ e = Job
    BY <1>43, <2>3, SMTT(30) DEF FailBestEffort
  <2>4. CASE status[hold[e]] \notin ExecutionStates /\ e # Job
    BY <1>43, <2>4, SMTT(30) DEF FailBestEffort
  <2> QED
    BY <2>1, <2>2, <2>3, <2>4
<1>44. ASSUME NEW e \in Exec, FailBestEffortEvent(e), UNCHANGED apiVars
      PROVE  TypeOK'
  BY <1>44 DEF FailBestEffortEvent
<1>45. ASSUME NEW e \in Exec, NEW t \in Task, EvalInsert(e, t), UNCHANGED
              apiVars
      PROVE  TypeOK'
  BY <1>45 DEF EvalInsert
<1>46. ASSUME NEW e \in Exec, EvalQueue(e), UNCHANGED apiVars PROVE TypeOK'
  BY <1>46 DEF EvalQueue
<1>47. ASSUME NEW e \in Exec, EvalClaim(e), UNCHANGED apiVars PROVE TypeOK'
  <2>1. /\ phase' \in [Exec -> Phases] /\ hold' \in [Exec -> Task \cup {None}]
        /\ UNCHANGED << deps, binding, inputs, witness, before, classif, artifact,
                        sample, fault, disturbed, apiVars, local, runs, lossy,
                        events >>
    BY <1>47 DEF EvalClaim
  <2>2. UNCHANGED status \/ Move(hold[e], "validating")
    BY <1>47 DEF EvalClaim
  <2>3. status' \in [Task -> States \cup {"absent"}]
    BY ONLY TypeOK, <2>2, Typed DEF TypeOK, StoreTypeOK, States
  <2> QED
    BY <2>1, <2>3
<1>48. ASSUME NEW e \in Exec, EvalRaise(e), UNCHANGED apiVars PROVE TypeOK'
  BY <1>48 DEF EvalRaise
<1>49. ASSUME NEW e \in Exec, CliStop(e), UNCHANGED apiVars PROVE TypeOK'
  BY <1>49 DEF CliStop
<1>50. ASSUME Crash, UNCHANGED apiVars PROVE TypeOK'
  BY <1>50 DEF Crash, InWorker
<1>51. ASSUME ResolveAbort, UNCHANGED apiVars PROVE TypeOK'
  BY <1>51 DEF ResolveAbort, ResolveForget
<1>52. ASSUME NEW e \in Exec, Raise(e), UNCHANGED apiVars PROVE TypeOK'
  BY <1>52 DEF Raise
<1>53. ASSUME NEW e \in Exec, LoseFailure(e), UNCHANGED apiVars PROVE TypeOK'
  BY <1>53 DEF LoseFailure
<1>54. CASE Latch \/ Backfill
  <2>1. fault' \in BOOLEAN
    BY <1>54 DEF Latch, Backfill
  <2>2. disturbed' \in 0 .. MaxDisturb
    BY <1>54 DEF Latch, Backfill
  <2> QED
    BY <1>54, <2>1, <2>2 DEF Latch, Backfill
<1>55. CASE UNCHANGED vars
  BY <1>55 DEF vars
<1> QED
  BY ONLY [Next]_vars, <1>1, <1>2, <1>3, <1>4, <1>5, <1>6, <1>7, <1>8,
     <1>9, <1>10, <1>11, <1>12, <1>13, <1>14, <1>15, <1>16, <1>17,
     <1>18, <1>19, <1>20, <1>21, <1>22, <1>23, <1>24, <1>25, <1>26,
     <1>27, <1>28, <1>29, <1>30, <1>31, <1>32, <1>33, <1>34, <1>35,
     <1>36, <1>37, <1>38, <1>39, <1>40, <1>41, <1>42, <1>43, <1>44,
     <1>45, <1>46, <1>47, <1>48, <1>49, <1>50, <1>51, <1>52, <1>53,
     <1>54, <1>55
     DEF Next, ApiStep, Creating, Cancelling, WorkerStep, JobStep, ResolverStep,
         RecoveryStep, ClaimStep, RuntimeStep, EvalStep, Disturbance

\* Every column and every thread variable stays in its range, in every
\* behaviour of the Task Center.
THEOREM TypeCorrect == Spec => []TypeOK
BY InitType, NextType, PTL DEF Spec

-----------------------------------------------------------------------------
(* Who works on what *)

Working == RuntimePhases \cup
           {"boom", "boomed", "recovered", "decide", "case", "casequeued"}

\* a thread that works holds a task
Holding == \A e \in Exec : phase[e] \in Working => hold[e] \in Task

\* whatever a thread, a scan or a request refers to has a row
Known ==
    /\ \A e \in Exec : hold[e] # None => status[hold[e]] # "absent"
    /\ \A t \in todo : status[t] # "absent"
    /\ \A t \in Task :
          /\ create[t] \in {"inserted", "stored"} => status[t] # "absent"
          /\ cancel[t] \in {"read", "written"} => status[t] # "absent"
          /\ status[t] = "absent" => events[t] = {} /\ runs[t] = 0

\* no two threads work on one task, except that the recovery may be failing
\* an eval task the CLI is executing
Exclusive ==
    /\ \A e \in EvalThread : hold[e] \in EvalTask \cup {None}
    /\ phase[Job] # "recovered" => hold[Job] \notin EvalTask
    /\ phase[Job] \in {"resolve", "decide"} => todo \cap EvalTask = {}
    /\ \A e, f \in EvalThread : hold[e] = hold[f] /\ hold[e] # None => e = f

WorkInv == Holding /\ Known /\ Exclusive

LEMMA InitWork == Init => WorkInv
<1> SUFFICES ASSUME Init PROVE WorkInv
  OBVIOUS
<1> USE DEF Init
<1>1. Holding
  BY DEF Holding, Working, RuntimePhases
<1>2. Known
  BY DEF Known, Started
<1>3. Exclusive
  BY DEF Exclusive
<1> QED
  BY <1>1, <1>2, <1>3 DEF WorkInv

\* a thread that lets go of its task disturbs none of this
LEMMA Freed ==
  ASSUME TypeOK, WorkInv, NEW e \in Exec, Release(e), hold[e] \in Task,
         NEW s \in States,
         \/ status' = status
         \/ status' = [status EXCEPT ![hold[e]] = s],
         NEW E \in SUBSET EventTypes,
         events' = events \/ events' = [events EXCEPT ![hold[e]] = E],
         UNCHANGED << todo, create, cancel, runs >>
  PROVE  WorkInv'
<1> USE DEF TypeOK, StoreTypeOK, ApiTypeOK, WorkerTypeOK, Release, Working,
        RuntimePhases, WorkInv, Holding, Known, Exclusive
<1>1. Holding'
  OBVIOUS
<1>2. Known'
  BY DEF States
<1>3. Exclusive'
  OBVIOUS
<1> QED
  BY <1>1, <1>2, <1>3

LEMMA NextWork == TypeOK /\ WorkInv /\ [Next]_vars => WorkInv'
<1> SUFFICES ASSUME TypeOK, WorkInv, [Next]_vars PROVE WorkInv'
  OBVIOUS
<1> USE DEF TypeOK, StoreTypeOK, ApiTypeOK, WorkerTypeOK, rows, storeVars,
        apiVars, workerVars, local, Rest, Goto, Release, Move, Append,
        SetTaskStatus, MoveWithEvent, Working, RuntimePhases,
        WorkInv, Holding, Known, Exclusive
<1>1. ASSUME NEW t \in Task, NEW D \in SUBSET Task, NEW B \in SUBSET D,
             CreateInsert(t, D, B), UNCHANGED workerVars
      PROVE  WorkInv'
  BY <1>1 DEF CreateInsert
<1>2. ASSUME NEW t \in Task, CreateEnqueue(t), UNCHANGED workerVars
      PROVE  WorkInv'
  BY <1>2 DEF CreateEnqueue
<1>3. ASSUME NEW t \in Task, CreateRefused(t), UNCHANGED workerVars
      PROVE  WorkInv'
  BY <1>3 DEF CreateRefused
<1>4. ASSUME NEW t \in Task, CreateEvent(t), UNCHANGED workerVars
      PROVE  WorkInv'
  BY <1>4 DEF CreateEvent
<1>5. ASSUME NEW t \in Task, CancelRead(t), UNCHANGED workerVars PROVE WorkInv'
  BY <1>5 DEF CancelRead
<1>6. ASSUME NEW t \in Task, CancelWrite(t), UNCHANGED workerVars
      PROVE  WorkInv'
  BY <1>6 DEF CancelWrite
<1>7. ASSUME NEW t \in Task, CancelRefused(t), UNCHANGED workerVars
      PROVE  WorkInv'
  BY <1>7 DEF CancelRefused
<1>8. ASSUME NEW t \in Task, CancelEvent(t), UNCHANGED workerVars
      PROVE  WorkInv'
  BY <1>8 DEF CancelEvent
<1>9. ASSUME NEW t \in Task, Approve(t), UNCHANGED workerVars PROVE WorkInv'
  BY <1>9 DEF Approve, Decide, Label
<1>10. ASSUME NEW t \in Task, Reject(t), UNCHANGED workerVars PROVE WorkInv'
  BY <1>10 DEF Reject, Decide, Label
<1>11. ASSUME NEW t \in Task, ApiAbandon(t), UNCHANGED workerVars
      PROVE  WorkInv'
  BY <1>11 DEF ApiAbandon
<1>12. ASSUME ResolveScan, UNCHANGED apiVars PROVE WorkInv'
  BY <1>12 DEF ResolveScan, Candidates
<1>13. ASSUME ResolveNotDue, UNCHANGED apiVars PROVE WorkInv'
  BY <1>13 DEF ResolveNotDue
<1>14. ASSUME ResolveDone, UNCHANGED apiVars PROVE WorkInv'
  BY <1>14 DEF ResolveDone
<1>15. ASSUME NEW t \in Task, ResolveRead(t), UNCHANGED apiVars PROVE WorkInv'
  <2>1. CASE Doomed(t)
    BY <1>15, <2>1, SMTT(30) DEF ResolveRead
  <2>2. CASE ~Doomed(t) /\ AllCompleted(t)
    BY <1>15, <2>2, SMTT(30) DEF ResolveRead
  <2>3. CASE ~Doomed(t) /\ ~AllCompleted(t)
    BY <1>15, <2>3, SMTT(30) DEF ResolveRead
  <2> QED
    BY <2>1, <2>2, <2>3
<1>16. ASSUME NEW t \in Task, ResolvePoison(t), UNCHANGED apiVars
      PROVE  WorkInv'
  BY <1>16 DEF ResolvePoison
<1>17. ASSUME NEW t \in Task, ResolveWrite(t), UNCHANGED apiVars PROVE WorkInv'
  <2>1. CASE EnqueueDependent(t)
    BY <1>17, <2>1, SMTT(30) DEF ResolveWrite, ResolveForget, EnqueueDependent,
       CancelDependent, Classify
  <2>2. CASE CancelDependent(t)
    BY <1>17, <2>2, SMTT(30) DEF ResolveWrite, ResolveForget, EnqueueDependent,
       CancelDependent, Classify
  <2>3. CASE UNCHANGED << status, events, inputs, witness, classif >>
    BY <1>17, <2>3, SMTT(30) DEF ResolveWrite, ResolveForget, EnqueueDependent,
       CancelDependent, Classify
  <2> QED
    BY <1>17, <2>1, <2>2, <2>3 DEF ResolveWrite
<1>18. ASSUME Start, UNCHANGED apiVars PROVE WorkInv'
  <2>1. \A t \in todo' : status[t] # "absent"
    BY <1>18 DEF Start, ExecutionStates
  <2> QED
    BY <1>18, <2>1 DEF Start
<1>19. ASSUME RecoverEvent, UNCHANGED apiVars PROVE WorkInv'
  BY <1>19 DEF RecoverEvent
<1>20. ASSUME RecoverDone, UNCHANGED apiVars PROVE WorkInv'
  BY <1>20 DEF RecoverDone, InWorker
<1>21. ASSUME NEW t \in Task, Recover(t), UNCHANGED apiVars PROVE WorkInv'
  <2>1. CASE status[t] \in ExecutionStates
    BY <1>21, <2>1, SMTT(30) DEF Recover
  <2>2. CASE status[t] \notin ExecutionStates
    BY <1>21, <2>2, SMTT(30) DEF Recover
  <2> QED
    BY <2>1, <2>2
<1>22. ASSUME PollNothing, UNCHANGED apiVars PROVE WorkInv'
  BY <1>22 DEF PollNothing
<1>23. ASSUME NEW t \in Task, Claim(t), UNCHANGED apiVars PROVE WorkInv'
  <2>1. /\ t \notin EvalTask /\ status[t] = "queued" /\ phase[Job] = "poll"
        /\ UNCHANGED << create, cancel, todo, runs >>
        /\ \E to \in {"validating", "failed"} : status' = [status EXCEPT ![t] = to]
        /\ events' = events \/ events' = [events EXCEPT ![t] = events[t] \cup {"task_failed"}]
    BY <1>23 DEF Claim, Oldest, Queued
  <2>2. \/ hold' = hold /\ phase' = [phase EXCEPT ![Job] = "again"]
        \/ /\ hold' = [hold EXCEPT ![Job] = t]
           /\ phase' = [phase EXCEPT ![Job] = "claimed"]
    BY <1>23 DEF Claim
  <2>3. Known'
    BY <2>1, <2>2
  <2>4. Holding'
    BY <2>1, <2>2
  <2>5. Exclusive'
    <3>1. \A e \in EvalThread : hold'[e] = hold[e]
      BY <2>2
    <3>2. hold'[Job] \notin EvalTask /\ phase'[Job] \notin {"resolve", "decide"}
      BY <2>1, <2>2
    <3> QED
      BY <3>1, <3>2
  <2> QED
    BY <2>3, <2>4, <2>5
<1>24. ASSUME NEW e \in Exec, Quarantine(e), UNCHANGED apiVars PROVE WorkInv'
  <2>1. /\ phase[e] = "claimed" /\ Release(e)
        /\ UNCHANGED << todo, create, cancel, runs >>
        /\ \/ UNCHANGED << status, events >>
           \/ /\ status' = [status EXCEPT ![hold[e]] = "failed"]
              /\ events' = [events EXCEPT ![hold[e]] = @ \cup {"task_failed"}]
    BY <1>24 DEF Quarantine
  <2>2. /\ events[hold[e]] \cup {"task_failed"} \in SUBSET EventTypes
        /\ "failed" \in States /\ {} \in SUBSET EventTypes /\ hold[e] \in Task
    BY <2>1 DEF EventTypes, States
  <2>3. CASE UNCHANGED << status, events >>
    BY ONLY TypeOK, WorkInv, e \in Exec, <2>1, <2>2, <2>3, Freed
  <2>4. CASE /\ status' = [status EXCEPT ![hold[e]] = "failed"]
             /\ events' = [events EXCEPT ![hold[e]] = @ \cup {"task_failed"}]
    BY ONLY TypeOK, WorkInv, e \in Exec, <2>1, <2>2, <2>4, Freed
  <2> QED
    BY ONLY <2>1, <2>3, <2>4
<1>25. ASSUME NEW e \in Exec, Refuse(e), UNCHANGED apiVars PROVE WorkInv'
  BY <1>25 DEF Refuse, Classify
<1>26. ASSUME NEW e \in Exec, Derive(e), UNCHANGED apiVars PROVE WorkInv'
  BY <1>26 DEF Derive, Classify
<1>27. ASSUME NEW e \in Exec, StartValidation(e), UNCHANGED apiVars
      PROVE  WorkInv'
  BY <1>27 DEF StartValidation
<1>28. ASSUME NEW e \in Exec, ValidatePass(e), UNCHANGED apiVars PROVE WorkInv'
  BY <1>28 DEF ValidatePass
<1>29. ASSUME NEW e \in Exec, ValidateFail(e), UNCHANGED apiVars PROVE WorkInv'
  BY <1>29 DEF ValidateFail
<1>30. ASSUME NEW e \in Exec, EnterRunning(e), UNCHANGED apiVars PROVE WorkInv'
  BY <1>30 DEF EnterRunning
<1>31. ASSUME NEW e \in Exec, RunWorkflow(e), UNCHANGED apiVars PROVE WorkInv'
  BY <1>31 DEF RunWorkflow
<1>32. ASSUME NEW e \in Exec, RegisterOutputs(e), UNCHANGED apiVars
      PROVE  WorkInv'
  BY <1>32 DEF RegisterOutputs
<1>33. ASSUME NEW e \in Exec, SetTaskOutputs(e), UNCHANGED apiVars
      PROVE  WorkInv'
  BY <1>33 DEF SetTaskOutputs
<1>34. ASSUME NEW e \in Exec, RecordSample(e), UNCHANGED apiVars PROVE WorkInv'
  BY <1>34 DEF RecordSample, Sampled
<1>35. ASSUME NEW e \in Exec, RequestReview(e), UNCHANGED apiVars
      PROVE  WorkInv'
  BY <1>35 DEF RequestReview
<1>36. ASSUME NEW e \in Exec, EnterAnalyzing(e), UNCHANGED apiVars
      PROVE  WorkInv'
  BY <1>36 DEF EnterAnalyzing
<1>37. ASSUME NEW e \in Exec, Complete(e), UNCHANGED apiVars PROVE WorkInv'
  BY <1>37 DEF Complete
<1>38. ASSUME NEW e \in Exec, Close(e), UNCHANGED apiVars PROVE WorkInv'
  BY <1>38 DEF Close
<1>39. ASSUME NEW e \in Exec, MarkFailed(e), UNCHANGED apiVars PROVE WorkInv'
  <2>1. CASE phase[e] = "failing"
    BY <1>39, <2>1, SMTT(30) DEF MarkFailed
  <2>2. CASE phase[e] = "refusing"
    BY <1>39, <2>2, SMTT(30) DEF MarkFailed
  <2> QED
    BY <1>39, <2>1, <2>2 DEF MarkFailed
<1>40. ASSUME NEW e \in Exec, FailedEvent(e), UNCHANGED apiVars PROVE WorkInv'
  <2>1. CASE phase[e] = "failed"
    BY <1>40, <2>1 DEF FailedEvent
  <2>2. CASE phase[e] = "refused"
    <3>1. /\ Release(e) /\ hold[e] \in Task
          /\ UNCHANGED << todo, create, cancel, runs, status >>
          /\ events' = [events EXCEPT ![hold[e]] = @ \cup {"task_failed"}]
      BY <1>40, <2>2 DEF FailedEvent
    <3> QED
      BY <3>1, Freed DEF States, EventTypes
  <2> QED
    BY <1>40, <2>1, <2>2 DEF FailedEvent
<1>41. ASSUME NEW e \in Exec, FailureSample(e), UNCHANGED apiVars
      PROVE  WorkInv'
  BY <1>41 DEF FailureSample, Sampled
<1>42. ASSUME NEW e \in Exec, Race(e), UNCHANGED apiVars PROVE WorkInv'
  <2>1. CASE e = Job
    <3>1. /\ Release(e) /\ hold[e] \in Task
          /\ UNCHANGED << todo, create, cancel, runs, status >>
          /\ events' = [events EXCEPT ![hold[e]] = @ \cup {"warning"}]
      BY <1>42, <2>1 DEF Race
    <3> QED
      BY <3>1, Freed DEF States, EventTypes
  <2>2. CASE e # Job
    BY <1>42, <2>2 DEF Race
  <2> QED
    BY <1>42, <2>1, <2>2
<1>43. ASSUME NEW e \in Exec, FailBestEffort(e), UNCHANGED apiVars
      PROVE  WorkInv'
  <2>1. CASE status[hold[e]] \in ExecutionStates /\ e = Job
    BY <1>43, <2>1 DEF FailBestEffort, ExecutionStates
  <2>2. CASE status[hold[e]] \in ExecutionStates /\ e # Job
    <3>1. /\ Release(e) /\ hold[e] \in Task
          /\ UNCHANGED << todo, create, cancel, runs, events >>
          /\ status' = [status EXCEPT ![hold[e]] = "failed"]
      BY <1>43, <2>2 DEF FailBestEffort
    <3> QED
      BY <3>1, Freed DEF States, EventTypes
  <2>3. CASE status[hold[e]] \notin ExecutionStates
    <3>1. /\ Release(e) /\ hold[e] \in Task
          /\ UNCHANGED << todo, create, cancel, runs, status >>
          /\ \/ events' = events
             \/ events' = [events EXCEPT ![hold[e]] = @ \cup {"warning"}]
      BY <1>43, <2>3 DEF FailBestEffort
    <3>2. events[hold[e]] \cup {"warning"} \in SUBSET EventTypes
      BY <3>1 DEF EventTypes
    <3>3. "failed" \in States /\ {} \in SUBSET EventTypes
      BY DEF States
    <3>4. CASE events' = events
      BY ONLY TypeOK, WorkInv, <3>1, <3>3, <3>4, Freed
    <3>5. CASE events' = [events EXCEPT ![hold[e]] = @ \cup {"warning"}]
      BY ONLY TypeOK, WorkInv, <3>1, <3>2, <3>3, <3>5, Freed
    <3> QED
      BY <3>1, <3>4, <3>5
  <2> QED
    BY <1>43, <2>1, <2>2, <2>3
<1>44. ASSUME NEW e \in Exec, FailBestEffortEvent(e), UNCHANGED apiVars
      PROVE  WorkInv'
  BY <1>44 DEF FailBestEffortEvent
<1>45. ASSUME NEW e \in Exec, NEW t \in Task, EvalInsert(e, t), UNCHANGED
              apiVars
      PROVE  WorkInv'
  BY <1>45 DEF EvalInsert
<1>46. ASSUME NEW e \in Exec, EvalQueue(e), UNCHANGED apiVars PROVE WorkInv'
  BY <1>46 DEF EvalQueue
<1>47. ASSUME NEW e \in Exec, EvalClaim(e), UNCHANGED apiVars PROVE WorkInv'
  <2>1. CASE fault \/ status[hold[e]] # "queued"
    <3>1. /\ Release(e) /\ hold[e] \in Task
          /\ UNCHANGED << todo, create, cancel, runs, status, events >>
      BY <1>47, <2>1 DEF EvalClaim
    <3> QED
      BY <3>1, Freed DEF States, EventTypes
  <2>2. CASE ~(fault \/ status[hold[e]] # "queued")
    BY <1>47, <2>2 DEF EvalClaim
  <2> QED
    BY <1>47, <2>1, <2>2
<1>48. ASSUME NEW e \in Exec, EvalRaise(e), UNCHANGED apiVars PROVE WorkInv'
  BY <1>48 DEF EvalRaise
<1>49. ASSUME NEW e \in Exec, CliStop(e), UNCHANGED apiVars PROVE WorkInv'
  BY <1>49 DEF CliStop
<1>50. ASSUME Crash, UNCHANGED apiVars PROVE WorkInv'
  BY <1>50 DEF Crash, InWorker
<1>51. ASSUME ResolveAbort, UNCHANGED apiVars PROVE WorkInv'
  BY <1>51 DEF ResolveAbort, ResolveForget
<1>52. ASSUME NEW e \in Exec, Raise(e), UNCHANGED apiVars PROVE WorkInv'
  BY <1>52 DEF Raise
<1>53. ASSUME NEW e \in Exec, LoseFailure(e), UNCHANGED apiVars PROVE WorkInv'
  BY <1>53 DEF LoseFailure
<1>54. CASE Latch \/ Backfill
  BY <1>54 DEF Latch, Backfill
<1>55. CASE UNCHANGED vars
  BY <1>55 DEF vars
<1> QED
  BY ONLY [Next]_vars, <1>1, <1>2, <1>3, <1>4, <1>5, <1>6, <1>7, <1>8,
     <1>9, <1>10, <1>11, <1>12, <1>13, <1>14, <1>15, <1>16, <1>17,
     <1>18, <1>19, <1>20, <1>21, <1>22, <1>23, <1>24, <1>25, <1>26,
     <1>27, <1>28, <1>29, <1>30, <1>31, <1>32, <1>33, <1>34, <1>35,
     <1>36, <1>37, <1>38, <1>39, <1>40, <1>41, <1>42, <1>43, <1>44,
     <1>45, <1>46, <1>47, <1>48, <1>49, <1>50, <1>51, <1>52, <1>53,
     <1>54, <1>55
     DEF Next, ApiStep, Creating, Cancelling, WorkerStep, JobStep, ResolverStep,
         RecoveryStep, ClaimStep, RuntimeStep, EvalStep, Disturbance

LEMMA WorkCorrect == Spec => []WorkInv
BY InitWork, NextWork, TypeCorrect, PTL DEF Spec

-----------------------------------------------------------------------------
(* core/statemachine.py *)

\* what assert_transition excludes, state by state
LEMMA LegalMoves ==
  ASSUME NEW t \in Task, NEW to, Legal(t, to)
  PROVE  /\ status[t] \notin {"completed", "failed", "cancelled", "absent"}
         /\ to = "queued" => status[t] = "created"
         /\ to = "validating" => status[t] = "queued"
         /\ to = "running" => status[t] \in {"validating", "parsing"}
         /\ to = "analyzing" => status[t] \in {"running", "parsing"}
         /\ to = "waiting_review" => status[t] \in {"running", "analyzing"}
         /\ to = "completed" => status[t] \in {"analyzing", "waiting_review"}
         /\ to = "failed" => status[t] \in ExecutionStates \cup {"waiting_review"}
         /\ to = "cancelled" => status[t] # "waiting_review"
BY DEF Legal, TRANSITIONS, States, ExecutionStates

LEMMA TerminalStates == TERMINAL = {"completed", "failed", "cancelled"}
BY DEF TERMINAL, TRANSITIONS, States

-----------------------------------------------------------------------------
(* The row of a task while a thread works on it *)

Dead == {"cancelled", "failed"}

\* where the row can be, phase by phase: where the thread put it, or where a
\* cancel or the recovery moved it meanwhile
Rows(ph) ==
    IF ph \in {"claimed", "refusing", "classified", "started", "validated"}
      THEN Dead \cup {"validating"}
    ELSE IF ph \in {"running", "ran", "registered", "listed", "sampled"}
      THEN Dead \cup {"running"}
    ELSE IF ph = "analyzing" THEN Dead \cup {"analyzing"}
    ELSE IF ph = "failing" THEN Dead \cup {"validating", "running"}
    ELSE IF ph = "closing" THEN {"waiting_review", "completed", "failed"}
    ELSE IF ph \in {"refused", "failed", "failsample", "boomed", "recovered"}
      THEN {"failed"}
    ELSE States \cup {"absent"}

StageInv ==
    \A e \in Exec : hold[e] \in Task =>
        /\ status[hold[e]] \in Rows(phase[e])
        /\ phase[e] = "analyzing" => hold[e] \in AutoTask

LEMMA InitStage == Init => StageInv
BY DEF Init, StageInv, Rows

LEMMA NextStage ==
  TypeOK /\ WorkInv /\ StageInv /\ [Next]_vars => StageInv'
<1> SUFFICES ASSUME TypeOK, WorkInv, StageInv, [Next]_vars PROVE StageInv'
  OBVIOUS
<1> USE DEF TypeOK, StoreTypeOK, ApiTypeOK, WorkerTypeOK, rows, storeVars,
        apiVars, workerVars, local, Rest, Goto, Release, Move, Append,
        SetTaskStatus, MoveWithEvent, Working, RuntimePhases,
        WorkInv, Holding, Known, Exclusive, StageInv, Rows, Dead, States
<1>1. ASSUME NEW t \in Task, NEW D \in SUBSET Task, NEW B \in SUBSET D,
             CreateInsert(t, D, B), UNCHANGED workerVars
      PROVE  StageInv'
  <2>1. /\ status[t] = "absent" /\ UNCHANGED << phase, hold >>
        /\ status' = [status EXCEPT ![t] = "created"]
    BY <1>1 DEF CreateInsert, Exists
  <2>2. \A e \in Exec : hold[e] \in Task => hold[e] # t
    BY <2>1
  <2> QED
    BY <2>1, <2>2
<1>2. ASSUME NEW t \in Task, CreateEnqueue(t), UNCHANGED workerVars
      PROVE  StageInv'
  BY <1>2, LegalMoves DEF CreateEnqueue
<1>3. ASSUME NEW t \in Task, CreateRefused(t), UNCHANGED workerVars
      PROVE  StageInv'
  BY <1>3 DEF CreateRefused
<1>4. ASSUME NEW t \in Task, CreateEvent(t), UNCHANGED workerVars
      PROVE  StageInv'
  BY <1>4 DEF CreateEvent
<1>5. ASSUME NEW t \in Task, CancelRead(t), UNCHANGED workerVars
      PROVE  StageInv'
  BY <1>5 DEF CancelRead
<1>6. ASSUME NEW t \in Task, CancelWrite(t), UNCHANGED workerVars
      PROVE  StageInv'
  BY <1>6, LegalMoves DEF CancelWrite
<1>7. ASSUME NEW t \in Task, CancelRefused(t), UNCHANGED workerVars
      PROVE  StageInv'
  BY <1>7 DEF CancelRefused
<1>8. ASSUME NEW t \in Task, CancelEvent(t), UNCHANGED workerVars
      PROVE  StageInv'
  BY <1>8 DEF CancelEvent
<1>9. ASSUME NEW t \in Task, Approve(t), UNCHANGED workerVars PROVE StageInv'
  BY <1>9, LegalMoves DEF Approve, Decide, Label
<1>10. ASSUME NEW t \in Task, Reject(t), UNCHANGED workerVars PROVE StageInv'
  BY <1>10, LegalMoves DEF Reject, Decide, Label
<1>11. ASSUME NEW t \in Task, ApiAbandon(t), UNCHANGED workerVars
      PROVE  StageInv'
  BY <1>11 DEF ApiAbandon
<1>12. ASSUME ResolveScan, UNCHANGED apiVars PROVE StageInv'
  BY <1>12 DEF ResolveScan, Candidates
<1>13. ASSUME ResolveNotDue, UNCHANGED apiVars PROVE StageInv'
  BY <1>13 DEF ResolveNotDue
<1>14. ASSUME ResolveDone, UNCHANGED apiVars PROVE StageInv'
  BY <1>14 DEF ResolveDone
<1>15. ASSUME NEW t \in Task, ResolveRead(t), UNCHANGED apiVars PROVE StageInv'
  BY <1>15 DEF ResolveRead, Pipeable, BoundUpstreams
<1>16. ASSUME NEW t \in Task, ResolvePoison(t), UNCHANGED apiVars
      PROVE  StageInv'
  BY <1>16 DEF ResolvePoison
<1>17. ASSUME NEW t \in Task, ResolveWrite(t), UNCHANGED apiVars
      PROVE  StageInv'
  <2>1. /\ \/ status' = status
           \/ \E s \in {"queued", "cancelled"} :
                 status[t] = "created" /\ status' = [status EXCEPT ![t] = s]
        /\ hold' = [hold EXCEPT ![Job] = None]
        /\ phase' = [phase EXCEPT ![Job] = "resolve"]
    BY <1>17 DEF ResolveWrite, ResolveForget, EnqueueDependent, CancelDependent
  <2>2. ASSUME NEW e \in Exec, hold'[e] \in Task
        PROVE  e # Job /\ hold[e] = hold'[e] /\ phase'[e] = phase[e]
    BY <2>1, <2>2
  <2>3. ASSUME NEW e \in Exec, hold'[e] \in Task
        PROVE  /\ status'[hold'[e]] \in Rows(phase'[e])
               /\ phase'[e] = "analyzing" => hold'[e] \in AutoTask
    <3>1. e # Job /\ hold[e] = hold'[e] /\ phase'[e] = phase[e]
      BY <2>2, <2>3
    <3>2. CASE status' = status
      BY <2>3, <3>1, <3>2
    <3>3. CASE status[t] = "created" /\ hold[e] = t
      <4>1. Rows(phase[e]) = States \cup {"absent"} /\ phase[e] # "analyzing"
        BY <3>1, <3>3
      <4>2. status'[t] \in States
        BY <2>1, <3>3
      <4> QED
        BY <3>1, <3>3, <4>1, <4>2
    <3>4. CASE hold[e] # t
      BY <2>1, <2>3, <3>1, <3>4
    <3> QED
      BY <2>1, <3>2, <3>3, <3>4
  <2> QED
    BY <2>3
<1>18. ASSUME Start, UNCHANGED apiVars PROVE StageInv'
  BY <1>18 DEF Start
<1>19. ASSUME RecoverEvent, UNCHANGED apiVars PROVE StageInv'
  BY <1>19 DEF RecoverEvent
<1>20. ASSUME RecoverDone, UNCHANGED apiVars PROVE StageInv'
  BY <1>20 DEF RecoverDone, InWorker
<1>21. ASSUME NEW t \in Task, Recover(t), UNCHANGED apiVars PROVE StageInv'
  <2>1. CASE status[t] \in ExecutionStates
    BY <1>21, <2>1, LegalMoves, SMTT(30) DEF Recover, ExecutionStates
  <2>2. CASE status[t] \notin ExecutionStates
    BY <1>21, <2>2, LegalMoves, SMTT(30) DEF Recover, ExecutionStates
  <2> QED
    BY <2>1, <2>2
<1>22. ASSUME PollNothing, UNCHANGED apiVars PROVE StageInv'
  BY <1>22 DEF PollNothing
<1>23. ASSUME NEW t \in Task, Claim(t), UNCHANGED apiVars PROVE StageInv'
  <2>1. CASE phase'[Job] = "claimed"
    BY <1>23, <2>1, LegalMoves, SMTT(30) DEF Claim
  <2>2. CASE phase'[Job] # "claimed"
    BY <1>23, <2>2, LegalMoves, SMTT(30) DEF Claim
  <2> QED
    BY <2>1, <2>2
<1>24. ASSUME NEW e \in Exec, Quarantine(e), UNCHANGED apiVars PROVE StageInv'
  <2>1. /\ e = Job /\ hold[e] \in Task \ EvalTask /\ phase[e] = "claimed"
        /\ hold' = [hold EXCEPT ![e] = None]
        /\ \A f \in Exec \ {e} : phase'[f] = phase[f]
    BY <1>24 DEF Quarantine, UserTask
  <2>2. \/ status' = status
        \/ status' = [status EXCEPT ![hold[e]] = "failed"]
    BY <1>24 DEF Quarantine
  <2>3. \A f \in Exec : hold'[f] \in Task =>
           f # e /\ hold'[f] = hold[f] /\ hold[f] # hold[e]
    BY <2>1
  <2> QED
    BY <2>1, <2>2, <2>3
<1>25. ASSUME NEW e \in Exec, Refuse(e), UNCHANGED apiVars PROVE StageInv'
  BY <1>25 DEF Refuse, Classify
<1>26. ASSUME NEW e \in Exec, Derive(e), UNCHANGED apiVars PROVE StageInv'
  BY <1>26 DEF Derive, Classify
<1>27. ASSUME NEW e \in Exec, StartValidation(e), UNCHANGED apiVars
      PROVE  StageInv'
  BY <1>27 DEF StartValidation
<1>28. ASSUME NEW e \in Exec, ValidatePass(e), UNCHANGED apiVars
      PROVE  StageInv'
  BY <1>28 DEF ValidatePass
<1>29. ASSUME NEW e \in Exec, ValidateFail(e), UNCHANGED apiVars
      PROVE  StageInv'
  BY <1>29 DEF ValidateFail
<1>30. ASSUME NEW e \in Exec, EnterRunning(e), UNCHANGED apiVars
      PROVE  StageInv'
  BY <1>30, LegalMoves DEF EnterRunning
<1>31. ASSUME NEW e \in Exec, RunWorkflow(e), UNCHANGED apiVars PROVE StageInv'
  BY <1>31 DEF RunWorkflow
<1>32. ASSUME NEW e \in Exec, RegisterOutputs(e), UNCHANGED apiVars
      PROVE  StageInv'
  BY <1>32 DEF RegisterOutputs
<1>33. ASSUME NEW e \in Exec, SetTaskOutputs(e), UNCHANGED apiVars
      PROVE  StageInv'
  BY <1>33 DEF SetTaskOutputs
<1>34. ASSUME NEW e \in Exec, RecordSample(e), UNCHANGED apiVars
      PROVE  StageInv'
  BY <1>34 DEF RecordSample, Sampled
<1>35. ASSUME NEW e \in Exec, RequestReview(e), UNCHANGED apiVars
      PROVE  StageInv'
  BY <1>35, LegalMoves DEF RequestReview
<1>36. ASSUME NEW e \in Exec, EnterAnalyzing(e), UNCHANGED apiVars
      PROVE  StageInv'
  BY <1>36, LegalMoves DEF EnterAnalyzing, NeedsReview
<1>37. ASSUME NEW e \in Exec, Complete(e), UNCHANGED apiVars PROVE StageInv'
  BY <1>37, LegalMoves DEF Complete
<1>38. ASSUME NEW e \in Exec, Close(e), UNCHANGED apiVars PROVE StageInv'
  BY <1>38 DEF Close
<1>39. ASSUME NEW e \in Exec, MarkFailed(e), UNCHANGED apiVars PROVE StageInv'
  <2>1. CASE phase[e] = "failing"
    BY <1>39, <2>1, LegalMoves, SMTT(30) DEF MarkFailed, ExecutionStates
  <2>2. CASE phase[e] = "refusing"
    BY <1>39, <2>2, LegalMoves, SMTT(30) DEF MarkFailed, ExecutionStates
  <2> QED
    BY <1>39, <2>1, <2>2 DEF MarkFailed
<1>40. ASSUME NEW e \in Exec, FailedEvent(e), UNCHANGED apiVars PROVE StageInv'
  <2>1. CASE phase[e] = "failed"
    BY <1>40, <2>1, SMTT(30) DEF FailedEvent
  <2>2. CASE phase[e] = "refused"
    BY <1>40, <2>2, SMTT(30) DEF FailedEvent
  <2> QED
    BY <1>40, <2>1, <2>2 DEF FailedEvent
<1>41. ASSUME NEW e \in Exec, FailureSample(e), UNCHANGED apiVars
      PROVE  StageInv'
  BY <1>41 DEF FailureSample, Sampled
<1>42. ASSUME NEW e \in Exec, Race(e), UNCHANGED apiVars PROVE StageInv'
  <2>1. CASE e = Job
    BY <1>42, <2>1, SMTT(30) DEF Race
  <2>2. CASE e # Job
    BY <1>42, <2>2, SMTT(30) DEF Race
  <2> QED
    BY <2>1, <2>2
<1>43. ASSUME NEW e \in Exec, FailBestEffort(e), UNCHANGED apiVars
      PROVE  StageInv'
  <2>1. CASE status[hold[e]] \in ExecutionStates /\ e = Job
    BY <1>43, <2>1, LegalMoves, SMTT(30) DEF FailBestEffort, ExecutionStates
  <2>2. CASE status[hold[e]] \in ExecutionStates /\ e # Job
    BY <1>43, <2>2, LegalMoves, SMTT(30) DEF FailBestEffort, ExecutionStates
  <2>3. CASE status[hold[e]] \notin ExecutionStates /\ e = Job
    BY <1>43, <2>3, LegalMoves, SMTT(30) DEF FailBestEffort, ExecutionStates
  <2>4. CASE status[hold[e]] \notin ExecutionStates /\ e # Job
    BY <1>43, <2>4, LegalMoves, SMTT(30) DEF FailBestEffort, ExecutionStates
  <2> QED
    BY <2>1, <2>2, <2>3, <2>4
<1>44. ASSUME NEW e \in Exec, FailBestEffortEvent(e), UNCHANGED apiVars
      PROVE  StageInv'
  BY <1>44 DEF FailBestEffortEvent
<1>45. ASSUME NEW e \in Exec, NEW t \in Task, EvalInsert(e, t), UNCHANGED
              apiVars
      PROVE  StageInv'
  BY <1>45 DEF EvalInsert
<1>46. ASSUME NEW e \in Exec, EvalQueue(e), UNCHANGED apiVars PROVE StageInv'
  BY <1>46, LegalMoves DEF EvalQueue
<1>47. ASSUME NEW e \in Exec, EvalClaim(e), UNCHANGED apiVars PROVE StageInv'
  <2>1. CASE fault \/ status[hold[e]] # "queued"
    BY <1>47, <2>1, LegalMoves, SMTT(30) DEF EvalClaim
  <2>2. CASE ~(fault \/ status[hold[e]] # "queued")
    BY <1>47, <2>2, LegalMoves, SMTT(30) DEF EvalClaim
  <2> QED
    BY <2>1, <2>2
<1>48. ASSUME NEW e \in Exec, EvalRaise(e), UNCHANGED apiVars PROVE StageInv'
  BY <1>48 DEF EvalRaise
<1>49. ASSUME NEW e \in Exec, CliStop(e), UNCHANGED apiVars PROVE StageInv'
  BY <1>49 DEF CliStop
<1>50. ASSUME Crash, UNCHANGED apiVars PROVE StageInv'
  BY <1>50 DEF Crash, InWorker
<1>51. ASSUME ResolveAbort, UNCHANGED apiVars PROVE StageInv'
  BY <1>51 DEF ResolveAbort, ResolveForget
<1>52. ASSUME NEW e \in Exec, Raise(e), UNCHANGED apiVars PROVE StageInv'
  BY <1>52 DEF Raise
<1>53. ASSUME NEW e \in Exec, LoseFailure(e), UNCHANGED apiVars PROVE StageInv'
  BY <1>53 DEF LoseFailure
<1>54. CASE Latch \/ Backfill
  BY <1>54 DEF Latch, Backfill
<1>55. CASE UNCHANGED vars
  BY <1>55 DEF vars
<1> QED
  BY ONLY [Next]_vars, <1>1, <1>2, <1>3, <1>4, <1>5, <1>6, <1>7, <1>8,
     <1>9, <1>10, <1>11, <1>12, <1>13, <1>14, <1>15, <1>16, <1>17,
     <1>18, <1>19, <1>20, <1>21, <1>22, <1>23, <1>24, <1>25, <1>26,
     <1>27, <1>28, <1>29, <1>30, <1>31, <1>32, <1>33, <1>34, <1>35,
     <1>36, <1>37, <1>38, <1>39, <1>40, <1>41, <1>42, <1>43, <1>44,
     <1>45, <1>46, <1>47, <1>48, <1>49, <1>50, <1>51, <1>52, <1>53,
     <1>54, <1>55
     DEF Next, ApiStep, Creating, Cancelling, WorkerStep, JobStep, ResolverStep,
         RecoveryStep, ClaimStep, RuntimeStep, EvalStep, Disturbance

LEMMA StageCorrect == Spec => []StageInv
BY InitStage, NextStage, TypeCorrect, WorkCorrect, PTL DEF Spec

-----------------------------------------------------------------------------
(* Terminal rows *)

Final == \A t \in Task : status[t] \in TERMINAL => status'[t] = status[t]

LEMMA NextFinal ==
  TypeOK /\ [Next]_vars => Final
<1> SUFFICES ASSUME TypeOK, [Next]_vars PROVE Final
  OBVIOUS
<1> USE TerminalStates DEF TypeOK, StoreTypeOK, ApiTypeOK, WorkerTypeOK, rows, storeVars,
        apiVars, workerVars, local, Rest, Goto, Release, Move, Append,
        SetTaskStatus, MoveWithEvent, Working, RuntimePhases,
        Final
<1>1. ASSUME NEW t \in Task, NEW D \in SUBSET Task, NEW B \in SUBSET D,
             CreateInsert(t, D, B), UNCHANGED workerVars
      PROVE  Final
  BY <1>1 DEF CreateInsert, Exists
<1>2. ASSUME NEW t \in Task, CreateEnqueue(t), UNCHANGED workerVars PROVE Final
  BY <1>2, LegalMoves DEF CreateEnqueue
<1>3. ASSUME NEW t \in Task, CreateRefused(t), UNCHANGED workerVars PROVE Final
  BY <1>3 DEF CreateRefused
<1>4. ASSUME NEW t \in Task, CreateEvent(t), UNCHANGED workerVars PROVE Final
  BY <1>4 DEF CreateEvent
<1>5. ASSUME NEW t \in Task, CancelRead(t), UNCHANGED workerVars PROVE Final
  BY <1>5 DEF CancelRead
<1>6. ASSUME NEW t \in Task, CancelWrite(t), UNCHANGED workerVars PROVE Final
  BY <1>6, LegalMoves DEF CancelWrite
<1>7. ASSUME NEW t \in Task, CancelRefused(t), UNCHANGED workerVars PROVE Final
  BY <1>7 DEF CancelRefused
<1>8. ASSUME NEW t \in Task, CancelEvent(t), UNCHANGED workerVars PROVE Final
  BY <1>8 DEF CancelEvent
<1>9. ASSUME NEW t \in Task, Approve(t), UNCHANGED workerVars PROVE Final
  BY <1>9, LegalMoves DEF Approve, Decide, Label, ReviewEvidence
<1>10. ASSUME NEW t \in Task, Reject(t), UNCHANGED workerVars PROVE Final
  BY <1>10, LegalMoves DEF Reject, Decide, Label
<1>11. ASSUME NEW t \in Task, ApiAbandon(t), UNCHANGED workerVars PROVE Final
  BY <1>11 DEF ApiAbandon
<1>12. ASSUME ResolveScan, UNCHANGED apiVars PROVE Final
  BY <1>12 DEF ResolveScan, Candidates
<1>13. ASSUME ResolveNotDue, UNCHANGED apiVars PROVE Final
  BY <1>13 DEF ResolveNotDue
<1>14. ASSUME ResolveDone, UNCHANGED apiVars PROVE Final
  BY <1>14 DEF ResolveDone
<1>15. ASSUME NEW t \in Task, ResolveRead(t), UNCHANGED apiVars PROVE Final
  BY <1>15 DEF ResolveRead, Pipeable, BoundUpstreams
<1>16. ASSUME NEW t \in Task, ResolvePoison(t), UNCHANGED apiVars PROVE Final
  BY <1>16 DEF ResolvePoison
<1>17. ASSUME NEW t \in Task, ResolveWrite(t), UNCHANGED apiVars PROVE Final
  <2>1. CASE EnqueueDependent(t)
    BY <1>17, <2>1, LegalMoves, SMTT(30) DEF ResolveWrite, ResolveForget,
       EnqueueDependent, CancelDependent, Classify
  <2>2. CASE CancelDependent(t)
    BY <1>17, <2>2, LegalMoves, SMTT(30) DEF ResolveWrite, ResolveForget,
       EnqueueDependent, CancelDependent, Classify
  <2>3. CASE UNCHANGED << status, events, inputs, witness, classif >>
    BY <1>17, <2>3, LegalMoves, SMTT(30) DEF ResolveWrite, ResolveForget,
       EnqueueDependent, CancelDependent, Classify
  <2> QED
    BY <1>17, <2>1, <2>2, <2>3 DEF ResolveWrite
<1>18. ASSUME Start, UNCHANGED apiVars PROVE Final
  BY <1>18 DEF Start
<1>19. ASSUME RecoverEvent, UNCHANGED apiVars PROVE Final
  BY <1>19 DEF RecoverEvent
<1>20. ASSUME RecoverDone, UNCHANGED apiVars PROVE Final
  BY <1>20 DEF RecoverDone, InWorker
<1>21. ASSUME NEW t \in Task, Recover(t), UNCHANGED apiVars PROVE Final
  <2>1. CASE status[t] \in ExecutionStates
    BY <1>21, <2>1, LegalMoves, SMTT(30) DEF Recover, ExecutionStates
  <2>2. CASE status[t] \notin ExecutionStates
    BY <1>21, <2>2, LegalMoves, SMTT(30) DEF Recover, ExecutionStates
  <2> QED
    BY <2>1, <2>2
<1>22. ASSUME PollNothing, UNCHANGED apiVars PROVE Final
  BY <1>22 DEF PollNothing
<1>23. ASSUME NEW t \in Task, Claim(t), UNCHANGED apiVars PROVE Final
  <2>1. CASE phase'[Job] = "claimed"
    BY <1>23, <2>1, LegalMoves, SMTT(30) DEF Claim, Oldest, Queued
  <2>2. CASE phase'[Job] # "claimed"
    BY <1>23, <2>2, LegalMoves, SMTT(30) DEF Claim, Oldest, Queued
  <2> QED
    BY <2>1, <2>2
<1>24. ASSUME NEW e \in Exec, Quarantine(e), UNCHANGED apiVars PROVE Final
  <2>1. CASE status[hold[e]] \in ExecutionStates
    BY <1>24, <2>1, SMTT(30) DEF Quarantine, ExecutionStates
  <2>2. CASE status[hold[e]] \notin ExecutionStates
    BY <1>24, <2>2, SMTT(30) DEF Quarantine, ExecutionStates
  <2> QED
    BY <2>1, <2>2
<1>25. ASSUME NEW e \in Exec, Refuse(e), UNCHANGED apiVars PROVE Final
  BY <1>25 DEF Refuse, Classify
<1>26. ASSUME NEW e \in Exec, Derive(e), UNCHANGED apiVars PROVE Final
  BY <1>26 DEF Derive, Classify
<1>27. ASSUME NEW e \in Exec, StartValidation(e), UNCHANGED apiVars PROVE Final
  BY <1>27 DEF StartValidation
<1>28. ASSUME NEW e \in Exec, ValidatePass(e), UNCHANGED apiVars PROVE Final
  BY <1>28 DEF ValidatePass
<1>29. ASSUME NEW e \in Exec, ValidateFail(e), UNCHANGED apiVars PROVE Final
  BY <1>29 DEF ValidateFail
<1>30. ASSUME NEW e \in Exec, EnterRunning(e), UNCHANGED apiVars PROVE Final
  BY <1>30, LegalMoves DEF EnterRunning
<1>31. ASSUME NEW e \in Exec, RunWorkflow(e), UNCHANGED apiVars PROVE Final
  BY <1>31 DEF RunWorkflow
<1>32. ASSUME NEW e \in Exec, RegisterOutputs(e), UNCHANGED apiVars PROVE Final
  BY <1>32 DEF RegisterOutputs
<1>33. ASSUME NEW e \in Exec, SetTaskOutputs(e), UNCHANGED apiVars PROVE Final
  BY <1>33 DEF SetTaskOutputs
<1>34. ASSUME NEW e \in Exec, RecordSample(e), UNCHANGED apiVars PROVE Final
  BY <1>34 DEF RecordSample, Sampled
<1>35. ASSUME NEW e \in Exec, RequestReview(e), UNCHANGED apiVars PROVE Final
  BY <1>35, LegalMoves DEF RequestReview, NeedsReview
<1>36. ASSUME NEW e \in Exec, EnterAnalyzing(e), UNCHANGED apiVars PROVE Final
  BY <1>36, LegalMoves DEF EnterAnalyzing, NeedsReview
<1>37. ASSUME NEW e \in Exec, Complete(e), UNCHANGED apiVars PROVE Final
  BY <1>37, LegalMoves DEF Complete
<1>38. ASSUME NEW e \in Exec, Close(e), UNCHANGED apiVars PROVE Final
  BY <1>38 DEF Close
<1>39. ASSUME NEW e \in Exec, MarkFailed(e), UNCHANGED apiVars PROVE Final
  <2>1. CASE phase[e] = "failing"
    BY <1>39, <2>1, LegalMoves, SMTT(30) DEF MarkFailed, ExecutionStates
  <2>2. CASE phase[e] = "refusing"
    BY <1>39, <2>2, LegalMoves, SMTT(30) DEF MarkFailed, ExecutionStates
  <2> QED
    BY <1>39, <2>1, <2>2 DEF MarkFailed
<1>40. ASSUME NEW e \in Exec, FailedEvent(e), UNCHANGED apiVars PROVE Final
  <2>1. CASE phase[e] = "failed"
    BY <1>40, <2>1, SMTT(30) DEF FailedEvent
  <2>2. CASE phase[e] = "refused"
    BY <1>40, <2>2, SMTT(30) DEF FailedEvent
  <2> QED
    BY <1>40, <2>1, <2>2 DEF FailedEvent
<1>41. ASSUME NEW e \in Exec, FailureSample(e), UNCHANGED apiVars PROVE Final
  BY <1>41 DEF FailureSample, Sampled
<1>42. ASSUME NEW e \in Exec, Race(e), UNCHANGED apiVars PROVE Final
  <2>1. CASE e = Job
    BY <1>42, <2>1, SMTT(30) DEF Race
  <2>2. CASE e # Job
    BY <1>42, <2>2, SMTT(30) DEF Race
  <2> QED
    BY <2>1, <2>2
<1>43. ASSUME NEW e \in Exec, FailBestEffort(e), UNCHANGED apiVars PROVE Final
  <2>1. CASE status[hold[e]] \in ExecutionStates /\ e = Job
    BY <1>43, <2>1, LegalMoves, SMTT(30) DEF FailBestEffort, ExecutionStates
  <2>2. CASE status[hold[e]] \in ExecutionStates /\ e # Job
    BY <1>43, <2>2, LegalMoves, SMTT(30) DEF FailBestEffort, ExecutionStates
  <2>3. CASE status[hold[e]] \notin ExecutionStates /\ e = Job
    BY <1>43, <2>3, LegalMoves, SMTT(30) DEF FailBestEffort, ExecutionStates
  <2>4. CASE status[hold[e]] \notin ExecutionStates /\ e # Job
    BY <1>43, <2>4, LegalMoves, SMTT(30) DEF FailBestEffort, ExecutionStates
  <2> QED
    BY <2>1, <2>2, <2>3, <2>4
<1>44. ASSUME NEW e \in Exec, FailBestEffortEvent(e), UNCHANGED apiVars
      PROVE  Final
  BY <1>44 DEF FailBestEffortEvent
<1>45. ASSUME NEW e \in Exec, NEW t \in Task, EvalInsert(e, t), UNCHANGED
              apiVars
      PROVE  Final
  BY <1>45 DEF EvalInsert
<1>46. ASSUME NEW e \in Exec, EvalQueue(e), UNCHANGED apiVars PROVE Final
  BY <1>46, LegalMoves DEF EvalQueue
<1>47. ASSUME NEW e \in Exec, EvalClaim(e), UNCHANGED apiVars PROVE Final
  <2>1. CASE fault \/ status[hold[e]] # "queued"
    BY <1>47, <2>1, LegalMoves, SMTT(30) DEF EvalClaim
  <2>2. CASE ~(fault \/ status[hold[e]] # "queued")
    BY <1>47, <2>2, LegalMoves, SMTT(30) DEF EvalClaim
  <2> QED
    BY <2>1, <2>2
<1>48. ASSUME NEW e \in Exec, EvalRaise(e), UNCHANGED apiVars PROVE Final
  BY <1>48 DEF EvalRaise
<1>49. ASSUME NEW e \in Exec, CliStop(e), UNCHANGED apiVars PROVE Final
  BY <1>49 DEF CliStop
<1>50. ASSUME Crash, UNCHANGED apiVars PROVE Final
  BY <1>50 DEF Crash, InWorker
<1>51. ASSUME ResolveAbort, UNCHANGED apiVars PROVE Final
  BY <1>51 DEF ResolveAbort, ResolveForget
<1>52. ASSUME NEW e \in Exec, Raise(e), UNCHANGED apiVars PROVE Final
  BY <1>52 DEF Raise
<1>53. ASSUME NEW e \in Exec, LoseFailure(e), UNCHANGED apiVars PROVE Final
  BY <1>53 DEF LoseFailure
<1>54. CASE Latch \/ Backfill
  BY <1>54 DEF Latch, Backfill
<1>55. CASE UNCHANGED vars
  BY <1>55 DEF vars
<1> QED
  BY ONLY [Next]_vars, <1>1, <1>2, <1>3, <1>4, <1>5, <1>6, <1>7, <1>8,
     <1>9, <1>10, <1>11, <1>12, <1>13, <1>14, <1>15, <1>16, <1>17,
     <1>18, <1>19, <1>20, <1>21, <1>22, <1>23, <1>24, <1>25, <1>26,
     <1>27, <1>28, <1>29, <1>30, <1>31, <1>32, <1>33, <1>34, <1>35,
     <1>36, <1>37, <1>38, <1>39, <1>40, <1>41, <1>42, <1>43, <1>44,
     <1>45, <1>46, <1>47, <1>48, <1>49, <1>50, <1>51, <1>52, <1>53,
     <1>54, <1>55
     DEF Next, ApiStep, Creating, Cancelling, WorkerStep, JobStep, ResolverStep,
         RecoveryStep, ClaimStep, RuntimeStep, EvalStep, Disturbance


\* A terminal row is never moved again, whatever still works on it.
THEOREM TerminalCorrect == Spec => TerminalIsFinal
<1>1. TypeOK /\ [Next]_vars => [Final]_vars
  BY NextFinal
<1> QED
  BY <1>1, TypeCorrect, PTL DEF Spec, TerminalIsFinal, Final

-----------------------------------------------------------------------------
(* No replay *)

\* a workflow that a thread can still enter has not been entered
ReplayInv ==
    /\ NoReplay
    /\ \A t \in Task :
          status[t] \in {"absent", "created", "queued", "validating"} => runs[t] = 0
    /\ \A e \in Exec : phase[e] = "running" => runs[hold[e]] = 0

LEMMA InitReplay == Init => ReplayInv
BY DEF Init, ReplayInv, NoReplay, RuntimePhases

LEMMA NextReplay ==
  TypeOK /\ WorkInv /\ StageInv /\ ReplayInv /\ [Next]_vars => ReplayInv'
<1> SUFFICES ASSUME TypeOK, WorkInv, StageInv, ReplayInv, [Next]_vars PROVE ReplayInv'
  OBVIOUS
<1> USE DEF TypeOK, StoreTypeOK, ApiTypeOK, WorkerTypeOK, rows, storeVars,
        apiVars, workerVars, local, Rest, Goto, Release, Move, Append,
        SetTaskStatus, MoveWithEvent, Working, RuntimePhases,
        WorkInv, Holding, Known, Exclusive, StageInv, Rows, Dead, ReplayInv,
        NoReplay
<1>1. ASSUME NEW t \in Task, NEW D \in SUBSET Task, NEW B \in SUBSET D,
             CreateInsert(t, D, B), UNCHANGED workerVars
      PROVE  ReplayInv'
  BY <1>1 DEF CreateInsert, Exists
<1>2. ASSUME NEW t \in Task, CreateEnqueue(t), UNCHANGED workerVars
      PROVE  ReplayInv'
  BY <1>2, LegalMoves DEF CreateEnqueue
<1>3. ASSUME NEW t \in Task, CreateRefused(t), UNCHANGED workerVars
      PROVE  ReplayInv'
  BY <1>3 DEF CreateRefused
<1>4. ASSUME NEW t \in Task, CreateEvent(t), UNCHANGED workerVars
      PROVE  ReplayInv'
  BY <1>4 DEF CreateEvent
<1>5. ASSUME NEW t \in Task, CancelRead(t), UNCHANGED workerVars
      PROVE  ReplayInv'
  BY <1>5 DEF CancelRead
<1>6. ASSUME NEW t \in Task, CancelWrite(t), UNCHANGED workerVars
      PROVE  ReplayInv'
  BY <1>6, LegalMoves DEF CancelWrite
<1>7. ASSUME NEW t \in Task, CancelRefused(t), UNCHANGED workerVars
      PROVE  ReplayInv'
  BY <1>7 DEF CancelRefused
<1>8. ASSUME NEW t \in Task, CancelEvent(t), UNCHANGED workerVars
      PROVE  ReplayInv'
  BY <1>8 DEF CancelEvent
<1>9. ASSUME NEW t \in Task, Approve(t), UNCHANGED workerVars PROVE ReplayInv'
  BY <1>9, LegalMoves DEF Approve, Decide, Label, ReviewEvidence
<1>10. ASSUME NEW t \in Task, Reject(t), UNCHANGED workerVars PROVE ReplayInv'
  BY <1>10, LegalMoves DEF Reject, Decide, Label
<1>11. ASSUME NEW t \in Task, ApiAbandon(t), UNCHANGED workerVars
      PROVE  ReplayInv'
  BY <1>11 DEF ApiAbandon
<1>12. ASSUME ResolveScan, UNCHANGED apiVars PROVE ReplayInv'
  BY <1>12 DEF ResolveScan, Candidates
<1>13. ASSUME ResolveNotDue, UNCHANGED apiVars PROVE ReplayInv'
  BY <1>13 DEF ResolveNotDue
<1>14. ASSUME ResolveDone, UNCHANGED apiVars PROVE ReplayInv'
  BY <1>14 DEF ResolveDone
<1>15. ASSUME NEW t \in Task, ResolveRead(t), UNCHANGED apiVars
      PROVE  ReplayInv'
  BY <1>15 DEF ResolveRead, Pipeable, BoundUpstreams
<1>16. ASSUME NEW t \in Task, ResolvePoison(t), UNCHANGED apiVars
      PROVE  ReplayInv'
  BY <1>16 DEF ResolvePoison
<1>17. ASSUME NEW t \in Task, ResolveWrite(t), UNCHANGED apiVars
      PROVE  ReplayInv'
  <2>1. CASE EnqueueDependent(t)
    BY <1>17, <2>1, LegalMoves, SMTT(30) DEF ResolveWrite, ResolveForget,
       EnqueueDependent, CancelDependent, Classify
  <2>2. CASE CancelDependent(t)
    BY <1>17, <2>2, LegalMoves, SMTT(30) DEF ResolveWrite, ResolveForget,
       EnqueueDependent, CancelDependent, Classify
  <2>3. CASE UNCHANGED << status, events, inputs, witness, classif >>
    BY <1>17, <2>3, LegalMoves, SMTT(30) DEF ResolveWrite, ResolveForget,
       EnqueueDependent, CancelDependent, Classify
  <2> QED
    BY <1>17, <2>1, <2>2, <2>3 DEF ResolveWrite
<1>18. ASSUME Start, UNCHANGED apiVars PROVE ReplayInv'
  BY <1>18 DEF Start
<1>19. ASSUME RecoverEvent, UNCHANGED apiVars PROVE ReplayInv'
  BY <1>19 DEF RecoverEvent
<1>20. ASSUME RecoverDone, UNCHANGED apiVars PROVE ReplayInv'
  BY <1>20 DEF RecoverDone, InWorker
<1>21. ASSUME NEW t \in Task, Recover(t), UNCHANGED apiVars PROVE ReplayInv'
  <2>1. CASE status[t] \in ExecutionStates
    BY <1>21, <2>1, LegalMoves, SMTT(30) DEF Recover, ExecutionStates
  <2>2. CASE status[t] \notin ExecutionStates
    BY <1>21, <2>2, LegalMoves, SMTT(30) DEF Recover, ExecutionStates
  <2> QED
    BY <2>1, <2>2
<1>22. ASSUME PollNothing, UNCHANGED apiVars PROVE ReplayInv'
  BY <1>22 DEF PollNothing
<1>23. ASSUME NEW t \in Task, Claim(t), UNCHANGED apiVars PROVE ReplayInv'
  <2>1. CASE phase'[Job] = "claimed"
    BY <1>23, <2>1, LegalMoves, SMTT(30) DEF Claim, Oldest, Queued
  <2>2. CASE phase'[Job] # "claimed"
    BY <1>23, <2>2, LegalMoves, SMTT(30) DEF Claim, Oldest, Queued
  <2> QED
    BY <2>1, <2>2
<1>24. ASSUME NEW e \in Exec, Quarantine(e), UNCHANGED apiVars PROVE ReplayInv'
  <2>1. CASE status[hold[e]] \in ExecutionStates
    BY <1>24, <2>1, SMTT(30) DEF Quarantine, ExecutionStates
  <2>2. CASE status[hold[e]] \notin ExecutionStates
    BY <1>24, <2>2, SMTT(30) DEF Quarantine, ExecutionStates
  <2> QED
    BY <2>1, <2>2
<1>25. ASSUME NEW e \in Exec, Refuse(e), UNCHANGED apiVars PROVE ReplayInv'
  BY <1>25 DEF Refuse, Classify
<1>26. ASSUME NEW e \in Exec, Derive(e), UNCHANGED apiVars PROVE ReplayInv'
  BY <1>26 DEF Derive, Classify
<1>27. ASSUME NEW e \in Exec, StartValidation(e), UNCHANGED apiVars
      PROVE  ReplayInv'
  BY <1>27 DEF StartValidation
<1>28. ASSUME NEW e \in Exec, ValidatePass(e), UNCHANGED apiVars
      PROVE  ReplayInv'
  BY <1>28 DEF ValidatePass
<1>29. ASSUME NEW e \in Exec, ValidateFail(e), UNCHANGED apiVars
      PROVE  ReplayInv'
  BY <1>29 DEF ValidateFail
<1>30. ASSUME NEW e \in Exec, EnterRunning(e), UNCHANGED apiVars
      PROVE  ReplayInv'
  BY <1>30, LegalMoves DEF EnterRunning
<1>31. ASSUME NEW e \in Exec, RunWorkflow(e), UNCHANGED apiVars
      PROVE  ReplayInv'
  <2>0. /\ phase[e] = "running" /\ hold[e] \in Task
        /\ runs' = [runs EXCEPT ![hold[e]] = runs[hold[e]] + 1]
        /\ \E next \in {"ran", "failing"} : phase' = [phase EXCEPT ![e] = next]
        /\ UNCHANGED << hold, status >>
    BY <1>31 DEF RunWorkflow
  <2>1. runs[hold[e]] = 0 /\ status[hold[e]] \in {"running", "cancelled", "failed"}
    BY <2>0
  <2>2. ASSUME NEW f \in Exec, phase'[f] = "running"
        PROVE  f # e /\ phase[f] = "running" /\ hold[f] \in Task /\ hold[f] # hold[e]
    BY <2>0, <2>2
  <2>3. NoReplay'
    BY <2>0, <2>1
  <2>4. \A t \in Task :
           status'[t] \in {"absent", "created", "queued", "validating"} => runs'[t] = 0
    BY <2>0, <2>1
  <2>5. \A f \in Exec : phase'[f] = "running" => runs'[hold'[f]] = 0
    BY <2>0, <2>2
  <2> QED
    BY <2>3, <2>4, <2>5
<1>32. ASSUME NEW e \in Exec, RegisterOutputs(e), UNCHANGED apiVars
      PROVE  ReplayInv'
  BY <1>32 DEF RegisterOutputs
<1>33. ASSUME NEW e \in Exec, SetTaskOutputs(e), UNCHANGED apiVars
      PROVE  ReplayInv'
  BY <1>33 DEF SetTaskOutputs
<1>34. ASSUME NEW e \in Exec, RecordSample(e), UNCHANGED apiVars
      PROVE  ReplayInv'
  BY <1>34 DEF RecordSample, Sampled
<1>35. ASSUME NEW e \in Exec, RequestReview(e), UNCHANGED apiVars
      PROVE  ReplayInv'
  BY <1>35, LegalMoves DEF RequestReview, NeedsReview
<1>36. ASSUME NEW e \in Exec, EnterAnalyzing(e), UNCHANGED apiVars
      PROVE  ReplayInv'
  BY <1>36, LegalMoves DEF EnterAnalyzing, NeedsReview
<1>37. ASSUME NEW e \in Exec, Complete(e), UNCHANGED apiVars PROVE ReplayInv'
  BY <1>37, LegalMoves DEF Complete
<1>38. ASSUME NEW e \in Exec, Close(e), UNCHANGED apiVars PROVE ReplayInv'
  BY <1>38 DEF Close
<1>39. ASSUME NEW e \in Exec, MarkFailed(e), UNCHANGED apiVars PROVE ReplayInv'
  <2>1. CASE phase[e] = "failing"
    BY <1>39, <2>1, LegalMoves, SMTT(30) DEF MarkFailed, ExecutionStates
  <2>2. CASE phase[e] = "refusing"
    BY <1>39, <2>2, LegalMoves, SMTT(30) DEF MarkFailed, ExecutionStates
  <2> QED
    BY <1>39, <2>1, <2>2 DEF MarkFailed
<1>40. ASSUME NEW e \in Exec, FailedEvent(e), UNCHANGED apiVars
      PROVE  ReplayInv'
  <2>1. CASE phase[e] = "failed"
    BY <1>40, <2>1, SMTT(30) DEF FailedEvent
  <2>2. CASE phase[e] = "refused"
    BY <1>40, <2>2, SMTT(30) DEF FailedEvent
  <2> QED
    BY <1>40, <2>1, <2>2 DEF FailedEvent
<1>41. ASSUME NEW e \in Exec, FailureSample(e), UNCHANGED apiVars
      PROVE  ReplayInv'
  BY <1>41 DEF FailureSample, Sampled
<1>42. ASSUME NEW e \in Exec, Race(e), UNCHANGED apiVars PROVE ReplayInv'
  <2>1. CASE e = Job
    BY <1>42, <2>1, SMTT(30) DEF Race
  <2>2. CASE e # Job
    BY <1>42, <2>2, SMTT(30) DEF Race
  <2> QED
    BY <2>1, <2>2
<1>43. ASSUME NEW e \in Exec, FailBestEffort(e), UNCHANGED apiVars
      PROVE  ReplayInv'
  <2>1. CASE status[hold[e]] \in ExecutionStates /\ e = Job
    BY <1>43, <2>1, LegalMoves, SMTT(30) DEF FailBestEffort, ExecutionStates
  <2>2. CASE status[hold[e]] \in ExecutionStates /\ e # Job
    BY <1>43, <2>2, LegalMoves, SMTT(30) DEF FailBestEffort, ExecutionStates
  <2>3. CASE status[hold[e]] \notin ExecutionStates /\ e = Job
    BY <1>43, <2>3, LegalMoves, SMTT(30) DEF FailBestEffort, ExecutionStates
  <2>4. CASE status[hold[e]] \notin ExecutionStates /\ e # Job
    BY <1>43, <2>4, LegalMoves, SMTT(30) DEF FailBestEffort, ExecutionStates
  <2> QED
    BY <2>1, <2>2, <2>3, <2>4
<1>44. ASSUME NEW e \in Exec, FailBestEffortEvent(e), UNCHANGED apiVars
      PROVE  ReplayInv'
  BY <1>44 DEF FailBestEffortEvent
<1>45. ASSUME NEW e \in Exec, NEW t \in Task, EvalInsert(e, t), UNCHANGED
              apiVars
      PROVE  ReplayInv'
  BY <1>45 DEF EvalInsert
<1>46. ASSUME NEW e \in Exec, EvalQueue(e), UNCHANGED apiVars PROVE ReplayInv'
  BY <1>46, LegalMoves DEF EvalQueue
<1>47. ASSUME NEW e \in Exec, EvalClaim(e), UNCHANGED apiVars PROVE ReplayInv'
  <2>1. CASE fault \/ status[hold[e]] # "queued"
    BY <1>47, <2>1, LegalMoves, SMTT(30) DEF EvalClaim
  <2>2. CASE ~(fault \/ status[hold[e]] # "queued")
    BY <1>47, <2>2, LegalMoves, SMTT(30) DEF EvalClaim
  <2> QED
    BY <2>1, <2>2
<1>48. ASSUME NEW e \in Exec, EvalRaise(e), UNCHANGED apiVars PROVE ReplayInv'
  BY <1>48 DEF EvalRaise
<1>49. ASSUME NEW e \in Exec, CliStop(e), UNCHANGED apiVars PROVE ReplayInv'
  BY <1>49 DEF CliStop
<1>50. ASSUME Crash, UNCHANGED apiVars PROVE ReplayInv'
  BY <1>50 DEF Crash, InWorker
<1>51. ASSUME ResolveAbort, UNCHANGED apiVars PROVE ReplayInv'
  BY <1>51 DEF ResolveAbort, ResolveForget
<1>52. ASSUME NEW e \in Exec, Raise(e), UNCHANGED apiVars PROVE ReplayInv'
  BY <1>52 DEF Raise
<1>53. ASSUME NEW e \in Exec, LoseFailure(e), UNCHANGED apiVars
      PROVE  ReplayInv'
  BY <1>53 DEF LoseFailure
<1>54. CASE Latch \/ Backfill
  BY <1>54 DEF Latch, Backfill
<1>55. CASE UNCHANGED vars
  BY <1>55 DEF vars
<1> QED
  BY ONLY [Next]_vars, <1>1, <1>2, <1>3, <1>4, <1>5, <1>6, <1>7, <1>8,
     <1>9, <1>10, <1>11, <1>12, <1>13, <1>14, <1>15, <1>16, <1>17,
     <1>18, <1>19, <1>20, <1>21, <1>22, <1>23, <1>24, <1>25, <1>26,
     <1>27, <1>28, <1>29, <1>30, <1>31, <1>32, <1>33, <1>34, <1>35,
     <1>36, <1>37, <1>38, <1>39, <1>40, <1>41, <1>42, <1>43, <1>44,
     <1>45, <1>46, <1>47, <1>48, <1>49, <1>50, <1>51, <1>52, <1>53,
     <1>54, <1>55
     DEF Next, ApiStep, Creating, Cancelling, WorkerStep, JobStep, ResolverStep,
         RecoveryStep, ClaimStep, RuntimeStep, EvalStep, Disturbance


\* No replay: across crashes, recoveries and races a workflow is entered at
\* most once.
THEOREM ReplayCorrect == Spec => []NoReplay
<1>1. ReplayInv => NoReplay
  BY DEF ReplayInv
<1> QED
  BY <1>1, InitReplay, NextReplay, TypeCorrect, WorkCorrect, StageCorrect, PTL
     DEF Spec

-----------------------------------------------------------------------------
(* Reviews and releases *)

\* a review event is in the row only together with the state it decided, and
\* a completed task of this release carries the signature of its kind
DecisionInv ==
    /\ \A t \in Task :
          /\ "review_approved" \in events[t] => status[t] = "completed"
          /\ "review_rejected" \in events[t] => status[t] = "failed"
    /\ ReleasedBySignature

LEMMA InitDecision == Init => DecisionInv
<1> SUFFICES ASSUME Init PROVE DecisionInv
  OBVIOUS
<1>1. \A t \in Task : events[t] \subseteq {"task_created", "task_completed"}
  BY DEF Init
<1>2. \A t \in Task \ LegacyDone : status[t] # "completed"
  BY DEF Init
<1> QED
  BY <1>1, <1>2 DEF DecisionInv, ReleasedBySignature

\* a move out of a state that is not terminal, to one that is not completed,
\* with an event that is no decision
LEMMA NoDecision ==
  ASSUME TypeOK, DecisionInv, NEW t \in Task, NEW s, NEW type,
         s # "completed", type \notin {"review_approved", "review_rejected"},
         \/ status' = status
         \/ /\ status[t] \notin {"completed", "failed", "cancelled"}
            /\ status' = [status EXCEPT ![t] = s],
         \/ events' = events
         \/ events' = [events EXCEPT ![t] = @ \cup {type}]
  PROVE  DecisionInv'
<1> USE DEF TypeOK, StoreTypeOK
<1>1. \A u \in Task : /\ events[u] \subseteq events'[u]
                      /\ events'[u] \subseteq events[u] \cup {type}
  OBVIOUS
<1>2. \A u \in Task : \/ status'[u] = status[u]
                      \/ /\ status'[u] # "completed"
                         /\ status[u] \notin {"completed", "failed", "cancelled"}
  OBVIOUS
<1>3. ASSUME NEW u \in Task
      PROVE  /\ "review_approved" \in events'[u] => status'[u] = "completed"
             /\ "review_rejected" \in events'[u] => status'[u] = "failed"
  BY <1>1, <1>2 DEF DecisionInv
<1>4. ReleasedBySignature'
  BY <1>1, <1>2 DEF DecisionInv, ReleasedBySignature, ReviewEvidence
<1> QED
  BY <1>3, <1>4 DEF DecisionInv

LEMMA NextDecision ==
  TypeOK /\ WorkInv /\ StageInv /\ DecisionInv /\ [Next]_vars => DecisionInv'
<1> SUFFICES ASSUME TypeOK, WorkInv, StageInv, DecisionInv, [Next]_vars PROVE DecisionInv'
  OBVIOUS
<1> USE DEF TypeOK, StoreTypeOK, ApiTypeOK, WorkerTypeOK, rows, storeVars,
        apiVars, workerVars, local, Rest, Goto, Release, Move, Append,
        SetTaskStatus, MoveWithEvent, Working, RuntimePhases,
        WorkInv, Holding, Known, StageInv, Rows, Dead, DecisionInv,
        ReleasedBySignature, ReviewEvidence
<1>1. ASSUME NEW t \in Task, NEW D \in SUBSET Task, NEW B \in SUBSET D,
             CreateInsert(t, D, B), UNCHANGED workerVars
      PROVE  DecisionInv'
  BY <1>1 DEF CreateInsert, Exists
<1>2. ASSUME NEW t \in Task, CreateEnqueue(t), UNCHANGED workerVars
      PROVE  DecisionInv'
  BY <1>2, LegalMoves DEF CreateEnqueue
<1>3. ASSUME NEW t \in Task, CreateRefused(t), UNCHANGED workerVars
      PROVE  DecisionInv'
  BY <1>3 DEF CreateRefused
<1>4. ASSUME NEW t \in Task, CreateEvent(t), UNCHANGED workerVars
      PROVE  DecisionInv'
  BY <1>4 DEF CreateEvent
<1>5. ASSUME NEW t \in Task, CancelRead(t), UNCHANGED workerVars
      PROVE  DecisionInv'
  BY <1>5 DEF CancelRead
<1>6. ASSUME NEW t \in Task, CancelWrite(t), UNCHANGED workerVars
      PROVE  DecisionInv'
  BY <1>6, LegalMoves DEF CancelWrite
<1>7. ASSUME NEW t \in Task, CancelRefused(t), UNCHANGED workerVars
      PROVE  DecisionInv'
  BY <1>7 DEF CancelRefused
<1>8. ASSUME NEW t \in Task, CancelEvent(t), UNCHANGED workerVars
      PROVE  DecisionInv'
  BY <1>8 DEF CancelEvent
<1>9. ASSUME NEW t \in Task, Approve(t), UNCHANGED workerVars
      PROVE  DecisionInv'
  BY <1>9, LegalMoves DEF Approve, Decide, Label, ReviewEvidence
<1>10. ASSUME NEW t \in Task, Reject(t), UNCHANGED workerVars
      PROVE  DecisionInv'
  BY <1>10, LegalMoves DEF Reject, Decide, Label
<1>11. ASSUME NEW t \in Task, ApiAbandon(t), UNCHANGED workerVars
      PROVE  DecisionInv'
  BY <1>11 DEF ApiAbandon
<1>12. ASSUME ResolveScan, UNCHANGED apiVars PROVE DecisionInv'
  BY <1>12 DEF ResolveScan, Candidates
<1>13. ASSUME ResolveNotDue, UNCHANGED apiVars PROVE DecisionInv'
  BY <1>13 DEF ResolveNotDue
<1>14. ASSUME ResolveDone, UNCHANGED apiVars PROVE DecisionInv'
  BY <1>14 DEF ResolveDone
<1>15. ASSUME NEW t \in Task, ResolveRead(t), UNCHANGED apiVars
      PROVE  DecisionInv'
  BY <1>15 DEF ResolveRead, Pipeable, BoundUpstreams
<1>16. ASSUME NEW t \in Task, ResolvePoison(t), UNCHANGED apiVars
      PROVE  DecisionInv'
  BY <1>16 DEF ResolvePoison
<1>17. ASSUME NEW t \in Task, ResolveWrite(t), UNCHANGED apiVars
      PROVE  DecisionInv'
  <2>1. CASE EnqueueDependent(t)
    <3>1. /\ status[t] = "created" /\ status' = [status EXCEPT ![t] = "queued"]
          /\ events' = [events EXCEPT ![t] = @ \cup {"dependency_resolved"}]
      BY <2>1 DEF EnqueueDependent
    <3> QED
      BY ONLY TypeOK, DecisionInv, t \in Task, <3>1, NoDecision
  <2>2. CASE CancelDependent(t)
    <3>1. /\ status[t] = "created" /\ status' = [status EXCEPT ![t] = "cancelled"]
          /\ events' = [events EXCEPT ![t] = @ \cup {"task_cancelled"}]
      BY <2>2 DEF CancelDependent
    <3> QED
      BY ONLY TypeOK, DecisionInv, t \in Task, <3>1, NoDecision
  <2>3. CASE UNCHANGED << status, events >>
    BY <2>3
  <2> QED
    BY <1>17, <2>1, <2>2, <2>3 DEF ResolveWrite
<1>18. ASSUME Start, UNCHANGED apiVars PROVE DecisionInv'
  BY <1>18 DEF Start
<1>19. ASSUME RecoverEvent, UNCHANGED apiVars PROVE DecisionInv'
  BY <1>19 DEF RecoverEvent
<1>20. ASSUME RecoverDone, UNCHANGED apiVars PROVE DecisionInv'
  BY <1>20 DEF RecoverDone, InWorker
<1>21. ASSUME NEW t \in Task, Recover(t), UNCHANGED apiVars PROVE DecisionInv'
  <2>1. CASE status[t] \in ExecutionStates
    BY <1>21, <2>1, LegalMoves, SMTT(30) DEF Recover, ExecutionStates
  <2>2. CASE status[t] \notin ExecutionStates
    BY <1>21, <2>2, LegalMoves, SMTT(30) DEF Recover, ExecutionStates
  <2> QED
    BY <2>1, <2>2
<1>22. ASSUME PollNothing, UNCHANGED apiVars PROVE DecisionInv'
  BY <1>22 DEF PollNothing
<1>23. ASSUME NEW t \in Task, Claim(t), UNCHANGED apiVars PROVE DecisionInv'
  <2>1. \E s \in {"validating", "failed"} :
           /\ status[t] = "queued" /\ status' = [status EXCEPT ![t] = s]
           /\ events' = events \/ events' = [events EXCEPT ![t] = @ \cup {"task_failed"}]
    BY <1>23 DEF Claim, Oldest, Queued
  <2> QED
    BY ONLY TypeOK, DecisionInv, t \in Task, <2>1, NoDecision
<1>24. ASSUME NEW e \in Exec, Quarantine(e), UNCHANGED apiVars
      PROVE  DecisionInv'
  <2>1. CASE status[hold[e]] \in ExecutionStates
    BY <1>24, <2>1, SMTT(30) DEF Quarantine, ExecutionStates
  <2>2. CASE status[hold[e]] \notin ExecutionStates
    BY <1>24, <2>2, SMTT(30) DEF Quarantine, ExecutionStates
  <2> QED
    BY <2>1, <2>2
<1>25. ASSUME NEW e \in Exec, Refuse(e), UNCHANGED apiVars PROVE DecisionInv'
  BY <1>25 DEF Refuse, Classify
<1>26. ASSUME NEW e \in Exec, Derive(e), UNCHANGED apiVars PROVE DecisionInv'
  BY <1>26 DEF Derive, Classify
<1>27. ASSUME NEW e \in Exec, StartValidation(e), UNCHANGED apiVars
      PROVE  DecisionInv'
  BY <1>27 DEF StartValidation
<1>28. ASSUME NEW e \in Exec, ValidatePass(e), UNCHANGED apiVars
      PROVE  DecisionInv'
  BY <1>28 DEF ValidatePass
<1>29. ASSUME NEW e \in Exec, ValidateFail(e), UNCHANGED apiVars
      PROVE  DecisionInv'
  BY <1>29 DEF ValidateFail
<1>30. ASSUME NEW e \in Exec, EnterRunning(e), UNCHANGED apiVars
      PROVE  DecisionInv'
  BY <1>30, LegalMoves DEF EnterRunning
<1>31. ASSUME NEW e \in Exec, RunWorkflow(e), UNCHANGED apiVars
      PROVE  DecisionInv'
  BY <1>31 DEF RunWorkflow
<1>32. ASSUME NEW e \in Exec, RegisterOutputs(e), UNCHANGED apiVars
      PROVE  DecisionInv'
  BY <1>32 DEF RegisterOutputs
<1>33. ASSUME NEW e \in Exec, SetTaskOutputs(e), UNCHANGED apiVars
      PROVE  DecisionInv'
  BY <1>33 DEF SetTaskOutputs
<1>34. ASSUME NEW e \in Exec, RecordSample(e), UNCHANGED apiVars
      PROVE  DecisionInv'
  BY <1>34 DEF RecordSample, Sampled
<1>35. ASSUME NEW e \in Exec, RequestReview(e), UNCHANGED apiVars
      PROVE  DecisionInv'
  BY <1>35, LegalMoves DEF RequestReview
<1>36. ASSUME NEW e \in Exec, EnterAnalyzing(e), UNCHANGED apiVars
      PROVE  DecisionInv'
  BY <1>36, LegalMoves DEF EnterAnalyzing, NeedsReview
<1>37. ASSUME NEW e \in Exec, Complete(e), UNCHANGED apiVars PROVE DecisionInv'
  BY <1>37, LegalMoves DEF Complete
<1>38. ASSUME NEW e \in Exec, Close(e), UNCHANGED apiVars PROVE DecisionInv'
  BY <1>38 DEF Close
<1>39. ASSUME NEW e \in Exec, MarkFailed(e), UNCHANGED apiVars
      PROVE  DecisionInv'
  <2>1. CASE phase[e] = "failing"
    BY <1>39, <2>1, LegalMoves, SMTT(30) DEF MarkFailed, ExecutionStates
  <2>2. CASE phase[e] = "refusing"
    BY <1>39, <2>2, LegalMoves, SMTT(30) DEF MarkFailed, ExecutionStates
  <2> QED
    BY <1>39, <2>1, <2>2 DEF MarkFailed
<1>40. ASSUME NEW e \in Exec, FailedEvent(e), UNCHANGED apiVars
      PROVE  DecisionInv'
  <2>1. CASE phase[e] = "failed"
    BY <1>40, <2>1, SMTT(30) DEF FailedEvent
  <2>2. CASE phase[e] = "refused"
    BY <1>40, <2>2, SMTT(30) DEF FailedEvent
  <2> QED
    BY <1>40, <2>1, <2>2 DEF FailedEvent
<1>41. ASSUME NEW e \in Exec, FailureSample(e), UNCHANGED apiVars
      PROVE  DecisionInv'
  BY <1>41 DEF FailureSample, Sampled
<1>42. ASSUME NEW e \in Exec, Race(e), UNCHANGED apiVars PROVE DecisionInv'
  <2>1. /\ hold[e] \in Task /\ status' = status
        /\ events' = events \/ events' = [events EXCEPT ![hold[e]] = @ \cup {"warning"}]
    BY <1>42 DEF Race
  <2> QED
    BY ONLY TypeOK, DecisionInv, <2>1, NoDecision
<1>43. ASSUME NEW e \in Exec, FailBestEffort(e), UNCHANGED apiVars
      PROVE  DecisionInv'
  <2>1. CASE status[hold[e]] \in ExecutionStates
    <3>1. /\ hold[e] \in Task /\ events' = events
          /\ status[hold[e]] \notin {"completed", "failed", "cancelled"}
          /\ status' = [status EXCEPT ![hold[e]] = "failed"]
      BY <1>43, <2>1 DEF FailBestEffort, ExecutionStates
    <3> QED
      BY ONLY TypeOK, DecisionInv, <3>1, NoDecision
  <2>2. CASE status[hold[e]] \notin ExecutionStates
    <3>1. /\ hold[e] \in Task /\ status' = status
          /\ events' = events \/ events' = [events EXCEPT ![hold[e]] = @ \cup {"warning"}]
      BY <1>43, <2>2 DEF FailBestEffort
    <3> QED
      BY ONLY TypeOK, DecisionInv, <3>1, NoDecision
  <2> QED
    BY <2>1, <2>2
<1>44. ASSUME NEW e \in Exec, FailBestEffortEvent(e), UNCHANGED apiVars
      PROVE  DecisionInv'
  BY <1>44 DEF FailBestEffortEvent
<1>45. ASSUME NEW e \in Exec, NEW t \in Task, EvalInsert(e, t), UNCHANGED
              apiVars
      PROVE  DecisionInv'
  BY <1>45 DEF EvalInsert
<1>46. ASSUME NEW e \in Exec, EvalQueue(e), UNCHANGED apiVars
      PROVE  DecisionInv'
  BY <1>46, LegalMoves DEF EvalQueue
<1>47. ASSUME NEW e \in Exec, EvalClaim(e), UNCHANGED apiVars
      PROVE  DecisionInv'
  <2>1. CASE fault \/ status[hold[e]] # "queued"
    BY <1>47, <2>1, LegalMoves, SMTT(30) DEF EvalClaim
  <2>2. CASE ~(fault \/ status[hold[e]] # "queued")
    BY <1>47, <2>2, LegalMoves, SMTT(30) DEF EvalClaim
  <2> QED
    BY <2>1, <2>2
<1>48. ASSUME NEW e \in Exec, EvalRaise(e), UNCHANGED apiVars
      PROVE  DecisionInv'
  BY <1>48 DEF EvalRaise
<1>49. ASSUME NEW e \in Exec, CliStop(e), UNCHANGED apiVars PROVE DecisionInv'
  BY <1>49 DEF CliStop
<1>50. ASSUME Crash, UNCHANGED apiVars PROVE DecisionInv'
  BY <1>50 DEF Crash, InWorker
<1>51. ASSUME ResolveAbort, UNCHANGED apiVars PROVE DecisionInv'
  BY <1>51 DEF ResolveAbort, ResolveForget
<1>52. ASSUME NEW e \in Exec, Raise(e), UNCHANGED apiVars PROVE DecisionInv'
  BY <1>52 DEF Raise
<1>53. ASSUME NEW e \in Exec, LoseFailure(e), UNCHANGED apiVars
      PROVE  DecisionInv'
  BY <1>53 DEF LoseFailure
<1>54. CASE Latch \/ Backfill
  BY <1>54 DEF Latch, Backfill
<1>55. CASE UNCHANGED vars
  BY <1>55 DEF vars
<1> QED
  BY ONLY [Next]_vars, <1>1, <1>2, <1>3, <1>4, <1>5, <1>6, <1>7, <1>8,
     <1>9, <1>10, <1>11, <1>12, <1>13, <1>14, <1>15, <1>16, <1>17,
     <1>18, <1>19, <1>20, <1>21, <1>22, <1>23, <1>24, <1>25, <1>26,
     <1>27, <1>28, <1>29, <1>30, <1>31, <1>32, <1>33, <1>34, <1>35,
     <1>36, <1>37, <1>38, <1>39, <1>40, <1>41, <1>42, <1>43, <1>44,
     <1>45, <1>46, <1>47, <1>48, <1>49, <1>50, <1>51, <1>52, <1>53,
     <1>54, <1>55
     DEF Next, ApiStep, Creating, Cancelling, WorkerStep, JobStep, ResolverStep,
         RecoveryStep, ClaimStep, RuntimeStep, EvalStep, Disturbance


LEMMA DecisionCorrect == Spec => []DecisionInv
BY InitDecision, NextDecision, TypeCorrect, WorkCorrect, StageCorrect, PTL DEF Spec

\* A completed task of this release was approved by a human on execution
\* evidence, or ended by itself under a deterministic agent.
THEOREM ReleaseCorrect == Spec => []ReleasedBySignature
<1>1. DecisionInv => ReleasedBySignature
  BY DEF DecisionInv
<1> QED
  BY <1>1, DecisionCorrect, PTL

Human ==
    \A t \in Task :
        status[t] = "waiting_review" /\ status'[t] # "waiting_review" =>
            /\ events'[t] \cap {"review_approved", "review_rejected"} # {}
            /\ events[t] \cap {"review_approved", "review_rejected"} = {}

LEMMA NextHuman ==
  TypeOK /\ WorkInv /\ StageInv /\ DecisionInv /\ [Next]_vars => Human
<1> SUFFICES ASSUME TypeOK, WorkInv, StageInv, DecisionInv, [Next]_vars PROVE Human
  OBVIOUS
<1> USE DEF TypeOK, StoreTypeOK, ApiTypeOK, WorkerTypeOK, rows, storeVars,
        apiVars, workerVars, local, Rest, Goto, Release, Move, Append,
        SetTaskStatus, MoveWithEvent, Working, RuntimePhases,
        WorkInv, Holding, Known, StageInv, Rows, Dead, DecisionInv,
        Human
<1>1. ASSUME NEW t \in Task, NEW D \in SUBSET Task, NEW B \in SUBSET D,
             CreateInsert(t, D, B), UNCHANGED workerVars
      PROVE  Human
  BY <1>1 DEF CreateInsert, Exists
<1>2. ASSUME NEW t \in Task, CreateEnqueue(t), UNCHANGED workerVars PROVE Human
  BY <1>2, LegalMoves DEF CreateEnqueue
<1>3. ASSUME NEW t \in Task, CreateRefused(t), UNCHANGED workerVars PROVE Human
  BY <1>3 DEF CreateRefused
<1>4. ASSUME NEW t \in Task, CreateEvent(t), UNCHANGED workerVars PROVE Human
  BY <1>4 DEF CreateEvent
<1>5. ASSUME NEW t \in Task, CancelRead(t), UNCHANGED workerVars PROVE Human
  BY <1>5 DEF CancelRead
<1>6. ASSUME NEW t \in Task, CancelWrite(t), UNCHANGED workerVars PROVE Human
  BY <1>6, LegalMoves DEF CancelWrite
<1>7. ASSUME NEW t \in Task, CancelRefused(t), UNCHANGED workerVars PROVE Human
  BY <1>7 DEF CancelRefused
<1>8. ASSUME NEW t \in Task, CancelEvent(t), UNCHANGED workerVars PROVE Human
  BY <1>8 DEF CancelEvent
<1>9. ASSUME NEW t \in Task, Approve(t), UNCHANGED workerVars PROVE Human
  BY <1>9, LegalMoves DEF Approve, Decide, Label, ReviewEvidence
<1>10. ASSUME NEW t \in Task, Reject(t), UNCHANGED workerVars PROVE Human
  BY <1>10, LegalMoves DEF Reject, Decide, Label
<1>11. ASSUME NEW t \in Task, ApiAbandon(t), UNCHANGED workerVars PROVE Human
  BY <1>11 DEF ApiAbandon
<1>12. ASSUME ResolveScan, UNCHANGED apiVars PROVE Human
  BY <1>12 DEF ResolveScan, Candidates
<1>13. ASSUME ResolveNotDue, UNCHANGED apiVars PROVE Human
  BY <1>13 DEF ResolveNotDue
<1>14. ASSUME ResolveDone, UNCHANGED apiVars PROVE Human
  BY <1>14 DEF ResolveDone
<1>15. ASSUME NEW t \in Task, ResolveRead(t), UNCHANGED apiVars PROVE Human
  BY <1>15 DEF ResolveRead, Pipeable, BoundUpstreams
<1>16. ASSUME NEW t \in Task, ResolvePoison(t), UNCHANGED apiVars PROVE Human
  BY <1>16 DEF ResolvePoison
<1>17. ASSUME NEW t \in Task, ResolveWrite(t), UNCHANGED apiVars PROVE Human
  <2>1. CASE EnqueueDependent(t)
    BY <1>17, <2>1, LegalMoves, SMTT(30) DEF ResolveWrite, ResolveForget,
       EnqueueDependent, CancelDependent, Classify
  <2>2. CASE CancelDependent(t)
    BY <1>17, <2>2, LegalMoves, SMTT(30) DEF ResolveWrite, ResolveForget,
       EnqueueDependent, CancelDependent, Classify
  <2>3. CASE UNCHANGED << status, events, inputs, witness, classif >>
    BY <1>17, <2>3, LegalMoves, SMTT(30) DEF ResolveWrite, ResolveForget,
       EnqueueDependent, CancelDependent, Classify
  <2> QED
    BY <1>17, <2>1, <2>2, <2>3 DEF ResolveWrite
<1>18. ASSUME Start, UNCHANGED apiVars PROVE Human
  BY <1>18 DEF Start
<1>19. ASSUME RecoverEvent, UNCHANGED apiVars PROVE Human
  BY <1>19 DEF RecoverEvent
<1>20. ASSUME RecoverDone, UNCHANGED apiVars PROVE Human
  BY <1>20 DEF RecoverDone, InWorker
<1>21. ASSUME NEW t \in Task, Recover(t), UNCHANGED apiVars PROVE Human
  <2>1. CASE status[t] \in ExecutionStates
    BY <1>21, <2>1, LegalMoves, SMTT(30) DEF Recover, ExecutionStates
  <2>2. CASE status[t] \notin ExecutionStates
    BY <1>21, <2>2, LegalMoves, SMTT(30) DEF Recover, ExecutionStates
  <2> QED
    BY <2>1, <2>2
<1>22. ASSUME PollNothing, UNCHANGED apiVars PROVE Human
  BY <1>22 DEF PollNothing
<1>23. ASSUME NEW t \in Task, Claim(t), UNCHANGED apiVars PROVE Human
  <2>1. CASE phase'[Job] = "claimed"
    BY <1>23, <2>1, LegalMoves, SMTT(30) DEF Claim, Oldest, Queued
  <2>2. CASE phase'[Job] # "claimed"
    BY <1>23, <2>2, LegalMoves, SMTT(30) DEF Claim, Oldest, Queued
  <2> QED
    BY <2>1, <2>2
<1>24. ASSUME NEW e \in Exec, Quarantine(e), UNCHANGED apiVars PROVE Human
  <2>1. CASE status[hold[e]] \in ExecutionStates
    BY <1>24, <2>1, SMTT(30) DEF Quarantine, ExecutionStates
  <2>2. CASE status[hold[e]] \notin ExecutionStates
    BY <1>24, <2>2, SMTT(30) DEF Quarantine, ExecutionStates
  <2> QED
    BY <2>1, <2>2
<1>25. ASSUME NEW e \in Exec, Refuse(e), UNCHANGED apiVars PROVE Human
  BY <1>25 DEF Refuse, Classify
<1>26. ASSUME NEW e \in Exec, Derive(e), UNCHANGED apiVars PROVE Human
  BY <1>26 DEF Derive, Classify
<1>27. ASSUME NEW e \in Exec, StartValidation(e), UNCHANGED apiVars PROVE Human
  BY <1>27 DEF StartValidation
<1>28. ASSUME NEW e \in Exec, ValidatePass(e), UNCHANGED apiVars PROVE Human
  BY <1>28 DEF ValidatePass
<1>29. ASSUME NEW e \in Exec, ValidateFail(e), UNCHANGED apiVars PROVE Human
  BY <1>29 DEF ValidateFail
<1>30. ASSUME NEW e \in Exec, EnterRunning(e), UNCHANGED apiVars PROVE Human
  BY <1>30, LegalMoves DEF EnterRunning
<1>31. ASSUME NEW e \in Exec, RunWorkflow(e), UNCHANGED apiVars PROVE Human
  BY <1>31 DEF RunWorkflow
<1>32. ASSUME NEW e \in Exec, RegisterOutputs(e), UNCHANGED apiVars PROVE Human
  BY <1>32 DEF RegisterOutputs
<1>33. ASSUME NEW e \in Exec, SetTaskOutputs(e), UNCHANGED apiVars PROVE Human
  BY <1>33 DEF SetTaskOutputs
<1>34. ASSUME NEW e \in Exec, RecordSample(e), UNCHANGED apiVars PROVE Human
  BY <1>34 DEF RecordSample, Sampled
<1>35. ASSUME NEW e \in Exec, RequestReview(e), UNCHANGED apiVars PROVE Human
  BY <1>35, LegalMoves DEF RequestReview
<1>36. ASSUME NEW e \in Exec, EnterAnalyzing(e), UNCHANGED apiVars PROVE Human
  BY <1>36, LegalMoves DEF EnterAnalyzing, NeedsReview
<1>37. ASSUME NEW e \in Exec, Complete(e), UNCHANGED apiVars PROVE Human
  <2>1. /\ status[hold[e]] \in {"analyzing", "cancelled", "failed"}
        /\ status' = [status EXCEPT ![hold[e]] = "completed"]
    BY <1>37 DEF Complete
  <2> QED
    BY <2>1
<1>38. ASSUME NEW e \in Exec, Close(e), UNCHANGED apiVars PROVE Human
  BY <1>38 DEF Close
<1>39. ASSUME NEW e \in Exec, MarkFailed(e), UNCHANGED apiVars PROVE Human
  <2>1. CASE phase[e] = "failing"
    BY <1>39, <2>1, LegalMoves, SMTT(30) DEF MarkFailed, ExecutionStates
  <2>2. CASE phase[e] = "refusing"
    BY <1>39, <2>2, LegalMoves, SMTT(30) DEF MarkFailed, ExecutionStates
  <2> QED
    BY <1>39, <2>1, <2>2 DEF MarkFailed
<1>40. ASSUME NEW e \in Exec, FailedEvent(e), UNCHANGED apiVars PROVE Human
  <2>1. CASE phase[e] = "failed"
    BY <1>40, <2>1, SMTT(30) DEF FailedEvent
  <2>2. CASE phase[e] = "refused"
    BY <1>40, <2>2, SMTT(30) DEF FailedEvent
  <2> QED
    BY <1>40, <2>1, <2>2 DEF FailedEvent
<1>41. ASSUME NEW e \in Exec, FailureSample(e), UNCHANGED apiVars PROVE Human
  BY <1>41 DEF FailureSample, Sampled
<1>42. ASSUME NEW e \in Exec, Race(e), UNCHANGED apiVars PROVE Human
  <2>1. CASE e = Job
    BY <1>42, <2>1, SMTT(30) DEF Race
  <2>2. CASE e # Job
    BY <1>42, <2>2, SMTT(30) DEF Race
  <2> QED
    BY <2>1, <2>2
<1>43. ASSUME NEW e \in Exec, FailBestEffort(e), UNCHANGED apiVars PROVE Human
  <2>1. CASE status[hold[e]] \in ExecutionStates /\ e = Job
    BY <1>43, <2>1, LegalMoves, SMTT(30) DEF FailBestEffort, ExecutionStates
  <2>2. CASE status[hold[e]] \in ExecutionStates /\ e # Job
    BY <1>43, <2>2, LegalMoves, SMTT(30) DEF FailBestEffort, ExecutionStates
  <2>3. CASE status[hold[e]] \notin ExecutionStates /\ e = Job
    BY <1>43, <2>3, LegalMoves, SMTT(30) DEF FailBestEffort, ExecutionStates
  <2>4. CASE status[hold[e]] \notin ExecutionStates /\ e # Job
    BY <1>43, <2>4, LegalMoves, SMTT(30) DEF FailBestEffort, ExecutionStates
  <2> QED
    BY <2>1, <2>2, <2>3, <2>4
<1>44. ASSUME NEW e \in Exec, FailBestEffortEvent(e), UNCHANGED apiVars
      PROVE  Human
  BY <1>44 DEF FailBestEffortEvent
<1>45. ASSUME NEW e \in Exec, NEW t \in Task, EvalInsert(e, t), UNCHANGED
              apiVars
      PROVE  Human
  BY <1>45 DEF EvalInsert
<1>46. ASSUME NEW e \in Exec, EvalQueue(e), UNCHANGED apiVars PROVE Human
  BY <1>46, LegalMoves DEF EvalQueue
<1>47. ASSUME NEW e \in Exec, EvalClaim(e), UNCHANGED apiVars PROVE Human
  <2>1. CASE fault \/ status[hold[e]] # "queued"
    BY <1>47, <2>1, LegalMoves, SMTT(30) DEF EvalClaim
  <2>2. CASE ~(fault \/ status[hold[e]] # "queued")
    BY <1>47, <2>2, LegalMoves, SMTT(30) DEF EvalClaim
  <2> QED
    BY <2>1, <2>2
<1>48. ASSUME NEW e \in Exec, EvalRaise(e), UNCHANGED apiVars PROVE Human
  BY <1>48 DEF EvalRaise
<1>49. ASSUME NEW e \in Exec, CliStop(e), UNCHANGED apiVars PROVE Human
  BY <1>49 DEF CliStop
<1>50. ASSUME Crash, UNCHANGED apiVars PROVE Human
  BY <1>50 DEF Crash, InWorker
<1>51. ASSUME ResolveAbort, UNCHANGED apiVars PROVE Human
  BY <1>51 DEF ResolveAbort, ResolveForget
<1>52. ASSUME NEW e \in Exec, Raise(e), UNCHANGED apiVars PROVE Human
  BY <1>52 DEF Raise
<1>53. ASSUME NEW e \in Exec, LoseFailure(e), UNCHANGED apiVars PROVE Human
  BY <1>53 DEF LoseFailure
<1>54. CASE Latch \/ Backfill
  BY <1>54 DEF Latch, Backfill
<1>55. CASE UNCHANGED vars
  BY <1>55 DEF vars
<1> QED
  BY ONLY [Next]_vars, <1>1, <1>2, <1>3, <1>4, <1>5, <1>6, <1>7, <1>8,
     <1>9, <1>10, <1>11, <1>12, <1>13, <1>14, <1>15, <1>16, <1>17,
     <1>18, <1>19, <1>20, <1>21, <1>22, <1>23, <1>24, <1>25, <1>26,
     <1>27, <1>28, <1>29, <1>30, <1>31, <1>32, <1>33, <1>34, <1>35,
     <1>36, <1>37, <1>38, <1>39, <1>40, <1>41, <1>42, <1>43, <1>44,
     <1>45, <1>46, <1>47, <1>48, <1>49, <1>50, <1>51, <1>52, <1>53,
     <1>54, <1>55
     DEF Next, ApiStep, Creating, Cancelling, WorkerStep, JobStep, ResolverStep,
         RecoveryStep, ClaimStep, RuntimeStep, EvalStep, Disturbance


\* Only a human decision takes a task out of waiting_review.
THEOREM ReviewCorrect == Spec => ReviewIsHuman
<1>1. TypeOK /\ WorkInv /\ StageInv /\ DecisionInv /\ [Next]_vars => [Human]_vars
  BY NextHuman
<1> QED
  BY <1>1, TypeCorrect, WorkCorrect, StageCorrect, DecisionCorrect, PTL
     DEF Spec, ReviewIsHuman, Human

-----------------------------------------------------------------------------
(* What a workflow consumes *)

\* every upstream a task declared is there to be consumed
Ready(t) ==
    \A u \in deps[t] : status[u] = "completed" /\ SignedOff(u) /\ ~Foreign(u, t)

Gate(t) == inputs[t] \subseteq BoundUpstreams(t) /\ Ready(t)

\* where the readiness of a task is relied on, from the resolver's decision
\* to the workflow
ConsumeInv ==
    /\ \A t \in Task : "dependency_resolved" \in events[t] => Ready(t)
    /\ phase[Job] = "decide" /\ verdict = "enqueue" => Ready(hold[Job])
    /\ \A e \in Exec : phase[e] \in {"validated", "running"} => Gate(hold[e])
    /\ \A t \in Task : runs[t] > 0 => Gate(t)

\* no step takes back an event, or the references of a row once they matter
Framed ==
    \A t \in Task :
        /\ events[t] \subseteq events'[t]
        /\ status[t] # "absent" => deps'[t] = deps[t] /\ binding'[t] = binding[t]
        /\ status[t] \notin {"absent", "created"} => inputs'[t] = inputs[t]

\* the step relies on no readiness that was not relied on before
NoNew ==
    /\ \A t \in Task : "dependency_resolved" \in events'[t]
                          => "dependency_resolved" \in events[t]
    /\ phase'[Job] = "decide" /\ verdict' = "enqueue" =>
          phase[Job] = "decide" /\ verdict = "enqueue" /\ hold'[Job] = hold[Job]
    /\ \A e \in Exec : phase'[e] \in {"validated", "running"} =>
          phase[e] \in {"validated", "running"} /\ hold'[e] = hold[e]
    /\ runs' = runs

New == \/ \E t \in Task : ResolveRead(t) \/ ResolveWrite(t)
       \/ \E e \in Exec : ValidatePass(e) \/ RunWorkflow(e)

LEMMA NextFramed ==
  TypeOK /\ WorkInv /\ [Next]_vars => Framed /\ (NoNew \/ New)
<1> SUFFICES ASSUME TypeOK, WorkInv, [Next]_vars PROVE Framed /\ (NoNew \/ New)
  OBVIOUS
<1> USE DEF TypeOK, StoreTypeOK, ApiTypeOK, WorkerTypeOK, rows, storeVars,
        apiVars, workerVars, local, Rest, Goto, Release, Move, Append,
        SetTaskStatus, MoveWithEvent, Working, RuntimePhases,
        WorkInv, Holding, Known, Framed, NoNew
<1>1. ASSUME NEW t \in Task, NEW D \in SUBSET Task, NEW B \in SUBSET D,
             CreateInsert(t, D, B), UNCHANGED workerVars
      PROVE  Framed /\ (NoNew \/ New)
  BY <1>1 DEF CreateInsert, Exists
<1>2. ASSUME NEW t \in Task, CreateEnqueue(t), UNCHANGED workerVars
      PROVE  Framed /\ (NoNew \/ New)
  BY <1>2, LegalMoves DEF CreateEnqueue
<1>3. ASSUME NEW t \in Task, CreateRefused(t), UNCHANGED workerVars
      PROVE  Framed /\ (NoNew \/ New)
  BY <1>3 DEF CreateRefused
<1>4. ASSUME NEW t \in Task, CreateEvent(t), UNCHANGED workerVars
      PROVE  Framed /\ (NoNew \/ New)
  BY <1>4 DEF CreateEvent
<1>5. ASSUME NEW t \in Task, CancelRead(t), UNCHANGED workerVars
      PROVE  Framed /\ (NoNew \/ New)
  BY <1>5 DEF CancelRead
<1>6. ASSUME NEW t \in Task, CancelWrite(t), UNCHANGED workerVars
      PROVE  Framed /\ (NoNew \/ New)
  BY <1>6, LegalMoves DEF CancelWrite
<1>7. ASSUME NEW t \in Task, CancelRefused(t), UNCHANGED workerVars
      PROVE  Framed /\ (NoNew \/ New)
  BY <1>7 DEF CancelRefused
<1>8. ASSUME NEW t \in Task, CancelEvent(t), UNCHANGED workerVars
      PROVE  Framed /\ (NoNew \/ New)
  BY <1>8 DEF CancelEvent
<1>9. ASSUME NEW t \in Task, Approve(t), UNCHANGED workerVars
      PROVE  Framed /\ (NoNew \/ New)
  BY <1>9, LegalMoves DEF Approve, Decide, Label
<1>10. ASSUME NEW t \in Task, Reject(t), UNCHANGED workerVars
      PROVE  Framed /\ (NoNew \/ New)
  BY <1>10, LegalMoves DEF Reject, Decide, Label
<1>11. ASSUME NEW t \in Task, ApiAbandon(t), UNCHANGED workerVars
      PROVE  Framed /\ (NoNew \/ New)
  BY <1>11 DEF ApiAbandon
<1>12. ASSUME ResolveScan, UNCHANGED apiVars PROVE Framed /\ (NoNew \/ New)
  BY <1>12 DEF ResolveScan, Candidates
<1>13. ASSUME ResolveNotDue, UNCHANGED apiVars PROVE Framed /\ (NoNew \/ New)
  BY <1>13 DEF ResolveNotDue
<1>14. ASSUME ResolveDone, UNCHANGED apiVars PROVE Framed /\ (NoNew \/ New)
  BY <1>14 DEF ResolveDone
<1>15. ASSUME NEW t \in Task, ResolveRead(t), UNCHANGED apiVars
      PROVE  Framed /\ (NoNew \/ New)
  <2>1. Framed
    BY <1>15 DEF ResolveRead
  <2>2. New
    BY <1>15 DEF New
  <2> QED
    BY <2>1, <2>2
<1>16. ASSUME NEW t \in Task, ResolvePoison(t), UNCHANGED apiVars
      PROVE  Framed /\ (NoNew \/ New)
  BY <1>16 DEF ResolvePoison
<1>17. ASSUME NEW t \in Task, ResolveWrite(t), UNCHANGED apiVars
      PROVE  Framed /\ (NoNew \/ New)
  <2>1. UNCHANGED << deps, binding >>
    BY <1>17 DEF ResolveWrite
  <2>2. ASSUME EnqueueDependent(t) PROVE Framed
    BY <2>1, <2>2 DEF EnqueueDependent
  <2>3. ASSUME CancelDependent(t) PROVE Framed
    BY <2>1, <2>3 DEF CancelDependent
  <2>4. ASSUME UNCHANGED << status, events, inputs, witness, classif >>
        PROVE  Framed
    BY <2>1, <2>4
  <2>5. Framed
    BY <1>17, <2>2, <2>3, <2>4 DEF ResolveWrite
  <2>6. New
    BY <1>17 DEF New
  <2> QED
    BY <2>5, <2>6
<1>18. ASSUME Start, UNCHANGED apiVars PROVE Framed /\ (NoNew \/ New)
  BY <1>18 DEF Start
<1>19. ASSUME RecoverEvent, UNCHANGED apiVars PROVE Framed /\ (NoNew \/ New)
  BY <1>19 DEF RecoverEvent
<1>20. ASSUME RecoverDone, UNCHANGED apiVars PROVE Framed /\ (NoNew \/ New)
  BY <1>20 DEF RecoverDone, InWorker
<1>21. ASSUME NEW t \in Task, Recover(t), UNCHANGED apiVars
      PROVE  Framed /\ (NoNew \/ New)
  <2>1. CASE status[t] \in ExecutionStates
    BY <1>21, <2>1, LegalMoves, SMTT(30) DEF Recover, ExecutionStates
  <2>2. CASE status[t] \notin ExecutionStates
    BY <1>21, <2>2, LegalMoves, SMTT(30) DEF Recover, ExecutionStates
  <2> QED
    BY <2>1, <2>2
<1>22. ASSUME PollNothing, UNCHANGED apiVars PROVE Framed /\ (NoNew \/ New)
  BY <1>22 DEF PollNothing
<1>23. ASSUME NEW t \in Task, Claim(t), UNCHANGED apiVars
      PROVE  Framed /\ (NoNew \/ New)
  <2>1. /\ t \in Task
        /\ \/ events' = events
           \/ \E E : events' = [events EXCEPT ![t] = @ \cup E]
    BY <1>23 DEF Claim
  <2>2. UNCHANGED << deps, binding, inputs, verdict, runs >>
    BY <1>23 DEF Claim
  <2>3. Framed
    BY <2>1, <2>2
  <2>4. \A u \in Task : "dependency_resolved" \in events'[u]
                          => "dependency_resolved" \in events[u]
    <3>1. \/ events' = events
          \/ events' = [events EXCEPT ![t] = @ \cup {"task_failed"}]
      BY <1>23 DEF Claim
    <3> QED
      BY <2>1, <3>1
  <2>5. \A f \in Exec : phase'[f] \in {"decide", "validated", "running"}
                          => phase'[f] = phase[f] /\ hold'[f] = hold[f]
    BY <1>23 DEF Claim
  <2>6. NoNew
    BY <2>2, <2>4, <2>5
  <2> QED
    BY <2>3, <2>6
<1>24. ASSUME NEW e \in Exec, Quarantine(e), UNCHANGED apiVars
      PROVE  Framed /\ (NoNew \/ New)
  <2>1. /\ hold[e] \in Task
        /\ \/ events' = events
           \/ \E E : events' = [events EXCEPT ![hold[e]] = @ \cup E]
    BY <1>24 DEF Quarantine
  <2>2. UNCHANGED << deps, binding, inputs, verdict, runs >>
    BY <1>24 DEF Quarantine
  <2>3. Framed
    BY <2>1, <2>2
  <2>4. \A u \in Task : "dependency_resolved" \in events'[u]
                          => "dependency_resolved" \in events[u]
    <3>1. \/ events' = events
          \/ events' = [events EXCEPT ![hold[e]] = @ \cup {"task_failed"}]
      BY <1>24 DEF Quarantine
    <3> QED
      BY <2>1, <3>1
  <2>5. \A f \in Exec : phase'[f] \in {"decide", "validated", "running"}
                          => phase'[f] = phase[f] /\ hold'[f] = hold[f]
    BY <1>24 DEF Quarantine
  <2>6. NoNew
    BY <2>2, <2>4, <2>5
  <2> QED
    BY <2>3, <2>6
<1>25. ASSUME NEW e \in Exec, Refuse(e), UNCHANGED apiVars
      PROVE  Framed /\ (NoNew \/ New)
  BY <1>25 DEF Refuse, Classify
<1>26. ASSUME NEW e \in Exec, Derive(e), UNCHANGED apiVars
      PROVE  Framed /\ (NoNew \/ New)
  BY <1>26 DEF Derive, Classify
<1>27. ASSUME NEW e \in Exec, StartValidation(e), UNCHANGED apiVars
      PROVE  Framed /\ (NoNew \/ New)
  BY <1>27 DEF StartValidation
<1>28. ASSUME NEW e \in Exec, ValidatePass(e), UNCHANGED apiVars
      PROVE  Framed /\ (NoNew \/ New)
  <2>1. Framed
    BY <1>28 DEF ValidatePass
  <2>2. New
    BY <1>28 DEF New
  <2> QED
    BY <2>1, <2>2
<1>29. ASSUME NEW e \in Exec, ValidateFail(e), UNCHANGED apiVars
      PROVE  Framed /\ (NoNew \/ New)
  BY <1>29 DEF ValidateFail
<1>30. ASSUME NEW e \in Exec, EnterRunning(e), UNCHANGED apiVars
      PROVE  Framed /\ (NoNew \/ New)
  BY <1>30, LegalMoves DEF EnterRunning
<1>31. ASSUME NEW e \in Exec, RunWorkflow(e), UNCHANGED apiVars
      PROVE  Framed /\ (NoNew \/ New)
  <2>1. Framed
    BY <1>31 DEF RunWorkflow
  <2>2. New
    BY <1>31 DEF New
  <2> QED
    BY <2>1, <2>2
<1>32. ASSUME NEW e \in Exec, RegisterOutputs(e), UNCHANGED apiVars
      PROVE  Framed /\ (NoNew \/ New)
  BY <1>32 DEF RegisterOutputs
<1>33. ASSUME NEW e \in Exec, SetTaskOutputs(e), UNCHANGED apiVars
      PROVE  Framed /\ (NoNew \/ New)
  BY <1>33 DEF SetTaskOutputs
<1>34. ASSUME NEW e \in Exec, RecordSample(e), UNCHANGED apiVars
      PROVE  Framed /\ (NoNew \/ New)
  BY <1>34 DEF RecordSample, Sampled
<1>35. ASSUME NEW e \in Exec, RequestReview(e), UNCHANGED apiVars
      PROVE  Framed /\ (NoNew \/ New)
  BY <1>35, LegalMoves DEF RequestReview
<1>36. ASSUME NEW e \in Exec, EnterAnalyzing(e), UNCHANGED apiVars
      PROVE  Framed /\ (NoNew \/ New)
  BY <1>36, LegalMoves DEF EnterAnalyzing, NeedsReview
<1>37. ASSUME NEW e \in Exec, Complete(e), UNCHANGED apiVars
      PROVE  Framed /\ (NoNew \/ New)
  BY <1>37, LegalMoves DEF Complete
<1>38. ASSUME NEW e \in Exec, Close(e), UNCHANGED apiVars
      PROVE  Framed /\ (NoNew \/ New)
  BY <1>38 DEF Close
<1>39. ASSUME NEW e \in Exec, MarkFailed(e), UNCHANGED apiVars
      PROVE  Framed /\ (NoNew \/ New)
  <2>1. CASE phase[e] = "failing"
    BY <1>39, <2>1, LegalMoves, SMTT(30) DEF MarkFailed, ExecutionStates
  <2>2. CASE phase[e] = "refusing"
    BY <1>39, <2>2, LegalMoves, SMTT(30) DEF MarkFailed, ExecutionStates
  <2> QED
    BY <1>39, <2>1, <2>2 DEF MarkFailed
<1>40. ASSUME NEW e \in Exec, FailedEvent(e), UNCHANGED apiVars
      PROVE  Framed /\ (NoNew \/ New)
  <2>1. CASE phase[e] = "failed"
    BY <1>40, <2>1, SMTT(30) DEF FailedEvent
  <2>2. CASE phase[e] = "refused"
    BY <1>40, <2>2, SMTT(30) DEF FailedEvent
  <2> QED
    BY <1>40, <2>1, <2>2 DEF FailedEvent
<1>41. ASSUME NEW e \in Exec, FailureSample(e), UNCHANGED apiVars
      PROVE  Framed /\ (NoNew \/ New)
  BY <1>41 DEF FailureSample, Sampled
<1>42. ASSUME NEW e \in Exec, Race(e), UNCHANGED apiVars
      PROVE  Framed /\ (NoNew \/ New)
  <2>1. /\ hold[e] \in Task
        /\ \/ events' = events
           \/ \E E : events' = [events EXCEPT ![hold[e]] = @ \cup E]
    BY <1>42 DEF Race
  <2>2. UNCHANGED << deps, binding, inputs, verdict, runs >>
    BY <1>42 DEF Race
  <2>3. Framed
    BY <2>1, <2>2
  <2>4. \A u \in Task : "dependency_resolved" \in events'[u]
                          => "dependency_resolved" \in events[u]
    <3>1. \/ events' = events
          \/ events' = [events EXCEPT ![hold[e]] = @ \cup {"warning"}]
      BY <1>42 DEF Race
    <3> QED
      BY <2>1, <3>1
  <2>5. \A f \in Exec : phase'[f] \in {"decide", "validated", "running"}
                          => phase'[f] = phase[f] /\ hold'[f] = hold[f]
    BY <1>42 DEF Race
  <2>6. NoNew
    BY <2>2, <2>4, <2>5
  <2> QED
    BY <2>3, <2>6
<1>43. ASSUME NEW e \in Exec, FailBestEffort(e), UNCHANGED apiVars
      PROVE  Framed /\ (NoNew \/ New)
  <2>1. /\ hold[e] \in Task
        /\ \/ events' = events
           \/ \E E : events' = [events EXCEPT ![hold[e]] = @ \cup E]
    BY <1>43 DEF FailBestEffort
  <2>2. UNCHANGED << deps, binding, inputs, verdict, runs >>
    BY <1>43 DEF FailBestEffort
  <2>3. Framed
    BY <2>1, <2>2
  <2>4. \A u \in Task : "dependency_resolved" \in events'[u]
                          => "dependency_resolved" \in events[u]
    <3>1. \/ events' = events
          \/ events' = [events EXCEPT ![hold[e]] = @ \cup {"warning"}]
      BY <1>43 DEF FailBestEffort
    <3> QED
      BY <2>1, <3>1
  <2>5. \A f \in Exec : phase'[f] \in {"decide", "validated", "running"}
                          => phase'[f] = phase[f] /\ hold'[f] = hold[f]
    BY <1>43 DEF FailBestEffort
  <2>6. NoNew
    BY <2>2, <2>4, <2>5
  <2> QED
    BY <2>3, <2>6
<1>44. ASSUME NEW e \in Exec, FailBestEffortEvent(e), UNCHANGED apiVars
      PROVE  Framed /\ (NoNew \/ New)
  BY <1>44 DEF FailBestEffortEvent
<1>45. ASSUME NEW e \in Exec, NEW t \in Task, EvalInsert(e, t), UNCHANGED
              apiVars
      PROVE  Framed /\ (NoNew \/ New)
  BY <1>45 DEF EvalInsert
<1>46. ASSUME NEW e \in Exec, EvalQueue(e), UNCHANGED apiVars
      PROVE  Framed /\ (NoNew \/ New)
  BY <1>46, LegalMoves DEF EvalQueue
<1>47. ASSUME NEW e \in Exec, EvalClaim(e), UNCHANGED apiVars
      PROVE  Framed /\ (NoNew \/ New)
  <2>1. CASE fault \/ status[hold[e]] # "queued"
    BY <1>47, <2>1, LegalMoves, SMTT(30) DEF EvalClaim
  <2>2. CASE ~(fault \/ status[hold[e]] # "queued")
    BY <1>47, <2>2, LegalMoves, SMTT(30) DEF EvalClaim
  <2> QED
    BY <2>1, <2>2
<1>48. ASSUME NEW e \in Exec, EvalRaise(e), UNCHANGED apiVars
      PROVE  Framed /\ (NoNew \/ New)
  BY <1>48 DEF EvalRaise
<1>49. ASSUME NEW e \in Exec, CliStop(e), UNCHANGED apiVars
      PROVE  Framed /\ (NoNew \/ New)
  BY <1>49 DEF CliStop
<1>50. ASSUME Crash, UNCHANGED apiVars PROVE Framed /\ (NoNew \/ New)
  BY <1>50 DEF Crash, InWorker
<1>51. ASSUME ResolveAbort, UNCHANGED apiVars PROVE Framed /\ (NoNew \/ New)
  BY <1>51 DEF ResolveAbort, ResolveForget
<1>52. ASSUME NEW e \in Exec, Raise(e), UNCHANGED apiVars
      PROVE  Framed /\ (NoNew \/ New)
  BY <1>52 DEF Raise
<1>53. ASSUME NEW e \in Exec, LoseFailure(e), UNCHANGED apiVars
      PROVE  Framed /\ (NoNew \/ New)
  BY <1>53 DEF LoseFailure
<1>54. CASE Latch \/ Backfill
  BY <1>54 DEF Latch, Backfill
<1>55. CASE UNCHANGED vars
  BY <1>55 DEF vars
<1> QED
  BY ONLY [Next]_vars, <1>1, <1>2, <1>3, <1>4, <1>5, <1>6, <1>7, <1>8,
     <1>9, <1>10, <1>11, <1>12, <1>13, <1>14, <1>15, <1>16, <1>17,
     <1>18, <1>19, <1>20, <1>21, <1>22, <1>23, <1>24, <1>25, <1>26,
     <1>27, <1>28, <1>29, <1>30, <1>31, <1>32, <1>33, <1>34, <1>35,
     <1>36, <1>37, <1>38, <1>39, <1>40, <1>41, <1>42, <1>43, <1>44,
     <1>45, <1>46, <1>47, <1>48, <1>49, <1>50, <1>51, <1>52, <1>53,
     <1>54, <1>55
     DEF Next, ApiStep, Creating, Cancelling, WorkerStep, JobStep, ResolverStep,
         RecoveryStep, ClaimStep, RuntimeStep, EvalStep, Disturbance


LEMMA ReadyStable ==
  ASSUME TypeOK, Framed, Final, NEW t \in Task, status[t] # "absent", Ready(t)
  PROVE  Ready(t)'
<1>1. deps[t] \subseteq Task /\ deps'[t] = deps[t]
  BY DEF TypeOK, StoreTypeOK, Framed
<1>2. ASSUME NEW u \in deps[t]
      PROVE  status'[u] = "completed" /\ SignedOff(u)' /\ ~Foreign(u, t)
  <2>1. u \in Task /\ status[u] = "completed" /\ SignedOff(u) /\ ~Foreign(u, t)
    BY <1>1 DEF Ready
  <2>2. status'[u] = status[u]
    BY <2>1, TerminalStates DEF Final
  <2> QED
    BY <2>1, <2>2 DEF Framed, SignedOff
<1> QED
  BY <1>1, <1>2 DEF Ready, Foreign

LEMMA GateStable ==
  ASSUME TypeOK, Framed, Final, NEW t \in Task,
         status[t] \notin {"absent", "created"}, Gate(t)
  PROVE  Gate(t)'
<1>1. Ready(t)'
  BY ReadyStable DEF Gate
<1> QED
  BY <1>1 DEF Gate, Framed, BoundUpstreams

LEMMA InitConsume == Init => ConsumeInv
BY DEF Init, ConsumeInv

LEMMA NextConsume ==
  TypeOK /\ WorkInv /\ StageInv /\ ReplayInv /\ ConsumeInv /\ [Next]_vars
    => ConsumeInv'
<1> SUFFICES ASSUME TypeOK, WorkInv, StageInv, ReplayInv, ConsumeInv, [Next]_vars
             PROVE  ConsumeInv'
  OBVIOUS
<1> USE DEF Exec
<1>1. Framed /\ Final
  BY NextFramed, NextFinal
<1>2. NoNew \/ New
  BY NextFramed
<1>3. ASSUME NEW t \in Task, "dependency_resolved" \in events[t] PROVE
             Ready(t)'
  <2>1. status[t] # "absent" /\ Ready(t)
    BY <1>3 DEF WorkInv, Known, ConsumeInv
  <2> QED
    BY <1>1, <2>1, ReadyStable
<1>4. ASSUME phase[Job] = "decide", verdict = "enqueue"
      PROVE  hold[Job] \in Task /\ \A t \in Task : t = hold[Job] => Ready(t)'
  <2>1. hold[Job] \in Task /\ status[hold[Job]] # "absent"
    BY <1>4 DEF WorkInv, Holding, Working, Known, TypeOK, WorkerTypeOK
  <2>2. Ready(hold[Job])
    BY <1>4 DEF ConsumeInv
  <2>3. \A t \in Task : t = hold[Job] => Ready(t)'
    BY <1>1, <2>1, <2>2, ReadyStable
  <2> QED
    BY <2>1, <2>3
<1>5. ASSUME NEW e \in Exec, phase[e] \in {"validated", "running"}
      PROVE  \A t \in Task : t = hold[e] => Gate(t)'
  <2>1. hold[e] \in Task /\ status[hold[e]] \notin {"absent", "created"}
    BY <1>5 DEF WorkInv, Holding, Working, RuntimePhases, StageInv, Rows, Dead
  <2>2. Gate(hold[e])
    BY <1>5 DEF ConsumeInv
  <2> QED
    BY <1>1, <2>1, <2>2, GateStable
<1>6. ASSUME NEW t \in Task, runs[t] > 0 PROVE Gate(t)'
  <2>1. status[t] \notin {"absent", "created"} /\ Gate(t)
    BY <1>6 DEF ReplayInv, ConsumeInv, TypeOK, WorkerTypeOK
  <2> QED
    BY <1>1, <2>1, GateStable
<1>7. \A e \in Exec : phase[e] \in {"validated", "running"} => hold[e] \in Task
  BY DEF WorkInv, Holding, Working, RuntimePhases
<1>8. CASE NoNew
  BY <1>3, <1>4, <1>5, <1>6, <1>7, <1>8 DEF NoNew, ConsumeInv
<1>9. ASSUME NEW t \in Task, ResolveRead(t) PROVE ConsumeInv'
  <2>1. /\ UNCHANGED << status, deps, binding, inputs, events, runs >>
        /\ phase[Job] = "resolve"
        /\ \A e \in Exec \ {Job} : phase'[e] = phase[e] /\ hold'[e] = hold[e]
    BY <1>9 DEF ResolveRead, Goto, storeVars, rows, TypeOK, WorkerTypeOK
  <2>2. phase'[Job] \in {"resolve", "decide"}
    BY <1>9 DEF ResolveRead, Goto, TypeOK, WorkerTypeOK
  <2>3. ASSUME phase'[Job] = "decide", verdict' = "enqueue"
        PROVE  hold'[Job] = t /\ ~Doomed(t) /\ AllCompleted(t)
    BY <1>9, <2>3 DEF ResolveRead, TypeOK, WorkerTypeOK
  <2>4. ~Doomed(t) /\ AllCompleted(t) => Ready(t)
    BY DEF Doomed, AllCompleted, Ready, Unsigned
  <2>5. (\A u \in Task : Ready(u)' <=> Ready(u)) /\ (\A u \in Task : Gate(u)' <=> Gate(u))
    BY <2>1 DEF Ready, Gate, SignedOff, BoundUpstreams, Foreign
  <2>6. phase'[Job] = "decide" /\ verdict' = "enqueue" => Ready(hold[Job])'
    BY <2>3, <2>4, <2>5
  <2>7. \A e \in Exec : phase'[e] \in {"validated", "running"} => Gate(hold[e])'
    BY <1>7, <2>1, <2>2, <2>5 DEF ConsumeInv
  <2> QED
    BY <2>1, <2>5, <2>6, <2>7 DEF ConsumeInv
<1>10. ASSUME NEW t \in Task, ResolveWrite(t) PROVE ConsumeInv'
  <2>1. /\ phase[Job] = "decide" /\ hold[Job] = t /\ phase'[Job] = "resolve"
        /\ \A e \in Exec \ {Job} : phase'[e] = phase[e] /\ hold'[e] = hold[e]
        /\ runs' = runs
    BY <1>10 DEF ResolveWrite, ResolveForget, Goto, TypeOK, WorkerTypeOK
  <2>2. ASSUME NEW u \in Task, "dependency_resolved" \in events'[u]
        PROVE  "dependency_resolved" \in events[u] \/ (u = t /\ verdict = "enqueue")
    <3>1. CASE EnqueueDependent(t)
      BY <2>2, <3>1 DEF EnqueueDependent, MoveWithEvent, Append, TypeOK,
         StoreTypeOK
    <3>2. CASE CancelDependent(t)
      BY <2>2, <3>2 DEF CancelDependent, MoveWithEvent, Append, TypeOK,
         StoreTypeOK
    <3>3. CASE events' = events
      BY <2>2, <3>3
    <3> QED
      BY <1>10, <3>1, <3>2, <3>3 DEF ResolveWrite
  <2>3. \A u \in Task : "dependency_resolved" \in events'[u] => Ready(u)'
    BY <1>3, <1>4, <2>1, <2>2
  <2> QED
    BY <1>5, <1>6, <1>7, <2>1, <2>3 DEF ConsumeInv
<1>11. ASSUME NEW e \in Exec, ValidatePass(e) PROVE ConsumeInv'
  <2>1. /\ UNCHANGED << status, deps, binding, inputs, events, runs, hold, verdict >>
        /\ phase[e] = "started" /\ phase' = [phase EXCEPT ![e] = "validated"]
        /\ WitnessValid(hold[e]) /\ \A u \in inputs[hold[e]] : Consumable(u, hold[e])
    BY <1>11 DEF ValidatePass, Goto, Rest, local
  <2>2. hold[e] \in Task
    BY <2>1 DEF WorkInv, Holding, Working, RuntimePhases
  <2>3. Ready(hold[e])
    BY <2>1, <2>2 DEF WitnessValid, ConsumeInv, Ready
  <2>4. Gate(hold[e])
    BY <2>1, <2>3 DEF Gate, Consumable
  <2>5. (\A u \in Task : Ready(u)' <=> Ready(u)) /\ (\A u \in Task : Gate(u)' <=> Gate(u))
    BY <2>1 DEF Ready, Gate, SignedOff, BoundUpstreams, Foreign
  <2>6. \A f \in Exec : phase'[f] \in {"validated", "running"} =>
           f = e \/ phase[f] \in {"validated", "running"}
    BY <2>1 DEF TypeOK, WorkerTypeOK
  <2>7. \A f \in Exec : phase'[f] \in {"validated", "running"} => Gate(hold[f])'
    BY <1>7, <2>1, <2>2, <2>4, <2>5, <2>6 DEF ConsumeInv
  <2>8. phase'[Job] = "decide" /\ verdict' = "enqueue" => Ready(hold[Job])'
    <3>1. phase'[Job] = "decide" => phase[Job] = "decide" /\ hold[Job] \in Task
      BY <2>1 DEF TypeOK, WorkerTypeOK, WorkInv, Holding, Working
    <3> QED
      BY <2>1, <2>5, <3>1 DEF ConsumeInv
  <2> QED
    BY <2>1, <2>5, <2>7, <2>8 DEF ConsumeInv
<1>12. ASSUME NEW e \in Exec, RunWorkflow(e) PROVE ConsumeInv'
  <2>1. /\ UNCHANGED << status, events, hold, verdict, deps, binding, inputs >>
        /\ phase[e] = "running" /\ hold[e] \in Task
        /\ \E next \in {"ran", "failing"} : phase' = [phase EXCEPT ![e] = next]
        /\ runs' = [runs EXCEPT ![hold[e]] = @ + 1]
    BY <1>7, <1>12 DEF RunWorkflow, Goto, Rest, local
  <2>2. \A t \in Task : runs'[t] > 0 => t = hold[e] \/ runs[t] > 0
    BY <2>1 DEF TypeOK, WorkerTypeOK
  <2>3. \A t \in Task : runs'[t] > 0 => Gate(t)'
    BY <1>5, <1>6, <2>1, <2>2
  <2>4. \A f \in Exec : phase'[f] \in {"decide", "validated", "running"} =>
           phase[f] = phase'[f]
    BY <2>1 DEF TypeOK, WorkerTypeOK
  <2>5. \A f \in Exec : phase'[f] \in {"validated", "running"} => Gate(hold[f])'
    BY <1>5, <1>7, <2>1, <2>4
  <2>6. phase'[Job] = "decide" /\ verdict' = "enqueue" => Ready(hold[Job])'
    BY <1>4, <2>1, <2>4
  <2> QED
    BY <1>3, <2>1, <2>3, <2>5, <2>6 DEF ConsumeInv
<1> QED
  BY <1>2, <1>8, <1>9, <1>10, <1>11, <1>12 DEF New

\* K1/K2: a workflow is only ever entered with upstreams that completed, were
\* signed off and belong to the same conversation and to users, and with no
\* artifact its binding excludes, whatever rows an earlier release left.
THEOREM ConsumptionCorrect == Spec => []SafeConsumption
<1>1. ConsumeInv => SafeConsumption
  BY DEF ConsumeInv, SafeConsumption, Gate, Ready
<1> QED
  BY <1>1, InitConsume, NextConsume, InitReplay, NextReplay, TypeCorrect,
     WorkCorrect, StageCorrect, PTL DEF Spec
===============================================================================
