----------------------------- MODULE TaskCenter -----------------------------
(***************************************************************************)
(* The Task Center as one system: the API process (TaskApi), the worker    *)
(* process and the eval threads (TaskWorker, TaskRuntime) over one store,  *)
(* and the promotion component, of which only the latch is visible here.   *)
(***************************************************************************)
EXTENDS TaskApi, TaskRuntime

vars == << storeVars, apiVars, workerVars >>

Started(t) == t \in LegacyDone \cup LegacyOpen

\* the rows an earlier release left: finished ones that nobody signed, which
\* the first backfill has classified, and dependent ones nobody ever checked
Init ==
    /\ \E done \in [LegacyDone -> {"completed", "failed"}],
          open \in [LegacyOpen -> {"created", "queued"}] :
       status = [t \in Task |-> IF t \in LegacyDone THEN done[t] ELSE
                                IF t \in LegacyOpen THEN open[t] ELSE "absent"]
    /\ \E D \in [LegacyOpen -> SUBSET LegacyDone] :
       deps = [t \in Task |-> IF t \in LegacyOpen THEN D[t] ELSE {}]
    /\ \E F \in [LegacyOpen -> SUBSET LegacyDone] :
       inputs = [t \in Task |-> IF t \in LegacyOpen THEN F[t] ELSE {}]
    /\ \E a \in [LegacyDone -> {"none", "listed", "stray"}] :
       artifact = [t \in Task |-> IF t \in LegacyDone THEN a[t] ELSE "none"]
    /\ events = [t \in Task |->
                    IF t \in LegacyDone THEN {"task_created", "task_completed"}
                    ELSE IF t \in LegacyOpen THEN {"task_created"} ELSE {}]
    /\ classif = [t \in Task |-> IF t \in LegacyDone THEN "internal" ELSE "null"]
    /\ create = [t \in Task |-> IF Started(t) THEN "done" ELSE "idle"]
    /\ cancel = [t \in Task |-> "idle"]
    /\ binding = [t \in Task |-> {}] /\ witness = [t \in Task |-> {}]
    /\ before = [t \in Task |-> {}] /\ sample = [t \in Task |-> "none"]
    /\ fault = FALSE
    /\ phase = [e \in Exec |-> IF e \in Cli THEN "idle" ELSE "down"]
    /\ hold = [e \in Exec |-> None]
    /\ todo = {} /\ verdict = "none" /\ piped = {}
    /\ runs = [t \in Task |-> 0] /\ lossy = FALSE /\ disturbed = 0

-----------------------------------------------------------------------------

\* promote_agent sets the latch for its own critical section and clears it;
\* a failed restoration leaves it set for an operator
Latch ==
    /\ IF fault THEN fault' = FALSE /\ UNCHANGED disturbed
                ELSE fault' = TRUE /\ Disturb
    /\ UNCHANGED << status, deps, binding, inputs, witness, before, classif,
                    artifact, events, sample, apiVars, workerVars >>

BackfillEverything ==                                              \* mutant
    /\ \E t \in Task : classif[t] = "null" /\ status[t] # "absent"
    /\ \E level \in [Task -> Levels] :
          classif' = [t \in Task |-> IF classif[t] = "null" THEN level[t]
                                    ELSE classif[t]]
    /\ UNCHANGED << status, deps, binding, inputs, witness, before, artifact,
                    events, sample, fault, disturbed, apiVars, workerVars >>

\* the rows backfill_task_data_classification looks at
Unclassified(t) == classif[t] = "null" /\ status[t] \in TERMINAL \cup {"waiting_review"}

\* bootstrap.assemble, whenever a process starts: the finished rows without a
\* level get one, from evidence that is not represented here
Backfill ==
    /\ \E t \in Task : Unclassified(t)
    /\ \E level \in [Task -> Levels] :
          classif' = [t \in Task |-> IF Unclassified(t) THEN level[t]
                                    ELSE classif[t]]
    /\ UNCHANGED << status, deps, binding, inputs, witness, before, artifact,
                    events, sample, fault, disturbed, apiVars, workerVars >>

Creating(t) == CreateEnqueue(t) \/ CreateRefused(t) \/ CreateEvent(t)
Cancelling(t) == CancelWrite(t) \/ CancelRefused(t) \/ CancelEvent(t)

ApiStep(t) ==
    \/ \E D \in SUBSET Task : \E B \in SUBSET D : CreateInsert(t, D, B)
    \/ Creating(t) \/ CancelRead(t) \/ Cancelling(t)
    \/ Approve(t) \/ Reject(t) \/ ApiAbandon(t)

ResolverStep ==
    \/ ResolveScan \/ ResolveNotDue \/ ResolveDone
    \/ \E t \in Task : ResolveRead(t) \/ ResolvePoison(t) \/ ResolveWrite(t)

RecoveryStep ==
    \/ Start \/ RecoverEvent \/ RecoverDone
    \/ \E t \in Task : Recover(t)

ClaimStep == PollNothing \/ \E t \in Task : Claim(t)

RuntimeStep(e) ==
    \/ Quarantine(e) \/ Refuse(e) \/ Derive(e) \/ StartValidation(e)
    \/ ValidatePass(e) \/ ValidateFail(e) \/ EnterRunning(e) \/ RunWorkflow(e)
    \/ RegisterOutputs(e) \/ SetTaskOutputs(e) \/ RecordSample(e)
    \/ RequestReview(e) \/ EnterAnalyzing(e) \/ Complete(e) \/ Close(e)
    \/ MarkFailed(e) \/ FailedEvent(e) \/ FailureSample(e) \/ Race(e)
    \/ FailBestEffort(e) \/ FailBestEffortEvent(e)

EvalStep(e) ==
    \/ \E t \in Task : EvalInsert(e, t)
    \/ EvalQueue(e) \/ EvalClaim(e) \/ EvalRaise(e) \/ CliStop(e)

\* what the job thread does of itself, once the process runs
JobStep == ResolverStep \/ RecoveryStep \/ ClaimStep \/ RuntimeStep(Job)

Disturbance == \/ Crash \/ ResolveAbort
               \/ \E e \in Exec : Raise(e) \/ LoseFailure(e)

WorkerStep == JobStep \/ Disturbance
              \/ \E e \in EvalThread : RuntimeStep(e) \/ EvalStep(e)

Next == \/ \E t \in Task : ApiStep(t) /\ UNCHANGED workerVars
        \/ WorkerStep /\ UNCHANGED apiVars
        \/ Latch \/ Backfill

Spec == Init /\ [][Next]_vars

\* the job loop, the eval threads and the handlers that have started go on;
\* nobody is obliged to create, cancel, review or latch anything
Fairness ==
    /\ WF_vars(JobStep /\ UNCHANGED apiVars)
    /\ \A e \in EvalThread : WF_vars(RuntimeStep(e) /\ UNCHANGED apiVars)
    /\ \A t \in Task :
          WF_vars((Creating(t) \/ Cancelling(t)) /\ UNCHANGED workerVars)

FairSpec == Spec /\ Fairness

-----------------------------------------------------------------------------
(* Safety *)

StoreTypeOK ==
    /\ status \in [Task -> States \cup {"absent"}]
    /\ deps \in [Task -> SUBSET Task] /\ binding \in [Task -> SUBSET Task]
    /\ inputs \in [Task -> SUBSET Task] /\ witness \in [Task -> SUBSET Task]
    /\ before \in [Task -> SUBSET Task]
    /\ classif \in [Task -> Levels \cup {"null"}]
    /\ artifact \in [Task -> {"none", "registered", "listed", "stray"}]
    /\ events \in [Task -> SUBSET EventTypes]
    /\ sample \in [Task -> {"none", "success", "failure", "accepted", "rejected"}]
    /\ fault \in BOOLEAN /\ disturbed \in 0 .. MaxDisturb

\* Every column and every thread variable stays in its range.
TypeOK == StoreTypeOK /\ ApiTypeOK /\ WorkerTypeOK

\* K1/K2: whatever rows an earlier release left behind and however requests,
\* the resolver and the threads interleave, a workflow is only ever entered
\* with upstreams that completed, were signed off, belong to the same
\* conversation and to users, and with no artifact its binding excludes.
SafeConsumption ==
    \A t \in Task : runs[t] > 0 =>
        /\ inputs[t] \subseteq BoundUpstreams(t)
        /\ \A u \in deps[t] : /\ status[u] = "completed" /\ SignedOff(u)
                              /\ ~Foreign(u, t)

\* No replay: across crashes, recoveries and races the workflow of a task,
\* which acts on the world outside, is entered at most once.
NoReplay == \A t \in Task : runs[t] =< 1

\* A completed task of this release went through its agent's gate: a human
\* approval bound to execution evidence, or a deterministic agent's own end.
ReleasedBySignature ==
    \A t \in Task \ LegacyDone : status[t] = "completed" =>
        \/ "review_approved" \in events[t] /\ ReviewEvidence(t)
        \/ t \in AutoTask /\ "task_completed" \in events[t]

\* The label of a sample is the verdict of the human who decided its task,
\* and an eval task leaves no sample.
LabelIsVerdict ==
    \A t \in Task :
        /\ sample[t] = "accepted" => "review_approved" \in events[t]
        /\ sample[t] = "rejected" => "review_rejected" \in events[t]
        /\ "review_approved" \in events[t] => sample[t] # "success"
        /\ t \in EvalTask => sample[t] = "none"

\* A user row in an execution state is being worked on, unless the worker is
\* down or still recovering, or a last-resort write was refused: no zombie
\* survives a restart.
NoZombie ==
    \A t \in Task \ EvalTask :
        /\ status[t] \in ExecutionStates /\ ~lossy
        /\ phase[Job] \notin {"down", "recover", "recovered"}
        => hold[Job] = t /\ phase[Job] \in RuntimePhases \cup {"boom"}

\* ADR-0025: no artifact and no sample of a task precedes its level, on
\* any path of execute and of its callers.
ContentIsClassified ==
    \A t \in Task \ (LegacyDone \cup LegacyOpen) :
        artifact[t] # "none" \/ sample[t] # "none" => classif[t] # "null"

\* Nobody pre-empts the level a task derives when it is executed, since the
\* first write stays: neither the resolver nor the backfill of a process that
\* starts touches a task that may still be executed.
LevelIsDerived ==
    /\ \A t \in Task : status[t] \in {"created", "queued"} => classif[t] = "null"
    /\ \A e \in Exec :
          phase[e] = "claimed" /\ status[hold[e]] \in ExecutionStates
             => classif[hold[e]] = "null"

-----------------------------------------------------------------------------
(* Action properties *)

\* Only a human decision takes a task out of waiting_review, and it leaves
\* its review event in the same commit: recovery, the resolver, the threads
\* and a cancel never do.
ReviewIsHuman ==
    [][\A t \in Task :
          status[t] = "waiting_review" /\ status'[t] # "waiting_review" =>
              /\ events'[t] \cap {"review_approved", "review_rejected"} # {}
              /\ events[t] \cap {"review_approved", "review_rejected"} = {}]_vars

\* A terminal row is never moved again, whoever still works on it.
TerminalIsFinal ==
    [][\A t \in Task : status[t] \in TERMINAL => status'[t] = status[t]]_vars

\* ADR-0025: a level once written is never changed, although a task that was
\* cancelled under its thread is classified by that thread and by a backfill.
LevelIsImmutable ==
    [][\A t \in Task : classif[t] # "null" => classif'[t] = classif[t]]_vars

-----------------------------------------------------------------------------
(* What all of it amounts to for the owner of a task *)

\* where a task is in its life, as far as its owner can tell
Life(t) ==
    CASE status[t] = "absent"                  -> "none"
      [] status[t] \in {"created", "queued"}   -> "waiting"
      [] status[t] \in ExecutionStates         -> "working"
      [] status[t] = "waiting_review"          -> "review"
      [] status[t] = "completed"               -> IF SignedOff(t) THEN "released"
                                                                 ELSE "unsigned"
      [] OTHER                                 -> status[t]

\* the threads inside execute, or in what their callers do when it raises
Executing == {e \in Exec : phase[e] \in RuntimePhases \cup {"boom", "boomed"}}

Promise == INSTANCE TaskPromise WITH
    Work <- Task, Reviewable <- Task \ EvalTask, Automatic <- AutoTask,
    Peers <- [t \in Task |-> {u \in Task : ~Foreign(u, t)}],
    life <- [t \in Task |-> Life(t)],
    needs <- deps,
    busy <- {hold[e] : e \in Executing},
    acted <- {t \in Task : runs[t] > 0}

\* Requests, resolver, recovery, threads and crashes together keep the promise:
\* a task is taken up once, acts once and only on what was released, is released
\* by its reviewer or after its own automatic work, and stays where it ended.
ImplementsPromise == Promise!PromiseSpec

-----------------------------------------------------------------------------
(* Liveness, of the user tasks an earlier release has not finished already *)

OpenTask == Task \ (EvalTask \cup LegacyDone)

\* A queued user task is taken up, as long as the latch stays clear.
QueuedIsServed ==
    \A t \in OpenTask : status[t] = "queued" ~> (status[t] # "queued" \/ fault)

\* The write of last resort of t was refused and the worker, which left t as it
\* was, has not been restarted since.
Stranded(t) == /\ lossy /\ hold[Job] # t
               /\ phase[Job] \notin {"down", "recover", "recovered"}

\* Execution of a user task ends, in a review, a result, a failure or a cancel,
\* unless the refused write of last resort strands it; and whatever stranded or
\* interrupted a task, a restart of the worker ends it.
ExecutionEnds ==
    \A t \in OpenTask :
        /\ status[t] \in ExecutionStates
           ~> status[t] \notin ExecutionStates \/ Stranded(t)
        /\ status[t] \in ExecutionStates /\ phase[Job] = "down"
           ~> status[t] \notin ExecutionStates

\* A dependent task is settled once all its upstreams are: the resolver starves
\* no candidate, neither behind a malformed row that raises in every pass nor
\* that row itself.
DependentsSettle ==
    \A t \in OpenTask :
        (/\ status[t] = "created" /\ deps[t] # {}
         /\ \A u \in deps[t] : status[u] \in TERMINAL)
        ~> status[t] # "created"

-----------------------------------------------------------------------------
(* What the documents say and the code does not keep; see the README *)

\* The answer of cancel_task to a running task: V0.1 does not cancel those.
RunningIsNotCancelled ==
    [][\A t \in Task : status[t] = "running" => status'[t] # "cancelled"]_vars

=============================================================================
