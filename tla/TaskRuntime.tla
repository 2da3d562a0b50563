----------------------------- MODULE TaskRuntime -----------------------------
(***************************************************************************)
(* AgentRuntime.execute on the task a thread holds, commit by commit, and  *)
(* what the two callers do when it raises.  The thread works from the row  *)
(* it authorized; a cancel can move the row underneath it at any point.    *)
(***************************************************************************)
EXTENDS TaskWorker

UserTask(t) == t \notin EvalTask

-----------------------------------------------------------------------------
(* Gates before any side effect *)

\* authorize_task_for_execution, again: a poisoned row fails with its event;
\* a row that is no longer executing is left alone and execute returns
Quarantine(e) ==
    LET t == hold[e] IN
    /\ phase[e] = "claimed" /\ UserTask(t)
    /\ IF status[t] \in ExecutionStates
       THEN Move(t, "failed") /\ Append(t, "task_failed")
       ELSE UNCHANGED << status, events >>
    /\ Release(e)
    /\ UNCHANGED << classif, artifact, sample, runs >> /\ Rest

\* no snapshot, digest or version drift, disabled agent, broken skill binding:
\* the fixed diagnosis is classified internal, then the task fails
Refuse(e) ==
    /\ Goto(e, "claimed", "refusing")
    /\ Classify(hold[e], "internal")
    /\ UNCHANGED << status, events, artifact, sample, runs, hold >> /\ Rest

DeriveLate(e) ==                                                   \* mutant
    /\ Goto(e, "claimed", "classified")
    /\ UNCHANGED << status, events, classif, artifact, sample, runs, hold >> /\ Rest

\* the derived level is persisted before anything is produced
Derive(e) ==
    /\ Goto(e, "claimed", "classified")
    /\ \E level \in Levels : Classify(hold[e], level)
    /\ UNCHANGED << status, events, artifact, sample, runs, hold >> /\ Rest

StartValidation(e) ==
    /\ Goto(e, "classified", "started")
    /\ Append(hold[e], "validation_started")
    /\ UNCHANGED << status, classif, artifact, sample, runs, hold >> /\ Rest

\* _validate_dependency_resolution: the one witness of the resolver binds the
\* declared upstreams and exactly the output files among the inputs
WitnessValid(t) ==
    \/ deps[t] = {} /\ inputs[t] = {}
    \/ /\ "dependency_resolved" \in events[t] /\ inputs[t] = witness[t]
       /\ \A u \in deps[t] : status[u] # "absent" /\ Conv[u] = Conv[t]

\* _open_input_files on each input of kind output
Consumable(u, t) ==
    /\ u \in BoundUpstreams(t) /\ UserTask(u)
    /\ status[u] = "completed" /\ SignedOff(u) /\ artifact[u] = "listed"

ValidatePass(e) ==
    LET t == hold[e] IN
    /\ Goto(e, "started", "validated")
    /\ WitnessValid(t) /\ \A u \in inputs[t] : Consumable(u, t)
    /\ UNCHANGED << status, events, classif, artifact, sample, runs, hold >>
    /\ Rest

\* a broken witness, or any other defect of the inputs or of the assembly
ValidateFail(e) ==
    /\ Goto(e, "started", "failing")
    /\ Append(hold[e], "validation_failed")
    /\ UNCHANGED << status, classif, artifact, sample, runs, hold >> /\ Rest

-----------------------------------------------------------------------------
(* The workflow and what it leaves *)

EnterRunning(e) ==
    /\ Goto(e, "validated", "running")
    /\ SetTaskStatus(hold[e], "running")
    /\ UNCHANGED << classif, artifact, sample, runs, hold >> /\ Rest

\* workflow.run is where tools act on the world
RunWorkflow(e) ==
    /\ phase[e] = "running"
    /\ \E next \in {"ran", "failing"} : Goto(e, "running", next)
    /\ runs' = [runs EXCEPT ![hold[e]] = @ + 1]
    /\ UNCHANGED << status, events, classif, artifact, sample, hold >> /\ Rest

\* _register_outputs inserts file rows, or refuses too many of them
RegisterOutputs(e) ==
    /\ phase[e] = "ran"
    /\ \/ Goto(e, "ran", "registered")
          /\ artifact' \in {artifact, [artifact EXCEPT ![hold[e]] = "registered"]}
       \/ Goto(e, "ran", "failing") /\ UNCHANGED artifact
    /\ UNCHANGED << status, events, classif, sample, runs, hold >> /\ Rest

\* set_task_outputs is an unconditional UPDATE
SetTaskOutputs(e) ==
    /\ Goto(e, "registered", "listed")
    /\ artifact' = [artifact EXCEPT ![hold[e]] =
                        IF @ = "registered" THEN "listed" ELSE @]
    /\ UNCHANGED << status, events, classif, sample, runs, hold >> /\ Rest

RecordSampleOfAnyOrigin(e) ==                                      \* mutant
    /\ Goto(e, "listed", "sampled")
    /\ sample' = [sample EXCEPT ![hold[e]] = "success"]
    /\ UNCHANGED << status, events, classif, artifact, runs, hold >> /\ Rest

\* record_sample is called for user tasks only, if the agent collects samples
Sampled(t, label) ==
    sample' = IF UserTask(t) /\ t \in SampleTask
              THEN [sample EXCEPT ![t] = label] ELSE sample

RecordSample(e) ==
    /\ Goto(e, "listed", "sampled")
    /\ Sampled(hold[e], "success")
    /\ UNCHANGED << status, events, classif, artifact, runs, hold >> /\ Rest

NeedsReviewNever(t) == t \in {}                                     \* mutant
\* requires_human_review is not False
NeedsReview(t) == t \notin AutoTask

\* request_task_review_with_event
RequestReview(e) ==
    /\ Goto(e, "sampled", "closing") /\ NeedsReview(hold[e])
    /\ MoveWithEvent(hold[e], "waiting_review", "review_requested")
    /\ UNCHANGED << classif, artifact, sample, runs, hold >> /\ Rest

EnterAnalyzing(e) ==
    /\ Goto(e, "sampled", "analyzing") /\ ~NeedsReview(hold[e])
    /\ SetTaskStatus(hold[e], "analyzing")
    /\ UNCHANGED << classif, artifact, sample, runs, hold >> /\ Rest

\* complete_task_with_event
Complete(e) ==
    /\ Goto(e, "analyzing", "closing")
    /\ MoveWithEvent(hold[e], "completed", "task_completed")
    /\ UNCHANGED << classif, artifact, sample, runs, hold >> /\ Rest

\* the materialized package is removed and run_once returns
Close(e) ==
    /\ phase[e] = "closing" /\ Release(e)
    /\ UNCHANGED << status, events, classif, artifact, sample, runs >> /\ Rest

-----------------------------------------------------------------------------
(* Failure: the status is committed first and its event afterwards *)

MarkFailed(e) ==
    /\ \/ Goto(e, "refusing", "refused") \/ Goto(e, "failing", "failed")
    /\ SetTaskStatus(hold[e], "failed")
    /\ UNCHANGED << classif, artifact, sample, runs, hold >> /\ Rest

FailedEvent(e) ==
    /\ \/ Goto(e, "failed", "failsample") /\ UNCHANGED hold
       \/ phase[e] = "refused" /\ Release(e)
    /\ Append(hold[e], "task_failed")
    /\ UNCHANGED << status, classif, artifact, sample, runs >> /\ Rest

\* _record_failure_sample
FailureSample(e) ==
    /\ phase[e] = "failsample" /\ Release(e)
    /\ Sampled(hold[e], "failure")
    /\ UNCHANGED << status, events, classif, artifact, runs >> /\ Rest

-----------------------------------------------------------------------------
(* What the callers do when execute raises *)

\* the transition a phase is about to commit
Target(e) ==
    CASE phase[e] \in {"refusing", "failing"} -> "failed"
      [] phase[e] = "validated" -> "running"
      [] phase[e] = "sampled"   -> IF NeedsReview(hold[e]) THEN "waiting_review"
                                   ELSE "analyzing"
      [] phase[e] = "analyzing" -> "completed"

\* IllegalTransitionError: the row was moved underneath; run_once leaves a
\* warning and gives up, the eval runner treats it as any other exception
Race(e) ==
    /\ phase[e] \in {"refusing", "failing", "validated", "sampled", "analyzing"}
    /\ ~Legal(hold[e], Target(e))
    /\ IF e = Job THEN Release(e) /\ Append(hold[e], "warning")
       ELSE Goto(e, phase[e], "boom") /\ UNCHANGED << hold, events >>
    /\ UNCHANGED << status, classif, artifact, sample, runs >> /\ Rest

\* any other exception, at any point of execute
Raise(e) ==
    /\ Disturb /\ phase[e] \in RuntimePhases
    /\ phase' = [phase EXCEPT ![e] = "boom"]
    /\ UNCHANGED << rows, hold, local, runs, lossy >>

\* a case that raises before its task is claimed ends there
EvalRaise(e) ==
    /\ Disturb /\ phase[e] \in {"case", "casequeued"} /\ Release(e)
    /\ UNCHANGED << rows, local, runs, lossy >>

FailFromAnywhere(e) ==                                             \* mutant
    LET t == hold[e] IN
    /\ phase[e] = "boom"
    /\ Goto(e, "boom", "boomed") /\ Move(t, "failed")
    /\ UNCHANGED << hold, events, classif, artifact, sample, runs >> /\ Rest

\* _mark_failed_best_effort and the handler of _run_one_case_inner:
\* fail_task_from_execution refuses anything but an executing row
FailBestEffort(e) ==
    LET t == hold[e] IN
    /\ phase[e] = "boom"
    /\ IF status[t] \in ExecutionStates
       THEN /\ SetTaskStatus(t, "failed")
            /\ IF e = Job THEN Goto(e, "boom", "boomed") /\ UNCHANGED hold
                          ELSE Release(e)
       ELSE /\ Release(e) /\ UNCHANGED status
            /\ IF e = Job THEN Append(t, "warning") ELSE UNCHANGED events
    /\ UNCHANGED << classif, artifact, sample, runs >> /\ Rest

FailBestEffortEvent(e) ==
    /\ phase[e] = "boomed" /\ Release(e)
    /\ Append(hold[e], "task_failed")
    /\ UNCHANGED << status, classif, artifact, sample, runs >> /\ Rest

\* the last-resort write fails too: it is logged, and the thread moves on
LoseFailure(e) ==
    /\ Disturb /\ lossy' = TRUE
    /\ phase[e] \in {"boom", "boomed"} /\ Release(e)
    /\ UNCHANGED << rows, local, runs >>

=============================================================================
