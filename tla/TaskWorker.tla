----------------------------- MODULE TaskWorker -----------------------------
(***************************************************************************)
(* The executing half of the Task Center: the job thread of the worker     *)
(* process (jobs/runner.py) with its start-up recovery and its dependency  *)
(* resolver, and runtime/runtime.py, which the job thread runs on user     *)
(* tasks and eval threads run on eval tasks.  Every action is one commit,  *)
(* so a crash, an API request or another thread fits between any two.      *)
(***************************************************************************)
EXTENDS TaskStore

CONSTANTS
    Job,          \* the job thread
    EvalThread,   \* threads that execute eval cases
    Cli,          \* those of scripts/promote_agent_l1.py, a separate process
    None,         \* no task
    Levels        \* the classifications a task can derive

ASSUME ThreadsAssumption == /\ Job \notin EvalThread /\ Cli \subseteq EvalThread
                            /\ None \notin Task /\ "null" \notin Levels
                            /\ "internal" \in Levels

VARIABLES
    phase,     \* where each thread stands
    hold,      \* the task a thread works on, or None
    todo,      \* rows the job thread read in one SELECT and still has to visit
    verdict,   \* the resolver's decision on hold[Job], not yet committed
    piped,     \* the upstream artifacts that decision pipes
    runs,      \* history: how often workflow.run was entered for a task
    lossy      \* history: the database refused a last-resort write

workerVars == << phase, hold, todo, verdict, piped, runs, lossy >>
local      == << todo, verdict, piped >>

Exec == {Job} \cup EvalThread

\* phases of AgentRuntime.execute, in the order of its commits
RuntimePhases == {"claimed", "refusing", "refused", "classified", "started",
                  "failing", "failed", "failsample", "validated", "running",
                  "ran", "registered", "listed", "sampled", "analyzing",
                  "closing"}
Phases == RuntimePhases \cup
          {"down", "recover", "recovered", "idle", "again", "resolve",
           "decide", "poll", "case", "casequeued", "boom", "boomed"}

Goto(e, from, to) == phase[e] = from /\ phase' = [phase EXCEPT ![e] = to]

\* the thread is done with its task; the job loop goes round again
Release(e) ==
    /\ phase' = [phase EXCEPT ![e] = IF e = Job THEN "again" ELSE "idle"]
    /\ hold' = [hold EXCEPT ![e] = None]

\* what a step of execute leaves alone besides the row it writes
Rest == UNCHANGED << deps, binding, inputs, witness, before, fault,
                     disturbed, local, lossy >>

-----------------------------------------------------------------------------
(* resolve_dependencies_once *)

Candidates == {t \in Task \ EvalTask : status[t] = "created" /\ deps[t] # {}}

\* run_forever calls the resolver when it is due, which it always is after
\* the sleep that follows a poll without work
ResolveScan ==
    /\ phase[Job] \in {"idle", "again"}
    /\ phase' = [phase EXCEPT ![Job] = "resolve"]
    /\ todo' = Candidates
    /\ UNCHANGED << storeVars, hold, verdict, piped, runs, lossy >>

ResolveNotDue ==
    /\ Goto(Job, "again", "poll")
    /\ UNCHANGED << storeVars, hold, local, runs, lossy >>

BoundUpstreams(t) == IF binding[t] = {} THEN deps[t] ELSE deps[t] \cap binding[t]

Lost(u) == status[u] \in {"absent", "failed", "cancelled"}

Foreign(u, t) == Conv[u] # Conv[t] \/ u \in EvalTask

Unsigned(u) == status[u] = "completed" /\ ~SignedOff(u)

AnyCompleted(t) == \E u \in deps[t] : status[u] = "completed"        \* mutant
AllCompleted(t) == \A u \in deps[t] : status[u] = "completed"

DoomedUnlessUnsigned(t) ==                                         \* mutant
    \/ \E u \in deps[t] : Lost(u) \/ Foreign(u, t)
    \/ AllCompleted(t) /\ \E u \in BoundUpstreams(t) : artifact[u] = "stray"

\* the rows a candidate can never be fed from: it is cancelled
Doomed(t) ==
    \/ \E u \in deps[t] : Lost(u) \/ Foreign(u, t) \/ Unsigned(u)
    \/ AllCompleted(t) /\ \E u \in BoundUpstreams(t) : artifact[u] = "stray"

\* _filter_piped_outputs_for_agent_contract keeps the artifacts whose suffix
\* the downstream agent accepts: any subset, depending on the agent
Pipeable(t) == SUBSET {u \in BoundUpstreams(t) : artifact[u] = "listed"}

\* _resolve_one_candidate up to its write: upstream rows are read without a lock
ResolveRead(t) ==
    /\ phase[Job] = "resolve" /\ t \in todo
    /\ todo' = todo \ {t}
    /\ \/ /\ Doomed(t)
          /\ verdict' = "cancel" /\ piped' = {}
          /\ hold' = [hold EXCEPT ![Job] = t] /\ Goto(Job, "resolve", "decide")
       \/ /\ ~Doomed(t) /\ AllCompleted(t)
          /\ verdict' = "enqueue" /\ piped' \in Pipeable(t)
          /\ hold' = [hold EXCEPT ![Job] = t] /\ Goto(Job, "resolve", "decide")
       \/ /\ ~Doomed(t) /\ ~AllCompleted(t)
          /\ UNCHANGED << verdict, piped, hold, phase >>
    /\ UNCHANGED << storeVars, runs, lossy >>

ResolvePoisonAborts(t) ==                                          \* mutant
    /\ Goto(Job, "resolve", "poll")
    /\ t \in todo \cap LegacyOpen /\ todo' = {}
    /\ UNCHANGED << storeVars, hold, verdict, piped, runs, lossy >>

\* _quarantine_poison_candidate: a malformed row an earlier release wrote
\* raises while it is resolved, and is cancelled instead
ResolvePoison(t) ==
    /\ Goto(Job, "resolve", "decide")
    /\ t \in todo \cap LegacyOpen /\ todo' = todo \ {t}
    /\ verdict' = "cancel" /\ piped' = {} /\ hold' = [hold EXCEPT ![Job] = t]
    /\ UNCHANGED << storeVars, runs, lossy >>

ResolveForget == /\ verdict' = "none" /\ piped' = {}
                 /\ hold' = [hold EXCEPT ![Job] = None]

\* enqueue_dependent_task: recheck 'created', merge the files, move, witness
EnqueueDependent(t) ==
    /\ verdict = "enqueue" /\ status[t] = "created"
    /\ MoveWithEvent(t, "queued", "dependency_resolved")
    /\ inputs' = [inputs EXCEPT ![t] = @ \cup piped]
    /\ witness' = [witness EXCEPT ![t] = piped]
    /\ UNCHANGED classif

\* cancel_dependent_task: recheck 'created', make the diagnosis readable
CancelDependent(t) ==
    /\ verdict = "cancel" /\ status[t] = "created"
    /\ MoveWithEvent(t, "cancelled", "task_cancelled")
    /\ Classify(t, "internal")
    /\ UNCHANGED << inputs, witness >>

ResolveWrite(t) ==
    /\ hold[Job] = t /\ Goto(Job, "decide", "resolve")
    /\ \/ EnqueueDependent(t)
       \/ CancelDependent(t)
       \/ status[t] # "created" /\ UNCHANGED << status, events, inputs, witness, classif >>
    /\ ResolveForget
    /\ UNCHANGED << deps, binding, before, artifact, sample, fault, disturbed,
                    todo, runs, lossy >>

ResolveDone ==
    /\ todo = {} /\ Goto(Job, "resolve", "poll")
    /\ UNCHANGED << storeVars, hold, local, runs, lossy >>

\* sqlite3.OperationalError ends the pass; the next one starts from scratch
ResolveAbort ==
    /\ Disturb /\ phase[Job] \in {"resolve", "decide"}
    /\ phase' = [phase EXCEPT ![Job] = "poll"]
    /\ todo' = {} /\ ResolveForget
    /\ UNCHANGED << rows, runs, lossy >>

-----------------------------------------------------------------------------
(* run_once: the claim of a user task, and the claim of an eval task *)

PollNothingAlways ==                                               \* mutant
    /\ Goto(Job, "poll", "idle")
    /\ UNCHANGED << storeVars, hold, local, runs, lossy >>

\* the last poll found nothing the thread may run: sleep, then go round
PollNothing ==
    /\ fault \/ \A t \in Task : ~Queued(t)
    /\ Goto(Job, "poll", "idle")
    /\ UNCHANGED << storeVars, hold, local, runs, lossy >>

\* claim_next_queued: latch, FIFO choice and queued -> validating in one
\* transaction, which also authorizes the owner lineage; a poisoned row goes
\* on to 'failed' with its event before the commit and is never executed
Claim(t) ==
    /\ phase[Job] = "poll" /\ ~fault /\ Oldest(t)
    /\ \/ /\ SetTaskStatus(t, "validating")
          /\ Goto(Job, "poll", "claimed") /\ hold' = [hold EXCEPT ![Job] = t]
       \/ /\ Move(t, "failed") /\ Append(t, "task_failed")
          /\ Goto(Job, "poll", "again") /\ UNCHANGED hold
    /\ UNCHANGED << deps, binding, inputs, witness, before, classif, artifact,
                    sample, fault, disturbed, local, runs, lossy >>

\* _run_one_case_inner: insert the eval task, queue it, claim it by id
EvalInsert(e, t) ==
    /\ e \in EvalThread /\ t \in EvalTask /\ status[t] = "absent"
    /\ Move(t, "created")
    /\ Goto(e, "idle", "case") /\ hold' = [hold EXCEPT ![e] = t]
    /\ UNCHANGED << events, classif, artifact, sample, runs >> /\ Rest

EvalQueue(e) ==
    /\ e \in EvalThread /\ Goto(e, "case", "casequeued")
    /\ SetTaskStatus(hold[e], "queued")
    /\ UNCHANGED << hold, classif, artifact, sample, runs >> /\ Rest

\* claim_task; under the latch the case is recorded as failed and the task
\* stays queued, where no claim will ever pick it up
EvalClaim(e) ==
    /\ e \in EvalThread /\ phase[e] = "casequeued"
    /\ IF fault \/ status[hold[e]] # "queued"
       THEN Release(e) /\ UNCHANGED << status, events >>
       ELSE /\ SetTaskStatus(hold[e], "validating")
            /\ Goto(e, "casequeued", "claimed") /\ UNCHANGED hold
    /\ UNCHANGED << classif, artifact, sample, runs >> /\ Rest

-----------------------------------------------------------------------------
(* run_worker_forever: the process stops anywhere and starts over *)

InWorker == Exec \ Cli

Crash ==
    /\ Disturb /\ phase[Job] # "down"
    /\ phase' = [e \in Exec |-> IF e \in InWorker THEN "down" ELSE phase[e]]
    /\ hold' = [e \in Exec |-> IF e \in InWorker THEN None ELSE hold[e]]
    /\ todo' = {} /\ verdict' = "none" /\ piped' = {}
    /\ UNCHANGED << rows, runs, lossy >>

CliStop(e) ==
    /\ Disturb /\ e \in Cli /\ phase[e] # "down"
    /\ phase' = [phase EXCEPT ![e] = "down"]
    /\ hold' = [hold EXCEPT ![e] = None]
    /\ UNCHANGED << rows, local, runs, lossy >>

StartRunningOnly ==                                                \* mutant
    /\ Goto(Job, "down", "recover")
    /\ todo' = {t \in Task : status[t] \in {"running", "analyzing"}}
    /\ UNCHANGED << storeVars, hold, verdict, piped, runs, lossy >>

\* recover_interrupted_tasks reads the executing rows of every origin ...
Start ==
    /\ Goto(Job, "down", "recover")
    /\ todo' = {t \in Task : status[t] \in ExecutionStates}
    /\ UNCHANGED << storeVars, hold, verdict, piped, runs, lossy >>

RecoverByRequeue(t) ==                                             \* mutant
    /\ t \in todo /\ todo' = todo \ {t}
    /\ Goto(Job, "recover", "recovered") /\ hold' = [hold EXCEPT ![Job] = t]
    /\ Move(t, "queued")
    /\ UNCHANGED << events, deps, binding, inputs, witness, before, classif,
         artifact, sample, fault, disturbed, verdict, piped, runs, lossy >>

RecoverAsInterrupted(t) ==                                         \* mutant
    /\ t \in todo /\ todo' = todo \ {t}
    /\ Goto(Job, "recover", "recovered") /\ hold' = [hold EXCEPT ![Job] = t]
    /\ Move(t, "interrupted")
    /\ UNCHANGED << events, deps, binding, inputs, witness, before, classif,
         artifact, sample, fault, disturbed, verdict, piped, runs, lossy >>

\* ... and fails each one that is still executing, never replaying it
Recover(t) ==
    /\ t \in todo /\ todo' = todo \ {t}
    /\ IF status[t] \in ExecutionStates
       THEN /\ Goto(Job, "recover", "recovered")
            /\ hold' = [hold EXCEPT ![Job] = t]
            /\ SetTaskStatus(t, "failed")
       ELSE /\ phase[Job] = "recover"
            /\ UNCHANGED << phase, hold, status, events >>
    /\ UNCHANGED << deps, binding, inputs, witness, before, classif, artifact,
                    sample, fault, disturbed, verdict, piped, runs, lossy >>

RecoverEvent ==
    /\ Goto(Job, "recovered", "recover")
    /\ Append(hold[Job], "task_failed")
    /\ hold' = [hold EXCEPT ![Job] = None]
    /\ UNCHANGED << status, classif, artifact, sample, runs >> /\ Rest

\* the eval thread is started once the recovery is over
RecoverDone ==
    /\ phase[Job] = "recover" /\ todo = {}
    /\ phase' = [e \in Exec |-> IF e \in InWorker THEN "idle" ELSE phase[e]]
    /\ UNCHANGED << storeVars, hold, local, runs, lossy >>

WorkerTypeOK ==
    /\ phase \in [Exec -> Phases]
    /\ hold \in [Exec -> Task \cup {None}]
    /\ todo \in SUBSET Task
    /\ verdict \in {"none", "enqueue", "cancel"}
    /\ piped \in SUBSET Task
    /\ runs \in [Task -> Nat]
    /\ lossy \in BOOLEAN

=============================================================================
