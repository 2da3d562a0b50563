------------------------------ MODULE TaskStore ------------------------------
(***************************************************************************)
(* The persistent half of the Task Center: the rows of tasks, task_events, *)
(* files and samples, and the operations of storage/repos.py on them.      *)
(* SQLite runs in autocommit mode and every operation below is one         *)
(* statement or one BEGIN IMMEDIATE transaction, hence one atomic action.  *)
(* Data are abstracted to what the rules tell apart: a task has at most    *)
(* one output artifact, an event is its type, a digest is not represented. *)
(***************************************************************************)
EXTENDS Integers

CONSTANTS
    Task,          \* task ids
    EvalTask,      \* the ids created with origin = 'eval'; the rest are 'user'
    ReviewTask,    \* agent_version manifest: requires_human_review is not False
    AutoTask,      \* manifest: profile = 'none' and requires_human_review = False
    SampleTask,    \* manifest: data_asset.collect_samples is True
    Conv,          \* Conv[t]: the conversation task t belongs to
    LegacyDone,    \* rows an earlier release finished without any sign-off
    LegacyOpen,    \* dependent rows an earlier release wrote, still unexecuted
    MaxDisturb     \* bound: how many crashes, abandoned requests, exceptions,
                   \* refused writes and latchings a behaviour has

ASSUME KindsAssumption ==
    /\ EvalTask \subseteq Task /\ LegacyDone \subseteq Task
    /\ LegacyOpen \subseteq Task \ (LegacyDone \cup EvalTask)
    /\ ReviewTask \subseteq Task /\ AutoTask \subseteq Task
    /\ ReviewTask \cap AutoTask = {} /\ SampleTask \subseteq Task
    \* _load_one refuses a job agent that calls a model and is not review gated
    /\ Task \ (ReviewTask \cup AutoTask) \subseteq LegacyDone
    /\ MaxDisturb \in Nat

VARIABLES
    status,      \* tasks.status, "absent" when there is no row
    deps,        \* tasks.depends_on
    binding,     \* tasks.input_binding.from_tasks; {} binds every upstream
    inputs,      \* the upstreams whose artifact is in tasks.input_file_ids
    witness,     \* piped_file_ids of the dependency_resolved event
    before,      \* tasks.created_at as an order: the rows inserted earlier
    classif,     \* tasks.data_classification, "null" before the first write
    artifact,    \* the output file of a task and its manifest entry
    events,      \* the event types present in task_events
    sample,      \* the sample row a task left and its label
    fault,       \* the promotion_attestation_fault latch
    disturbed    \* how much of MaxDisturb is spent

rows == << status, deps, binding, inputs, witness, before, classif, artifact,
           events, sample, fault >>
storeVars == << rows, disturbed >>

Disturb == disturbed < MaxDisturb /\ disturbed' = disturbed + 1

-----------------------------------------------------------------------------
(* core/statemachine.py *)

States == {"created", "queued", "validating", "running", "parsing",
           "analyzing", "waiting_review", "completed", "failed", "cancelled"}

TRANSITIONS ==
    [created        |-> {"queued", "cancelled"},
     queued         |-> {"validating", "cancelled"},
     validating     |-> {"running", "failed", "cancelled"},
     running        |-> {"parsing", "analyzing", "waiting_review", "failed",
                         "cancelled"},
     parsing        |-> {"analyzing", "running", "failed", "cancelled"},
     analyzing      |-> {"waiting_review", "completed", "failed", "cancelled"},
     waiting_review |-> {"completed", "failed"},
     completed      |-> {},
     failed         |-> {},
     cancelled      |-> {}]

TERMINAL == {s \in States : TRANSITIONS[s] = {}}

\* assert_transition(from, to) returns; otherwise IllegalTransitionError
Legal(t, to) == status[t] \in States /\ to \in TRANSITIONS[status[t]]

ExecutionStates == {"validating", "running", "parsing", "analyzing"}

EventTypes == {"task_created", "task_cancelled", "task_failed",
               "task_completed", "dependency_resolved", "validation_started",
               "validation_failed", "review_requested", "review_approved",
               "review_rejected", "warning"}

-----------------------------------------------------------------------------
(* Reads *)

\* task_output_is_signed_off: an approval event, or a deterministic agent
SignedOff(t) == "review_approved" \in events[t] \/ t \in AutoTask

\* _review_execution_evidence: the two anchors a verified approval binds
ReviewEvidence(t) == {"validation_started", "review_requested"} \subseteq events[t]

Queued(t) == status[t] = "queued" /\ t \notin EvalTask

\* claim_next_queued: ORDER BY created_at ASC LIMIT 1, over user tasks
Oldest(t) == Queued(t) /\ \A u \in before[t] : ~Queued(u)

-----------------------------------------------------------------------------
(* Writes; each leaves the columns it does not name to its caller *)

Append(t, type) == events' = [events EXCEPT ![t] = @ \cup {type}]

Move(t, to) == status' = [status EXCEPT ![t] = to]

SetTaskStatusUnchecked(t, to) == Move(t, to) /\ UNCHANGED events    \* mutant

\* set_task_status: assert_transition and the UPDATE, and no event
SetTaskStatus(t, to) == Legal(t, to) /\ Move(t, to) /\ UNCHANGED events

\* a transition and its event committed in one transaction
MoveWithEvent(t, to, type) == Legal(t, to) /\ Move(t, to) /\ Append(t, type)

\* set_task_data_classification: written only while the column is NULL
ClassifyOverwriting(t, level) == classif' = [classif EXCEPT ![t] = level] \* mutant
Classify(t, level) ==
    classif' = [classif EXCEPT ![t] = IF @ = "null" THEN level ELSE @]

=============================================================================
