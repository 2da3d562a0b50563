------------------------------- MODULE TaskApi -------------------------------
(***************************************************************************)
(* The HTTP handlers of api/tasks.py that change a task: create, cancel    *)
(* and review.  The API server is a process of its own; a handler is a     *)
(* sequence of commits and the worker may run between any two of them.     *)
(***************************************************************************)
EXTENDS TaskStore

CONSTANTS
    MayCancel,    \* bound: the tasks somebody asks to cancel, once each
    MayDependOn   \* bound: the upstreams a request may declare for a task

ASSUME RequestsAssumption == /\ MayCancel \subseteq Task \ EvalTask
                             /\ MayDependOn \in [Task -> SUBSET Task]

VARIABLES
    create,   \* progress of the POST /tasks request that creates a task
    cancel    \* progress of a POST /tasks/{id}/cancel request

apiVars == << create, cancel >>

User(t) == t \in Task \ EvalTask

Exists(t) == status[t] # "absent"

-----------------------------------------------------------------------------
(* POST /tasks *)

\* require_readable_task and the two isolation axes of a declared dependency
Dependable(u, t) == Exists(u) /\ User(u) /\ Conv[u] = Conv[t]

\* the BEGIN IMMEDIATE insert; from_tasks must stay inside depends_on
CreateInsert(t, D, B) ==
    /\ User(t) /\ ~Exists(t) /\ create[t] = "idle" /\ D \subseteq MayDependOn[t]
    /\ \A u \in D : Dependable(u, t)
    /\ B \subseteq D
    /\ Move(t, "created")
    /\ deps' = [deps EXCEPT ![t] = D]
    /\ binding' = [binding EXCEPT ![t] = B]
    /\ before' = [before EXCEPT ![t] = {u \in Task : User(u) /\ Exists(u)}]
    /\ create' = [create EXCEPT ![t] = "inserted"]
    /\ UNCHANGED << inputs, witness, classif, artifact, events, sample, fault,
                    disturbed, cancel >>

\* a task without dependencies is queued in a second transaction; a dependent
\* one stays 'created' for the resolver
CreateEnqueue(t) ==
    /\ create[t] = "inserted"
    /\ IF deps[t] = {} THEN SetTaskStatus(t, "queued")
                       ELSE UNCHANGED << status, events >>
    /\ create' = [create EXCEPT ![t] = "stored"]
    /\ UNCHANGED << deps, binding, inputs, witness, before, classif, artifact,
                    sample, fault, disturbed, cancel >>

\* a cancel came first: set_task_status raises and the request ends in error
CreateRefused(t) ==
    /\ create[t] = "inserted" /\ deps[t] = {} /\ ~Legal(t, "queued")
    /\ create' = [create EXCEPT ![t] = "done"]
    /\ UNCHANGED << storeVars, cancel >>

CreateEvent(t) ==
    /\ create[t] = "stored"
    /\ Append(t, "task_created")
    /\ create' = [create EXCEPT ![t] = "done"]
    /\ UNCHANGED << status, deps, binding, inputs, witness, before, classif,
                    artifact, sample, fault, disturbed, cancel >>

-----------------------------------------------------------------------------
(* POST /tasks/{id}/cancel: the status is read first, and set_task_status  *)
(* checks the transition of whatever status the row has by then            *)

CancelRead(t) ==
    /\ t \in MayCancel /\ cancel[t] = "idle"
    /\ status[t] \in {"created", "queued"}
    /\ cancel' = [cancel EXCEPT ![t] = "read"]
    /\ UNCHANGED << storeVars, create >>

CancelWrite(t) ==
    /\ cancel[t] = "read"
    /\ SetTaskStatus(t, "cancelled")
    /\ cancel' = [cancel EXCEPT ![t] = "written"]
    /\ UNCHANGED << deps, binding, inputs, witness, before, classif, artifact,
                    sample, fault, disturbed, create >>

CancelRefused(t) ==
    /\ cancel[t] = "read" /\ ~Legal(t, "cancelled")
    /\ cancel' = [cancel EXCEPT ![t] = "done"]
    /\ UNCHANGED << storeVars, create >>

CancelEvent(t) ==
    /\ cancel[t] = "written"
    /\ Append(t, "task_cancelled")
    /\ cancel' = [cancel EXCEPT ![t] = "done"]
    /\ UNCHANGED << status, deps, binding, inputs, witness, before, classif,
                    artifact, sample, fault, disturbed, create >>

-----------------------------------------------------------------------------
(* POST /tasks/{id}/review: apply_human_review rechecks everything inside  *)
(* one transaction, so the status read before it has no effect of its own  *)

Label(t, outcome) ==
    sample' = [sample EXCEPT ![t] = IF @ = "none" THEN @ ELSE outcome]

Decide(t, to, type, outcome) ==
    /\ User(t) /\ status[t] = "waiting_review"
    /\ MoveWithEvent(t, to, type)
    /\ Label(t, outcome)
    /\ UNCHANGED << deps, binding, inputs, witness, before, classif, artifact,
                    fault, disturbed, apiVars >>

\* an approval binds verified execution evidence, a rejection need not
Approve(t) == ReviewEvidence(t)
              /\ Decide(t, "completed", "review_approved", "accepted")

Reject(t) == Decide(t, "failed", "review_rejected", "rejected")

-----------------------------------------------------------------------------

\* the API process stops between two commits of a handler
ApiAbandon(t) ==
    /\ \/ /\ create[t] \in {"inserted", "stored"}
          /\ create' = [create EXCEPT ![t] = "done"]
          /\ UNCHANGED cancel
       \/ /\ cancel[t] \in {"read", "written"}
          /\ cancel' = [cancel EXCEPT ![t] = "done"]
          /\ UNCHANGED create
    /\ Disturb /\ UNCHANGED rows

ApiTypeOK ==
    /\ create \in [Task -> {"idle", "inserted", "stored", "done"}]
    /\ cancel \in [Task -> {"idle", "read", "written", "done"}]

=============================================================================
