----------------------------- MODULE BatchStart -----------------------------
(***************************************************************************)
(* Starting a plan: api/tasks.py run_batch_creation, all tasks of a request *)
(* or none, in the conversation the plan belongs to.  A request may carry   *)
(* an operation id; its tasks then have the ids derived from it, so that    *)
(* the request can be repeated when its answer was lost.                    *)
(***************************************************************************)
EXTENDS Conversation

CONSTANTS Call,        \* requests
          Requests,    \* what they may ask: operation id, payload, number of tasks
          NoOp,        \* no operation id
          Pinned       \* payloads that name the package versions they were planned for

ASSUME RequestAssumption ==
    \A ask \in Requests : \A k \in Call :
        /\ ask[k].count \in Nat \ {0} /\ ask[k].op \notin Call
        /\ ask[k].payload \in Pinned => ask[k].op # NoOp

VARIABLES request,     \* one of them
          call,        \* call -> how far it is, or its answer
          submitted,   \* call -> reuse reference it carries
          drifted      \* the agent packages are no longer those pinned

startVars == << conversationVars, request, call, submitted, drifted >>

\* deterministic with an operation id, fresh without
Owner(k) == IF request[k].op = NoOp THEN k ELSE request[k].op

\* the metadata of a task: its operation, the fingerprint of the request, its
\* place; the fingerprint covers every field of the payload
TaskOf(k, i) ==
    [ owner |-> Owner(k), index |-> i, payload |-> request[k].payload,
      count |-> request[k].count ]

Started == {timeline[i].id : i \in TasksIn(timeline)}

TaskWithId(owner, i) == {t \in Started : t.owner = owner /\ t.index = i}

-----------------------------------------------------------------------------
\* _load_batch_operation_replay

ReplayOfAnything(k) ==                                             \* mutant
    LET found == UNION {TaskWithId(Owner(k), i) : i \in 1 .. request[k].count} IN
    IF request[k].op = NoOp \/ found = {} THEN "none" ELSE "replayed"

Replay(k) ==
    LET found == UNION {TaskWithId(Owner(k), i) : i \in 1 .. request[k].count} IN
    IF request[k].op = NoOp \/ found = {} THEN "none" ELSE
    IF /\ Cardinality(found) = request[k].count
       /\ \A t \in found : t.payload = request[k].payload /\ t.count = request[k].count
    THEN "replayed" ELSE "conflict"

Answer(k, answer) ==
    /\ call' = [call EXCEPT ![k] = answer]
    /\ UNCHANGED << conversationVars, request, submitted, drifted >>

\* before the lock, so that no later drift can refuse a repeated request; the
\* page submits the reference of the plan it shows
LookBefore(k) ==
    /\ call[k] = "idle"
    /\ IF Replay(k) # "none" THEN Answer(k, Replay(k))
       ELSE /\ call' = [call EXCEPT ![k] = "checked"]
            /\ submitted' = [submitted EXCEPT ![k] = IF plan = NoPlan THEN NoPlan
                                                      ELSE plan.reuse]
            /\ UNCHANGED << conversationVars, request, drifted >>

\* _skill_reuse_plan_errors: the reference submitted is the one persisted
ReusePlanHolds(k) == submitted[k] = IF plan = NoPlan THEN NoPlan ELSE plan.reuse

\* a stale-write precondition, for who has stated it
PinsHold(k) == request[k].payload \in Pinned => ~ drifted

Startable(k) == conv = "active" /\ ReusePlanHolds(k) /\ PinsHold(k)

StartActiveFirst(k) ==                                             \* mutant
    /\ call[k] = "checked"
    /\ IF ~ Startable(k) THEN Answer(k, "refused")
       ELSE IF Replay(k) # "none" THEN Answer(k, Replay(k))
       ELSE /\ call' = [call EXCEPT ![k] = "created"]
            /\ timeline' = timeline \o [i \in 1 .. request[k].count |->
                                            Entry("task", TaskOf(k, i), FALSE)]
            /\ UNCHANGED << conv, plan, round, client, request, submitted, drifted >>

\* under BEGIN IMMEDIATE: the replay once more, then every condition, then
\* every row
Start(k) ==
    /\ call[k] = "checked"
    /\ IF Replay(k) # "none" THEN Answer(k, Replay(k))
       ELSE IF ~ Startable(k) THEN Answer(k, "refused")
       ELSE /\ call' = [call EXCEPT ![k] = "created"]
            /\ timeline' = timeline \o [i \in 1 .. request[k].count |->
                                            Entry("task", TaskOf(k, i), FALSE)]
            /\ UNCHANGED << conv, plan, round, client, request, submitted, drifted >>

\* an unowned reference, an input against the schema, no clearance, ...
RefuseStart(k) == call[k] = "checked" /\ Replay(k) = "none" /\ Answer(k, "refused")

Redeploy ==
    /\ ~ drifted /\ drifted' = TRUE
    /\ UNCHANGED << conversationVars, request, call, submitted >>

StartInit ==
    /\ ConversationInit
    /\ request \in Requests
    /\ call = [k \in Call |-> "idle"]
    /\ submitted = [k \in Call |-> NoPlan]
    /\ drifted = FALSE

StartNext ==
    \/ ConversationNext /\ UNCHANGED << request, call, submitted, drifted >>
    \/ \E k \in Call : LookBefore(k) \/ Start(k) \/ RefuseStart(k)
    \/ Redeploy

StartSpec == StartInit /\ [][StartNext]_startVars

-----------------------------------------------------------------------------
\* Every variable of a conversation and of its requests keeps its range.
StartTypeOK ==
    /\ conv \in {"active", "concluded"}
    /\ \A i \in DOMAIN timeline : timeline[i].kind \in {"round", "task"}
    /\ plan = NoPlan \/ plan.by \in Round
    /\ \A r \in Round : /\ round[r].phase \in {"idle", "read", "running", "stored", "refused"}
                        /\ client[r] \in {"waiting", "gone"}
    /\ call \in [Call -> {"idle", "checked", "created", "replayed", "conflict", "refused"}]
    /\ RoundCount(timeline) <= MaxRounds

\* Every round of the history was answered for exactly the work segment it is
\* stored in: no message, task or refusal came between what the model was given
\* and what was stored, whatever ran meanwhile (conversation.py post_message).
RoundsFitTheirSegment ==
    \A i \in DOMAIN timeline : timeline[i].kind = "round" =>
        LET r == timeline[i].id
            before == SubSeq(timeline, 1, i - 1) IN
        round[r].basis = Segment(before, before) \cup {r}

\* A concluded conversation is read only: neither a round begun before nor a
\* batch checked before adds to it (tasks.py "结束协作=真只读").
ConcludedIsReadOnly ==
    [][conv = "concluded" => UNCHANGED << conv, timeline, plan >>]_startVars

\* Under an operation id there is at most one batch, it is whole, and whoever
\* was answered with its tasks asked for exactly those.
OperationIsOneBatch ==
    /\ \A t \in Started : \A i \in 1 .. t.count :
          \E u \in Started : u = [t EXCEPT !.index = i]
    /\ \A t, u \in Started : t.owner = u.owner => t.payload = u.payload
    /\ \A k \in Call : call[k] \in {"created", "replayed"} =>
          \A i \in 1 .. request[k].count : TaskOf(k, i) \in Started

\* A repeated request whose batch exists is answered with it, even when the
\* conversation, the plan or the packages have changed since.
RetryIsAnswered ==
    [][\A k \in Call :
         /\ request[k].op # NoOp /\ TaskOf(k, 1) \in Started
         /\ call'[k] # call[k]
         => call'[k] = "replayed"]_startVars
=============================================================================
