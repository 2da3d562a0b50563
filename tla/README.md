# FLAI-OS in TLA+

FLAI-OS is a Python (FastAPI, SQLite) backend that runs engineering agents as
*tasks*: a user creates a task, a worker process claims it and executes the
agent's workflow, a human reviews the result, and signed results feed dependent
tasks. Agents are promoted on the strength of *eval runs*, which a second queue
executes inside the same worker process. Tasks are planned in *conversations*
with an agent called Guide, and what a finished task taught becomes a reviewed
*skill package* that later plans may reuse. This directory holds the TLA+ models of
that backend, the TLC runs that check them on small instances, and the TLAPS
proofs of what holds for every instance.

Contents

1. The system: components, state, interaction, what is hard
2. The modules and how they correspond to the code
3. The runs: what each asks, its bounds
4. Fairness
5. Where the code and its documents differ
6. What is proved, and how
7. What is only model-checked, and what is not modelled
8. The plan

Source paths below are relative to `src/backend/app/`.

---------------------------------------------------------------------------

## 1. The system

### Processes and shared state

```
  API process                      worker process (one; run_worker_forever)
  ------------                     ----------------------------------------
  POST /tasks                      job thread    : recover_interrupted_tasks,
  POST /tasks/{id}/cancel                          then for ever
  POST /tasks/{id}/review                          resolve_dependencies_once,
  POST /agents/{id}/eval-runs                      run_once -> AgentRuntime.execute
  promote_agent, curation          eval poller   : recover_interrupted, then for
  conversations, batches                           ever _reap, run_once
  asset candidates, packages                       (start: scan, attest, project)
        |                                   |
        |                          run threads   : execute_eval_run, each case of
        |                                          which executes an eval task
        |                                   |
        +---------- SQLite (autocommit) ----+        CLI process
                                            |        scripts/promote_agent_l1.py
                                            +------- run_agent_evals: the same
                                                     cases, with no queue;
                                                     promote_agent
```

Two things live on the disk besides: the directory of each agent package
(written by promotion, curation and developers) and the quarantine of skill
packages (written by the API process). Neither shares a commit with the database.

All coordination goes through the database. SQLite runs in autocommit mode
(`storage/db.py`): a statement is a transaction, and the operations that need
more use `BEGIN IMMEDIATE`. So the unit of interleaving is **one statement or one
explicit transaction**, and one such commit is one action of the models. Between
any two actions a process may stop, and another process or thread may act. Where
a transaction contains steps on the disk, each of those is an action too, between
a lock that is taken and a commit that releases it.

### Inventory

| Component | State | Operations | Hard behaviour | What makes it correct |
|---|---|---|---|---|
| Task state machine (`core/statemachine.py`) | transition table | `assert_transition` | every status write depends on it | terminal states stay; execution states are left |
| Task store (`storage/repos.py`) | `tasks`, `task_events`, `files`, `samples`, the latch | claim, status writes, writes with event, resolver writes, outputs, samples | which writes are one transaction and which are two | a status and its event agree; FIFO; first level wins |
| Task Center API (`api/tasks.py`) | request progress | create, cancel, review, batch | handlers of several commits that stop half way or act on a stale read | only a human decides a review; isolation of conversations |
| Job Runner (`jobs/runner.py`) | scan list, resolver verdict | recovery, resolver, quarantine, claim, last-resort failure | crash at any commit, resolver reads without a lock, malformed old rows | no replay, no zombie, no starvation, only signed inputs |
| Agent Runtime (`runtime/runtime.py`) | position in `execute` | gates, classification, validation, workflow, outputs, sample, review or completion, failure | the row moves underneath; exceptions at any point | level before content; gate before release |
| Owner lineage (`storage/task_owner_lineage.py`) | none of its own | authorizes claim and execution | poisoned rows | a poisoned row is never executed |
| Eval worker (`governance/eval_worker.py`) | `_active`, threads | poll, reap, settle, recover | threads that do not start or die, refused writes, reaps by several threads | quota, verdict kept, no slot lost |
| Eval runner (`governance/eval_runner.py`) | `eval_runs`, eval tasks | enqueue, execute cases, CLI run | two processes execute cases | a run is settled once; eval artifacts stay out of user tasks |
| Promotion (`governance/promotion.py`) | agent manifest file, `promotions`, the latch | promote with rollback | two stores and no common commit | latch stops both claimers while the stores may differ |
| Batch creation (`api/tasks.py`) | deterministic ids, fingerprints | create many, replay | repeated and concurrent requests | one operation id, one set of tasks |
| Classification backfill (`api/classification_gate.py`) | `data_classification` | backfill at start-up | old worker still writing | old content is never left open |
| Conversations (`runtime/conversation.py`) | messages, status | round, conclude | a model call of minutes between read and commit | rounds are atomic, none after conclude |
| Asset candidates, Skill packages, Skill reuse (`ontology/*`, `storage/skill_*`) | ledger with CAS head, directories, bindings | append, materialize, bind | file rename before commit | a binding names exactly what was reviewed |
| Curation (`governance/curation.py`) | eval case files, rows | publish | file and row | published once |
| Agent registry (`runtime/registry.py`, `package_snapshot.py`) | snapshots | scan, rescan, open | rescan while a task executes | a task executes the bytes it was created for |
| Tool registry (`tools/registry.py`) | tool threads | call with timeout | the thread goes on after the timeout | a late tool changes nothing that counts |
| Authentication (`auth/*`, `scripts/user_admin.py`) | account, sessions, attempts, slots | login, logout, create, reset, disable, enable | a password is checked outside any transaction while an administrator changes the account; parallel attempts, outages | a session belongs to present credentials; only failures lock an account |
| Knowledge, model gateway, files, teams, projections, other endpoints, frontend | see `PROJECT.json` | | pure functions or single statements | |

`PROJECT.json` lists all of them with their status, and the hazards with the
line where each one bites and the properties that cover it.

---------------------------------------------------------------------------

## 2. The modules

```
  TaskStore  <-- TaskApi  <---------------------+
      ^                                         |
      +------- TaskWorker <-- TaskRuntime <-- TaskCenter <-- MCTaskCenter
                                                ^  || (INSTANCE)
                                                |  TaskPromise
                                   TaskCenter_proofs <-- TaskLevels_proofs

  EvalLedger <== (INSTANCE) == EvalQueue <-- MCEvalQueue
                                   ^
                           EvalQueue_proofs

  SkillPipeline_proofs <-----------------------------------+
             |                                             |
             +---------------------------+                 |
                                         v                 |
  SkillLedger <-- SkillQuarantine <-- SkillPipeline <------+
                                         || (INSTANCE)     |
                                     PackageShelf      MCAssets <-- Assets_proofs
                                         ^                 |
                                     SkillReuse <----------+

  Conversation <-- BatchStart <--- MCServices <--- Services_proofs
  Promotion <----------------------+                    |
      ^            Login <---------+                    |
      |              ^                                  |
  Promotion_proofs   Login_proofs <---------------------+
      ^-------------------------------------------------+
```

An arrow is EXTENDS. Definitions followed by the comment `\* mutant` are not part
of any specification: each is a wrong version of the definition after it, of the
kind a plausible bug would give, and is used to see that a run notices it.

### Task Center

A task row is a column of functions over `Task`:

| Variable | Code |
|---|---|
| `status`, `deps`, `classif` | `tasks.status`, `depends_on`, `data_classification` |
| `binding` | `tasks.input_binding.from_tasks`; `{}` binds every upstream |
| `inputs` | the *output* files of upstreams among `tasks.input_file_ids`, named by their task |
| `witness` | `piped_file_ids` of the `dependency_resolved` event |
| `before` | the order of `created_at`, as the set of rows inserted earlier |
| `artifact` | the output of a task: `registered` (file row), `listed` (in the manifest of the task); `stray` is a listed id with no such file, which only old rows have |
| `events` | the types present in `task_events` |
| `sample` | the sample row and its label |
| `fault` | the durable promotion latch |

and the rest is where the processes stand: `create[t]`, `cancel[t]` (requests),
`phase[e]`, `hold[e]` (threads), `todo`, `verdict`, `piped` (local variables of the
job thread). `runs` and `lossy` are history variables.

| Module | Models | Actions |
|---|---|---|
| `TaskStore` | `core/statemachine.py`; the reads and writes of `storage/repos.py` | `Legal`, `SetTaskStatus` (no event), `MoveWithEvent` (one transaction), `Classify` (first write wins), `Oldest`, `SignedOff`, `ReviewEvidence` |
| `TaskApi` | the writing handlers of `api/tasks.py` | `CreateInsert`, `CreateEnqueue`, `CreateRefused`, `CreateEvent`; `CancelRead`, `CancelWrite`, `CancelRefused`, `CancelEvent`; `Approve`, `Reject`; `ApiAbandon` |
| `TaskWorker` | `jobs/runner.py`, and the eval task's insert, queueing and claim of `governance/eval_runner.py` | `ResolveScan` ... `ResolveAbort`; `Claim`, `PollNothing`; `EvalInsert`, `EvalQueue`, `EvalClaim`; `Crash`, `CliStop`, `Start`, `Recover`, `RecoverEvent`, `RecoverDone` |
| `TaskRuntime` | `AgentRuntime.execute`, commit by commit, and what its two callers do when it raises | `Quarantine`, `Refuse`, `Derive`, `StartValidation`, `ValidatePass`, `ValidateFail`, `EnterRunning`, `RunWorkflow`, `RegisterOutputs`, `SetTaskOutputs`, `RecordSample`, `RequestReview`, `EnterAnalyzing`, `Complete`, `Close`; `MarkFailed`, `FailedEvent`, `FailureSample`; `Race`, `Raise`, `FailBestEffort`, `FailBestEffortEvent`, `LoseFailure` |
| `TaskCenter` | all of it over one store, plus the latch and the classification backfill of a starting process; the properties | `Latch`, `Backfill`, `Next`, `Spec`, `FairSpec` |
| `TaskPromise` | the promise to the owner of a task, with no process, scan or commit in sight | `Submit`, `TakeUp`, `Act`, `Conclude`, `Judge`, `GiveUp`, `LetGo` |

`TaskCenter!ImplementsPromise` instantiates the promise with `life <- Life(t)`, which
reads the part of its life off the row (`created` and `queued` are both *waiting*, the
four execution states *working*, and a completed row is *released* only with its
sign-off), `busy <- ` the tasks of the threads inside `execute` or in what their callers do
when it raises, and `acted <- ` the tasks whose workflow was entered. Creation in three
commits, the resolver with its scan and its verdict, the phases of a thread, the events,
levels, samples and artifacts are stuttering steps; a cancel, a refusal, a recovery and
each path of failure are `GiveUp`, a crash is `LetGo`.

(The action `EvalQueue(e)` of `TaskWorker`, which queues the task of one eval case,
has nothing to do with the module `EvalQueue`, the queue of eval *runs*.)

Decisions worth knowing when reading it next to the code:

* **Two commits stay two actions.** `_mark_failed` commits the status and then the
  event; creation commits the row, then its queueing, then its event; cancel
  reads, then writes, then appends. `complete_task_with_event` and its siblings
  are one transaction, hence one action.
* **The agent is its manifest.** A task belongs to `ReviewTask`
  (`requires_human_review` is not `False`) or to `AutoTask` (`profile` is `none` and
  no review). `_load_one` of the registry refuses any other job agent, which is
  `KindsAssumption`; only rows of earlier releases (`LegacyDone`) may be neither.
* **Old rows.** `Init` admits rows that earlier releases wrote with weaker checks:
  finished without sign-off, failed, of another conversation, with stray
  artifacts; dependent rows with unchecked references (`LegacyOpen`). The code
  quarantines them on purpose, so they are legal initial states.
* **Refusals are one alternative.** Everything that lets `execute` refuse before
  the run (snapshot, digest, version, disabled agent, Skill binding) is `Refuse`;
  a defect of the inputs or of the assembly is `ValidateFail`, which is always
  possible; the workflow is `RunWorkflow` with two outcomes.
* **A poisoned owner lineage** is an alternative of `Claim` and of `Quarantine`
  that is always possible; the walk itself is not modelled.
* **Exceptions.** `Raise` is any exception at any point of `execute`; it is bounded
  by `MaxDisturb`. `Race` is the particular exception the code expects when a row
  was moved underneath, and is not bounded.

### Eval queue

`EvalQueue` is `governance/eval_worker.py` with the eval-run operations of
`storage/repos.py`: `row` and `before` are the rows, `active` the keys of `_active`, `pc`
the poller and the thread of each run, `swept` and `target` the local variables of
`_reap`, `hand` the run that `run_once` has claimed and not handed over. The states
between `Register` and `StartThread`, and between the check and the write of
`_settle_run`, are separate on purpose: a registered thread that is not started is
not alive, and `finish_eval_run` does not look at the status. What a run does
between its start and its verdict is the life of its eval tasks in `TaskWorker`
and `TaskRuntime`.

`EvalLedger` is the promise to callers: runs queue up, a slot is granted first
come first served, and is given back with a verdict that stays. `EvalQueue!LedgerSpec`
instantiates it with `free <- Quota - Cardinality(Running)`.

### The asset pipeline

| Module | Models | State | Actions |
|---|---|---|---|
| `SkillLedger` | `ontology/asset_candidates.py` and its table and event list | `row[t]` the revisions of source task `t`, `entry` the events, `fact[t]` what task rows, events and files say, `deployed`, `concluded`, `login` | `CreateCandidate` (`Succeed`, `Supersede`), `RejectCandidate`, and the sources: `DeployPackage`, `ConcludeConversation`, `Logout` |
| `SkillQuarantine` | `ontology/candidate_materializer.py`, `storage/skill_packages.py`, the start-up of `main.py` | `disk[a]` a content-addressed directory with its entry and its bytes, each cached or durable; `pkg[c]` the row; `tx` the transaction that holds the write lock; `app`, `backlog` | `BeginAcceptance`; `WriteStaging`, `Rename`, `SyncDirectories`, `Adopt`, `VerifyFailed`; `CommitAcceptance`, `CommitBackfill`; `IoError`; `StartApp`, `BeginBackfill`, `Serve`; `DecidePackage`; `KillApp`, `PowerLoss`, `Damage` |
| `SkillPipeline` | both, with the lock between them | | `Owner`, `Materialize`, `Startup`, `Misfortune`; the properties |
| `PackageShelf` | the promise: a package is shelved once, reviewed once while it verifies, and refused once it is spoilt | `shelf`, `spoilt` | `Shelve`, `Review`, `Spoil` |
| `SkillReuse` | `ontology/skill_reuse.py`, `skill_reuse_evidence.py`, `runtime/skill_reuse_application.py` | the shelf, `plan` the reference in the recommendation, `reuse` the bound tasks | `Recommend`, `Bind`, `VerifyRuntime`, `Finish`, `FailReuse`, `DriftInputs` |

* **A digest is what it covers.** Candidate `<<t, n>>` is its digest, because the code's
  covers the content and the previous digest; a directory's address is the candidate
  and the session that accepted it, because the name of a package covers those and
  not the time. So a second attempt in the same session finds the directory of the
  first, and one in another session does not.
* **A source is sound or has one flaw** (`Flawed`), one for each verification the
  ledger makes; the verifications are operators of their own.
* `CommitAcceptance` reads its projection back before the commit, as the code does:
  a directory that was damaged meanwhile rolls the acceptance back (`VerifyFailed`).
* A damaged directory that no row names makes the backfill refuse it, and the start
  give up: fail closed, as `main.py` means it.
* The pipeline *implements* the shelf, and reuse is *built on* the shelf: that is the
  interface between the two halves, and why they need not be run together.
* Two things reuse does and a reader may not expect. `Counted` is greedy in the order of
  creation, so that which of several dependent cases counts depends on the order,
  and their number may too. And a source whose accepted revision is accepted
  again in a later revision has two packages of the same title, so that the best
  score is shared and the matcher names neither.

### Conversations and batches

`Conversation` is `runtime/conversation.py`: `timeline` is the order of rounds and tasks,
`conv` the status, `plan` the stored recommendation, `round[r]` what the thread of a
request has read, `client[r]` whether the reader of a stream is still there. A round is
`ReadHistory`, `ReadTasks` (a second read, so that a task can come between), minutes in
which anything happens, and `CommitRound`, which looks again; or it is `GiveUp`. A task and
an entry that ends a segment move the `Boundaries`. `BatchStart` adds `run_batch_creation`:
`LookBefore` outside the lock, `Start` under it, and `RefuseStart` for every reason the payload
may have. `submitted` is the reuse reference the page shows, `drifted` a redeployment, which
refuses the payloads that name the versions and digests they were planned for (`Pinned`).

A round that is streamed looks whether its client is still there just before it commits;
`CommitRound` is that look and the commit, and `Disconnect` may come before or after it. The
moment between the two, in which a client can leave and the round is stored all the
same, is not a state of its own; a round has no operation id to repeat it under.

### Promotion and curation

`Promotion` is `governance/promotion.py` with the part of `bootstrap.py` and `runtime/registry.py`
that publishes a package, and `governance/curation.py`. The API and the command line are
two processes.

| Variable | Code |
|---|---|
| `pkg` | the live directory: maturity in `agent.yaml`, length of `changelog.md`, code, cases |
| `db`, `promotions`, `latch`, `acked` | `agents.maturity`, the `promotions` table, the reserved heartbeat row, the acknowledgements |
| `evidence` | codes with a complete green evaluation |
| `mem[p]`, `red[p]`, `op[p]` | the registry of a process, its attestation records, and where its start or its promotion stands, with the local variables it still needs |
| `writer` | the sample whose curation holds the write lock |
| `session`, `kills`, `lowered` | the signer's session; history |

A promotion is `CheckGates`, `ReadTexts`, `TakeLatch`, `Recheck`, `WriteYaml`, `AppendChangelog`,
`ScanShadow`, `CommitPromotion`, `Adopt`, `ClearLatch`; from the latch on it may `Fail` or
`MeetRejection`, and then `RestoreYaml`, `RestoreChangelog`, `Republish`, `ClearLatch`, or fail
in that too (`LeaveLatched`). `Recheck` that finds the package changed leaves the latch when
clearing it fails, and a read that fails there leaves it unrecorded. A scan may find the
tree changing under its two readings, and then publishes no such agent (`Scans`); the
restoration may meet a rejection of its own, in which case the latch stays (`Republish`).
A start is `ScanForStart` and `Assemble`. Curation is `FixSample` and `Acknowledge` (the file)
with `EndAcknowledge` (the commit or its failure). A snapshot is one consistent copy because
the code reads twice and compares. The write of a text is one step: a scan in the middle
of it, or after a stop there, finds a manifest that is not valid, which is the scan that
publishes no such agent.

### Logins

`Login` is `auth/service.py` and `api/auth.py` for the requests of one user name, and
`scripts/user_admin.py`, which is another process, for its account.

| Variable | Code |
|---|---|
| `hash`, `password`, `active` | `users.password_hash`, numbered because every hash has a salt of its own; what it was made of; `is_active` |
| `sessions`, `expired` | the rows of `auth_sessions`, and those past `expires_at` |
| `stage`, `seen` | where a request stands in `login`, and the hash it read first (`version_row`) |
| `free`, `attempts`, `locked` | `LoginThrottle`: slots, attempts in the window of this name, its lock |
| `proof`, `wrong` | history: the hash a password was checked against, the requests refused for it |

A login is `AcquireSlot`, `Reserve`, `ReadVersion`, `Verify`, `IssueSession`, `Reset`, `Purge`,
`ReleaseSlot`; `Outage` is either `except` that takes the attempt back. The account may be
reset, disabled and enabled between any two of them. `Elapse` stands for time and for
the other names, which may make the limiter forget everything.

---------------------------------------------------------------------------

## 3. The runs

Passing runs (`tlc -config <name>.cfg` with `MCTaskCenter`, `MCEvalQueue`, `MCAssets` or
`MCServices`):

| Run | Instance | Shows |
|---|---|---|
| `Tasks_chain` | a reviewed task that may be cancelled and a deterministic one, any dependency, 2 disturbances | `TypeOK`, `NoReplay`, `ReleasedBySignature`, `NoZombie`, `ContentIsClassified`, `LevelIsDerived`, `ReviewIsHuman` |
| `Tasks_join` | a task that joins two upstreams, every binding | `SafeConsumption` for rows of this release |
| `Tasks_legacy` | two old rows, one of another conversation, and an old dependent row that may be cancelled; two levels | `SafeConsumption` against old rows, `LevelIsImmutable` |
| `Tasks_eval` | a worker's and a CLI's eval thread next to a user task that depends on an eval task | `LabelIsVerdict`, `ImplementsPromise` |
| `Tasks_live` | a finished row, an old candidate over it that may be malformed, a new task that depends on any of them; 3 disturbances, fairness (`LiveSpec`) | `QueuedIsServed`, `ExecutionEnds`, `DependentsSettle` |
| `Evals_one` | 1 slot, 3 runs, 2 disturbances, fairness | `ThreadsWithinQuota`, `LedgerSpec` (the queue implements the ledger), `RunsSettle` |
| `Evals_two` | 2 slots, 3 runs and a CLI run, 2 disturbances | `QuotaHolds`, `ZombieIsTracked` |
| `Assets` (`MCAssets`) | one source with at most one flaw, 2 revisions, 2 sessions, 2 faults, possibly an old acceptance; beside it 2 packages, 2 segments, 3 reuses | `AssetsTypeOK`, `LedgerVerifies`, `PackageIsDurable`, `AcceptedIsMaterialized`, `DecisionsAreFinal`, `DecidedOnEvidence`, `StartupEnds`, `ImplementsShelf`; `EvidenceIsIndependent` |
| `Services` (`MCServices`) | 2 rounds, one of them streamed, and 3 starts of the plan; beside it 2 processes, 1 sample, 1 edit, 2 kills; and 3 logins with 2 passwords, 2 slots, a lock after 2 attempts, an account that is created and reset once, 1 outage | `ServicesTypeOK`, `RoundsFitTheirSegment`, `OperationIsOneBatch`, `ConcludedIsReadOnly`, `RetryIsAnswered`; `L1IsProven`, `UnprovenIsLatched`, `PromotedOnce`, `PromotedStaysAttested`, `SignedByTheLiving`; `SessionsAreCurrent` |

The properties, in words:

* `SafeConsumption`: a workflow is only entered when every declared upstream is
  completed, signed off, of the same conversation and of a user, and only with
  artifacts its binding selects. It is violated by no single step: the resolver,
  the witness event, the validation and the terminal states have to agree.
* `NoReplay`: a workflow acts on the world outside; it is entered at most once
  per task whatever crashes and recovers.
* `ReleasedBySignature`: a completed task has an approval bound to its execution
  evidence, or its agent is deterministic.
* `ReviewIsHuman`: nothing but a review takes a task out of `waiting_review`, with
  its event in the same commit, once.
* `NoZombie`: while the worker is up, a user task in an execution state is the one
  the job thread holds, unless a last-resort write was refused.
* `ContentIsClassified`, `LevelIsDerived`, `LevelIsImmutable`: the level comes before
  the content it protects, nobody writes it before the task derives it, and it never
  changes, although a task that was cancelled under its thread is classified by
  that thread and by the backfill of any process that starts meanwhile.
* `LabelIsVerdict`: a sample's label follows the human, an eval task leaves none.
* `ImplementsPromise`: whoever claims, executes, recovers, cancels or reviews, a task is
  taken up once and by one thread, acts at most once and only while all it needs is
  released, is released by its reviewer or by its own automatic end, and stays where it
  ended. A row moved twice, out of a terminal state or back to the queue breaks it. The
  two eval threads and the recovery are the instance in which they meet on one task; the
  theorem adds the cancel, which `Tasks_chain` and `Tasks_legacy` exercise.
* `QueuedIsServed`, `ExecutionEnds`, `DependentsSettle`: the job loop takes a queued task up,
  a task does not stay in an execution state, and every candidate whose upstreams are
  finished is settled, a malformed one by its quarantine and the one behind it although
  the pass that meets the malformed row ends there. `ExecutionEnds` has one exception,
  `Stranded`: the write of last resort was refused and the worker that was refused goes on.
  Its second part says that the exception ends with the worker: once it is down, by a
  crash or a stop, the restart that follows ends the execution, of stranded tasks too.
* `QuotaHolds`, `ThreadsWithinQuota`, `ZombieIsTracked`, `RunsSettle`, `LedgerSpec`:
  slots, threads, forgotten runs, progress, and all of it against the ledger.
* `LedgerVerifies`: no history of submissions, decisions and crashes leaves a source
  whose candidates cannot be verified, which would lock its owner out for good. While the
  API serves, a read of the latest candidate is refused for one reason only: it is
  accepted and the directory of its package, which the read verifies cold, has been
  damaged on the disk (`CandidateRead`, `WithSkillPackage`). A missing package, which a read
  refuses as well, does not occur once the backfill of the start is through.
* `PackageIsDurable`: what a row names survived the sync before the commit.
  `AcceptedIsMaterialized`: while the API serves, every accepted latest revision has its
  package, old ones included. `StartupEnds`: a start serves or gives up.
* `DecisionsAreFinal`, `DecidedOnEvidence`: one decision, by somebody whose session exists in
  the commit, about what the live sources still say although the disk took its time.
* `ImplementsShelf`: nothing is reviewed that does not verify, and nothing spoilt heals.
* `EvidenceIsIndependent`: two counted cases differ in segment, work and retry family,
  and a verified case that is not counted depends on one that is.
* `RoundsFitTheirSegment`: a stored round was answered for exactly the segment it stands
  in. `ConcludedIsReadOnly`: neither a round nor a batch checked before comes after.
* `OperationIsOneBatch`, `RetryIsAnswered`: one operation id, one whole batch, of the payload
  every answered request asked for; once it exists, a repetition is answered with it
  although the conversation is concluded or the packages are redeployed.
* `L1IsProven`, `UnprovenIsLatched`, `PromotedOnce`, `PromotedStaysAttested`, `SignedByTheLiving`:
  two stores and two memories that never say L1 without a record of the evaluated
  bytes, and the latch whenever one of them is ahead. `PromotedStaysAttested` excepts a row
  that a start has lowered (`lowered`), the subject of `Promotion_race`.
* `SessionsAreCurrent`: whatever is reset, disabled and enabled while a password is being
  checked, a session stands for the present credentials of an active account.

**Bounds.** Every disturbance (a crash, an abandoned request, an exception, a
refused write, setting the latch, a thread that does not start) costs one unit of
`MaxDisturb`. Two units give every pair, among them the ones that matter: an
exception and the refused write that should have recorded it, a crash during the
recovery from a crash, a thread that does not start and its refused settlement.
`Tasks_live` has three, so that after the exception and the refused write the worker can
also be stopped. It starts from the old rows its properties are about (`OpenCandidates`);
the other old rows are those of `Tasks_legacy`. `FewDisturbances` keeps it small: a second
candidate exists only with one disturbance at most, all three happen only without it. What
that bound forbids is disturbances and a creation, steps without fairness, so that the
fairness conditions mean in `LiveSpec` what they mean in `FairSpec`. The malformed row, the candidate behind it, and one
exception or crash among them are in; a stranded task with two candidates is not.
Two tasks suffice for interleavings of creation, cancel, resolution and
execution, since the job thread works on one task at a time and rows interact
only along `deps`; the third task of `Tasks_join` is what a binding that excludes
an upstream needs. Three eval runs fill two slots and leave one waiting.
`MayCancel` and `MayDependOn` bound who asks for what, `Levels` how many
classifications there are. The proofs of section 6 need none of these bounds.

In `Assets` the two faults give a crash in the middle of an installation and another in
the backfill that follows, or a power loss and a damage; two sessions give an
address that is found again and one that is not. The matcher's limit on the
number of packages (`Population`) is not exceeded by two packages. In `Services` two
rounds and a batch give every way a segment can be cut under a round; two kills
give a promotion killed half way and another killed in the start after it.
`MCAssets` holds two and `MCServices` three specifications that share no variable, and a
behaviour moves only one of them (`side`). Three logins give one that is checked while
another takes or loses its slot, and one with the password of before or after the reset.

CHECK_DEADLOCK is left on in the runs of tasks and evals: the job loop and the
poller never stop. It is off in `Assets`, `Services` and `Promotion_race`, where the
requests, revisions, edits and kills of an instance are finitely many and may end.

---------------------------------------------------------------------------

## 4. Fairness

* The job loop (`run_forever`) and the poller (`run_forever` of the eval worker) are
  `while` loops that end only with the process, and a supervisor starts the process
  again: weak fairness of `JobStep` and of `PollerStep`, which include the start.
* A thread or a request that has started is scheduled: weak fairness of an eval
  thread's `RuntimeStep`, of a run's `ThreadStep`, of the remaining steps of a
  creation or a cancel that has begun.
* In `Assets`, a transaction that has begun and a start-up that has begun go on, for
  nothing in them waits: weak fairness of `Materialize` and of `Startup`, and of nothing else;
  nobody has to start the process again.
* Nobody is obliged to create, cancel, review, enqueue, latch or unlatch, and no
  disturbance is fair.

A workflow and an eval run are assumed to return; the timeouts of tools and model
calls are what the code has for that. `QueuedIsServed` and `RunsSettle` end with "or
the latch is set": a set latch stops both claimers, and only an operator or the
promotion that set it clears it. `RunsSettle` also excuses `lossy`, the case of
section 5 in which the poller drops a run it could not settle. It is checked without
a CLI run: one that stops half way keeps a slot until the worker restarts.

---------------------------------------------------------------------------

## 5. Where the code and its documents differ

Each of these is a run in which TLC violates what a document or a comment states.

| Run | What is stated | What the code does |
|---|---|---|
| `Tasks_cancel` | `docs/adr/ADR-0008-m1-backend-decisions.md:20`, `api/tasks.py:1755`: only tasks that have not started are cancelled | `cancel_task` reads the status in no transaction and `set_task_status` then checks the transition of whatever the row holds; `running -> cancelled` is legal |
| `Evals_overwrite` | `governance/eval_worker.py:140`: a settled row is never overwritten, the check and the write have no rival | a thread on its way out reaps a thread that is registered and not started, and replaces the verdict of the run that meanwhile completed |
| `Promotion_race` | `governance/curation.py:66`: the live package is not writable once it is L1 | `assemble` projects with `sync_to_db` what it scanned before another process promoted; the row says L0 again, and curation, whose registry is as old, writes a case into the promoted package, which the next start then refuses |

Three more are visible in the models without a run of their own:

* `docs/05_Task_Event_Standard.md:119` calls a status change without its event a
  violation, apart from two named exceptions. `_run_one_case_inner`
  (`governance/eval_runner.py:980`) fails the task of a case that raised and appends none
  (`FailBestEffort` of an eval thread), and a stop between two commits leaves none.
* `docs/05_Task_Event_Standard.md:111` calls creation and queueing atomic. They are two
  transactions; a stop in between (`ApiAbandon`) leaves a root task in `created`, which
  neither the resolver nor a claim looks at.
* `governance/eval_worker.py:168` says that whatever is running at start-up belongs to a dead
  worker. A run of the CLI is settled by `RecoverRun` while it is being executed.

`Evals_overwrite` needs two slots, which is the default (`config.DEFAULT_EVAL_QUOTA`).
With one slot the thread that could sweep has left the map before another is
registered, which is why the refinement holds, and is proved, for `Quota = 1` and
fails for more. The early settlement also frees the slot of the run while its
thread executes, so `ThreadsWithinQuota` is checked and proved for one slot only.

`ZombieIsTracked` and `RunsSettle` have an exception, the `lossy` of `EvalQueue`: when
`thread.start()` raises, `run_once` takes the run out of `_active` before it calls
`_terminalize_zombie`; if that write is refused as well, no reap looks at the run and
it keeps its slot until the worker restarts, although the docstring
(`governance/eval_worker.py:133`) expects `_reap` to retry.

---------------------------------------------------------------------------

## 6. What is proved

Every statement below is checked by TLAPS to its last leaf, for **every** set of
tasks, threads, runs, processes, source tasks and sessions, every conversation map and
binding, every number of revisions, faults and disturbances. The assumptions are those of
the modules:

* `KindsAssumption` (TaskStore): the kinds of tasks, and the registry's rule that a
  job agent is review gated or deterministic;
* `RequestsAssumption` (TaskApi), `ThreadsAssumption` (TaskWorker): ids are distinct,
  `internal` is a level and `null` is none;
* `QueueAssumption` (EvalQueue): ids are distinct, runs are finitely many, the quota
  is at least 1, which `EvalRunner.__init__` forces;
* `PromotionAssumption` (Promotion): the API is no command line process, ids are distinct;
* `LoginAssumption` (Login): requests are finitely many, each with a password; slots and
  attempts are at least 1;
* `LedgerAssumption` (SkillLedger): there is a session, none of them is `NoOne`, and at least
  one revision is possible; `FaultAssumption` (SkillQuarantine): faults are counted;
* `ReuseAssumption` (SkillReuse): the bounds are numbers, and so are the scores of the matcher;
* `RoundAssumption` (Conversation): streamed rounds are rounds, and the budget of rounds is
  a number; `RequestAssumption` (BatchStart): a request has a number of tasks, which is at
  least 1, and an operation id is not the name of a request, which stands for the fresh
  id of one that brings none.

### Task Center (`TaskCenter_proofs`, `TaskLevels_proofs`)

| Theorem | Statement |
|---|---|
| `TypeCorrect` | `Spec => []TypeOK` |
| `TerminalCorrect` | `Spec => TerminalIsFinal` (a terminal row is never moved; no run lists it, `ImplementsPromise` is stronger) |
| `ReplayCorrect` | `Spec => []NoReplay` |
| `ReleaseCorrect` | `Spec => []ReleasedBySignature` |
| `ReviewCorrect` | `Spec => ReviewIsHuman` |
| `ConsumptionCorrect` | `Spec => []SafeConsumption` |
| `NoZombieCorrect` | `Spec => []NoZombie` |
| `ClassifiedCorrect`, `DerivedCorrect`, `ImmutableCorrect` | `Spec => []ContentIsClassified`, `[]LevelIsDerived`, `LevelIsImmutable` |
| `LabelCorrect` | `Spec => []LabelIsVerdict` |
| `PromiseCorrect` | `Spec => ImplementsPromise`: the Task Center implements `TaskPromise` |

None of the safety properties is inductive, and they rest on each other in layers:

1. `TypeOK`.
2. `WorkInv`, *who works on what*: a thread that works holds a task with a row; the
   job thread holds user tasks, except that the recovery may be failing an eval
   task; no two eval threads hold the same one.
3. `StageInv`, *where the row can be*: while a thread is in a phase, the row of its
   task is where the thread put it or where a cancel or the recovery may have
   moved it. It is the table `Rows` of `TaskCenter_proofs`. From it follow the
   unguarded writes: `Quarantine`'s, and the poisoned claim's.
4. `ReplayInv` adds that a row before `running` was never run, and that a thread in
   phase `running` has not run its task yet. A second entry would need a thread
   that leaves `running` for `validating`, which no transition allows.
5. `DecisionInv`: a review event stands in a row only together with the state it
   decided. With it a second decision is impossible, because both decisions leave
   `waiting_review`.
6. `ConsumeInv`, *readiness once seen stays*: `completed` is terminal and an event
   is never taken back, so what the resolver saw without a lock is still true when it
   commits (`ReadyStable`), when the validation rereads it through the witness, and
   when the workflow runs. The old rows enter here: one with inputs and no
   witness event is stopped by `WitnessValid`.
7. `ZombieInv`: while the recovery runs, the executing user rows are on its list; after
   it, each is the one the job thread holds. `StageInv` is what makes a release safe:
   wherever a thread lets go of a user row, the row has left execution, even when it
   was moved underneath (`Race`).
8. `LevelInv`: a row that waits to be executed has no level, and a thread past `claimed`
   holds a row that has one. The resolver and the backfill write only rows that
   nobody will execute; so the derived level is the first one.
9. `LabelInv`: a thread that may still write a sample holds a task nobody has decided.
   It needs `DecisionInv` (what is claimed was queued, hence undecided) and `StageInv` (what
   is reviewed has passed the sample).
10. `PromiseCorrect`. `DoneInv` adds what the mapping needs beyond 1 to 6: a thread past its
   workflow has run its task, and a task that was never submitted needs nothing. A step is
   *calm* (`Calm`) when no reference, no run and no part of any life changes and no thread
   takes up a task; such a step lets threads go at most (`CalmMaps`). `StepKinds` shows that
   every action but fifteen is calm, and each of those has a lemma that names its abstract
   action (`InsertMaps`, `ClaimMaps`, `ActMaps`, `ConcludeMaps`, `JudgeMaps`, `FailureMaps`,
   ...). The hard ones: `Act` needs `ConsumeInv` for *released inputs only* and `ReplayInv`
   for *once*; `Conclude` needs `DoneInv`; `TakeUp` needs that nobody else is busy with a
   row that waits (`StageInv`); a failure of a row that has already ended is a stutter,
   because the unguarded writes only meet rows `StageInv` allows.

### Eval queue (`EvalQueue_proofs`)

| Theorem | Statement |
|---|---|
| `TypeCorrect`, `QuotaCorrect`, `ZombieCorrect` | `Spec => []TypeOK`, `[]QuotaHolds`, `[]ZombieIsTracked`, any quota, with CLI runs |
| `Implementation` | `OneSlot => (Spec => LedgerSpec)` |
| `OneExecution` | `OneSlot => (Spec => []ThreadsWithinQuota)` |

`ZombieIsTracked` needs `Tracked` (a claimed row is in the hand before `Register` and
in the map after) and `Listed` (the recovery has every claimed run on its list).
The refinement is proved under `OneSlot == Quota = 1 /\ CliRun = {}` from
`OneSlotInv`: at most one thread lives, the map holds exactly it, a sweep of the
poller finds only the dead, and a settlement therefore hits a running row, which is
a `Settle` of the ledger; every other step is a `Grant`, an `Arrive` or a stutter.

### Promotion (`Promotion_proofs`)

| Theorem | Statement |
|---|---|
| `PromotionTypeCorrect` | `PromotionSpec => []PromotionTypeOK` |
| `ProvenCorrect`, `LatchCorrect`, `OnceCorrect`, `AttestedCorrect` | `PromotionSpec => []L1IsProven`, `[]UnprovenIsLatched`, `[]PromotedOnce`, `[]PromotedStaysAttested` |
| `SignerCorrect` | `PromotionSpec => SignedByTheLiving` |
| `AcknowledgedCorrect` | `PromotionSpec => []AcknowledgedHasCase` |

for any number of processes, samples, edits and kills. The types come with
`LatchExcludes`: a process between `TakeLatch` and its end is named by the latch, so
that there is one of them (`OneHolder`). `SafeInv` says, for each position of such a
process (`StepInv`), how directory, row and records stand to what it has read; that a
row or a registry that says L1 has its record (`RecordInv`, `RowInv`, `PublishedInv`); and
that a directory ahead of the records has the latch, or the records' bytes
(`DirectoryInv`). The recheck under the latch is what gives a process in `fresh` the
clean state `PromotedOnce` needs: its own reads are older than the latch.

### Logins (`Login_proofs`)

| Theorem | Statement |
|---|---|
| `LoginTypeCorrect` | `LoginSpec => []LoginTypeOK` |
| `SessionsCorrect` | `LoginSpec => []SessionsAreCurrent` |
| `AttemptsCorrect` | `LoginSpec => []OnlyFailuresCount` |

for any number of requests, passwords, slots, attempts, changes and outages.
`VersionInv` orders what a verified request knows: the hash it read first is no newer
than the one its password was checked against, and that is no newer than the row's.
If the first equals the row's in the commit, so does the second, and this is why the
code may compare the one it read first. `SlotInv` counts the requests that hold a slot,
so that a release never exceeds the slots there are. `CountInv` bounds the attempts by the
requests that are undecided or were refused: what a busy answer or an outage leaves
behind cannot lock an account.

### Asset pipeline (`SkillPipeline_proofs`)

| Theorem | Statement |
|---|---|
| `PipelineTypeCorrect` | `PipelineSafety => []PipelineTypeOK` |
| `LedgerCorrect`, `DurableCorrect`, `MaterializedCorrect` | `PipelineSafety => []LedgerVerifies`, `[]PackageIsDurable`, `[]AcceptedIsMaterialized` |
| `FinalCorrect`, `EvidenceCorrect` | `PipelineSafety => DecisionsAreFinal`, `DecidedOnEvidence` |
| `ShelfCorrect` | `PipelineSafety => ImplementsShelf` |

The read of a candidate that `LedgerVerifies` is about includes the cold verification of the
package an accepted one has (`_with_skill_package`); `MaterializedCorrect` and `DurableCorrect`
are what leaves a damaged directory as the only reason for its refusal.

All this for any sources with at most one flaw each, any sessions, revisions and faults, with and
without rows of an earlier release. `PipelineSafety` is `PipelineSpec` without its fairness,
which none of this needs. The invariant `Inv` has six parts, and each rests
on the ones before it:

1. `TypeInv`, where each candidate has finitely many events (their number makes a new one
   distinct from the old).
2. `LedgerInv`: a revision was created by exactly one event; one that is decided or
   superseded was so by the event its row names, and by no other; only the latest
   awaits a decision (`RevisionInv`). A revision that does not exist has no events.
3. `LockInv`, *what a transaction has read stays true while it holds the lock*: the
   candidate of an acceptance still awaits, with the content its sources give now and
   a session that exists; that of a backfill is still accepted and without a package. A
   transaction that has come to its insertion has a durable directory entry.
4. `DiskInv`: a directory that has its name has its bytes synced, or damaged later.
5. `PackageInv`: a package belongs to an accepted revision, at the address of the session
   that accepted it, in a durable entry, and its review stands or falls with its state.
6. `StartInv`: a start that has begun knows every acceptance without a package.

Types, durability and materialization are read off it. A commit of an acceptance
inserts the package in the transaction that accepts, which is why `StartInv` survives
it, and `LockInv` is why it decides on evidence that still holds.

For the refinement, a package is unreadable exactly if the bytes of its directory are not
whole (`BytesDecide`, from parts 2 and 5), so that `spoilt` is a matter of the disk alone.
Then the two commits are `Shelve`, `DecidePackage` is `Review`, `Damage` of a directory a row
names is `Spoil`, and everything else stutters: an installation writes at an address
no package has, and a power loss takes only what was not synced.

### Reuse (`Assets_proofs`)

| Theorem | Statement |
|---|---|
| `IndependenceCorrect` | `ReuseSpec => []EvidenceIsIndependent` |
| `AttemptsCountOnce` | of a task and a retry of it, and of two retries of one task, at most one is counted |
| `ReuseReliesOnShelf` | `ReuseSpec => [][ShelfNext]_shelfVars` |
| `AssetsCompose`, `AssetsTypeCorrect` | `AssetsSpec => PipelineSafety /\ ReuseSpec`, `[]AssetsTypeOK` |

for any packages, segments, works and number of bindings. The state is simple, and `ReuseInv`
with it: a retry is of an earlier task that failed (`RetriesFailed`), and what is bound was
approved (`BoundIsApproved`). The difficulty is in what is read from it. `CountedUpTo(p)` and
`Family` are recursive functions over the bindings, so a statement about their values is
an induction over the number of bindings.

1. `SetInduction`: a set of numbers that has 0 and the successor of each of its members is
   `Nat`. It is stated of a *set*, and follows from the minimal element that a well-founded
   order has (`WFMin`); the set `{n \in Nat : ...}` then takes the place of the predicate
   which the induction theorems of the library want for a parameter.
2. `CountExists`, `FamilyExists`: the recursive definitions have a solution, built one
   binding at a time. Hence `CountedStep` and `FamilyStep`: the `CHOOSE` behind each
   of them satisfies its own equation.
3. `CountedIsIndependent`: after `n` bindings, those counted differ pairwise in segment,
   work and family, and each verified one that is not counted depends on one that is. The
   step (`CountIndependentStep`) uses that dependence is symmetric.
4. `AttemptsCountOnce` adds what a family is: a retry has that of the task it repeats
   (`RetriesFailed` makes it an earlier one, so that the walk of `_retry_family_root` ends).

### Conversations and batches (`Services_proofs`)

| Theorem | Statement |
|---|---|
| `StartTypeCorrect` | `StartSpec => []StartTypeOK` |
| `RoundsCorrect`, `BatchCorrect` | `StartSpec => []RoundsFitTheirSegment`, `[]OperationIsOneBatch` |
| `ReadOnlyCorrect`, `RetryCorrect` | `StartSpec => ConcludedIsReadOnly`, `RetryIsAnswered` |
| `ServicesCompose`, `ServicesTypeCorrect` | `ServicesSpec => StartSpec /\ PromotionSpec /\ LoginSpec`, `[]ServicesTypeOK` |

for any rounds, requests, operation ids, payloads and numbers of tasks.

*Batches.* `BatchInv` says how the tasks of the timeline came to be: each is a task of some
request (`TasksAreCreated`) and stands there once (`TasksDiffer`); a request that created has
all of its tasks there (`CreatedIsWhole`); no two requests created for one owner
(`OneCreator`); one that was answered with a replay has its payload's tasks there
(`ReplayedAsCreated`). The last two need the look under the lock: `Start` creates only if
`Replay` found nothing, and then nobody has created for that owner (`NoCreator`); what
`Replay` finds was created whole, with the same payload (`HasCreator`). The look *outside*
the lock is not needed for it: it only answers earlier.

*Rounds.* `RoundInv` adds where each round stands: what it has read is a prefix of the
timeline, one for its messages and one for its tasks, and its segment is the one of these
prefixes (`RoundState`); a stored round is done (`StoredAreDone`). The heart is
`SegmentKept`: if at the commit there are as many rounds as at the first read, and the marker
(the latest task, the entries that end a segment) is the same for the whole timeline as
for what was read, then the segment that was read is the segment of the whole
timeline. It is not obvious because the two reads are of different lengths, and a task
between them moves a boundary in one of them. `LastPlace` (a finite set of places has a last) makes the comparison of latest
tasks one of their positions. The timeline only grows, so what was a prefix stays one
(`PrefixKept`), and entries before a stored round never change.

*Composition.* `MCServices` and `MCAssets` put specifications side by side that share no
variable. That such a conjunction of state machines is each of them is proved rather
than assumed, and carries every theorem about a part over to the whole.

---------------------------------------------------------------------------

## 7. Limits

**Only model-checked.** The liveness properties `QueuedIsServed`, `ExecutionEnds`,
`DependentsSettle`, `RunsSettle` and `StartupEnds`: a proof of them needs `ENABLED` and the
rules for fairness, which are out of the prover's reach. Every safety property that a
run checks is proved.

**Assumed.** One worker process, which its file lock provides; SQLite's atomicity;
an event is appended whenever its statement is reached, except where a disturbance
comes first.

**Left out of the modelled components.** `retry_of`, `sim_run_ref` and
its backfill, charter events, feedback, the heartbeat row, the interval at which
the resolver is due (it is due whenever the model likes, and always after a sleep),
the contents of inputs, tool calls and model calls inside a workflow, the checks of
an eval case; what Guide answers, and how messages are compressed for it; the text of a
candidate and of a package, and how the matcher scores them (`Score` is a constant);
collisions of digests; the contents of an evaluation (`evidence` is the set of codes with
a complete green one); the hashing of passwords and the moments at which attempts and
locks end. Reads that change nothing are not modelled.

**Not modelled.** See `components` in `PROJECT.json`: pure functions, single
statements and plug-in content are left out for good; the rest is section 8.

---------------------------------------------------------------------------

## 8. Plan

In the order of importance. Items 1 to 7 are done, and the logins.

1. `TaskStore`, `TaskApi`, `TaskWorker`, `TaskRuntime`, `TaskCenter`, with every safety
   property proved.
2. `EvalLedger`, `EvalQueue`, with the refinement proved for one slot.
3. `Promotion` with curation, proved.
4. `SkillLedger`, `SkillQuarantine`, `SkillPipeline`, with the implementation of
   `PackageShelf` proved; `SkillReuse` on top of the shelf, proved.
5. `Conversation`: rounds against a baseline, segments, the conclusion; proved.
6. `BatchStart`: deterministic ids, replay under one operation id, conflict of payloads,
   requests at once; proved.
7. `TaskPromise`: the life of a task as its owner sees it; that `TaskCenter` implements it
   is checked and proved.
8. The timeout of tools, whose threads go on.
9. Levels of files and samples; registry rescans while a task executes.
10. Pure algorithms over bounded inputs: the walk of the owner lineage, chunking.
