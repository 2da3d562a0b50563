------------------------------ MODULE EvalQueue ------------------------------
(***************************************************************************)
(* The asynchronous eval queue: the rows of eval_runs, the poller thread   *)
(* of governance/eval_worker.py, one thread per claimed run, the map       *)
(* _active that ties the two together, start-up recovery, and the CLI,     *)
(* which runs an evaluation in a process of its own without queueing.      *)
(* What a run does between its start and its verdict is TaskWorker's.      *)
(***************************************************************************)
EXTENDS FiniteSets, Integers

CONSTANTS
    Run,         \* ids of eval runs
    CliRun,      \* those of run_agent_evals in scripts/promote_agent_l1.py
    Poller,      \* the eval-worker thread
    None,        \* no run
    Quota,       \* config.DEFAULT_EVAL_QUOTA
    MaxDisturb   \* bound: crashes, refused writes, threads that do not start,
                 \* escaping exceptions and latchings of a behaviour

ASSUME QueueAssumption ==
    /\ CliRun \subseteq Run /\ Poller \notin Run /\ None \notin Run
    /\ IsFiniteSet(Run)
    /\ Quota \in Nat \ {0}          \* max(1, int(quota))
    /\ MaxDisturb \in Nat

VARIABLES
    row,        \* eval_runs.status, "absent" when there is no row
    before,     \* eval_runs.(started_at, id) as an order
    fault,      \* the promotion_attestation_fault latch
    active,     \* the keys of EvalRunner._active
    pc,         \* where the poller, and the thread of each run, stand
    swept,      \* the local list a _reap, or the recovery, goes through
    target,     \* the run of that list found running and about to be settled
    hand,       \* the run run_once has claimed and not handed over
    lossy,      \* history: the poller could not settle a run it had dropped
    disturbed

vars == << row, before, fault, active, pc, swept, target, hand, lossy, disturbed >>
rowVars == << row, before, fault >>
mapVars == << active, swept, target >>

Proc == Run \cup {Poller}
WorkerRun == Run \ CliRun
Settled == {"completed", "error"}
Running == {r \in Run : row[r] = "running"}

\* Thread.is_alive: false before start() and after the end
Alive(r) == pc[r] \notin {"none", "new", "dead"}

Disturb == disturbed < MaxDisturb /\ disturbed' = disturbed + 1

Goto(p, from, to) == pc[p] = from /\ pc' = [pc EXCEPT ![p] = to]

Write(r, s) == row' = [row EXCEPT ![r] = s]

Init ==
    /\ row = [r \in Run |-> "absent"] /\ before = [r \in Run |-> {}]
    /\ fault = FALSE /\ active = {}
    /\ pc = [p \in Proc |-> IF p = Poller THEN "down" ELSE "none"]
    /\ swept = [p \in Proc |-> {}] /\ target = [p \in Proc |-> None]
    /\ hand = None /\ lossy = FALSE /\ disturbed = 0

-----------------------------------------------------------------------------
(* The API, the latch and the CLI *)

\* enqueue_eval_run: POST /agents/{id}/eval-runs
Enqueue(r) ==
    /\ r \in WorkerRun /\ row[r] = "absent"
    /\ Write(r, "queued")
    /\ before' = [before EXCEPT ![r] = {q \in Run : row[q] # "absent"}]
    /\ UNCHANGED << fault, mapVars, pc, hand, lossy, disturbed >>

Latch ==
    /\ IF fault THEN fault' = FALSE /\ UNCHANGED disturbed
                ELSE fault' = TRUE /\ Disturb
    /\ UNCHANGED << row, before, mapVars, pc, hand, lossy >>

\* run_agent_evals inserts a running row and executes it at once
CliStart(r) ==
    /\ r \in CliRun /\ row[r] = "absent"
    /\ Goto(r, "none", "exec")
    /\ Write(r, "running")
    /\ before' = [before EXCEPT ![r] = {q \in Run : row[q] # "absent"}]
    /\ UNCHANGED << fault, mapVars, hand, lossy, disturbed >>

CliStop(r) ==
    /\ r \in CliRun /\ Goto(r, "exec", "dead") /\ Disturb
    /\ UNCHANGED << rowVars, mapVars, hand, lossy >>

-----------------------------------------------------------------------------
(* _reap, called by the poller and by every run thread on its way out *)

Reap(p) ==
    /\ Goto(p, "reap", "sweep")
    /\ swept' = [swept EXCEPT ![p] = {r \in active : ~Alive(r)}]
    /\ UNCHANGED << rowVars, active, target, hand, lossy, disturbed >>

Drop(p, r) == /\ active' = active \ {r}
              /\ swept' = [swept EXCEPT ![p] = @ \ {r}]

\* _settle_run, first statement: a settled run leaves the map
SweepCheck(p, r) ==
    /\ pc[p] = "sweep" /\ r \in swept[p]
    /\ IF row[r] = "running"
       THEN /\ Goto(p, "sweep", "settle") /\ target' = [target EXCEPT ![p] = r]
            /\ UNCHANGED << active, swept >>
       ELSE Drop(p, r) /\ UNCHANGED << pc, target >>
    /\ UNCHANGED << rowVars, hand, lossy, disturbed >>

\* _settle_run, second statement: finish_eval_run does not look at the status
SweepSettle(p) ==
    /\ Goto(p, "settle", "sweep")
    /\ Write(target[p], "error") /\ Drop(p, target[p])
    /\ target' = [target EXCEPT ![p] = None]
    /\ UNCHANGED << before, fault, hand, lossy, disturbed >>

SweepFailsForgetting(p, r) ==                                      \* mutant
    /\ Disturb
    /\ \/ pc[p] = "sweep" /\ r \in swept[p] /\ UNCHANGED pc
       \/ r = target[p] /\ Goto(p, "settle", "sweep")
    /\ Drop(p, r)
    /\ target' = [target EXCEPT ![p] = None]
    /\ UNCHANGED << rowVars, hand, lossy >>

\* the database refuses either statement: the run stays in the map
SweepFails(p, r) ==
    /\ Disturb
    /\ \/ pc[p] = "sweep" /\ r \in swept[p] /\ UNCHANGED pc
       \/ r = target[p] /\ Goto(p, "settle", "sweep")
    /\ swept' = [swept EXCEPT ![p] = @ \ {r}]
    /\ target' = [target EXCEPT ![p] = None]
    /\ UNCHANGED << rowVars, active, hand, lossy >>

\* the poller goes on with run_once, a run thread ends
SweepDone(p) ==
    /\ swept[p] = {} /\ Goto(p, "sweep", IF p = Poller THEN "admit" ELSE "dead")
    /\ UNCHANGED << rowVars, mapVars, hand, lossy, disturbed >>

-----------------------------------------------------------------------------
(* _terminalize_zombie: a run thread settles its own run when execute_eval *)
(* _run is over, the poller one whose thread did not start                 *)

Own(p) == IF p = Poller THEN hand ELSE p

Letgo(p) == IF p = Poller THEN hand' = None ELSE UNCHANGED hand

OwnCheckAlways(p) ==                                               \* mutant
    /\ Goto(p, "own", "ownset") /\ UNCHANGED hand
    /\ UNCHANGED << rowVars, mapVars, lossy, disturbed >>

OwnCheck(p) ==
    /\ pc[p] = "own"
    /\ IF row[Own(p)] = "running" THEN Goto(p, "own", "ownset") /\ UNCHANGED hand
                                  ELSE Goto(p, "own", "reap") /\ Letgo(p)
    /\ UNCHANGED << rowVars, mapVars, lossy, disturbed >>

OwnSettle(p) ==
    /\ Goto(p, "ownset", "reap") /\ Letgo(p)
    /\ Write(Own(p), "error")
    /\ UNCHANGED << before, fault, mapVars, lossy, disturbed >>

\* a refused statement: _reap retries, but only what is still in the map
OwnFails(p) ==
    /\ Disturb /\ (Goto(p, "own", "reap") \/ Goto(p, "ownset", "reap"))
    /\ Letgo(p) /\ lossy' = (lossy \/ p = Poller)
    /\ UNCHANGED << rowVars, mapVars >>

-----------------------------------------------------------------------------
(* run_once *)

AdmitAlways ==                                                     \* mutant
    /\ Goto(Poller, "admit", "claim")
    /\ UNCHANGED << rowVars, mapVars, hand, lossy, disturbed >>

\* a full map sends the poller to sleep and round again
Admit ==
    /\ Goto(Poller, "admit", IF Cardinality(active) < Quota THEN "claim" ELSE "reap")
    /\ UNCHANGED << rowVars, mapVars, hand, lossy, disturbed >>

Oldest(r) == row[r] = "queued" /\ \A q \in before[r] : row[q] # "queued"

ClaimOverQuota(r) ==                                               \* mutant
    /\ ~fault /\ Cardinality(Running) =< Quota /\ Oldest(r)
    /\ Goto(Poller, "claim", "claimed")
    /\ Write(r, "running") /\ hand' = r
    /\ UNCHANGED << before, fault, mapVars, lossy, disturbed >>

\* claim_next_queued_eval_run: latch, quota, FIFO and CAS in one transaction
Claim(r) ==
    /\ ~fault /\ Cardinality(Running) < Quota /\ Oldest(r)
    /\ Goto(Poller, "claim", "claimed")
    /\ Write(r, "running") /\ hand' = r
    /\ UNCHANGED << before, fault, mapVars, lossy, disturbed >>

ClaimNothing ==
    /\ \/ fault \/ Cardinality(Running) >= Quota
       \/ \A r \in Run : row[r] # "queued"
    /\ Goto(Poller, "claim", "reap")
    /\ UNCHANGED << rowVars, mapVars, hand, lossy, disturbed >>

\* _active[run_id] = thread, which is_alive() denies until it is started
Register ==
    /\ pc[Poller] = "claimed"
    /\ pc' = [pc EXCEPT ![Poller] = "registered", ![hand] = "new"]
    /\ active' = active \cup {hand}
    /\ UNCHANGED << rowVars, swept, target, hand, lossy, disturbed >>

StartThread ==
    /\ pc[Poller] = "registered"
    /\ pc' = [pc EXCEPT ![Poller] = "reap", ![hand] = "exec"]
    /\ hand' = None
    /\ UNCHANGED << rowVars, mapVars, lossy, disturbed >>

\* thread.start() raises: out of the map, then settle
StartFails ==
    /\ Goto(Poller, "registered", "own") /\ Disturb
    /\ active' = active \ {hand}
    /\ UNCHANGED << rowVars, swept, target, hand, lossy >>

-----------------------------------------------------------------------------
(* execute_eval_run; the CLI has no _execute_claimed around it *)

After(r) == IF r \in CliRun THEN "dead" ELSE "own"

\* every path through _run_eval_body ends in finish_eval_run, which writes
\* its verdict whatever the row says by then
Finish(r) ==
    /\ Goto(r, "exec", After(r))
    /\ \E verdict \in Settled : Write(r, verdict)
    /\ UNCHANGED << before, fault, mapVars, hand, lossy, disturbed >>

\* except an exception outside its protection, or a refused last write
Escape(r) ==
    /\ Goto(r, "exec", After(r)) /\ Disturb
    /\ UNCHANGED << rowVars, mapVars, hand, lossy >>

-----------------------------------------------------------------------------
(* The worker process stops anywhere, and settles what it finds on restart *)

Crash ==
    /\ Disturb /\ pc[Poller] # "down"
    /\ pc' = [p \in Proc |-> IF p = Poller THEN "down"
                             ELSE IF p \in CliRun \/ pc[p] = "none" THEN pc[p]
                             ELSE "dead"]
    /\ active' = {} /\ hand' = None
    /\ swept' = [p \in Proc |-> {}] /\ target' = [p \in Proc |-> None]
    /\ UNCHANGED << rowVars, lossy >>

StartForgetting ==                                                 \* mutant
    /\ Goto(Poller, "down", "recover")
    /\ UNCHANGED << rowVars, mapVars, hand, lossy, disturbed >>

\* recover_interrupted reads the running rows once ...
Start ==
    /\ Goto(Poller, "down", "recover")
    /\ swept' = [swept EXCEPT ![Poller] = Running]
    /\ UNCHANGED << rowVars, active, target, hand, lossy, disturbed >>

\* ... and settles every one of them without another look
RecoverRun(r) ==
    /\ pc[Poller] = "recover" /\ r \in swept[Poller]
    /\ Write(r, "error")
    /\ swept' = [swept EXCEPT ![Poller] = @ \ {r}]
    /\ UNCHANGED << before, fault, active, pc, target, hand, lossy, disturbed >>

RecoverDone ==
    /\ swept[Poller] = {} /\ Goto(Poller, "recover", "reap")
    /\ UNCHANGED << rowVars, mapVars, hand, lossy, disturbed >>

-----------------------------------------------------------------------------

\* the part of _reap and of _terminalize_zombie any process p executes
SettleStep(p) ==
    \/ Reap(p) \/ SweepSettle(p) \/ SweepDone(p) \/ OwnCheck(p) \/ OwnSettle(p)
    \/ \E r \in Run : SweepCheck(p, r)

PollerStep ==
    \/ SettleStep(Poller)
    \/ Admit \/ ClaimNothing \/ Register \/ StartThread
    \/ Start \/ RecoverDone
    \/ \E r \in Run : Claim(r) \/ RecoverRun(r)

ThreadStep(r) == Finish(r) \/ SettleStep(r)

Disturbance ==
    \/ StartFails \/ Crash
    \/ \E p \in Proc : OwnFails(p) \/ \E r \in Run : SweepFails(p, r)
    \/ \E r \in Run : Escape(r) \/ CliStop(r)

Next ==
    \/ PollerStep \/ Disturbance \/ Latch
    \/ \E r \in Run : Enqueue(r) \/ CliStart(r) \/ ThreadStep(r)

Spec == Init /\ [][Next]_vars

\* the poller loops forever and started threads run; nobody has to enqueue
FairSpec == Spec /\ WF_vars(PollerStep)
                 /\ \A r \in WorkerRun : WF_vars(ThreadStep(r))

-----------------------------------------------------------------------------
(* Properties *)

PCs == {"none", "new", "exec", "own", "ownset", "reap", "sweep", "settle",
        "dead", "down", "recover", "admit", "claim", "claimed", "registered"}

\* Every row, thread and local variable stays in its range.
TypeOK ==
    /\ row \in [Run -> {"absent", "queued", "running"} \cup Settled]
    /\ before \in [Run -> SUBSET Run]
    /\ fault \in BOOLEAN /\ lossy \in BOOLEAN
    /\ active \in SUBSET WorkerRun
    /\ pc \in [Proc -> PCs]
    /\ swept \in [Proc -> SUBSET Run]
    /\ target \in [Proc -> Run \cup {None}]
    /\ hand \in WorkerRun \cup {None}
    /\ disturbed \in 0 .. MaxDisturb

\* The quota holds of the rows claimed from the queue, whatever threads die,
\* writes fail, processes crash or CLI runs come in between.
QuotaHolds == Cardinality(Running \cap WorkerRun) =< Quota

\* No forgotten zombie: while the worker is up, every claimed running row is
\* in the poller's hand or in _active, where a later _reap finds it, except
\* when the poller dropped it and could not settle it.
ZombieIsTracked ==
    pc[Poller] \notin {"down", "recover"} /\ ~lossy =>
        Running \cap WorkerRun \subseteq active \cup {hand}

\* The header of eval_worker.py: the quota also bounds the threads that
\* execute a run.
ThreadsWithinQuota == Cardinality({r \in WorkerRun : pc[r] = "exec"}) =< Quota

\* _settle_run says it never overwrites a settled row, for its check and its
\* write have no rival: the write, when it comes, changes no verdict.
SettleKeepsVerdict ==
    [][\A p \in Proc : pc[p] \in {"settle", "ownset"} /\ pc'[p] # pc[p] =>
          \A r \in Run : row[r] \in Settled => row'[r] = row[r]]_vars

\* A queued run is settled in the end, as long as the latch stays clear:
\* no crash, refused write or dead thread takes its slot away for good.
RunsSettle ==
    \A r \in Run : row[r] = "queued" ~> (row[r] \in Settled \/ fault \/ lossy)

\* With one slot, the threads, the map and the recovery implement the ledger.
Ledger == INSTANCE EvalLedger WITH free <- Quota - Cardinality(Running)
LedgerSpec == Ledger!LedgerSpec

=============================================================================
