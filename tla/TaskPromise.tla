----------------------------- MODULE TaskPromise -----------------------------
(***************************************************************************)
(* What the Task Center promises of a task, with no process, scan, request  *)
(* or commit in sight: it waits, is taken up once, acts at most once and on *)
(* released work only, and is released by its reviewer, or by itself if its *)
(* agent needs none.  Whoever works on it may let go of it at any time; it  *)
(* is never taken up again, and its end is final.                           *)
(***************************************************************************)
CONSTANTS
    Work,         \* the tasks
    Reviewable,   \* those a human decides
    Automatic,    \* those whose agent needs no review
    Peers         \* Peers[t]: the tasks whose results t may be fed with

VARIABLES
    life,     \* where a task is in its life
    needs,    \* the tasks it declared to need
    busy,     \* the tasks somebody is working on
    acted     \* the tasks whose workflow was entered

promiseVars == << life, needs, busy, acted >>

Ends == {"released", "unsigned", "failed", "cancelled"}

\* The rows of an earlier release wait or have ended, and may have been completed
\* without a signature.
PromiseInit ==
    /\ life \in [Work -> Ends \cup {"none", "waiting"}]
    /\ needs \in [Work -> SUBSET Work]
    /\ busy = {} /\ acted = {}

Become(t, from, to) == life[t] \in from /\ life' = [life EXCEPT ![t] = to]

Submit(t) ==
    /\ Become(t, {"none"}, "waiting")
    /\ \E N \in SUBSET {u \in Peers[t] : life[u] # "none"} :
          needs' = [needs EXCEPT ![t] = N]
    /\ UNCHANGED << busy, acted >>

TakeUp(t) ==
    /\ Become(t, {"waiting"}, "working")
    /\ t \notin busy /\ busy' = busy \cup {t}
    /\ UNCHANGED << needs, acted >>

\* The row may have been cancelled underneath, or failed by a recovery.
Act(t) ==
    /\ t \in busy \ acted /\ acted' = acted \cup {t}
    /\ \A u \in needs[t] : u \in Peers[t] /\ life[u] = "released"
    /\ UNCHANGED << life, needs, busy >>

Conclude(t) ==
    /\ t \in busy \cap acted
    /\ Become(t, {"working"}, IF t \in Automatic THEN "released" ELSE "review")
    /\ UNCHANGED << needs, busy, acted >>

Judge(t) ==
    /\ t \in Reviewable
    /\ \E verdict \in {"released", "failed"} : Become(t, {"review"}, verdict)
    /\ UNCHANGED << needs, busy, acted >>

\* A failure, a cancel or a recovery, by the one who works on it or by another.
GiveUp(t) ==
    /\ \E end \in {"failed", "cancelled"} : Become(t, {"waiting", "working"}, end)
    /\ busy' \in {busy, busy \ {t}}
    /\ UNCHANGED << needs, acted >>

\* A thread is done, or the process of several stops.
LetGo ==
    /\ busy' \in SUBSET busy
    /\ UNCHANGED << life, needs, acted >>

PromiseNext ==
    \/ \E t \in Work : \/ Submit(t) \/ TakeUp(t) \/ Act(t)
                       \/ Conclude(t) \/ Judge(t) \/ GiveUp(t)
    \/ LetGo

PromiseSpec == PromiseInit /\ [][PromiseNext]_promiseVars
=============================================================================
