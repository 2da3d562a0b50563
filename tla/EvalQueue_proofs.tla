--------------------------- MODULE EvalQueue_proofs ---------------------------
(***************************************************************************)
(* Theorems about EvalQueue for every set of runs, every quota and every   *)
(* number of disturbances; and, for one slot and no CLI, that the queue     *)
(* implements the ledger: threads, the map, the sweeps and the recovery     *)
(* settle only runs that are running.  With two slots it does not; see the  *)
(* run Evals_overwrite.                                                     *)
(***************************************************************************)
EXTENDS EvalQueue, FiniteSetTheorems, TLAPS

\* only POST /agents/{id}/eval-runs queues
QueuedIsWorker == \A r \in Run : row[r] = "queued" => r \in WorkerRun

\* the poller has something to register and to start
HandIsHeld == pc[Poller] \in {"claimed", "registered"} => hand \in WorkerRun

TypeInv == TypeOK /\ QueuedIsWorker /\ HandIsHeld

LEMMA InitType == Init => TypeInv
<1> SUFFICES ASSUME Init PROVE TypeInv
  OBVIOUS
<1> USE QueueAssumption DEF Init
<1>1. TypeOK
  <2>1. row \in [Run -> {"absent", "queued", "running"} \cup Settled]
        /\ before \in [Run -> SUBSET Run]
    OBVIOUS
  <2>2. pc \in [Proc -> PCs]
    BY DEF PCs
  <2>3. swept \in [Proc -> SUBSET Run] /\ target \in [Proc -> Run \cup {None}]
    OBVIOUS
  <2>4. disturbed \in 0 .. MaxDisturb
    OBVIOUS
  <2> QED
    BY <2>1, <2>2, <2>3, <2>4 DEF TypeOK
<1>2. QueuedIsWorker
  BY DEF QueuedIsWorker
<1>3. HandIsHeld
  BY DEF HandIsHeld, Proc
<1> QED
  BY <1>1, <1>2, <1>3 DEF TypeInv

LEMMA NextType == TypeInv /\ [Next]_vars => TypeInv'
<1> SUFFICES ASSUME TypeInv, [Next]_vars PROVE TypeInv'
  OBVIOUS
<1> USE QueueAssumption DEF TypeInv, TypeOK, QueuedIsWorker, HandIsHeld, Proc,
        PCs, Settled, WorkerRun, rowVars, mapVars, Goto, Write
<1>1. ASSUME NEW r \in Run, Enqueue(r) PROVE TypeInv'
  <2>1. TypeOK'
    BY <1>1 DEF Enqueue
  <2>2. QueuedIsWorker'
    BY <1>1 DEF Enqueue
  <2>3. HandIsHeld'
    BY <1>1 DEF Enqueue
  <2> QED
    BY <2>1, <2>2, <2>3
<1>2. ASSUME NEW r \in Run, CliStart(r) PROVE TypeInv'
  BY <1>2 DEF CliStart
<1>3. ASSUME NEW r \in Run, CliStop(r) PROVE TypeInv'
  BY <1>3 DEF CliStop, Disturb
<1>4. CASE Latch
  <2>1. fault' \in BOOLEAN
    BY <1>4 DEF Latch
  <2>2. disturbed' \in 0 .. MaxDisturb
    BY <1>4 DEF Latch, Disturb
  <2>3. UNCHANGED << row, before, active, swept, target, pc, hand, lossy >>
    BY <1>4 DEF Latch
  <2> QED
    BY <2>1, <2>2, <2>3
<1>5. ASSUME NEW p \in Proc, Reap(p) PROVE TypeInv'
  BY <1>5 DEF Reap
<1>6. ASSUME NEW p \in Proc, NEW r \in Run, SweepCheck(p, r) PROVE TypeInv'
  BY <1>6 DEF SweepCheck, Drop
<1>7. ASSUME NEW p \in Proc, SweepSettle(p) PROVE TypeInv'
  BY <1>7 DEF SweepSettle, Drop
<1>8. ASSUME NEW p \in Proc, NEW r \in Run, SweepFails(p, r) PROVE TypeInv'
  BY <1>8 DEF SweepFails, Disturb
<1>9. ASSUME NEW p \in Proc, SweepDone(p) PROVE TypeInv'
  BY <1>9 DEF SweepDone
<1>10. ASSUME NEW p \in Proc, OwnCheck(p) PROVE TypeInv'
  BY <1>10 DEF OwnCheck, Own, Letgo
<1>11. ASSUME NEW p \in Proc, OwnSettle(p) PROVE TypeInv'
  BY <1>11 DEF OwnSettle, Own, Letgo
<1>12. ASSUME NEW p \in Proc, OwnFails(p) PROVE TypeInv'
  BY <1>12 DEF OwnFails, Letgo, Disturb
<1>13. CASE Admit
  BY <1>13 DEF Admit
<1>14. ASSUME NEW r \in Run, Claim(r) PROVE TypeInv'
  BY <1>14 DEF Claim, Oldest
<1>15. CASE ClaimNothing
  BY <1>15 DEF ClaimNothing
<1>16. CASE Register
  BY <1>16 DEF Register
<1>17. CASE StartThread
  BY <1>17 DEF StartThread
<1>18. CASE StartFails
  BY <1>18 DEF StartFails, Disturb
<1>19. ASSUME NEW r \in Run, Finish(r) PROVE TypeInv'
  BY <1>19 DEF Finish, After
<1>20. ASSUME NEW r \in Run, Escape(r) PROVE TypeInv'
  BY <1>20 DEF Escape, After, Disturb
<1>21. CASE Crash
  BY <1>21 DEF Crash, Disturb
<1>22. CASE Start
  BY <1>22 DEF Start, Running
<1>23. ASSUME NEW r \in Run, RecoverRun(r) PROVE TypeInv'
  BY <1>23 DEF RecoverRun
<1>24. CASE RecoverDone
  BY <1>24 DEF RecoverDone
<1>25. CASE UNCHANGED vars
  BY <1>25 DEF vars
<1> QED
  BY <1>1, <1>2, <1>3, <1>4, <1>5, <1>6, <1>7, <1>8, <1>9, <1>10, <1>11, <1>12,
     <1>13, <1>14, <1>15, <1>16, <1>17, <1>18, <1>19, <1>20, <1>21, <1>22,
     <1>23, <1>24, <1>25
     DEF Next, PollerStep, SettleStep, ThreadStep, Disturbance

\* Every row, thread and local variable stays in its range, in every behaviour
\* of the queue.
THEOREM TypeCorrect == Spec => []TypeOK
<1>1. TypeInv => TypeOK
  BY DEF TypeInv
<1> QED
  BY <1>1, InitType, NextType, PTL DEF Spec

-----------------------------------------------------------------------------
(* The quota.  Two kinds of step make a row running: a claim, which counts *)
(* the running rows in its own transaction, and the CLI, which the quota   *)
(* does not count.  Every other step writes a verdict or no row at all.    *)

Claimed == Running \cap WorkerRun

LEMMA ClaimedFinite == IsFiniteSet(Running) /\ IsFiniteSet(Claimed)
<1>1. Running \in SUBSET Run /\ Claimed \in SUBSET Run
  BY DEF Claimed, Running
<1> QED
  BY <1>1, FS_Subset, QueueAssumption

\* the verdict a step writes frees a slot
LEMMA WriteFrees ==
  ASSUME TypeOK, NEW r, NEW s, s # "running", Write(r, s)
  PROVE  Claimed' \subseteq Claimed
BY DEF Claimed, Running, Write, TypeOK

\* the steps that write no row
RowUnchanged ==
    \/ Latch \/ Admit \/ ClaimNothing \/ Register \/ StartThread \/ StartFails
    \/ Crash \/ Start \/ RecoverDone
    \/ \E p \in Proc : \/ Reap(p) \/ SweepDone(p) \/ OwnCheck(p) \/ OwnFails(p)
                       \/ \E r \in Run : SweepCheck(p, r) \/ SweepFails(p, r)
    \/ \E r \in Run : CliStop(r) \/ Escape(r)

LEMMA RowUnchangedKeeps == RowUnchanged => UNCHANGED << row, before >>
<1> SUFFICES ASSUME RowUnchanged PROVE UNCHANGED << row, before >>
  OBVIOUS
<1> USE DEF rowVars
<1>1. ASSUME NEW p \in Proc, NEW r \in Run, SweepCheck(p, r) \/ SweepFails(p,
             r)
      PROVE  UNCHANGED << row, before >>
  BY <1>1 DEF SweepCheck, SweepFails
<1>2. ASSUME NEW p \in Proc, Reap(p) \/ SweepDone(p) \/ OwnCheck(p) \/
             OwnFails(p)
      PROVE  UNCHANGED << row, before >>
  BY <1>2 DEF Reap, SweepDone, OwnCheck, OwnFails
<1>3. ASSUME NEW r \in Run, CliStop(r) \/ Escape(r) PROVE UNCHANGED << row,
             before >>
  BY <1>3 DEF CliStop, Escape
<1>4. CASE Latch \/ Admit \/ ClaimNothing \/ Register \/ StartThread
  BY <1>4 DEF Latch, Admit, ClaimNothing, Register, StartThread
<1>5. CASE StartFails \/ Crash \/ Start \/ RecoverDone
  BY <1>5 DEF StartFails, Crash, Start, RecoverDone
<1> QED
  BY <1>1, <1>2, <1>3, <1>4, <1>5 DEF RowUnchanged

LEMMA NextQuota == TypeInv /\ QuotaHolds /\ [Next]_vars => QuotaHolds'
<1> SUFFICES ASSUME TypeInv, QuotaHolds, [Next]_vars PROVE QuotaHolds'
  OBVIOUS
<1> USE DEF TypeInv
<1>0. Cardinality(Claimed) =< Quota /\ (Cardinality(Claimed') =< Quota => QuotaHolds')
  BY DEF QuotaHolds, Claimed, Running, WorkerRun
<1>1. ASSUME Claimed' \subseteq Claimed PROVE QuotaHolds'
  <2>1. Cardinality(Claimed') =< Cardinality(Claimed)
    BY <1>1, ClaimedFinite, FS_Subset
  <2>2. Cardinality(Claimed') \in Nat /\ Cardinality(Claimed) \in Nat
    BY <1>1, ClaimedFinite, FS_Subset, FS_CardinalityType
  <2> QED
    BY <1>0, <2>1, <2>2, QueueAssumption
<1>2. ASSUME NEW r \in Run, Claim(r) PROVE QuotaHolds'
  <2>1. Cardinality(Running) < Quota /\ row' = [row EXCEPT ![r] = "running"]
    BY <1>2 DEF Claim, Write
  <2>2. Claimed' \in SUBSET (Running \cup {r})
    BY <2>1 DEF Claimed, Running, TypeOK
  <2>3. /\ IsFiniteSet(Running \cup {r})
        /\ Cardinality(Running) \in Nat
        /\ Cardinality(Running \cup {r}) =< Cardinality(Running) + 1
    <3>1. Cardinality(Running) \in Nat
      BY ClaimedFinite, FS_CardinalityType
    <3>2. /\ IsFiniteSet(Running \cup {r})
          /\ Cardinality(Running \cup {r}) = IF r \in Running
               THEN Cardinality(Running) ELSE Cardinality(Running) + 1
      BY ClaimedFinite, FS_AddElement, Zenon
    <3> QED
      BY <3>1, <3>2
  <2>4. /\ Cardinality(Claimed') =< Cardinality(Running \cup {r})
        /\ Cardinality(Claimed') \in Nat /\ Cardinality(Running \cup {r}) \in Nat
    BY <2>2, <2>3, FS_Subset, FS_CardinalityType
  <2> QED
    BY <1>0, <2>1, <2>3, <2>4, QueueAssumption
<1>3. ASSUME NEW r \in Run, Enqueue(r) PROVE QuotaHolds'
  BY <1>1, <1>3, WriteFrees DEF Enqueue
<1>4. ASSUME NEW r \in Run, CliStart(r) PROVE QuotaHolds'
  <2>1. r \notin WorkerRun /\ row' = [row EXCEPT ![r] = "running"]
    BY <1>4 DEF CliStart, WorkerRun, Write
  <2>2. Claimed' \subseteq Claimed
    BY <2>1 DEF Claimed, Running, TypeOK
  <2> QED
    BY <1>1, <2>2
<1>5. ASSUME NEW p \in Proc, SweepSettle(p) \/ OwnSettle(p) PROVE QuotaHolds'
  BY <1>1, <1>5, WriteFrees DEF SweepSettle, OwnSettle
<1>6. ASSUME NEW r \in Run, Finish(r) \/ RecoverRun(r) PROVE QuotaHolds'
  BY <1>1, <1>6, WriteFrees DEF Finish, RecoverRun, Settled
<1>7. CASE RowUnchanged \/ UNCHANGED vars
  <2>1. UNCHANGED row
    BY <1>7, RowUnchangedKeeps DEF vars
  <2> QED
    BY <1>1, <2>1 DEF Claimed, Running
<1> QED
  BY <1>2, <1>3, <1>4, <1>5, <1>6, <1>7
     DEF Next, PollerStep, SettleStep, ThreadStep, Disturbance, RowUnchanged, Proc

\* The quota of rows claimed from the queue is never exceeded, for any number
\* of runs and any quota, across crashes and CLI runs.
THEOREM QuotaCorrect == Spec => []QuotaHolds
<1>1. Init => QuotaHolds
  <2> SUFFICES ASSUME Init PROVE QuotaHolds
    OBVIOUS
  <2>1. Running \cap WorkerRun = {}
    BY DEF Init, Running, WorkerRun
  <2> QED
    BY <2>1, FS_EmptySet, QueueAssumption DEF QuotaHolds
<1> QED
  BY <1>1, InitType, NextType, NextQuota, PTL DEF Spec

-----------------------------------------------------------------------------
(* Zombies.  ZombieIsTracked is not inductive: a run in the poller's hand  *)
(* is only safe there until it is registered, and the recovery must have   *)
(* listed every claimed run before it declares the worker up.              *)

InHand == IF pc[Poller] \in {"claimed", "own", "ownset"} THEN {hand} ELSE {}

\* a claimed running row is in the hand before Register and in the map after
Tracked == pc[Poller] \notin {"down", "recover"} /\ ~lossy =>
               Claimed \subseteq active \cup InHand

\* nothing is claimed while the recovery works off its list
Listed == pc[Poller] = "recover" => Claimed \subseteq swept[Poller]

ZombieInv == Tracked /\ Listed

LEMMA NextZombie == TypeInv /\ ZombieInv /\ [Next]_vars => ZombieInv'
<1> SUFFICES ASSUME TypeInv, ZombieInv, [Next]_vars PROVE ZombieInv'
  OBVIOUS
<1> USE QueueAssumption DEF TypeInv, TypeOK, HandIsHeld, ZombieInv, Tracked, Listed,
        InHand, Claimed, Running, Proc, WorkerRun, rowVars, mapVars, Goto, Write
<1>1. ASSUME NEW r \in Run, Enqueue(r) PROVE ZombieInv'
  BY <1>1 DEF Enqueue
<1>2. ASSUME NEW r \in Run, CliStart(r) PROVE ZombieInv'
  BY <1>2 DEF CliStart
<1>3. ASSUME NEW r \in Run, CliStop(r) PROVE ZombieInv'
  BY <1>3 DEF CliStop
<1>4. CASE Latch
  BY <1>4 DEF Latch
<1>5. ASSUME NEW p \in Proc, Reap(p) PROVE ZombieInv'
  BY <1>5 DEF Reap
<1>6. ASSUME NEW p \in Proc, NEW r \in Run, SweepCheck(p, r) PROVE ZombieInv'
  BY <1>6 DEF SweepCheck, Drop
<1>7. ASSUME NEW p \in Proc, SweepSettle(p) PROVE ZombieInv'
  BY <1>7 DEF SweepSettle, Drop
<1>8. ASSUME NEW p \in Proc, NEW r \in Run, SweepFails(p, r) PROVE ZombieInv'
  BY <1>8 DEF SweepFails
<1>9. ASSUME NEW p \in Proc, SweepDone(p) PROVE ZombieInv'
  BY <1>9 DEF SweepDone
<1>10. ASSUME NEW p \in Proc, OwnCheck(p) PROVE ZombieInv'
  BY <1>10 DEF OwnCheck, Own, Letgo
<1>11. ASSUME NEW p \in Proc, OwnSettle(p) PROVE ZombieInv'
  BY <1>11 DEF OwnSettle, Own, Letgo
<1>12. ASSUME NEW p \in Proc, OwnFails(p) PROVE ZombieInv'
  BY <1>12 DEF OwnFails, Letgo
<1>13. CASE Admit
  BY <1>13 DEF Admit
<1>14. ASSUME NEW r \in Run, Claim(r) PROVE ZombieInv'
  BY <1>14 DEF Claim
<1>15. CASE ClaimNothing
  BY <1>15 DEF ClaimNothing
<1>16. CASE Register
  BY <1>16 DEF Register
<1>17. CASE StartThread
  BY <1>17 DEF StartThread
<1>18. CASE StartFails
  BY <1>18 DEF StartFails
<1>19. ASSUME NEW r \in Run, Finish(r) PROVE ZombieInv'
  BY <1>19 DEF Finish, Settled
<1>20. ASSUME NEW r \in Run, Escape(r) PROVE ZombieInv'
  BY <1>20 DEF Escape
<1>21. CASE Crash
  BY <1>21 DEF Crash
<1>22. CASE Start
  BY <1>22 DEF Start
<1>23. ASSUME NEW r \in Run, RecoverRun(r) PROVE ZombieInv'
  BY <1>23 DEF RecoverRun
<1>24. CASE RecoverDone
  BY <1>24 DEF RecoverDone
<1>25. CASE UNCHANGED vars
  BY <1>25 DEF vars
<1> QED
  BY <1>1, <1>2, <1>3, <1>4, <1>5, <1>6, <1>7, <1>8, <1>9, <1>10, <1>11, <1>12,
     <1>13, <1>14, <1>15, <1>16, <1>17, <1>18, <1>19, <1>20, <1>21, <1>22,
     <1>23, <1>24, <1>25
     DEF Next, PollerStep, SettleStep, ThreadStep, Disturbance

\* While the worker is up, no claimed running row is forgotten, whatever
\* threads die and whatever writes fail, unless the poller itself gave it up.
THEOREM ZombieCorrect == Spec => []ZombieIsTracked
<1>1. Init => ZombieInv
  BY QueueAssumption DEF Init, ZombieInv, Tracked, Listed, Proc
<1>2. ZombieInv => ZombieIsTracked
  BY DEF ZombieInv, Tracked, InHand, Claimed, ZombieIsTracked
<1> QED
  BY <1>1, <1>2, InitType, NextType, NextZombie, PTL DEF Spec

-----------------------------------------------------------------------------
(* The queue implements the ledger *)

OneSlot == Quota = 1 /\ CliRun = {}

\* at most one thread lives, and while it does the map holds it alone
OneThread ==
    /\ \A r \in Run : Alive(r) => active = {r}
    /\ pc[Poller] \in {"down", "recover", "claim", "claimed", "own", "ownset"} =>
           active = {}

\* how far a run can be, given its row and its place in the map
ThreadPhase ==
    \A r \in Run :
        /\ row[r] \in {"absent", "queued"} => pc[r] = "none"
        /\ r \in active => pc[r] # "none"
        /\ r \in active /\ pc[r] = "new" => pc[Poller] = "registered"
        /\ pc[r] \in {"exec", "ownset"} => row[r] = "running"
        /\ swept[r] = {} /\ pc[r] # "settle"

\* what the poller knows of the run in its hand
HandPhase ==
    /\ pc[Poller] = "claimed" => pc[hand] = "none" /\ row[hand] = "running"
    /\ pc[Poller] \in {"registered", "own", "ownset"} => pc[hand] = "new"
    /\ pc[Poller] = "registered" => active = {hand}
    /\ pc[Poller] \in {"registered", "ownset"} => row[hand] = "running"
    /\ pc[Poller] \in {"own", "ownset"} => hand \in WorkerRun

\* a sweep of the poller finds dead threads only, the recovery running rows
SweepPhase ==
    /\ pc[Poller] \in {"sweep", "settle"} => \A r \in swept[Poller] : pc[r] = "dead"
    /\ pc[Poller] = "settle" => /\ target[Poller] \in swept[Poller]
                                /\ row[target[Poller]] = "running"
    /\ pc[Poller] = "recover" => \A r \in swept[Poller] : row[r] = "running"

OneSlotInv == OneThread /\ ThreadPhase /\ HandPhase /\ SweepPhase

LEMMA InitOneSlot == Init => OneSlotInv
BY QueueAssumption
   DEF Init, OneSlotInv, OneThread, ThreadPhase, HandPhase, SweepPhase, Alive, Proc

\* a map that is not full is empty
LEMMA EmptyMap ==
  ASSUME TypeOK, OneSlot, Cardinality(active) < Quota
  PROVE  active = {}
<1>1. IsFiniteSet(active)
  BY FS_Subset, QueueAssumption DEF TypeOK, WorkerRun
<1> QED
  BY <1>1, FS_EmptySet, FS_CardinalityType DEF OneSlot

LEMMA NextOneSlot == OneSlot /\ TypeInv /\ OneSlotInv /\ [Next]_vars => OneSlotInv'
<1> SUFFICES ASSUME OneSlot, TypeInv, OneSlotInv, [Next]_vars PROVE OneSlotInv'
  OBVIOUS
<1> USE QueueAssumption DEF OneSlot, TypeInv, TypeOK, QueuedIsWorker, HandIsHeld,
        OneSlotInv, OneThread, ThreadPhase, HandPhase, SweepPhase, Alive, Proc,
        WorkerRun, rowVars, mapVars, Goto, Write
<1>1. ASSUME NEW r \in Run, Enqueue(r) PROVE OneSlotInv'
  BY <1>1 DEF Enqueue
<1>2. ASSUME NEW r \in Run, CliStart(r) \/ CliStop(r) PROVE OneSlotInv'
  BY <1>2 DEF CliStart, CliStop
<1>3. CASE Latch
  BY <1>3 DEF Latch
<1>4. ASSUME NEW p \in Proc, Reap(p) PROVE OneSlotInv'
  BY <1>4 DEF Reap
<1>5. ASSUME NEW p \in Proc, NEW r \in Run, SweepCheck(p, r) PROVE OneSlotInv'
  BY <1>5 DEF SweepCheck, Drop
<1>6. ASSUME NEW p \in Proc, SweepSettle(p) PROVE OneSlotInv'
  BY <1>6 DEF SweepSettle, Drop
<1>7. ASSUME NEW p \in Proc, NEW r \in Run, SweepFails(p, r) PROVE OneSlotInv'
  BY <1>7 DEF SweepFails
<1>8. ASSUME NEW p \in Proc, SweepDone(p) PROVE OneSlotInv'
  BY <1>8 DEF SweepDone
<1>9. ASSUME NEW p \in Proc, OwnCheck(p) PROVE OneSlotInv'
  BY <1>9 DEF OwnCheck, Own, Letgo
<1>10. ASSUME NEW p \in Proc, OwnSettle(p) PROVE OneSlotInv'
  BY <1>10 DEF OwnSettle, Own, Letgo
<1>11. ASSUME NEW p \in Proc, OwnFails(p) PROVE OneSlotInv'
  BY <1>11 DEF OwnFails, Letgo
<1>12. CASE Admit
  BY <1>12, EmptyMap DEF Admit
<1>13. ASSUME NEW r \in Run, Claim(r) PROVE OneSlotInv'
  BY <1>13 DEF Claim, Oldest
<1>14. CASE ClaimNothing
  BY <1>14 DEF ClaimNothing
<1>15. CASE Register
  BY <1>15 DEF Register
<1>16. CASE StartThread
  BY <1>16 DEF StartThread
<1>17. CASE StartFails
  BY <1>17 DEF StartFails
<1>18. ASSUME NEW r \in Run, Finish(r) PROVE OneSlotInv'
  BY <1>18 DEF Finish, After, Settled
<1>19. ASSUME NEW r \in Run, Escape(r) PROVE OneSlotInv'
  BY <1>19 DEF Escape, After
<1>20. CASE Crash
  BY <1>20 DEF Crash
<1>21. CASE Start
  BY <1>21 DEF Start, Running
<1>22. ASSUME NEW r \in Run, RecoverRun(r) PROVE OneSlotInv'
  BY <1>22 DEF RecoverRun
<1>23. CASE RecoverDone
  BY <1>23 DEF RecoverDone
<1>24. CASE UNCHANGED vars
  BY <1>24 DEF vars
<1> QED
  BY <1>1, <1>2, <1>3, <1>4, <1>5, <1>6, <1>7, <1>8, <1>9, <1>10, <1>11, <1>12,
     <1>13, <1>14, <1>15, <1>16, <1>17, <1>18, <1>19, <1>20, <1>21, <1>22,
     <1>23, <1>24
     DEF Next, PollerStep, SettleStep, ThreadStep, Disturbance

-----------------------------------------------------------------------------


\* a row that is written frees, takes or leaves alone one slot
LEMMA Slots ==
  ASSUME TypeOK, NEW r \in Run, NEW s, Write(r, s)
  PROVE  /\ row[r] # "running" /\ s # "running" => Running' = Running
         /\ row[r] # "running" /\ s = "running" =>
                Cardinality(Running') = Cardinality(Running) + 1
         /\ row[r] = "running" /\ s # "running" =>
                Cardinality(Running') = Cardinality(Running) - 1
         /\ Cardinality(Running) \in Nat
<1>1. IsFiniteSet(Running) /\ Cardinality(Running) \in Nat
  BY ClaimedFinite, FS_CardinalityType
<1>2. CASE row[r] # "running" /\ s # "running"
  <2>1. Running' = Running
    BY <1>2 DEF Write, Running, TypeOK
  <2> QED
    BY <1>1, <1>2, <2>1
<1>3. CASE row[r] # "running" /\ s = "running"
  <2>1. Running' = Running \cup {r} /\ r \notin Running
    BY <1>3 DEF Write, Running, TypeOK
  <2>2. Cardinality(Running \cup {r}) = Cardinality(Running) + 1
    BY <1>1, <2>1, FS_AddElement
  <2> QED
    BY <1>1, <1>3, <2>1, <2>2
<1>4. CASE row[r] = "running" /\ s # "running"
  <2>1. Running' = Running \ {r} /\ r \in Running
    BY <1>4 DEF Write, Running, TypeOK
  <2>2. Cardinality(Running \ {r}) = Cardinality(Running) - 1
    BY <1>1, <2>1, FS_RemoveElement
  <2> QED
    BY <1>1, <1>4, <2>1, <2>2
<1> QED
  BY <1>1, <1>2, <1>3, <1>4

\* giving a running run its verdict is the ledger's Settle
LEMMA VerdictSettles ==
  ASSUME TypeOK, NEW r \in Run, row[r] = "running",
         NEW verdict \in Settled, Write(r, verdict), UNCHANGED before
  PROVE  Ledger!Settle(r)
<1>1. /\ Cardinality(Running') = Cardinality(Running) - 1
      /\ Cardinality(Running) \in Nat
  BY Slots DEF Settled
<1>2. Quota - Cardinality(Running') = Quota - Cardinality(Running) + 1
  BY <1>1, QueueAssumption
<1> QED
  BY <1>2 DEF Ledger!Settle, Write, Settled

LEMMA StepMaps ==
  OneSlot /\ TypeInv /\ OneSlotInv /\ [Next]_vars => [Ledger!LedgerNext]_(Ledger!ledgerVars)
<1> SUFFICES ASSUME OneSlot, TypeInv, OneSlotInv, [Next]_vars
             PROVE  Ledger!LedgerNext \/ UNCHANGED Ledger!ledgerVars
  OBVIOUS
<1> USE QueueAssumption DEF TypeInv
<1>1. ASSUME NEW r \in Run, Enqueue(r) PROVE Ledger!Arrive(r)
  <2>1. row[r] = "absent" /\ Write(r, "queued")
    BY <1>1 DEF Enqueue
  <2>2. Running' = Running
    BY <2>1, Slots
  <2> QED
    BY <1>1, <2>2 DEF Enqueue, Write, Ledger!Arrive
<1>2. ASSUME NEW r \in Run, Claim(r) PROVE Ledger!Grant(r)
  <2>1. /\ row[r] = "queued" /\ (\A q \in before[r] : row[q] # "queued")
        /\ Cardinality(Running) < Quota /\ Write(r, "running") /\ UNCHANGED before
    BY <1>2 DEF Claim, Oldest
  <2>2. /\ Cardinality(Running') = Cardinality(Running) + 1
        /\ Cardinality(Running) \in Nat
    BY <2>1, Slots
  <2>3. /\ Quota - Cardinality(Running) > 0
        /\ Quota - Cardinality(Running') = Quota - Cardinality(Running) - 1
    BY <2>1, <2>2
  <2> QED
    BY <2>1, <2>3 DEF Write, Ledger!Grant
<1>3. ASSUME NEW r \in Run, Finish(r) PROVE Ledger!Settle(r)
  <2>1. row[r] = "running"
    BY <1>3 DEF Finish, Goto, OneSlotInv, ThreadPhase
  <2> QED
    BY <1>3, <2>1, VerdictSettles DEF Finish
<1>4. ASSUME NEW r \in Run, RecoverRun(r) PROVE Ledger!Settle(r)
  <2>1. row[r] = "running"
    BY <1>4 DEF RecoverRun, OneSlotInv, SweepPhase
  <2> QED
    BY <1>4, <2>1, VerdictSettles DEF RecoverRun, Settled
<1>5. ASSUME NEW p \in Proc, SweepSettle(p) PROVE \E r \in Run :
             Ledger!Settle(r)
  <2>1. p = Poller
    BY <1>5 DEF SweepSettle, Goto, OneSlotInv, ThreadPhase, Proc
  <2>2. target[Poller] \in Run /\ row[target[Poller]] = "running"
    BY <1>5, <2>1 DEF SweepSettle, Goto, OneSlotInv, SweepPhase, TypeOK, Proc
  <2> QED
    BY <1>5, <2>1, <2>2, VerdictSettles DEF SweepSettle, Settled
<1>6. ASSUME NEW p \in Proc, OwnSettle(p) PROVE \E r \in Run : Ledger!Settle(r)
  <2>1. Own(p) \in Run /\ row[Own(p)] = "running"
    BY <1>6 DEF OwnSettle, Own, Goto, OneSlotInv, ThreadPhase, HandPhase, Proc,
                WorkerRun
  <2> QED
    BY <1>6, <2>1, VerdictSettles DEF OwnSettle, Settled
<1>7. ASSUME NEW r \in Run PROVE ~CliStart(r)
  BY DEF CliStart, OneSlot
<1>8. CASE RowUnchanged \/ UNCHANGED vars
  <2>1. UNCHANGED << row, before >>
    BY <1>8, RowUnchangedKeeps DEF vars
  <2>2. Running' = Running
    BY <2>1 DEF Running
  <2> QED
    BY <2>1, <2>2 DEF Ledger!ledgerVars
<1> QED
  BY <1>1, <1>2, <1>3, <1>4, <1>5, <1>6, <1>7, <1>8
     DEF Next, PollerStep, SettleStep, ThreadStep, Disturbance, RowUnchanged,
         Proc, Ledger!LedgerNext

\* With one slot and no CLI every behaviour of the queue is a behaviour of the
\* ledger: first come first served within the quota, and a settled run is
\* never overwritten, across thread deaths, refused writes and crashes.
THEOREM Implementation ==
  ASSUME OneSlot
  PROVE  Spec => LedgerSpec
<1>1. Init => Ledger!LedgerInit
  <2> SUFFICES ASSUME Init PROVE Ledger!LedgerInit
    OBVIOUS
  <2>1. Running = {}
    BY DEF Init, Running
  <2>2. Quota - Cardinality(Running) = Quota
    BY <2>1, FS_EmptySet, QueueAssumption
  <2> QED
    BY <2>2 DEF Init, Ledger!LedgerInit
<1>2. TypeInv /\ OneSlotInv /\ [Next]_vars => OneSlotInv'
  BY NextOneSlot
<1>3. TypeInv /\ OneSlotInv /\ [Next]_vars => [Ledger!LedgerNext]_(Ledger!ledgerVars)
  BY StepMaps
<1> QED
  BY <1>1, <1>2, <1>3, InitType, NextType, InitOneSlot, PTL
     DEF Spec, LedgerSpec, Ledger!LedgerSpec

\* With one slot and no CLI at most one run is executed at a time.
THEOREM OneExecution ==
  ASSUME OneSlot
  PROVE  Spec => []ThreadsWithinQuota
<1>1. TypeInv /\ OneSlotInv => ThreadsWithinQuota
  <2> SUFFICES ASSUME TypeInv, OneSlotInv PROVE ThreadsWithinQuota
    OBVIOUS
  <2> DEFINE X == {r \in WorkerRun : pc[r] = "exec"}
  <2>1. CASE X = {}
    BY <2>1, FS_EmptySet DEF OneSlot, ThreadsWithinQuota
  <2>2. ASSUME NEW r \in X PROVE ThreadsWithinQuota
    <3>1. X = {r}
      BY <2>2 DEF OneSlotInv, OneThread, Alive, WorkerRun
    <3> QED
      BY <3>1, FS_Singleton DEF OneSlot, ThreadsWithinQuota
  <2> QED
    BY <2>1, <2>2
<1>2. TypeInv /\ OneSlotInv /\ [Next]_vars => OneSlotInv'
  BY NextOneSlot
<1> QED
  BY <1>1, <1>2, InitType, NextType, InitOneSlot, PTL DEF Spec
===============================================================================
