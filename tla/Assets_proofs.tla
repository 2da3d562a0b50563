----------------------------- MODULE Assets_proofs -----------------------------
(***************************************************************************)
(* Reuse for every set of packages, segments and works and every number of  *)
(* tasks: the types, that a package bound to a task is approved for good,   *)
(* and that the evidence counted for a package is independent; then the     *)
(* composition of reuse with the asset pipeline.                            *)
(*                                                                         *)
(* Evidence and families are defined by recursion on the order of creation. *)
(* By induction over it there is a function that satisfies the recursion,   *)
(* so that the one chosen does.                                             *)
(***************************************************************************)
EXTENDS MCAssets, SkillPipeline_proofs, WellFoundedInduction

-----------------------------------------------------------------------------
\* Induction

\* A set with zero and every successor has every natural number.
LEMMA SetInduction ==
    ASSUME NEW S, 0 \in S, \A n \in Nat : n \in S => n + 1 \in S
    PROVE  Nat \subseteq S
<1> DEFINE Less == OpToRel(<, Nat)
<1> DEFINE Rest == Nat \ S
<1>1. IsWellFoundedOn(Less, Nat)
    BY NatLessThanWellFounded
<1>2. \A x, y \in Nat : << y, x >> \in Less <=> y < x
    BY DEF OpToRel
<1> HIDE DEF Less
<1>3. SUFFICES ASSUME Rest # {} PROVE FALSE
    OBVIOUS
<1>4. PICK x \in Rest : \A y \in Rest : ~ (<< y, x >> \in Less)
    BY <1>1, <1>3, WFMin
<1>5. x # 0 /\ x \in Nat
    BY <1>4
<1>6. x - 1 \in Nat /\ x - 1 < x /\ x = (x - 1) + 1
    BY <1>5
<1>7. x - 1 \in Rest
    BY <1>6, <1>4
<1> QED
    BY <1>2, <1>4, <1>6, <1>7

-----------------------------------------------------------------------------
\* The types, and what a retry names

ReuseRow == [ status : {"queued", "running", "completed", "failed"},
              ref : [of : Package, basis : Basis], work : WorkCase,
              retry : 0 .. MaxReuse, applied : BOOLEAN, drifted : BOOLEAN ]

\* a retry names an earlier task, one that failed
RetriesFailed ==
    \A t \in ReuseTask : reuse[t].retry # NoTask =>
        /\ reuse[t].retry \in 1 .. t - 1
        /\ reuse[reuse[t].retry].status = "failed"

\* a package that was bound to a task was approved, and is for good
BoundIsApproved ==
    /\ plan # NoPlan => plan.of \in Approved
    /\ \A t \in ReuseTask : reuse[t].ref.of \in Approved

ReuseInv ==
    /\ ReuseTypeOK
    /\ Len(reuse) <= MaxReuse
    /\ RetriesFailed
    /\ BoundIsApproved

\* The tasks are the numbers up to the length of their sequence.
LEMMA TaskNumbers ==
    ASSUME ReuseTypeOK
    PROVE  /\ Len(reuse) \in Nat /\ ReuseTask = 1 .. Len(reuse)
           /\ reuse \in Seq(ReuseRow)
           /\ \A t \in ReuseTask : reuse[t] \in ReuseRow
<1>1. reuse \in Seq(ReuseRow)
    BY DEF ReuseTypeOK, ReuseRow
<1> QED
    BY <1>1, LenProperties, ElementOfSeq DEF ReuseTask

\* Nothing is reused at first.
LEMMA InitReuseInv == ReuseInit => ReuseInv
<1> SUFFICES ASSUME ReuseInit PROVE ReuseInv
    OBVIOUS
<1> USE DEF ReuseInit
<1>1. reuse \in Seq(ReuseRow) /\ Len(reuse) = 0 /\ DOMAIN reuse = {}
    BY EmptySeq
<1>2. ReuseTypeOK
    BY <1>1 DEF ReuseTypeOK, ReuseRow, ShelfTypeOK
<1> QED
    BY <1>1, <1>2, ReuseAssumption DEF ReuseInv, RetriesFailed, BoundIsApproved, ReuseTask

\* What Match returns is a package that is approved.
LEMMA MatchIsApproved ==
    ASSUME NEW b \in Basis, Match(b) # NoPlan
    PROVE  /\ Match(b) \in [of : Package, basis : Basis]
           /\ Match(b).of \in Approved
<1>1. Cardinality(Best(b)) = 1 /\ Match(b) = [ of |-> CHOOSE p \in Best(b) : TRUE, basis |-> b ]
    BY DEF Match
<1>2. Best(b) # {}
    BY <1>1, FS_EmptySet
<1>3. (CHOOSE p \in Best(b) : TRUE) \in Best(b)
    BY <1>2
<1>4. Best(b) \subseteq Approved /\ Approved \subseteq Package
    BY DEF Best, Eligible, Approved
<1> QED
    BY <1>1, <1>3, <1>4

\* The steps of reuse, by what they change: the shelf, the plan, a new task or
\* one that exists.
BindsTask(w, r) ==
    /\ Len(reuse) < MaxReuse /\ plan # NoPlan
    /\ r # NoTask => reuse[r].status = "failed"
    /\ reuse' = Append(reuse, [ status |-> "queued", ref |-> plan, work |-> w, retry |-> r,
                                applied |-> FALSE, drifted |-> FALSE ])
    /\ UNCHANGED << shelf, spoilt, plan >>

MovesTask(t) ==
    /\ reuse[t].status # "failed"
    /\ \E status \in {"queued", "running", "completed", "failed"}, applied, drifted \in BOOLEAN :
          reuse' = [reuse EXCEPT ![t] = [ reuse[t] EXCEPT !.status = status,
                                              !.applied = applied, !.drifted = drifted ]]
    /\ UNCHANGED << shelf, spoilt, plan >>

\* Every step is one of these, or changes nothing.
LEMMA ReuseSteps ==
    ASSUME ReuseInv, [ReuseNext]_reuseVars
    PROVE  \/ \E p \in Package : (Spoil(p) \/ Review(p, "approved")) /\ UNCHANGED << plan, reuse >>
           \/ \E b \in Basis : plan' \in {Match(b), NoPlan} /\ UNCHANGED << shelf, spoilt, reuse >>
           \/ \E w \in WorkCase, r \in ReuseTask \cup {NoTask} : BindsTask(w, r)
           \/ \E t \in ReuseTask : MovesTask(t)
           \/ UNCHANGED reuseVars
<1>1. \A t \in ReuseTask : reuse[t] \in ReuseRow /\ t \in DOMAIN reuse
    BY TaskNumbers DEF ReuseInv, ReuseTask
<1>2. ASSUME NEW t \in ReuseTask, VerifyRuntime(t) PROVE MovesTask(t)
  <2>1. PICK status \in {"running", "failed"} :
            reuse' = [reuse EXCEPT ![t]["status"] = status]
      BY <1>2 DEF VerifyRuntime, MoveReuse, UpdateReuse
  <2>2. [reuse[t] EXCEPT !["status"] = status] =
            [ reuse[t] EXCEPT !.status = status, !.applied = reuse[t].applied,
                              !.drifted = reuse[t].drifted ]
      BY <1>1 DEF ReuseRow
  <2> QED
      BY <1>1, <1>2, <2>1, <2>2
      DEF VerifyRuntime, MoveReuse, UpdateReuse, MovesTask, ReuseRow
<1>3. ASSUME NEW t \in ReuseTask, FailReuse(t) PROVE MovesTask(t)
  <2>1. [reuse[t] EXCEPT !["status"] = "failed"] =
            [ reuse[t] EXCEPT !.status = "failed", !.applied = reuse[t].applied,
                              !.drifted = reuse[t].drifted ]
      BY <1>1 DEF ReuseRow
  <2> QED
      BY <1>1, <1>3, <2>1 DEF FailReuse, MoveReuse, UpdateReuse, MovesTask, ReuseRow
<1>4. ASSUME NEW t \in ReuseTask, DriftInputs(t) PROVE MovesTask(t)
  <2>1. [reuse[t] EXCEPT !["drifted"] = TRUE] =
            [ reuse[t] EXCEPT !.status = reuse[t].status, !.applied = reuse[t].applied,
                              !.drifted = TRUE ]
      BY <1>1 DEF ReuseRow
  <2> QED
      BY <1>1, <1>4, <2>1 DEF DriftInputs, UpdateReuse, MovesTask, ReuseRow
<1>5. ASSUME NEW t \in ReuseTask, NEW applied \in BOOLEAN, Finish(t, applied) PROVE MovesTask(t)
  <2>1. PICK status \in {"completed", "failed"} :
            reuse' = [reuse EXCEPT ![t].status = status, ![t].applied = applied]
      BY <1>5 DEF Finish, End
  <2>2. [reuse EXCEPT ![t].status = status, ![t].applied = applied] =
            [reuse EXCEPT ![t] = [ reuse[t] EXCEPT !.status = status, !.applied = applied,
                                                   !.drifted = reuse[t].drifted ]]
      BY <1>1 DEF ReuseRow
  <2> QED
      BY <1>1, <1>5, <2>1, <2>2 DEF Finish, End, MovesTask, ReuseRow
<1>6. ASSUME NEW w \in WorkCase, NEW r \in ReuseTask \cup {NoTask}, Bind(w, r)
      PROVE  BindsTask(w, r)
    BY <1>6 DEF Bind, BindsTask
<1> QED
    BY <1>2, <1>3, <1>4, <1>5, <1>6 DEF ReuseNext, OnShelf, Recommend, MovesTask

\* The packages that are approved stay approved.
LEMMA ApprovedStays ==
    ASSUME ReuseInv, [ReuseNext]_reuseVars
    PROVE  Approved \subseteq Approved' /\ ShelfTypeOK'
<1>1. ShelfTypeOK
    BY DEF ReuseInv, ReuseTypeOK
<1>2. ASSUME NEW p \in Package, Spoil(p) PROVE Approved \subseteq Approved' /\ ShelfTypeOK'
    BY <1>1, <1>2 DEF Spoil, Approved, ShelfTypeOK
<1>3. ASSUME NEW p \in Package, Review(p, "approved")
      PROVE  Approved \subseteq Approved' /\ ShelfTypeOK'
    BY <1>1, <1>3 DEF Review, Approved, ShelfTypeOK
<1>4. ASSUME UNCHANGED << shelf, spoilt >> PROVE Approved \subseteq Approved' /\ ShelfTypeOK'
    BY <1>1, <1>4 DEF Approved, ShelfTypeOK
<1> QED
    BY <1>2, <1>3, <1>4, ReuseSteps DEF BindsTask, MovesTask, reuseVars

\* A task that is bound.
LEMMA BindReuseInv ==
    ASSUME ReuseInv, [ReuseNext]_reuseVars,
           NEW w \in WorkCase, NEW r \in ReuseTask \cup {NoTask}, BindsTask(w, r)
    PROVE  ReuseInv'
<1> DEFINE len == Len(reuse)
<1> DEFINE new == [ status |-> "queued", ref |-> plan, work |-> w, retry |-> r,
                    applied |-> FALSE, drifted |-> FALSE ]
<1>1. /\ len \in Nat /\ ReuseTask = 1 .. len /\ reuse \in Seq(ReuseRow)
      /\ \A t \in ReuseTask : reuse[t] \in ReuseRow
    BY TaskNumbers DEF ReuseInv
<1>2. len < MaxReuse /\ MaxReuse \in Nat /\ plan \in [of : Package, basis : Basis] /\ plan' = plan
    BY ReuseAssumption DEF BindsTask, ReuseInv, ReuseTypeOK
<1>3. r \in 0 .. len /\ NoTask = 0
    BY <1>1 DEF NoTask
<1>4. new \in ReuseRow
    BY <1>1, <1>2, <1>3 DEF ReuseRow
<1>5. reuse' = Append(reuse, new)
    BY DEF BindsTask
<1> HIDE DEF new
<1>6. /\ reuse' \in Seq(ReuseRow) /\ Len(reuse') = len + 1
      /\ \A t \in 1 .. len : reuse'[t] = reuse[t]
      /\ reuse'[len + 1] = new
    BY <1>1, <1>4, <1>5, AppendProperties
<1>7. DOMAIN reuse' = 1 .. len + 1
    BY <1>6, LenProperties
<1> HIDE DEF len
<1>8. ReuseTypeOK'
    BY <1>2, <1>6, ApprovedStays DEF ReuseTypeOK, ReuseRow
<1>9. Len(reuse') <= MaxReuse
    BY <1>1, <1>2, <1>6
<1>10. RetriesFailed'
  <2> SUFFICES ASSUME NEW t \in 1 .. len + 1, reuse'[t].retry # NoTask
               PROVE  /\ reuse'[t].retry \in 1 .. t - 1
                      /\ reuse'[reuse'[t].retry].status = "failed"
      BY <1>7 DEF RetriesFailed, ReuseTask
  <2>1. CASE t \in 1 .. len
    <3>1. reuse'[t] = reuse[t] /\ reuse[t].retry \in 1 .. t - 1
        BY <1>1, <1>6, <2>1 DEF ReuseInv, RetriesFailed
    <3>2. reuse[reuse[t].retry].status = "failed"
        BY <1>1, <2>1, <3>1 DEF ReuseInv, RetriesFailed
    <3>3. reuse[t].retry \in 1 .. len
        BY <1>1, <2>1, <3>1
    <3> QED
        BY <1>6, <3>1, <3>2, <3>3
  <2>2. CASE t = len + 1
    <3>1. reuse'[t].retry = r
        BY <1>6, <2>2 DEF new
    <3>2. r \in 1 .. len /\ reuse[r].status = "failed"
        BY <1>1, <1>3, <3>1 DEF BindsTask
    <3>3. reuse'[r].status = "failed"
        BY <1>6, <3>2
    <3>4. t - 1 = len
        BY <1>1, <2>2
    <3> QED
        BY <3>1, <3>2, <3>3, <3>4
  <2> QED
      BY <1>1, <2>1, <2>2
<1>11. BoundIsApproved'
  <2>1. plan.of \in Approved'
      BY <1>2, ApprovedStays DEF ReuseInv, BoundIsApproved, BindsTask
  <2>2. new.ref = plan
      BY DEF new
  <2>3. \A t \in 1 .. len : reuse'[t].ref.of \in Approved'
      BY <1>1, <1>6, ApprovedStays DEF ReuseInv, BoundIsApproved
  <2>4. \A t \in 1 .. len + 1 : t \in 1 .. len \/ t = len + 1
      BY <1>1
  <2> QED
      BY <1>2, <1>6, <1>7, <2>1, <2>2, <2>3, <2>4 DEF BoundIsApproved, ReuseTask
<1> QED
    BY <1>8, <1>9, <1>10, <1>11 DEF ReuseInv

\* A task that moves; one that failed never does.
LEMMA MoveReuseInv ==
    ASSUME ReuseInv, [ReuseNext]_reuseVars, NEW t \in ReuseTask, MovesTask(t)
    PROVE  ReuseInv'
<1>1. /\ Len(reuse) \in Nat /\ ReuseTask = 1 .. Len(reuse) /\ reuse \in Seq(ReuseRow)
      /\ \A u \in ReuseTask : reuse[u] \in ReuseRow
    BY TaskNumbers DEF ReuseInv
<1>2. PICK status \in {"queued", "running", "completed", "failed"},
           applied \in BOOLEAN, drifted \in BOOLEAN :
          reuse' = [reuse EXCEPT ![t] = [ reuse[t] EXCEPT !.status = status,
                                              !.applied = applied, !.drifted = drifted ]]
    BY DEF MovesTask
<1> DEFINE new == [ reuse[t] EXCEPT !.status = status, !.applied = applied, !.drifted = drifted ]
<1>3. /\ new \in ReuseRow /\ new.retry = reuse[t].retry /\ new.ref = reuse[t].ref
    BY <1>1 DEF ReuseRow
<1> HIDE DEF new
<1>4. reuse' = [reuse EXCEPT ![t] = new]
    BY <1>2 DEF new
<1>5. /\ reuse' \in Seq(ReuseRow) /\ Len(reuse') = Len(reuse)
      /\ \A u \in 1 .. Len(reuse) : reuse'[u] = IF u = t THEN new ELSE reuse[u]
    BY <1>1, <1>3, <1>4, ExceptSeq
<1>6. ReuseTask' = ReuseTask
    BY <1>4 DEF ReuseTask
<1>7. \A u \in ReuseTask :
          /\ reuse'[u].retry = reuse[u].retry /\ reuse'[u].ref = reuse[u].ref
          /\ reuse[u].status = "failed" => reuse'[u].status = "failed"
    BY <1>1, <1>3, <1>5 DEF MovesTask
<1>8. ReuseTypeOK'
    BY <1>5, ApprovedStays DEF ReuseInv, ReuseTypeOK, ReuseRow, MovesTask
<1>9. RetriesFailed'
  <2> SUFFICES ASSUME NEW u \in ReuseTask, reuse'[u].retry # NoTask
               PROVE  /\ reuse'[u].retry \in 1 .. u - 1
                      /\ reuse'[reuse'[u].retry].status = "failed"
      BY <1>6 DEF RetriesFailed
  <2>1. /\ reuse[u].retry \in 1 .. u - 1
        /\ reuse[reuse[u].retry].status = "failed"
      BY <1>7 DEF ReuseInv, RetriesFailed
  <2>2. reuse[u].retry \in ReuseTask
      BY <1>1, <2>1
  <2> QED
      BY <1>7, <2>1, <2>2
<1>10. BoundIsApproved'
    BY <1>6, <1>7, ApprovedStays DEF ReuseInv, BoundIsApproved, MovesTask
<1> QED
    BY <1>5, <1>8, <1>9, <1>10 DEF ReuseInv

\* No step leaves the invariant of reuse.
LEMMA NextReuseInv == ReuseInv /\ [ReuseNext]_reuseVars => ReuseInv'
<1> SUFFICES ASSUME ReuseInv, [ReuseNext]_reuseVars PROVE ReuseInv'
    OBVIOUS
<1>1. ASSUME reuse' = reuse,
             plan' = NoPlan \/ plan' \in [of : Package, basis : Basis],
             plan' # NoPlan => plan'.of \in Approved'
      PROVE  ReuseInv'
  <2>1. ReuseTypeOK' /\ ReuseTask' = ReuseTask
      BY <1>1, ApprovedStays DEF ReuseInv, ReuseTypeOK, ReuseTask
  <2>2. RetriesFailed'
      BY <1>1 DEF ReuseInv, RetriesFailed, ReuseTask
  <2>3. BoundIsApproved'
      BY <1>1, <2>1, ApprovedStays DEF ReuseInv, BoundIsApproved
  <2> QED
      BY <1>1, <2>1, <2>2, <2>3 DEF ReuseInv
<1>2. ASSUME NEW p \in Package, Spoil(p) \/ Review(p, "approved"), UNCHANGED << plan, reuse >>
      PROVE  ReuseInv'
    BY <1>1, <1>2, ApprovedStays DEF ReuseInv, ReuseTypeOK, BoundIsApproved
<1>3. ASSUME NEW b \in Basis, plan' \in {Match(b), NoPlan}, UNCHANGED << shelf, spoilt, reuse >>
      PROVE  ReuseInv'
  <2>1. Approved' = Approved
      BY <1>3 DEF Approved
  <2> QED
      BY <1>1, <1>3, <2>1, MatchIsApproved
<1>4. ASSUME NEW w \in WorkCase, NEW r \in ReuseTask \cup {NoTask}, BindsTask(w, r) PROVE ReuseInv'
    BY <1>4, BindReuseInv
<1>5. ASSUME NEW t \in ReuseTask, MovesTask(t) PROVE ReuseInv'
    BY <1>5, MoveReuseInv
<1>6. ASSUME UNCHANGED reuseVars PROVE ReuseInv'
    BY <1>1, <1>6, ApprovedStays DEF reuseVars, ReuseInv, ReuseTypeOK, BoundIsApproved
<1> QED
    BY <1>2, <1>3, <1>4, <1>5, <1>6, ReuseSteps

\* The invariant of reuse holds in every state.
LEMMA ReuseHolds == ReuseSpec => []ReuseInv
<1> QED
    BY InitReuseInv, NextReuseInv, PTL DEF ReuseSpec

-----------------------------------------------------------------------------
\* Evidence

\* What is counted after one binding more.
CountsNext(p, seen, n) == seen \cup {t \in {n} : Counts(p, t, seen)}

IsCount(p, k, f) ==
    f = [n \in 0 .. k |-> IF n = 0 THEN {} ELSE CountsNext(p, f[n - 1], n)]

\* For as many bindings as one likes there is a function that counts them.
LEMMA CountExists == ASSUME NEW p, NEW k \in Nat PROVE \E f : IsCount(p, k, f)
<1> DEFINE S == {j \in Nat : \E f : IsCount(p, j, f)}
<1>1. 0 \in S
  <2> DEFINE f == [n \in 0 .. 0 |-> {}]
  <2>1. f = [n \in 0 .. 0 |-> IF n = 0 THEN {} ELSE CountsNext(p, f[n - 1], n)]
    <3>1. \A n \in 0 .. 0 : n = 0
        OBVIOUS
    <3> HIDE DEF f
    <3>2. f = [n \in 0 .. 0 |-> {}]
        BY DEF f
    <3> QED
        BY <3>1, <3>2
  <2> HIDE DEF f
  <2>2. IsCount(p, 0, f)
      BY <2>1 DEF IsCount
  <2> QED
      BY <2>2
<1>2. ASSUME NEW j \in Nat, j \in S PROVE j + 1 \in S
  <2>1. PICK f : IsCount(p, j, f)
      BY <1>2
  <2> DEFINE g == [n \in 0 .. j + 1 |-> IF n = j + 1 THEN CountsNext(p, f[j], n) ELSE f[n]]
  <2>2. ASSUME NEW n \in 0 .. j + 1
        PROVE  g[n] = IF n = 0 THEN {} ELSE CountsNext(p, g[n - 1], n)
    <3>1. CASE n = j + 1
      <4>1. n # 0 /\ n - 1 = j /\ j \in 0 .. j + 1 /\ j # j + 1
          BY <3>1
      <4>2. g[j] = f[j] /\ g[n] = CountsNext(p, f[j], n)
          BY <3>1, <4>1
      <4> HIDE DEF g
      <4> QED
          BY <4>1, <4>2
    <3>2. CASE n # j + 1
      <4>1. n \in 0 .. j
          BY <3>2
      <4>2. f[n] = IF n = 0 THEN {} ELSE CountsNext(p, f[n - 1], n)
          BY <2>1, <4>1 DEF IsCount
      <4>3. n # 0 => n - 1 \in 0 .. j + 1 /\ n - 1 # j + 1
          BY <4>1
      <4>4. g[n] = f[n] /\ (n # 0 => g[n - 1] = f[n - 1])
          BY <3>2, <4>3
      <4> HIDE DEF g
      <4> QED
          BY <4>2, <4>4
    <3> QED
        BY <3>1, <3>2
  <2>3. g = [n \in 0 .. j + 1 |-> g[n]]
      OBVIOUS
  <2> HIDE DEF g
  <2>4. g = [n \in 0 .. j + 1 |-> IF n = 0 THEN {} ELSE CountsNext(p, g[n - 1], n)]
      BY <2>2, <2>3
  <2>5. IsCount(p, j + 1, g)
      BY <2>4 DEF IsCount
  <2> QED
      BY <2>5
<1> HIDE DEF S
<1>3. Nat \subseteq S
    BY <1>1, <1>2, SetInduction
<1> QED
    BY <1>3 DEF S

\* The bindings counted are none at first, and after each the next one when it
\* counts beside those before it (_formation_evidence).
LEMMA CountedStep ==
    ASSUME ReuseInv, NEW p
    PROVE  /\ CountedUpTo(p)[0] = {}
           /\ \A n \in ReuseTask :
                 CountedUpTo(p)[n] = CountsNext(p, CountedUpTo(p)[n - 1], n)
<1>1. Len(reuse) \in Nat /\ ReuseTask = 1 .. Len(reuse)
    BY TaskNumbers DEF ReuseInv
<1>2. \E f : IsCount(p, Len(reuse), f)
    BY <1>1, CountExists
<1>3. CountedUpTo(p) = CHOOSE f : IsCount(p, Len(reuse), f)
    BY Zenon DEF CountedUpTo, IsCount, CountsNext
<1>4. IsCount(p, Len(reuse), CountedUpTo(p))
    BY <1>2, <1>3, Zenon
<1> DEFINE c == CountedUpTo(p)
<1>5. c = [n \in 0 .. Len(reuse) |-> IF n = 0 THEN {} ELSE CountsNext(p, c[n - 1], n)]
    BY <1>4, Zenon DEF IsCount
<1> HIDE DEF c
<1>6. c[0] = {} /\ \A n \in ReuseTask : c[n] = CountsNext(p, c[n - 1], n)
  <2>1. 0 \in 0 .. Len(reuse) /\ \A n \in ReuseTask : n \in 0 .. Len(reuse) /\ n # 0
      BY <1>1
  <2> QED
      BY <1>5, <2>1
<1> QED
    BY <1>6 DEF c

\* What is counted of the first n bindings is independent, and complete.
CountIsIndependent(p, n) ==
    LET c == CountedUpTo(p)[n] IN
    /\ c \subseteq 1 .. n
    /\ \A t \in c : reuse[t].ref.of = p /\ CompletedEvidence(t)
    /\ \A t, u \in c : t # u => Independent(t, u)
    /\ \A t \in (1 .. n) \ c : CompletedEvidence(t) /\ reuse[t].ref.of = p =>
          \E u \in c : ~ Independent(t, u)

\* Whatever is independent of each other is so both ways round.
LEMMA IndependentBothWays == \A t, u : Independent(t, u) <=> Independent(u, t)
BY DEF Independent

\* One binding more is counted when it is independent of those counted, and
\* otherwise has one among them that it is not independent of.
LEMMA CountIndependentStep ==
    ASSUME ReuseInv, NEW p, NEW n \in Nat, n + 1 \in ReuseTask, CountIsIndependent(p, n)
    PROVE  CountIsIndependent(p, n + 1)
<1> DEFINE old == CountedUpTo(p)[n]
<1> DEFINE new == CountedUpTo(p)[n + 1]
<1>1. new = CountsNext(p, old, n + 1)
  <2>1. (n + 1) - 1 = n
      OBVIOUS
  <2>2. new = CountsNext(p, CountedUpTo(p)[(n + 1) - 1], n + 1)
      BY CountedStep, Zenon
  <2> QED
      BY <2>1, <2>2
<1>2. /\ old \subseteq 1 .. n
      /\ \A t \in old : reuse[t].ref.of = p /\ CompletedEvidence(t)
      /\ \A t, u \in old : t # u => Independent(t, u)
      /\ \A t \in (1 .. n) \ old : CompletedEvidence(t) /\ reuse[t].ref.of = p =>
            \E u \in old : ~ Independent(t, u)
    BY Zenon DEF CountIsIndependent
<1> HIDE DEF old, new
<1>3. 1 .. n + 1 = (1 .. n) \cup {n + 1} /\ n + 1 \notin old
    BY <1>2
<1>4. CASE Counts(p, n + 1, old)
  <2>1. new = old \cup {n + 1}
      BY <1>1, <1>4 DEF CountsNext
  <2>2. /\ reuse[n + 1].ref.of = p /\ CompletedEvidence(n + 1)
        /\ \A u \in old : Independent(n + 1, u)
      BY <1>4, Zenon DEF Counts
  <2>3. new \subseteq 1 .. n + 1
      BY <1>2, <1>3, <2>1
  <2>4. \A t \in new : reuse[t].ref.of = p /\ CompletedEvidence(t)
      BY <1>2, <2>1, <2>2
  <2>5. \A t, u \in new : t # u => Independent(t, u)
      BY <1>2, <2>1, <2>2, IndependentBothWays
  <2>6. \A t \in (1 .. n + 1) \ new : CompletedEvidence(t) /\ reuse[t].ref.of = p =>
            \E u \in new : ~ Independent(t, u)
      BY <1>2, <1>3, <2>1
  <2> QED
      BY <2>3, <2>4, <2>5, <2>6, Zenon DEF CountIsIndependent, new
<1>5. CASE ~ Counts(p, n + 1, old)
  <2>1. new = old
      BY <1>1, <1>5 DEF CountsNext
  <2>2. CompletedEvidence(n + 1) /\ reuse[n + 1].ref.of = p =>
            \E u \in old : ~ Independent(n + 1, u)
      BY <1>5 DEF Counts
  <2>3. new \subseteq 1 .. n + 1
      BY <1>2, <1>3, <2>1
  <2>4. \A t \in (1 .. n + 1) \ new : CompletedEvidence(t) /\ reuse[t].ref.of = p =>
            \E u \in new : ~ Independent(t, u)
      BY <1>2, <1>3, <2>1, <2>2
  <2>5. /\ \A t \in new : reuse[t].ref.of = p /\ CompletedEvidence(t)
        /\ \A t, u \in new : t # u => Independent(t, u)
      BY <1>2, <2>1
  <2> QED
      BY <2>3, <2>4, <2>5, Zenon DEF CountIsIndependent, new
<1> QED
    BY <1>4, <1>5

\* So the evidence of a package is, however many bindings there are.
LEMMA CountedIsIndependent ==
    ASSUME ReuseInv, NEW p
    PROVE  CountIsIndependent(p, Len(reuse))
<1> DEFINE S == {n \in Nat : n <= Len(reuse) => CountIsIndependent(p, n)}
<1>1. Len(reuse) \in Nat /\ ReuseTask = 1 .. Len(reuse)
    BY TaskNumbers DEF ReuseInv
<1>2. CountIsIndependent(p, 0)
  <2>1. CountedUpTo(p)[0] = {} /\ 1 .. 0 = {}
      BY CountedStep
  <2> QED
      BY <2>1 DEF CountIsIndependent
<1>3. ASSUME NEW n \in Nat, n \in S PROVE n + 1 \in S
  <2> SUFFICES ASSUME n + 1 <= Len(reuse) PROVE CountIsIndependent(p, n + 1)
      OBVIOUS
  <2>1. n + 1 \in ReuseTask /\ n <= Len(reuse)
      BY <1>1
  <2>2. CountIsIndependent(p, n)
      BY <1>3, <2>1
  <2> QED
      BY <2>1, <2>2, CountIndependentStep
<1>4. 0 \in S
    BY <1>2
<1> HIDE DEF S
<1>5. Nat \subseteq S
    BY <1>3, <1>4, SetInduction
<1>6. Len(reuse) \in S
    BY <1>1, <1>5
<1> QED
    BY <1>1, <1>6 DEF S

\* What a package counts as formed evidence are cases that differ pairwise in
\* segment, work and family, and all that do, for every number of bindings
\* (skill_reuse_evidence.py _formation_evidence).
THEOREM IndependenceCorrect == ReuseSpec => []EvidenceIsIndependent
<1>1. ASSUME ReuseInv PROVE EvidenceIsIndependent
  <2> SUFFICES ASSUME NEW p \in Package
               PROVE  /\ \A t, u \in Counted(p) : t # u =>
                            /\ reuse[t].ref.basis # reuse[u].ref.basis
                            /\ reuse[t].work # reuse[u].work
                            /\ Family[t] # Family[u]
                      /\ \A t \in ReuseTask \ Counted(p) :
                            CompletedEvidence(t) /\ reuse[t].ref.of = p =>
                                \E u \in Counted(p) : ~ Independent(t, u)
      BY DEF EvidenceIsIndependent
  <2>1. ReuseTask = 1 .. Len(reuse)
      BY <1>1, TaskNumbers DEF ReuseInv
  <2>2. CountIsIndependent(p, Len(reuse))
      BY <1>1, CountedIsIndependent
  <2>3. \A t, u \in Counted(p) : t # u => Independent(t, u)
      BY <2>2, Zenon DEF CountIsIndependent, Counted
  <2>4. \A t \in ReuseTask \ Counted(p) : CompletedEvidence(t) /\ reuse[t].ref.of = p =>
            \E u \in Counted(p) : ~ Independent(t, u)
      BY <2>1, <2>2, Zenon DEF CountIsIndependent, Counted
  <2>5. \A t, u \in Counted(p) : t # u =>
            /\ reuse[t].ref.basis # reuse[u].ref.basis
            /\ reuse[t].work # reuse[u].work
            /\ Family[t] # Family[u]
      BY <2>3, Zenon DEF Independent, FamilyRoot
  <2> QED
      BY <2>4, <2>5
<1> QED
    BY <1>1, ReuseHolds, PTL

-----------------------------------------------------------------------------
\* Families

IsFamily(k, f) ==
    f = [t \in 1 .. k |-> IF reuse[t].retry = NoTask THEN t ELSE f[reuse[t].retry]]

\* Since a retry names an earlier task, going back by the retries comes to an
\* end.
LEMMA FamilyExists ==
    ASSUME ReuseInv, NEW k \in Nat, k <= Len(reuse)
    PROVE  \E f : IsFamily(k, f)
<1> DEFINE S == {j \in Nat : j <= Len(reuse) => \E f : IsFamily(j, f)}
<1>1. Len(reuse) \in Nat /\ ReuseTask = 1 .. Len(reuse)
    BY TaskNumbers DEF ReuseInv
<1>2. 0 \in S
  <2> DEFINE f == [t \in 1 .. 0 |-> t]
  <2>1. \A t \in 1 .. 0 : f[t] = IF reuse[t].retry = NoTask THEN t ELSE f[reuse[t].retry]
      OBVIOUS
  <2>2. f = [t \in 1 .. 0 |-> f[t]]
      OBVIOUS
  <2> HIDE DEF f
  <2>3. IsFamily(0, f)
      BY <2>1, <2>2 DEF IsFamily
  <2> QED
      BY <2>3
<1>3. ASSUME NEW j \in Nat, j \in S PROVE j + 1 \in S
  <2> SUFFICES ASSUME j + 1 <= Len(reuse) PROVE \E f : IsFamily(j + 1, f)
      OBVIOUS
  <2>1. PICK f : IsFamily(j, f)
      BY <1>1, <1>3
  <2> DEFINE g == [t \in 1 .. j + 1 |->
                      IF t # j + 1 THEN f[t]
                      ELSE IF reuse[t].retry = NoTask THEN t ELSE f[reuse[t].retry]]
  <2>2. ASSUME NEW t \in 1 .. j + 1
        PROVE  g[t] = IF reuse[t].retry = NoTask THEN t ELSE g[reuse[t].retry]
    <3>1. reuse[t].retry # NoTask => reuse[t].retry \in 1 .. t - 1
        BY <1>1 DEF ReuseInv, RetriesFailed
    <3>2. reuse[t].retry # NoTask => g[reuse[t].retry] = f[reuse[t].retry]
      <4>1. \A r \in 1 .. t - 1 : r \in 1 .. j + 1 /\ r # j + 1
          OBVIOUS
      <4> QED
          BY <3>1, <4>1
    <3>3. CASE t = j + 1
      <4>1. g[t] = IF reuse[t].retry = NoTask THEN t ELSE f[reuse[t].retry]
          BY <3>3
      <4> HIDE DEF g
      <4> QED
          BY <3>2, <4>1
    <3>4. CASE t # j + 1
      <4>1. t \in 1 .. j
          BY <3>4
      <4>2. f[t] = IF reuse[t].retry = NoTask THEN t ELSE f[reuse[t].retry]
          BY <2>1, <4>1 DEF IsFamily
      <4>3. g[t] = f[t]
          BY <3>4
      <4> HIDE DEF g
      <4> QED
          BY <3>2, <4>2, <4>3
    <3> QED
        BY <3>3, <3>4
  <2>3. g = [t \in 1 .. j + 1 |-> g[t]]
      OBVIOUS
  <2> HIDE DEF g
  <2>4. g = [t \in 1 .. j + 1 |-> IF reuse[t].retry = NoTask THEN t ELSE g[reuse[t].retry]]
      BY <2>2, <2>3
  <2>5. IsFamily(j + 1, g)
      BY <2>4 DEF IsFamily
  <2> QED
      BY <2>5
<1> HIDE DEF S
<1>4. Nat \subseteq S
    BY <1>2, <1>3, SetInduction
<1> QED
    BY <1>4 DEF S

\* A retry belongs to the family of the task it names, and a task that retries
\* none is the first of its family.
LEMMA FamilyStep ==
    ASSUME ReuseInv, NEW t \in ReuseTask
    PROVE  Family[t] = IF reuse[t].retry = NoTask THEN t ELSE Family[reuse[t].retry]
<1>1. Len(reuse) \in Nat /\ ReuseTask = 1 .. Len(reuse)
    BY TaskNumbers DEF ReuseInv
<1>2. \E f : IsFamily(Len(reuse), f)
    BY <1>1, FamilyExists
<1>3. Family = CHOOSE f : IsFamily(Len(reuse), f)
    BY <1>1, Zenon DEF Family, IsFamily
<1>4. IsFamily(Len(reuse), Family)
    BY <1>2, <1>3, Zenon
<1> QED
    BY <1>1, <1>4, Zenon DEF IsFamily

\* No case is evidence twice: of a task and its retries, and of two retries of
\* one task, at most one is counted, however often and in whatever order they
\* are tried (skill_reuse_evidence.py, families of retries).
THEOREM AttemptsCountOnce ==
    ReuseSpec => [](\A p \in Package : \A t, u \in Counted(p) :
                        t # u /\ reuse[t].retry # NoTask =>
                            reuse[t].retry # u /\ reuse[t].retry # reuse[u].retry)
<1>1. ASSUME ReuseInv, NEW p \in Package, NEW t \in Counted(p), NEW u \in Counted(p),
             t # u, reuse[t].retry # NoTask
      PROVE  reuse[t].retry # u /\ reuse[t].retry # reuse[u].retry
  <2>1. ReuseTask = 1 .. Len(reuse)
      BY <1>1, TaskNumbers DEF ReuseInv
  <2>2. CountIsIndependent(p, Len(reuse))
      BY <1>1, CountedIsIndependent
  <2>3. t \in ReuseTask /\ u \in ReuseTask /\ Family[t] # Family[u] /\ CompletedEvidence(u)
      BY <1>1, <2>1, <2>2, Zenon DEF CountIsIndependent, Counted, Independent, FamilyRoot
  <2>4. Family[t] = Family[reuse[t].retry]
      BY <1>1, <2>3, FamilyStep
  <2>5. reuse[reuse[t].retry].status = "failed"
      BY <1>1, <2>3 DEF ReuseInv, RetriesFailed
  <2>6. reuse[t].retry # u
      BY <2>3, <2>5 DEF CompletedEvidence
  <2>7. reuse[u].retry # NoTask => Family[u] = Family[reuse[u].retry]
      BY <1>1, <2>3, FamilyStep
  <2> QED
      BY <1>1, <2>3, <2>4, <2>6, <2>7
<1>2. ReuseInv => \A p \in Package : \A t, u \in Counted(p) :
                      t # u /\ reuse[t].retry # NoTask =>
                          reuse[t].retry # u /\ reuse[t].retry # reuse[u].retry
    BY <1>1
<1> QED
    BY <1>2, ReuseHolds, PTL

-----------------------------------------------------------------------------
\* Reuse and the pipeline

\* Whatever reuse assumes to happen to packages while it looks is something the
\* shelf allows, and the pipeline implements the shelf (ShelfCorrect).
THEOREM ReuseReliesOnShelf == ReuseSpec => [][ShelfNext]_shelfVars
<1>1. ASSUME ReuseInv, [ReuseNext]_reuseVars PROVE [ShelfNext]_shelfVars
  <2>1. ASSUME NEW p \in Package, Spoil(p) \/ Review(p, "approved") PROVE ShelfNext
      BY <2>1 DEF ShelfNext
  <2> QED
      BY <1>1, <2>1, ReuseSteps DEF BindsTask, MovesTask, reuseVars, shelfVars
<1> QED
    BY <1>1, ReuseHolds, PTL DEF ReuseSpec

\* Each half takes its own steps and lets the other be.
THEOREM AssetsCompose == AssetsSpec => PipelineSafety /\ ReuseSpec
<1>1. AssetsInit => PipelineInit /\ ReuseInit
    BY DEF AssetsInit, ReuseInit
<1>2. [AssetsNext]_assetVars => [PipelineNext]_pipelineVars
    BY DEF AssetsNext, PipelineMoves, ReuseMoves, assetVars
<1>3. [AssetsNext]_assetVars => [ReuseNext]_reuseVars
    BY DEF AssetsNext, PipelineMoves, ReuseMoves, assetVars
<1> QED
    BY <1>1, <1>2, <1>3, PTL DEF AssetsSpec, PipelineSafety, ReuseSpec

\* Every variable of the pipeline and of reuse keeps its range.
THEOREM AssetsTypeCorrect == AssetsSpec => []AssetsTypeOK
<1>1. PipelineTypeOK /\ ReuseInv => AssetsTypeOK
    BY DEF ReuseInv, AssetsTypeOK
<1> QED
    BY <1>1, AssetsCompose, PipelineTypeCorrect, ReuseHolds, PTL
===============================================================================
