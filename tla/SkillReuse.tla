----------------------------- MODULE SkillReuse -----------------------------
(***************************************************************************)
(* Reuse of reviewed packages (ontology/skill_reuse.py,                     *)
(* skill_reuse_evidence.py, runtime/skill_reuse_application.py): Guide's    *)
(* plan names the one package its conversation matches, starting the plan   *)
(* binds tasks to it, the runtime verifies the binding again and makes the  *)
(* task prove that it applied the method, and the package counts the        *)
(* independent cases that did.                                              *)
(***************************************************************************)
EXTENDS Integers, Sequences, FiniteSets, PackageShelf

CONSTANTS Basis,       \* digests of a work segment's messages and file names
          Score,       \* basis -> package -> 0 none, 1 shared words, 2 its title
          Population,  \* more approved packages than this are not compared
          MaxReuse,    \* bound: tasks started with a package
          WorkCase,    \* fingerprints of inputs and input files
          NoPlan

ASSUME ReuseAssumption == /\ Score \in [Basis -> [Package -> 0 .. 2]]
                          /\ Population \in Nat /\ MaxReuse \in Nat

VARIABLES plan,        \* reference in the conversation's recommendation
          reuse        \* tasks and skill_reuse_bindings, in the order of creation

reuseVars == << shelf, spoilt, plan, reuse >>

ReuseTask == DOMAIN reuse
NoTask == 0

-----------------------------------------------------------------------------
\* The matcher: none when too many are approved, those it cannot read included,
\* or the best score is shared

Best(b) ==
    {p \in Eligible : /\ Score[b][p] > 0
                      /\ \A q \in Eligible : Score[b][q] <= Score[b][p]}

Match(b) ==
    IF Cardinality(Approved) <= Population /\ Cardinality(Best(b)) = 1
    THEN [ of |-> CHOOSE p \in Best(b) : TRUE, basis |-> b ]
    ELSE NoPlan

\* a round replaces the recommendation; the reference is attached only to a
\* plan in which the agent of the package occurs once
Recommend(b) ==
    /\ plan' \in {Match(b), NoPlan}
    /\ UNCHANGED << shelf, spoilt, reuse >>

-----------------------------------------------------------------------------
\* Binding: resolve_for_task reads the package cold; a failure refuses the
\* whole start.  A retry names a task that failed.

Bind(w, r) ==
    /\ Len(reuse) < MaxReuse
    /\ plan # NoPlan /\ plan.of \in Eligible
    /\ r # NoTask => reuse[r].status = "failed"
    /\ reuse' = Append(reuse, [ status |-> "queued", ref |-> plan, work |-> w, retry |-> r,
                                applied |-> FALSE, drifted |-> FALSE ])
    /\ UNCHANGED << shelf, spoilt, plan >>

UpdateReuse(t, field, value) ==
    /\ reuse' = [reuse EXCEPT ![t][field] = value]
    /\ UNCHANGED << shelf, spoilt, plan >>

MoveReuse(t, to) == UpdateReuse(t, "status", to)

\* verify_runtime, before anything else of the run
VerifyRuntime(t) ==
    /\ reuse[t].status = "queued"
    /\ MoveReuse(t, IF reuse[t].ref.of \in Eligible THEN "running" ELSE "failed")

End(t, status, applied) ==
    /\ reuse' = [reuse EXCEPT ![t].status = status, ![t].applied = applied]
    /\ UNCHANGED << shelf, spoilt, plan >>

\* applied: a successful chat or vision call carried the method, or a
\* deterministic workflow returned the exact receipt; require_applied turns a
\* run without a trace of the method into a failure
Finish(t, applied) ==
    /\ reuse[t].status = "running"
    /\ End(t, IF applied THEN "completed" ELSE "failed", applied)

\* an error, a rejected review or a restart
FailReuse(t) == reuse[t].status = "running" /\ MoveReuse(t, "failed")

\* a file changes after the run read it
DriftInputs(t) ==
    /\ reuse[t].status = "completed" /\ ~ reuse[t].drifted
    /\ UpdateReuse(t, "drifted", TRUE)

-----------------------------------------------------------------------------
\* formation_evidence: completed bindings that verify to this day, each
\* independent of those counted before it

CompletedEvidence(t) ==
    /\ reuse[t].status = "completed" /\ reuse[t].applied
    /\ reuse[t].ref.of \in Eligible
    /\ ~ reuse[t].drifted

\* by the retries to the first of the family
Family[t \in ReuseTask] ==
    IF reuse[t].retry = NoTask THEN t ELSE Family[reuse[t].retry]

FamilyUnretried(t) == t                                            \* mutant

FamilyRoot(t) == Family[t]

Independent(t, u) ==
    /\ reuse[t].ref.basis # reuse[u].ref.basis
    /\ FamilyRoot(t) # FamilyRoot(u)
    /\ reuse[t].work # reuse[u].work

Counts(p, t, seen) ==
    /\ reuse[t].ref.of = p /\ CompletedEvidence(t)
    /\ \A u \in seen : Independent(t, u)

\* one binding after the other, in the order of creation
CountedUpTo(p) ==
    LET seen[n \in 0 .. Len(reuse)] ==
            IF n = 0 THEN {}
            ELSE seen[n - 1] \cup {t \in {n} : Counts(p, t, seen[n - 1])}
    IN seen

Counted(p) == CountedUpTo(p)[Len(reuse)]

ReuseInit ==
    /\ shelf \in [Package -> {"pending", "approved"}] /\ spoilt = {}
    /\ plan = NoPlan
    /\ reuse = << >>

OnShelf(Change) == Change /\ UNCHANGED << plan, reuse >>

ReuseNext ==
    \/ \E p \in Package : OnShelf(Spoil(p)) \/ OnShelf(Review(p, "approved"))
    \/ \E b \in Basis : Recommend(b)
    \/ \E w \in WorkCase, r \in ReuseTask \cup {NoTask} : Bind(w, r)
    \/ \E t \in ReuseTask :
          \/ VerifyRuntime(t) \/ FailReuse(t) \/ DriftInputs(t)
          \/ \E applied \in BOOLEAN : Finish(t, applied)

ReuseSpec == ReuseInit /\ [][ReuseNext]_reuseVars

-----------------------------------------------------------------------------
ReuseTypeOK ==
    /\ ShelfTypeOK
    /\ plan = NoPlan \/ plan \in [of : Package, basis : Basis]
    /\ reuse \in Seq([ status : {"queued", "running", "completed", "failed"},
                       ref : [of : Package, basis : Basis], work : WorkCase,
                       retry : 0 .. MaxReuse, applied : BOOLEAN, drifted : BOOLEAN ])

\* What a package counts as formed evidence: cases that differ pairwise in
\* segment, work and family, whatever was retried how often, and none left out
\* that is independent of all of them.
EvidenceIsIndependent ==
    \A p \in Package :
        /\ \A t, u \in Counted(p) : t # u =>
              /\ reuse[t].ref.basis # reuse[u].ref.basis
              /\ reuse[t].work # reuse[u].work
              /\ Family[t] # Family[u]
        /\ \A t \in ReuseTask \ Counted(p) :
              CompletedEvidence(t) /\ reuse[t].ref.of = p =>
                  \E u \in Counted(p) : ~ Independent(t, u)
=============================================================================
