------------------------------ MODULE Promotion ------------------------------
(***************************************************************************)
(* The promotion of an agent package from L0 to L1                          *)
(* (governance/promotion.py), the start of the processes that publish it    *)
(* (bootstrap.py, runtime/registry.py) and the curation that writes cases   *)
(* into the same live directory (governance/curation.py).  The API and the  *)
(* server's command line are two processes, each with a registry in memory; *)
(* they share the directory and the database.                               *)
(***************************************************************************)
EXTENDS Integers, FiniteSets

CONSTANTS Process, Cli,   \* the processes; those an operator started by hand
          Api,            \* the one that serves curation
          Sample,
          MaxEdit,        \* edits of the package by its developers
          MaxKill,        \* processes killed
          NoLatch, NoOne,
          Down, Rejected  \* a process that does not run, or publishes no such agent

\* the row: who holds the latch, and why it is still there
Latch == [ by : Process, why : {"pending", "rejection", "rollback failed"} ]

ASSUME PromotionAssumption ==
    /\ Cli \subseteq Process /\ Api \in Process \ Cli
    /\ MaxEdit \in Nat /\ MaxKill \in Nat
    /\ NoOne \notin Sample /\ NoLatch \notin Latch

VARIABLES pkg,         \* the live directory
          db,          \* maturity of the agent's row
          promotions,  \* audit records
          latch,       \* the reserved heartbeat row
          evidence,    \* codes with a green, complete evaluation run
          acked,       \* samples acknowledged in the database
          writer,      \* sample whose transaction holds the write lock
          mem,         \* process -> what its registry publishes
          red,         \* process -> its attestation records are not empty
          op,          \* process -> promotion or start under way
          session,     \* the signer's session is valid
          kills,
          lowered      \* history: a start has put L0 over a row that said L1

diskVars == << pkg, evidence >>
promotionVars == << pkg, db, promotions, latch, evidence, acked, writer, mem, red,
                    op, session, kills, lowered >>

\* code: approved cases and the files the manifest refers to, which the digest
\* of an evaluation covers; log: entries of changelog.md; a draft case carries
\* whether its provenance names an acknowledgement
Code == 0 .. MaxEdit
Cases == [Sample -> {"none", "fixed", "acked"}]

AtRest == [ at |-> "idle" ]
IsPackage(view) == view \notin {Down, Rejected}

\* _promotion_record_attests: a record of exactly these bytes, which an
\* evaluation covers with the maturity line turned back
Attested(view) == \E record \in promotions : record.snapshot = view
Tested(view) == view.code \in evidence

\* capture_agent_package: one consistent copy; a tree that changes under the
\* two readings is refused, and the scan goes on without that agent
Captured == pkg
Scans == {Captured, Rejected}

-----------------------------------------------------------------------------
\* bootstrap.assemble: scan, attestation, and the projection into the database

ScanForStart(p) ==
    /\ mem[p] = Down /\ op[p] = AtRest
    /\ \E view \in Scans : op' = [op EXCEPT ![p] = [ at |-> "starting", shadow |-> view ]]
    /\ UNCHANGED << diskVars, db, promotions, latch, acked, writer, mem, red, session, kills, lowered >>

\* sync_to_db, for what the registry publishes
SyncToDb(view) == db' = view.maturity

Publishable(view) ==
    IsPackage(view) /\ (view.maturity = "L1" => Attested(view) /\ Tested(view))

\* reconcile_promotion_attestations leaves a record of an L1 without proof, and
\* of a row that says L1 when there is no such agent
Rejects(view) == IF IsPackage(view) THEN ~ Publishable(view) ELSE db = "L1"

AssembleRejection(p) ==                                              \* mutant
    /\ op[p].at = "starting" /\ writer = NoOne
    /\ LET view == op[p].shadow IN
       /\ mem' = [mem EXCEPT ![p] = IF Publishable(view) THEN view ELSE Rejected]
       /\ red' = [red EXCEPT ![p] = Rejects(view) \/ latch # NoLatch]
       /\ db' = IF Publishable(view) THEN view.maturity ELSE Rejected
    /\ lowered' = (lowered \/ (db = "L1" /\ db' = "L0"))
    /\ op' = [op EXCEPT ![p] = AtRest]
    /\ UNCHANGED << diskVars, promotions, latch, acked, writer, session, kills >>

\* an L1 without its record is not published and its row is left alone
Assemble(p) ==
    /\ op[p].at = "starting" /\ writer = NoOne
    /\ LET view == op[p].shadow IN
       /\ mem' = [mem EXCEPT ![p] = IF Publishable(view) THEN view ELSE Rejected]
       /\ red' = [red EXCEPT ![p] = Rejects(view) \/ latch # NoLatch]
       /\ IF Publishable(view) THEN SyncToDb(view) ELSE UNCHANGED db
    /\ lowered' = (lowered \/ (db = "L1" /\ db' = "L0"))
    /\ op' = [op EXCEPT ![p] = AtRest]
    /\ UNCHANGED << diskVars, promotions, latch, acked, writer, session, kills >>

Kill(p) ==
    /\ kills < MaxKill /\ mem[p] # Down
    /\ kills' = kills + 1
    /\ mem' = [mem EXCEPT ![p] = Down]
    /\ red' = [red EXCEPT ![p] = FALSE]
    /\ op' = [op EXCEPT ![p] = AtRest]
    /\ writer' = IF p = Api THEN NoOne ELSE writer
    /\ UNCHANGED << diskVars, db, promotions, latch, acked, session, lowered >>

-----------------------------------------------------------------------------
\* promote_agent.  One promotion at a time in a process (_PROMOTION_LOCK).

SignerHolds(p) == p \in Cli \/ session

\* the gates, from the registry in memory and the live directory
CheckGates(p) ==
    /\ op[p] = AtRest /\ IsPackage(mem[p]) /\ mem[p].maturity = "L0"
    /\ pkg.maturity = "L0" /\ Tested(pkg) /\ SignerHolds(p)
    /\ op' = [op EXCEPT ![p] = [ at |-> "checked" ]]
    /\ UNCHANGED << diskVars, db, promotions, latch, acked, writer, mem, red, session, kills, lowered >>

Refuse(p) ==
    /\ op' = [op EXCEPT ![p] = AtRest]
    /\ UNCHANGED << diskVars, db, promotions, acked, writer, mem, session, kills, lowered >>

\* the texts of agent.yaml and changelog.md and the number of records
ReadTexts(p) ==
    /\ op[p].at = "checked"
    /\ IF pkg.maturity # "L0" THEN Refuse(p) /\ UNCHANGED << latch, red >>
       ELSE /\ op' = [op EXCEPT ![p] = [ at |-> "read", log |-> pkg.log,
                                         count |-> Cardinality(promotions) ]]
            /\ UNCHANGED << diskVars, db, promotions, latch, acked, writer, mem, red,
                            session, kills, lowered >>

Pending(p) == [ by |-> p, why |-> "pending" ]

\* record_promotion_attestation_fault: written ahead of the first change
TakeLatch(p) ==
    /\ op[p].at = "read" /\ writer = NoOne
    /\ IF latch # NoLatch THEN Refuse(p) /\ UNCHANGED << latch, red >>
       ELSE /\ latch' = Pending(p)
            /\ op' = [op EXCEPT ![p].at = "latched"]
            /\ UNCHANGED << diskVars, db, promotions, acked, writer, mem, red, session, kills, lowered >>

StillAsRead(p) ==
    /\ pkg.maturity = "L0" /\ pkg.log = op[p].log
    /\ db = "L0" /\ Cardinality(promotions) = op[p].count

RecheckNothing(p) ==                                               \* mutant
    /\ op[p].at = "latched"
    /\ op' = [op EXCEPT ![p].at = "fresh"]
    /\ UNCHANGED << diskVars, db, promotions, latch, acked, writer, mem, red, session, kills, lowered >>

\* holding the latch says nothing of what was read before it; when the latch
\* cannot be cleared it stays, and so it does, unrecorded, when a read fails
Recheck(p) ==
    /\ op[p].at = "latched"
    /\ \/ /\ StillAsRead(p)
          /\ op' = [op EXCEPT ![p].at = "fresh"]
          /\ UNCHANGED << diskVars, db, promotions, latch, acked, writer, mem, red,
                          session, kills, lowered >>
       \/ /\ ~ StillAsRead(p) /\ Refuse(p) /\ writer = NoOne
          /\ \/ latch' = NoLatch /\ UNCHANGED red
             \/ red' = [red EXCEPT ![p] = TRUE] /\ UNCHANGED latch
       \/ Refuse(p) /\ UNCHANGED << latch, red >>

WriteYaml(p) ==
    /\ op[p].at = "fresh"
    /\ pkg' = [pkg EXCEPT !.maturity = "L1"]
    /\ op' = [op EXCEPT ![p].at = "written"]
    /\ UNCHANGED << db, promotions, latch, evidence, acked, writer, mem, red, session, kills, lowered >>

AppendChangelog(p) ==
    /\ op[p].at = "written"
    /\ pkg' = [pkg EXCEPT !.log = @ + 1]
    /\ op' = [op EXCEPT ![p].at = "logged"]
    /\ UNCHANGED << db, promotions, latch, evidence, acked, writer, mem, red, session, kills, lowered >>

\* _build_reconciled_shadow: the target is exempt from its own attestation
ScanShadow(p) ==
    /\ op[p].at = "logged"
    /\ op' = [op EXCEPT ![p] = [ at |-> "scanned", log |-> @.log, shadow |-> Captured ]]
    /\ UNCHANGED << diskVars, db, promotions, latch, acked, writer, mem, red, session, kills, lowered >>

Undoing(p, keep) == [ at |-> "undoing", log |-> op[p].log, keep |-> keep ]

\* update_promotion_attestation_fault: the pending row gets its reason, or
\* stays as it is when that fails
Escalate(why) ==
    latch' \in {latch, [latch EXCEPT !.why = IF @ = "pending" THEN why ELSE @]}

\* _persist_new_runtime_rejections: another agent's L1 is no longer attested
PersistRejection(p) == red' = [red EXCEPT ![p] = TRUE] /\ Escalate("rejection")

MeetRejection(p) ==
    /\ op[p].at = "logged" /\ writer = NoOne
    /\ op' = [op EXCEPT ![p] = Undoing(p, TRUE)]
    /\ PersistRejection(p)
    /\ UNCHANGED << diskVars, db, promotions, acked, writer, mem, session, kills, lowered >>

CommitUntested(p) ==                                               \* mutant
    /\ op[p].at = "scanned" /\ writer = NoOne
    /\ SignerHolds(p)
    /\ db' = "L1"
    /\ promotions' = promotions \cup {[ by |-> p, snapshot |-> op[p].shadow ]}
    /\ op' = [op EXCEPT ![p].at = "committed"]
    /\ UNCHANGED << diskVars, latch, acked, writer, mem, red, session, kills, lowered >>

CommitUnsigned(p) ==                                               \* mutant
    /\ op[p].at = "scanned" /\ writer = NoOne
    /\ Tested(op[p].shadow)
    /\ db' = "L1"
    /\ promotions' = promotions \cup {[ by |-> p, snapshot |-> op[p].shadow ]}
    /\ op' = [op EXCEPT ![p].at = "committed"]
    /\ UNCHANGED << diskVars, latch, acked, writer, mem, red, session, kills, lowered >>

\* the evidence for the snapshot, then projection and record in one
\* transaction, in which the signer is resolved again
CommitPromotion(p) ==
    /\ op[p].at = "scanned" /\ writer = NoOne
    /\ Tested(op[p].shadow) /\ SignerHolds(p)
    /\ db' = "L1"
    /\ promotions' = promotions \cup {[ by |-> p, snapshot |-> op[p].shadow ]}
    /\ op' = [op EXCEPT ![p].at = "committed"]
    /\ UNCHANGED << diskVars, latch, acked, writer, mem, red, session, kills, lowered >>

\* published only when it can be proved
Adopt(p) ==
    /\ op[p].at = "committed"
    /\ mem' = [mem EXCEPT ![p] = op[p].shadow]
    /\ op' = [op EXCEPT ![p] = [ at |-> "clearing" ]]
    /\ UNCHANGED << diskVars, db, promotions, latch, acked, writer, red, session, kills, lowered >>

\* a failed write or scan, evidence that no longer covers the snapshot, a
\* session that ended
Fail(p) ==
    /\ op[p].at \in {"fresh", "written", "logged", "scanned"}
    /\ op' = [op EXCEPT ![p] = Undoing(p, FALSE)]
    /\ UNCHANGED << diskVars, db, promotions, latch, acked, writer, mem, red, session, kills, lowered >>

\* _restore_disk_and_projection: the two texts, then scan, row and registry
RestoreYaml(p) ==
    /\ op[p].at = "undoing"
    /\ pkg' = [pkg EXCEPT !.maturity = "L0"]
    /\ op' = [op EXCEPT ![p].at = "relogging"]
    /\ UNCHANGED << db, promotions, latch, evidence, acked, writer, mem, red, session, kills, lowered >>

RestoreChangelog(p) ==
    /\ op[p].at = "relogging"
    /\ pkg' = [pkg EXCEPT !.log = op[p].log]
    /\ op' = [op EXCEPT ![p].at = "restored"]
    /\ UNCHANGED << db, promotions, latch, evidence, acked, writer, mem, red, session, kills, lowered >>

Republish(p) ==
    /\ op[p].at = "restored" /\ writer = NoOne
    /\ \E view \in Scans :
          /\ IF IsPackage(view) THEN SyncToDb(view) ELSE UNCHANGED db
          /\ mem' = [mem EXCEPT ![p] = view]
    /\ \/ /\ op' = [op EXCEPT ![p] = IF op[p].keep THEN AtRest ELSE [ at |-> "clearing" ]]
          /\ UNCHANGED << latch, red >>
       \/ PersistRejection(p) /\ op' = [op EXCEPT ![p] = AtRest]
    /\ UNCHANGED << diskVars, promotions, acked, writer, session, kills, lowered >>

LeaveQuietly(p) ==                                                \* mutant
    /\ op[p].at \in {"undoing", "relogging", "restored"} /\ writer = NoOne
    /\ latch' = NoLatch
    /\ red' = [red EXCEPT ![p] = TRUE]
    /\ op' = [op EXCEPT ![p] = AtRest]
    /\ UNCHANGED << diskVars, db, promotions, acked, writer, mem, session, kills, lowered >>

\* the restoration fails as well: the latch stays, with the reason when the
\* database still takes it
LeaveLatched(p) ==
    /\ op[p].at \in {"undoing", "relogging", "restored"} /\ writer = NoOne
    /\ Escalate("rollback failed")
    /\ red' = [red EXCEPT ![p] = TRUE]
    /\ op' = [op EXCEPT ![p] = AtRest]
    /\ UNCHANGED << diskVars, db, promotions, acked, writer, mem, session, kills, lowered >>

\* compare and delete; when the database fails the process stays red
ClearLatch(p) ==
    /\ op[p].at = "clearing" /\ writer = NoOne
    /\ \/ latch' = (IF latch = Pending(p) THEN NoLatch ELSE latch) /\ UNCHANGED red
       \/ red' = [red EXCEPT ![p] = TRUE] /\ UNCHANGED latch
    /\ op' = [op EXCEPT ![p] = AtRest]
    /\ UNCHANGED << diskVars, db, promotions, acked, writer, mem, session, kills, lowered >>

-----------------------------------------------------------------------------
\* curation: a case file and an acknowledgement under one write lock

WritableUnlatched ==                                               \* mutant
    /\ writer = NoOne
    /\ IsPackage(mem[Api]) /\ mem[Api].maturity = "L0" /\ db = "L0"

Writable ==
    /\ writer = NoOne /\ latch = NoLatch
    /\ IsPackage(mem[Api]) /\ mem[Api].maturity = "L0" /\ db = "L0"

\* fix_sample_as_eval_case
FixSample(s) ==
    /\ Writable /\ pkg.cases[s] = "none"
    /\ pkg' = [pkg EXCEPT !.cases[s] = "fixed"]
    /\ UNCHANGED << db, promotions, latch, evidence, acked, writer, mem, red, op,
                    session, kills, lowered >>

\* acknowledge_sample: the file is linked into place before the commit; a case
\* that is there without an acknowledgement is a conflict
Acknowledge(s) ==
    /\ Writable /\ s \notin acked /\ pkg.cases[s] = "none"
    /\ pkg' = [pkg EXCEPT !.cases[s] = "acked"]
    /\ writer' = s
    /\ UNCHANGED << db, promotions, latch, evidence, acked, mem, red, op, session, kills, lowered >>

\* acknowledge_sample_once, a compare and set of the first acknowledgement
AcknowledgeOnce(s) == acked' = acked \cup {s}

\* COMMIT, or its failure, which leaves the file for somebody to look at
EndAcknowledge ==
    /\ writer # NoOne
    /\ AcknowledgeOnce(writer) \/ UNCHANGED acked
    /\ writer' = NoOne
    /\ UNCHANGED << diskVars, db, promotions, latch, mem, red, op, session, kills, lowered >>

-----------------------------------------------------------------------------
\* the surroundings

Edit ==
    /\ pkg.code < MaxEdit
    /\ pkg' = [pkg EXCEPT !.code = @ + 1]
    /\ UNCHANGED << db, promotions, latch, evidence, acked, writer, mem, red, op,
                    session, kills, lowered >>

Evaluate ==
    /\ pkg.maturity = "L0" /\ ~ Tested(pkg) /\ latch = NoLatch
    /\ evidence' = evidence \cup {pkg.code}
    /\ UNCHANGED << pkg, db, promotions, latch, acked, writer, mem, red, op, session, kills, lowered >>

Revoke ==
    /\ session /\ session' = FALSE
    /\ UNCHANGED << diskVars, db, promotions, latch, acked, writer, mem, red, op, kills, lowered >>

Draft == [ maturity |-> "L0", log |-> 0, code |-> 0, cases |-> [s \in Sample |-> "none"] ]

PromotionInit ==
    /\ pkg = Draft /\ db = "L0" /\ promotions = {} /\ latch = NoLatch
    /\ evidence = {0} /\ acked = {} /\ writer = NoOne
    /\ mem = [p \in Process |-> IF p = Api THEN Draft ELSE Down]
    /\ red = [p \in Process |-> FALSE]
    /\ op = [p \in Process |-> AtRest]
    /\ session = TRUE /\ kills = 0 /\ lowered = FALSE

PromotionNext ==
    \/ \E p \in Process :
          \/ ScanForStart(p) \/ Assemble(p) \/ Kill(p)
          \/ CheckGates(p) \/ ReadTexts(p) \/ TakeLatch(p) \/ Recheck(p)
          \/ WriteYaml(p) \/ AppendChangelog(p) \/ ScanShadow(p) \/ MeetRejection(p)
          \/ CommitPromotion(p) \/ Adopt(p) \/ ClearLatch(p)
          \/ Fail(p) \/ RestoreYaml(p) \/ RestoreChangelog(p) \/ Republish(p)
          \/ LeaveLatched(p)
    \/ \E s \in Sample : FixSample(s) \/ Acknowledge(s)
    \/ EndAcknowledge \/ Edit \/ Evaluate \/ Revoke

PromotionSpec == PromotionInit /\ [][PromotionNext]_promotionVars

-----------------------------------------------------------------------------
Package == [ maturity : {"L0", "L1"}, log : Nat, code : Code, cases : Cases ]

\* where a start or a promotion is, and the locals it still needs
Operation ==
    [ at : {"idle", "checked", "clearing"} ]
    \cup [ at : {"starting"}, shadow : Package \cup {Rejected} ]
    \cup [ at : {"read", "latched", "fresh", "written", "logged"}, log : Nat, count : Nat ]
    \cup [ at : {"scanned", "committed"}, log : Nat, shadow : Package ]
    \cup [ at : {"undoing", "relogging", "restored"}, log : Nat, keep : BOOLEAN ]

PromotionTypeOK ==
    /\ pkg \in Package /\ db \in {"L0", "L1"}
    /\ IsFiniteSet(promotions)
    /\ \A record \in promotions : record.by \in Process /\ record.snapshot \in Package
    /\ latch \in Latch \cup {NoLatch}
    /\ evidence \subseteq Code /\ acked \subseteq Sample /\ writer \in Sample \cup {NoOne}
    /\ mem \in [Process -> Package \cup {Down, Rejected}]
    /\ red \in [Process -> BOOLEAN]
    /\ op \in [Process -> Operation]
    /\ session \in BOOLEAN /\ kills \in 0 .. MaxKill /\ lowered \in BOOLEAN

\* What a registry publishes as L1, and what the database projects as L1, has
\* its promotion record, for exactly the published bytes; and those bytes are
\* the ones an evaluation has passed, whoever edits the directory meanwhile.
L1IsProven ==
    /\ \A p \in Process : IsPackage(mem[p]) /\ mem[p].maturity = "L1" => Attested(mem[p])
    /\ db = "L1" => promotions # {}
    /\ \A record \in promotions : record.snapshot.maturity = "L1" /\ Tested(record.snapshot)

\* A directory that says L1 or logs a promotion without a record is never
\* unnoticed: the latch that stops the workers is set, whatever fails or dies
\* between the first write and the last.
UnprovenIsLatched ==
    pkg.maturity = "L1" \/ pkg.log > 0 => promotions # {} \/ latch # NoLatch

\* One promotion of a version: two processes with their own registries do not
\* both take it from L0 to L1 (the ABA the recheck is for).
PromotedOnce == Cardinality(promotions) <= 1

\* A session that has ended signs nothing.
SignedByTheLiving ==
    [][promotions' # promotions => \A record \in promotions' \ promotions :
                                       record.by \in Cli \/ session]_promotionVars

\* A promoted package, once the latch is gone and unless its developers touch
\* it, is the one of its record, so that the next start publishes it: curation
\* does not slip a case in between scan and commit.  (Unless a process that
\* started meanwhile has projected the older maturity: L1IsNotWritten.)
PromotedStaysAttested ==
    promotions # {} /\ latch = NoLatch /\ pkg.code = 0 /\ ~ lowered => Attested(pkg)

\* Curation does not write into an L1 package (curation.py, CurationPackageConflict
\* "L1 ..."): refuted by a start that projects what it scanned before.
L1IsNotWritten ==
    [][pkg.maturity = "L1" => pkg'.cases = pkg.cases]_promotionVars

\* An acknowledgement in the database has the case that names it.
AcknowledgedHasCase == \A s \in acked : pkg.cases[s] = "acked"
=============================================================================
