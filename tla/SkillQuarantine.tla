--------------------------- MODULE SkillQuarantine ---------------------------
(***************************************************************************)
(* The materializer (ontology/candidate_materializer.py): an accepted       *)
(* candidate becomes a package, files in a content-addressed directory and  *)
(* a row, in the transaction of the acceptance; a start-up backfill does it *)
(* for candidates accepted before packages existed.  The address covers the *)
(* candidate and the accepting session, not the time of the acceptance.     *)
(***************************************************************************)
EXTENDS SkillLedger

CONSTANTS MaxFault     \* bound: crashes, I/O errors and damages

ASSUME FaultAssumption == MaxFault \in Nat

VARIABLES app,         \* the API process: down, starting, up
          tx,          \* the acceptance or backfill that holds the write lock
          backlog,     \* what the start-up discovery found
          disk,        \* quarantine directories by address
          pkg,         \* skill_packages, by candidate digest
          faults

quarantineVars == << app, tx, backlog, disk, pkg, faults >>

Address == Candidate \X Session
NoTx == [ kind |-> "none" ]
NoPackage == [ state |-> "none", at |-> NoOne, review |-> NoOne ]
NoDir == [ entry |-> "none", bytes |-> "none" ]

Whole(a) == disk[a].entry # "none" /\ disk[a].bytes \in {"cached", "durable"}

\* its candidate still verifies, as accepted
SourceStands(c) == PublicProjection(c[1], c[2]) /\ row[c[1]][c[2]].state = "accepted"

\* a pending package has no review, any other exactly the one its row names
ReviewStands(c) == (pkg[c].state = "pending") = (pkg[c].review = NoOne)

\* the cold read of a package: its candidate, its acceptance, every byte and
\* its own events
PackageProjection(c) ==
    /\ SourceStands(c) /\ ReviewStands(c)
    /\ pkg[c].at = << c, row[c[1]][c[2]].decision.by >>
    /\ Whole(pkg[c].at)

\* an accepted revision is shown with its package, read cold, or not at all
WithSkillPackage(c) ==
    row[c[1]][c[2]].state = "accepted" => pkg[c].state # "none" /\ PackageProjection(c)

\* get_for_task, for the latest revision: the ledger and the package first,
\* the live sources after them
CandidateRead(t) ==
    LET c == << t, Latest(t) >> IN
    IF Latest(t) = 0 \/ ~ TaskForOwner(t) THEN "absent" ELSE
    IF ~ PublicProjection(t, Latest(t)) \/ ~ WithSkillPackage(c) THEN "unavailable" ELSE
    IF ~ Projectable(t) \/ Projection(t) # row[t][Latest(t)].content
    THEN "drifted" ELSE "ok"

Begin(kind, c, s) ==
    tx' = [ kind |-> kind, of |-> c, by |-> s, step |-> "install" ]

Install == << tx.of, tx.by >>

AtStep(step) == tx # NoTx /\ tx.step = step
Step(step) == tx' = [tx EXCEPT !.step = step]

-----------------------------------------------------------------------------
\* _install_or_adopt_tree, by the steps a crash can fall between

\* an existing directory is taken over only if every byte is the expected one
Adopt ==
    /\ AtStep("install") /\ disk[Install] # NoDir
    /\ Whole(Install)
    /\ disk' = [disk EXCEPT ![Install].entry = "durable"]
    /\ Step("insert")
    /\ UNCHANGED << ledgerVars, app, backlog, pkg, faults >>

\* every file is written exclusively and synced, in a staging directory
WriteStaging ==
    /\ AtStep("install") /\ disk[Install] = NoDir
    /\ Step("staged")
    /\ UNCHANGED << ledgerVars, app, backlog, disk, pkg, faults >>

Rename ==
    /\ AtStep("staged")
    /\ disk' = [disk EXCEPT ![Install] = [ entry |-> "cached", bytes |-> "durable" ]]
    /\ Step("renamed")
    /\ UNCHANGED << ledgerVars, app, backlog, pkg, faults >>

SyncNothing ==                                                     \* mutant
    /\ AtStep("renamed") /\ Whole(Install)
    /\ Step("insert")
    /\ UNCHANGED << ledgerVars, app, backlog, disk, pkg, faults >>

SyncDirectories ==
    /\ AtStep("renamed") /\ Whole(Install)
    /\ disk' = [disk EXCEPT ![Install].entry = "durable"]
    /\ Step("insert")
    /\ UNCHANGED << ledgerVars, app, backlog, pkg, faults >>

InsertPackage(c, a) ==
    pkg' = [pkg EXCEPT ![c] = [ state |-> "pending", at |-> a, review |-> NoOne ]]

\* the decision, its event and the row of the package in one commit
CommitAcceptance ==
    /\ AtStep("insert") /\ tx.kind = "accept"
    /\ Decide(tx.of[1], tx.of[2], "accepted", tx.by)
    /\ InsertPackage(tx.of, Install)
    /\ tx' = NoTx
    /\ UNCHANGED << fact, deployed, concluded, login, app, backlog, disk, faults >>
    /\ \E c \in {tx.of} : PackageProjection(c)'

CommitBackfill ==
    /\ AtStep("insert") /\ tx.kind = "backfill"
    /\ InsertPackage(tx.of, Install)
    /\ backlog' = backlog \ {tx.of}
    /\ tx' = NoTx
    /\ UNCHANGED << ledgerVars, app, disk, faults >>
    /\ \E c \in {tx.of} : PackageProjection(c)'

AbortAndRetry ==                                                   \* mutant
    /\ tx' = NoTx
    /\ UNCHANGED << ledgerVars, app, backlog, disk, pkg >>

\* any exception: ROLLBACK, the staging directory is removed, a renamed one
\* stays; during start-up the process gives up
Abort ==
    /\ tx' = NoTx
    /\ IF tx.kind = "backfill" THEN app' = "down" /\ backlog' = {}
                               ELSE UNCHANGED << app, backlog >>
    /\ UNCHANGED << ledgerVars, disk, pkg >>

\* the bytes are not the expected ones: of a directory found, of the one just
\* renamed, or in the projection read back before the commit
VerifyFailed ==
    /\ tx # NoTx /\ disk[Install] # NoDir /\ ~ Whole(Install)
    /\ Abort /\ UNCHANGED faults

Fault == faults < MaxFault /\ faults' = faults + 1

IoError == tx # NoTx /\ Fault /\ Abort

-----------------------------------------------------------------------------

\* decide with action "accept", as far as the first touch of the disk
BeginAcceptance(t, n, s) ==
    /\ app = "up" /\ tx = NoTx
    /\ Decidable(t, n, s)
    /\ Begin("accept", << t, n >>, s)
    /\ UNCHANGED << ledgerVars, app, backlog, disk, pkg, faults >>

Unmaterialized ==
    {c \in Candidate : /\ c[2] = Latest(c[1]) /\ row[c[1]][c[2]].state = "accepted"
                       /\ pkg[c].state = "none"}

StartServing ==                                                    \* mutant
    /\ app = "down"
    /\ app' = "starting" /\ backlog' = {}
    /\ UNCHANGED << ledgerVars, tx, disk, pkg, faults >>

StartApp ==
    /\ app = "down"
    /\ app' = "starting" /\ backlog' = Unmaterialized
    /\ UNCHANGED << ledgerVars, tx, disk, pkg, faults >>

\* each row in a transaction of its own, judged again under the lock
BeginBackfill(c) ==
    /\ app = "starting" /\ tx = NoTx /\ c \in backlog
    /\ IF c \in Unmaterialized
       THEN /\ PublicProjection(c[1], c[2])
            /\ Begin("backfill", c, row[c[1]][c[2]].decision.by)
            /\ UNCHANGED backlog
       ELSE backlog' = backlog \ {c} /\ UNCHANGED tx
    /\ UNCHANGED << ledgerVars, app, disk, pkg, faults >>

Serve ==
    /\ app = "starting" /\ tx = NoTx /\ backlog = {}
    /\ app' = "up"
    /\ UNCHANGED << ledgerVars, tx, backlog, disk, pkg, faults >>

DecideUnread(c, verdict, s) ==                                     \* mutant
    /\ app = "up" /\ tx = NoTx /\ SignedIn(s)
    /\ pkg[c].state = "pending" /\ pkg[c].review = NoOne
    /\ pkg' = [pkg EXCEPT ![c].state = verdict, ![c].review = s]
    /\ UNCHANGED << ledgerVars, app, tx, backlog, disk, faults >>

\* decide of the materializer: the review of the package by its owner
DecidePackage(c, verdict, s) ==
    /\ app = "up" /\ tx = NoTx /\ SignedIn(s)
    /\ pkg[c].state = "pending" /\ pkg[c].review = NoOne
    /\ PackageProjection(c)
    /\ pkg' = [pkg EXCEPT ![c].state = verdict, ![c].review = s]
    /\ UNCHANGED << ledgerVars, app, tx, backlog, disk, faults >>

\* the process dies; the kernel keeps what it had been given
KillApp ==
    /\ app # "down" /\ Fault
    /\ app' = "down" /\ tx' = NoTx /\ backlog' = {}
    /\ UNCHANGED << ledgerVars, disk, pkg >>

\* after a power loss an unsynced directory entry may be gone and unsynced
\* bytes are torn
PowerLoss ==
    /\ app # "down" /\ Fault
    /\ app' = "down" /\ tx' = NoTx /\ backlog' = {}
    /\ \E gone \in SUBSET {a \in Address : disk[a].entry = "cached"} :
          disk' = [a \in Address |->
                      IF a \in gone THEN NoDir ELSE
                      IF disk[a].bytes = "cached" THEN [disk[a] EXCEPT !.bytes = "torn"]
                      ELSE disk[a]]
    /\ UNCHANGED << ledgerVars, pkg >>

\* a stored byte changes or a file disappears
Damage(a) ==
    /\ Whole(a) /\ Fault
    /\ disk' = [disk EXCEPT ![a].bytes = "damaged"]
    /\ UNCHANGED << ledgerVars, app, tx, backlog, pkg >>

QuarantineInit ==
    /\ app = "down" /\ tx = NoTx /\ backlog = {} /\ faults = 0
    /\ disk = [a \in Address |-> NoDir]
    /\ pkg = [c \in Candidate |-> NoPackage]
=============================================================================
