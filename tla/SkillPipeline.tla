---------------------------- MODULE SkillPipeline ----------------------------
(***************************************************************************)
(* The asset pipeline: the candidate ledger, the quarantine of packages,    *)
(* the process that serves both and the sources that change meanwhile.  A   *)
(* write to the database needs its write lock, which an acceptance and a    *)
(* backfill keep while they work on the disk; the package registry is on    *)
(* the disk and changes at any time.                                        *)
(***************************************************************************)
EXTENDS SkillQuarantine

pipelineVars == << ledgerVars, quarantineVars >>

PipelineInit == LedgerInit /\ QuarantineInit

\* a request of its own against an idle database
Locked(Write) == app = "up" /\ tx = NoTx /\ Write /\ UNCHANGED quarantineVars

Submit(t) == Locked(CreateCandidate(t))
Refuse(t, n, s) == Locked(RejectCandidate(t, n, s))
Conclude(t) == Locked(ConcludeConversation(t))
SignOut(s) == Locked(Logout(s))
Deploy == DeployPackage /\ UNCHANGED quarantineVars

Owner ==
    \/ \E t \in Source : Submit(t) \/ Conclude(t)
    \/ \E t \in Source, n \in 1 .. MaxRev, s \in Session :
          Refuse(t, n, s) \/ BeginAcceptance(t, n, s)
    \/ \E c \in Candidate, s \in Session, verdict \in {"approved", "rejected"} :
          DecidePackage(c, verdict, s)
    \/ \E s \in Session : SignOut(s)
    \/ Deploy

Materialize ==
    \/ Adopt \/ VerifyFailed \/ WriteStaging \/ Rename \/ SyncDirectories
    \/ CommitAcceptance \/ CommitBackfill

Startup == Serve \/ \E c \in Candidate : BeginBackfill(c)

Misfortune == IoError \/ KillApp \/ PowerLoss \/ \E a \in Address : Damage(a)

PipelineNext == Owner \/ Materialize \/ StartApp \/ Startup \/ Misfortune

PipelineSafety == PipelineInit /\ [][PipelineNext]_pipelineVars

\* a transaction and a start-up that have begun go on: nothing in them waits
PipelineSpec == /\ PipelineSafety
                /\ WF_pipelineVars(Materialize) /\ WF_pipelineVars(Startup)

-----------------------------------------------------------------------------
RowTypeOK(r) ==
    /\ r.content.evidence \in Digest /\ r.content.concluded \in BOOLEAN
    /\ r.state \in {"awaiting", "accepted", "rejected", "superseded"}
    /\ r.decision \in entry \cup {NoOne}

PipelineTypeOK ==
    /\ \A t \in Source : fact[t] \in {SoundFact} \cup Flawed
    /\ deployed \in Digest
    /\ concluded \in [Source -> BOOLEAN] /\ login \subseteq Session
    /\ \A t \in Source : Len(row[t]) <= MaxRev /\ \A n \in 1 .. Latest(t) : RowTypeOK(row[t][n])
    /\ app \in {"down", "starting", "up"} /\ backlog \subseteq Candidate
    /\ \A a \in Address :
          /\ disk[a].entry \in {"none", "cached", "durable"}
          /\ disk[a].bytes \in {"none", "cached", "durable", "torn", "damaged"}
    /\ \A c \in Candidate :
          /\ pkg[c].state \in {"none", "pending", "approved", "rejected"}
          /\ pkg[c].at \in Address \cup {NoOne} /\ pkg[c].review \in Session \cup {NoOne}
    /\ faults \in 0 .. MaxFault

\* Every revision the ledger has written verifies for ever, and while the API
\* serves, the candidate of a task reads as unavailable (asset_candidates.py
\* get_for_task) for one reason only: the stored bytes of the package of its
\* accepted revision were damaged.  No order of submissions, decisions, crashes,
\* power losses, backfills and reviews of packages leads there.
LedgerVerifies ==
  \A t \in Source :
    /\ app = "up" /\ CandidateRead(t) = "unavailable" =>
         /\ row[t][Latest(t)].state = "accepted"
         /\ disk[pkg[<< t, Latest(t) >>].at].bytes = "damaged"
    /\ \A n \in 1 .. Latest(t) :
        /\ RevisionChain(t, n)
        /\ row[t][n].state # "superseded" => PublicProjection(t, n)

\* A package the database names is on stable storage, its directory entry and
\* its bytes: no power loss after the commit of the acceptance can lose it
\* (candidate_materializer.py _install_or_adopt_tree syncs before the commit).
PackageIsDurable ==
    \A c \in Candidate : pkg[c].state # "none" =>
        /\ disk[pkg[c].at].entry = "durable"
        /\ disk[pkg[c].at].bytes \in {"durable", "damaged"}

\* While the API serves, every accepted latest revision has its package, those
\* an earlier release accepted included (main.py runs the backfill first).
AcceptedIsMaterialized == app = "up" => Unmaterialized = {}

\* A revision changes from awaiting once and for ever, and the review of a
\* package is given once; crashes and concurrent requests included.
DecisionsAreFinal ==
    [][/\ \A t \in Source : \A n \in 1 .. Latest(t) :
             row[t][n].state # "awaiting" => row'[t][n] = row[t][n]
       /\ \A c \in Candidate :
             pkg[c].review # NoOne => pkg'[c] = pkg[c]]_pipelineVars

\* Whoever decides a revision has a session at the moment of the commit, and
\* what the database says of the source is what the revision holds: nothing
\* slips in between the checks and the commit, however long the disk takes.
DecidedOnEvidence ==
    [][\A t \in Source : \A n \in 1 .. Latest(t) :
         row[t][n].state = "awaiting" /\ row'[t][n].state \in Decided =>
             /\ row'[t][n].decision.by \in login
             /\ row[t][n].content = Projection(t)
             /\ fact[t].terminal = "eligible" /\ SignoffLineage(t)]_pipelineVars

\* A start-up comes to an end: it serves, or gives up on a package it cannot
\* install; it never stays between the two.
StartupEnds == app = "starting" ~> app # "starting"

\* What the pipeline promises those who reuse its packages.
Shelf == INSTANCE PackageShelf WITH
    Package <- Candidate,
    shelf <- [c \in Candidate |-> pkg[c].state],
    spoilt <- {c \in Candidate : pkg[c].state # "none" /\ ~ PackageProjection(c)}

ImplementsShelf == Shelf!ShelfSpec
=============================================================================
