------------------------- MODULE SkillPipeline_proofs -------------------------
(***************************************************************************)
(* What the asset pipeline guarantees for every set of sources and sessions *)
(* and every number of revisions and faults: the types; what the ledger's   *)
(* revisions and events say of each other; what an open transaction and a   *)
(* start-up may rely on; and, from these, the safety properties and the     *)
(* implementation of the shelf.                                             *)
(***************************************************************************)
EXTENDS SkillPipeline, SequenceTheorems, FiniteSetTheorems, TLAPS

\* what rows, events, transactions and directories are
Entry == [ of : Candidate, type : {"created", "superseded", "accepted", "rejected"},
           by : Session \cup {NoOne}, no : Nat ]

Content == [ evidence : Digest, concluded : BOOLEAN ]

State == {"awaiting", "accepted", "rejected", "superseded"}

Revision == [ content : Content, state : State, decision : Entry \cup {NoOne} ]

Directory == [ entry : {"none", "cached", "durable"},
               bytes : {"none", "cached", "durable", "torn", "damaged"} ]

PackageRow == [ state : {"none", "pending", "approved", "rejected"},
                at : Address \cup {NoOne}, review : Session \cup {NoOne} ]

Transaction == [ kind : {"accept", "backfill"}, of : Candidate, by : Session,
                 step : {"install", "staged", "renamed", "insert"} ]

EntriesOf(c) == {e \in entry : e.of = c}

LedgerTypeOK ==
    /\ fact \in [Source -> {SoundFact} \cup Flawed]
    /\ deployed \in Digest
    /\ concluded \in [Source -> BOOLEAN] /\ login \subseteq Session
    /\ row \in [Source -> Seq(Revision)]
    /\ \A t \in Source : Latest(t) <= MaxRev
    /\ entry \subseteq Entry
    /\ \A c \in Candidate : IsFiniteSet(EntriesOf(c))

QuarantineTypeOK ==
    /\ app \in {"down", "starting", "up"} /\ backlog \subseteq Candidate
    /\ tx \in Transaction \cup {NoTx}
    /\ disk \in [Address -> Directory]
    /\ pkg \in [Candidate -> PackageRow]
    /\ faults \in 0 .. MaxFault

TypeInv == LedgerTypeOK /\ QuarantineTypeOK

-----------------------------------------------------------------------------
\* The evidence of a source is a digest, whatever its flaw.
LEMMA Facts == \A f \in {SoundFact} \cup Flawed : f.started \in Digest
    BY SMT DEF SoundFact, Flawed, Digest

\* A projection has the shape of a content.
LEMMA Projected ==
    ASSUME LedgerTypeOK, NEW t \in Source
    PROVE  Projection(t) \in Content /\ NewRow(t) \in Revision
<1>1. fact[t].started \in Digest
    BY Facts DEF LedgerTypeOK
<1> QED
    BY <1>1 DEF LedgerTypeOK, Projection, Content, NewRow, Revision, State

\* A new event is an event.
LEMMA EventType ==
    ASSUME LedgerTypeOK, NEW c \in Candidate,
           NEW type \in {"created", "superseded", "accepted", "rejected"},
           NEW by \in Session \cup {NoOne}
    PROVE  /\ Event(c, type, by) \in Entry
           /\ Event(c, type, by).of = c /\ Event(c, type, by).type = type
           /\ Event(c, type, by).by = by
<1>1. IsFiniteSet({e \in entry : e.of = c})
    BY DEF LedgerTypeOK, EntriesOf
<1>2. Cardinality({e \in entry : e.of = c}) \in Nat
    BY <1>1, FS_CardinalityType
<1>3. 1 + Cardinality({e \in entry : e.of = c}) \in Nat
    BY <1>2
<1> QED
    BY <1>3 DEF Event, Entry

\* One or two more events leave every candidate with finitely many.
LEMMA MoreEntries ==
    ASSUME LedgerTypeOK, NEW x \in Entry, NEW y \in Entry, entry' = entry \cup {x, y}
    PROVE  /\ entry' \subseteq Entry
           /\ \A c \in Candidate : IsFiniteSet(EntriesOf(c)')
<1>1. ASSUME NEW c \in Candidate PROVE IsFiniteSet(EntriesOf(c)')
    <2>1. IsFiniteSet(EntriesOf(c))
        BY DEF LedgerTypeOK
    <2>2. IsFiniteSet((EntriesOf(c) \cup {x}) \cup {y})
        BY <2>1, FS_AddElement
    <2>3. EntriesOf(c)' \in SUBSET ((EntriesOf(c) \cup {x}) \cup {y})
        BY DEF EntriesOf
    <2> QED
        BY <2>2, <2>3, FS_Subset
<1> QED
    BY <1>1 DEF LedgerTypeOK

\* The candidates of a source, by number.
LEMMA Numbers ==
    ASSUME LedgerTypeOK, NEW t \in Source
    PROVE  /\ row[t] \in Seq(Revision) /\ Latest(t) = Len(row[t]) /\ Latest(t) \in Nat
           /\ Latest(t) \in 0 .. MaxRev
           /\ \A n \in 1 .. Latest(t) : row[t][n] \in Revision /\ << t, n >> \in Candidate
<1>1. row[t] \in Seq(Revision) /\ Latest(t) = Len(row[t]) /\ Latest(t) <= MaxRev
    BY DEF LedgerTypeOK, Latest
<1>2. Len(row[t]) \in Nat /\ \A n \in 1 .. Len(row[t]) : row[t][n] \in Revision
    BY <1>1, LenProperties, ElementOfSeq
<1> QED
    BY <1>1, <1>2, LedgerAssumption DEF Candidate

-----------------------------------------------------------------------------
(* What the three writes of the ledger do to a row *)

\* The decision of revision n of t.
LEMMA DecideRow ==
    ASSUME LedgerTypeOK, NEW t \in Source, NEW n \in 1 .. Latest(t),
           NEW state \in Decided, NEW s \in Session, Decide(t, n, state, s)
    PROVE  LET e == Event(<< t, n >>, state, s) IN
           /\ row' \in [Source -> Seq(Revision)]
           /\ entry' = entry \cup {e} /\ e \in Entry
           /\ e.of = << t, n >> /\ e.type = state /\ e.by = s
           /\ \A u \in Source : Latest(u)' = Latest(u)
           /\ \A u \in Source : \A k \in 1 .. Latest(u) :
                 u # t \/ k # n => row'[u][k] = row[u][k]
           /\ row'[t][n].state = state /\ row'[t][n].decision = e
           /\ row'[t][n].content = row[t][n].content
<1> DEFINE e == Event(<< t, n >>, state, s)
           r == Moved(t, n, state, e)
<1>1. e \in Entry /\ e.of = << t, n >> /\ e.type = state /\ e.by = s
    BY Numbers, EventType DEF Decided
<1>2. row[t] \in Seq(Revision) /\ n \in 1 .. Len(row[t]) /\ row[t][n] \in Revision
    BY Numbers
<1>3. /\ r \in Revision /\ r.state = state /\ r.decision = e
      /\ r.content = row[t][n].content
    BY <1>1, <1>2 DEF Moved, Revision, State, Decided
<1>4. row' = [row EXCEPT ![t] = [row[t] EXCEPT ![n] = r]] /\ entry' = entry \cup {e}
    BY DEF Decide, SetRow
<1> HIDE DEF e, r
<1>5. /\ [row[t] EXCEPT ![n] = r] \in Seq(Revision)
      /\ Len([row[t] EXCEPT ![n] = r]) = Len(row[t])
      /\ \A k \in 1 .. Len(row[t]) :
            [row[t] EXCEPT ![n] = r][k] = IF k = n THEN r ELSE row[t][k]
    BY <1>2, <1>3, ExceptSeq
<1>6. row'[t] = [row[t] EXCEPT ![n] = r] /\ \A u \in Source : u # t => row'[u] = row[u]
    BY <1>4 DEF LedgerTypeOK
<1>7. row' \in [Source -> Seq(Revision)]
    BY <1>4, <1>5 DEF LedgerTypeOK
<1>8. \A u \in Source : Latest(u)' = Latest(u)
    BY <1>5, <1>6 DEF Latest
<1>9. ASSUME NEW u \in Source, NEW k \in 1 .. Latest(u), u # t \/ k # n
      PROVE  row'[u][k] = row[u][k]
    BY <1>5, <1>6, <1>9 DEF Latest
<1>10. row'[t][n] = r
    BY <1>2, <1>5, <1>6
<1> QED
    BY <1>1, <1>3, <1>4, <1>7, <1>8, <1>9, <1>10 DEF e

\* A new revision of t, on top of one it leaves alone or retires.
LEMMA CreateRow ==
    ASSUME LedgerTypeOK, NEW t \in Source, CreateCandidate(t)
    PROVE  LET n == Latest(t)
               old == Event(<< t, n >>, "superseded", NoOne)
               new == Event(<< t, n + 1 >>, "created", NoOne)
               retire == n > 0 /\ row[t][n].state = "awaiting" IN
           /\ n \in Nat /\ n < MaxRev
           /\ row' \in [Source -> Seq(Revision)]
           /\ \A u \in Source : Latest(u)' = IF u = t THEN n + 1 ELSE Latest(u)
           /\ \A u \in Source : \A k \in 1 .. Latest(u) :
                 u # t \/ k # n \/ ~ retire => row'[u][k] = row[u][k]
           /\ retire => /\ row'[t][n].state = "superseded" /\ row'[t][n].decision = old
                        /\ row'[t][n].content = row[t][n].content
                        /\ old \in Entry /\ old.of = << t, n >>
                        /\ old.type = "superseded"
           /\ row'[t][n + 1] = NewRow(t)
           /\ new \in Entry /\ new.of = << t, n + 1 >> /\ new.type = "created"
           /\ entry' = IF retire THEN entry \cup {old, new} ELSE entry \cup {new}
<1> DEFINE n == Latest(t)
           old == Event(<< t, n >>, "superseded", NoOne)
           new == Event(<< t, n + 1 >>, "created", NoOne)
           retire == n > 0 /\ row[t][n].state = "awaiting"
           r == Moved(t, n, "superseded", old)
           base == IF retire THEN [row[t] EXCEPT ![n] = r] ELSE row[t]
<1>1. n \in Nat /\ n < MaxRev /\ n + 1 \in 1 .. MaxRev /\ row[t] \in Seq(Revision)
      /\ n = Len(row[t])
    BY Numbers, LedgerAssumption DEF CreateCandidate
<1>2. << t, n + 1 >> \in Candidate
    BY <1>1 DEF Candidate
<1>3. new \in Entry /\ new.of = << t, n + 1 >> /\ new.type = "created"
    BY <1>2, EventType
<1>4. NewRow(t) \in Revision
    BY Projected
<1>5. ASSUME retire
      PROVE  /\ n \in 1 .. Len(row[t]) /\ row[t][n] \in Revision
             /\ old \in Entry /\ old.of = << t, n >> /\ old.type = "superseded"
             /\ r \in Revision /\ r.state = "superseded" /\ r.decision = old
             /\ r.content = row[t][n].content
    <2>1. n \in 1 .. Len(row[t]) /\ row[t][n] \in Revision /\ << t, n >> \in Candidate
        BY <1>1, <1>5, Numbers
    <2>2. old \in Entry /\ old.of = << t, n >> /\ old.type = "superseded"
        BY <2>1, EventType
    <2> QED
        BY <2>1, <2>2 DEF Moved, Revision, State
<1>6. /\ row' = [row EXCEPT ![t] = Append(base, NewRow(t))]
      /\ entry' = IF retire THEN entry \cup {old, new} ELSE entry \cup {new}
    <2>1. CASE retire
        BY <2>1 DEF CreateCandidate, Supersede
    <2>2. CASE ~ retire
        BY <2>2 DEF CreateCandidate, Succeed
    <2> QED
        BY <2>1, <2>2
<1> HIDE DEF n, old, new, r
<1>7. /\ base \in Seq(Revision) /\ Len(base) = n
      /\ \A k \in 1 .. n : base[k] = IF retire /\ k = n THEN r ELSE row[t][k]
    BY <1>1, <1>5, ExceptSeq
<1> HIDE DEF base
<1>8. /\ Append(base, NewRow(t)) \in Seq(Revision)
      /\ Len(Append(base, NewRow(t))) = n + 1
      /\ \A k \in 1 .. n : Append(base, NewRow(t))[k] = base[k]
      /\ Append(base, NewRow(t))[n + 1] = NewRow(t)
    BY <1>4, <1>7, AppendProperties
<1>9. /\ row'[t] = Append(base, NewRow(t))
      /\ \A u \in Source : u # t => row'[u] = row[u]
    BY <1>6 DEF LedgerTypeOK
<1>10. row' \in [Source -> Seq(Revision)]
    BY <1>6, <1>8 DEF LedgerTypeOK
<1>11. \A u \in Source : Latest(u)' = IF u = t THEN n + 1 ELSE Latest(u)
    BY <1>8, <1>9 DEF Latest
<1>12. ASSUME NEW u \in Source, NEW k \in 1 .. Latest(u), u # t \/ k # n \/ ~ retire
       PROVE  row'[u][k] = row[u][k]
    <2>1. CASE u # t
        BY <2>1, <1>9
    <2>2. CASE u = t
        BY <2>2, <1>7, <1>8, <1>9, <1>12 DEF n
    <2> QED
        BY <2>1, <2>2
<1>13. ASSUME retire PROVE row'[t][n] = r
    BY <1>1, <1>5, <1>7, <1>8, <1>9, <1>13
<1>14. row'[t][n + 1] = NewRow(t)
    BY <1>8, <1>9
<1> QED
    BY <1>1, <1>3, <1>5, <1>6, <1>10, <1>11, <1>12, <1>13, <1>14 DEF n, old, new

-----------------------------------------------------------------------------
(* The invariant *)

\* A revision and the events of it: created once; retired or decided by the
\* event its row names; only the latest one awaits a decision.
RevisionInv(t, n) ==
    /\ \E e \in entry : {x \in entry : x.of = << t, n >> /\ x.type = "created"} = {e}
    /\ row[t][n].state = "awaiting" =>
          /\ n = Latest(t) /\ row[t][n].decision = NoOne
          /\ \A e \in entry : e.of = << t, n >> => e.type = "created"
    /\ row[t][n].state = "superseded" => n < Latest(t) /\ SupersededEvent(t, n)
    /\ row[t][n].state \in Decided => TerminalEvent(t, n)

LedgerInv ==
    \A t \in Source :
        /\ \A n \in 1 .. Latest(t) : RevisionInv(t, n)
        /\ \A n \in Nat : n > Latest(t) => \A e \in entry : e.of # << t, n >>

\* What an acceptance has read stays true while it holds the write lock.
Awaited(t, n) ==
    /\ row[t][n].state = "awaiting" /\ row[t][n].content = Projection(t)
    /\ fact[t].terminal = "eligible" /\ SignoffLineage(t)

LockInv ==
    tx # NoTx =>
        /\ tx.of[2] \in 1 .. Latest(tx.of[1])
        /\ tx.kind = "accept" =>
              app = "up" /\ tx.by \in login /\ Awaited(tx.of[1], tx.of[2])
        /\ tx.kind = "backfill" =>
              /\ app = "starting" /\ tx.of \in backlog /\ tx.of \in Unmaterialized
              /\ tx.by = row[tx.of[1]][tx.of[2]].decision.by
        /\ tx.step = "insert" => disk[Install].entry = "durable"

\* Nothing is renamed into place before its bytes are synced.
DiskInv ==
    \A a \in Address :
        \/ disk[a] = NoDir
        \/ disk[a].entry \in {"cached", "durable"} /\ disk[a].bytes \in {"durable", "damaged"}

PackageInv ==
    \A c \in Candidate :
        /\ pkg[c].state = "none" => pkg[c].review = NoOne
        /\ pkg[c].state # "none" =>
              /\ c[2] \in 1 .. Latest(c[1]) /\ row[c[1]][c[2]].state = "accepted"
              /\ pkg[c].at \in Address /\ pkg[c].at = << c, row[c[1]][c[2]].decision.by >>
              /\ disk[pkg[c].at].entry = "durable"
              /\ ReviewStands(c)

\* A start-up knows what it has to make up for.
StartInv ==
    /\ app = "starting" => Unmaterialized \subseteq backlog
    /\ app = "up" => Unmaterialized = {}

Inv == TypeInv /\ LedgerInv /\ LockInv /\ DiskInv /\ PackageInv /\ StartInv

\* A candidate is a source and a number.
LEMMA Pairs ==
    \A c \in Candidate : /\ c[1] \in Source /\ c[2] \in 1 .. MaxRev /\ c[2] \in Nat
                         /\ c = << c[1], c[2] >>
    BY LedgerAssumption DEF Candidate

\* The parts of the ledger's types that a step without a write leaves alone.
LEMMA SameLedger ==
    ASSUME UNCHANGED << row, entry >>
    PROVE  /\ LedgerInv => LedgerInv'
           /\ \A c : EntriesOf(c)' = EntriesOf(c)
           /\ \A t : Latest(t)' = Latest(t)
<1>1. \A t : Latest(t)' = Latest(t)
    BY DEF Latest
<1>2. \A c : EntriesOf(c)' = EntriesOf(c)
    BY DEF EntriesOf
<1>3. ASSUME NEW t, NEW n PROVE RevisionInv(t, n)' = RevisionInv(t, n)
    BY <1>1 DEF RevisionInv, SupersededEvent, TerminalEvent
<1>4. LedgerInv => LedgerInv'
    BY <1>1, <1>3 DEF LedgerInv
<1> QED
    BY <1>1, <1>2, <1>4

\* Every step keeps the ranges of the ledger.
LEMMA LedgerTypeStep ==
    ASSUME Inv, [PipelineNext]_pipelineVars
    PROVE  LedgerTypeOK'
<1> USE DEF Inv, TypeInv
<1>1. ASSUME NEW t \in Source, Submit(t) PROVE LedgerTypeOK'
    <2>1. CreateCandidate(t)
        BY <1>1 DEF Submit, Locked
    <2> DEFINE n == Latest(t)
               old == Event(<< t, n >>, "superseded", NoOne)
               new == Event(<< t, n + 1 >>, "created", NoOne)
    <2>2. /\ n \in Nat /\ n < MaxRev /\ row' \in [Source -> Seq(Revision)]
          /\ \A u \in Source : Latest(u)' = IF u = t THEN n + 1 ELSE Latest(u)
          /\ new \in Entry
          /\ \/ entry' = entry \cup {old, new} /\ old \in Entry
             \/ entry' = entry \cup {new}
        <3>1. CASE n > 0 /\ row[t][n].state = "awaiting"
            BY <2>1, <3>1, CreateRow
        <3>2. CASE ~ (n > 0 /\ row[t][n].state = "awaiting")
            BY <2>1, <3>2, CreateRow
        <3> QED
            BY <3>1, <3>2
    <2>3. \A u \in Source : Latest(u)' <= MaxRev
        <3>1. \A u \in Source : Latest(u) <= MaxRev
            BY DEF LedgerTypeOK
        <3>2. n + 1 <= MaxRev
            BY <2>2, LedgerAssumption
        <3> HIDE DEF n
        <3> QED
            BY <2>2, <3>1, <3>2
    <2>4. /\ entry' \subseteq Entry
          /\ \A c \in Candidate : IsFiniteSet(EntriesOf(c)')
        <3> HIDE DEF old, new
        <3>1. \/ entry' = entry \cup {old, new} /\ old \in Entry
              \/ entry' = entry \cup {new, new}
            BY <2>2
        <3> QED
            BY <3>1, <2>2, MoreEntries
    <2> QED
        BY <2>1, <2>2, <2>3, <2>4 DEF LedgerTypeOK, CreateCandidate
<1>2. ASSUME NEW t \in Source, NEW n \in 1 .. Latest(t), NEW state \in Decided,
             NEW s \in Session, Decide(t, n, state, s),
             UNCHANGED << fact, deployed, concluded, login >>
      PROVE  LedgerTypeOK'
    <2> DEFINE e == Event(<< t, n >>, state, s)
    <2>1. /\ row' \in [Source -> Seq(Revision)] /\ entry' = entry \cup {e} /\ e \in Entry
          /\ \A u \in Source : Latest(u)' = Latest(u)
        BY <1>2, DecideRow
    <2> HIDE DEF e
    <2>2. entry' = entry \cup {e, e}
        BY <2>1
    <2>3. entry' \subseteq Entry /\ \A c \in Candidate : IsFiniteSet(EntriesOf(c)')
        BY <2>1, <2>2, MoreEntries
    <2> QED
        BY <1>2, <2>1, <2>3 DEF LedgerTypeOK
<1>3. ASSUME NEW t \in Source, NEW n \in 1 .. MaxRev, NEW s \in Session, Refuse(t, n, s)
      PROVE  LedgerTypeOK'
    BY <1>2, <1>3 DEF Refuse, Locked, RejectCandidate, Decidable, Decided
<1>4. CASE CommitAcceptance
    <2>1. tx.of \in Candidate /\ tx.by \in Session /\ tx.of[2] \in 1 .. Latest(tx.of[1])
        BY <1>4 DEF CommitAcceptance, AtStep, LockInv, QuarantineTypeOK, Transaction
    <2>2. tx.of[1] \in Source /\ "accepted" \in Decided
        BY <2>1, Pairs DEF Decided
    <2> QED
        BY <1>2, <1>4, <2>1, <2>2 DEF CommitAcceptance
<1>5. ASSUME UNCHANGED << row, entry, fact >>,
             deployed' \in Digest, concluded' \in [Source -> BOOLEAN], login' \subseteq Session
      PROVE  LedgerTypeOK'
    BY <1>5, SameLedger DEF LedgerTypeOK
<1>6. ASSUME UNCHANGED ledgerVars PROVE LedgerTypeOK'
    BY <1>5, <1>6 DEF ledgerVars, LedgerTypeOK
<1>7. ASSUME NEW t \in Source, Conclude(t) PROVE LedgerTypeOK'
    BY <1>5, <1>7 DEF Conclude, Locked, ConcludeConversation, LedgerTypeOK
<1>8. ASSUME NEW s \in Session, SignOut(s) PROVE LedgerTypeOK'
    BY <1>5, <1>8 DEF SignOut, Locked, Logout, LedgerTypeOK
<1>9. CASE Deploy
    BY <1>5, <1>9 DEF Deploy, DeployPackage, LedgerTypeOK, Digest
<1> QED
    BY <1>1, <1>3, <1>4, <1>6, <1>7, <1>8, <1>9
    DEF PipelineNext, Owner, Materialize, Startup, Misfortune, pipelineVars,
        BeginAcceptance, DecidePackage, Adopt, VerifyFailed, Abort, WriteStaging, Rename,
        SyncDirectories, CommitBackfill, StartApp, BeginBackfill, Serve, IoError,
        KillApp, PowerLoss, Damage

\* The transaction that works on the disk.
LEMMA AtWork ==
    ASSUME TypeInv, tx # NoTx
    PROVE  /\ tx \in Transaction /\ tx.of \in Candidate /\ tx.by \in Session
           /\ Install \in Address /\ tx.of[1] \in Source
           /\ tx.of = << tx.of[1], tx.of[2] >>
    BY Pairs DEF TypeInv, QuarantineTypeOK, Transaction, Install, Address

\* Every step keeps the ranges of transaction, directories and packages.
LEMMA QuarantineTypeStep ==
    ASSUME Inv, [PipelineNext]_pipelineVars
    PROVE  QuarantineTypeOK'
<1> USE DEF Inv, TypeInv
<1>1. CASE UNCHANGED quarantineVars
    BY <1>1 DEF quarantineVars, QuarantineTypeOK
<1>2. ASSUME NEW c \in Candidate, NEW s \in Session, NEW verdict \in {"approved", "rejected"},
             DecidePackage(c, verdict, s)
      PROVE  QuarantineTypeOK'
    <2>1. /\ pkg[c] \in PackageRow
          /\ pkg' = [pkg EXCEPT ![c] = [pkg[c] EXCEPT !.state = verdict, !.review = s]]
        BY <1>2 DEF DecidePackage, QuarantineTypeOK
    <2>2. [pkg[c] EXCEPT !.state = verdict, !.review = s] \in PackageRow
        BY <2>1 DEF PackageRow
    <2> QED
        BY <1>2, <2>1, <2>2 DEF DecidePackage, QuarantineTypeOK
<1>3. ASSUME NEW t \in Source, NEW n \in 1 .. MaxRev, NEW s \in Session,
             BeginAcceptance(t, n, s)
      PROVE  QuarantineTypeOK'
    <2>1. << t, n >> \in Candidate
        BY DEF Candidate
    <2> QED
        BY <1>3, <2>1 DEF BeginAcceptance, Begin, QuarantineTypeOK, Transaction
<1>4. ASSUME NEW c \in Candidate, BeginBackfill(c) PROVE QuarantineTypeOK'
    <2>1. CASE c \in Unmaterialized
        <3>1. /\ PublicProjection(c[1], c[2]) /\ c[2] = Latest(c[1])
              /\ row[c[1]][c[2]].state = "accepted"
            BY <1>4, <2>1 DEF BeginBackfill, Unmaterialized
        <3>2. /\ c[1] \in Source /\ c[2] \in 1 .. Latest(c[1])
            BY <3>1, Pairs, Numbers
        <3>3. row[c[1]][c[2]] \in Revision
            BY <3>2, Numbers
        <3>4. row[c[1]][c[2]].decision.by # NoOne /\ row[c[1]][c[2]].decision \in entry
            BY <3>1 DEF PublicProjection, TerminalEvent
        <3>5. row[c[1]][c[2]].decision.by \in Session
            BY <3>4 DEF LedgerTypeOK, Entry
        <3> QED
            BY <1>4, <2>1, <3>5 DEF BeginBackfill, Begin, QuarantineTypeOK, Transaction
    <2>2. CASE c \notin Unmaterialized
        BY <1>4, <2>2 DEF BeginBackfill, QuarantineTypeOK
    <2> QED
        BY <2>1, <2>2
<1>5. CASE Adopt
    BY <1>5, AtWork
    DEF Adopt, AtStep, Step, QuarantineTypeOK, Directory, Transaction
<1>6. CASE WriteStaging
    BY <1>6, AtWork DEF WriteStaging, AtStep, Step, QuarantineTypeOK, Transaction
<1>7. CASE Rename
    BY <1>7, AtWork DEF Rename, AtStep, Step, QuarantineTypeOK, Directory, Transaction
<1>8. CASE SyncDirectories
    BY <1>8, AtWork
    DEF SyncDirectories, AtStep, Step, QuarantineTypeOK, Directory, Transaction
<1>9. ASSUME AtStep("insert"), InsertPackage(tx.of, Install), tx' = NoTx,
             UNCHANGED << app, disk, faults >>, backlog' \subseteq Candidate
      PROVE  QuarantineTypeOK'
    BY <1>9, AtWork DEF AtStep, InsertPackage, QuarantineTypeOK, PackageRow
<1>10. CASE CommitAcceptance
    BY <1>9, <1>10 DEF CommitAcceptance, QuarantineTypeOK
<1>11. CASE CommitBackfill
    BY <1>9, <1>11 DEF CommitBackfill, QuarantineTypeOK
<1>12. ASSUME Abort, faults' \in 0 .. MaxFault PROVE QuarantineTypeOK'
    BY <1>12 DEF Abort, QuarantineTypeOK
<1>13. CASE VerifyFailed
    BY <1>12, <1>13 DEF VerifyFailed, QuarantineTypeOK
<1>14. Fault => faults' \in 0 .. MaxFault
    BY FaultAssumption DEF Fault, QuarantineTypeOK
<1>15. CASE IoError
    BY <1>12, <1>14, <1>15 DEF IoError
<1>16. CASE StartApp
    BY <1>16 DEF StartApp, QuarantineTypeOK, Unmaterialized
<1>17. CASE Serve
    BY <1>17 DEF Serve, QuarantineTypeOK
<1>18. CASE KillApp
    BY <1>14, <1>18 DEF KillApp, QuarantineTypeOK
<1>19. CASE PowerLoss
    <2>1. disk' \in [Address -> Directory]
        BY <1>19 DEF PowerLoss, QuarantineTypeOK, Directory, NoDir
    <2> QED
        BY <1>14, <1>19, <2>1 DEF PowerLoss, QuarantineTypeOK
<1>20. ASSUME NEW a \in Address, Damage(a) PROVE QuarantineTypeOK'
    BY <1>14, <1>20 DEF Damage, QuarantineTypeOK, Directory
<1> QED
    BY <1>1, <1>2, <1>3, <1>4, <1>5, <1>6, <1>7, <1>8, <1>10, <1>11, <1>13, <1>15, <1>16,
       <1>17, <1>18, <1>19, <1>20
    DEF PipelineNext, Owner, Materialize, Startup, Misfortune, pipelineVars, Submit, Refuse,
        Conclude, SignOut, Deploy, Locked

\* What is on the disk has been synced before it was renamed into place.
LEMMA DiskStep ==
    ASSUME Inv, [PipelineNext]_pipelineVars
    PROVE  DiskInv'
<1> USE DEF Inv, TypeInv
<1>1. CASE UNCHANGED disk
    BY <1>1 DEF DiskInv
<1>2. CASE Adopt
    BY <1>2, AtWork DEF Adopt, AtStep, DiskInv, QuarantineTypeOK, Directory
<1>3. CASE Rename
    BY <1>3, AtWork DEF Rename, AtStep, DiskInv, QuarantineTypeOK, Directory
<1>4. CASE SyncDirectories
    BY <1>4, AtWork
    DEF SyncDirectories, AtStep, Whole, DiskInv, QuarantineTypeOK, Directory, NoDir
<1>5. CASE PowerLoss
    BY <1>5 DEF PowerLoss, DiskInv, QuarantineTypeOK, Directory, NoDir
<1>6. ASSUME NEW a \in Address, Damage(a) PROVE DiskInv'
    BY <1>6 DEF Damage, Whole, DiskInv, QuarantineTypeOK, Directory, NoDir
<1> QED
    BY <1>1, <1>2, <1>3, <1>4, <1>5, <1>6
    DEF PipelineNext, Owner, Materialize, Startup, Misfortune, pipelineVars, quarantineVars,
        Submit, Refuse, Conclude, SignOut, Deploy, Locked, BeginAcceptance, DecidePackage,
        VerifyFailed, Abort, WriteStaging, CommitAcceptance, CommitBackfill, StartApp,
        BeginBackfill, Serve, IoError, KillApp

\* A revision whose row and events a step leaves alone keeps its invariant,
\* also when a successor arrives, if it was decided before.
LEMMA Untouched ==
    ASSUME NEW t, NEW n, RevisionInv(t, n),
           EntriesOf(<< t, n >>)' = EntriesOf(<< t, n >>), row'[t][n] = row[t][n],
           Latest(t) \in Nat, Latest(t)' \in Nat, n \in Nat,
           \/ Latest(t)' = Latest(t)
           \/ row[t][n].state # "awaiting" /\ Latest(t)' >= Latest(t)
    PROVE  RevisionInv(t, n)'
<1>1. \A e : /\ e \in entry /\ e.of = << t, n >> <=> e \in EntriesOf(<< t, n >>)
             /\ e \in entry' /\ e.of = << t, n >> <=> e \in EntriesOf(<< t, n >>)'
    BY DEF EntriesOf
<1>2. /\ \E e \in entry : {x \in EntriesOf(<< t, n >>) : x.type = "created"} = {e}
      /\ {x \in entry : x.of = << t, n >> /\ x.type = "created"}
            = {x \in EntriesOf(<< t, n >>) : x.type = "created"}
      /\ {x \in entry' : x.of = << t, n >> /\ x.type = "created"}
            = {x \in EntriesOf(<< t, n >>) : x.type = "created"}
    BY <1>1 DEF RevisionInv
<1>3. \E e \in entry' : {x \in entry' : x.of = << t, n >> /\ x.type = "created"} = {e}
    BY <1>1, <1>2
<1>4. SupersededEvent(t, n) => SupersededEvent(t, n)'
    <2>1. {x \in entry' : x.of = << t, n >> /\ x.type = "superseded"}
             = {x \in entry : x.of = << t, n >> /\ x.type = "superseded"}
        BY <1>1
    <2> QED
        BY <2>1 DEF SupersededEvent
<1>5. TerminalEvent(t, n) => TerminalEvent(t, n)'
    BY <1>1 DEF TerminalEvent
<1>6. row[t][n].state = "awaiting" =>
         /\ n = Latest(t)' /\ row'[t][n].decision = NoOne
         /\ \A e \in entry' : e.of = << t, n >> => e.type = "created"
    BY <1>1 DEF RevisionInv
<1>7. row[t][n].state = "superseded" => n < Latest(t)' /\ SupersededEvent(t, n)'
    BY <1>4 DEF RevisionInv
<1>8. row[t][n].state \in Decided => TerminalEvent(t, n)'
    BY <1>5 DEF RevisionInv
<1> QED
    BY <1>3, <1>6, <1>7, <1>8 DEF RevisionInv

\* A decision of an awaiting revision.
LEMMA DecideLedger ==
    ASSUME LedgerTypeOK, LedgerInv, NEW t \in Source, NEW n \in 1 .. Latest(t),
           NEW state \in Decided, NEW s \in Session, Decide(t, n, state, s),
           row[t][n].state = "awaiting"
    PROVE  LedgerInv'
<1> DEFINE e == Event(<< t, n >>, state, s)
<1>1. /\ entry' = entry \cup {e} /\ e \in Entry
      /\ e.of = << t, n >> /\ e.type = state /\ e.by = s
      /\ \A u \in Source : Latest(u)' = Latest(u)
      /\ \A u \in Source : \A k \in 1 .. Latest(u) :
            u # t \/ k # n => row'[u][k] = row[u][k]
      /\ row'[t][n].state = state /\ row'[t][n].decision = e
    BY DecideRow
<1> HIDE DEF e
<1>2. ASSUME NEW u \in Source, NEW k \in 1 .. Latest(u), u # t \/ k # n
      PROVE  RevisionInv(u, k)'
    <2>1. EntriesOf(<< u, k >>)' = EntriesOf(<< u, k >>)
        BY <1>1, <1>2 DEF EntriesOf
    <2>2. RevisionInv(u, k) /\ Latest(u) \in Nat /\ k \in Nat
        BY Numbers DEF LedgerInv
    <2> QED
        BY <1>1, <1>2, <2>1, <2>2, Untouched
<1>3. RevisionInv(t, n)'
    <2>1. RevisionInv(t, n)
        BY DEF LedgerInv
    <2>2. {x \in entry' : x.of = << t, n >> /\ x.type = "created"}
             = {x \in entry : x.of = << t, n >> /\ x.type = "created"}
        BY <1>1 DEF Decided
    <2>3. \E x \in entry' : {y \in entry' : y.of = << t, n >> /\ y.type = "created"} = {x}
        BY <1>1, <2>1, <2>2 DEF RevisionInv
    <2>4. TerminalEvent(t, n)'
        BY <1>1, LedgerAssumption DEF TerminalEvent
    <2> QED
        BY <1>1, <2>3, <2>4 DEF RevisionInv, Decided
<1>4. ASSUME NEW u \in Source, NEW k \in Nat, k > Latest(u)', NEW x \in entry'
      PROVE  x.of # << u, k >>
    BY <1>1, <1>4, Numbers DEF LedgerInv
<1> QED
    BY <1>1, <1>2, <1>3, <1>4 DEF LedgerInv

\* A new revision, on top of none, of a decided or of a retired one.
LEMMA CreateLedger ==
    ASSUME LedgerTypeOK, LedgerInv, NEW t \in Source, CreateCandidate(t),
           NEW n, n = Latest(t)
    PROVE  LedgerInv'
<1> DEFINE old == Event(<< t, n >>, "superseded", NoOne)
           new == Event(<< t, n + 1 >>, "created", NoOne)
           retire == n > 0 /\ row[t][n].state = "awaiting"
<1>1. /\ n \in Nat
      /\ \A u \in Source : Latest(u)' = IF u = t THEN n + 1 ELSE Latest(u)
      /\ \A u \in Source : \A k \in 1 .. Latest(u) :
            u # t \/ k # n \/ ~ retire => row'[u][k] = row[u][k]
      /\ retire => /\ row'[t][n].state = "superseded" /\ row'[t][n].decision = old
                   /\ old.of = << t, n >> /\ old.type = "superseded"
      /\ row'[t][n + 1] = NewRow(t)
      /\ new.of = << t, n + 1 >> /\ new.type = "created"
      /\ entry' = IF retire THEN entry \cup {old, new} ELSE entry \cup {new}
    BY CreateRow
<1>2. \A u \in Source : Latest(u) \in Nat
    BY Numbers
<1> HIDE DEF old, new
<1>3. ASSUME NEW u \in Source, NEW k \in 1 .. Latest(u), u # t \/ k # n \/ ~ retire
      PROVE  RevisionInv(u, k)'
    <2>1. EntriesOf(<< u, k >>)' = EntriesOf(<< u, k >>)
        <3>1. << u, k >> # << t, n + 1 >> /\ (retire => << u, k >> # << t, n >>)
            BY <1>1, <1>3
        <3> HIDE DEF retire
        <3> QED
            BY <1>1, <3>1 DEF EntriesOf
    <2>2. RevisionInv(u, k) /\ k \in Nat
        BY <1>2 DEF LedgerInv
    <2>3. row[u][k].state = "awaiting" => k = Latest(u)
        BY <2>2 DEF RevisionInv
    <2>4. \/ Latest(u)' = Latest(u)
          \/ row[u][k].state # "awaiting" /\ Latest(u)' >= Latest(u)
        BY <1>1, <1>2, <1>3, <2>3
    <2>5. row'[u][k] = row[u][k] /\ Latest(u)' \in Nat
        BY <1>1, <1>2, <1>3
    <2> QED
        BY <1>2, <2>1, <2>2, <2>4, <2>5, Untouched
<1>4. ASSUME retire PROVE RevisionInv(t, n)'
    <2>1. RevisionInv(t, n)
        BY <1>1, <1>4 DEF LedgerInv
    <2>2. /\ \A x \in entry : x.of = << t, n >> => x.type = "created"
          /\ \E x \in entry : {y \in entry : y.of = << t, n >> /\ y.type = "created"} = {x}
        BY <1>4, <2>1 DEF RevisionInv
    <2>3. entry' = entry \cup {old, new} /\ << t, n >> # << t, n + 1 >>
        BY <1>1, <1>4
    <2>4. {y \in entry' : y.of = << t, n >> /\ y.type = "created"}
             = {y \in entry : y.of = << t, n >> /\ y.type = "created"}
        BY <1>1, <1>4, <2>3
    <2>5. {y \in entry' : y.of = << t, n >> /\ y.type = "superseded"} = {old}
        BY <1>1, <1>4, <2>2, <2>3
    <2>6. SupersededEvent(t, n)' /\ n < Latest(t)'
        BY <1>1, <1>4, <2>5 DEF SupersededEvent
    <2>7. \E x \in entry' : {y \in entry' : y.of = << t, n >> /\ y.type = "created"} = {x}
        BY <2>2, <2>3, <2>4
    <2> QED
        BY <1>1, <1>4, <2>6, <2>7 DEF RevisionInv, Decided
<1>5. RevisionInv(t, n + 1)'
    <2>1. \A x \in entry : x.of # << t, n + 1 >>
        BY <1>1 DEF LedgerInv
    <2>2. new \in entry' /\ \A x \in entry' : x.of = << t, n + 1 >> => x = new
        BY <1>1, <2>1
    <2>3. {y \in entry' : y.of = << t, n + 1 >> /\ y.type = "created"} = {new}
        BY <1>1, <2>2
    <2>4. NewRow(t).state = "awaiting" /\ NewRow(t).decision = NoOne
        BY DEF NewRow
    <2> QED
        BY <1>1, <2>2, <2>3, <2>4 DEF RevisionInv, Decided
<1>6. ASSUME NEW u \in Source, NEW k \in Nat, k > Latest(u)', NEW x \in entry'
      PROVE  x.of # << u, k >>
    <2>1. k > Latest(u)
        BY <1>1, <1>2, <1>6
    <2>2. \A y \in entry : y.of # << u, k >>
        BY <2>1 DEF LedgerInv
    <2>3. << u, k >> # << t, n + 1 >> /\ << u, k >> # << t, n >>
        BY <1>1, <1>6
    <2> QED
        BY <1>1, <1>6, <2>2, <2>3
<1>7. ASSUME NEW u \in Source, NEW k \in 1 .. Latest(u)' PROVE RevisionInv(u, k)'
    <2>1. k \in 1 .. Latest(u) \/ (u = t /\ k = n + 1)
        BY <1>1, <1>2
    <2> QED
        BY <1>3, <1>4, <1>5, <2>1
<1> QED
    BY <1>6, <1>7 DEF LedgerInv

\* Every step keeps revisions and events in agreement.
LEMMA LedgerStep ==
    ASSUME Inv, [PipelineNext]_pipelineVars
    PROVE  LedgerInv'
<1> USE DEF Inv, TypeInv
<1>1. ASSUME NEW t \in Source, Submit(t) PROVE LedgerInv'
    BY <1>1, CreateLedger DEF Submit, Locked
<1>2. ASSUME NEW t \in Source, NEW n \in 1 .. MaxRev, NEW s \in Session, Refuse(t, n, s)
      PROVE  LedgerInv'
    BY <1>2, DecideLedger DEF Refuse, Locked, RejectCandidate, Decidable, Decided
<1>3. CASE CommitAcceptance
    <2>1. tx # NoTx /\ tx.kind = "accept"
        BY <1>3 DEF CommitAcceptance, AtStep
    <2>2. /\ tx.of[2] \in 1 .. Latest(tx.of[1])
          /\ row[tx.of[1]][tx.of[2]].state = "awaiting"
        BY <2>1 DEF LockInv, Awaited
    <2> QED
        BY <1>3, <2>1, <2>2, AtWork, DecideLedger DEF CommitAcceptance, Decided
<1>4. CASE UNCHANGED << row, entry >>
    BY <1>4, SameLedger
<1> QED
    BY <1>1, <1>2, <1>3, <1>4
    DEF PipelineNext, Owner, Materialize, Startup, Misfortune, pipelineVars, ledgerVars,
        Conclude, SignOut, Deploy, Locked, ConcludeConversation, Logout, DeployPackage,
        BeginAcceptance, DecidePackage, Adopt, VerifyFailed, Abort, WriteStaging, Rename,
        SyncDirectories, CommitBackfill, StartApp, BeginBackfill, Serve, IoError, KillApp,
        PowerLoss, Damage

\* What an open transaction relies on, as long as nobody writes the database.
LEMMA SameSources ==
    ASSUME UNCHANGED << row, fact, concluded, pkg >>
    PROVE  /\ \A t : Latest(t)' = Latest(t)
           /\ \A t, n : Awaited(t, n)' = Awaited(t, n)
           /\ Unmaterialized' = Unmaterialized
    BY DEF Latest, Awaited, Projection, SignoffLineage, Unmaterialized

\* A transaction goes from step to step under its lock.
LEMMA LockKept ==
    ASSUME TypeInv, LockInv, tx # NoTx, tx' \in Transaction,
           tx'.kind = tx.kind, tx'.of = tx.of, tx'.by = tx.by,
           UNCHANGED << row, fact, concluded, login, pkg, app, backlog >>,
           tx'.step = "insert" => disk'[Install].entry = "durable"
    PROVE  LockInv'
<1>1. /\ tx.of[2] \in 1 .. Latest(tx.of[1])
      /\ tx.kind = "accept" =>
            app = "up" /\ tx.by \in login /\ Awaited(tx.of[1], tx.of[2])
      /\ tx.kind = "backfill" =>
            /\ app = "starting" /\ tx.of \in backlog /\ tx.of \in Unmaterialized
            /\ tx.by = row[tx.of[1]][tx.of[2]].decision.by
    BY DEF LockInv
<1> QED
    BY <1>1 DEF LockInv, Install, Latest, Awaited, Projection, SignoffLineage, Unmaterialized

\* A transaction that begins has what it relies on.
LEMMA LockBegun ==
    ASSUME TypeInv, LedgerInv,
           \/ \E t \in Source, n \in 1 .. MaxRev, s \in Session : BeginAcceptance(t, n, s)
           \/ \E c \in Unmaterialized : BeginBackfill(c)
    PROVE  LockInv'
<1> USE DEF TypeInv
<1>1. ASSUME NEW t \in Source, NEW n \in 1 .. MaxRev, NEW s \in Session,
             BeginAcceptance(t, n, s)
      PROVE  LockInv'
    <2>1. /\ tx' = [ kind |-> "accept", of |-> << t, n >>, by |-> s, step |-> "install" ]
          /\ app' = "up" /\ n \in 1 .. Latest(t) /\ s \in login
          /\ UNCHANGED << row, fact, concluded, login, pkg >>
          /\ Awaited(t, n)
        BY <1>1
        DEF BeginAcceptance, Begin, Decidable, SignedIn, TaskForOwner, Projectable, Awaited,
            ledgerVars
    <2>2. Awaited(t, n)' /\ Latest(t)' = Latest(t)
        BY <2>1, SameSources
    <2> QED
        BY <2>1, <2>2 DEF LockInv
<1>2. ASSUME NEW c \in Unmaterialized, BeginBackfill(c) PROVE LockInv'
    <2>1. /\ tx' = [ kind |-> "backfill", of |-> c, by |-> row[c[1]][c[2]].decision.by,
                     step |-> "install" ]
          /\ app' = "starting" /\ c \in backlog'
          /\ UNCHANGED << row, fact, concluded, pkg >>
        BY <1>2 DEF BeginBackfill, Begin, ledgerVars
    <2>2. c \in Candidate /\ c[2] = Latest(c[1]) /\ c[1] \in Source /\ c[2] \in 1 .. Latest(c[1])
        BY <1>2, Pairs DEF Unmaterialized
    <2>3. Unmaterialized' = Unmaterialized /\ Latest(c[1])' = Latest(c[1])
        BY <2>1, SameSources
    <2> QED
        BY <1>2, <2>1, <2>2, <2>3 DEF LockInv
<1> QED
    BY <1>1, <1>2

\* Every step leaves an open transaction what it relies on.
LEMMA LockStep ==
    ASSUME Inv, [PipelineNext]_pipelineVars
    PROVE  LockInv'
<1> USE DEF Inv, TypeInv
<1>1. CASE tx' = NoTx
    BY <1>1 DEF LockInv
<1>2. app = "down" => tx = NoTx
    BY AtWork DEF LockInv, Transaction
<1>3. ASSUME tx # NoTx, UNCHANGED << row, fact, concluded, login, pkg, app, backlog, tx >>,
             \A a \in Address : disk[a].entry = "durable" => disk'[a].entry = "durable"
      PROVE  LockInv'
    BY <1>3, AtWork, LockKept DEF LockInv
<1>4. CASE Deploy
    <2>1. CASE tx = NoTx
        BY <1>1, <1>4, <2>1 DEF Deploy, quarantineVars
    <2>2. CASE tx # NoTx
        BY <1>3, <1>4, <2>2 DEF Deploy, DeployPackage, quarantineVars
    <2> QED
        BY <2>1, <2>2
<1>5. ASSUME NEW a \in Address, Damage(a) PROVE LockInv'
    <2>1. \A b \in Address : disk[b].entry = "durable" => disk'[b].entry = "durable"
        BY <1>5 DEF Damage, QuarantineTypeOK, Directory
    <2>2. CASE tx = NoTx
        BY <1>1, <1>5, <2>2 DEF Damage
    <2>3. CASE tx # NoTx
        BY <1>3, <1>5, <2>1, <2>3 DEF Damage, ledgerVars
    <2> QED
        BY <2>2, <2>3
<1>6. CASE Adopt
    <2>1. tx # NoTx /\ tx' \in Transaction /\ tx'.kind = tx.kind /\ tx'.of = tx.of
          /\ tx'.by = tx.by
        BY <1>6, AtWork DEF Adopt, AtStep, Step, Transaction
    <2>2. disk'[Install].entry = "durable"
        BY <1>6, <2>1, AtWork DEF Adopt, QuarantineTypeOK, Directory
    <2> QED
        BY <1>6, <2>1, <2>2, LockKept DEF Adopt, ledgerVars
<1>7. CASE SyncDirectories
    <2>1. tx # NoTx /\ tx' \in Transaction /\ tx'.kind = tx.kind /\ tx'.of = tx.of
          /\ tx'.by = tx.by
        BY <1>7, AtWork DEF SyncDirectories, AtStep, Step, Transaction
    <2>2. disk'[Install].entry = "durable"
        BY <1>7, <2>1, AtWork DEF SyncDirectories, QuarantineTypeOK, Directory
    <2> QED
        BY <1>7, <2>1, <2>2, LockKept DEF SyncDirectories, ledgerVars
<1>8. CASE WriteStaging \/ Rename
    <2>1. tx # NoTx /\ tx' \in Transaction /\ tx'.kind = tx.kind /\ tx'.of = tx.of
          /\ tx'.by = tx.by /\ tx'.step # "insert"
        BY <1>8, AtWork DEF WriteStaging, Rename, AtStep, Step, Transaction
    <2> QED
        BY <1>8, <2>1, LockKept DEF WriteStaging, Rename, ledgerVars
<1>9. ASSUME NEW c \in Candidate, BeginBackfill(c) PROVE LockInv'
    <2>1. CASE c \in Unmaterialized
        BY <1>9, <2>1, LockBegun
    <2>2. CASE c \notin Unmaterialized
        BY <1>1, <1>9, <2>2 DEF BeginBackfill
    <2> QED
        BY <2>1, <2>2
<1>10. ASSUME NEW t \in Source, NEW n \in 1 .. MaxRev, NEW s \in Session,
              BeginAcceptance(t, n, s)
       PROVE  LockInv'
    BY <1>10, LockBegun
<1>11. CASE UNCHANGED pipelineVars
    BY <1>1, <1>3, <1>11 DEF pipelineVars, ledgerVars, quarantineVars
<1> QED
    BY <1>1, <1>2, <1>4, <1>5, <1>6, <1>7, <1>8, <1>9, <1>10, <1>11
    DEF PipelineNext, Owner, Materialize, Startup, Misfortune, quarantineVars, Submit, Refuse,
        Conclude, SignOut, Locked, DecidePackage, VerifyFailed, Abort, CommitAcceptance,
        CommitBackfill, StartApp, Serve, IoError, KillApp, PowerLoss

\* A package stays what it is while its revision and its directory do.
LEMMA PackageKept ==
    ASSUME TypeInv, PackageInv, UNCHANGED pkg,
           \A c \in Candidate : pkg[c].state # "none" =>
              /\ c[2] \in 1 .. Latest(c[1])' /\ row'[c[1]][c[2]] = row[c[1]][c[2]]
              /\ disk[pkg[c].at].entry = "durable" => disk'[pkg[c].at].entry = "durable"
    PROVE  PackageInv'
    BY DEF PackageInv, ReviewStands, Latest

\* A package that arrives has its accepted revision and its directory.
LEMMA PackageInserted ==
    ASSUME TypeInv, PackageInv, NEW c \in Candidate, NEW s \in Session,
           InsertPackage(c, << c, s >>), UNCHANGED disk,
           disk[<< c, s >>].entry = "durable",
           c[2] \in 1 .. Latest(c[1])', row'[c[1]][c[2]].state = "accepted",
           row'[c[1]][c[2]].decision.by = s,
           \A b \in Candidate : pkg[b].state # "none" /\ b # c =>
              b[2] \in 1 .. Latest(b[1])' /\ row'[b[1]][b[2]] = row[b[1]][b[2]]
    PROVE  PackageInv'
<1>1. pkg' = [pkg EXCEPT ![c] = [ state |-> "pending", at |-> << c, s >>, review |-> NoOne ]]
    BY DEF InsertPackage
<1>2. << c, s >> \in Address
    BY DEF Address
<1>3. pkg \in [Candidate -> PackageRow]
    BY DEF TypeInv, QuarantineTypeOK
<1>4. ASSUME NEW b \in Candidate, b # c
      PROVE  /\ pkg'[b].state = "none" => pkg'[b].review = NoOne
             /\ pkg'[b].state # "none" =>
                   /\ b[2] \in 1 .. Latest(b[1])' /\ row'[b[1]][b[2]].state = "accepted"
                   /\ pkg'[b].at \in Address
                   /\ pkg'[b].at = << b, row'[b[1]][b[2]].decision.by >>
                   /\ disk[pkg'[b].at].entry = "durable"
                   /\ (pkg'[b].state = "pending") = (pkg'[b].review = NoOne)
    <2>1. pkg'[b] = pkg[b]
        BY <1>1, <1>3, <1>4
    <2> QED
        BY <1>4, <2>1 DEF PackageInv, ReviewStands
<1>5. pkg'[c] = [ state |-> "pending", at |-> << c, s >>, review |-> NoOne ]
    BY <1>1, <1>3
<1> QED
    BY <1>2, <1>4, <1>5 DEF PackageInv, ReviewStands, Latest

\* Every step leaves every package its revision and its directory.
LEMMA PackageStep ==
    ASSUME Inv, [PipelineNext]_pipelineVars
    PROVE  PackageInv'
<1> USE DEF Inv, TypeInv
<1>1. /\ \A c \in Candidate : pkg[c].state # "none" => c[2] \in 1 .. Latest(c[1])
      /\ \A c \in Candidate : pkg[c].state # "none" => row[c[1]][c[2]].state = "accepted"
      /\ \A t \in Source : Latest(t) \in Nat
    BY Numbers DEF PackageInv
<1>2. ASSUME NEW t \in Source, Submit(t) PROVE PackageInv'
    <2>1. CreateCandidate(t) /\ UNCHANGED << pkg, disk >>
        BY <1>2 DEF Submit, Locked, quarantineVars
    <2>2. /\ \A u \in Source : Latest(u)' >= Latest(u) /\ Latest(u)' \in Nat
          /\ \A u \in Source : \A k \in 1 .. Latest(u) :
                row[u][k].state # "awaiting" => row'[u][k] = row[u][k]
        <3>1. PICK n : n = Latest(t)
            OBVIOUS
        <3> DEFINE retire == n > 0 /\ row[t][n].state = "awaiting"
        <3>2. /\ n \in Nat
              /\ \A u \in Source : Latest(u)' = IF u = t THEN n + 1 ELSE Latest(u)
              /\ \A u \in Source : \A k \in 1 .. Latest(u) :
                    u # t \/ k # n \/ ~ retire => row'[u][k] = row[u][k]
            BY <2>1, <3>1, CreateRow
        <3> QED
            BY <1>1, <3>1, <3>2
    <2>3. ASSUME NEW c \in Candidate, pkg[c].state # "none"
          PROVE  c[2] \in 1 .. Latest(c[1])' /\ row'[c[1]][c[2]] = row[c[1]][c[2]]
        BY <1>1, <2>2, <2>3, Pairs
    <2> QED
        BY <2>1, <2>3, PackageKept
<1>3. ASSUME NEW t \in Source, NEW n \in 1 .. Latest(t), NEW state \in Decided,
             NEW s \in Session, Decide(t, n, state, s), row[t][n].state = "awaiting"
      PROVE  \A c \in Candidate : pkg[c].state # "none" =>
                /\ c # << t, n >>
                /\ c[2] \in 1 .. Latest(c[1])' /\ row'[c[1]][c[2]] = row[c[1]][c[2]]
    <2>1. /\ \A u \in Source : Latest(u)' = Latest(u)
          /\ \A u \in Source : \A k \in 1 .. Latest(u) :
                u # t \/ k # n => row'[u][k] = row[u][k]
        BY <1>3, DecideRow
    <2>2. ASSUME NEW c \in Candidate, pkg[c].state # "none" PROVE c # << t, n >>
        BY <1>1, <1>3, <2>2
    <2> QED
        BY <1>1, <2>1, <2>2, Pairs
<1>4. ASSUME NEW t \in Source, NEW n \in 1 .. MaxRev, NEW s \in Session, Refuse(t, n, s)
      PROVE  PackageInv'
    <2>1. /\ n \in 1 .. Latest(t) /\ row[t][n].state = "awaiting"
          /\ Decide(t, n, "rejected", s) /\ UNCHANGED << pkg, disk >>
        BY <1>4 DEF Refuse, Locked, RejectCandidate, Decidable, quarantineVars
    <2> QED
        BY <1>3, <2>1, PackageKept DEF Decided
<1>5. CASE CommitAcceptance
    <2>1. tx # NoTx /\ tx.kind = "accept" /\ tx.step = "insert"
        BY <1>5 DEF CommitAcceptance, AtStep
    <2> DEFINE c == tx.of
               s == tx.by
    <2>2. /\ c \in Candidate /\ c[1] \in Source /\ s \in Session /\ c = << c[1], c[2] >>
          /\ c[2] \in 1 .. Latest(c[1]) /\ row[c[1]][c[2]].state = "awaiting"
          /\ disk[<< c, s >>].entry = "durable"
        BY <2>1, AtWork DEF LockInv, Awaited, Install
    <2>3. /\ Decide(c[1], c[2], "accepted", s) /\ InsertPackage(c, << c, s >>)
          /\ UNCHANGED disk
        BY <1>5 DEF CommitAcceptance, Install
    <2> HIDE DEF c, s
    <2>4. PICK b \in Candidate, r \in Session : b = c /\ r = s
        BY <2>2
    <2>5. /\ \A d \in Candidate : pkg[d].state # "none" =>
                /\ d # << b[1], b[2] >>
                /\ d[2] \in 1 .. Latest(d[1])' /\ row'[d[1]][d[2]] = row[d[1]][d[2]]
        BY <1>3, <2>2, <2>3, <2>4 DEF Decided
    <2>6. /\ row'[b[1]][b[2]].state = "accepted" /\ row'[b[1]][b[2]].decision.by = r
          /\ b[2] \in 1 .. Latest(b[1])'
        BY <2>2, <2>3, <2>4, DecideRow DEF Decided
    <2> QED
        BY <2>2, <2>3, <2>4, <2>5, <2>6, PackageInserted
<1>6. CASE CommitBackfill
    <2>1. tx # NoTx /\ tx.kind = "backfill" /\ tx.step = "insert"
        BY <1>6 DEF CommitBackfill, AtStep
    <2> DEFINE c == tx.of
               s == tx.by
    <2>2. /\ c \in Candidate /\ s \in Session
          /\ c[2] \in 1 .. Latest(c[1]) /\ row[c[1]][c[2]].state = "accepted"
          /\ s = row[c[1]][c[2]].decision.by
          /\ disk[<< c, s >>].entry = "durable"
        BY <2>1, AtWork DEF LockInv, Install, Unmaterialized
    <2>3. InsertPackage(c, << c, s >>) /\ UNCHANGED << disk, row >>
        BY <1>6 DEF CommitBackfill, Install, ledgerVars
    <2> HIDE DEF c, s
    <2>4. PICK b \in Candidate, r \in Session : b = c /\ r = s
        BY <2>2
    <2>5. \A t : Latest(t)' = Latest(t)
        BY <2>3 DEF Latest
    <2> QED
        BY <1>1, <2>2, <2>3, <2>4, <2>5, PackageInserted
<1>7. ASSUME NEW c \in Candidate, NEW s \in Session, NEW verdict \in {"approved", "rejected"},
             DecidePackage(c, verdict, s)
      PROVE  PackageInv'
    <2>1. /\ pkg[c].state = "pending" /\ UNCHANGED << row, disk >>
          /\ pkg' = [pkg EXCEPT ![c] = [pkg[c] EXCEPT !.state = verdict, !.review = s]]
        BY <1>7 DEF DecidePackage, ledgerVars
    <2>2. /\ pkg'[c].state = verdict /\ pkg'[c].review = s /\ pkg'[c].at = pkg[c].at
          /\ \A b \in Candidate : b # c => pkg'[b] = pkg[b]
        BY <2>1 DEF QuarantineTypeOK, PackageRow
    <2>3. s # NoOne
        BY LedgerAssumption
    <2> QED
        BY <2>1, <2>2, <2>3 DEF PackageInv, ReviewStands, Latest
<1>8. ASSUME UNCHANGED << row, pkg >>,
             \A a \in Address : disk[a].entry = "durable" => disk'[a].entry = "durable"
      PROVE  PackageInv'
    <2>1. \A t : Latest(t)' = Latest(t)
        BY <1>8 DEF Latest
    <2> QED
        BY <1>1, <1>8, <2>1, PackageKept DEF PackageInv
<1>9. CASE Adopt \/ SyncDirectories
    BY <1>8, <1>9, AtWork
    DEF Adopt, SyncDirectories, AtStep, ledgerVars, QuarantineTypeOK, Directory
<1>10. CASE Rename
    <2>1. tx # NoTx /\ UNCHANGED << row, pkg >> /\ \A t : Latest(t)' = Latest(t)
        BY <1>10 DEF Rename, AtStep, ledgerVars, Latest
    <2>2. row[tx.of[1]][tx.of[2]].state # "accepted" \/ pkg[tx.of].state = "none"
        BY <2>1, AtWork DEF LockInv, Awaited, Unmaterialized, Transaction
    <2>3. ASSUME NEW c \in Candidate, pkg[c].state # "none" PROVE pkg[c].at # Install
        BY <1>1, <2>2, <2>3 DEF PackageInv, Install
    <2>4. \A a \in Address : a # Install => disk'[a] = disk[a]
        BY <1>10 DEF Rename, QuarantineTypeOK
    <2>5. ASSUME NEW c \in Candidate, pkg[c].state # "none" PROVE disk'[pkg[c].at] = disk[pkg[c].at]
        BY <2>3, <2>4, <2>5 DEF PackageInv
    <2> QED
        BY <1>1, <2>1, <2>5, PackageKept
<1>11. CASE PowerLoss
    BY <1>8, <1>11 DEF PowerLoss, ledgerVars, QuarantineTypeOK, Directory
<1>12. ASSUME NEW a \in Address, Damage(a) PROVE PackageInv'
    BY <1>8, <1>12 DEF Damage, ledgerVars, QuarantineTypeOK, Directory
<1>13. CASE UNCHANGED << row, pkg, disk >>
    BY <1>8, <1>13
<1> QED
    BY <1>2, <1>4, <1>5, <1>6, <1>7, <1>9, <1>10, <1>11, <1>12, <1>13
    DEF PipelineNext, Owner, Materialize, Startup, Misfortune, pipelineVars, ledgerVars,
        quarantineVars, Conclude, SignOut, Deploy, Locked, ConcludeConversation, Logout,
        DeployPackage, BeginAcceptance, VerifyFailed, Abort, WriteStaging, StartApp,
        BeginBackfill, Serve, IoError, KillApp

\* Every step leaves a start-up knowing what it has to make up for.
LEMMA StartStep ==
    ASSUME Inv, [PipelineNext]_pipelineVars
    PROVE  StartInv'
<1> USE DEF Inv, TypeInv
<1>1. /\ \A t \in Source : Latest(t) \in Nat
      /\ \A c \in Candidate : pkg[c].state # "none" => c[2] \in 1 .. Latest(c[1])
    BY Numbers DEF PackageInv
<1>2. ASSUME Unmaterialized' \subseteq Unmaterialized, app' = "up", app = "up"
      PROVE  StartInv'
    BY <1>2 DEF StartInv
<1>3. ASSUME UNCHANGED << row, pkg >> PROVE Unmaterialized' = Unmaterialized
    BY <1>3 DEF Unmaterialized, Latest
<1>4. ASSUME NEW t \in Source, Submit(t) PROVE StartInv'
    <2>1. CreateCandidate(t) /\ app = "up" /\ app' = "up" /\ UNCHANGED pkg
        BY <1>4 DEF Submit, Locked, quarantineVars
    <2>2. PICK n : n = Latest(t)
        OBVIOUS
    <2> DEFINE retire == n > 0 /\ row[t][n].state = "awaiting"
    <2>3. /\ n \in Nat /\ row'[t][n + 1] = NewRow(t)
          /\ \A u \in Source : Latest(u)' = IF u = t THEN n + 1 ELSE Latest(u)
          /\ \A u \in Source : \A k \in 1 .. Latest(u) :
                u # t \/ k # n \/ ~ retire => row'[u][k] = row[u][k]
        BY <2>1, <2>2, CreateRow
    <2>4. row'[t][n + 1].state = "awaiting"
        BY <2>3 DEF NewRow
    <2>5. ASSUME NEW c \in Candidate, c \in Unmaterialized' PROVE c \in Unmaterialized
        <3>1. /\ c[2] = Latest(c[1])' /\ row'[c[1]][c[2]].state = "accepted"
              /\ pkg'[c].state = "none"
            BY <2>5 DEF Unmaterialized
        <3>2. c[1] # t /\ c[2] = Latest(c[1])
            BY <2>3, <2>4, <3>1, Pairs
        <3>3. row'[c[1]][c[2]] = row[c[1]][c[2]]
            BY <1>1, <2>3, <3>2, Pairs
        <3> QED
            BY <2>1, <3>1, <3>2, <3>3 DEF Unmaterialized
    <2> QED
        BY <1>2, <2>1, <2>5 DEF Unmaterialized
<1>5. ASSUME NEW t \in Source, NEW n \in 1 .. Latest(t), NEW state \in Decided,
             NEW s \in Session, Decide(t, n, state, s),
             \A b \in Candidate : pkg'[b].state = "none" =>
                pkg[b].state = "none" /\ (b = << t, n >> => state = "rejected")
      PROVE  Unmaterialized' \subseteq Unmaterialized
    <2>1. /\ \A u \in Source : Latest(u)' = Latest(u)
          /\ \A u \in Source : \A k \in 1 .. Latest(u) :
                u # t \/ k # n => row'[u][k] = row[u][k]
          /\ row'[t][n].state = state
        <3> DEFINE e == Event(<< t, n >>, state, s)
        <3>1. /\ \A u \in Source : Latest(u)' = Latest(u)
              /\ \A u \in Source : \A k \in 1 .. Latest(u) :
                    u # t \/ k # n => row'[u][k] = row[u][k]
              /\ row'[t][n].state = state /\ row'[t][n].decision = e
            BY <1>5, DecideRow
        <3> QED
            BY <3>1
    <2>2. ASSUME NEW c \in Candidate, c \in Unmaterialized' PROVE c \in Unmaterialized
        <3>1. /\ c[2] = Latest(c[1])'
              /\ row'[c[1]][c[2]].state = "accepted" /\ pkg'[c].state = "none"
            BY <2>2 DEF Unmaterialized
        <3>2. c # << t, n >> /\ pkg[c].state = "none"
            BY <1>5, <2>1, <3>1
        <3>3. c[2] \in 1 .. Latest(c[1]) /\ row'[c[1]][c[2]] = row[c[1]][c[2]]
            BY <1>1, <2>1, <3>1, <3>2, Pairs
        <3> QED
            BY <2>1, <3>1, <3>2, <3>3, Pairs DEF Unmaterialized
    <2> QED
        BY <2>2 DEF Unmaterialized
<1>6. ASSUME NEW t \in Source, NEW n \in 1 .. MaxRev, NEW s \in Session, Refuse(t, n, s)
      PROVE  StartInv'
    <2>1. /\ n \in 1 .. Latest(t) /\ Decide(t, n, "rejected", s)
          /\ UNCHANGED pkg /\ app = "up" /\ app' = "up"
        BY <1>6 DEF Refuse, Locked, RejectCandidate, Decidable, quarantineVars
    <2> QED
        BY <1>2, <1>5, <2>1 DEF Decided
<1>7. CASE CommitAcceptance
    <2>1. tx # NoTx /\ tx.kind = "accept"
        BY <1>7 DEF CommitAcceptance, AtStep
    <2>2. /\ tx.of \in Candidate /\ tx.of[1] \in Source /\ tx.by \in Session
          /\ tx.of = << tx.of[1], tx.of[2] >> /\ tx.of[2] \in 1 .. Latest(tx.of[1])
          /\ app = "up"
        BY <2>1, AtWork DEF LockInv
    <2>3. /\ Decide(tx.of[1], tx.of[2], "accepted", tx.by) /\ app' = "up"
          /\ pkg' = [pkg EXCEPT ![tx.of] =
                       [ state |-> "pending", at |-> Install, review |-> NoOne ]]
        BY <1>7, <2>2 DEF CommitAcceptance, InsertPackage
    <2>4. \A b \in Candidate : pkg'[b].state = "none" => pkg[b].state = "none" /\ b # tx.of
        BY <2>2, <2>3 DEF QuarantineTypeOK
    <2> QED
        BY <1>2, <1>5, <2>2, <2>3, <2>4 DEF Decided
<1>8. CASE CommitBackfill
    <2>1. tx # NoTx /\ tx.kind = "backfill"
        BY <1>8 DEF CommitBackfill, AtStep
    <2>2. tx.of \in Candidate /\ app = "starting" /\ Unmaterialized \subseteq backlog
        BY <2>1, AtWork DEF LockInv, StartInv
    <2>3. /\ UNCHANGED << row, app >> /\ backlog' = backlog \ {tx.of}
          /\ pkg' = [pkg EXCEPT ![tx.of] =
                       [ state |-> "pending", at |-> Install, review |-> NoOne ]]
        BY <1>8 DEF CommitBackfill, InsertPackage, ledgerVars
    <2>4. ASSUME NEW c \in Unmaterialized' PROVE c \in Unmaterialized /\ c # tx.of
        BY <2>2, <2>3 DEF Unmaterialized, Latest, QuarantineTypeOK
    <2> QED
        BY <2>2, <2>3, <2>4 DEF StartInv
<1>9. ASSUME NEW c \in Candidate, NEW s \in Session, NEW verdict \in {"approved", "rejected"},
             DecidePackage(c, verdict, s)
      PROVE  StartInv'
    <2>1. /\ pkg[c] \in PackageRow /\ app = "up" /\ UNCHANGED << row, app >>
          /\ pkg' = [pkg EXCEPT ![c] = [pkg[c] EXCEPT !.state = verdict, !.review = s]]
        BY <1>9 DEF DecidePackage, ledgerVars, QuarantineTypeOK
    <2>2. \A b \in Candidate : pkg'[b].state = "none" => pkg[b].state = "none"
        BY <2>1 DEF QuarantineTypeOK, PackageRow
    <2>3. Unmaterialized' \subseteq Unmaterialized
        BY <2>1, <2>2 DEF Unmaterialized, Latest
    <2> QED
        BY <1>2, <2>1, <2>3
<1>10. ASSUME NEW c \in Candidate, BeginBackfill(c) PROVE StartInv'
    BY <1>3, <1>10 DEF BeginBackfill, ledgerVars, StartInv
<1>11. CASE StartApp \/ Serve
    BY <1>3, <1>11 DEF StartApp, Serve, ledgerVars, StartInv
<1>12. ASSUME UNCHANGED << row, pkg >>, app' = "down" \/ UNCHANGED << app, backlog >>
       PROVE  StartInv'
    BY <1>3, <1>12 DEF StartInv
<1>13. CASE VerifyFailed \/ IoError \/ KillApp \/ PowerLoss
    BY <1>12, <1>13 DEF VerifyFailed, Abort, IoError, KillApp, PowerLoss, ledgerVars
<1>14. CASE Adopt \/ WriteStaging \/ Rename \/ SyncDirectories
    BY <1>12, <1>14 DEF Adopt, WriteStaging, Rename, SyncDirectories, ledgerVars
<1> QED
    BY <1>4, <1>6, <1>7, <1>8, <1>9, <1>10, <1>11, <1>12, <1>13, <1>14
    DEF PipelineNext, Owner, Materialize, Startup, Misfortune, pipelineVars, ledgerVars,
        quarantineVars, Conclude, SignOut, Deploy, Locked, ConcludeConversation, Logout,
        DeployPackage, BeginAcceptance, Damage

\* What an earlier release left of a source: one accepted revision, two events.
LEMMA Legacy ==
    ASSUME NEW t \in Source
    PROVE  \E a \in Entry, b \in Entry :
              /\ LegacyEntries(t) = {a, b} /\ a.of = << t, 1 >> /\ b.of = << t, 1 >>
              /\ a.type = "created" /\ b.type = "accepted" /\ b.by # NoOne
              /\ LegacyRow(t) \in Revision /\ LegacyRow(t).decision = b
              /\ LegacyRow(t).state = "accepted"
<1> DEFINE s == CHOOSE x \in Session : TRUE
           a == [ of |-> << t, 1 >>, type |-> "created", by |-> NoOne, no |-> 1 ]
           b == [ of |-> << t, 1 >>, type |-> "accepted", by |-> s, no |-> 2 ]
<1>1. s \in Session
    BY LedgerAssumption
<1>2. LegacyEntries(t) = {a, b}
    BY DEF LegacyEntries
<1> HIDE DEF s
<1>3. << t, 1 >> \in Candidate
    BY LedgerAssumption DEF Candidate
<1>4. a \in Entry /\ b \in Entry /\ a.type = "created" /\ b.type = "accepted" /\ b.by # NoOne
    BY <1>1, <1>3, LedgerAssumption DEF Entry
<1> DEFINE d == CHOOSE e \in LegacyEntries(t) : e.type = "accepted"
<1>5. d = b
    BY <1>2, <1>4
<1>6. LegacyRow(t) = [ content |-> [ evidence |-> 1, concluded |-> FALSE ],
                       state |-> "accepted", decision |-> d ]
    BY DEF LegacyRow
<1> HIDE DEF a, b, d
<1>7. /\ LegacyRow(t) \in Revision /\ LegacyRow(t).decision = b
      /\ LegacyRow(t).state = "accepted"
    BY <1>4, <1>5, <1>6 DEF Revision, Content, Digest, State
<1> QED
    BY <1>2, <1>4, <1>7 DEF a, b

\* The invariant holds at first, with or without an earlier release.
LEMMA InitInv == PipelineInit => Inv
<1> SUFFICES ASSUME PipelineInit PROVE Inv
    OBVIOUS
<1> USE DEF PipelineInit, LedgerInit, QuarantineInit
<1>1. PICK legacy \in SUBSET {t \in LegacySource : fact[t] = SoundFact} :
         /\ row = [t \in Source |-> IF t \in legacy THEN << LegacyRow(t) >> ELSE << >>]
         /\ entry = UNION {LegacyEntries(t) : t \in legacy}
    OBVIOUS
<1>2. legacy \subseteq Source
    BY LedgerAssumption
<1>3. \A c : \A e : e \in EntriesOf(c) <=>
         \E t \in legacy : e \in LegacyEntries(t) /\ c = << t, 1 >>
    <2>1. \A t \in legacy : \A e \in LegacyEntries(t) : e.of = << t, 1 >>
        BY <1>2, Legacy
    <2>2. \A c : \A e : e \in EntriesOf(c) <=>
             \E t \in legacy : e \in LegacyEntries(t) /\ e.of = c
        BY <1>1 DEF EntriesOf
    <2> QED
        BY <2>1, <2>2
<1>4. /\ \A t \in legacy : EntriesOf(<< t, 1 >>) = LegacyEntries(t)
      /\ \A c : (~ \E t \in legacy : c = << t, 1 >>) => EntriesOf(c) = {}
    BY <1>3 DEF EntriesOf
<1>5. ASSUME NEW t \in Source
      PROVE  /\ row[t] \in Seq(Revision)
             /\ t \in legacy => Latest(t) = 1 /\ row[t][1] = LegacyRow(t)
             /\ t \notin legacy => Latest(t) = 0
    <2>1. LegacyRow(t) \in Revision
        BY Legacy
    <2>2. CASE t \in legacy
        <3>1. row[t] = << LegacyRow(t) >>
            BY <1>1, <2>2
        <3> QED
            BY <2>1, <2>2, <3>1 DEF Latest
    <2>3. CASE t \notin legacy
        <3>1. row[t] = << >>
            BY <1>1, <2>3
        <3> QED
            BY <2>3, <3>1, EmptySeq DEF Latest
    <2> QED
        BY <2>2, <2>3
<1>6. LedgerTypeOK
    <2>1. entry \subseteq Entry
        BY <1>1, <1>2, Legacy
    <2>2. ASSUME NEW c PROVE IsFiniteSet(EntriesOf(c))
        <3>1. CASE \E t \in legacy : c = << t, 1 >>
            <4>1. PICK t \in legacy : c = << t, 1 >>
                BY <3>1
            <4>2. PICK a \in Entry, b \in Entry : LegacyEntries(t) = {a, b}
                BY <1>2, Legacy
            <4>3. EntriesOf(c) = ({} \cup {a}) \cup {b}
                BY <1>4, <4>1, <4>2
            <4>4. IsFiniteSet({} \cup {a})
                BY FS_EmptySet, FS_AddElement
            <4>5. IsFiniteSet(({} \cup {a}) \cup {b})
                BY <4>4, FS_AddElement
            <4> QED
                BY <4>3, <4>5
        <3>2. CASE ~ \E t \in legacy : c = << t, 1 >>
            BY <1>4, <3>2, FS_EmptySet
        <3> QED
            BY <3>1, <3>2
    <2>3. row \in [Source -> Seq(Revision)]
        BY <1>1, <1>5
    <2>4. \A t \in Source : Latest(t) <= MaxRev
        BY <1>5, LedgerAssumption
    <2> QED
        BY <2>1, <2>2, <2>3, <2>4 DEF LedgerTypeOK, Digest
<1>7. LedgerInv
    <2>1. ASSUME NEW t \in Source, NEW n \in 1 .. Latest(t) PROVE RevisionInv(t, n)
        <3>1. t \in legacy /\ n = 1 /\ row[t][n] = LegacyRow(t)
            BY <1>5
        <3>2. PICK a \in Entry, b \in Entry :
                 /\ LegacyEntries(t) = {a, b} /\ a.of = << t, 1 >> /\ b.of = << t, 1 >>
                 /\ a.type = "created" /\ b.type = "accepted" /\ b.by # NoOne
                 /\ LegacyRow(t).decision = b /\ LegacyRow(t).state = "accepted"
            BY Legacy
        <3>3. \A x : x \in entry /\ x.of = << t, n >> <=> x \in {a, b}
            BY <1>4, <3>1, <3>2 DEF EntriesOf
        <3>4. {x \in entry : x.of = << t, n >> /\ x.type = "created"} = {a} /\ a \in entry
            BY <3>2, <3>3
        <3>5. b \in entry /\ b.of = << t, n >>
            BY <3>1, <3>2, <3>3
        <3> QED
            BY <3>1, <3>2, <3>4, <3>5 DEF RevisionInv, TerminalEvent, Decided
    <2>2. ASSUME NEW t \in Source, NEW n \in Nat, n > Latest(t), NEW e \in entry
          PROVE  e.of # << t, n >>
        <3>1. PICK u \in legacy : e \in LegacyEntries(u)
            BY <1>1
        <3>2. e.of = << u, 1 >>
            BY <1>2, <3>1, Legacy
        <3> QED
            BY <1>2, <1>5, <2>2, <3>2
    <2> QED
        BY <2>1, <2>2 DEF LedgerInv
<1>8. QuarantineTypeOK /\ LockInv /\ DiskInv /\ PackageInv /\ StartInv
    BY FaultAssumption
    DEF QuarantineTypeOK, Directory, PackageRow, NoDir, NoPackage, LockInv, DiskInv,
        PackageInv, StartInv
<1> QED
    BY <1>6, <1>7, <1>8 DEF Inv, TypeInv

\* The invariant holds for ever.
LEMMA Safe == PipelineSafety => []Inv
<1>1. Inv /\ [PipelineNext]_pipelineVars => Inv'
    BY LedgerTypeStep, QuarantineTypeStep, LedgerStep, LockStep, DiskStep, PackageStep, StartStep
    DEF Inv, TypeInv
<1> QED
    BY InitInv, <1>1, PTL DEF PipelineSafety

\* The package an accepted revision has reads as long as its bytes are whole.
LEMMA Reads ==
    ASSUME Inv
    PROVE  /\ \A t \in Source : \A n \in 1 .. Latest(t) :
                RevisionChain(t, n)
                /\ (row[t][n].state # "superseded" => PublicProjection(t, n))
           /\ \A t \in Source : Latest(t) > 0 => row[t][Latest(t)].state # "superseded"
           /\ \A c \in Candidate : pkg[c].state # "none" =>
                (PackageProjection(c) <=> Whole(pkg[c].at))
<1> USE DEF Inv, TypeInv
<1>1. ASSUME NEW t \in Source, NEW n \in 1 .. Latest(t) PROVE UniqueCreated(t, n)
    <2>1. PICK e \in entry : {x \in entry : x.of = << t, n >> /\ x.type = "created"} = {e}
        BY DEF LedgerInv, RevisionInv
    <2> QED
        BY <2>1, FS_Singleton DEF UniqueCreated
<1>2. ASSUME NEW t \in Source, NEW n \in 1 .. Latest(t)
      PROVE  /\ Latest(t) \in Nat /\ row[t][n].state \in State
             /\ row[t][n].state = "awaiting" => n = Latest(t) /\ row[t][n].decision = NoOne
             /\ row[t][n].state = "superseded" => n < Latest(t) /\ SupersededEvent(t, n)
             /\ row[t][n].state \in Decided => TerminalEvent(t, n)
    BY Numbers DEF LedgerInv, RevisionInv, Revision
<1>3. ASSUME NEW t \in Source, NEW n \in 1 .. Latest(t) PROVE RevisionChain(t, n)
    <2>1. ASSUME NEW k \in 1 .. n
          PROVE  /\ UniqueCreated(t, k)
                 /\ k < n => \/ row[t][k].state = "superseded" /\ SupersededEvent(t, k)
                             \/ row[t][k].state \in Decided /\ TerminalEvent(t, k)
        <3>1. k \in 1 .. Latest(t) /\ (k < n => k # Latest(t))
            BY <1>2
        <3> QED
            BY <1>1, <1>2, <3>1 DEF State, Decided
    <2> QED
        BY <2>1 DEF RevisionChain
<1>4. ASSUME NEW t \in Source, NEW n \in 1 .. Latest(t), row[t][n].state # "superseded"
      PROVE  PublicProjection(t, n)
    BY <1>2, <1>3, <1>4 DEF PublicProjection, State, Decided
<1>5. ASSUME NEW t \in Source, Latest(t) > 0 PROVE row[t][Latest(t)].state # "superseded"
    <2>1. Latest(t) \in Nat /\ Latest(t) \in 1 .. Latest(t)
        BY <1>5, Numbers
    <2>2. PICK n \in 1 .. Latest(t) : n = Latest(t)
        BY <2>1
    <2> QED
        BY <1>2, <2>1, <2>2
<1>6. ASSUME NEW c \in Candidate, pkg[c].state # "none"
      PROVE  PackageProjection(c) <=> Whole(pkg[c].at)
    <2>1. PublicProjection(c[1], c[2])
        BY <1>4, <1>6, Pairs DEF PackageInv
    <2> QED
        BY <1>6, <2>1 DEF PackageProjection, SourceStands, PackageInv
<1> QED
    BY <1>3, <1>4, <1>5, <1>6

-----------------------------------------------------------------------------
(* The theorems *)

\* Rows, directories and packages keep their ranges in every behaviour of the
\* pipeline, and the decision of a row is an event that has been written.
THEOREM PipelineTypeCorrect == PipelineSafety => []PipelineTypeOK
<1>1. Inv => PipelineTypeOK
    <2> SUFFICES ASSUME Inv PROVE PipelineTypeOK
        OBVIOUS
    <2> USE DEF Inv, TypeInv
    <2>1. ASSUME NEW t \in Source, NEW n \in 1 .. Latest(t) PROVE RowTypeOK(row[t][n])
        <3>1. row[t][n] \in Revision
            BY Numbers
        <3>2. row[t][n].decision \in entry \cup {NoOne}
            BY <3>1
            DEF LedgerInv, RevisionInv, Revision, State, Decided, SupersededEvent, TerminalEvent
        <3> QED
            BY <3>1, <3>2 DEF RowTypeOK, Revision, Content, State
    <2>2. \A t \in Source : fact[t] \in {SoundFact} \cup Flawed /\ Len(row[t]) <= MaxRev
        BY DEF LedgerTypeOK, Latest
    <2>3. /\ deployed \in Digest /\ concluded \in [Source -> BOOLEAN] /\ login \subseteq Session
          /\ app \in {"down", "starting", "up"} /\ backlog \subseteq Candidate
          /\ faults \in 0 .. MaxFault
        BY DEF LedgerTypeOK, QuarantineTypeOK
    <2>4. \A a \in Address : disk[a] \in Directory
        BY DEF QuarantineTypeOK
    <2>5. \A c \in Candidate : pkg[c] \in PackageRow
        BY DEF QuarantineTypeOK
    <2> QED
        BY <2>1, <2>2, <2>3, <2>4, <2>5 DEF PipelineTypeOK, Directory, PackageRow
<1> QED
    BY <1>1, Safe, PTL

\* Every revision verifies for ever, and while the API serves only damaged bytes
\* of the package of an accepted revision make its candidate unavailable
\* (asset_candidates.py get_for_task).
THEOREM LedgerCorrect == PipelineSafety => []LedgerVerifies
<1>1. Inv => LedgerVerifies
    <2> SUFFICES ASSUME Inv PROVE LedgerVerifies
        OBVIOUS
    <2>1. ASSUME NEW t \in Source, app = "up", CandidateRead(t) = "unavailable"
          PROVE  /\ row[t][Latest(t)].state = "accepted"
                 /\ disk[pkg[<< t, Latest(t) >>].at].bytes = "damaged"
        <3> DEFINE n == Latest(t)
                   c == << t, n >>
        <3>1. n # 0 /\ (~ PublicProjection(t, n) \/ ~ WithSkillPackage(c))
            BY <2>1 DEF CandidateRead
        <3>2. n \in 1 .. Latest(t) /\ c \in Candidate /\ c[1] = t /\ c[2] = n
            <4>1. n \in Nat /\ \A k \in 1 .. Latest(t) : << t, k >> \in Candidate
                BY Numbers DEF Inv, TypeInv
            <4> QED
                BY <3>1, <4>1
        <3>3. PublicProjection(t, n)
            BY <3>1, <3>2, Reads
        <3>4. /\ row[t][n].state = "accepted"
              /\ pkg[c].state = "none" \/ ~ PackageProjection(c)
            BY <3>1, <3>2, <3>3 DEF WithSkillPackage
        \* the start-up wrote the packages that were missing
        <3>5. pkg[c].state # "none"
            BY <2>1, <3>2, <3>4 DEF Inv, StartInv, Unmaterialized
        <3>6. pkg[c].at \in Address /\ disk[pkg[c].at].entry = "durable"
            BY <3>2, <3>5 DEF Inv, PackageInv
        <3>7. ~ Whole(pkg[c].at)
            BY <3>2, <3>4, <3>5, Reads
        \* and no power loss could take what the commit had synced
        <3>8. disk[pkg[c].at].bytes = "damaged"
            BY <3>6, <3>7 DEF Whole, Inv, DiskInv, NoDir
        <3> QED
            BY <3>4, <3>8
    <2> QED
        BY <2>1, Reads DEF LedgerVerifies
<1> QED
    BY <1>1, Safe, PTL

\* The directory a package row names has been synced before the row was
\* committed (candidate_materializer.py _install_or_adopt_tree).
THEOREM DurableCorrect == PipelineSafety => []PackageIsDurable
<1>1. Inv => PackageIsDurable
    BY DEF Inv, DiskInv, PackageInv, PackageIsDurable, NoDir
<1> QED
    BY <1>1, Safe, PTL

\* No request is served while an accepted latest revision lacks its package
\* (main.py runs the backfill before it serves).
THEOREM MaterializedCorrect == PipelineSafety => []AcceptedIsMaterialized
<1>1. Inv => AcceptedIsMaterialized
    BY DEF Inv, StartInv, AcceptedIsMaterialized
<1> QED
    BY <1>1, Safe, PTL

\* What the writes of the ledger and of the packages do to what is decided.
LEMMA DecidedStep ==
    ASSUME Inv, [PipelineNext]_pipelineVars
    PROVE  /\ \A t \in Source : \A n \in 1 .. Latest(t) :
                /\ row[t][n].state # "awaiting" => row'[t][n] = row[t][n]
                /\ row[t][n].state = "awaiting" /\ row'[t][n].state \in Decided =>
                     /\ row'[t][n].decision.by \in login
                     /\ row[t][n].content = Projection(t)
                     /\ fact[t].terminal = "eligible" /\ SignoffLineage(t)
<1> USE DEF Inv, TypeInv
<1> DEFINE Kept(t, n) ==
       /\ row[t][n].state # "awaiting" => row'[t][n] = row[t][n]
       /\ row[t][n].state = "awaiting" /\ row'[t][n].state \in Decided =>
            /\ row'[t][n].decision.by \in login
            /\ row[t][n].content = Projection(t)
            /\ fact[t].terminal = "eligible" /\ SignoffLineage(t)
<1> SUFFICES \A t \in Source : \A n \in 1 .. Latest(t) : Kept(t, n)
    OBVIOUS
<1>1. ASSUME NEW t \in Source, NEW n, row'[t][n] = row[t][n] PROVE Kept(t, n)
    BY <1>1 DEF Decided
<1>2. ASSUME NEW t \in Source, NEW n \in 1 .. Latest(t), NEW state \in Decided,
             NEW s \in Session, Decide(t, n, state, s), s \in login, Awaited(t, n),
             NEW u \in Source, NEW k \in 1 .. Latest(u)
      PROVE  Kept(u, k)
    <2> DEFINE e == Event(<< t, n >>, state, s)
    <2>1. /\ e.by = s
          /\ \A v \in Source : \A m \in 1 .. Latest(v) :
                v # t \/ m # n => row'[v][m] = row[v][m]
          /\ row'[t][n].state = state /\ row'[t][n].decision = e
        BY <1>2, DecideRow
    <2> HIDE DEF e
    <2>2. CASE u = t /\ k = n
        BY <1>2, <2>1, <2>2 DEF Awaited
    <2>3. CASE u # t \/ k # n
        BY <1>1, <2>1, <2>3
    <2> QED
        BY <2>2, <2>3
<1>3. ASSUME NEW t \in Source, Submit(t), NEW u \in Source, NEW k \in 1 .. Latest(u)
      PROVE  Kept(u, k)
    <2>1. CreateCandidate(t)
        BY <1>3 DEF Submit, Locked
    <2>2. LedgerTypeOK
        OBVIOUS
    <2> DEFINE n == Latest(t)
               retire == n > 0 /\ row[t][n].state = "awaiting"
               old == Event(<< t, n >>, "superseded", NoOne)
    <2>3. /\ \A v \in Source : \A m \in 1 .. Latest(v) :
                v # t \/ m # n \/ ~ retire => row'[v][m] = row[v][m]
          /\ retire => row'[t][n].state = "superseded" /\ row'[t][n].decision = old
        <3> HIDE DEF Kept, Inv, TypeInv
        <3> QED
            BY <2>1, <2>2, CreateRow
    <2> HIDE DEF n, retire, old
    <2>4. CASE u # t \/ k # n \/ ~ retire
        BY <1>1, <2>3, <2>4
    <2>5. CASE u = t /\ k = n /\ retire
        BY <2>3, <2>5 DEF retire, Decided
    <2> QED
        BY <2>4, <2>5
<1>4. ASSUME NEW t \in Source, NEW n \in 1 .. MaxRev, NEW s \in Session, Refuse(t, n, s),
             NEW u \in Source, NEW k \in 1 .. Latest(u)
      PROVE  Kept(u, k)
    <2>1. /\ n \in 1 .. Latest(t) /\ Decide(t, n, "rejected", s) /\ s \in login
          /\ Awaited(t, n)
        BY <1>4
        DEF Refuse, Locked, RejectCandidate, Decidable, SignedIn, TaskForOwner, Projectable,
            Awaited
    <2> QED
        BY <1>2, <2>1 DEF Decided
<1>5. ASSUME CommitAcceptance, NEW u \in Source, NEW k \in 1 .. Latest(u) PROVE Kept(u, k)
    <2>1. tx # NoTx /\ tx.kind = "accept"
        BY <1>5 DEF CommitAcceptance, AtStep
    <2>2. /\ tx.of[1] \in Source /\ tx.of[2] \in 1 .. Latest(tx.of[1]) /\ tx.by \in Session
          /\ tx.by \in login /\ Awaited(tx.of[1], tx.of[2])
        BY <2>1, AtWork DEF LockInv
    <2>3. Decide(tx.of[1], tx.of[2], "accepted", tx.by)
        BY <1>5 DEF CommitAcceptance
    <2> QED
        BY <1>2, <2>2, <2>3 DEF Decided
<1>6. CASE UNCHANGED row
    BY <1>1, <1>6
<1> HIDE DEF Kept
<1> QED
    BY <1>3, <1>4, <1>5, <1>6
    DEF PipelineNext, Owner, Materialize, Startup, Misfortune, pipelineVars, ledgerVars,
        Conclude, SignOut, Deploy, Locked, ConcludeConversation, Logout, DeployPackage,
        BeginAcceptance, DecidePackage, Adopt, VerifyFailed, Abort, WriteStaging, Rename,
        SyncDirectories, CommitBackfill, StartApp, BeginBackfill, Serve, IoError, KillApp,
        PowerLoss, Damage

\* A package under way has no row, so it can take the place of no other.
LEMMA NoneYet ==
    ASSUME Inv, tx # NoTx
    PROVE  /\ pkg[tx.of].state = "none" /\ pkg[tx.of].review = NoOne
           /\ \A c \in Candidate : pkg[c].state # "none" => pkg[c].at # Install
<1> USE DEF Inv, TypeInv
<1>1. tx.of \in Candidate
    BY AtWork
<1>2. row[tx.of[1]][tx.of[2]].state # "accepted" \/ pkg[tx.of].state = "none"
    BY AtWork DEF LockInv, Awaited, Unmaterialized, Transaction
<1>3. pkg[tx.of].state = "none"
    BY <1>1, <1>2 DEF PackageInv
<1> QED
    BY <1>1, <1>3 DEF PackageInv, Install

\* A revision is decided once and for ever, and so is a package.
THEOREM FinalCorrect == PipelineSafety => DecisionsAreFinal
<1>1. ASSUME Inv, [PipelineNext]_pipelineVars, NEW c \in Candidate, pkg[c].review # NoOne
      PROVE  pkg'[c] = pkg[c]
    <2> USE DEF Inv, TypeInv
    <2>1. ASSUME NEW b \in Candidate, NEW s \in Session, NEW verdict \in {"approved", "rejected"},
                 DecidePackage(b, verdict, s)
          PROVE  pkg'[c] = pkg[c]
        BY <1>1, <2>1 DEF DecidePackage, QuarantineTypeOK
    <2>2. CASE CommitAcceptance \/ CommitBackfill
        <3>1. tx # NoTx /\ InsertPackage(tx.of, Install)
            BY <2>2 DEF CommitAcceptance, CommitBackfill, AtStep
        <3>2. c # tx.of
            BY <1>1, <3>1, NoneYet
        <3> QED
            BY <3>1, <3>2 DEF InsertPackage, QuarantineTypeOK
    <2>3. CASE UNCHANGED pkg
        BY <2>3
    <2> QED
        BY <1>1, <2>1, <2>2, <2>3
        DEF PipelineNext, Owner, Materialize, Startup, Misfortune, pipelineVars, ledgerVars,
            quarantineVars, Submit, Refuse, Conclude, SignOut, Deploy, Locked, BeginAcceptance,
            Adopt, VerifyFailed, Abort, WriteStaging, Rename, SyncDirectories, StartApp,
            BeginBackfill, Serve, IoError, KillApp, PowerLoss, Damage
<1>2. Inv /\ [PipelineNext]_pipelineVars =>
         [/\ \A t \in Source : \A n \in 1 .. Latest(t) :
                row[t][n].state # "awaiting" => row'[t][n] = row[t][n]
          /\ \A c \in Candidate :
                pkg[c].review # NoOne => pkg'[c] = pkg[c]]_pipelineVars
    BY <1>1, DecidedStep
<1> QED
    BY <1>2, Safe, PTL DEF PipelineSafety, DecisionsAreFinal

\* A decision is one of a session that exists when it is committed, on the
\* evidence the sources give then, however long the disk has taken.
THEOREM EvidenceCorrect == PipelineSafety => DecidedOnEvidence
<1>1. Inv /\ [PipelineNext]_pipelineVars =>
         [\A t \in Source : \A n \in 1 .. Latest(t) :
            row[t][n].state = "awaiting" /\ row'[t][n].state \in Decided =>
                /\ row'[t][n].decision.by \in login
                /\ row[t][n].content = Projection(t)
                /\ fact[t].terminal = "eligible" /\ SignoffLineage(t)]_pipelineVars
    BY DecidedStep
<1> QED
    BY <1>1, Safe, PTL DEF PipelineSafety, DecidedOnEvidence

\* The packages nobody can read any more are those whose bytes are not whole.
Spoilt == {c \in Candidate : pkg[c].state # "none" /\ ~ PackageProjection(c)}

BytesDecide ==
    \A c \in Candidate : c \in Spoilt <=> pkg[c].state # "none" /\ ~ Whole(pkg[c].at)

\* A package is unreadable exactly if its directory is.
LEMMA SpoiltBytes == Inv => BytesDecide
    BY Reads DEF BytesDecide, Spoilt

\* Only damage spoils a package: neither the installation of another one nor a
\* power loss touches its directory.
LEMMA WholeStays ==
    ASSUME Inv, [PipelineNext]_pipelineVars, NEW c \in Candidate, pkg[c].state # "none",
           NEW a, a = pkg[c].at, ~ \E b \in Address : b = a /\ Damage(b)
    PROVE  Whole(a)' <=> Whole(a)
<1> USE DEF Inv, TypeInv
<1>1. /\ a \in Address /\ disk[a].entry = "durable" /\ disk[a].bytes \in {"durable", "damaged"}
      /\ disk[a] \in Directory
    BY DEF PackageInv, DiskInv, NoDir, QuarantineTypeOK
<1>2. CASE disk'[a] = disk[a]
    BY <1>2 DEF Whole
<1>3. CASE Adopt \/ Rename \/ SyncDirectories
    <2>1. a # Install
        BY <1>3, NoneYet DEF Adopt, Rename, SyncDirectories, AtStep
    <2> QED
        BY <1>1, <1>2, <1>3, <2>1 DEF Adopt, Rename, SyncDirectories, QuarantineTypeOK
<1>4. CASE PowerLoss
    BY <1>1, <1>2, <1>4 DEF PowerLoss
<1>5. ASSUME NEW b \in Address, Damage(b) PROVE Whole(a)' <=> Whole(a)
    BY <1>1, <1>2, <1>5 DEF Damage, QuarantineTypeOK
<1>6. CASE UNCHANGED disk
    BY <1>2, <1>6
<1> QED
    BY <1>3, <1>4, <1>5, <1>6
    DEF PipelineNext, Owner, Materialize, Startup, Misfortune, pipelineVars, quarantineVars,
        Submit, Refuse, Conclude, SignOut, Deploy, Locked, BeginAcceptance, DecidePackage,
        VerifyFailed, Abort, WriteStaging, CommitAcceptance, CommitBackfill, StartApp,
        BeginBackfill, Serve, IoError, KillApp

\* A step that leaves the package rows alone spoils at most the damaged one.
LEMMA ShelfStutters ==
    ASSUME Inv, Inv', [PipelineNext]_pipelineVars, UNCHANGED pkg, BytesDecide'
    PROVE  [Shelf!ShelfNext]_Shelf!shelfVars
<1> USE DEF Shelf!ShelfNext, Shelf!shelfVars
<1>1. CASE \E c \in Candidate : /\ pkg[c].state # "none"
                                /\ \E b \in Address : b = pkg[c].at /\ Damage(b)
    <2>1. PICK c \in Candidate : /\ pkg[c].state # "none"
                                 /\ \E b \in Address : b = pkg[c].at /\ Damage(b)
        BY <1>1
    <2>2. PICK b \in Address : b = pkg[c].at /\ Damage(b)
        BY <2>1
    <2>3. /\ Whole(b) /\ ~ Whole(b)'
        BY <2>2 DEF Damage, Whole, Inv, TypeInv, QuarantineTypeOK, Directory
    <2>4. c \notin Spoilt /\ c \in Spoilt'
        BY <2>1, <2>2, <2>3, SpoiltBytes DEF BytesDecide
    <2>5. ASSUME NEW d \in Candidate, d # c PROVE d \in Spoilt' <=> d \in Spoilt
        <3>1. CASE pkg[d].state # "none"
            <4>1. pkg[d].at # pkg[c].at
                BY <2>1, <2>5, <3>1 DEF Inv, PackageInv
            <4>2. PICK a : a = pkg[d].at
                OBVIOUS
            <4>3. disk'[a] = disk[a]
                BY <2>2, <3>1, <4>1, <4>2
                DEF Damage, Inv, TypeInv, QuarantineTypeOK, PackageInv
            <4> QED
                BY <3>1, <4>2, <4>3, SpoiltBytes DEF BytesDecide, Whole
        <3>2. CASE pkg[d].state = "none"
            BY <3>2, SpoiltBytes DEF BytesDecide
        <3> QED
            BY <3>1, <3>2
    <2>6. Spoilt' = Spoilt \cup {c}
        BY <2>4, <2>5 DEF Spoilt
    <2>7. Shelf!Spoil(c)
        BY <2>1, <2>4, <2>6 DEF Shelf!Spoil, Shelf!Readable, Spoilt
    <2> QED
        BY <2>7
<1>2. CASE ~ \E c \in Candidate : /\ pkg[c].state # "none"
                                  /\ \E b \in Address : b = pkg[c].at /\ Damage(b)
    <2>1. ASSUME NEW c \in Candidate PROVE c \in Spoilt' <=> c \in Spoilt
        <3>1. CASE pkg[c].state # "none"
            <4>1. PICK a : a = pkg[c].at
                OBVIOUS
            <4>2. Whole(a)' <=> Whole(a)
                BY <1>2, <3>1, <4>1, WholeStays
            <4> QED
                BY <3>1, <4>1, <4>2, SpoiltBytes DEF BytesDecide, Whole
        <3>2. CASE pkg[c].state = "none"
            BY <3>2, SpoiltBytes DEF BytesDecide
        <3> QED
            BY <3>1, <3>2
    <2>2. Spoilt' = Spoilt
        BY <2>1 DEF Spoilt
    <2> QED
        BY <2>2 DEF Spoilt
<1> QED
    BY <1>1, <1>2

\* Every step of the pipeline is a step of the shelf, or none.
LEMMA ShelfStep ==
    ASSUME Inv, Inv', [PipelineNext]_pipelineVars, BytesDecide'
    PROVE  [Shelf!ShelfNext]_Shelf!shelfVars
<1>1. ASSUME NEW c \in Candidate, CommitAcceptance \/ CommitBackfill, c = tx.of
      PROVE  Shelf!Shelve(c)
    <2>1. /\ tx # NoTx /\ InsertPackage(c, Install) /\ UNCHANGED disk
          /\ PackageProjection(c)'
        BY <1>1 DEF CommitAcceptance, CommitBackfill, AtStep
    <2>2. pkg[c].state = "none" /\ pkg \in [Candidate -> PackageRow]
        BY <1>1, <2>1, NoneYet DEF Inv, TypeInv, QuarantineTypeOK
    <2>3. /\ pkg'[c].state = "pending" /\ \A b \in Candidate : b # c => pkg'[b] = pkg[b]
          /\ pkg' \in [Candidate -> PackageRow]
        BY <2>1, <2>2 DEF InsertPackage, Inv, TypeInv, QuarantineTypeOK
    <2>4. c \notin Spoilt /\ c \notin Spoilt'
        BY <2>1, <2>2 DEF Spoilt
    <2>5. ASSUME NEW b \in Candidate, b # c PROVE b \in Spoilt' <=> b \in Spoilt
        BY <2>1, <2>3, <2>5, SpoiltBytes DEF BytesDecide, Whole
    <2>6. Spoilt' = Spoilt
        BY <2>4, <2>5 DEF Spoilt
    <2>7. [b \in Candidate |-> pkg[b].state]'
            = [[b \in Candidate |-> pkg[b].state] EXCEPT ![c] = "pending"]
        BY <2>3
    <2> QED
        BY <2>2, <2>6, <2>7 DEF Shelf!Shelve, Spoilt
<1>2. ASSUME NEW c \in Candidate, NEW s \in Session, NEW verdict \in {"approved", "rejected"},
             DecidePackage(c, verdict, s)
      PROVE  Shelf!Review(c, verdict)
    <2>1. /\ pkg \in [Candidate -> PackageRow] /\ pkg[c].state = "pending"
          /\ PackageProjection(c) /\ UNCHANGED disk
          /\ pkg' = [pkg EXCEPT ![c] = [pkg[c] EXCEPT !.state = verdict, !.review = s]]
        BY <1>2 DEF DecidePackage, Inv, TypeInv, QuarantineTypeOK
    <2>2. /\ pkg'[c].state = verdict /\ pkg'[c].at = pkg[c].at
          /\ \A b \in Candidate : b # c => pkg'[b] = pkg[b]
        BY <2>1 DEF PackageRow
    <2>3. ASSUME NEW b \in Candidate PROVE b \in Spoilt' <=> b \in Spoilt
        BY <2>1, <2>2, SpoiltBytes DEF BytesDecide, Whole
    <2>4. Spoilt' = Spoilt /\ c \notin Spoilt
        BY <2>1, <2>3 DEF Spoilt
    <2>5. [b \in Candidate |-> pkg[b].state]'
            = [[b \in Candidate |-> pkg[b].state] EXCEPT ![c] = verdict]
        BY <2>2
    <2> QED
        BY <2>1, <2>4, <2>5 DEF Shelf!Review, Shelf!Readable, Spoilt
<1>3. CASE UNCHANGED pkg
    BY <1>3, ShelfStutters
<1>4. CommitAcceptance \/ CommitBackfill => tx.of \in Candidate
    BY AtWork DEF CommitAcceptance, CommitBackfill, AtStep, Inv
<1> QED
    BY <1>1, <1>2, <1>3, <1>4
    DEF PipelineNext, Owner, Materialize, Startup, Misfortune, pipelineVars, ledgerVars,
        quarantineVars, Submit, Refuse, Conclude, SignOut, Deploy, Locked, BeginAcceptance,
        Adopt, VerifyFailed, Abort, WriteStaging, Rename, SyncDirectories, StartApp,
        BeginBackfill, Serve, IoError, KillApp, PowerLoss, Damage, Shelf!ShelfNext

\* The pipeline implements the shelf: whatever crashes, restarts and damages
\* occur, a package is shelved once, reviewed once while it can be read, and
\* never taken back.
THEOREM ShelfCorrect == PipelineSafety => ImplementsShelf
<1>1. PipelineInit => Shelf!ShelfInit
    BY DEF PipelineInit, QuarantineInit, NoPackage, Shelf!ShelfInit
<1>2. Inv' => BytesDecide'
    BY SpoiltBytes, PTL
<1>3. Inv /\ Inv' /\ [PipelineNext]_pipelineVars => [Shelf!ShelfNext]_Shelf!shelfVars
    BY <1>2, ShelfStep
<1> QED
    BY <1>1, <1>3, Safe, PTL DEF PipelineSafety, ImplementsShelf, Shelf!ShelfSpec

===============================================================================
