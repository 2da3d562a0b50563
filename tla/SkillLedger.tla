----------------------------- MODULE SkillLedger -----------------------------
(***************************************************************************)
(* The ledger of asset candidates (ontology/asset_candidates.py): revisions *)
(* of what a completed task taught, each bound to the evidence of that task *)
(* and decided once by its owner, with an append-only list of events.       *)
(* A candidate is <<t, n>>, revision n of source task t; its digest covers  *)
(* the content and the digest of revision n - 1, so <<t, n>> is its digest. *)
(***************************************************************************)
EXTENDS Integers, Sequences, FiniteSets

CONSTANTS Source,      \* source tasks
          LegacySource,\* those whose first revision an earlier release may have accepted
          Session,     \* login sessions of their owner
          MaxRev,      \* bound: revisions per task
          NoOne        \* no session, no event, no candidate

ASSUME LedgerAssumption == /\ LegacySource \subseteq Source
                           /\ MaxRev \in Nat \ {0}
                           /\ NoOne \notin Session /\ Session # {}

VARIABLES fact,        \* task -> what the task rows, events and files say
          deployed,    \* digest of the agent package in the registry
          concluded,   \* task -> its conversation has been concluded
          login,       \* sessions that still exist
          row,         \* task -> its revisions in order
          entry        \* asset_candidate_events

ledgerVars == << fact, deployed, concluded, login, row, entry >>

Digest == 1 .. 2
Candidate == Source \X (1 .. MaxRev)

\* what a source task may look like; the digests 1 and 2 stand for whatever
\* the inputs, the files and the package of a run hash to
SoundFact == [ terminal |-> "eligible", pinned |-> 1, executed |-> 1,
               inputs |-> 1, started |-> 1, signature |-> 1,
               attached |-> TRUE, owned |-> TRUE, piped |-> "resolved",
               asked |-> TRUE ]

\* a sound task, or one with a single flaw
Flawed == { [SoundFact EXCEPT !.terminal = x] : x \in {"open", "eval", "restricted"} }
          \cup { [SoundFact EXCEPT !.executed = x] : x \in {2, NoOne} }
          \cup { [SoundFact EXCEPT !.inputs = 2], [SoundFact EXCEPT !.started = 2],
                 [SoundFact EXCEPT !.signature = NoOne],
                 [SoundFact EXCEPT !.signature = 2],
                 [SoundFact EXCEPT !.attached = FALSE],
                 [SoundFact EXCEPT !.owned = FALSE],
                 [SoundFact EXCEPT !.piped = "unresolved"],
                 [SoundFact EXCEPT !.asked = FALSE] }

-----------------------------------------------------------------------------
\* What is rebuilt from the live sources at every request

TaskForOwner(t) == fact[t].terminal = "eligible"

PackageBinding(t) ==
    /\ fact[t].pinned = deployed
    /\ fact[t].executed = fact[t].pinned
    /\ fact[t].started = fact[t].inputs

\* the messages since the last boundary hold one of the user
WorkCaseSegment(t) == fact[t].asked

FileLineage(t) == fact[t].attached /\ fact[t].owned

UpstreamOutputInput(t) == fact[t].piped # "unresolved"

\* the review_approved event, or the task_completed one of a deterministic
\* agent, binds the evidence the run was started with
SignoffLineage(t) == fact[t].signature = fact[t].started

Projectable(t) ==
    /\ PackageBinding(t) /\ WorkCaseSegment(t) /\ FileLineage(t)
    /\ UpstreamOutputInput(t) /\ SignoffLineage(t)

\* the bundle: the work case carries the status of the conversation
Projection(t) == [ evidence |-> fact[t].started, concluded |-> concluded[t] ]

-----------------------------------------------------------------------------
\* Rows and events

Latest(t) == Len(row[t])

Event(c, type, by) ==
    [ of |-> c, type |-> type, by |-> by,
      no |-> 1 + Cardinality({e \in entry : e.of = c}) ]

Decided == {"accepted", "rejected"}

UniqueCreated(t, n) ==
    Cardinality({e \in entry : e.of = << t, n >> /\ e.type = "created"}) = 1

SupersededEvent(t, n) ==
    {e \in entry : e.of = << t, n >> /\ e.type = "superseded"} = {row[t][n].decision}

TerminalEvent(t, n) ==
    LET e == row[t][n].decision IN
    e \in entry /\ e.of = << t, n >> /\ e.type = row[t][n].state /\ e.by # NoOne

RevisionChain(t, n) ==
    \A k \in 1 .. n :
        /\ UniqueCreated(t, k)
        /\ k < n => \/ row[t][k].state = "superseded" /\ SupersededEvent(t, k)
                    \/ row[t][k].state \in Decided /\ TerminalEvent(t, k)

\* every read verifies the revision, its predecessors and their events
PublicProjection(t, n) ==
    /\ RevisionChain(t, n)
    /\ \/ row[t][n].state = "awaiting" /\ row[t][n].decision = NoOne
       \/ row[t][n].state \in Decided /\ TerminalEvent(t, n)

-----------------------------------------------------------------------------
\* Transactions, each under BEGIN IMMEDIATE

\* cas_decision
Moved(t, n, state, e) == [row[t][n] EXCEPT !.state = state, !.decision = e]

SetRow(t, n, state, e) == row' = [row EXCEPT ![t][n] = Moved(t, n, state, e)]

NewRow(t) == [ content |-> Projection(t), state |-> "awaiting", decision |-> NoOne ]

\* on top of no revision, or of a decided one
Succeed(t) ==
    /\ row' = [row EXCEPT ![t] = Append(@, NewRow(t))]
    /\ entry' = entry \cup {Event(<< t, Latest(t) + 1 >>, "created", NoOne)}

SupersedeUnrecorded(t) ==                                          \* mutant
    LET n == Latest(t)
        old == Event(<< t, n >>, "superseded", NoOne) IN
    /\ row' = [row EXCEPT ![t] =
                  Append([@ EXCEPT ![n] = Moved(t, n, "superseded", old)], NewRow(t))]
    /\ entry' = entry \cup {Event(<< t, n + 1 >>, "created", NoOne)}

\* the awaiting predecessor is retired in the commit of its successor
Supersede(t) ==
    LET n == Latest(t)
        old == Event(<< t, n >>, "superseded", NoOne) IN
    /\ row' = [row EXCEPT ![t] =
                  Append([@ EXCEPT ![n] = Moved(t, n, "superseded", old)], NewRow(t))]
    /\ entry' = entry \cup {old, Event(<< t, n + 1 >>, "created", NoOne)}

\* create_for_completed_task; the same content again changes nothing
CreateCandidate(t) ==
    /\ TaskForOwner(t) /\ Projectable(t)
    /\ Latest(t) < MaxRev
    /\ Latest(t) > 0 => /\ PublicProjection(t, Latest(t))
                        /\ row[t][Latest(t)].content # Projection(t)
    /\ IF Latest(t) > 0 /\ row[t][Latest(t)].state = "awaiting"
       THEN Supersede(t) ELSE Succeed(t)
    /\ UNCHANGED << fact, deployed, concluded, login >>

\* get_authenticated_session_by_hash, in the transaction of the decision
SignedIn(s) == s \in login

DecidableUnlessDrifted(t, n, s) ==                                 \* mutant
    /\ SignedIn(s)
    /\ TaskForOwner(t)
    /\ n \in 1 .. Latest(t)
    /\ row[t][n].state = "awaiting" /\ row[t][n].decision = NoOne

DecidableAgain(t, n, s) ==                                         \* mutant
    /\ SignedIn(s)
    /\ TaskForOwner(t)
    /\ n \in 1 .. Latest(t)
    /\ Projectable(t) /\ Projection(t) = row[t][n].content

\* what decide verifies before it writes: the session exists in the same
\* transaction, the row is undecided and the live sources still say the same
Decidable(t, n, s) ==
    /\ SignedIn(s)
    /\ TaskForOwner(t)
    /\ n \in 1 .. Latest(t)
    /\ row[t][n].state = "awaiting" /\ row[t][n].decision = NoOne
    /\ Projectable(t) /\ Projection(t) = row[t][n].content

Decide(t, n, state, s) ==
    LET e == Event(<< t, n >>, state, s) IN
    SetRow(t, n, state, e) /\ entry' = entry \cup {e}

RejectCandidate(t, n, s) ==
    /\ Decidable(t, n, s)
    /\ Decide(t, n, "rejected", s)
    /\ UNCHANGED << fact, deployed, concluded, login >>
    /\ PublicProjection(t, n)'

-----------------------------------------------------------------------------
\* The sources go on changing

DeployPackage ==
    /\ deployed' = 3 - deployed
    /\ UNCHANGED << fact, concluded, login, row, entry >>

ConcludeConversation(t) ==
    /\ ~ concluded[t]
    /\ concluded' = [concluded EXCEPT ![t] = TRUE]
    /\ UNCHANGED << fact, deployed, login, row, entry >>

Logout(s) ==
    /\ s \in login
    /\ login' = login \ {s}
    /\ UNCHANGED << fact, deployed, concluded, row, entry >>

\* an earlier release accepted a first revision and wrote no package
LegacyEntries(t) == { [ of |-> << t, 1 >>, type |-> "created", by |-> NoOne, no |-> 1 ],
                      [ of |-> << t, 1 >>, type |-> "accepted",
                        by |-> CHOOSE s \in Session : TRUE, no |-> 2 ] }

LegacyRow(t) == [ content |-> [ evidence |-> 1, concluded |-> FALSE ],
                  state |-> "accepted",
                  decision |-> CHOOSE e \in LegacyEntries(t) : e.type = "accepted" ]

LedgerInit ==
    /\ fact \in [Source -> {SoundFact} \cup Flawed]
    /\ Cardinality({t \in Source : fact[t] # SoundFact}) <= 1
    /\ deployed = 1
    /\ concluded = [t \in Source |-> FALSE]
    /\ login = Session
    /\ \E legacy \in SUBSET {t \in LegacySource : fact[t] = SoundFact} :
          /\ row = [t \in Source |-> IF t \in legacy THEN << LegacyRow(t) >> ELSE << >>]
          /\ entry = UNION {LegacyEntries(t) : t \in legacy}
=============================================================================
