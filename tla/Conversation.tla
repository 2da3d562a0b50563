---------------------------- MODULE Conversation ----------------------------
(***************************************************************************)
(* One conversation with Guide (runtime/conversation.py,                    *)
(* runtime/work_segments.py, api/conversations.py).  A round reads the      *)
(* history, spends minutes with the model outside any transaction and       *)
(* commits only on top of the history it has read; the tasks started        *)
(* meanwhile and Guide's refusals cut the conversation into work segments.  *)
(***************************************************************************)
EXTENDS Integers, Sequences, FiniteSets

CONSTANTS Round,       \* requests to post a message
          Streamed,    \* those that read the answer as a stream
          MaxRounds,   \* rounds the lineage budget of a conversation allows
          NoPlan

ASSUME RoundAssumption == Streamed \subseteq Round /\ MaxRounds \in Nat

VARIABLES conv,        \* active or concluded
          timeline,    \* rounds and tasks in the order of their created_at
          plan,        \* the recommendation of the last round
          round,       \* request -> what its thread knows
          client       \* request -> waiting, gone

conversationVars == << conv, timeline, plan, round, client >>

\* ends: a refusal of Guide or the delivery of an answer to a question
Entry(kind, id, ends) == [ kind |-> kind, id |-> id, ends |-> ends ]

Idle == [ phase |-> "idle" ]

-----------------------------------------------------------------------------
\* What is read of a timeline, where a place stands for its created_at

RoundsIn(tl) == {i \in DOMAIN tl : tl[i].kind = "round"}
TasksIn(tl) == {i \in DOMAIN tl : tl[i].kind = "task"}
EndsIn(tl) == {i \in DOMAIN tl : tl[i].ends}

RoundCount(tl) == Cardinality(RoundsIn(tl))

\* list_tasks with a limit of one, the latest first
LatestTask(tl) ==
    { tl[i].id : i \in {j \in TasksIn(tl) : \A k \in TasksIn(tl) : k <= j} }

\* _work_segment_boundary_marker
Marker(messages, tasks) == << LatestTask(tasks), EndsIn(messages) >>

\* a segment begins after all of these, by the times of what was read
Boundaries(messages, tasks) == TasksIn(tasks) \cup EndsIn(messages)

Segment(messages, tasks) ==
    { messages[i].id : i \in {j \in RoundsIn(messages) :
          \A b \in Boundaries(messages, tasks) : b < j} }

-----------------------------------------------------------------------------
\* post_message

\* the conversation is active and has room for two messages more; the history
\* is read, and the tasks in a second read
ReadHistory(r) ==
    /\ round[r].phase = "idle"
    /\ conv = "active" /\ RoundCount(timeline) < MaxRounds
    /\ round' = [round EXCEPT ![r] = [ phase |-> "read", history |-> timeline ]]
    /\ UNCHANGED << conv, timeline, plan, client >>

ReadTasks(r) ==
    /\ round[r].phase = "read"
    /\ round' = [round EXCEPT ![r] =
                    [ phase |-> "running",
                      count |-> RoundCount(@.history),
                      marker |-> Marker(@.history, timeline),
                      basis |-> Segment(@.history, timeline) \cup {r} ]]
    /\ UNCHANGED << conv, timeline, plan, client >>

\* no such file, not cleared, a failure of the model, a conflict: nothing is
\* stored (a round refused at once is one that stays idle)
GiveUp(r) ==
    /\ round[r].phase \in {"read", "running"}
    /\ round' = [round EXCEPT ![r] = [ phase |-> "refused" ]]
    /\ UNCHANGED << conv, timeline, plan, client >>

FreshUnlessCut(r) ==                                               \* mutant
    /\ RoundCount(timeline) = round[r].count
    /\ RoundCount(timeline) < MaxRounds

Fresh(r) ==
    /\ RoundCount(timeline) = round[r].count
    /\ RoundCount(timeline) < MaxRounds
    /\ Marker(timeline, timeline) = round[r].marker

\* the matcher found a package: the plan carries its reference, with the
\* digest of the segment it was matched in
Plans(r) == [ by : {r}, reuse : {NoPlan, round[r].basis} ]

CommitAnyway(r, outcome) ==                                        \* mutant
    /\ round[r].phase = "running" /\ Fresh(r)
    /\ r \in Streamed => client[r] # "gone"
    /\ plan' \in IF outcome = "orchestrate" THEN Plans(r) ELSE {NoPlan}
    /\ timeline' = Append(timeline, Entry("round", r, outcome \in {"refuse", "answer"}))
    /\ round' = [round EXCEPT ![r].phase = "stored"]
    /\ UNCHANGED << conv, client >>

\* both messages and the recommendation in one transaction, which looks again
\* whether the conversation is active, its history the one that was read and
\* the reader of the stream still there
CommitRound(r, outcome) ==
    /\ round[r].phase = "running"
    /\ conv = "active" /\ Fresh(r)
    /\ r \in Streamed => client[r] # "gone"
    /\ plan' \in IF outcome = "orchestrate" THEN Plans(r) ELSE {NoPlan}
    /\ timeline' = Append(timeline, Entry("round", r, outcome \in {"refuse", "answer"}))
    /\ round' = [round EXCEPT ![r].phase = "stored"]
    /\ UNCHANGED << conv, client >>

\* the client of a plain request may leave as well, and nobody notices
Disconnect(r) ==
    /\ r \in Streamed
    /\ client[r] = "waiting" /\ round[r].phase # "idle"
    /\ client' = [client EXCEPT ![r] = "gone"]
    /\ UNCHANGED << conv, timeline, plan, round >>

Conclude ==
    /\ conv = "active"
    /\ conv' = "concluded"
    /\ UNCHANGED << timeline, plan, round, client >>

ConversationInit ==
    /\ conv = "active" /\ timeline = << >> /\ plan = NoPlan
    /\ round = [r \in Round |-> Idle]
    /\ client = [r \in Round |-> "waiting"]

ConversationNext ==
    \/ \E r \in Round :
          \/ ReadHistory(r) \/ ReadTasks(r) \/ GiveUp(r) \/ Disconnect(r)
          \/ \E outcome \in {"talk", "orchestrate", "refuse", "answer"} :
                CommitRound(r, outcome)
    \/ Conclude
=============================================================================
