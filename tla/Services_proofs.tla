---------------------------- MODULE Services_proofs ----------------------------
(***************************************************************************)
(* Conversations and the batches they start, for every number of rounds and *)
(* requests; then the composition: the three services share no state, so    *)
(* what is proved of each holds of all three together.                      *)
(*                                                                         *)
(* A batch is traced to the request that created it, and a round to the two *)
(* lengths the timeline had when it read the history and the tasks.  The    *)
(* check of the commit then says that neither a round nor a task nor an end *)
(* of a segment was added since.                                            *)
(***************************************************************************)
EXTENDS MCServices, Promotion_proofs, Login_proofs, SequenceTheorems,
        WellFoundedInduction

-----------------------------------------------------------------------------
\* Sequences

\* What is read of the beginning of a sequence.
LEMMA PrefixOf ==
    ASSUME NEW S, NEW s \in Seq(S), NEW n \in 0 .. Len(s)
    PROVE  /\ SubSeq(s, 1, n) \in Seq(S)
           /\ Len(SubSeq(s, 1, n)) = n
           /\ DOMAIN SubSeq(s, 1, n) = 1 .. n
           /\ \A i \in 1 .. n : SubSeq(s, 1, n)[i] = s[i]
<1>1. Len(s) \in Nat /\ n \in Int /\ 1 \in Int
    BY LenProperties
<1>2. \A i \in 1 .. n : s[i] \in S
    BY <1>1, ElementOfSeq
<1>3. /\ SubSeq(s, 1, n) \in Seq(S)
      /\ Len(SubSeq(s, 1, n)) = IF 1 <= n THEN n - 1 + 1 ELSE 0
      /\ \A i \in 1 .. n - 1 + 1 : SubSeq(s, 1, n)[i] = s[1 + i - 1]
    BY <1>1, <1>2, SubSeqProperties
<1>4. Len(SubSeq(s, 1, n)) = n
    BY <1>1, <1>3
<1>5. ASSUME NEW i \in 1 .. n PROVE SubSeq(s, 1, n)[i] = s[i]
  <2>1. i \in 1 .. n - 1 + 1 /\ 1 + i - 1 = i
      BY <1>1
  <2> QED
      BY <2>1, <1>3
<1> QED
    BY <1>3, <1>4, <1>5, LenProperties

\* A sequence that grows keeps its beginnings.
LEMMA PrefixKept ==
    ASSUME NEW S, NEW s \in Seq(S), NEW t \in Seq(S), Len(s) <= Len(t),
           \A i \in 1 .. Len(s) : t[i] = s[i], NEW n \in 0 .. Len(s)
    PROVE  n \in 0 .. Len(t) /\ SubSeq(t, 1, n) = SubSeq(s, 1, n)
<1>1. Len(s) \in Nat /\ Len(t) \in Nat
    BY LenProperties
<1>2. n \in 0 .. Len(t)
    BY <1>1
<1>3. /\ SubSeq(s, 1, n) \in Seq(S) /\ Len(SubSeq(s, 1, n)) = n
      /\ \A i \in 1 .. n : SubSeq(s, 1, n)[i] = s[i]
    BY PrefixOf
<1>4. /\ SubSeq(t, 1, n) \in Seq(S) /\ Len(SubSeq(t, 1, n)) = n
      /\ \A i \in 1 .. n : SubSeq(t, 1, n)[i] = t[i]
    BY <1>2, PrefixOf
<1>5. \A i \in 1 .. n : SubSeq(t, 1, n)[i] = SubSeq(s, 1, n)[i]
    BY <1>1, <1>3, <1>4
<1> QED
    BY <1>2, <1>3, <1>4, <1>5, SeqEqual

\* A set of places that is not empty has a last one.
LEMMA LastPlace ==
    ASSUME NEW n \in Nat, NEW S \in SUBSET (1 .. n), S # {}
    PROVE  \E last \in S : \A i \in S : i <= last
<1> DEFINE Less == OpToRel(<, Nat)
<1> DEFINE Rest == {n - i : i \in S}
<1>1. IsWellFoundedOn(Less, Nat)
    BY NatLessThanWellFounded
<1>2. \A x, y \in Nat : << y, x >> \in Less <=> y < x
    BY DEF OpToRel
<1> HIDE DEF Less
<1>3. Rest \subseteq Nat /\ Rest # {}
  <2>1. \A i \in S : n - i \in Nat
      OBVIOUS
  <2> QED
      BY <2>1
<1>4. PICK x \in Rest : \A y \in Rest : ~ (<< y, x >> \in Less)
    BY <1>1, <1>3, WFMin
<1>5. PICK last \in S : x = n - last
    OBVIOUS
<1>6. ASSUME NEW i \in S PROVE i <= last
  <2>1. n - i \in Rest /\ n - i \in Nat /\ x \in Nat
      BY <1>3
  <2>2. ~ (n - i < x)
      BY <2>1, <1>2, <1>4
  <2> QED
      BY <2>2, <1>5
<1> QED
    BY <1>6

-----------------------------------------------------------------------------
\* What a request reads of a timeline

\* The places of a timeline are numbers up to its length.
LEMMA PlacesRead ==
    ASSUME NEW S, NEW tl \in Seq(S)
    PROVE  /\ RoundsIn(tl) \subseteq 1 .. Len(tl) /\ IsFiniteSet(RoundsIn(tl))
           /\ TasksIn(tl) \subseteq 1 .. Len(tl)
           /\ EndsIn(tl) \subseteq 1 .. Len(tl)
           /\ Len(tl) \in Nat /\ RoundCount(tl) \in Nat
<1>1. DOMAIN tl = 1 .. Len(tl) /\ Len(tl) \in Nat
    BY LenProperties
<1>2. /\ RoundsIn(tl) \subseteq 1 .. Len(tl)
      /\ TasksIn(tl) \subseteq 1 .. Len(tl)
      /\ EndsIn(tl) \subseteq 1 .. Len(tl)
    BY <1>1 DEF RoundsIn, TasksIn, EndsIn
<1>3. IsFiniteSet(1 .. Len(tl))
    BY <1>1, FS_Interval
<1>4. IsFiniteSet(RoundsIn(tl))
    BY <1>2, <1>3, FS_Subset
<1> QED
    BY <1>1, <1>2, <1>4, FS_CardinalityType DEF RoundCount

\* A beginning of a timeline has the rounds, tasks and ends up to its length.
LEMMA ReadOfPrefix ==
    ASSUME NEW S, NEW tl \in Seq(S), NEW n \in 0 .. Len(tl)
    PROVE  LET before == SubSeq(tl, 1, n) IN
           /\ RoundsIn(before) = {i \in RoundsIn(tl) : i <= n}
           /\ TasksIn(before) = {i \in TasksIn(tl) : i <= n}
           /\ EndsIn(before) = {i \in EndsIn(tl) : i <= n}
<1> DEFINE before == SubSeq(tl, 1, n)
<1>1. DOMAIN tl = 1 .. Len(tl) /\ Len(tl) \in Nat
    BY LenProperties
<1>2. DOMAIN before = 1 .. n /\ \A i \in 1 .. n : before[i] = tl[i]
    BY PrefixOf
<1> HIDE DEF before
<1>3. RoundsIn(before) = {i \in RoundsIn(tl) : i <= n}
    BY <1>1, <1>2 DEF RoundsIn
<1>4. TasksIn(before) = {i \in TasksIn(tl) : i <= n}
    BY <1>1, <1>2 DEF TasksIn
<1>5. EndsIn(before) = {i \in EndsIn(tl) : i <= n}
  <2>1. ASSUME NEW i \in 1 .. n PROVE i \in EndsIn(before) <=> i \in EndsIn(tl)
    <3>1. before[i] = tl[i] /\ i \in DOMAIN before /\ i \in DOMAIN tl
        BY <1>1, <1>2
    <3> QED
        BY <3>1, Zenon DEF EndsIn
  <2>2. EndsIn(before) \subseteq 1 .. n /\ EndsIn(tl) \subseteq 1 .. Len(tl)
      BY <1>1, <1>2, Zenon DEF EndsIn
  <2>3. \A i \in 1 .. Len(tl) : i <= n <=> i \in 1 .. n
      BY <1>1
  <2>4. \A i \in 1 .. n : i \in 1 .. Len(tl)
      BY <1>1
  <2> QED
      BY <2>1, <2>2, <2>3, <2>4
<1> QED
    BY <1>3, <1>4, <1>5 DEF before

\* The check of a commit: when the rounds are as many as were read, the ends
\* are those that were read and the last task is the one that was read, the
\* work segment is the one that was read (post_message, which compares the
\* count of messages and _work_segment_boundary_marker again).
LEMMA SegmentKept ==
    ASSUME NEW S, NEW tl \in Seq(S), NEW h \in 0 .. Len(tl), NEW m \in 0 .. Len(tl),
           \A i, j \in TasksIn(tl) : tl[i].id = tl[j].id => i = j,
           RoundCount(tl) = RoundCount(SubSeq(tl, 1, h)),
           Marker(tl, tl) = Marker(SubSeq(tl, 1, h), SubSeq(tl, 1, m))
    PROVE  Segment(SubSeq(tl, 1, h), SubSeq(tl, 1, m)) = Segment(tl, tl)
<1> DEFINE messages == SubSeq(tl, 1, h)
<1> DEFINE tasks == SubSeq(tl, 1, m)
<1>1. /\ RoundsIn(messages) = {i \in RoundsIn(tl) : i <= h}
      /\ EndsIn(messages) = {i \in EndsIn(tl) : i <= h}
      /\ TasksIn(tasks) = {i \in TasksIn(tl) : i <= m}
    BY ReadOfPrefix, Zenon
<1>2. /\ \A i \in 1 .. h : messages[i] = tl[i]
      /\ \A i \in 1 .. m : tasks[i] = tl[i]
    BY PrefixOf, Zenon
<1>3. /\ RoundCount(tl) = RoundCount(messages)
      /\ LatestTask(tl) = LatestTask(tasks)
      /\ EndsIn(tl) = EndsIn(messages)
    BY DEF Marker
<1> HIDE DEF messages, tasks
<1>4. RoundsIn(messages) = RoundsIn(tl)
  <2>1. RoundsIn(messages) \in SUBSET RoundsIn(tl) /\ IsFiniteSet(RoundsIn(tl))
      BY <1>1, PlacesRead
  <2>2. Cardinality(RoundsIn(tl)) = Cardinality(RoundsIn(messages))
      BY <1>3 DEF RoundCount
  <2> QED
      BY <2>1, <2>2, FS_Subset
<1>5. TasksIn(tasks) = TasksIn(tl)
  <2>1. SUFFICES ASSUME NEW i \in TasksIn(tl), ~ (i <= m) PROVE FALSE
      BY <1>1
  <2>2. TasksIn(tl) \in SUBSET (1 .. Len(tl)) /\ Len(tl) \in Nat /\ TasksIn(tl) # {}
      BY PlacesRead
  <2>3. PICK last \in TasksIn(tl) : \A k \in TasksIn(tl) : k <= last
      BY <2>2, LastPlace
  <2>4. tl[last].id \in LatestTask(tasks)
      BY <2>3, <1>3 DEF LatestTask
  <2>5. PICK j \in TasksIn(tasks) : tasks[j].id = tl[last].id
      BY <2>4 DEF LatestTask
  <2>6. j \in TasksIn(tl) /\ j <= m /\ j \in 1 .. m
      BY <1>1, <2>2
  <2>7. tl[j].id = tl[last].id
      BY <2>5, <2>6, <1>2
  <2>8. j = last
      BY <2>6, <2>7
  <2> QED
      BY <2>1, <2>2, <2>3, <2>6, <2>8
<1>6. Boundaries(messages, tasks) = Boundaries(tl, tl)
    BY <1>3, <1>5 DEF Boundaries
<1>7. \A i \in RoundsIn(tl) : messages[i].id = tl[i].id
  <2>1. \A i \in RoundsIn(tl) : i \in 1 .. h
      BY <1>1, <1>4, PlacesRead
  <2> QED
      BY <2>1, <1>2
<1>8. Segment(messages, tasks) = Segment(tl, tl)
  <2> DEFINE P == {j \in RoundsIn(tl) : \A b \in Boundaries(tl, tl) : b < j}
  <2>1. Segment(messages, tasks) = {messages[i].id : i \in P}
      BY <1>4, <1>6 DEF Segment
  <2>2. Segment(tl, tl) = {tl[i].id : i \in P}
      BY DEF Segment
  <2>3. \A i \in P : messages[i].id = tl[i].id
      BY <1>7
  <2> HIDE DEF P
  <2> QED
      BY <2>1, <2>2, <2>3
<1> QED
    BY <1>8 DEF messages, tasks

-----------------------------------------------------------------------------
\* The types

Tasks == {TaskOf(k, i) : k \in Call, i \in Nat}

Entries == [ kind : {"round"}, id : Round, ends : BOOLEAN ]
             \cup [ kind : {"task"}, id : Tasks, ends : BOOLEAN ]

StartRanges ==
    /\ conv \in {"active", "concluded"}
    /\ plan = NoPlan \/ plan.by \in Round
    /\ DOMAIN round = Round
    /\ \A r \in Round :
          /\ "phase" \in DOMAIN round[r]
          /\ round[r].phase \in {"idle", "read", "running", "stored", "refused"}
    /\ client \in [Round -> {"waiting", "gone"}]
    /\ request \in Requests
    /\ call \in [Call -> {"idle", "checked", "created", "replayed", "conflict", "refused"}]

StartTypes ==
    /\ StartRanges
    /\ timeline \in Seq(Entries)
    /\ RoundCount(timeline) <= MaxRounds

\* What Start adds: the tasks of the request, in their order.
Rows(k) == [i \in 1 .. request[k].count |-> Entry("task", TaskOf(k, i), FALSE)]

Creates(k) ==
    /\ call[k] = "checked" /\ Replay(k) = "none" /\ conv = "active"
    /\ call' = [call EXCEPT ![k] = "created"]
    /\ timeline' = timeline \o Rows(k)
    /\ UNCHANGED << conv, plan, round, client, request, submitted, drifted >>

\* Every other step of a request to start a batch: its answer, or nothing new.
Replies(k) ==
    /\ call[k] \in {"idle", "checked"}
    /\ \E answer \in {"checked", "replayed", "conflict", "refused"} :
          /\ call' = [call EXCEPT ![k] = answer]
          /\ Replay(k) # "none" => answer = Replay(k)
          /\ answer \in {"replayed", "conflict"} => answer = Replay(k)
    /\ UNCHANGED << conversationVars, request, drifted >>

\* A replay has one of three results.
LEMMA ReplayResult == ASSUME NEW k PROVE Replay(k) \in {"none", "replayed", "conflict"}
BY DEF Replay

\* The steps of a batch creation: it adds its rows, or it answers.
LEMMA BatchSteps ==
    ASSUME NEW k \in Call, LookBefore(k) \/ Start(k) \/ RefuseStart(k)
    PROVE  Creates(k) \/ Replies(k)
<1>1. ASSUME LookBefore(k) PROVE Replies(k)
  <2>1. CASE Replay(k) # "none"
      BY <1>1, <2>1, ReplayResult DEF LookBefore, Answer, Replies
  <2>2. CASE Replay(k) = "none"
      BY <1>1, <2>2 DEF LookBefore, Replies
  <2> QED
      BY <2>1, <2>2
<1>2. ASSUME Start(k) PROVE Creates(k) \/ Replies(k)
  <2>1. CASE Replay(k) # "none"
      BY <1>2, <2>1, ReplayResult DEF Start, Answer, Replies
  <2>2. CASE Replay(k) = "none" /\ ~ Startable(k)
      BY <1>2, <2>2 DEF Start, Answer, Replies
  <2>3. CASE Replay(k) = "none" /\ Startable(k)
      BY <1>2, <2>3 DEF Start, Startable, Creates, Rows
  <2> QED
      BY <2>1, <2>2, <2>3
<1>3. ASSUME RefuseStart(k) PROVE Replies(k)
    BY <1>3 DEF RefuseStart, Answer, Replies
<1> QED
    BY <1>1, <1>2, <1>3

\* The steps of the specification, by what they change.
LEMMA StartSteps ==
    ASSUME [StartNext]_startVars
    PROVE  \/ \E r \in Round :
                 /\ \/ ReadHistory(r) \/ ReadTasks(r) \/ GiveUp(r) \/ Disconnect(r)
                    \/ \E outcome \in {"talk", "orchestrate", "refuse", "answer"} :
                          CommitRound(r, outcome)
                 /\ UNCHANGED << request, call >>
           \/ Conclude /\ UNCHANGED << request, call >>
           \/ \E k \in Call : Creates(k) \/ Replies(k)
           \/ UNCHANGED << conversationVars, request, call >>
<1>1. CASE ConversationNext /\ UNCHANGED << request, call, submitted, drifted >>
    BY <1>1 DEF ConversationNext
<1>2. CASE \E k \in Call : LookBefore(k) \/ Start(k) \/ RefuseStart(k)
    BY <1>2, BatchSteps
<1>3. CASE Redeploy
    BY <1>3 DEF Redeploy
<1>4. CASE UNCHANGED startVars
    BY <1>4 DEF startVars
<1> QED
    BY <1>1, <1>2, <1>3, <1>4 DEF StartNext

\* The rows a request adds are entries of a timeline.
LEMMA RowsType ==
    ASSUME RequestAssumption, request \in Requests, NEW k \in Call
    PROVE  /\ request[k].count \in Nat \ {0}
           /\ Rows(k) \in Seq(Entries) /\ Len(Rows(k)) = request[k].count
           /\ \A i \in 1 .. request[k].count : Rows(k)[i] = Entry("task", TaskOf(k, i), FALSE)
<1>1. request[k].count \in Nat \ {0}
    BY DEF RequestAssumption
<1>2. \A i \in 1 .. request[k].count : Entry("task", TaskOf(k, i), FALSE) \in Entries
  <2>1. \A i \in 1 .. request[k].count : TaskOf(k, i) \in Tasks
      BY <1>1 DEF Tasks
  <2> QED
      BY <2>1 DEF Entries, Entry
<1>3. Rows(k) \in [1 .. request[k].count -> Entries]
    BY <1>2 DEF Rows
<1>4. Rows(k) \in Seq(Entries)
    BY <1>1, <1>3, SeqDef
<1>5. DOMAIN Rows(k) = 1 .. request[k].count /\ DOMAIN Rows(k) = 1 .. Len(Rows(k))
    BY <1>4, LenProperties DEF Rows
<1>6. Len(Rows(k)) \in Nat
    BY <1>4, LenProperties
<1>7. Len(Rows(k)) = request[k].count
  <2>1. request[k].count \in 1 .. Len(Rows(k))
      BY <1>1, <1>5
  <2>2. Len(Rows(k)) \in 1 .. request[k].count
      BY <2>1, <1>5, <1>6
  <2> QED
      BY <2>1, <2>2, <1>1, <1>6
<1> QED
    BY <1>1, <1>4, <1>7 DEF Rows

\* A timeline only grows, at its end.
LEMMA Grows ==
    ASSUME StartTypes, [StartNext]_startVars
    PROVE  /\ request' = request /\ Tasks' = Tasks /\ Entries' = Entries
           /\ timeline' \in Seq(Entries)
           /\ Len(timeline) \in Nat /\ Len(timeline') \in Nat
           /\ Len(timeline) <= Len(timeline')
           /\ \A i \in 1 .. Len(timeline) : timeline'[i] = timeline[i]
<1>1. request' = request
    BY StartSteps DEF Creates, Replies, conversationVars
<1>2. Tasks' = Tasks /\ Entries' = Entries
    BY <1>1 DEF Tasks, Entries, TaskOf, Owner
<1>3. Len(timeline) \in Nat /\ timeline \in Seq(Entries)
    BY LenProperties DEF StartTypes
<1>4. CASE timeline' = timeline
    BY <1>1, <1>2, <1>3, <1>4
<1>5. ASSUME NEW r \in Round, NEW ends \in BOOLEAN,
             timeline' = Append(timeline, Entry("round", r, ends))
      PROVE  /\ timeline' \in Seq(Entries)
             /\ Len(timeline') = Len(timeline) + 1
             /\ \A i \in 1 .. Len(timeline) : timeline'[i] = timeline[i]
  <2>1. Entry("round", r, ends) \in Entries
      BY DEF Entries, Entry
  <2> QED
      BY <1>3, <1>5, <2>1, AppendProperties
<1>6. ASSUME NEW k \in Call, timeline' = timeline \o Rows(k)
      PROVE  /\ timeline' \in Seq(Entries)
             /\ Len(timeline') = Len(timeline) + Len(Rows(k))
             /\ Len(Rows(k)) \in Nat
             /\ \A i \in 1 .. Len(timeline) : timeline'[i] = timeline[i]
  <2>1. Rows(k) \in Seq(Entries) /\ Len(Rows(k)) \in Nat
      BY RowsType, RequestAssumption DEF StartTypes, StartRanges
  <2>2. /\ timeline \o Rows(k) \in Seq(Entries)
        /\ Len(timeline \o Rows(k)) = Len(timeline) + Len(Rows(k))
        /\ \A i \in 1 .. Len(timeline) + Len(Rows(k)) : (timeline \o Rows(k))[i] =
              IF i <= Len(timeline) THEN timeline[i] ELSE Rows(k)[i - Len(timeline)]
      BY <1>3, <2>1, ConcatProperties
  <2> QED
      BY <1>3, <1>6, <2>1, <2>2
<1>7. \/ timeline' = timeline
      \/ \E r \in Round, ends \in BOOLEAN :
            timeline' = Append(timeline, Entry("round", r, ends))
      \/ \E k \in Call : timeline' = timeline \o Rows(k)
  <2>1. ASSUME NEW r \in Round, NEW outcome, CommitRound(r, outcome)
        PROVE  \E ends \in BOOLEAN : timeline' = Append(timeline, Entry("round", r, ends))
    <3>1. timeline' = Append(timeline, Entry("round", r, outcome \in {"refuse", "answer"}))
        BY <2>1, Zenon DEF CommitRound
    <3>2. (outcome \in {"refuse", "answer"}) \in BOOLEAN
        OBVIOUS
    <3> QED
        BY <3>1, <3>2, Zenon
  <2>2. ASSUME NEW r \in Round,
               ReadHistory(r) \/ ReadTasks(r) \/ GiveUp(r) \/ Disconnect(r)
        PROVE  timeline' = timeline
      BY <2>2 DEF ReadHistory, ReadTasks, GiveUp, Disconnect
  <2>3. ASSUME Conclude PROVE timeline' = timeline
      BY <2>3 DEF Conclude
  <2>4. ASSUME NEW k \in Call, Creates(k) PROVE timeline' = timeline \o Rows(k)
      BY <2>4 DEF Creates
  <2>5. ASSUME NEW k \in Call, Replies(k) PROVE timeline' = timeline
      BY <2>5 DEF Replies, conversationVars
  <2>6. ASSUME UNCHANGED conversationVars PROVE timeline' = timeline
      BY <2>6 DEF conversationVars
  <2> QED
      BY <2>1, <2>2, <2>3, <2>4, <2>5, <2>6, StartSteps
<1> QED
    BY <1>1, <1>2, <1>3, <1>4, <1>5, <1>6, <1>7

\* One entry more is a round or a task more.
LEMMA ReadOfAppend ==
    ASSUME NEW S, NEW tl \in Seq(S), NEW e \in S
    PROVE  /\ RoundsIn(Append(tl, e)) =
                 RoundsIn(tl) \cup {i \in {Len(tl) + 1} : e.kind = "round"}
           /\ TasksIn(Append(tl, e)) =
                 TasksIn(tl) \cup {i \in {Len(tl) + 1} : e.kind = "task"}
<1> DEFINE more == Append(tl, e)
<1>1. DOMAIN tl = 1 .. Len(tl) /\ Len(tl) \in Nat
    BY LenProperties
<1>2. /\ more \in Seq(S) /\ Len(more) = Len(tl) + 1
      /\ \A i \in 1 .. Len(tl) : more[i] = tl[i]
      /\ more[Len(tl) + 1] = e
    BY AppendProperties
<1>3. DOMAIN more = 1 .. Len(tl) + 1
    BY <1>2, LenProperties
<1> HIDE DEF more
<1>4. DOMAIN more = DOMAIN tl \cup {Len(tl) + 1}
    BY <1>1, <1>3
<1>5. Len(tl) + 1 \notin DOMAIN tl /\ \A i \in DOMAIN tl : more[i] = tl[i]
    BY <1>1, <1>2
<1>6. RoundsIn(more) = RoundsIn(tl) \cup {i \in {Len(tl) + 1} : e.kind = "round"}
    BY <1>2, <1>4, <1>5 DEF RoundsIn
<1>7. TasksIn(more) = TasksIn(tl) \cup {i \in {Len(tl) + 1} : e.kind = "task"}
    BY <1>2, <1>4, <1>5 DEF TasksIn
<1> QED
    BY <1>6, <1>7 DEF more

\* Where the rows of a request are in the timeline they are added to.
LEMMA ReadOfRows ==
    ASSUME StartTypes, NEW k \in Call
    PROVE  LET more == timeline \o Rows(k) IN
           /\ DOMAIN more = 1 .. Len(timeline) + request[k].count
           /\ \A i \in 1 .. Len(timeline) : more[i] = timeline[i]
           /\ \A n \in 1 .. request[k].count :
                 more[Len(timeline) + n] = Entry("task", TaskOf(k, n), FALSE)
           /\ RoundsIn(more) = RoundsIn(timeline)
           /\ TasksIn(more) = TasksIn(timeline)
                 \cup ((Len(timeline) + 1) .. (Len(timeline) + request[k].count))
<1> DEFINE more == timeline \o Rows(k)
<1>1. /\ request[k].count \in Nat \ {0}
      /\ Rows(k) \in Seq(Entries) /\ Len(Rows(k)) = request[k].count
      /\ \A i \in 1 .. request[k].count : Rows(k)[i] = Entry("task", TaskOf(k, i), FALSE)
    BY RequestAssumption, RowsType DEF StartTypes, StartRanges
<1>2. timeline \in Seq(Entries) /\ Len(timeline) \in Nat /\ DOMAIN timeline = 1 .. Len(timeline)
    BY LenProperties DEF StartTypes
<1>3. /\ more \in Seq(Entries) /\ Len(more) = Len(timeline) + request[k].count
      /\ \A i \in 1 .. Len(timeline) + request[k].count : more[i] =
            IF i <= Len(timeline) THEN timeline[i] ELSE Rows(k)[i - Len(timeline)]
    BY <1>1, <1>2, ConcatProperties
<1>4. DOMAIN more = 1 .. Len(timeline) + request[k].count
    BY <1>3, LenProperties
<1> HIDE DEF more
<1> DEFINE len == Len(timeline)
<1> DEFINE count == request[k].count
<1>a. len \in Nat /\ count \in Nat /\ count > 0
    BY <1>1, <1>2
<1>b. \A i \in 1 .. len + count : more[i] = IF i <= len THEN timeline[i] ELSE Rows(k)[i - len]
    BY <1>3
<1> HIDE DEF len, count
<1>5. ASSUME NEW i \in 1 .. len PROVE more[i] = timeline[i]
  <2>1. i \in 1 .. len + count /\ i <= len
      BY <1>a
  <2> QED
      BY <2>1, <1>b
<1>6. ASSUME NEW n \in 1 .. count
      PROVE  more[len + n] = Entry("task", TaskOf(k, n), FALSE)
  <2>1. PICK i \in 1 .. len + count : i = len + n /\ ~ (i <= len) /\ i - len = n
      BY <1>a
  <2>2. more[i] = Rows(k)[i - len]
      BY <2>1, <1>b
  <2>3. Rows(k)[n] = Entry("task", TaskOf(k, n), FALSE)
      BY <1>1 DEF count
  <2> QED
      BY <2>1, <2>2, <2>3
<1>7. ASSUME NEW i \in (len + 1) .. (len + count)
      PROVE  more[i].kind = "task"
  <2>1. PICK n \in 1 .. count : i = len + n
    <3>1. i - len \in 1 .. count /\ i = len + (i - len)
        BY <1>a
    <3> QED
        BY <3>1
  <2>2. more[i] = Entry("task", TaskOf(k, n), FALSE)
      BY <2>1, <1>6
  <2> QED
      BY <2>2 DEF Entry
<1>8. DOMAIN more = DOMAIN timeline
          \cup ((len + 1) .. (len + count))
    BY <1>a, <1>2, <1>4 DEF len, count
<1>9. RoundsIn(more) = RoundsIn(timeline)
    BY <1>2, <1>5, <1>7, <1>8 DEF len, RoundsIn
<1>10. TasksIn(more) = TasksIn(timeline)
           \cup ((len + 1) .. (len + count))
    BY <1>2, <1>5, <1>7, <1>8 DEF len, TasksIn
<1> QED
    BY <1>4, <1>5, <1>6, <1>9, <1>10 DEF more, len, count

\* The types hold at first.
LEMMA InitStartTypes == StartInit => StartTypes
<1> SUFFICES ASSUME StartInit PROVE StartTypes
    OBVIOUS
<1> USE DEF StartInit, ConversationInit
<1>1. timeline \in Seq(Entries)
    BY EmptySeq
<1>2. RoundsIn(timeline) = {}
    BY DEF RoundsIn
<1>3. RoundCount(timeline) = 0
    BY <1>2, FS_EmptySet DEF RoundCount
<1> QED
    BY <1>1, <1>3, RoundAssumption DEF StartTypes, StartRanges, Idle

\* No step leaves the types.
LEMMA NextStartTypes == StartTypes /\ [StartNext]_startVars => StartTypes'
<1> SUFFICES ASSUME StartTypes, [StartNext]_startVars PROVE StartTypes'
    OBVIOUS
<1>1. timeline' \in Seq(Entries') /\ request' \in Requests
    BY Grows DEF StartTypes, StartRanges
<1>2. StartRanges'
  <2> USE <1>1 DEF StartTypes, StartRanges
  <2>1. ASSUME NEW r \in Round, ReadHistory(r), UNCHANGED << request, call >> PROVE StartRanges'
      BY <2>1 DEF ReadHistory
  <2>2. ASSUME NEW r \in Round, ReadTasks(r), UNCHANGED << request, call >> PROVE StartRanges'
      BY <2>2 DEF ReadTasks
  <2>3. ASSUME NEW r \in Round, GiveUp(r), UNCHANGED << request, call >> PROVE StartRanges'
      BY <2>3 DEF GiveUp
  <2>4. ASSUME NEW r \in Round, Disconnect(r), UNCHANGED << request, call >> PROVE StartRanges'
      BY <2>4 DEF Disconnect
  <2>5. ASSUME NEW r \in Round, NEW outcome, CommitRound(r, outcome),
               UNCHANGED << request, call >>
        PROVE  StartRanges'
    <3>1. plan' = NoPlan \/ plan' \in Plans(r)
        BY <2>5 DEF CommitRound
    <3>2. plan' \in Plans(r) => plan'.by = r
        BY DEF Plans
    <3> QED
        BY <2>5, <3>1, <3>2 DEF CommitRound
  <2>6. ASSUME Conclude, UNCHANGED << request, call >> PROVE StartRanges'
      BY <2>6 DEF Conclude
  <2>7. ASSUME NEW k \in Call, Creates(k) PROVE StartRanges'
      BY <2>7 DEF Creates
  <2>8. ASSUME NEW k \in Call, Replies(k) PROVE StartRanges'
      BY <2>8 DEF Replies, conversationVars
  <2>9. ASSUME UNCHANGED << conversationVars, request, call >> PROVE StartRanges'
      BY <2>9 DEF conversationVars
  <2> QED
      BY <2>1, <2>2, <2>3, <2>4, <2>5, <2>6, <2>7, <2>8, <2>9, StartSteps
<1>3. RoundCount(timeline') <= MaxRounds
  <2>1. CASE timeline' = timeline
      BY <2>1 DEF StartTypes
  <2>2. ASSUME NEW r \in Round, NEW outcome, CommitRound(r, outcome)
        PROVE  RoundCount(timeline') <= MaxRounds
    <3>1. PICK e \in Entries : timeline' = Append(timeline, e)
      <4>1. (outcome \in {"refuse", "answer"}) \in BOOLEAN
          OBVIOUS
      <4>2. Entry("round", r, outcome \in {"refuse", "answer"}) \in Entries
          BY <4>1 DEF Entries, Entry
      <4> QED
          BY <4>2, <2>2, Zenon DEF CommitRound
    <3>2. timeline \in Seq(Entries)
        BY DEF StartTypes
    <3>3. RoundsIn(timeline') \subseteq RoundsIn(timeline) \cup {Len(timeline) + 1}
      <4>1. RoundsIn(Append(timeline, e)) =
               RoundsIn(timeline) \cup {i \in {Len(timeline) + 1} : e.kind = "round"}
          BY <3>2, ReadOfAppend
      <4> QED
          BY <4>1, <3>1
    <3>4. /\ IsFiniteSet(RoundsIn(timeline) \cup {Len(timeline) + 1})
          /\ Cardinality(RoundsIn(timeline) \cup {Len(timeline) + 1}) <= RoundCount(timeline) + 1
          /\ RoundCount(timeline) \in Nat
      <4>1. IsFiniteSet(RoundsIn(timeline)) /\ RoundCount(timeline) \in Nat
          BY <3>2, PlacesRead, Zenon
      <4>2. /\ IsFiniteSet(RoundsIn(timeline) \cup {Len(timeline) + 1})
            /\ Cardinality(RoundsIn(timeline) \cup {Len(timeline) + 1}) =
                  IF Len(timeline) + 1 \in RoundsIn(timeline) THEN Cardinality(RoundsIn(timeline))
                  ELSE Cardinality(RoundsIn(timeline)) + 1
          BY <4>1, FS_AddElement, Zenon
      <4>3. RoundCount(timeline) = Cardinality(RoundsIn(timeline))
          BY DEF RoundCount
      <4> QED
          BY <4>1, <4>2, <4>3
    <3>5. RoundCount(timeline') <= RoundCount(timeline) + 1 /\ RoundCount(timeline') \in Nat
      <4> DEFINE R == RoundsIn(timeline) \cup {Len(timeline) + 1}
      <4>1. IsFiniteSet(R) /\ Cardinality(R) <= RoundCount(timeline) + 1
          BY <3>4
      <4>2. RoundsIn(timeline') \in SUBSET R
          BY <3>3
      <4> HIDE DEF R
      <4>3. IsFiniteSet(RoundsIn(timeline')) /\ Cardinality(RoundsIn(timeline')) <= Cardinality(R)
          BY <4>1, <4>2, FS_Subset
      <4>4. Cardinality(RoundsIn(timeline')) \in Nat /\ Cardinality(R) \in Nat
          BY <4>1, <4>3, FS_CardinalityType
      <4> QED
          BY <3>4, <4>1, <4>3, <4>4 DEF RoundCount
    <3>6. RoundCount(timeline) < MaxRounds
        BY <2>2 DEF CommitRound, Fresh
    <3> QED
        BY <3>4, <3>5, <3>6, RoundAssumption
  <2>3. ASSUME NEW k \in Call, Creates(k) PROVE RoundCount(timeline') <= MaxRounds
    <3>1. RoundsIn(timeline') = RoundsIn(timeline)
        BY <2>3, ReadOfRows DEF Creates
    <3> QED
        BY <3>1 DEF RoundCount, StartTypes
  <2>4. \/ timeline' = timeline
        \/ \E r \in Round, outcome \in {"talk", "orchestrate", "refuse", "answer"} :
              CommitRound(r, outcome)
        \/ \E k \in Call : Creates(k)
    <3>1. ASSUME NEW r \in Round,
                 ReadHistory(r) \/ ReadTasks(r) \/ GiveUp(r) \/ Disconnect(r)
          PROVE  timeline' = timeline
        BY <3>1 DEF ReadHistory, ReadTasks, GiveUp, Disconnect
    <3>2. ASSUME NEW k \in Call, Replies(k) PROVE timeline' = timeline
        BY <3>2 DEF Replies, conversationVars
    <3> QED
        BY <3>1, <3>2, StartSteps DEF Conclude, conversationVars
  <2> QED
      BY <2>1, <2>2, <2>3, <2>4
<1> QED
    BY <1>1, <1>2, <1>3 DEF StartTypes

-----------------------------------------------------------------------------
\* Batches

SameBatch(j, k) ==
    /\ Owner(j) = Owner(k)
    /\ request[j].payload = request[k].payload /\ request[j].count = request[k].count

\* Every task was created by a request that says so.
TasksAreCreated ==
    \A i \in TasksIn(timeline) : \E k \in Call :
        call[k] = "created" /\ \E n \in 1 .. request[k].count : timeline[i].id = TaskOf(k, n)

TasksDiffer == \A i, j \in TasksIn(timeline) : timeline[i].id = timeline[j].id => i = j

CreatedIsWhole ==
    \A k \in Call : call[k] = "created" =>
        \A n \in 1 .. request[k].count : TaskOf(k, n) \in Started

OneCreator ==
    \A j, k \in Call :
        call[j] = "created" /\ call[k] = "created" /\ Owner(j) = Owner(k) => j = k

\* A request answered with tasks asked for what their creator asked for.
ReplayedAsCreated ==
    \A k \in Call : call[k] = "replayed" =>
        \E j \in Call : call[j] = "created" /\ SameBatch(j, k)

BatchInv ==
    /\ StartTypes
    /\ TasksAreCreated /\ TasksDiffer
    /\ CreatedIsWhole /\ OneCreator /\ ReplayedAsCreated

\* What _load_batch_operation_replay looks for.
Found(k) == UNION {TaskWithId(Owner(k), i) : i \in 1 .. request[k].count}

\* Nothing is found only when nobody created the batch: without an operation id
\* its tasks would have the ids of this very request, with one the first task
\* of the batch is among those looked for.
LEMMA NoCreator ==
    ASSUME BatchInv, NEW k \in Call, call[k] # "created", Replay(k) = "none"
    PROVE  \A j \in Call : call[j] = "created" => Owner(j) # Owner(k)
<1> SUFFICES ASSUME NEW j \in Call, call[j] = "created", Owner(j) = Owner(k) PROVE FALSE
    OBVIOUS
<1>1. request \in Requests
    BY DEF BatchInv, StartTypes, StartRanges
<1>2. /\ request[k].count \in Nat \ {0} /\ request[j].count \in Nat \ {0}
      /\ request[j].op \notin Call
    BY <1>1, RequestAssumption DEF RequestAssumption
<1>3. CASE request[k].op = NoOp
    BY <1>2, <1>3 DEF Owner
<1>4. CASE request[k].op # NoOp
  <2>1. TaskOf(j, 1) \in Started
      BY <1>2 DEF BatchInv, CreatedIsWhole
  <2>2. TaskOf(j, 1) \in TaskWithId(Owner(k), 1)
      BY <2>1 DEF TaskWithId, TaskOf
  <2>3. TaskOf(j, 1) \in Found(k)
      BY <2>2, <1>2 DEF Found
  <2> QED
      BY <2>3, <1>4 DEF Replay, Found
<1> QED
    BY <1>3, <1>4

\* Whoever is answered with tasks that exist has a creator to thank who asked
\* for the same.
LEMMA HasCreator ==
    ASSUME BatchInv, NEW k \in Call, Replay(k) = "replayed"
    PROVE  \E j \in Call : call[j] = "created" /\ SameBatch(j, k)
<1>1. /\ Found(k) # {}
      /\ \A t \in Found(k) : t.payload = request[k].payload /\ t.count = request[k].count
    BY DEF Replay, Found
<1>2. PICK t \in Found(k) : TRUE
    BY <1>1
<1>3. t \in Started /\ t.owner = Owner(k)
    BY <1>2 DEF Found, TaskWithId
<1>4. PICK i \in TasksIn(timeline) : t = timeline[i].id
    BY <1>3 DEF Started
<1>5. PICK j \in Call : call[j] = "created" /\ \E n \in 1 .. request[j].count : t = TaskOf(j, n)
    BY <1>4 DEF BatchInv, TasksAreCreated
<1>6. t.owner = Owner(j) /\ t.payload = request[j].payload /\ t.count = request[j].count
    BY <1>5 DEF TaskOf
<1> QED
    BY <1>1, <1>2, <1>3, <1>5, <1>6 DEF SameBatch

\* Nothing was created at first.
LEMMA InitBatchInv == StartInit => BatchInv
<1> SUFFICES ASSUME StartInit PROVE BatchInv
    OBVIOUS
<1>1. TasksIn(timeline) = {}
    BY DEF StartInit, ConversationInit, TasksIn
<1>2. \A k \in Call : call[k] = "idle"
    BY DEF StartInit
<1> QED
    BY <1>1, <1>2, InitStartTypes
    DEF BatchInv, TasksAreCreated, TasksDiffer, CreatedIsWhole, OneCreator, ReplayedAsCreated

\* The rows a request adds make up the one batch of their owner.
LEMMA CreatesBatchInv ==
    ASSUME BatchInv, StartTypes', request' = request, NEW k \in Call, Creates(k)
    PROVE  BatchInv'
<1> DEFINE len == Len(timeline)
<1> DEFINE count == request[k].count
<1>1. /\ TasksIn(timeline') = TasksIn(timeline) \cup ((len + 1) .. (len + count))
      /\ \A i \in 1 .. len : timeline'[i] = timeline[i]
      /\ \A n \in 1 .. count : timeline'[len + n] = Entry("task", TaskOf(k, n), FALSE)
    BY ReadOfRows DEF BatchInv, Creates
<1>2. len \in Nat /\ count \in Nat /\ TasksIn(timeline) \subseteq 1 .. len
    BY PlacesRead, RequestAssumption DEF BatchInv, StartTypes, StartRanges, RequestAssumption
<1>3. \A j \in Call : call'[j] = IF j = k THEN "created" ELSE call[j]
    BY DEF BatchInv, StartTypes, StartRanges, Creates
<1>4. /\ \A j \in Call : Owner(j)' = Owner(j)
      /\ \A j \in Call : \A n : TaskOf(j, n)' = TaskOf(j, n)
      /\ \A i, j \in Call : SameBatch(i, j)' = SameBatch(i, j)
    BY DEF TaskOf, Owner, SameBatch
<1>5. \A j \in Call : call[j] = "created" => Owner(j) # Owner(k) /\ j # k
    BY NoCreator DEF Creates
<1>e. ASSUME NEW n \in 1 .. count PROVE timeline'[len + n].id = TaskOf(k, n)
  <2>1. timeline'[len + n] = Entry("task", TaskOf(k, n), FALSE)
      BY <1>1, Zenon
  <2>2. Entry("task", TaskOf(k, n), FALSE).id = TaskOf(k, n)
      BY DEF Entry
  <2> QED
      BY <2>1, <2>2, Zenon
<1>t. /\ \A j : \A n : TaskOf(j, n).owner = Owner(j) /\ TaskOf(j, n).index = n
    BY DEF TaskOf
<1> HIDE DEF len, count
<1>6. ASSUME NEW i \in (len + 1) .. (len + count)
      PROVE  \E n \in 1 .. count : i = len + n /\ timeline'[i].id = TaskOf(k, n)
  <2>1. PICK n \in 1 .. count : i = len + n
    <3>1. i - len \in 1 .. count /\ i = len + (i - len)
        BY <1>2
    <3> QED
        BY <3>1
  <2>2. timeline'[i].id = TaskOf(k, n)
      BY <2>1, <1>e, Zenon
  <2> QED
      BY <2>1, <2>2
<1>7. ASSUME NEW i \in TasksIn(timeline)
      PROVE  \E j \in Call : /\ call[j] = "created" /\ j # k /\ Owner(j) # Owner(k)
                             /\ \E n \in 1 .. request[j].count :
                                   timeline'[i].id = timeline[i].id /\ timeline[i].id = TaskOf(j, n)
    BY <1>1, <1>2, <1>5 DEF BatchInv, TasksAreCreated
<1>8. TasksAreCreated'
  <2>1. ASSUME NEW i \in (len + 1) .. (len + count)
        PROVE  \E j \in Call : call'[j] = "created" /\
                  \E n \in 1 .. request[j].count : timeline'[i].id = TaskOf(j, n)
      BY <1>3, <1>6 DEF count
  <2>2. ASSUME NEW i \in TasksIn(timeline)
        PROVE  \E j \in Call : call'[j] = "created" /\
                  \E n \in 1 .. request[j].count : timeline'[i].id = TaskOf(j, n)
      BY <1>3, <1>7
  <2> QED
      BY <2>1, <2>2, <1>1, <1>4 DEF TasksAreCreated
<1>9. TasksDiffer'
  <2>1. ASSUME NEW i \in TasksIn(timeline), NEW j \in (len + 1) .. (len + count)
        PROVE  timeline'[i].id # timeline'[j].id
    <3>1. timeline'[j].id.owner = Owner(k)
        BY <1>6, <1>t
    <3>2. timeline'[i].id.owner # Owner(k)
        BY <1>7, <1>t
    <3> QED
        BY <3>1, <3>2
  <2>2. ASSUME NEW i \in (len + 1) .. (len + count), NEW j \in (len + 1) .. (len + count),
               timeline'[i].id = timeline'[j].id
        PROVE  i = j
    <3>1. PICK n \in 1 .. count : i = len + n /\ timeline'[i].id = TaskOf(k, n)
        BY <1>6
    <3>2. PICK m \in 1 .. count : j = len + m /\ timeline'[j].id = TaskOf(k, m)
        BY <1>6
    <3>3. n = m
        BY <2>2, <3>1, <3>2, <1>t
    <3> QED
        BY <3>1, <3>2, <3>3
  <2>3. ASSUME NEW i \in TasksIn(timeline), NEW j \in TasksIn(timeline),
               timeline'[i].id = timeline'[j].id
        PROVE  i = j
      BY <2>3, <1>7 DEF BatchInv, TasksDiffer
  <2> QED
      BY <2>1, <2>2, <2>3, <1>1 DEF TasksDiffer
<1>10. CreatedIsWhole'
  <2>1. ASSUME NEW n \in 1 .. count PROVE TaskOf(k, n) \in Started'
    <3>1. len + n \in TasksIn(timeline')
        BY <1>1, <1>2
    <3>2. timeline'[len + n].id = TaskOf(k, n)
        BY <1>e, Zenon
    <3> QED
        BY <3>1, <3>2, Zenon DEF Started
  <2>2. Started \subseteq Started'
    <3>1. \A i \in TasksIn(timeline) : i \in TasksIn(timeline') /\ timeline'[i].id = timeline[i].id
        BY <1>1, <1>2
    <3> QED
        BY <3>1 DEF Started
  <2>3. ASSUME NEW j \in Call, call'[j] = "created", NEW n \in 1 .. request[j].count
        PROVE  TaskOf(j, n) \in Started'
    <3>1. CASE j = k
        BY <3>1, <2>1, <2>3 DEF count
    <3>2. CASE j # k
        BY <3>2, <2>2, <2>3, <1>3 DEF BatchInv, CreatedIsWhole
    <3> QED
        BY <3>1, <3>2
  <2> QED
      BY <2>3, <1>4 DEF CreatedIsWhole
<1>11. OneCreator'
    BY <1>3, <1>4, <1>5 DEF BatchInv, OneCreator
<1>12. ReplayedAsCreated'
    BY <1>3, <1>4, <1>5 DEF BatchInv, ReplayedAsCreated
<1> QED
    BY <1>8, <1>9, <1>10, <1>11, <1>12 DEF BatchInv

\* A step that creates nothing keeps the tasks, their places and their
\* creators; its answers are those of the replay.
LEMMA KeepsBatchInv ==
    ASSUME BatchInv, StartTypes', request' = request,
           TasksIn(timeline') = TasksIn(timeline),
           \A i \in TasksIn(timeline) : timeline'[i] = timeline[i],
           \A j \in Call : \/ call'[j] = call[j]
                           \/ /\ call[j] # "created" /\ call'[j] # "created"
                              /\ call'[j] = "replayed" => Replay(j) = "replayed"
    PROVE  BatchInv'
<1>1. /\ \A j \in Call : \A n : TaskOf(j, n)' = TaskOf(j, n)
      /\ \A j \in Call : Owner(j)' = Owner(j)
      /\ \A i, j \in Call : SameBatch(i, j)' = SameBatch(i, j)
    BY DEF TaskOf, Owner, SameBatch
<1>2. \A j \in Call : call'[j] = "created" <=> call[j] = "created"
    OBVIOUS
<1>3. Started' = Started
    BY DEF Started
<1>4. TasksAreCreated'
    BY <1>1, <1>2 DEF BatchInv, TasksAreCreated
<1>5. TasksDiffer'
    BY DEF BatchInv, TasksDiffer
<1>6. CreatedIsWhole'
    BY <1>1, <1>2, <1>3 DEF BatchInv, CreatedIsWhole
<1>7. OneCreator'
    BY <1>1, <1>2 DEF BatchInv, OneCreator
<1>8. ReplayedAsCreated'
  <2> SUFFICES ASSUME NEW k \in Call, call'[k] = "replayed"
               PROVE  \E j \in Call : call[j] = "created" /\ SameBatch(j, k)
      BY <1>1, <1>2 DEF ReplayedAsCreated
  <2>1. CASE call[k] = "replayed"
      BY <2>1 DEF BatchInv, ReplayedAsCreated
  <2>2. CASE call[k] # "replayed"
      BY <2>2, HasCreator
  <2> QED
      BY <2>1, <2>2
<1> QED
    BY <1>4, <1>5, <1>6, <1>7, <1>8 DEF BatchInv

\* No step leaves the invariant of the batches.
LEMMA NextBatchInv == BatchInv /\ [StartNext]_startVars => BatchInv'
<1> SUFFICES ASSUME BatchInv, [StartNext]_startVars PROVE BatchInv'
    OBVIOUS
<1>1. StartTypes' /\ request' = request /\ timeline \in Seq(Entries) /\ StartRanges
    BY NextStartTypes, Grows DEF BatchInv, StartTypes
<1>2. ASSUME timeline' = timeline, call' = call PROVE BatchInv'
  <2>1. TasksIn(timeline') = TasksIn(timeline)
      BY <1>2
  <2> QED
      BY <1>1, <1>2, <2>1, KeepsBatchInv
<1>3. ASSUME NEW r \in Round, NEW outcome, CommitRound(r, outcome), call' = call
      PROVE  BatchInv'
  <2>1. PICK e \in Entries : timeline' = Append(timeline, e) /\ e.kind = "round"
    <3>1. (outcome \in {"refuse", "answer"}) \in BOOLEAN
        OBVIOUS
    <3>2. \A ends \in BOOLEAN : /\ Entry("round", r, ends) \in Entries
                                /\ Entry("round", r, ends).kind = "round"
        BY DEF Entries, Entry
    <3> QED
        BY <3>1, <3>2, <1>3, Zenon DEF CommitRound
  <2>2. TasksIn(timeline') = TasksIn(timeline)
    <3>1. TasksIn(Append(timeline, e)) =
             TasksIn(timeline) \cup {i \in {Len(timeline) + 1} : e.kind = "task"}
        BY <1>1, ReadOfAppend
    <3> QED
        BY <3>1, <2>1
  <2>3. \A i \in TasksIn(timeline) : timeline'[i] = timeline[i]
      BY <1>1, PlacesRead, Grows DEF BatchInv
  <2> QED
      BY <1>1, <1>3, <2>2, <2>3, KeepsBatchInv
<1>4. ASSUME NEW k \in Call, Creates(k) PROVE BatchInv'
    BY <1>1, <1>4, CreatesBatchInv
<1>5. ASSUME NEW k \in Call, Replies(k) PROVE BatchInv'
  <2>1. timeline' = timeline
      BY <1>5 DEF Replies, conversationVars
  <2>2. PICK answer \in {"checked", "replayed", "conflict", "refused"} :
           /\ call' = [call EXCEPT ![k] = answer]
           /\ answer \in {"replayed", "conflict"} => answer = Replay(k)
      BY <1>5 DEF Replies
  <2>3. \A j \in Call : \/ call'[j] = call[j]
                        \/ /\ call[j] # "created" /\ call'[j] # "created"
                           /\ call'[j] = "replayed" => Replay(j) = "replayed"
      BY <1>1, <1>5, <2>2 DEF StartRanges, Replies
  <2>4. TasksIn(timeline') = TasksIn(timeline)
      BY <2>1
  <2> QED
      BY <1>1, <2>1, <2>3, <2>4, KeepsBatchInv
<1>6. ASSUME NEW r \in Round, ReadHistory(r) \/ ReadTasks(r) \/ GiveUp(r) \/ Disconnect(r)
      PROVE  timeline' = timeline
    BY <1>6 DEF ReadHistory, ReadTasks, GiveUp, Disconnect
<1>7. ASSUME Conclude PROVE timeline' = timeline
    BY <1>7 DEF Conclude
<1>8. ASSUME UNCHANGED conversationVars PROVE timeline' = timeline
    BY <1>8 DEF conversationVars
<1> QED
    BY <1>2, <1>3, <1>4, <1>5, <1>6, <1>7, <1>8, StartSteps

\* The invariant of the batches holds in every state.
LEMMA BatchesHold == StartSpec => []BatchInv
<1> QED
    BY InitBatchInv, NextBatchInv, PTL DEF StartSpec

\* Every variable of conversations and batch creation keeps its range, and no
\* conversation exceeds its budget of rounds (api/conversations.py
\* post_message, api/tasks.py run_batch_creation).
THEOREM StartTypeCorrect == StartSpec => []StartTypeOK
<1>1. ASSUME BatchInv PROVE StartTypeOK
  <2>1. StartTypes
      BY <1>1 DEF BatchInv
  <2>2. \A i \in DOMAIN timeline : timeline[i].kind \in {"round", "task"}
    <3>1. \A i \in DOMAIN timeline : timeline[i] \in Entries
        BY <2>1, LenProperties, ElementOfSeq DEF StartTypes
    <3> QED
        BY <3>1 DEF Entries
  <2> QED
      BY <2>1, <2>2 DEF StartTypes, StartRanges, StartTypeOK
<1> QED
    BY <1>1, BatchesHold, PTL

\* Under an operation id there is at most one batch, it is whole, and whoever
\* was answered with its tasks asked for exactly those, for every number of
\* requests and every choice of operation ids (run_batch_creation,
\* _load_batch_operation_replay).
THEOREM BatchCorrect == StartSpec => []OperationIsOneBatch
<1>1. ASSUME BatchInv PROVE OperationIsOneBatch
  <2>1. ASSUME NEW t \in Started
        PROVE  \E k \in Call : call[k] = "created" /\ \E n \in 1 .. request[k].count : t = TaskOf(k, n)
    <3>1. PICK i \in TasksIn(timeline) : t = timeline[i].id
        BY DEF Started
    <3> QED
        BY <1>1, <3>1 DEF BatchInv, TasksAreCreated
  <2>2. ASSUME NEW t \in Started, NEW i \in 1 .. t.count
        PROVE  \E u \in Started : u = [t EXCEPT !.index = i]
    <3>1. PICK k \in Call : call[k] = "created" /\ \E n \in 1 .. request[k].count : t = TaskOf(k, n)
        BY <2>1
    <3>2. t.count = request[k].count /\ [t EXCEPT !.index = i] = TaskOf(k, i)
        BY <3>1 DEF TaskOf
    <3>3. TaskOf(k, i) \in Started
        BY <1>1, <3>1, <3>2 DEF BatchInv, CreatedIsWhole
    <3> QED
        BY <3>2, <3>3
  <2>3. ASSUME NEW t \in Started, NEW u \in Started, t.owner = u.owner
        PROVE  t.payload = u.payload
    <3>1. PICK j \in Call : call[j] = "created" /\ \E n \in 1 .. request[j].count : t = TaskOf(j, n)
        BY <2>1
    <3>2. PICK k \in Call : call[k] = "created" /\ \E n \in 1 .. request[k].count : u = TaskOf(k, n)
        BY <2>1
    <3>3. t.owner = Owner(j) /\ u.owner = Owner(k)
        BY <3>1, <3>2 DEF TaskOf
    <3>4. j = k
        BY <1>1, <2>3, <3>1, <3>2, <3>3 DEF BatchInv, OneCreator
    <3> QED
        BY <3>1, <3>2, <3>4 DEF TaskOf
  <2>4. ASSUME NEW k \in Call, call[k] \in {"created", "replayed"},
               NEW i \in 1 .. request[k].count
        PROVE  TaskOf(k, i) \in Started
    <3>1. CASE call[k] = "created"
        BY <1>1, <3>1 DEF BatchInv, CreatedIsWhole
    <3>2. CASE call[k] = "replayed"
      <4>1. PICK j \in Call : call[j] = "created" /\ SameBatch(j, k)
          BY <1>1, <3>2 DEF BatchInv, ReplayedAsCreated
      <4>2. TaskOf(j, i) = TaskOf(k, i) /\ request[j].count = request[k].count
          BY <4>1 DEF SameBatch, TaskOf
      <4>3. TaskOf(j, i) \in Started
          BY <1>1, <4>1, <4>2 DEF BatchInv, CreatedIsWhole
      <4> QED
          BY <4>2, <4>3
    <3> QED
        BY <2>4, <3>1, <3>2
  <2> QED
      BY <2>2, <2>3, <2>4 DEF OperationIsOneBatch
<1> QED
    BY <1>1, BatchesHold, PTL

\* A request whose batch exists finds it, whole and as it was asked for.
LEMMA RetryFinds ==
    ASSUME BatchInv, NEW k \in Call, request[k].op # NoOp, TaskOf(k, 1) \in Started
    PROVE  Replay(k) = "replayed"
<1> DEFINE count == request[k].count
<1>1. count \in Nat \ {0}
    BY RequestAssumption DEF BatchInv, StartTypes, StartRanges, RequestAssumption
<1>2. ASSUME NEW t \in Started
      PROVE  \E j \in Call : call[j] = "created" /\ \E n \in 1 .. request[j].count : t = TaskOf(j, n)
  <2>1. PICK i \in TasksIn(timeline) : t = timeline[i].id
      BY DEF Started
  <2> QED
      BY <2>1 DEF BatchInv, TasksAreCreated
<1>3. PICK j \in Call : call[j] = "created" /\ \E n \in 1 .. request[j].count : TaskOf(k, 1) = TaskOf(j, n)
    BY <1>2
<1>4. SameBatch(j, k)
  <2>1. PICK n : TaskOf(k, 1) = TaskOf(j, n)
      BY <1>3
  <2>2. /\ TaskOf(k, 1).owner = Owner(k) /\ TaskOf(j, n).owner = Owner(j)
        /\ TaskOf(k, 1).payload = request[k].payload /\ TaskOf(j, n).payload = request[j].payload
        /\ TaskOf(k, 1).count = request[k].count /\ TaskOf(j, n).count = request[j].count
      BY DEF TaskOf
  <2> QED
      BY <2>1, <2>2 DEF SameBatch
<1>5. ASSUME NEW i \in 1 .. count PROVE TaskWithId(Owner(k), i) = {TaskOf(k, i)}
  <2>1. TaskOf(j, i) = TaskOf(k, i)
      BY <1>4 DEF SameBatch, TaskOf
  <2>2. TaskOf(k, i) \in Started
      BY <1>3, <1>4, <2>1 DEF BatchInv, CreatedIsWhole, SameBatch
  <2>3. ASSUME NEW t \in Started, t.owner = Owner(k), t.index = i PROVE t = TaskOf(k, i)
    <3>1. PICK o \in Call : call[o] = "created" /\ \E n \in 1 .. request[o].count : t = TaskOf(o, n)
        BY <1>2
    <3>2. t.owner = Owner(o) /\ t = TaskOf(o, i)
        BY <3>1, <2>3 DEF TaskOf
    <3>3. o = j
        BY <1>3, <1>4, <2>3, <3>1, <3>2 DEF BatchInv, OneCreator, SameBatch
    <3> QED
        BY <3>2, <3>3, <2>1
  <2>4. TaskOf(k, i).owner = Owner(k) /\ TaskOf(k, i).index = i
      BY DEF TaskOf
  <2> QED
      BY <2>2, <2>3, <2>4 DEF TaskWithId
<1>6. Found(k) = {TaskOf(k, i) : i \in 1 .. count}
    BY <1>5 DEF Found
<1>7. Cardinality(Found(k)) = count
  <2> DEFINE f == [i \in 1 .. count |-> TaskOf(k, i)]
  <2>1. f \in Bijection(1 .. count, Found(k))
    <3>1. f \in [1 .. count -> Found(k)] /\ \A t \in Found(k) : \E i \in 1 .. count : f[i] = t
        BY <1>6
    <3>2. \A i, o \in 1 .. count : f[i] = f[o] => i = o
      <4>1. \A i \in 1 .. count : f[i] = TaskOf(k, i) /\ TaskOf(k, i).index = i
          BY DEF TaskOf
      <4> HIDE DEF f
      <4> QED
          BY <4>1
    <3> HIDE DEF f
    <3> QED
        BY <3>1, <3>2 DEF Bijection, Injection, IsInjective, Surjection
  <2>2. ExistsBijection(1 .. count, Found(k))
      BY <2>1 DEF ExistsBijection
  <2> QED
      BY <1>1, <2>2, FS_CountingElements
<1>8. \A t \in Found(k) : t.payload = request[k].payload /\ t.count = count
    BY <1>6 DEF TaskOf
<1>9. Found(k) # {}
  <2>1. 1 \in 1 .. count
      BY <1>1
  <2> QED
      BY <1>6, <2>1
<1> QED
    BY <1>7, <1>8, <1>9 DEF Replay, Found

\* A repeated request whose batch exists is answered with it, whatever changed
\* since: the replay is looked for before every condition
\* (_load_batch_operation_replay, before the lock and again under it).
THEOREM RetryCorrect == StartSpec => RetryIsAnswered
<1>1. ASSUME BatchInv, [StartNext]_startVars, NEW k \in Call,
             request[k].op # NoOp, TaskOf(k, 1) \in Started, call'[k] # call[k]
      PROVE  call'[k] = "replayed"
  <2>1. Replay(k) = "replayed"
      BY <1>1, RetryFinds
  <2>2. PICK o \in Call : Creates(o) \/ Replies(o)
      BY <1>1, StartSteps DEF Conclude, conversationVars
  <2>3. o = k
      BY <1>1, <2>2 DEF Creates, Replies, BatchInv, StartTypes, StartRanges
  <2>4. Replies(k)
      BY <2>1, <2>2, <2>3 DEF Creates
  <2> QED
      BY <1>1, <2>1, <2>4 DEF Replies, BatchInv, StartTypes, StartRanges
<1>2. BatchInv /\ [StartNext]_startVars =>
          [\A k \in Call :
             /\ request[k].op # NoOp /\ TaskOf(k, 1) \in Started
             /\ call'[k] # call[k]
             => call'[k] = "replayed"]_startVars
    BY <1>1
<1> QED
    BY <1>2, BatchesHold, PTL DEF StartSpec, RetryIsAnswered

\* A concluded conversation is read only (CommitRound and Start look at the
\* conversation under the lock under which they write).
THEOREM ReadOnlyCorrect == StartSpec => ConcludedIsReadOnly
<1>1. ASSUME StartTypes, [StartNext]_startVars, conv = "concluded"
      PROVE  UNCHANGED << conv, timeline, plan >>
  <2>1. ASSUME NEW r \in Round,
               \/ ReadHistory(r) \/ ReadTasks(r) \/ GiveUp(r) \/ Disconnect(r)
               \/ \E outcome \in {"talk", "orchestrate", "refuse", "answer"} : CommitRound(r, outcome)
        PROVE  UNCHANGED << conv, timeline, plan >>
      BY <1>1, <2>1 DEF ReadHistory, ReadTasks, GiveUp, Disconnect, CommitRound
  <2>2. ASSUME NEW k \in Call, Creates(k) \/ Replies(k)
        PROVE  UNCHANGED << conv, timeline, plan >>
      BY <1>1, <2>2 DEF Creates, Replies, conversationVars
  <2> QED
      BY <1>1, <2>1, <2>2, StartSteps DEF Conclude, conversationVars
<1>2. BatchInv /\ [StartNext]_startVars =>
          [conv = "concluded" => UNCHANGED << conv, timeline, plan >>]_startVars
    BY <1>1 DEF BatchInv
<1> QED
    BY <1>2, BatchesHold, PTL DEF StartSpec, ConcludedIsReadOnly

-----------------------------------------------------------------------------
\* Rounds

Before(n) == SubSeq(timeline, 1, n)

\* What a thread holds are two beginnings of the timeline: the history as long
\* as it was at the first read, and the tasks as they were at the second.
RoundState(r) ==
    \/ round[r].phase \in {"idle", "stored", "refused"}
    \/ \E h \in 0 .. Len(timeline) :
          round[r] = [ phase |-> "read", history |-> Before(h) ]
    \/ \E h \in 0 .. Len(timeline) : \E m \in 0 .. Len(timeline) :
          round[r] = [ phase |-> "running",
                       count |-> RoundCount(Before(h)),
                       marker |-> Marker(Before(h), Before(m)),
                       basis |-> Segment(Before(h), Before(m)) \cup {r} ]

StoredAreDone == \A i \in RoundsIn(timeline) : round[timeline[i].id].phase = "stored"

RoundInv ==
    /\ BatchInv
    /\ \A r \in Round : RoundState(r)
    /\ StoredAreDone
    /\ RoundsFitTheirSegment

\* The rounds of a timeline are requests to post a message.
LEMMA RoundsAreRequests ==
    ASSUME StartTypes, NEW i \in RoundsIn(timeline)
    PROVE  timeline[i].id \in Round
<1>1. i \in 1 .. Len(timeline) /\ timeline \in Seq(Entries)
    BY PlacesRead DEF StartTypes
<1>2. timeline[i] \in Entries /\ timeline[i].kind = "round"
    BY <1>1, ElementOfSeq DEF RoundsIn
<1> QED
    BY <1>2 DEF Entries

\* A thread's view of the timeline outlives the steps of others.
LEMMA RoundStateKept ==
    ASSUME StartTypes, [StartNext]_startVars, NEW r \in Round,
           RoundState(r), round'[r] = round[r]
    PROVE  RoundState(r)'
<1>1. \A n \in 0 .. Len(timeline) : n \in 0 .. Len(timeline') /\ Before(n)' = Before(n)
  <2> SUFFICES ASSUME NEW n \in 0 .. Len(timeline)
               PROVE  n \in 0 .. Len(timeline') /\ SubSeq(timeline', 1, n) = SubSeq(timeline, 1, n)
      BY DEF Before
  <2>1. /\ timeline \in Seq(Entries) /\ timeline' \in Seq(Entries)
        /\ Len(timeline) <= Len(timeline')
        /\ \A i \in 1 .. Len(timeline) : timeline'[i] = timeline[i]
      BY Grows DEF StartTypes
  <2> QED
      BY <2>1, PrefixKept
<1>2. CASE round[r].phase \in {"idle", "stored", "refused"}
    BY <1>2 DEF RoundState
<1>3. ASSUME NEW h \in 0 .. Len(timeline),
             round[r] = [ phase |-> "read", history |-> Before(h) ]
      PROVE  RoundState(r)'
    BY <1>1, <1>3 DEF RoundState
<1>4. ASSUME NEW h \in 0 .. Len(timeline), NEW m \in 0 .. Len(timeline),
             round[r] = [ phase |-> "running",
                          count |-> RoundCount(Before(h)),
                          marker |-> Marker(Before(h), Before(m)),
                          basis |-> Segment(Before(h), Before(m)) \cup {r} ]
      PROVE  RoundState(r)'
  <2>1. /\ h \in 0 .. Len(timeline') /\ m \in 0 .. Len(timeline')
        /\ Before(h)' = Before(h) /\ Before(m)' = Before(m)
      BY <1>1
  <2>2. round'[r] = [ phase |-> "running",
                      count |-> RoundCount(Before(h)'),
                      marker |-> Marker(Before(h)', Before(m)'),
                      basis |-> Segment(Before(h)', Before(m)') \cup {r} ]
      BY <1>4, <2>1
  <2> QED
      BY <2>1, <2>2 DEF RoundState
<1> QED
    BY <1>2, <1>3, <1>4 DEF RoundState

\* The rounds already stored fit their segments whatever is added later.
LEMMA StoredKept ==
    ASSUME RoundInv, [StartNext]_startVars, NEW i \in RoundsIn(timeline),
           round'[timeline[i].id] = round[timeline[i].id]
    PROVE  /\ timeline'[i] = timeline[i]
           /\ round'[timeline'[i].id].phase = "stored"
           /\ LET before == SubSeq(timeline', 1, i - 1) IN
              round'[timeline'[i].id].basis = Segment(before, before) \cup {timeline'[i].id}
<1>1. /\ timeline \in Seq(Entries) /\ timeline' \in Seq(Entries)
      /\ Len(timeline) \in Nat
      /\ Len(timeline) <= Len(timeline')
      /\ \A j \in 1 .. Len(timeline) : timeline'[j] = timeline[j]
    BY Grows DEF RoundInv, BatchInv, StartTypes
<1>2. i \in 1 .. Len(timeline) /\ i \in DOMAIN timeline /\ timeline[i].kind = "round"
    BY <1>1, PlacesRead DEF RoundsIn
<1>3. i - 1 \in 0 .. Len(timeline)
    BY <1>1, <1>2
<1>4. SubSeq(timeline', 1, i - 1) = SubSeq(timeline, 1, i - 1)
    BY <1>1, <1>3, PrefixKept
<1>5. round[timeline[i].id].phase = "stored"
    BY DEF RoundInv, StoredAreDone
<1>6. round[timeline[i].id].basis =
          Segment(SubSeq(timeline, 1, i - 1), SubSeq(timeline, 1, i - 1)) \cup {timeline[i].id}
    BY <1>2 DEF RoundInv, RoundsFitTheirSegment
<1> QED
    BY <1>1, <1>2, <1>4, <1>5, <1>6

\* What a commit stores was read for the segment it is stored in.
LEMMA CommitFits ==
    ASSUME RoundInv, NEW r \in Round, round[r].phase = "running", Fresh(r)
    PROVE  /\ round[r].basis = Segment(timeline, timeline) \cup {r}
           /\ DOMAIN round[r] = {"phase", "count", "marker", "basis"}
<1>1. PICK h \in 0 .. Len(timeline) : \E m \in 0 .. Len(timeline) :
          round[r] = [ phase |-> "running",
                       count |-> RoundCount(Before(h)),
                       marker |-> Marker(Before(h), Before(m)),
                       basis |-> Segment(Before(h), Before(m)) \cup {r} ]
  <2>1. RoundState(r) /\ round[r].phase \notin {"idle", "stored", "refused"}
      BY DEF RoundInv
  <2>2. \A h : [ phase |-> "read", history |-> Before(h) ].phase # "running"
      OBVIOUS
  <2>3. \A h : round[r] # [ phase |-> "read", history |-> Before(h) ]
      BY <2>2
  <2> QED
      BY <2>1, <2>3, Zenon DEF RoundState
<1>2. PICK m \in 0 .. Len(timeline) :
          round[r] = [ phase |-> "running",
                       count |-> RoundCount(Before(h)),
                       marker |-> Marker(Before(h), Before(m)),
                       basis |-> Segment(Before(h), Before(m)) \cup {r} ]
    BY <1>1
<1>3. /\ RoundCount(timeline) = RoundCount(Before(h))
      /\ Marker(timeline, timeline) = Marker(Before(h), Before(m))
    BY <1>2 DEF Fresh
<1>4. /\ timeline \in Seq(Entries)
      /\ \A i, j \in TasksIn(timeline) : timeline[i].id = timeline[j].id => i = j
    BY DEF RoundInv, BatchInv, StartTypes, TasksDiffer
<1>5. Segment(Before(h), Before(m)) = Segment(timeline, timeline)
  <2>1. /\ RoundCount(timeline) = RoundCount(SubSeq(timeline, 1, h))
        /\ Marker(timeline, timeline) = Marker(SubSeq(timeline, 1, h), SubSeq(timeline, 1, m))
      BY <1>3 DEF Before
  <2>2. Segment(SubSeq(timeline, 1, h), SubSeq(timeline, 1, m)) = Segment(timeline, timeline)
      BY <1>4, <2>1, SegmentKept
  <2> QED
      BY <2>2 DEF Before
<1> QED
    BY <1>2, <1>5

\* No round was begun at first.
LEMMA InitRoundInv == StartInit => RoundInv
<1> SUFFICES ASSUME StartInit PROVE RoundInv
    OBVIOUS
<1>1. DOMAIN timeline = {}
    BY DEF StartInit, ConversationInit
<1>2. \A r \in Round : round[r].phase = "idle"
    BY DEF StartInit, ConversationInit, Idle
<1>3. StoredAreDone /\ RoundsFitTheirSegment
    BY <1>1 DEF StoredAreDone, RoundsIn, RoundsFitTheirSegment
<1> QED
    BY <1>2, <1>3, InitBatchInv DEF RoundInv, RoundState

\* A step that adds no round.
LEMMA KeepsRoundInv ==
    ASSUME RoundInv, [StartNext]_startVars,
           RoundsIn(timeline') = RoundsIn(timeline),
           \A r \in Round : RoundState(r)',
           \A r \in Round : round[r].phase = "stored" => round'[r] = round[r]
    PROVE  RoundInv'
<1>1. BatchInv' /\ StartTypes /\ StartTypes'
    BY NextBatchInv DEF RoundInv, BatchInv
<1>2. ASSUME NEW i \in RoundsIn(timeline)
      PROVE  /\ round'[timeline'[i].id].phase = "stored"
             /\ LET before == SubSeq(timeline', 1, i - 1) IN
                round'[timeline'[i].id].basis = Segment(before, before) \cup {timeline'[i].id}
  <2>1. timeline[i].id \in Round /\ round[timeline[i].id].phase = "stored"
      BY <1>1, RoundsAreRequests DEF RoundInv, StoredAreDone
  <2> QED
      BY <2>1, StoredKept
<1>3. StoredAreDone'
    BY <1>2 DEF StoredAreDone
<1>4. RoundsFitTheirSegment'
  <2> SUFFICES ASSUME NEW i \in DOMAIN timeline', timeline'[i].kind = "round"
               PROVE  LET before == SubSeq(timeline', 1, i - 1) IN
                      round'[timeline'[i].id].basis = Segment(before, before) \cup {timeline'[i].id}
      BY DEF RoundsFitTheirSegment
  <2>1. i \in RoundsIn(timeline)
      BY DEF RoundsIn
  <2> QED
      BY <2>1, <1>2
<1> QED
    BY <1>1, <1>3, <1>4 DEF RoundInv

\* A commit stores the round at the end of the segment it was read for.
LEMMA CommitRoundInv ==
    ASSUME RoundInv, [StartNext]_startVars, NEW r \in Round, NEW outcome,
           CommitRound(r, outcome)
    PROVE  RoundInv'
<1> DEFINE len == Len(timeline)
<1>1. BatchInv' /\ StartTypes /\ StartTypes' /\ timeline \in Seq(Entries) /\ len \in Nat
    BY NextBatchInv, PlacesRead DEF RoundInv, BatchInv, StartTypes
<1>2. PICK e \in Entries : timeline' = Append(timeline, e) /\ e.kind = "round" /\ e.id = r
  <2>1. (outcome \in {"refuse", "answer"}) \in BOOLEAN
      OBVIOUS
  <2>2. \A ends \in BOOLEAN : /\ Entry("round", r, ends) \in Entries
                              /\ Entry("round", r, ends).kind = "round"
                              /\ Entry("round", r, ends).id = r
      BY DEF Entries, Entry
  <2> QED
      BY <2>1, <2>2, Zenon DEF CommitRound
<1>3. /\ round[r].phase = "running" /\ Fresh(r)
      /\ round' = [round EXCEPT ![r].phase = "stored"]
    BY Zenon DEF CommitRound
<1>4. /\ round[r].basis = Segment(timeline, timeline) \cup {r}
      /\ DOMAIN round[r] = {"phase", "count", "marker", "basis"}
    BY <1>3, CommitFits
<1>5. /\ round'[r].phase = "stored" /\ round'[r].basis = round[r].basis
      /\ \A q \in Round \ {r} : round'[q] = round[q]
    BY <1>1, <1>3, <1>4 DEF StartTypes, StartRanges
<1>6. /\ RoundsIn(timeline') = RoundsIn(timeline) \cup {len + 1}
      /\ timeline'[len + 1].id = r
      /\ SubSeq(timeline', 1, len) = timeline
  <2>1. RoundsIn(Append(timeline, e)) =
           RoundsIn(timeline) \cup {i \in {len + 1} : e.kind = "round"}
      BY <1>1, ReadOfAppend
  <2>2. timeline'[len + 1] = e
      BY <1>1, <1>2, AppendProperties
  <2>3. SubSeq(timeline', 1, len) = SubSeq(timeline, 1, len)
    <3>1. /\ timeline' \in Seq(Entries) /\ Len(timeline) <= Len(timeline')
          /\ \A i \in 1 .. Len(timeline) : timeline'[i] = timeline[i]
        BY <1>1, Grows
    <3>2. len \in 0 .. Len(timeline)
        BY <1>1
    <3> QED
        BY <1>1, <3>1, <3>2, PrefixKept
  <2>4. SubSeq(timeline, 1, len) = timeline
      BY <1>1, SubSeqFull
  <2> QED
      BY <1>2, <2>1, <2>2, <2>3, <2>4
<1> HIDE DEF len
<1>7. ASSUME NEW q \in Round PROVE RoundState(q)'
  <2>1. CASE q = r
      BY <2>1, <1>5 DEF RoundState
  <2>2. CASE q # r
      BY <2>2, <1>1, <1>5, RoundStateKept DEF RoundInv
  <2> QED
      BY <2>1, <2>2
<1>8. ASSUME NEW i \in RoundsIn(timeline)
      PROVE  /\ round'[timeline'[i].id].phase = "stored"
             /\ LET before == SubSeq(timeline', 1, i - 1) IN
                round'[timeline'[i].id].basis = Segment(before, before) \cup {timeline'[i].id}
  <2>1. timeline[i].id \in Round /\ round[timeline[i].id].phase = "stored"
      BY <1>1, RoundsAreRequests DEF RoundInv, StoredAreDone
  <2>2. round'[timeline[i].id] = round[timeline[i].id]
      BY <2>1, <1>3, <1>5
  <2> QED
      BY <2>2, StoredKept
<1>9. ASSUME NEW i, i = len + 1
      PROVE  /\ round'[timeline'[i].id].phase = "stored"
             /\ LET before == SubSeq(timeline', 1, i - 1) IN
                round'[timeline'[i].id].basis = Segment(before, before) \cup {timeline'[i].id}
  <2>1. i - 1 = len
      BY <1>1, <1>9
  <2> QED
      BY <2>1, <1>4, <1>5, <1>6, <1>9
<1>10. StoredAreDone'
    BY <1>6, <1>8, <1>9 DEF StoredAreDone
<1>11. RoundsFitTheirSegment'
  <2> SUFFICES ASSUME NEW i \in DOMAIN timeline', timeline'[i].kind = "round"
               PROVE  LET before == SubSeq(timeline', 1, i - 1) IN
                      round'[timeline'[i].id].basis = Segment(before, before) \cup {timeline'[i].id}
      BY DEF RoundsFitTheirSegment
  <2>1. i \in RoundsIn(timeline) \/ i = len + 1
    <3>1. i \in RoundsIn(timeline')
        BY DEF RoundsIn
    <3> QED
        BY <3>1, <1>6
  <2>2. CASE i \in RoundsIn(timeline)
      BY <2>2, <1>8
  <2>3. CASE i = len + 1
      BY <2>3, <1>9
  <2> QED
      BY <2>1, <2>2, <2>3
<1> QED
    BY <1>1, <1>7, <1>10, <1>11 DEF RoundInv

\* No step leaves the invariant of the rounds.
LEMMA NextRoundInv == RoundInv /\ [StartNext]_startVars => RoundInv'
<1> SUFFICES ASSUME RoundInv, [StartNext]_startVars PROVE RoundInv'
    OBVIOUS
<1>1. StartTypes /\ DOMAIN round = Round /\ timeline \in Seq(Entries) /\ Len(timeline) \in Nat
    BY PlacesRead DEF RoundInv, BatchInv, StartTypes, StartRanges
<1>2. ASSUME RoundsIn(timeline') = RoundsIn(timeline), round' = round PROVE RoundInv'
  <2>1. \A r \in Round : RoundState(r)'
      BY <1>1, <1>2, RoundStateKept DEF RoundInv
  <2> QED
      BY <1>2, <2>1, KeepsRoundInv
<1>3. ASSUME timeline' = timeline, NEW r \in Round,
             \A q \in Round \ {r} : round'[q] = round[q],
             round[r].phase # "stored", RoundState(r)'
      PROVE  RoundInv'
  <2>1. \A q \in Round : RoundState(q)'
    <3> SUFFICES ASSUME NEW q \in Round, q # r PROVE RoundState(q)'
        BY <1>3
    <3> QED
        BY <1>1, <1>3, RoundStateKept DEF RoundInv
  <2>2. RoundsIn(timeline') = RoundsIn(timeline)
      BY <1>3
  <2>3. \A q \in Round : round[q].phase = "stored" => round'[q] = round[q]
      BY <1>3
  <2> QED
      BY <2>1, <2>2, <2>3, KeepsRoundInv
<1>4. Len(timeline) \in 0 .. Len(timeline) /\ Before(Len(timeline)) = timeline
    BY <1>1, SubSeqFull DEF Before
<1>5. ASSUME NEW r \in Round, ReadHistory(r) PROVE RoundInv'
  <2>1. /\ timeline' = timeline /\ round[r].phase = "idle"
        /\ \A q \in Round \ {r} : round'[q] = round[q]
        /\ round'[r] = [ phase |-> "read", history |-> timeline ]
      BY <1>1, <1>5 DEF ReadHistory
  <2>2. RoundState(r)'
    <3>1. /\ Len(timeline) \in 0 .. Len(timeline')
          /\ Before(Len(timeline))' = timeline
        BY <1>4, <2>1 DEF Before
    <3> QED
        BY <2>1, <3>1 DEF RoundState
  <2> QED
      BY <2>1, <2>2, <1>3
<1>6. ASSUME NEW r \in Round, ReadTasks(r) PROVE RoundInv'
  <2>1. /\ timeline' = timeline /\ round[r].phase = "read"
        /\ \A q \in Round \ {r} : round'[q] = round[q]
        /\ round'[r] = [ phase |-> "running",
                         count |-> RoundCount(round[r].history),
                         marker |-> Marker(round[r].history, timeline),
                         basis |-> Segment(round[r].history, timeline) \cup {r} ]
      BY <1>1, <1>6 DEF ReadTasks
  <2>2. PICK h \in 0 .. Len(timeline) : round[r].history = Before(h)
    <3>1. RoundState(r) /\ round[r].phase \notin {"idle", "stored", "refused"}
        BY <2>1 DEF RoundInv
    <3>2. \A c, m, b : [ phase |-> "running", count |-> c, marker |-> m, basis |-> b ].phase # "read"
        OBVIOUS
    <3>3. \A c, m, b : round[r] # [ phase |-> "running", count |-> c, marker |-> m, basis |-> b ]
        BY <2>1, <3>2
    <3>4. \E h \in 0 .. Len(timeline) : round[r] = [ phase |-> "read", history |-> Before(h) ]
        BY <3>1, <3>3, Zenon DEF RoundState
    <3> QED
        BY <3>4
  <2>3. RoundState(r)'
    <3>1. /\ h \in 0 .. Len(timeline') /\ Len(timeline) \in 0 .. Len(timeline')
          /\ Before(h)' = round[r].history /\ Before(Len(timeline))' = timeline
        BY <1>4, <2>1, <2>2 DEF Before
    <3> QED
        BY <2>1, <3>1 DEF RoundState
  <2> QED
      BY <2>1, <2>3, <1>3
<1>7. ASSUME NEW r \in Round, GiveUp(r) PROVE RoundInv'
  <2>1. /\ timeline' = timeline /\ round[r].phase \in {"read", "running"}
        /\ \A q \in Round \ {r} : round'[q] = round[q]
        /\ round'[r] = [ phase |-> "refused" ]
      BY <1>1, <1>7 DEF GiveUp
  <2>2. RoundState(r)'
      BY <2>1 DEF RoundState
  <2> QED
      BY <2>1, <2>2, <1>3
<1>8. ASSUME NEW r \in Round, Disconnect(r) PROVE RoundInv'
    BY <1>2, <1>8 DEF Disconnect
<1>9. ASSUME NEW r \in Round, NEW outcome, CommitRound(r, outcome) PROVE RoundInv'
    BY <1>9, CommitRoundInv
<1>10. ASSUME Conclude PROVE RoundInv'
    BY <1>2, <1>10 DEF Conclude
<1>11. ASSUME NEW k \in Call, Creates(k) PROVE RoundInv'
  <2>1. RoundsIn(timeline') = RoundsIn(timeline) /\ round' = round
      BY <1>1, <1>11, ReadOfRows DEF Creates
  <2> QED
      BY <2>1, <1>2
<1>12. ASSUME NEW k \in Call, Replies(k) PROVE RoundInv'
    BY <1>2, <1>12 DEF Replies, conversationVars
<1>13. ASSUME UNCHANGED conversationVars PROVE RoundInv'
    BY <1>2, <1>13 DEF conversationVars
<1> QED
    BY <1>5, <1>6, <1>7, <1>8, <1>9, <1>10, <1>11, <1>12, <1>13, StartSteps

\* Every round of the history was answered for exactly the work segment it is
\* stored in, for every number of rounds, tasks and refusals in between
\* (conversation.py post_message with work_segments.py).
THEOREM RoundsCorrect == StartSpec => []RoundsFitTheirSegment
<1>1. RoundInv => RoundsFitTheirSegment
    BY DEF RoundInv
<1> QED
    BY <1>1, InitRoundInv, NextRoundInv, PTL DEF StartSpec

-----------------------------------------------------------------------------
\* The three services together

\* Each of them takes its own steps and lets the others be, so that it behaves
\* as it does alone.
THEOREM ServicesCompose == ServicesSpec => StartSpec /\ PromotionSpec /\ LoginSpec
<1>1. ServicesInit => StartInit /\ PromotionInit /\ LoginInit
    BY DEF ServicesInit
<1>2. [ServicesNext]_servicesVars => [StartNext]_startVars
    BY DEF ServicesNext, ConversationMoves, PromotionMoves, LoginMoves, servicesVars
<1>3. [ServicesNext]_servicesVars => [PromotionNext]_promotionVars
    BY DEF ServicesNext, ConversationMoves, PromotionMoves, LoginMoves, servicesVars
<1>4. [ServicesNext]_servicesVars => [LoginNext]_loginVars
    BY DEF ServicesNext, ConversationMoves, PromotionMoves, LoginMoves, servicesVars
<1> QED
    BY <1>1, <1>2, <1>3, <1>4, PTL DEF ServicesSpec, StartSpec, PromotionSpec, LoginSpec

\* Every variable of the three services keeps its range.
THEOREM ServicesTypeCorrect == ServicesSpec => []ServicesTypeOK
<1>1. StartTypeOK /\ PromotionTypeOK /\ LoginTypeOK => ServicesTypeOK
    BY DEF ServicesTypeOK
<1> QED
    BY <1>1, ServicesCompose, StartTypeCorrect, PromotionTypeCorrect, LoginTypeCorrect, PTL
=============================================================================
