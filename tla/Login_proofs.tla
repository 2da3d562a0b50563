----------------------------- MODULE Login_proofs -----------------------------
(***************************************************************************)
(* Logins, for every set of requests, every number of password changes and  *)
(* outages, and every limit: what is checked slowly and outside of any      *)
(* transaction opens no session that the account does not stand for, and    *)
(* the limits count what they are meant to.                                 *)
(***************************************************************************)
EXTENDS Login, FiniteSetTheorems, TLAPS

\* the requests that hold a verify slot
Holders == {a \in Attempt : stage[a] \notin {"idle", "done"}}

Ranges ==
    /\ hash \in 0 .. MaxChange /\ password \in Password
    /\ sessions \subseteq Attempt /\ expired \subseteq sessions
    /\ stage \in [Attempt -> {"idle", "slot", "reserved", "read", "verified", "issued",
                              "reset", "leaving", "done"}]
    /\ seen \in [Attempt -> 0 .. MaxChange] /\ proof \in [Attempt -> 0 .. MaxChange]
    /\ free \in Nat /\ attempts \in 0 .. MaxFailures
    /\ wrong \subseteq Attempt /\ outages \in 0 .. MaxOutage

Flags == active \in BOOLEAN /\ locked \in BOOLEAN

\* The version read before the check is no later than the one checked, which
\* is no later than the present one: a version that is still the present one
\* is the one that was checked.
VersionInv ==
    /\ hash = 0 => ~ active
    /\ \A a \in Attempt :
          /\ stage[a] = "read" => seen[a] <= hash
          /\ stage[a] = "verified" => seen[a] <= proof[a] /\ proof[a] <= hash

SessionInv ==
    /\ SessionsAreCurrent
    /\ \A a \in sessions : stage[a] \in {"issued", "reset", "leaving", "done"}

SlotInv == free + Cardinality(Holders) = MaxVerify

CountInv ==
    /\ OnlyFailuresCount
    /\ \A a \in wrong : stage[a] \in {"leaving", "done"}

-----------------------------------------------------------------------------
(* What a step does to the number of the requests of a kind *)

\* One more element, or one less, counts for one.
LEMMA OneMore ==
    ASSUME NEW S, IsFiniteSet(S), NEW a
    PROVE  /\ Cardinality(S) \in Nat
           /\ a \notin S => Cardinality(S \cup {a}) = Cardinality(S) + 1
           /\ a \in S => Cardinality(S \ {a}) = Cardinality(S) - 1
BY FS_CardinalityType, FS_AddElement, FS_RemoveElement

\* Requests of a kind are finitely many.
LEMMA Finite == ASSUME NEW S \in SUBSET Attempt PROVE IsFiniteSet(S) /\ Cardinality(S) \in Nat
BY LoginAssumption, FS_Subset, FS_CardinalityType

-----------------------------------------------------------------------------
(* Ranges *)

\* The columns and counters keep their ranges.
LEMMA RangesStep == LoginAssumption /\ Ranges /\ [LoginNext]_loginVars => Ranges'
<1> SUFFICES ASSUME Ranges, [LoginNext]_loginVars PROVE Ranges'
  BY LoginAssumption
<1> USE LoginAssumption
    DEF Ranges, Reach, Refused, accountVars, throttleVars, requestVars, loginVars
<1>1. ASSUME NEW a \in Attempt, LoginStep(a) PROVE Ranges'
  <2>1. CASE AcquireSlot(a)
    BY <2>1 DEF AcquireSlot
  <2>2. CASE Reserve(a)
    BY <2>2 DEF Reserve
  <2>3. CASE ReadVersion(a)
    BY <2>3 DEF ReadVersion
  <2>4. CASE Verify(a)
    BY <2>4 DEF Verify
  <2>5. CASE IssueSession(a)
    BY <2>5 DEF IssueSession
  <2>6. CASE Reset(a)
    BY <2>6 DEF Reset
  <2>7. CASE Purge(a)
    BY <2>7 DEF Purge
  <2>8. CASE ReleaseSlot(a)
    BY <2>8 DEF ReleaseSlot
  <2>9. CASE Outage(a)
    BY <2>9 DEF Outage, Withdrawn
  <2> QED
    BY <1>1, <2>1, <2>2, <2>3, <2>4, <2>5, <2>6, <2>7, <2>8, <2>9 DEF LoginStep
<1>2. ASSUME NEW a \in Attempt, Logout(a) \/ Expire(a) PROVE Ranges'
  BY <1>2 DEF Logout, Expire
<1>3. CASE AdminStep
  BY <1>3 DEF AdminStep, CreateUser, ResetPassword, Deactivate, Activate, RevokeAll
<1>4. CASE Elapse
  BY <1>4 DEF Elapse
<1>5. CASE Restart
  BY <1>5 DEF Restart
<1>6. CASE UNCHANGED loginVars
  BY <1>6
<1> QED
  BY <1>1, <1>2, <1>3, <1>4, <1>5, <1>6 DEF LoginNext

\* The flags are flags.
LEMMA FlagsStep == Flags /\ [LoginNext]_loginVars => Flags'
BY DEF Flags, LoginNext, LoginStep, AcquireSlot, Reserve, ReadVersion, Verify,
       IssueSession, Reset, Purge, ReleaseSlot, Outage, Logout, Expire, AdminStep,
       CreateUser, ResetPassword, Deactivate, Activate, Elapse, Restart, Reach, Refused,
       accountVars, throttleVars, requestVars, loginVars

-----------------------------------------------------------------------------
(* Versions and sessions *)

\* The password hash only grows, and what a request knows of it stays behind.
LEMMA VersionStep == Ranges /\ VersionInv /\ [LoginNext]_loginVars => VersionInv'
<1> SUFFICES ASSUME Ranges, VersionInv, [LoginNext]_loginVars PROVE VersionInv'
  OBVIOUS
<1> USE LoginAssumption
    DEF Ranges, VersionInv, Reach, Refused, accountVars, throttleVars, requestVars, loginVars
<1>1. ASSUME NEW a \in Attempt, LoginStep(a) PROVE VersionInv'
  <2>1. CASE AcquireSlot(a) \/ Reserve(a)
    BY <2>1 DEF AcquireSlot, Reserve
  <2>2. CASE ReadVersion(a)
    BY <2>2 DEF ReadVersion
  <2>3. CASE Verify(a)
    BY <2>3 DEF Verify
  <2>4. CASE IssueSession(a)
    BY <2>4 DEF IssueSession
  <2>5. CASE Reset(a) \/ Purge(a)
    BY <2>5 DEF Reset, Purge
  <2>6. CASE ReleaseSlot(a) \/ Outage(a)
    BY <2>6 DEF ReleaseSlot, Outage
  <2> QED
    BY <1>1, <2>1, <2>2, <2>3, <2>4, <2>5, <2>6 DEF LoginStep
<1>2. ASSUME NEW a \in Attempt, Logout(a) \/ Expire(a) PROVE VersionInv'
  BY <1>2 DEF Logout, Expire
<1>3. CASE AdminStep
  BY <1>3 DEF AdminStep, CreateUser, ResetPassword, Deactivate, Activate
<1>4. CASE Elapse \/ Restart
  <2>1. /\ UNCHANGED << hash, active, sessions, seen, proof >>
        /\ \A a \in Attempt : stage'[a] \in {stage[a], "done"}
    BY <1>4 DEF Elapse, Restart
  <2> QED
    BY <2>1
<1>5. CASE UNCHANGED loginVars
  BY <1>5
<1> QED
  BY <1>1, <1>2, <1>3, <1>4, <1>5 DEF LoginNext

\* A session is inserted for the present credentials, and whoever changes
\* them, or the account, removes it.
LEMMA SessionStep ==
  Ranges /\ VersionInv /\ SessionInv /\ [LoginNext]_loginVars => SessionInv'
<1> SUFFICES ASSUME Ranges, VersionInv, SessionInv, [LoginNext]_loginVars
             PROVE  SessionInv'
  OBVIOUS
<1> USE LoginAssumption
    DEF Ranges, VersionInv, SessionInv, SessionsAreCurrent, Reach, Refused, accountVars,
        throttleVars, requestVars, loginVars
<1>1. ASSUME NEW a \in Attempt, LoginStep(a) PROVE SessionInv'
  <2>1. CASE AcquireSlot(a) \/ Reserve(a)
    BY <2>1 DEF AcquireSlot, Reserve
  <2>2. CASE ReadVersion(a) \/ Verify(a)
    BY <2>2 DEF ReadVersion, Verify
  <2>3. CASE IssueSession(a)
    <3>1. CASE active /\ hash = seen[a]
      BY <2>3, <3>1 DEF IssueSession
    <3>2. CASE ~ (active /\ hash = seen[a])
      BY <2>3, <3>2 DEF IssueSession
    <3> QED
      BY <3>1, <3>2
  <2>4. CASE Reset(a) \/ Purge(a)
    BY <2>4 DEF Reset, Purge
  <2>5. CASE ReleaseSlot(a) \/ Outage(a)
    BY <2>5 DEF ReleaseSlot, Outage
  <2> QED
    BY <1>1, <2>1, <2>2, <2>3, <2>4, <2>5 DEF LoginStep
<1>2. ASSUME NEW a \in Attempt, Logout(a) \/ Expire(a) PROVE SessionInv'
  BY <1>2 DEF Logout, Expire
<1>3. CASE AdminStep
  BY <1>3 DEF AdminStep, CreateUser, ResetPassword, Deactivate, Activate, RevokeAll
<1>4. CASE Elapse \/ Restart
  <2>1. /\ UNCHANGED << hash, active, sessions, seen, proof >>
        /\ \A a \in Attempt : stage'[a] \in {stage[a], "done"}
    BY <1>4 DEF Elapse, Restart
  <2> QED
    BY <2>1
<1>5. CASE UNCHANGED loginVars
  BY <1>5
<1> QED
  BY <1>1, <1>2, <1>3, <1>4, <1>5 DEF LoginNext

\* No session outlives the credentials it was opened for, and none is opened
\* for credentials that were replaced, or an account that was disabled, while
\* the password was being checked.
THEOREM SessionsCorrect == LoginSpec => []SessionsAreCurrent
<1>1. LoginInit => Ranges /\ VersionInv /\ SessionInv
  BY LoginAssumption DEF LoginInit, Ranges, VersionInv, SessionInv, SessionsAreCurrent
<1>2. SessionInv => SessionsAreCurrent
  BY DEF SessionInv
<1> QED
  BY <1>1, <1>2, LoginAssumption, RangesStep, VersionStep, SessionStep, PTL DEF LoginSpec

-----------------------------------------------------------------------------
(* Slots and attempts *)

\* Every slot is free or held by a request that will return it.
LEMMA SlotStep == Ranges /\ SlotInv /\ [LoginNext]_loginVars => SlotInv'
<1> SUFFICES ASSUME Ranges, SlotInv, [LoginNext]_loginVars PROVE SlotInv'
  OBVIOUS
<1> USE DEF Reach, Refused, accountVars, throttleVars, requestVars, loginVars
<1>0. IsFiniteSet(Holders) /\ Cardinality(Holders) \in Nat
  BY Finite DEF Holders
<1>1. ASSUME UNCHANGED free, Holders' = Holders PROVE SlotInv'
  BY <1>1 DEF SlotInv
<1>2. ASSUME NEW a \in Attempt, LoginStep(a) PROVE SlotInv'
  <2>1. CASE AcquireSlot(a)
    <3>1. CASE free > 0
      <4>1. Holders' = Holders \cup {a} /\ a \notin Holders /\ free' = free - 1
        BY <2>1, <3>1 DEF AcquireSlot, Holders, Ranges
      <4> QED
        BY <4>1, <1>0, OneMore DEF SlotInv, Ranges
    <3>2. CASE ~ free > 0
      BY <2>1, <3>2, <1>1 DEF AcquireSlot, Holders, Ranges
    <3> QED
      BY <3>1, <3>2
  <2>2. CASE ReleaseSlot(a)
    <3>1. Holders' = Holders \ {a} /\ a \in Holders /\ free' = free + 1
      BY <2>2 DEF ReleaseSlot, Holders, Ranges
    <3> QED
      BY <3>1, <1>0, OneMore DEF SlotInv, Ranges
  <2>3. CASE Reserve(a) \/ ReadVersion(a) \/ Verify(a) \/ IssueSession(a)
    <3>1. Holders' = Holders /\ UNCHANGED free
      BY <2>3 DEF Reserve, ReadVersion, Verify, IssueSession, Holders, Ranges
    <3> QED
      BY <3>1, <1>1
  <2>4. CASE Reset(a) \/ Purge(a) \/ Outage(a)
    <3>1. Holders' = Holders /\ UNCHANGED free
      BY <2>4 DEF Reset, Purge, Outage, Holders, Ranges
    <3> QED
      BY <3>1, <1>1
  <2> QED
    BY <1>2, <2>1, <2>2, <2>3, <2>4 DEF LoginStep
<1>3. CASE Restart
  <2>1. Holders' = {} /\ free' = MaxVerify
    BY <1>3 DEF Restart, Holders
  <2> QED
    BY <2>1, FS_EmptySet, LoginAssumption DEF SlotInv
<1>4. CASE UNCHANGED << stage, free >>
  BY <1>4, <1>1 DEF Holders
<1> QED
  BY <1>2, <1>3, <1>4
     DEF LoginNext, AdminStep, CreateUser, ResetPassword, Deactivate, Activate, Elapse,
         Logout, Expire

\* Columns, counters, flags and slots keep their ranges.
THEOREM LoginTypeCorrect == LoginSpec => []LoginTypeOK
<1>1. LoginInit => Ranges /\ Flags /\ SlotInv
  <2>1. LoginInit => Flags
    BY DEF LoginInit, Flags
  <2>2. LoginInit => Ranges
    BY LoginAssumption DEF LoginInit, Ranges
  <2>3. LoginInit => Holders = {} /\ free = MaxVerify
    BY DEF LoginInit, Holders
  <2> QED
    BY <2>1, <2>2, <2>3, FS_EmptySet, LoginAssumption DEF SlotInv
<1>2. Ranges /\ Flags /\ SlotInv => LoginTypeOK
  <2>1. Ranges /\ SlotInv => free \in 0 .. MaxVerify
    BY Finite, LoginAssumption DEF Ranges, SlotInv, Holders
  <2> QED
    BY <2>1 DEF Ranges, Flags, LoginTypeOK
<1> QED
  BY <1>1, <1>2, LoginAssumption, RangesStep, FlagsStep, SlotStep, PTL DEF LoginSpec

\* An attempt is counted once, and is taken back with its request.
LEMMA CountStep == Ranges /\ CountInv /\ [LoginNext]_loginVars => CountInv'
<1> SUFFICES ASSUME Ranges, CountInv, [LoginNext]_loginVars PROVE CountInv'
  OBVIOUS
<1> DEFINE Counted == Undecided \cup wrong
<1> USE DEF Reach, Refused, accountVars, throttleVars, requestVars, loginVars
<1>0. /\ IsFiniteSet(Counted) /\ Cardinality(Counted) \in Nat
      /\ Counted' \in SUBSET Attempt => Cardinality(Counted') \in Nat
  BY Finite DEF Undecided, Ranges
<1>1. Ranges' /\ Counted' \in SUBSET Attempt
  BY RangesStep, LoginAssumption DEF Ranges, Undecided
<1>2. attempts \in Nat /\ attempts' \in Nat /\ attempts =< Cardinality(Counted)
  BY <1>1, LoginAssumption DEF Ranges, CountInv, OnlyFailuresCount
<1>3. ASSUME attempts' =< Cardinality(Counted') PROVE OnlyFailuresCount'
  BY <1>3 DEF OnlyFailuresCount
<1> HIDE DEF Counted
<1>4. ASSUME attempts' =< attempts, Counted' = Counted PROVE OnlyFailuresCount'
  BY <1>0, <1>2, <1>3, <1>4
<1>5. ASSUME attempts' = 0 PROVE OnlyFailuresCount'
  BY <1>0, <1>1, <1>3, <1>5
<1>6. \A a \in wrong' : stage'[a] \in {"leaving", "done"}
  <2>1. ASSUME NEW a \in Attempt, LoginStep(a)
        PROVE  \A b \in wrong' : stage'[b] \in {"leaving", "done"}
    BY <2>1 DEF LoginStep, AcquireSlot, Reserve, ReadVersion, Verify, IssueSession,
       Reset, Purge, ReleaseSlot, Outage, Ranges, CountInv
  <2>2. CASE Restart
    BY <2>2 DEF Restart
  <2>3. CASE UNCHANGED << stage, wrong >>
    BY <2>3 DEF CountInv
  <2> QED
    BY <2>1, <2>2, <2>3
       DEF LoginNext, AdminStep, CreateUser, ResetPassword, Deactivate, Activate,
           Elapse, Logout, Expire
<1>7. ASSUME NEW a \in Attempt, LoginStep(a) PROVE OnlyFailuresCount'
  <2>1. CASE Reserve(a)
    <3>1. CASE attempts' = attempts + 1
      <4>1. stage[a] = "slot" /\ stage' = [stage EXCEPT ![a] = "reserved"] /\ wrong' = wrong
        BY <2>1, <3>1, <1>2 DEF Reserve
      <4>2. Counted' = Counted \cup {a} /\ a \notin Counted
        BY <4>1 DEF Counted, Undecided, Ranges, CountInv
      <4> QED
        BY <4>2, <3>1, <1>0, <1>2, <1>3, OneMore
    <3>2. CASE attempts' # attempts + 1
      <4>1. /\ attempts' \in {0, attempts} /\ wrong' = wrong
            /\ stage[a] = "slot" /\ stage' = [stage EXCEPT ![a] = "leaving"]
        BY <2>1, <3>2, <1>2 DEF Reserve
      <4>2. Counted' = Counted
        BY <4>1 DEF Counted, Undecided, Ranges
      <4> QED
        BY <4>1, <4>2, <1>4, <1>5, <1>2
    <3> QED
      BY <3>1, <3>2
  <2>2. CASE AcquireSlot(a) \/ ReadVersion(a) \/ Verify(a) \/ IssueSession(a)
    <3>1. Counted' = Counted /\ attempts' = attempts
      BY <2>2 DEF AcquireSlot, ReadVersion, Verify, IssueSession, Counted, Undecided, Ranges
    <3> QED
      BY <3>1, <1>4, <1>2
  <2>3. CASE Reset(a)
    BY <2>3, <1>5 DEF Reset
  <2>4. CASE Purge(a) \/ ReleaseSlot(a)
    <3>1. Counted' = Counted /\ attempts' = attempts
      BY <2>4 DEF Purge, ReleaseSlot, Counted, Undecided, Ranges
    <3> QED
      BY <3>1, <1>4, <1>2
  <2>5. CASE Outage(a)
    <3>1. Counted' = Counted \ {a} /\ a \in Counted
      BY <2>5 DEF Outage, Counted, Undecided, Ranges, CountInv
    <3>2. attempts' = Withdrawn
      BY <2>5 DEF Outage
    <3>3. Cardinality(Counted') = Cardinality(Counted) - 1
      BY <3>1, <1>0, OneMore
    <3> QED
      BY <3>2, <3>3, <1>0, <1>1, <1>2, <1>3 DEF Withdrawn
  <2> QED
    BY <1>7, <2>1, <2>2, <2>3, <2>4, <2>5 DEF LoginStep
<1>8. ASSUME Restart PROVE OnlyFailuresCount'
  BY <1>8, <1>5 DEF Restart
<1>9. ASSUME UNCHANGED << stage, wrong >>, attempts' =< attempts PROVE OnlyFailuresCount'
  <2>1. Counted' = Counted
    BY <1>9 DEF Counted, Undecided
  <2> QED
    BY <2>1, <1>9, <1>4
<1>10. OnlyFailuresCount'
  <2>1. ASSUME UNCHANGED << requestVars, throttleVars >> PROVE OnlyFailuresCount'
    BY <2>1, <1>2, <1>9
  <2>2. ASSUME AdminStep PROVE UNCHANGED << requestVars, throttleVars >>
    BY <2>2 DEF AdminStep, CreateUser, ResetPassword, Deactivate, Activate
  <2>3. ASSUME NEW a \in Attempt, Logout(a) \/ Expire(a)
        PROVE  UNCHANGED << requestVars, throttleVars >>
    BY <2>3 DEF Logout, Expire
  <2>4. ASSUME Elapse PROVE OnlyFailuresCount'
    <3>1. UNCHANGED << stage, wrong >> /\ attempts' =< attempts
      BY <2>4, <1>2 DEF Elapse
    <3> QED
      BY <3>1, <1>9
  <2>5. ASSUME UNCHANGED loginVars PROVE UNCHANGED << requestVars, throttleVars >>
    BY <2>5
  <2> QED
    BY <2>1, <2>2, <2>3, <2>4, <2>5, <1>7, <1>8 DEF LoginNext
<1> QED
  BY <1>6, <1>10 DEF CountInv

\* Only refused credentials, and requests that are not decided, count towards
\* the lock of an account: no busy answer and no outage does.
THEOREM AttemptsCorrect == LoginSpec => []OnlyFailuresCount
<1>1. LoginInit => Ranges /\ CountInv
  <2>1. LoginInit => Undecided \cup wrong = {}
    BY DEF LoginInit, Undecided
  <2> QED
    BY <2>1, FS_EmptySet, LoginAssumption
       DEF LoginInit, Ranges, CountInv, OnlyFailuresCount
<1>2. CountInv => OnlyFailuresCount
  BY DEF CountInv
<1> QED
  BY <1>1, <1>2, LoginAssumption, RangesStep, CountStep, PTL DEF LoginSpec

=============================================================================
