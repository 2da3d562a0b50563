-------------------------------- MODULE Login --------------------------------
(***************************************************************************)
(* Logins to one account (api/auth.py, auth/service.py) and what an         *)
(* administrator does to it (scripts/user_admin.py, a process of its own).  *)
(* The check of a password takes long and runs outside any transaction, so  *)
(* that the account may change under it.  The limits on logins live in the  *)
(* memory of the API process, and time is abstracted: attempts may leave    *)
(* their window, and a lock may end, at any moment.                         *)
(***************************************************************************)
EXTENDS Integers, FiniteSets

CONSTANTS Attempt,      \* login requests
          Password,
          Given,        \* Given[a]: the password request a carries
          MaxFailures,  \* LoginThrottle: attempts within the window
          MaxVerify,    \* LoginThrottle: passwords checked at a time
          MaxChange,    \* bound: how many passwords the account gets
          MaxOutage     \* bound: failing connections, refused writes, restarts

ASSUME LoginAssumption == /\ IsFiniteSet(Attempt) /\ Given \in [Attempt -> Password]
                          /\ MaxFailures \in Nat \ {0} /\ MaxVerify \in Nat \ {0}
                          /\ MaxChange \in Nat /\ MaxOutage \in Nat

VARIABLES hash,      \* users.password_hash; the salt makes each a new one, 0: no row
          password,  \* the password it was made of
          active,    \* users.is_active
          sessions,  \* auth_sessions: the requests whose session has a row
          expired,   \* those whose expires_at has passed
          stage,     \* where each request stands
          seen,      \* the hash a request read before it checked its password
          proof,     \* history: the hash its password was checked against
          free,      \* verify slots left
          attempts,  \* attempts in the window of the account
          locked,    \* the account is locked for logins
          wrong,     \* history: requests refused for their credentials
          outages    \* how much of MaxOutage is spent

accountVars == << hash, password, active, sessions, expired >>
throttleVars == << free, attempts, locked >>
requestVars == << stage, seen, proof, wrong >>
loginVars == << accountVars, throttleVars, requestVars, outages >>

Reach(a, from, to) == stage[a] = from /\ stage' = [stage EXCEPT ![a] = to]

-----------------------------------------------------------------------------
(* POST /api/auth/login *)

\* the slot comes first: a busy answer is no attempt
AcquireSlot(a) ==
    /\ \/ free > 0 /\ Reach(a, "idle", "slot") /\ free' = free - 1
       \/ free = 0 /\ Reach(a, "idle", "done") /\ UNCHANGED free
    /\ UNCHANGED << accountVars, attempts, locked, seen, proof, wrong, outages >>

\* LoginThrottle.reserve: the look at the lock and the count are one step
Reserve(a) ==
    /\ \/ /\ ~ locked /\ attempts < MaxFailures
          /\ attempts' = attempts + 1 /\ UNCHANGED locked
          /\ Reach(a, "slot", "reserved")
       \/ /\ ~ locked /\ attempts >= MaxFailures
          /\ attempts' = 0 /\ locked' = TRUE /\ Reach(a, "slot", "leaving")
       \/ /\ locked /\ UNCHANGED << attempts, locked >> /\ Reach(a, "slot", "leaving")
    /\ UNCHANGED << accountVars, free, seen, proof, wrong, outages >>

\* open_session_for_credentials: the version of the credentials, read first
ReadVersion(a) ==
    /\ Reach(a, "reserved", "read")
    /\ seen' = [seen EXCEPT ![a] = hash]
    /\ UNCHANGED << accountVars, throttleVars, proof, wrong, outages >>

Refused(a, from) == Reach(a, from, "leaving") /\ wrong' = wrong \cup {a}

\* verify_credentials reads the row again; hashing takes its time after it
Verify(a) ==
    /\ \/ /\ hash # 0 /\ password = Given[a] /\ active
          /\ proof' = [proof EXCEPT ![a] = hash]
          /\ Reach(a, "read", "verified") /\ UNCHANGED wrong
       \/ /\ ~ (hash # 0 /\ password = Given[a] /\ active)
          /\ Refused(a, "read") /\ UNCHANGED proof
    /\ UNCHANGED << accountVars, throttleVars, seen, outages >>

IssueSessionAsVerified(a) ==                                       \* mutant
    /\ Reach(a, "verified", "issued")
    /\ sessions' = sessions \cup {a}
    /\ UNCHANGED << hash, password, active, expired, throttleVars, seen, proof,
                    wrong, outages >>

\* BEGIN IMMEDIATE: still active and still the version that was read?
IssueSession(a) ==
    /\ \/ /\ active /\ hash = seen[a]
          /\ sessions' = sessions \cup {a}
          /\ Reach(a, "verified", "issued") /\ UNCHANGED wrong
       \/ /\ ~ (active /\ hash = seen[a])
          /\ Refused(a, "verified") /\ UNCHANGED sessions
    /\ UNCHANGED << hash, password, active, expired, throttleVars, seen, proof, outages >>

\* LoginThrottle.reset
Reset(a) ==
    /\ Reach(a, "issued", "reset")
    /\ attempts' = 0 /\ locked' = FALSE
    /\ UNCHANGED << accountVars, free, seen, proof, wrong, outages >>

\* purge_expired_sessions, whose failure changes nothing
Purge(a) ==
    /\ Reach(a, "reset", "leaving")
    /\ \/ sessions' = sessions \ expired /\ expired' = {}
       \/ UNCHANGED << sessions, expired >>
    /\ UNCHANGED << hash, password, active, throttleVars, seen, proof, wrong, outages >>

ReleaseSlot(a) ==
    /\ Reach(a, "leaving", "done")
    /\ free' = free + 1
    /\ UNCHANGED << accountVars, attempts, locked, seen, proof, wrong, outages >>

Withdrawn == IF attempts = 0 THEN 0 ELSE attempts - 1

\* the connection fails, or the database is locked: cancel_reservation
Outage(a) ==
    /\ outages < MaxOutage /\ outages' = outages + 1
    /\ \E from \in {"reserved", "read", "verified"} : Reach(a, from, "leaving")
    /\ attempts' = Withdrawn
    /\ UNCHANGED << accountVars, free, locked, seen, proof, wrong >>

LoginStep(a) ==
    \/ AcquireSlot(a) \/ Reserve(a) \/ ReadVersion(a) \/ Verify(a) \/ IssueSession(a)
    \/ Reset(a) \/ Purge(a) \/ ReleaseSlot(a) \/ Outage(a)

-----------------------------------------------------------------------------
(* The sessions afterwards *)

\* the gate saw a valid session; its row is deleted in a later statement, and
\* may have expired in between
Logout(a) ==
    /\ a \in sessions
    /\ sessions' = sessions \ {a} /\ expired' = expired \ {a}
    /\ UNCHANGED << hash, password, active, throttleVars, requestVars, outages >>

\* SESSION_TTL has passed; the row stays until it is purged
Expire(a) ==
    /\ a \in sessions \ expired
    /\ expired' = expired \cup {a}
    /\ UNCHANGED << hash, password, active, sessions, throttleVars, requestVars, outages >>

-----------------------------------------------------------------------------
(* scripts/user_admin.py, each command one BEGIN IMMEDIATE transaction *)

CreateUser(p) ==
    /\ hash = 0 /\ MaxChange > 0
    /\ hash' = 1 /\ password' = p /\ active' = TRUE
    /\ UNCHANGED << sessions, expired, throttleVars, requestVars, outages >>

RevokeAll == sessions' = {} /\ expired' = {}

ResetPassword(p) ==
    /\ hash # 0 /\ hash < MaxChange
    /\ hash' = hash + 1 /\ password' = p
    /\ RevokeAll
    /\ UNCHANGED << active, throttleVars, requestVars, outages >>

Deactivate ==
    /\ hash # 0
    /\ active' = FALSE /\ RevokeAll
    /\ UNCHANGED << hash, password, throttleVars, requestVars, outages >>

Activate ==
    /\ hash # 0
    /\ active' = TRUE
    /\ UNCHANGED << hash, password, sessions, expired, throttleVars, requestVars, outages >>

AdminStep == \/ \E p \in Password : CreateUser(p) \/ ResetPassword(p)
             \/ Deactivate \/ Activate

-----------------------------------------------------------------------------

\* attempts leave the window and the lock ends; or logins under other names
\* exceed max_tracked and everything is forgotten
Elapse ==
    /\ attempts' \in 0 .. attempts
    /\ locked' \in {locked, FALSE}
    /\ UNCHANGED << accountVars, free, requestVars, outages >>

\* the API process stops, with the requests it was serving, and starts again
Restart ==
    /\ outages < MaxOutage /\ outages' = outages + 1
    /\ stage' = [a \in Attempt |-> IF stage[a] = "idle" THEN "idle" ELSE "done"]
    /\ free' = MaxVerify /\ attempts' = 0 /\ locked' = FALSE /\ wrong' = {}
    /\ UNCHANGED << accountVars, seen, proof >>

LoginInit ==
    /\ hash = 0 /\ password \in Password /\ active = FALSE
    /\ sessions = {} /\ expired = {}
    /\ stage = [a \in Attempt |-> "idle"]
    /\ seen = [a \in Attempt |-> 0] /\ proof = [a \in Attempt |-> 0]
    /\ free = MaxVerify /\ attempts = 0 /\ locked = FALSE
    /\ wrong = {} /\ outages = 0

LoginNext == \/ \E a \in Attempt : LoginStep(a) \/ Logout(a) \/ Expire(a)
             \/ AdminStep \/ Elapse \/ Restart

LoginSpec == LoginInit /\ [][LoginNext]_loginVars

-----------------------------------------------------------------------------

\* Every column, counter and request keeps its range.
LoginTypeOK ==
    /\ hash \in 0 .. MaxChange /\ password \in Password /\ active \in BOOLEAN
    /\ sessions \subseteq Attempt /\ expired \subseteq sessions
    /\ stage \in [Attempt -> {"idle", "slot", "reserved", "read", "verified", "issued",
                              "reset", "leaving", "done"}]
    /\ seen \in [Attempt -> 0 .. MaxChange] /\ proof \in [Attempt -> 0 .. MaxChange]
    /\ free \in 0 .. MaxVerify /\ attempts \in 0 .. MaxFailures /\ locked \in BOOLEAN
    /\ wrong \subseteq Attempt /\ outages \in 0 .. MaxOutage

\* open_session_for_credentials: in no order of a login with a reset or a
\* deactivation is there a session whose password was checked against
\* anything but the present credentials of an active account.
SessionsAreCurrent ==
    \A a \in sessions : active /\ proof[a] = hash

\* the requests whose attempt is not decided
Undecided == {a \in Attempt : stage[a] \in {"reserved", "read", "verified", "issued"}}

\* api/auth.py, login: only refused credentials, and requests not yet decided,
\* count towards the lock; a busy answer and an outage do not.
OnlyFailuresCount == attempts =< Cardinality(Undecided \cup wrong)
=============================================================================
