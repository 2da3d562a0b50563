---------------------------- MODULE MCTaskCenter ----------------------------
(* Small instances of TaskCenter for TLC. *)
EXTENDS TaskCenter

\* every task in one conversation
OneConv == [t \in Task |-> "c1"]

\* any task may depend on any other
Anything == [t \in Task |-> Task]

\* only j may depend, on both others
JoinOnly == [t \in Task |-> IF t = "j" THEN {"u", "d"} ELSE {}]

\* the legacy row m in another conversation
OtherConv == [t \in Task |-> IF t = "m" THEN "c2" ELSE "c1"]

\* of all the rows an earlier release may have left, a released upstream with
\* its artifact and a candidate over it; the other rows are those of Tasks_legacy
OpenCandidates ==
    /\ \A t \in LegacyDone : status[t] = "completed" /\ artifact[t] = "listed"
    /\ \A t \in LegacyOpen : /\ status[t] = "created" /\ inputs[t] = {}
                             /\ deps[t] = LegacyDone

\* bound: one disturbance when a second candidate is created, MaxDisturb when
\* there is none.  Only steps nobody is obliged to take are left out, so that
\* the fairness conditions mean what they mean for Spec.
FewDisturbances == disturbed' > 1 => status'["d"] = "absent"

LiveInit == Init /\ OpenCandidates

LiveSpec == LiveInit /\ [][Next /\ FewDisturbances]_vars /\ Fairness

=============================================================================
