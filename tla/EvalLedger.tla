------------------------------ MODULE EvalLedger ------------------------------
(***************************************************************************)
(* What the asynchronous eval queue promises of its rows, with no thread,  *)
(* no map and no recovery in sight: runs queue up, a run needs one of      *)
(* Quota slots, slots are granted first come first served and given back   *)
(* with a verdict, and a settled run keeps its verdict.                    *)
(***************************************************************************)
EXTENDS Integers

CONSTANTS Run, Quota

VARIABLES row,      \* the status of a run
          before,   \* the runs that arrived earlier
          free      \* the slots nobody holds

ledgerVars == << row, before, free >>

LedgerInit == /\ row = [r \in Run |-> "absent"]
              /\ before = [r \in Run |-> {}]
              /\ free = Quota

Arrive(r) == /\ row[r] = "absent"
             /\ row' = [row EXCEPT ![r] = "queued"]
             /\ before' = [before EXCEPT ![r] = {q \in Run : row[q] # "absent"}]
             /\ UNCHANGED free

Grant(r) == /\ row[r] = "queued" /\ \A q \in before[r] : row[q] # "queued"
            /\ free > 0 /\ free' = free - 1
            /\ row' = [row EXCEPT ![r] = "running"]
            /\ UNCHANGED before

Settle(r) == /\ row[r] = "running" /\ free' = free + 1
             /\ \E verdict \in {"completed", "error"} :
                   row' = [row EXCEPT ![r] = verdict]
             /\ UNCHANGED before

LedgerNext == \E r \in Run : Arrive(r) \/ Grant(r) \/ Settle(r)

LedgerSpec == LedgerInit /\ [][LedgerNext]_ledgerVars

=============================================================================
