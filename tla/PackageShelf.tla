----------------------------- MODULE PackageShelf -----------------------------
(***************************************************************************)
(* What the asset pipeline promises to those who reuse skills: a package is *)
(* shelved once, reviewed once while every byte of it can be verified, and  *)
(* never taken back; one that is spoilt is refused from then on.            *)
(***************************************************************************)
CONSTANTS Package

VARIABLES shelf,       \* package -> none, pending, approved, rejected
          spoilt       \* packages whose stored form no longer verifies

shelfVars == << shelf, spoilt >>

ShelfTypeOK ==
    /\ shelf \in [Package -> {"none", "pending", "approved", "rejected"}]
    /\ spoilt \subseteq Package

Readable(p) == shelf[p] # "none" /\ p \notin spoilt

Approved == {p \in Package : shelf[p] = "approved"}

\* list_reuse_eligible: every approved package is read cold
Eligible == {p \in Approved : Readable(p)}

ShelfInit == shelf = [p \in Package |-> "none"] /\ spoilt = {}

Shelve(p) ==
    /\ shelf[p] = "none"
    /\ shelf' = [shelf EXCEPT ![p] = "pending"]
    /\ UNCHANGED spoilt

Review(p, verdict) ==
    /\ shelf[p] = "pending" /\ Readable(p)
    /\ shelf' = [shelf EXCEPT ![p] = verdict]
    /\ UNCHANGED spoilt

Spoil(p) ==
    /\ Readable(p)
    /\ spoilt' = spoilt \cup {p}
    /\ UNCHANGED shelf

ShelfNext ==
    \E p \in Package :
        \/ Shelve(p)
        \/ \E verdict \in {"approved", "rejected"} : Review(p, verdict)
        \/ Spoil(p)

ShelfSpec == ShelfInit /\ [][ShelfNext]_shelfVars
=============================================================================
