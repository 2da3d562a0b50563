--------------------------- MODULE Promotion_proofs ---------------------------
(***************************************************************************)
(* What the promotion of a package guarantees for every number of processes *)
(* and samples.  First the types, with the exclusion the latch provides;    *)
(* then what each step of a promotion may rely on, from which the safety    *)
(* properties follow.                                                       *)
(***************************************************************************)
EXTENDS Promotion, FiniteSetTheorems, TLAPS

\* steps at which a promotion has the latch
Holding == {"latched", "fresh", "written", "logged", "scanned", "committed",
            "clearing", "undoing", "relogging", "restored"}

\* whoever is at one of them is the process the latch names, so there is one
LatchExcludes ==
    \A p \in Process : op[p].at \in Holding => latch \in Latch /\ latch.by = p

TypeInv == PromotionTypeOK /\ LatchExcludes

\* A process at work with the latch keeps every other one out of its steps.
LEMMA OneHolder ==
    ASSUME TypeInv, NEW p \in Process, op[p].at \in Holding
    PROVE  /\ latch \in Latch /\ latch # NoLatch /\ latch.by = p
           /\ \A q \in Process \ {p} : op[q].at \notin Holding
BY PromotionAssumption DEF TypeInv, LatchExcludes

\* Nobody holds the latch at first.
LEMMA InitTypeInv == PromotionInit => TypeInv
<1> SUFFICES ASSUME PromotionInit PROVE TypeInv
    OBVIOUS
<1>1. pkg \in Package /\ Draft \in Package
    BY PromotionAssumption DEF PromotionInit, Draft, Package, Code, Cases
<1>2. IsFiniteSet(promotions)
    BY FS_EmptySet DEF PromotionInit
<1>3. op \in [Process -> Operation] /\ \A p \in Process : op[p].at = "idle"
    BY DEF PromotionInit, AtRest, Operation
<1>4. mem \in [Process -> Package \cup {Down, Rejected}]
    BY <1>1 DEF PromotionInit
<1>5. evidence \subseteq Code /\ kills \in 0 .. MaxKill
    BY PromotionAssumption DEF PromotionInit, Code
<1>6. LatchExcludes
    BY <1>3 DEF LatchExcludes, Holding
<1>7. session \in BOOLEAN /\ lowered \in BOOLEAN /\ red \in [Process -> BOOLEAN]
    BY DEF PromotionInit
<1> QED
    BY <1>1, <1>2, <1>3, <1>4, <1>5, <1>6, <1>7
    DEF PromotionInit, TypeInv, PromotionTypeOK

\* A step that moves one process, and the latch only for its holder or from
\* nobody, preserves the exclusion.
LEMMA Moves ==
    ASSUME TypeInv, NEW p \in Process, NEW e \in Operation,
           op' = [op EXCEPT ![p] = e],
           e.at \in Holding => latch' \in Latch /\ latch'.by = p,
           latch' = latch \/ latch = NoLatch \/ op[p].at \in Holding
    PROVE  op' \in [Process -> Operation] /\ LatchExcludes'
<1>1. op \in [Process -> Operation]
    BY DEF TypeInv, PromotionTypeOK
<1>2. op' \in [Process -> Operation]
    BY <1>1
<1>3. ASSUME NEW q \in Process, op'[q].at \in Holding
      PROVE  latch' \in Latch /\ latch'.by = q
    <2>1. CASE q = p
        BY <1>1, <2>1, <1>3
    <2>2. CASE q # p
        <3>1. op[q].at \in Holding
            BY <1>1, <1>3, <2>2
        <3>2. op[p].at \notin Holding /\ latch \in Latch /\ latch.by = q /\ latch #
           NoLatch
            BY <3>1, <2>2, OneHolder
        <3> QED
            BY <3>2
    <2> QED
        BY <2>1, <2>2
<1> QED
    BY <1>2, <1>3 DEF LatchExcludes

\* The shapes of op as records.
LEMMA Shapes ==
    ASSUME TypeInv, NEW p \in Process
    PROVE  /\ op[p] \in Operation
           /\ op[p].at = "starting" => op[p].shadow \in Package \cup {Rejected}
           /\ op[p].at \in {"scanned", "committed"} => op[p].shadow \in Package
           /\ op[p].at \in {"read", "latched", "fresh", "written", "logged", "scanned",
                            "committed", "undoing", "relogging", "restored"} =>
                 op[p].log \in Nat
BY DEF TypeInv, PromotionTypeOK, Operation

\* A reason given to the latch leaves its holder.
LEMMA Escalated ==
    ASSUME latch \in Latch, NEW why \in {"rejection", "rollback failed"}, Escalate(why)
    PROVE  latch' \in Latch /\ latch'.by = latch.by /\ latch' # NoLatch
BY PromotionAssumption DEF Escalate, Latch

\* Every step preserves the types and the exclusion, action by action.
LEMMA NextTypeInv == TypeInv /\ [PromotionNext]_promotionVars => TypeInv'
<1> SUFFICES ASSUME TypeInv, [PromotionNext]_promotionVars PROVE TypeInv'
    OBVIOUS
<1>types. PromotionTypeOK
    BY DEF TypeInv
<1>rest. AtRest \in Operation /\ AtRest.at = "idle"
    BY DEF AtRest, Operation
<1>count. Cardinality(promotions) \in Nat
    BY <1>types, FS_CardinalityType DEF PromotionTypeOK
<1>ScanForStart. ASSUME NEW p \in Process, ScanForStart(p) PROVE TypeInv'
    <2>0. PICK view \in Scans :
                op' = [op EXCEPT ![p] = [ at |-> "starting", shadow |-> view ]]
        BY <1>ScanForStart DEF ScanForStart
    <2> DEFINE e == [ at |-> "starting", shadow |-> view ]
    <2>1. e \in Operation
        BY <1>types, <2>0
        DEF Scans, Captured, Operation, PromotionTypeOK, Package
    <2>2. op' = [op EXCEPT ![p] = e]
        BY <2>0
    <2>3. /\ latch' \in Latch \cup {NoLatch}
          /\ latch' = latch \/ latch = NoLatch \/ op[p].at \in Holding
          /\ e.at \in Holding => latch' \in Latch /\ latch'.by = p
        BY <1>ScanForStart, <1>types, <1>rest, OneHolder
        DEF ScanForStart, PromotionTypeOK, Holding
    <2>4. op' \in [Process -> Operation] /\ LatchExcludes'
        BY <2>1, <2>2, <2>3, Moves
    <2> QED
        BY <1>ScanForStart, <1>types, <2>3, <2>4, Shapes
        DEF ScanForStart, TypeInv, PromotionTypeOK, diskVars
<1>Assemble. ASSUME NEW p \in Process, Assemble(p) PROVE TypeInv'
    <2> DEFINE e == AtRest
    <2>1. e \in Operation
        BY <1>Assemble, <1>types, <1>rest, <1>count, Shapes
        DEF Assemble, Publishable, IsPackage, SyncToDb, Operation, PromotionTypeOK,
            Package
    <2>2. op' = [op EXCEPT ![p] = e]
        BY <1>Assemble DEF Assemble, Publishable, IsPackage, SyncToDb, Package, IsPackage
    <2>3. /\ latch' \in Latch \cup {NoLatch}
          /\ latch' = latch \/ latch = NoLatch \/ op[p].at \in Holding
          /\ e.at \in Holding => latch' \in Latch /\ latch'.by = p
        BY <1>Assemble, <1>types, <1>rest, OneHolder
        DEF Assemble, Publishable, IsPackage, SyncToDb, PromotionTypeOK, Holding,
            Package
    <2>4. op' \in [Process -> Operation] /\ LatchExcludes'
        BY <2>1, <2>2, <2>3, Moves
    <2> QED
        BY <1>Assemble, <1>types, <2>3, <2>4, Shapes
        DEF Assemble, Publishable, IsPackage, SyncToDb, TypeInv, PromotionTypeOK,
            diskVars, Package
<1>Kill. ASSUME NEW p \in Process, Kill(p) PROVE TypeInv'
    <2> DEFINE e == AtRest
    <2>1. e \in Operation
        BY <1>Kill, <1>types, <1>rest, <1>count, Shapes
        DEF Kill, Operation, PromotionTypeOK, Package
    <2>2. op' = [op EXCEPT ![p] = e]
        BY <1>Kill DEF Kill
    <2>3. /\ latch' \in Latch \cup {NoLatch}
          /\ latch' = latch \/ latch = NoLatch \/ op[p].at \in Holding
          /\ e.at \in Holding => latch' \in Latch /\ latch'.by = p
        BY <1>Kill, <1>types, <1>rest, OneHolder DEF Kill, PromotionTypeOK, Holding
    <2>4. op' \in [Process -> Operation] /\ LatchExcludes'
        BY <2>1, <2>2, <2>3, Moves
    <2> QED
        BY <1>Kill, <1>types, <2>3, <2>4, Shapes, PromotionAssumption
        DEF Kill, TypeInv, PromotionTypeOK, diskVars
<1>CheckGates. ASSUME NEW p \in Process, CheckGates(p) PROVE TypeInv'
    <2> DEFINE e == [ at |-> "checked" ]
    <2>1. e \in Operation
        BY <1>CheckGates, <1>types, <1>rest, <1>count, Shapes
        DEF CheckGates, Operation, PromotionTypeOK, Package
    <2>2. op' = [op EXCEPT ![p] = e]
        BY <1>CheckGates DEF CheckGates
    <2>3. /\ latch' \in Latch \cup {NoLatch}
          /\ latch' = latch \/ latch = NoLatch \/ op[p].at \in Holding
          /\ e.at \in Holding => latch' \in Latch /\ latch'.by = p
        BY <1>CheckGates, <1>types, <1>rest, OneHolder
        DEF CheckGates, PromotionTypeOK, Holding
    <2>4. op' \in [Process -> Operation] /\ LatchExcludes'
        BY <2>1, <2>2, <2>3, Moves
    <2> QED
        BY <1>CheckGates, <1>types, <2>3, <2>4, Shapes
        DEF CheckGates, TypeInv, PromotionTypeOK, diskVars
<1>ReadTexts. ASSUME NEW p \in Process, ReadTexts(p) PROVE TypeInv'
    <2> DEFINE e == IF pkg.maturity # "L0" THEN AtRest ELSE [ at |-> "read", log |->
       pkg.log, count |-> Cardinality(promotions) ]
    <2>1. e \in Operation
        BY <1>ReadTexts, <1>types, <1>rest, <1>count, Shapes
        DEF ReadTexts, Operation, PromotionTypeOK, Package
    <2>2. op' = [op EXCEPT ![p] = e]
        BY <1>ReadTexts DEF ReadTexts, Refuse
    <2>3. /\ latch' \in Latch \cup {NoLatch}
          /\ latch' = latch \/ latch = NoLatch \/ op[p].at \in Holding
          /\ e.at \in Holding => latch' \in Latch /\ latch'.by = p
        BY <1>ReadTexts, <1>types, <1>rest, OneHolder
        DEF ReadTexts, PromotionTypeOK, Holding, Refuse
    <2>4. op' \in [Process -> Operation] /\ LatchExcludes'
        BY <2>1, <2>2, <2>3, Moves
    <2> QED
        BY <1>ReadTexts, <1>types, <2>3, <2>4, Shapes
        DEF ReadTexts, TypeInv, PromotionTypeOK, diskVars, Refuse
<1>TakeLatch. ASSUME NEW p \in Process, TakeLatch(p) PROVE TypeInv'
    <2>0. Pending(p) \in Latch /\ Pending(p).by = p
        BY DEF Pending, Latch
    <2> DEFINE e == IF latch # NoLatch THEN AtRest ELSE [op[p] EXCEPT !.at = "latched"]
    <2>1. e \in Operation
        BY <1>TakeLatch, <1>types, <1>rest, <1>count, Shapes
        DEF TakeLatch, Operation, PromotionTypeOK, Package
    <2>2. op' = [op EXCEPT ![p] = e]
        BY <1>TakeLatch DEF TakeLatch, Refuse
    <2>3. /\ latch' \in Latch \cup {NoLatch}
          /\ latch' = latch \/ latch = NoLatch \/ op[p].at \in Holding
          /\ e.at \in Holding => latch' \in Latch /\ latch'.by = p
        BY <1>TakeLatch, <1>types, <1>rest, OneHolder, <2>0
        DEF TakeLatch, PromotionTypeOK, Holding, Refuse
    <2>4. op' \in [Process -> Operation] /\ LatchExcludes'
        BY <2>1, <2>2, <2>3, Moves
    <2> QED
        BY <1>TakeLatch, <1>types, <2>3, <2>4, Shapes, <2>0
        DEF TakeLatch, TypeInv, PromotionTypeOK, diskVars, Refuse
<1>Recheck. ASSUME NEW p \in Process, Recheck(p) PROVE TypeInv'
    <2>0. PICK e \in {[op[p] EXCEPT !.at = "fresh"], AtRest} : op' = [op EXCEPT ![p] = e]
        BY <1>Recheck DEF Recheck, Refuse
    <2>1. e \in Operation
        BY <1>Recheck, <1>types, <1>rest, Shapes, <2>0
        DEF Recheck, Operation, PromotionTypeOK, Package
    <2>2. op' = [op EXCEPT ![p] = e]
        BY <2>0
    <2>3. /\ latch' \in Latch \cup {NoLatch}
          /\ latch' = latch \/ latch = NoLatch \/ op[p].at \in Holding
          /\ e.at \in Holding => latch' \in Latch /\ latch'.by = p
        BY <1>Recheck, <1>types, <1>rest, OneHolder, <2>0
        DEF Recheck, PromotionTypeOK, Holding, Refuse
    <2>4. op' \in [Process -> Operation] /\ LatchExcludes'
        BY <2>1, <2>2, <2>3, Moves
    <2> QED
        BY <1>Recheck, <1>types, <2>3, <2>4, Shapes
        DEF Recheck, TypeInv, PromotionTypeOK, diskVars, Refuse
<1>WriteYaml. ASSUME NEW p \in Process, WriteYaml(p) PROVE TypeInv'
    <2> DEFINE e == [op[p] EXCEPT !.at = "written"]
    <2>1. e \in Operation
        BY <1>WriteYaml, <1>types, <1>rest, <1>count, Shapes
        DEF WriteYaml, Operation, PromotionTypeOK, Package
    <2>2. op' = [op EXCEPT ![p] = e]
        BY <1>WriteYaml DEF WriteYaml, Package
    <2>3. /\ latch' \in Latch \cup {NoLatch}
          /\ latch' = latch \/ latch = NoLatch \/ op[p].at \in Holding
          /\ e.at \in Holding => latch' \in Latch /\ latch'.by = p
        BY <1>WriteYaml, <1>types, <1>rest, OneHolder
        DEF WriteYaml, PromotionTypeOK, Holding, Package
    <2>4. op' \in [Process -> Operation] /\ LatchExcludes'
        BY <2>1, <2>2, <2>3, Moves
    <2> QED
        BY <1>WriteYaml, <1>types, <2>3, <2>4, Shapes
        DEF WriteYaml, TypeInv, PromotionTypeOK, diskVars, Package
<1>AppendChangelog. ASSUME NEW p \in Process, AppendChangelog(p) PROVE TypeInv'
    <2> DEFINE e == [op[p] EXCEPT !.at = "logged"]
    <2>1. e \in Operation
        BY <1>AppendChangelog, <1>types, <1>rest, <1>count, Shapes
        DEF AppendChangelog, Operation, PromotionTypeOK, Package
    <2>2. op' = [op EXCEPT ![p] = e]
        BY <1>AppendChangelog DEF AppendChangelog, Package
    <2>3. /\ latch' \in Latch \cup {NoLatch}
          /\ latch' = latch \/ latch = NoLatch \/ op[p].at \in Holding
          /\ e.at \in Holding => latch' \in Latch /\ latch'.by = p
        BY <1>AppendChangelog, <1>types, <1>rest, OneHolder
        DEF AppendChangelog, PromotionTypeOK, Holding, Package
    <2>4. op' \in [Process -> Operation] /\ LatchExcludes'
        BY <2>1, <2>2, <2>3, Moves
    <2> QED
        BY <1>AppendChangelog, <1>types, <2>3, <2>4, Shapes
        DEF AppendChangelog, TypeInv, PromotionTypeOK, diskVars, Package
<1>ScanShadow. ASSUME NEW p \in Process, ScanShadow(p) PROVE TypeInv'
    <2> DEFINE e == [ at |-> "scanned", log |-> op[p].log, shadow |-> pkg ]
    <2>1. e \in Operation
        BY <1>ScanShadow, <1>types, <1>rest, <1>count, Shapes
        DEF ScanShadow, Captured, Operation, PromotionTypeOK, Package
    <2>2. op' = [op EXCEPT ![p] = e]
        BY <1>ScanShadow DEF ScanShadow, Captured
    <2>3. /\ latch' \in Latch \cup {NoLatch}
          /\ latch' = latch \/ latch = NoLatch \/ op[p].at \in Holding
          /\ e.at \in Holding => latch' \in Latch /\ latch'.by = p
        BY <1>ScanShadow, <1>types, <1>rest, OneHolder
        DEF ScanShadow, Captured, PromotionTypeOK, Holding
    <2>4. op' \in [Process -> Operation] /\ LatchExcludes'
        BY <2>1, <2>2, <2>3, Moves
    <2> QED
        BY <1>ScanShadow, <1>types, <2>3, <2>4, Shapes
        DEF ScanShadow, Captured, TypeInv, PromotionTypeOK, diskVars
<1>MeetRejection. ASSUME NEW p \in Process, MeetRejection(p) PROVE TypeInv'
    <2>latch. latch' \in Latch /\ latch'.by = p /\ latch' # NoLatch
        BY <1>MeetRejection, OneHolder, Escalated, PromotionAssumption
        DEF MeetRejection, PersistRejection, Holding
    <2> DEFINE e == Undoing(p, TRUE)
    <2>1. e \in Operation
        BY <1>MeetRejection, <2>latch, <1>types, <1>rest, <1>count, Shapes
        DEF MeetRejection, PersistRejection, Operation, PromotionTypeOK, Package,
            Undoing
    <2>2. op' = [op EXCEPT ![p] = e]
        BY <1>MeetRejection DEF MeetRejection, PersistRejection, Undoing, Latch
    <2>3. /\ latch' \in Latch \cup {NoLatch}
          /\ latch' = latch \/ latch = NoLatch \/ op[p].at \in Holding
          /\ e.at \in Holding => latch' \in Latch /\ latch'.by = p
        BY <1>MeetRejection, <2>latch, <1>types, <1>rest, OneHolder
        DEF MeetRejection, PersistRejection, PromotionTypeOK, Holding, Undoing, Latch
    <2>4. op' \in [Process -> Operation] /\ LatchExcludes'
        BY <2>1, <2>2, <2>3, Moves
    <2> QED
        BY <1>MeetRejection, <2>latch, <1>types, <2>3, <2>4, Shapes
        DEF MeetRejection, PersistRejection, TypeInv, PromotionTypeOK, diskVars,
            Undoing, Latch
<1>CommitPromotion. ASSUME NEW p \in Process, CommitPromotion(p) PROVE TypeInv'
    <2>0. IsFiniteSet(promotions')
        BY <1>CommitPromotion, <1>types, FS_AddElement
        DEF CommitPromotion, PromotionTypeOK
    <2> DEFINE e == [op[p] EXCEPT !.at = "committed"]
    <2>1. e \in Operation
        BY <1>CommitPromotion, <1>types, <1>rest, <1>count, Shapes
        DEF CommitPromotion, Operation, PromotionTypeOK, Package
    <2>2. op' = [op EXCEPT ![p] = e]
        BY <1>CommitPromotion DEF CommitPromotion
    <2>3. /\ latch' \in Latch \cup {NoLatch}
          /\ latch' = latch \/ latch = NoLatch \/ op[p].at \in Holding
          /\ e.at \in Holding => latch' \in Latch /\ latch'.by = p
        BY <1>CommitPromotion, <1>types, <1>rest, OneHolder, <2>0
        DEF CommitPromotion, PromotionTypeOK, Holding
    <2>4. op' \in [Process -> Operation] /\ LatchExcludes'
        BY <2>1, <2>2, <2>3, Moves
    <2> QED
        BY <1>CommitPromotion, <1>types, <2>3, <2>4, Shapes, <2>0
        DEF CommitPromotion, TypeInv, PromotionTypeOK, diskVars
<1>Adopt. ASSUME NEW p \in Process, Adopt(p) PROVE TypeInv'
    <2> DEFINE e == [ at |-> "clearing" ]
    <2>1. e \in Operation
        BY <1>Adopt, <1>types, <1>rest, <1>count, Shapes
        DEF Adopt, Operation, PromotionTypeOK, Package
    <2>2. op' = [op EXCEPT ![p] = e]
        BY <1>Adopt DEF Adopt
    <2>3. /\ latch' \in Latch \cup {NoLatch}
          /\ latch' = latch \/ latch = NoLatch \/ op[p].at \in Holding
          /\ e.at \in Holding => latch' \in Latch /\ latch'.by = p
        BY <1>Adopt, <1>types, <1>rest, OneHolder DEF Adopt, PromotionTypeOK, Holding
    <2>4. op' \in [Process -> Operation] /\ LatchExcludes'
        BY <2>1, <2>2, <2>3, Moves
    <2> QED
        BY <1>Adopt, <1>types, <2>3, <2>4, Shapes
        DEF Adopt, TypeInv, PromotionTypeOK, diskVars
<1>Fail. ASSUME NEW p \in Process, Fail(p) PROVE TypeInv'
    <2> DEFINE e == Undoing(p, FALSE)
    <2>1. e \in Operation
        BY <1>Fail, <1>types, <1>rest, <1>count, Shapes
        DEF Fail, Operation, PromotionTypeOK, Package, Undoing
    <2>2. op' = [op EXCEPT ![p] = e]
        BY <1>Fail DEF Fail, Undoing
    <2>3. /\ latch' \in Latch \cup {NoLatch}
          /\ latch' = latch \/ latch = NoLatch \/ op[p].at \in Holding
          /\ e.at \in Holding => latch' \in Latch /\ latch'.by = p
        BY <1>Fail, <1>types, <1>rest, OneHolder
        DEF Fail, PromotionTypeOK, Holding, Undoing
    <2>4. op' \in [Process -> Operation] /\ LatchExcludes'
        BY <2>1, <2>2, <2>3, Moves
    <2> QED
        BY <1>Fail, <1>types, <2>3, <2>4, Shapes
        DEF Fail, TypeInv, PromotionTypeOK, diskVars, Undoing
<1>RestoreYaml. ASSUME NEW p \in Process, RestoreYaml(p) PROVE TypeInv'
    <2> DEFINE e == [op[p] EXCEPT !.at = "relogging"]
    <2>1. e \in Operation
        BY <1>RestoreYaml, <1>types, <1>rest, <1>count, Shapes
        DEF RestoreYaml, Operation, PromotionTypeOK, Package
    <2>2. op' = [op EXCEPT ![p] = e]
        BY <1>RestoreYaml DEF RestoreYaml, Package
    <2>3. /\ latch' \in Latch \cup {NoLatch}
          /\ latch' = latch \/ latch = NoLatch \/ op[p].at \in Holding
          /\ e.at \in Holding => latch' \in Latch /\ latch'.by = p
        BY <1>RestoreYaml, <1>types, <1>rest, OneHolder
        DEF RestoreYaml, PromotionTypeOK, Holding, Package
    <2>4. op' \in [Process -> Operation] /\ LatchExcludes'
        BY <2>1, <2>2, <2>3, Moves
    <2> QED
        BY <1>RestoreYaml, <1>types, <2>3, <2>4, Shapes
        DEF RestoreYaml, TypeInv, PromotionTypeOK, diskVars, Package
<1>RestoreChangelog. ASSUME NEW p \in Process, RestoreChangelog(p) PROVE TypeInv'
    <2> DEFINE e == [op[p] EXCEPT !.at = "restored"]
    <2>1. e \in Operation
        BY <1>RestoreChangelog, <1>types, <1>rest, <1>count, Shapes
        DEF RestoreChangelog, Operation, PromotionTypeOK, Package
    <2>2. op' = [op EXCEPT ![p] = e]
        BY <1>RestoreChangelog DEF RestoreChangelog, Package
    <2>3. /\ latch' \in Latch \cup {NoLatch}
          /\ latch' = latch \/ latch = NoLatch \/ op[p].at \in Holding
          /\ e.at \in Holding => latch' \in Latch /\ latch'.by = p
        BY <1>RestoreChangelog, <1>types, <1>rest, OneHolder
        DEF RestoreChangelog, PromotionTypeOK, Holding, Package
    <2>4. op' \in [Process -> Operation] /\ LatchExcludes'
        BY <2>1, <2>2, <2>3, Moves
    <2> QED
        BY <1>RestoreChangelog, <1>types, <2>3, <2>4, Shapes
        DEF RestoreChangelog, TypeInv, PromotionTypeOK, diskVars, Package
<1>Republish. ASSUME NEW p \in Process, Republish(p) PROVE TypeInv'
    <2>latch. latch' \in Latch /\ latch'.by = p /\ latch' # NoLatch
        BY <1>Republish, OneHolder, Escalated, PromotionAssumption
        DEF Republish, PersistRejection, Holding
    <2>0. PICK e \in {AtRest, [ at |-> "clearing" ]} : op' = [op EXCEPT ![p] = e]
        BY <1>Republish DEF Republish
    <2>1. e \in Operation
        BY <2>0, <1>rest DEF Operation
    <2>2. op' = [op EXCEPT ![p] = e]
        BY <2>0
    <2>3. /\ latch' \in Latch \cup {NoLatch}
          /\ latch' = latch \/ latch = NoLatch \/ op[p].at \in Holding
          /\ e.at \in Holding => latch' \in Latch /\ latch'.by = p
        BY <1>Republish, <2>latch DEF Republish, Holding
    <2>4. op' \in [Process -> Operation] /\ LatchExcludes'
        BY <2>1, <2>2, <2>3, Moves
    <2>5. db' \in {"L0", "L1"} /\ mem' \in [Process -> Package \cup {Down, Rejected}]
        BY <1>Republish, <1>types
        DEF Republish, Scans, Captured, IsPackage, SyncToDb, PromotionTypeOK, Package
    <2>6. red' \in [Process -> BOOLEAN]
        BY <1>Republish, <1>types DEF Republish, PersistRejection, PromotionTypeOK
    <2> QED
        BY <1>Republish, <1>types, <2>3, <2>4, <2>5, <2>6
        DEF Republish, TypeInv, PromotionTypeOK, diskVars
<1>LeaveLatched. ASSUME NEW p \in Process, LeaveLatched(p) PROVE TypeInv'
    <2>latch. latch' \in Latch /\ latch'.by = p /\ latch' # NoLatch
        BY <1>LeaveLatched, OneHolder, Escalated, PromotionAssumption
        DEF LeaveLatched, Holding
    <2> DEFINE e == AtRest
    <2>1. e \in Operation
        BY <1>LeaveLatched, <2>latch, <1>types, <1>rest, <1>count, Shapes
        DEF LeaveLatched, Operation, PromotionTypeOK, Package
    <2>2. op' = [op EXCEPT ![p] = e]
        BY <1>LeaveLatched DEF LeaveLatched, Latch
    <2>3. /\ latch' \in Latch \cup {NoLatch}
          /\ latch' = latch \/ latch = NoLatch \/ op[p].at \in Holding
          /\ e.at \in Holding => latch' \in Latch /\ latch'.by = p
        BY <1>LeaveLatched, <2>latch, <1>types, <1>rest, OneHolder
        DEF LeaveLatched, PromotionTypeOK, Holding, Latch
    <2>4. op' \in [Process -> Operation] /\ LatchExcludes'
        BY <2>1, <2>2, <2>3, Moves
    <2> QED
        BY <1>LeaveLatched, <2>latch, <1>types, <2>3, <2>4, Shapes
        DEF LeaveLatched, TypeInv, PromotionTypeOK, diskVars, Latch
<1>ClearLatch. ASSUME NEW p \in Process, ClearLatch(p) PROVE TypeInv'
    <2> DEFINE e == AtRest
    <2>1. e \in Operation
        BY <1>ClearLatch, <1>types, <1>rest, <1>count, Shapes
        DEF ClearLatch, Operation, PromotionTypeOK, Package
    <2>2. op' = [op EXCEPT ![p] = e]
        BY <1>ClearLatch DEF ClearLatch, Pending, Latch
    <2>3. /\ latch' \in Latch \cup {NoLatch}
          /\ latch' = latch \/ latch = NoLatch \/ op[p].at \in Holding
          /\ e.at \in Holding => latch' \in Latch /\ latch'.by = p
        BY <1>ClearLatch, <1>types, <1>rest, OneHolder
        DEF ClearLatch, PromotionTypeOK, Holding, Pending, Latch
    <2>4. op' \in [Process -> Operation] /\ LatchExcludes'
        BY <2>1, <2>2, <2>3, Moves
    <2> QED
        BY <1>ClearLatch, <1>types, <2>3, <2>4, Shapes
        DEF ClearLatch, TypeInv, PromotionTypeOK, diskVars, Pending, Latch
<1>still. ASSUME UNCHANGED << op, latch >> PROVE op' \in [Process -> Operation] /\
   LatchExcludes'
    BY <1>still, <1>types DEF TypeInv, LatchExcludes, PromotionTypeOK
<1>FixSample. ASSUME NEW s \in Sample, FixSample(s) PROVE TypeInv'
    BY <1>FixSample, <1>types, <1>still, PromotionAssumption
    DEF FixSample, TypeInv, PromotionTypeOK, diskVars, Writable, Package, Cases
<1>Acknowledge. ASSUME NEW s \in Sample, Acknowledge(s) PROVE TypeInv'
    BY <1>Acknowledge, <1>types, <1>still, PromotionAssumption
    DEF Acknowledge, TypeInv, PromotionTypeOK, diskVars, Writable, Package, Cases
<1>EndAcknowledge. ASSUME EndAcknowledge PROVE TypeInv'
    BY <1>EndAcknowledge, <1>types, <1>still, PromotionAssumption
    DEF EndAcknowledge, AcknowledgeOnce, TypeInv, PromotionTypeOK, diskVars
<1>Edit. ASSUME Edit PROVE TypeInv'
    BY <1>Edit, <1>types, <1>still, PromotionAssumption
    DEF Edit, TypeInv, PromotionTypeOK, diskVars, Package, Code
<1>Evaluate. ASSUME Evaluate PROVE TypeInv'
    BY <1>Evaluate, <1>types, <1>still, PromotionAssumption
    DEF Evaluate, TypeInv, PromotionTypeOK, diskVars, Package
<1>Revoke. ASSUME Revoke PROVE TypeInv'
    BY <1>Revoke, <1>types, <1>still, PromotionAssumption
    DEF Revoke, TypeInv, PromotionTypeOK, diskVars
<1>stutter. CASE UNCHANGED promotionVars
    BY <1>stutter, <1>types, <1>still
    DEF promotionVars, diskVars, TypeInv, PromotionTypeOK
<1> QED
    BY <1>ScanForStart, <1>Assemble, <1>Kill, <1>CheckGates, <1>ReadTexts,
       <1>TakeLatch, <1>Recheck, <1>WriteYaml, <1>AppendChangelog, <1>ScanShadow,
       <1>MeetRejection, <1>CommitPromotion, <1>Adopt, <1>Fail, <1>RestoreYaml,
       <1>RestoreChangelog, <1>Republish, <1>LeaveLatched, <1>ClearLatch,
       <1>FixSample, <1>Acknowledge,
       <1>EndAcknowledge, <1>Edit, <1>Evaluate, <1>Revoke, <1>stutter
    DEF PromotionNext

\* Directory, row, latch, registries and operations keep their ranges, whatever
\* promotes, starts, curates, dies or fails (promotion.py, bootstrap.py, curation.py).
THEOREM PromotionTypeCorrect == PromotionSpec => []PromotionTypeOK
<1>1. PromotionInit => TypeInv
    BY InitTypeInv
<1>2. TypeInv /\ [PromotionNext]_promotionVars => TypeInv'
    BY NextTypeInv
<1>3. TypeInv => PromotionTypeOK
    BY DEF TypeInv
<1> QED
    BY <1>1, <1>2, <1>3, PTL DEF PromotionSpec

-----------------------------------------------------------------------------
\* The directory as it was before anybody promoted it.
Clean == pkg.maturity = "L0" /\ pkg.log = 0

\* What a promotion may rely on at each of its steps.
StepInv(p) ==
    /\ op[p].at \in {"latched", "clearing"} => promotions # {} \/ Clean
    /\ op[p].at \in {"fresh", "written", "logged", "scanned",
                     "undoing", "relogging", "restored"} =>
          promotions = {} /\ op[p].log = 0
    /\ op[p].at \in {"written", "logged", "scanned", "committed"} => pkg.maturity = "L1"
    /\ op[p].at = "scanned" => /\ op[p].shadow.maturity = "L1"
                               /\ pkg.code = 0 => op[p].shadow = pkg
    /\ op[p].at = "committed" => Attested(op[p].shadow)
    /\ op[p].at = "relogging" => pkg.maturity = "L0"
    /\ op[p].at = "restored" => Clean

\* The records: one, of tested bytes, never undone.
RecordInv ==
    /\ promotions = {} \/ \E record \in promotions : promotions = {record}
    /\ promotions # {} => pkg.maturity = "L1"
    /\ \A record \in promotions : record.snapshot.maturity = "L1" /\
       Tested(record.snapshot)

\* The row of the agent; only a start that scanned before lowers it.
RowInv ==
    /\ db = "L1" => promotions # {}
    /\ promotions # {} /\ ~ lowered => db = "L1"

\* The bytes on the disk, against the latch and against the record.
DirectoryInv ==
    /\ ~ Clean => promotions # {} \/ latch # NoLatch
    /\ promotions # {} /\ pkg.code = 0 /\ ~ lowered => Attested(pkg)

\* What the registries publish.
PublishedInv ==
    \A p \in Process : IsPackage(mem[p]) /\ mem[p].maturity = "L1" => Attested(mem[p])

SafeInv ==
    /\ TypeInv
    /\ \A p \in Process : StepInv(p)
    /\ RecordInv /\ RowInv /\ DirectoryInv /\ PublishedInv

\* A package nobody has promoted satisfies it.
LEMMA InitSafeInv == PromotionInit => SafeInv
<1> SUFFICES ASSUME PromotionInit PROVE SafeInv
    OBVIOUS
<1>1. pkg.maturity = "L0" /\ pkg.log = 0 /\ promotions = {} /\ db = "L0"
    BY DEF PromotionInit, Draft
<1>2. ASSUME NEW p \in Process PROVE StepInv(p)
    BY DEF PromotionInit, AtRest, StepInv
<1>3. PublishedInv
    BY DEF PromotionInit, PublishedInv, IsPackage, Draft
<1> QED
    BY <1>1, <1>2, <1>3, InitTypeInv DEF SafeInv, RecordInv, RowInv, DirectoryInv, Clean

\* Every step preserves the invariant, action by action.
LEMMA NextSafeInv == SafeInv /\ [PromotionNext]_promotionVars => SafeInv'
<1> SUFFICES ASSUME SafeInv, [PromotionNext]_promotionVars PROVE SafeInv'
    OBVIOUS
<1> USE DEF Holding
<1>types. PromotionTypeOK /\ TypeInv'
    BY NextTypeInv DEF SafeInv, TypeInv
<1>ScanForStart. ASSUME NEW p \in Process, ScanForStart(p) PROVE SafeInv'
    <2>1. ASSUME NEW q \in Process \ {p} PROVE op'[q] = op[q]
        BY <1>ScanForStart, <2>1, <1>types DEF ScanForStart, PromotionTypeOK
    <2>2. StepInv(p)'
        BY <1>ScanForStart, <1>types, Shapes, OneHolder
        DEF ScanForStart, SafeInv, StepInv, RecordInv, DirectoryInv, Clean, Attested,
            PromotionTypeOK, Package, diskVars
    <2>3. ASSUME NEW q \in Process \ {p} PROVE StepInv(q)'
        BY <1>ScanForStart, <2>1, <2>3, <1>types, OneHolder
        DEF ScanForStart, SafeInv, StepInv, Clean, Attested, PromotionTypeOK, Package,
            diskVars
    <2>4. RecordInv'
        BY <1>ScanForStart, <1>types, OneHolder
        DEF ScanForStart, SafeInv, StepInv, RecordInv, Tested, PromotionTypeOK, Package,
            diskVars
    <2>5. RowInv'
        BY <1>ScanForStart, <1>types, OneHolder
        DEF ScanForStart, SafeInv, StepInv, RecordInv, RowInv, Attested,
            PromotionTypeOK, Package, diskVars
    <2>6. DirectoryInv'
        BY <1>ScanForStart, <1>types, OneHolder
        DEF ScanForStart, SafeInv, StepInv, RecordInv, DirectoryInv, Clean, Attested,
            PromotionTypeOK, Package, diskVars
    <2>7. PublishedInv'
        BY <1>ScanForStart, <1>types, Shapes
        DEF ScanForStart, SafeInv, StepInv, PublishedInv, IsPackage, Attested, Clean,
            PromotionTypeOK, Package, diskVars
    <2> QED
        BY <2>2, <2>3, <2>4, <2>5, <2>6, <2>7, <1>types DEF SafeInv
<1>Assemble. ASSUME NEW p \in Process, Assemble(p) PROVE SafeInv'
    <2>1. ASSUME NEW q \in Process \ {p} PROVE op'[q] = op[q]
        BY <1>Assemble, <2>1, <1>types
        DEF Assemble, Publishable, IsPackage, SyncToDb, PromotionTypeOK
    <2>2. StepInv(p)'
        BY <1>Assemble, <1>types, Shapes, OneHolder
        DEF Assemble, Publishable, IsPackage, SyncToDb, SafeInv, StepInv, RecordInv,
            DirectoryInv, Clean, Attested, PromotionTypeOK, Package, diskVars, AtRest
    <2>3. ASSUME NEW q \in Process \ {p} PROVE StepInv(q)'
        BY <1>Assemble, <2>1, <2>3, <1>types, OneHolder
        DEF Assemble, Publishable, IsPackage, SyncToDb, SafeInv, StepInv, Clean,
            Attested, PromotionTypeOK, Package, diskVars, AtRest
    <2>4. RecordInv'
        BY <1>Assemble, <1>types, OneHolder
        DEF Assemble, Publishable, IsPackage, SyncToDb, SafeInv, StepInv, RecordInv,
            Tested, PromotionTypeOK, Package, diskVars, AtRest
    <2>5. RowInv'
        BY <1>Assemble, <1>types, OneHolder, Shapes
        DEF Assemble, Publishable, IsPackage, SyncToDb, SafeInv, StepInv, RecordInv,
            RowInv, Attested, PromotionTypeOK, Package, diskVars, AtRest
    <2>6. DirectoryInv'
        BY <1>Assemble, <1>types, OneHolder
        DEF Assemble, Publishable, IsPackage, SyncToDb, SafeInv, StepInv, RecordInv,
            DirectoryInv, Clean, Attested, PromotionTypeOK, Package, diskVars, AtRest
    <2>7. PublishedInv'
        BY <1>Assemble, <1>types, Shapes
        DEF Assemble, Publishable, IsPackage, SyncToDb, SafeInv, StepInv, PublishedInv,
            Attested, Clean, PromotionTypeOK, Package, diskVars, AtRest
    <2> QED
        BY <2>2, <2>3, <2>4, <2>5, <2>6, <2>7, <1>types DEF SafeInv
<1>Kill. ASSUME NEW p \in Process, Kill(p) PROVE SafeInv'
    <2>1. ASSUME NEW q \in Process \ {p} PROVE op'[q] = op[q]
        BY <1>Kill, <2>1, <1>types DEF Kill, PromotionTypeOK
    <2>2. StepInv(p)'
        BY <1>Kill, <1>types, Shapes, OneHolder
        DEF Kill, SafeInv, StepInv, RecordInv, DirectoryInv, Clean, Attested,
            PromotionTypeOK, Package, diskVars, AtRest
    <2>3. ASSUME NEW q \in Process \ {p} PROVE StepInv(q)'
        BY <1>Kill, <2>1, <2>3, <1>types, OneHolder
        DEF Kill, SafeInv, StepInv, Clean, Attested, PromotionTypeOK, Package, diskVars,
            AtRest
    <2>4. RecordInv'
        BY <1>Kill, <1>types, OneHolder
        DEF Kill, SafeInv, StepInv, RecordInv, Tested, PromotionTypeOK, Package,
            diskVars, AtRest
    <2>5. RowInv'
        BY <1>Kill, <1>types, OneHolder
        DEF Kill, SafeInv, StepInv, RecordInv, RowInv, Attested, PromotionTypeOK,
            Package, diskVars, AtRest
    <2>6. DirectoryInv'
        BY <1>Kill, <1>types, OneHolder
        DEF Kill, SafeInv, StepInv, RecordInv, DirectoryInv, Clean, Attested,
            PromotionTypeOK, Package, diskVars, AtRest
    <2>7. PublishedInv'
        BY <1>Kill, <1>types, Shapes
        DEF Kill, SafeInv, StepInv, PublishedInv, IsPackage, Attested, Clean,
            PromotionTypeOK, Package, diskVars, AtRest
    <2> QED
        BY <2>2, <2>3, <2>4, <2>5, <2>6, <2>7, <1>types DEF SafeInv
<1>CheckGates. ASSUME NEW p \in Process, CheckGates(p) PROVE SafeInv'
    <2>1. ASSUME NEW q \in Process \ {p} PROVE op'[q] = op[q]
        BY <1>CheckGates, <2>1, <1>types DEF CheckGates, PromotionTypeOK
    <2>2. StepInv(p)'
        BY <1>CheckGates, <1>types, Shapes, OneHolder
        DEF CheckGates, SafeInv, StepInv, RecordInv, DirectoryInv, Clean, Attested,
            PromotionTypeOK, Package, diskVars
    <2>3. ASSUME NEW q \in Process \ {p} PROVE StepInv(q)'
        BY <1>CheckGates, <2>1, <2>3, <1>types, OneHolder
        DEF CheckGates, SafeInv, StepInv, Clean, Attested, PromotionTypeOK, Package,
            diskVars
    <2>4. RecordInv'
        BY <1>CheckGates, <1>types, OneHolder
        DEF CheckGates, SafeInv, StepInv, RecordInv, Tested, PromotionTypeOK, Package,
            diskVars
    <2>5. RowInv'
        BY <1>CheckGates, <1>types, OneHolder
        DEF CheckGates, SafeInv, StepInv, RecordInv, RowInv, Attested, PromotionTypeOK,
            Package, diskVars
    <2>6. DirectoryInv'
        BY <1>CheckGates, <1>types, OneHolder
        DEF CheckGates, SafeInv, StepInv, RecordInv, DirectoryInv, Clean, Attested,
            PromotionTypeOK, Package, diskVars
    <2>7. PublishedInv'
        BY <1>CheckGates, <1>types, Shapes
        DEF CheckGates, SafeInv, StepInv, PublishedInv, IsPackage, Attested, Clean,
            PromotionTypeOK, Package, diskVars
    <2> QED
        BY <2>2, <2>3, <2>4, <2>5, <2>6, <2>7, <1>types DEF SafeInv
<1>ReadTexts. ASSUME NEW p \in Process, ReadTexts(p) PROVE SafeInv'
    <2>1. ASSUME NEW q \in Process \ {p} PROVE op'[q] = op[q]
        BY <1>ReadTexts, <2>1, <1>types DEF ReadTexts, PromotionTypeOK, Refuse
    <2>2. StepInv(p)'
        BY <1>ReadTexts, <1>types, Shapes, OneHolder
        DEF ReadTexts, SafeInv, StepInv, RecordInv, DirectoryInv, Clean, Attested,
            PromotionTypeOK, Package, diskVars, Refuse, AtRest
    <2>3. ASSUME NEW q \in Process \ {p} PROVE StepInv(q)'
        BY <1>ReadTexts, <2>1, <2>3, <1>types, OneHolder
        DEF ReadTexts, SafeInv, StepInv, Clean, Attested, PromotionTypeOK, Package,
            diskVars, Refuse, AtRest
    <2>4. RecordInv'
        BY <1>ReadTexts, <1>types, OneHolder
        DEF ReadTexts, SafeInv, StepInv, RecordInv, Tested, PromotionTypeOK, Package,
            diskVars, Refuse, AtRest
    <2>5. RowInv'
        BY <1>ReadTexts, <1>types, OneHolder
        DEF ReadTexts, SafeInv, StepInv, RecordInv, RowInv, Attested, PromotionTypeOK,
            Package, diskVars, Refuse, AtRest
    <2>6. DirectoryInv'
        BY <1>ReadTexts, <1>types, OneHolder
        DEF ReadTexts, SafeInv, StepInv, RecordInv, DirectoryInv, Clean, Attested,
            PromotionTypeOK, Package, diskVars, Refuse, AtRest
    <2>7. PublishedInv'
        BY <1>ReadTexts, <1>types, Shapes
        DEF ReadTexts, SafeInv, StepInv, PublishedInv, IsPackage, Attested, Clean,
            PromotionTypeOK, Package, diskVars, Refuse, AtRest
    <2> QED
        BY <2>2, <2>3, <2>4, <2>5, <2>6, <2>7, <1>types DEF SafeInv
<1>TakeLatch. ASSUME NEW p \in Process, TakeLatch(p) PROVE SafeInv'
    <2>0. /\ UNCHANGED << pkg, promotions >>
          /\ \/ op'[p].at = "idle"
             \/ op'[p].at = "latched" /\ latch = NoLatch
        BY <1>TakeLatch, <1>types, Shapes
        DEF TakeLatch, Refuse, AtRest, diskVars, PromotionTypeOK, SafeInv, Operation
    <2>1. ASSUME NEW q \in Process \ {p} PROVE op'[q] = op[q]
        BY <1>TakeLatch, <2>1, <1>types DEF TakeLatch, PromotionTypeOK, Refuse
    <2>2. StepInv(p)'
        BY <2>0, <1>types DEF SafeInv, StepInv, DirectoryInv, Clean
    <2>3. ASSUME NEW q \in Process \ {p} PROVE StepInv(q)'
        BY <1>TakeLatch, <2>1, <2>3, <1>types, OneHolder
        DEF TakeLatch, SafeInv, StepInv, Clean, Attested, PromotionTypeOK, Package,
            diskVars, Refuse, AtRest, Pending
    <2>4. RecordInv'
        BY <1>TakeLatch, <1>types, OneHolder
        DEF TakeLatch, SafeInv, StepInv, RecordInv, Tested, PromotionTypeOK, Package,
            diskVars, Refuse, AtRest, Pending
    <2>5. RowInv'
        BY <1>TakeLatch, <1>types, OneHolder
        DEF TakeLatch, SafeInv, StepInv, RecordInv, RowInv, Attested, PromotionTypeOK,
            Package, diskVars, Refuse, AtRest, Pending
    <2>6. DirectoryInv'
        BY <1>TakeLatch, <1>types, OneHolder
        DEF TakeLatch, SafeInv, StepInv, RecordInv, DirectoryInv, Clean, Attested,
            PromotionTypeOK, Package, diskVars, Refuse, AtRest, Pending
    <2>7. PublishedInv'
        BY <1>TakeLatch, <1>types, Shapes
        DEF TakeLatch, SafeInv, StepInv, PublishedInv, IsPackage, Attested, Clean,
            PromotionTypeOK, Package, diskVars, Refuse, AtRest, Pending
    <2> QED
        BY <2>2, <2>3, <2>4, <2>5, <2>6, <2>7, <1>types DEF SafeInv
<1>Recheck. ASSUME NEW p \in Process, Recheck(p) PROVE SafeInv'
    <2>0. /\ UNCHANGED << pkg, promotions >>
          /\ \/ op'[p].at = "idle"
             \/ op'[p].at = "fresh" /\ StillAsRead(p) /\ op'[p].log = op[p].log
        BY <1>Recheck, <1>types, Shapes
        DEF Recheck, Refuse, AtRest, diskVars, PromotionTypeOK, SafeInv, Operation
    <2>1. ASSUME NEW q \in Process \ {p} PROVE op'[q] = op[q]
        BY <1>Recheck, <2>1, <1>types DEF Recheck, PromotionTypeOK, Refuse
    <2>2. StepInv(p)'
        BY <1>Recheck, <2>0, <1>types
        DEF Recheck, StillAsRead, SafeInv, StepInv, RecordInv, Clean
    <2>3. ASSUME NEW q \in Process \ {p} PROVE StepInv(q)'
        BY <1>Recheck, <2>1, <2>3, <1>types, OneHolder
        DEF Recheck, SafeInv, StepInv, Clean, Attested, PromotionTypeOK, Package,
            diskVars, Refuse, AtRest, StillAsRead
    <2>4. RecordInv'
        BY <1>Recheck, <1>types, OneHolder
        DEF Recheck, SafeInv, StepInv, RecordInv, Tested, PromotionTypeOK, Package,
            diskVars, Refuse, AtRest, StillAsRead
    <2>5. RowInv'
        BY <1>Recheck, <1>types, OneHolder
        DEF Recheck, SafeInv, StepInv, RecordInv, RowInv, Attested, PromotionTypeOK,
            Package, diskVars, Refuse, AtRest, StillAsRead
    <2>6. DirectoryInv'
        BY <1>Recheck, <1>types, OneHolder
        DEF Recheck, SafeInv, StepInv, RecordInv, DirectoryInv, Clean, Attested,
            PromotionTypeOK, Package, diskVars, Refuse, AtRest, StillAsRead
    <2>7. PublishedInv'
        BY <1>Recheck, <1>types, Shapes
        DEF Recheck, SafeInv, StepInv, PublishedInv, IsPackage, Attested, Clean,
            PromotionTypeOK, Package, diskVars, Refuse, AtRest, StillAsRead
    <2> QED
        BY <2>2, <2>3, <2>4, <2>5, <2>6, <2>7, <1>types DEF SafeInv
<1>WriteYaml. ASSUME NEW p \in Process, WriteYaml(p) PROVE SafeInv'
    <2>1. ASSUME NEW q \in Process \ {p} PROVE op'[q] = op[q]
        BY <1>WriteYaml, <2>1, <1>types DEF WriteYaml, PromotionTypeOK
    <2>2. StepInv(p)'
        BY <1>WriteYaml, <1>types, Shapes, OneHolder
        DEF WriteYaml, SafeInv, StepInv, RecordInv, DirectoryInv, Clean, Attested,
            PromotionTypeOK, Package, diskVars
    <2>3. ASSUME NEW q \in Process \ {p} PROVE StepInv(q)'
        BY <1>WriteYaml, <2>1, <2>3, <1>types, OneHolder
        DEF WriteYaml, SafeInv, StepInv, Clean, Attested, PromotionTypeOK, Package,
            diskVars
    <2>4. RecordInv'
        BY <1>WriteYaml, <1>types, OneHolder
        DEF WriteYaml, SafeInv, StepInv, RecordInv, Tested, PromotionTypeOK, Package,
            diskVars
    <2>5. RowInv'
        BY <1>WriteYaml, <1>types, OneHolder
        DEF WriteYaml, SafeInv, StepInv, RecordInv, RowInv, Attested, PromotionTypeOK,
            Package, diskVars
    <2>6. DirectoryInv'
        BY <1>WriteYaml, <1>types, OneHolder
        DEF WriteYaml, SafeInv, StepInv, RecordInv, DirectoryInv, Clean, Attested,
            PromotionTypeOK, Package, diskVars
    <2>7. PublishedInv'
        BY <1>WriteYaml, <1>types, Shapes
        DEF WriteYaml, SafeInv, StepInv, PublishedInv, IsPackage, Attested, Clean,
            PromotionTypeOK, Package, diskVars
    <2> QED
        BY <2>2, <2>3, <2>4, <2>5, <2>6, <2>7, <1>types DEF SafeInv
<1>AppendChangelog. ASSUME NEW p \in Process, AppendChangelog(p) PROVE SafeInv'
    <2>1. ASSUME NEW q \in Process \ {p} PROVE op'[q] = op[q]
        BY <1>AppendChangelog, <2>1, <1>types DEF AppendChangelog, PromotionTypeOK
    <2>2. StepInv(p)'
        BY <1>AppendChangelog, <1>types, Shapes, OneHolder
        DEF AppendChangelog, SafeInv, StepInv, RecordInv, DirectoryInv, Clean, Attested,
            PromotionTypeOK, Package, diskVars
    <2>3. ASSUME NEW q \in Process \ {p} PROVE StepInv(q)'
        BY <1>AppendChangelog, <2>1, <2>3, <1>types, OneHolder
        DEF AppendChangelog, SafeInv, StepInv, Clean, Attested, PromotionTypeOK,
            Package, diskVars
    <2>4. RecordInv'
        BY <1>AppendChangelog, <1>types, OneHolder
        DEF AppendChangelog, SafeInv, StepInv, RecordInv, Tested, PromotionTypeOK,
            Package, diskVars
    <2>5. RowInv'
        BY <1>AppendChangelog, <1>types, OneHolder
        DEF AppendChangelog, SafeInv, StepInv, RecordInv, RowInv, Attested,
            PromotionTypeOK, Package, diskVars
    <2>6. DirectoryInv'
        BY <1>AppendChangelog, <1>types, OneHolder
        DEF AppendChangelog, SafeInv, StepInv, RecordInv, DirectoryInv, Clean, Attested,
            PromotionTypeOK, Package, diskVars
    <2>7. PublishedInv'
        BY <1>AppendChangelog, <1>types, Shapes
        DEF AppendChangelog, SafeInv, StepInv, PublishedInv, IsPackage, Attested, Clean,
            PromotionTypeOK, Package, diskVars
    <2> QED
        BY <2>2, <2>3, <2>4, <2>5, <2>6, <2>7, <1>types DEF SafeInv
<1>ScanShadow. ASSUME NEW p \in Process, ScanShadow(p) PROVE SafeInv'
    <2>1. ASSUME NEW q \in Process \ {p} PROVE op'[q] = op[q]
        BY <1>ScanShadow, <2>1, <1>types DEF ScanShadow, Captured, PromotionTypeOK
    <2>2. StepInv(p)'
        BY <1>ScanShadow, <1>types, Shapes, OneHolder
        DEF ScanShadow, Captured, SafeInv, StepInv, RecordInv, DirectoryInv, Clean,
            Attested, PromotionTypeOK, Package, diskVars
    <2>3. ASSUME NEW q \in Process \ {p} PROVE StepInv(q)'
        BY <1>ScanShadow, <2>1, <2>3, <1>types, OneHolder
        DEF ScanShadow, Captured, SafeInv, StepInv, Clean, Attested, PromotionTypeOK,
            Package, diskVars
    <2>4. RecordInv'
        BY <1>ScanShadow, <1>types, OneHolder
        DEF ScanShadow, Captured, SafeInv, StepInv, RecordInv, Tested, PromotionTypeOK,
            Package, diskVars
    <2>5. RowInv'
        BY <1>ScanShadow, <1>types, OneHolder
        DEF ScanShadow, Captured, SafeInv, StepInv, RecordInv, RowInv, Attested,
            PromotionTypeOK, Package, diskVars
    <2>6. DirectoryInv'
        BY <1>ScanShadow, <1>types, OneHolder
        DEF ScanShadow, Captured, SafeInv, StepInv, RecordInv, DirectoryInv, Clean,
            Attested, PromotionTypeOK, Package, diskVars
    <2>7. PublishedInv'
        BY <1>ScanShadow, <1>types, Shapes
        DEF ScanShadow, Captured, SafeInv, StepInv, PublishedInv, IsPackage, Attested,
            Clean, PromotionTypeOK, Package, diskVars
    <2> QED
        BY <2>2, <2>3, <2>4, <2>5, <2>6, <2>7, <1>types DEF SafeInv
<1>MeetRejection. ASSUME NEW p \in Process, MeetRejection(p) PROVE SafeInv'
    <2>latch. latch' \in Latch /\ latch'.by = p /\ latch' # NoLatch
        BY <1>MeetRejection, OneHolder, Escalated, PromotionAssumption
        DEF MeetRejection, PersistRejection, Holding, SafeInv
    <2>0. latch' # NoLatch
        BY <1>MeetRejection, <2>latch, OneHolder, PromotionAssumption
        DEF MeetRejection, PersistRejection, SafeInv, Latch
    <2>1. ASSUME NEW q \in Process \ {p} PROVE op'[q] = op[q]
        BY <1>MeetRejection, <2>latch, <2>1, <1>types
        DEF MeetRejection, PersistRejection, PromotionTypeOK
    <2>2. StepInv(p)'
        BY <1>MeetRejection, <2>latch, <1>types, Shapes, OneHolder
        DEF MeetRejection, PersistRejection, SafeInv, StepInv, RecordInv, DirectoryInv,
            Clean, Attested, PromotionTypeOK, Package, diskVars, Undoing
    <2>3. ASSUME NEW q \in Process \ {p} PROVE StepInv(q)'
        BY <1>MeetRejection, <2>latch, <2>1, <2>3, <1>types, OneHolder
        DEF MeetRejection, PersistRejection, SafeInv, StepInv, Clean, Attested,
            PromotionTypeOK, Package, diskVars, Undoing
    <2>4. RecordInv'
        BY <1>MeetRejection, <2>latch, <1>types, OneHolder
        DEF MeetRejection, PersistRejection, SafeInv, StepInv, RecordInv, Tested,
            PromotionTypeOK, Package, diskVars, Undoing
    <2>5. RowInv'
        BY <1>MeetRejection, <2>latch, <1>types, OneHolder
        DEF MeetRejection, PersistRejection, SafeInv, StepInv, RecordInv, RowInv,
            Attested, PromotionTypeOK, Package, diskVars, Undoing
    <2>6. DirectoryInv'
        BY <1>MeetRejection, <2>latch, <1>types, OneHolder, <2>0
        DEF MeetRejection, PersistRejection, SafeInv, StepInv, RecordInv, DirectoryInv,
            Clean, Attested, PromotionTypeOK, Package, diskVars, Undoing
    <2>7. PublishedInv'
        BY <1>MeetRejection, <2>latch, <1>types, Shapes
        DEF MeetRejection, PersistRejection, SafeInv, StepInv, PublishedInv, IsPackage,
            Attested, Clean, PromotionTypeOK, Package, diskVars, Undoing
    <2> QED
        BY <2>2, <2>3, <2>4, <2>5, <2>6, <2>7, <1>types DEF SafeInv
<1>CommitPromotion. ASSUME NEW p \in Process, CommitPromotion(p) PROVE SafeInv'
    <2>0. op'[p].at = "committed" /\ op'[p].shadow = op[p].shadow
        BY <1>CommitPromotion, <1>types, Shapes
        DEF CommitPromotion, SafeInv, PromotionTypeOK, Operation
    <2>1. ASSUME NEW q \in Process \ {p} PROVE op'[q] = op[q]
        BY <1>CommitPromotion, <2>1, <1>types DEF CommitPromotion, PromotionTypeOK
    <2>2. StepInv(p)'
        <3>1. Attested(op[p].shadow)'
            <4> DEFINE record == [ by |-> p, snapshot |-> op[p].shadow ]
            <4>1. record \in promotions' /\ record.snapshot = op'[p].shadow
                BY <1>CommitPromotion, <2>0 DEF CommitPromotion
            <4> QED
                BY <4>1 DEF Attested
        <3> QED
            BY <1>CommitPromotion, <2>0, <3>1
            DEF CommitPromotion, diskVars, SafeInv, StepInv, Attested
    <2>3. ASSUME NEW q \in Process \ {p} PROVE StepInv(q)'
        BY <1>CommitPromotion, <2>1, <2>3, <1>types, OneHolder
        DEF CommitPromotion, SafeInv, StepInv, Clean, Attested, PromotionTypeOK,
            Package, diskVars
    <2>4. RecordInv'
        BY <1>CommitPromotion, <1>types, OneHolder
        DEF CommitPromotion, SafeInv, StepInv, RecordInv, Tested, PromotionTypeOK,
            Package, diskVars
    <2>5. RowInv'
        BY <1>CommitPromotion, <1>types, OneHolder
        DEF CommitPromotion, SafeInv, StepInv, RecordInv, RowInv, Attested,
            PromotionTypeOK, Package, diskVars
    <2>6. DirectoryInv'
        BY <1>CommitPromotion, <1>types, OneHolder
        DEF CommitPromotion, SafeInv, StepInv, RecordInv, DirectoryInv, Clean, Attested,
            PromotionTypeOK, Package, diskVars
    <2>7. PublishedInv'
        BY <1>CommitPromotion, <1>types, Shapes
        DEF CommitPromotion, SafeInv, StepInv, PublishedInv, IsPackage, Attested, Clean,
            PromotionTypeOK, Package, diskVars
    <2> QED
        BY <2>2, <2>3, <2>4, <2>5, <2>6, <2>7, <1>types DEF SafeInv
<1>Adopt. ASSUME NEW p \in Process, Adopt(p) PROVE SafeInv'
    <2>1. ASSUME NEW q \in Process \ {p} PROVE op'[q] = op[q]
        BY <1>Adopt, <2>1, <1>types DEF Adopt, PromotionTypeOK
    <2>2. StepInv(p)'
        BY <1>Adopt, <1>types, Shapes, OneHolder
        DEF Adopt, SafeInv, StepInv, RecordInv, DirectoryInv, Clean, Attested,
            PromotionTypeOK, Package, diskVars
    <2>3. ASSUME NEW q \in Process \ {p} PROVE StepInv(q)'
        BY <1>Adopt, <2>1, <2>3, <1>types, OneHolder
        DEF Adopt, SafeInv, StepInv, Clean, Attested, PromotionTypeOK, Package, diskVars
    <2>4. RecordInv'
        BY <1>Adopt, <1>types, OneHolder
        DEF Adopt, SafeInv, StepInv, RecordInv, Tested, PromotionTypeOK, Package,
            diskVars
    <2>5. RowInv'
        BY <1>Adopt, <1>types, OneHolder
        DEF Adopt, SafeInv, StepInv, RecordInv, RowInv, Attested, PromotionTypeOK,
            Package, diskVars
    <2>6. DirectoryInv'
        BY <1>Adopt, <1>types, OneHolder
        DEF Adopt, SafeInv, StepInv, RecordInv, DirectoryInv, Clean, Attested,
            PromotionTypeOK, Package, diskVars
    <2>7. PublishedInv'
        BY <1>Adopt, <1>types, Shapes
        DEF Adopt, SafeInv, StepInv, PublishedInv, IsPackage, Attested, Clean,
            PromotionTypeOK, Package, diskVars
    <2> QED
        BY <2>2, <2>3, <2>4, <2>5, <2>6, <2>7, <1>types DEF SafeInv
<1>Fail. ASSUME NEW p \in Process, Fail(p) PROVE SafeInv'
    <2>1. ASSUME NEW q \in Process \ {p} PROVE op'[q] = op[q]
        BY <1>Fail, <2>1, <1>types DEF Fail, PromotionTypeOK
    <2>2. StepInv(p)'
        BY <1>Fail, <1>types, Shapes, OneHolder
        DEF Fail, SafeInv, StepInv, RecordInv, DirectoryInv, Clean, Attested,
            PromotionTypeOK, Package, diskVars, Undoing
    <2>3. ASSUME NEW q \in Process \ {p} PROVE StepInv(q)'
        BY <1>Fail, <2>1, <2>3, <1>types, OneHolder
        DEF Fail, SafeInv, StepInv, Clean, Attested, PromotionTypeOK, Package, diskVars,
            Undoing
    <2>4. RecordInv'
        BY <1>Fail, <1>types, OneHolder
        DEF Fail, SafeInv, StepInv, RecordInv, Tested, PromotionTypeOK, Package,
            diskVars, Undoing
    <2>5. RowInv'
        BY <1>Fail, <1>types, OneHolder
        DEF Fail, SafeInv, StepInv, RecordInv, RowInv, Attested, PromotionTypeOK,
            Package, diskVars, Undoing
    <2>6. DirectoryInv'
        BY <1>Fail, <1>types, OneHolder
        DEF Fail, SafeInv, StepInv, RecordInv, DirectoryInv, Clean, Attested,
            PromotionTypeOK, Package, diskVars, Undoing
    <2>7. PublishedInv'
        BY <1>Fail, <1>types, Shapes
        DEF Fail, SafeInv, StepInv, PublishedInv, IsPackage, Attested, Clean,
            PromotionTypeOK, Package, diskVars, Undoing
    <2> QED
        BY <2>2, <2>3, <2>4, <2>5, <2>6, <2>7, <1>types DEF SafeInv
<1>RestoreYaml. ASSUME NEW p \in Process, RestoreYaml(p) PROVE SafeInv'
    <2>1. ASSUME NEW q \in Process \ {p} PROVE op'[q] = op[q]
        BY <1>RestoreYaml, <2>1, <1>types DEF RestoreYaml, PromotionTypeOK
    <2>2. StepInv(p)'
        BY <1>RestoreYaml, <1>types, Shapes, OneHolder
        DEF RestoreYaml, SafeInv, StepInv, RecordInv, DirectoryInv, Clean, Attested,
            PromotionTypeOK, Package, diskVars
    <2>3. ASSUME NEW q \in Process \ {p} PROVE StepInv(q)'
        BY <1>RestoreYaml, <2>1, <2>3, <1>types, OneHolder
        DEF RestoreYaml, SafeInv, StepInv, Clean, Attested, PromotionTypeOK, Package,
            diskVars
    <2>4. RecordInv'
        BY <1>RestoreYaml, <1>types, OneHolder
        DEF RestoreYaml, SafeInv, StepInv, RecordInv, Tested, PromotionTypeOK, Package,
            diskVars
    <2>5. RowInv'
        BY <1>RestoreYaml, <1>types, OneHolder
        DEF RestoreYaml, SafeInv, StepInv, RecordInv, RowInv, Attested, PromotionTypeOK,
            Package, diskVars
    <2>6. DirectoryInv'
        BY <1>RestoreYaml, <1>types, OneHolder
        DEF RestoreYaml, SafeInv, StepInv, RecordInv, DirectoryInv, Clean, Attested,
            PromotionTypeOK, Package, diskVars
    <2>7. PublishedInv'
        BY <1>RestoreYaml, <1>types, Shapes
        DEF RestoreYaml, SafeInv, StepInv, PublishedInv, IsPackage, Attested, Clean,
            PromotionTypeOK, Package, diskVars
    <2> QED
        BY <2>2, <2>3, <2>4, <2>5, <2>6, <2>7, <1>types DEF SafeInv
<1>RestoreChangelog. ASSUME NEW p \in Process, RestoreChangelog(p) PROVE SafeInv'
    <2>1. ASSUME NEW q \in Process \ {p} PROVE op'[q] = op[q]
        BY <1>RestoreChangelog, <2>1, <1>types DEF RestoreChangelog, PromotionTypeOK
    <2>2. StepInv(p)'
        BY <1>RestoreChangelog, <1>types, Shapes, OneHolder
        DEF RestoreChangelog, SafeInv, StepInv, RecordInv, DirectoryInv, Clean,
            Attested, PromotionTypeOK, Package, diskVars
    <2>3. ASSUME NEW q \in Process \ {p} PROVE StepInv(q)'
        BY <1>RestoreChangelog, <2>1, <2>3, <1>types, OneHolder
        DEF RestoreChangelog, SafeInv, StepInv, Clean, Attested, PromotionTypeOK,
            Package, diskVars
    <2>4. RecordInv'
        BY <1>RestoreChangelog, <1>types, OneHolder
        DEF RestoreChangelog, SafeInv, StepInv, RecordInv, Tested, PromotionTypeOK,
            Package, diskVars
    <2>5. RowInv'
        BY <1>RestoreChangelog, <1>types, OneHolder
        DEF RestoreChangelog, SafeInv, StepInv, RecordInv, RowInv, Attested,
            PromotionTypeOK, Package, diskVars
    <2>6. DirectoryInv'
        BY <1>RestoreChangelog, <1>types, OneHolder
        DEF RestoreChangelog, SafeInv, StepInv, RecordInv, DirectoryInv, Clean,
            Attested, PromotionTypeOK, Package, diskVars
    <2>7. PublishedInv'
        BY <1>RestoreChangelog, <1>types, Shapes
        DEF RestoreChangelog, SafeInv, StepInv, PublishedInv, IsPackage, Attested,
            Clean, PromotionTypeOK, Package, diskVars
    <2> QED
        BY <2>2, <2>3, <2>4, <2>5, <2>6, <2>7, <1>types DEF SafeInv
<1>Republish. ASSUME NEW p \in Process, Republish(p) PROVE SafeInv'
    <2>latch. latch' \in Latch /\ latch'.by = p /\ latch' # NoLatch
        BY <1>Republish, OneHolder, Escalated, PromotionAssumption
        DEF Republish, PersistRejection, Holding, SafeInv
    <2>0. db' = "L0" /\ promotions = {} /\ promotions' = {}
        BY <1>Republish, <2>latch, <1>types
        DEF Republish, PersistRejection, Scans, Captured, IsPackage, SyncToDb, SafeInv,
            StepInv, RowInv, Clean, PromotionTypeOK
    <2>1. ASSUME NEW q \in Process \ {p} PROVE op'[q] = op[q]
        BY <1>Republish, <2>latch, <2>1, <1>types
        DEF Republish, PersistRejection, Scans, Captured, IsPackage, SyncToDb,
            PromotionTypeOK
    <2>2. StepInv(p)'
        BY <1>Republish, <2>latch, <1>types, Shapes, OneHolder
        DEF Republish, PersistRejection, Scans, Captured, IsPackage, SyncToDb, SafeInv,
            StepInv, RecordInv, DirectoryInv, Clean, Attested, PromotionTypeOK, Package,
            diskVars, AtRest
    <2>3. ASSUME NEW q \in Process \ {p} PROVE StepInv(q)'
        BY <1>Republish, <2>latch, <2>1, <2>3, <1>types, OneHolder
        DEF Republish, PersistRejection, Scans, Captured, IsPackage, SyncToDb, SafeInv,
            StepInv, Clean, Attested, PromotionTypeOK, Package, diskVars, AtRest
    <2>4. RecordInv'
        BY <1>Republish, <2>latch, <1>types, OneHolder
        DEF Republish, PersistRejection, Scans, Captured, IsPackage, SyncToDb, SafeInv,
            StepInv, RecordInv, Tested, PromotionTypeOK, Package, diskVars, AtRest
    <2>5. RowInv'
        BY <1>Republish, <2>latch, <1>types, OneHolder, <2>0
        DEF Republish, PersistRejection, Scans, Captured, IsPackage, SyncToDb, SafeInv,
            StepInv, RecordInv, RowInv, Attested, PromotionTypeOK, Package, diskVars,
            AtRest
    <2>6. DirectoryInv'
        BY <1>Republish, <2>latch, <1>types, OneHolder
        DEF Republish, PersistRejection, Scans, Captured, IsPackage, SyncToDb, SafeInv,
            StepInv, RecordInv, DirectoryInv, Clean, Attested, PromotionTypeOK, Package,
            diskVars, AtRest
    <2>7. PublishedInv'
        BY <1>Republish, <2>latch, <1>types, Shapes
        DEF Republish, PersistRejection, Scans, Captured, IsPackage, SyncToDb, SafeInv,
            StepInv, PublishedInv, Attested, Clean, PromotionTypeOK, Package, diskVars,
            AtRest
    <2> QED
        BY <2>2, <2>3, <2>4, <2>5, <2>6, <2>7, <1>types DEF SafeInv
<1>LeaveLatched. ASSUME NEW p \in Process, LeaveLatched(p) PROVE SafeInv'
    <2>latch. latch' \in Latch /\ latch'.by = p /\ latch' # NoLatch
        BY <1>LeaveLatched, OneHolder, Escalated, PromotionAssumption
        DEF LeaveLatched, Holding, SafeInv
    <2>0. latch' # NoLatch
        BY <1>LeaveLatched, <2>latch, OneHolder, PromotionAssumption
        DEF LeaveLatched, SafeInv, Latch
    <2>1. ASSUME NEW q \in Process \ {p} PROVE op'[q] = op[q]
        BY <1>LeaveLatched, <2>latch, <2>1, <1>types DEF LeaveLatched, PromotionTypeOK
    <2>2. StepInv(p)'
        BY <1>LeaveLatched, <2>latch, <1>types, Shapes, OneHolder
        DEF LeaveLatched, SafeInv, StepInv, RecordInv, DirectoryInv, Clean, Attested,
            PromotionTypeOK, Package, diskVars, AtRest
    <2>3. ASSUME NEW q \in Process \ {p} PROVE StepInv(q)'
        BY <1>LeaveLatched, <2>latch, <2>1, <2>3, <1>types, OneHolder
        DEF LeaveLatched, SafeInv, StepInv, Clean, Attested, PromotionTypeOK, Package,
            diskVars, AtRest
    <2>4. RecordInv'
        BY <1>LeaveLatched, <2>latch, <1>types, OneHolder
        DEF LeaveLatched, SafeInv, StepInv, RecordInv, Tested, PromotionTypeOK, Package,
            diskVars, AtRest
    <2>5. RowInv'
        BY <1>LeaveLatched, <2>latch, <1>types, OneHolder
        DEF LeaveLatched, SafeInv, StepInv, RecordInv, RowInv, Attested,
            PromotionTypeOK, Package, diskVars, AtRest
    <2>6. DirectoryInv'
        BY <1>LeaveLatched, <2>latch, <1>types, OneHolder, <2>0
        DEF LeaveLatched, SafeInv, StepInv, RecordInv, DirectoryInv, Clean, Attested,
            PromotionTypeOK, Package, diskVars, AtRest
    <2>7. PublishedInv'
        BY <1>LeaveLatched, <2>latch, <1>types, Shapes
        DEF LeaveLatched, SafeInv, StepInv, PublishedInv, IsPackage, Attested, Clean,
            PromotionTypeOK, Package, diskVars, AtRest
    <2> QED
        BY <2>2, <2>3, <2>4, <2>5, <2>6, <2>7, <1>types DEF SafeInv
<1>ClearLatch. ASSUME NEW p \in Process, ClearLatch(p) PROVE SafeInv'
    <2>1. ASSUME NEW q \in Process \ {p} PROVE op'[q] = op[q]
        BY <1>ClearLatch, <2>1, <1>types DEF ClearLatch, PromotionTypeOK
    <2>2. StepInv(p)'
        BY <1>ClearLatch, <1>types, Shapes, OneHolder
        DEF ClearLatch, SafeInv, StepInv, RecordInv, DirectoryInv, Clean, Attested,
            PromotionTypeOK, Package, diskVars, AtRest, Pending
    <2>3. ASSUME NEW q \in Process \ {p} PROVE StepInv(q)'
        BY <1>ClearLatch, <2>1, <2>3, <1>types, OneHolder
        DEF ClearLatch, SafeInv, StepInv, Clean, Attested, PromotionTypeOK, Package,
            diskVars, AtRest, Pending
    <2>4. RecordInv'
        BY <1>ClearLatch, <1>types, OneHolder
        DEF ClearLatch, SafeInv, StepInv, RecordInv, Tested, PromotionTypeOK, Package,
            diskVars, AtRest, Pending
    <2>5. RowInv'
        BY <1>ClearLatch, <1>types, OneHolder
        DEF ClearLatch, SafeInv, StepInv, RecordInv, RowInv, Attested, PromotionTypeOK,
            Package, diskVars, AtRest, Pending
    <2>6. DirectoryInv'
        BY <1>ClearLatch, <1>types, OneHolder
        DEF ClearLatch, SafeInv, StepInv, RecordInv, DirectoryInv, Clean, Attested,
            PromotionTypeOK, Package, diskVars, AtRest, Pending
    <2>7. PublishedInv'
        BY <1>ClearLatch, <1>types, Shapes
        DEF ClearLatch, SafeInv, StepInv, PublishedInv, IsPackage, Attested, Clean,
            PromotionTypeOK, Package, diskVars, AtRest, Pending
    <2> QED
        BY <2>2, <2>3, <2>4, <2>5, <2>6, <2>7, <1>types DEF SafeInv
<1>FixSample. ASSUME NEW s \in Sample, FixSample(s) PROVE SafeInv'
    <2>1. \A p \in Process : StepInv(p)'
        BY <1>FixSample, <1>types, OneHolder, PromotionAssumption
        DEF FixSample, SafeInv, StepInv, Clean, Attested, PromotionTypeOK, Package,
            diskVars, Writable
    <2>2. DirectoryInv'
        BY <1>FixSample, <1>types, PromotionAssumption
        DEF FixSample, SafeInv, DirectoryInv, RowInv, Clean, Attested, PromotionTypeOK,
            Package, diskVars, Writable
    <2>3. RecordInv' /\ RowInv' /\ PublishedInv'
        BY <1>FixSample, <1>types
        DEF FixSample, SafeInv, RecordInv, RowInv, PublishedInv, IsPackage, Attested,
            Tested, PromotionTypeOK, Package, diskVars, Writable
    <2> QED
        BY <2>1, <2>2, <2>3, <1>types DEF SafeInv
<1>Acknowledge. ASSUME NEW s \in Sample, Acknowledge(s) PROVE SafeInv'
    <2>1. \A p \in Process : StepInv(p)'
        BY <1>Acknowledge, <1>types, OneHolder, PromotionAssumption
        DEF Acknowledge, SafeInv, StepInv, Clean, Attested, PromotionTypeOK, Package,
            diskVars, Writable
    <2>2. DirectoryInv'
        BY <1>Acknowledge, <1>types, PromotionAssumption
        DEF Acknowledge, SafeInv, DirectoryInv, RowInv, Clean, Attested,
            PromotionTypeOK, Package, diskVars, Writable
    <2>3. RecordInv' /\ RowInv' /\ PublishedInv'
        BY <1>Acknowledge, <1>types
        DEF Acknowledge, SafeInv, RecordInv, RowInv, PublishedInv, IsPackage, Attested,
            Tested, PromotionTypeOK, Package, diskVars, Writable
    <2> QED
        BY <2>1, <2>2, <2>3, <1>types DEF SafeInv
<1>EndAcknowledge. ASSUME EndAcknowledge PROVE SafeInv'
    <2>1. \A p \in Process : StepInv(p)'
        BY <1>EndAcknowledge, <1>types, OneHolder, PromotionAssumption
        DEF EndAcknowledge, AcknowledgeOnce, SafeInv, StepInv, Clean, Attested,
            PromotionTypeOK, Package, diskVars
    <2>2. DirectoryInv'
        BY <1>EndAcknowledge, <1>types, PromotionAssumption
        DEF EndAcknowledge, AcknowledgeOnce, SafeInv, DirectoryInv, RowInv, Clean,
            Attested, PromotionTypeOK, Package, diskVars
    <2>3. RecordInv' /\ RowInv' /\ PublishedInv'
        BY <1>EndAcknowledge, <1>types
        DEF EndAcknowledge, AcknowledgeOnce, SafeInv, RecordInv, RowInv, PublishedInv,
            IsPackage, Attested, Tested, PromotionTypeOK, Package, diskVars
    <2> QED
        BY <2>1, <2>2, <2>3, <1>types DEF SafeInv
<1>Edit. ASSUME Edit PROVE SafeInv'
    <2>1. \A p \in Process : StepInv(p)'
        BY <1>Edit, <1>types, OneHolder, PromotionAssumption
        DEF Edit, SafeInv, StepInv, Clean, Attested, PromotionTypeOK, Package, diskVars,
            Code
    <2>2. DirectoryInv'
        BY <1>Edit, <1>types, PromotionAssumption
        DEF Edit, SafeInv, DirectoryInv, RowInv, Clean, Attested, PromotionTypeOK,
            Package, diskVars, Code
    <2>3. RecordInv' /\ RowInv' /\ PublishedInv'
        BY <1>Edit, <1>types
        DEF Edit, SafeInv, RecordInv, RowInv, PublishedInv, IsPackage, Attested, Tested,
            PromotionTypeOK, Package, diskVars, Code
    <2> QED
        BY <2>1, <2>2, <2>3, <1>types DEF SafeInv
<1>Evaluate. ASSUME Evaluate PROVE SafeInv'
    <2>1. \A p \in Process : StepInv(p)'
        BY <1>Evaluate, <1>types, OneHolder, PromotionAssumption
        DEF Evaluate, SafeInv, StepInv, Clean, Attested, PromotionTypeOK, Package,
            diskVars
    <2>2. DirectoryInv'
        BY <1>Evaluate, <1>types, PromotionAssumption
        DEF Evaluate, SafeInv, DirectoryInv, RowInv, Clean, Attested, PromotionTypeOK,
            Package, diskVars
    <2>3. RecordInv' /\ RowInv' /\ PublishedInv'
        BY <1>Evaluate, <1>types
        DEF Evaluate, SafeInv, RecordInv, RowInv, PublishedInv, IsPackage, Attested,
            Tested, PromotionTypeOK, Package, diskVars
    <2> QED
        BY <2>1, <2>2, <2>3, <1>types DEF SafeInv
<1>Revoke. ASSUME Revoke PROVE SafeInv'
    <2>1. \A p \in Process : StepInv(p)'
        BY <1>Revoke, <1>types, OneHolder, PromotionAssumption
        DEF Revoke, SafeInv, StepInv, Clean, Attested, PromotionTypeOK, Package,
            diskVars
    <2>2. DirectoryInv'
        BY <1>Revoke, <1>types, PromotionAssumption
        DEF Revoke, SafeInv, DirectoryInv, RowInv, Clean, Attested, PromotionTypeOK,
            Package, diskVars
    <2>3. RecordInv' /\ RowInv' /\ PublishedInv'
        BY <1>Revoke, <1>types
        DEF Revoke, SafeInv, RecordInv, RowInv, PublishedInv, IsPackage, Attested,
            Tested, PromotionTypeOK, Package, diskVars
    <2> QED
        BY <2>1, <2>2, <2>3, <1>types DEF SafeInv
<1>stutter. CASE UNCHANGED promotionVars
    BY <1>stutter, <1>types
    DEF promotionVars, diskVars, SafeInv, StepInv, RecordInv, RowInv, DirectoryInv,
        PublishedInv, Clean, Attested, Tested
<1> QED
    BY <1>ScanForStart, <1>Assemble, <1>Kill, <1>CheckGates, <1>ReadTexts,
       <1>TakeLatch, <1>Recheck, <1>WriteYaml, <1>AppendChangelog, <1>ScanShadow,
       <1>MeetRejection, <1>CommitPromotion, <1>Adopt, <1>Fail, <1>RestoreYaml,
       <1>RestoreChangelog, <1>Republish, <1>LeaveLatched, <1>ClearLatch,
       <1>FixSample, <1>Acknowledge,
       <1>EndAcknowledge, <1>Edit, <1>Evaluate, <1>Revoke, <1>stutter
    DEF PromotionNext

\* So it holds in every state; the safety theorems are its consequences.
LEMMA Safe == PromotionSpec => []SafeInv
    BY InitSafeInv, NextSafeInv, PTL DEF PromotionSpec

\* Published and projected levels have their record, of tested bytes.
THEOREM ProvenCorrect == PromotionSpec => []L1IsProven
<1>1. SafeInv => L1IsProven
    BY DEF SafeInv, RecordInv, RowInv, PublishedInv, L1IsProven
<1> QED
    BY <1>1, Safe, PTL

\* A half-done promotion has the latch.
THEOREM LatchCorrect == PromotionSpec => []UnprovenIsLatched
<1>1. SafeInv => UnprovenIsLatched
    BY
    DEF SafeInv, TypeInv, PromotionTypeOK, Package, DirectoryInv, Clean,
        UnprovenIsLatched
<1> QED
    BY <1>1, Safe, PTL

\* Any number of processes promote a version once.
THEOREM OnceCorrect == PromotionSpec => []PromotedOnce
<1>1. ASSUME SafeInv PROVE Cardinality(promotions) <= 1
    <2>1. CASE promotions = {}
        BY <2>1, FS_EmptySet
    <2>2. CASE promotions # {}
        <3>1. PICK record \in promotions : promotions = {record}
            BY <1>1, <2>2 DEF SafeInv, RecordInv
        <3>2. Cardinality(promotions) = 1
            BY <3>1, FS_Singleton, Zenon
        <3> QED
            BY <3>2
    <2> QED
        BY <2>1, <2>2
<1>2. SafeInv => PromotedOnce
    BY <1>1 DEF PromotedOnce
<1> QED
    BY <1>2, Safe, PTL

\* No promotion is recorded for a session that has ended.
THEOREM SignerCorrect == PromotionSpec => SignedByTheLiving
<1>1. ASSUME [PromotionNext]_promotionVars, promotions' # promotions,
             NEW record \in promotions' \ promotions
      PROVE  record.by \in Cli \/ session
    <2>1. PICK p \in Process : CommitPromotion(p)
        BY <1>1
        DEF PromotionNext, promotionVars, diskVars, ScanForStart, Assemble, Kill,
            CheckGates, ReadTexts, TakeLatch, Recheck, Refuse, WriteYaml,
            AppendChangelog, ScanShadow, MeetRejection, Adopt, ClearLatch, Fail,
            RestoreYaml, RestoreChangelog, Republish, LeaveLatched, FixSample,
            Acknowledge, EndAcknowledge, Edit, Evaluate, Revoke
    <2> QED
        BY <1>1, <2>1 DEF CommitPromotion, SignerHolds
<1>2. [PromotionNext]_promotionVars =>
         [promotions' # promotions => \A record \in promotions' \ promotions :
                                          record.by \in Cli \/ session]_promotionVars
    BY <1>1
<1> QED
    BY <1>2, PTL DEF PromotionSpec, SignedByTheLiving

\* The case file is linked before the acknowledgement is committed.
AcknowledgementInv ==
    /\ \A s \in acked : pkg.cases[s] = "acked"
    /\ writer # NoOne => pkg.cases[writer] = "acked"

\* An acknowledgement in the database has the case that names it: the case file
\* is linked before the commit.
THEOREM AcknowledgedCorrect == PromotionSpec => []AcknowledgedHasCase
<1>1. PromotionInit => AcknowledgementInv
    BY DEF PromotionInit, AcknowledgementInv
<1>2. AcknowledgementInv /\ PromotionTypeOK /\ [PromotionNext]_promotionVars =>
   AcknowledgementInv'
    <2> SUFFICES ASSUME AcknowledgementInv, PromotionTypeOK,
       [PromotionNext]_promotionVars
                 PROVE  AcknowledgementInv'
        OBVIOUS
    <2>1. ASSUME NEW s \in Sample, FixSample(s) \/ Acknowledge(s)
          PROVE  AcknowledgementInv'
        BY <2>1, PromotionAssumption
        DEF AcknowledgementInv, PromotionTypeOK, Package, Cases, FixSample, Acknowledge,
            Writable
    <2>2. CASE EndAcknowledge
        BY <2>2 DEF EndAcknowledge, AcknowledgeOnce, diskVars, AcknowledgementInv
    <2>3. CASE \E p \in Process : Kill(p)
        BY <2>3 DEF Kill, diskVars, AcknowledgementInv
    <2>4. CASE \E p \in Process : \/ WriteYaml(p) \/ AppendChangelog(p)
                                  \/ RestoreYaml(p) \/ RestoreChangelog(p)
        BY <2>4
        DEF WriteYaml, AppendChangelog, RestoreYaml, RestoreChangelog, PromotionTypeOK,
            Package, AcknowledgementInv
    <2>5. CASE Edit
        BY <2>5 DEF Edit, PromotionTypeOK, Package, AcknowledgementInv
    <2>6. CASE UNCHANGED << pkg, acked, writer >>
        BY <2>6 DEF AcknowledgementInv
    <2> QED
        BY <2>1, <2>2, <2>3, <2>4, <2>5, <2>6
        DEF PromotionNext, promotionVars, diskVars, ScanForStart, Assemble, CheckGates,
            ReadTexts, TakeLatch, Recheck, Refuse, ScanShadow, MeetRejection,
            CommitPromotion, Adopt, ClearLatch, Fail, Republish, LeaveLatched, Evaluate,
            Revoke
<1>3. AcknowledgementInv => AcknowledgedHasCase
    BY DEF AcknowledgementInv, AcknowledgedHasCase
<1> QED
    BY <1>1, <1>2, <1>3, PromotionTypeCorrect, PTL DEF PromotionSpec

\* The next start publishes what was promoted.
THEOREM AttestedCorrect == PromotionSpec => []PromotedStaysAttested
<1>1. SafeInv => PromotedStaysAttested
    BY DEF SafeInv, DirectoryInv, PromotedStaysAttested
<1> QED
    BY <1>1, Safe, PTL

===============================================================================
