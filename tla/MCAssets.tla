------------------------------ MODULE MCAssets ------------------------------
(***************************************************************************)
(* The asset pipeline and, beside it, the reuse of its packages, for TLC.   *)
(* They meet in PackageShelf alone: the pipeline implements it and reuse is *)
(* built on it, so that a behaviour explores one of the two.                *)
(***************************************************************************)
EXTENDS SkillPipeline, SkillReuse

VARIABLE side          \* the half that moves

assetVars == << pipelineVars, reuseVars, side >>

\* b1 names the package p, b2 shares words with both
Scores == [b \in Basis |->
              [p \in Package |->
                  IF b = "b1" THEN IF p = "p" THEN 2 ELSE 0 ELSE 1]]

AssetsInit ==
    \/ side = "pipeline" /\ PipelineInit
       /\ shelf = [p \in Package |-> "pending"] /\ spoilt = {} /\ plan = NoPlan
       /\ reuse = << >>
    \/ side = "reuse" /\ ReuseInit /\ PipelineInit
       /\ fact = [t \in Source |-> SoundFact] /\ entry = {}

PipelineMoves == side = "pipeline" /\ PipelineNext /\ UNCHANGED << reuseVars, side >>
ReuseMoves == side = "reuse" /\ ReuseNext /\ UNCHANGED << pipelineVars, side >>

AssetsNext == PipelineMoves \/ ReuseMoves

AssetsSpec == /\ AssetsInit /\ [][AssetsNext]_assetVars
              /\ WF_assetVars(side = "pipeline" /\ Materialize /\ UNCHANGED << reuseVars, side >>)
              /\ WF_assetVars(side = "pipeline" /\ Startup /\ UNCHANGED << reuseVars, side >>)

\* Every variable of both halves keeps its range.
AssetsTypeOK == PipelineTypeOK /\ ReuseTypeOK
=============================================================================
