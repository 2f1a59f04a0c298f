---------------------------- MODULE AttentionCycle ----------------------------
(***************************************************************************)
(* The attention-driven memory cycle: the attention field is created or    *)
(* advanced, the ledger of rejected Views is asked about every proposal,   *)
(* and the proposals it allows are triaged and measured for equilibrium.   *)
(*                                                                         *)
(* A cycle is a record of the inputs of one call: the context fingerprint, *)
(* the active contexts, how far the context revision has moved, the        *)
(* candidates, the proposals, the evidence about them, the branches, the   *)
(* task and scope, the satisfied revisit conditions, and the observation   *)
(* of the search.                                                          *)
(***************************************************************************)
EXTENDS Retroaction, Equilibrium

AttentionCycleInit == AttentionInit /\ TriageInit /\ EquilibriumInit

Started == equilibrium.revision > 0

AllowedProposals(cycle) ==
    AtPlaces(cycle.proposals, {i \in DOMAIN cycle.proposals :
        canRevisitRejectedView(attentionViewSignature(cycle.proposals[i]),
                               cycle.fingerprint, cycle.satisfied)})

runAttentionDrivenMemoryCycle(cycle) ==
    /\ IF Started
       THEN advanceMemoryAttentionField(cycle.active, cycle.delta, cycle.candidates, {})
       ELSE createMemoryAttentionField(cycle.candidates)
    /\ triage' = triageResult(AllowedProposals(cycle),
                              {focuses'[i] : i \in {j \in DOMAIN focuses' :
                                                      focuses'[j].status \in Awake}},
                              cycle.evidence, cycle.branches, cycle.task, cycle.scope)
    /\ equilibrium' = evaluateDynamicEquilibrium(focuses', dominantFocusId', triage',
                                                 cycle.observation, equilibrium.revision)
=============================================================================
