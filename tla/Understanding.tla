--------------------------- MODULE Understanding ----------------------------
(***************************************************************************)
(* The global understanding: one dominant model, alternatives, and the     *)
(* edges of the semantic backbone.  A batch of observations revises the    *)
(* dominant model and the edges, and the revision gate then maintains or   *)
(* challenges the model, promotes an alternative or replaces it.           *)
(*                                                                         *)
(* What a model or an edge is about is a set of targets; of two models     *)
(* equally fit either may be taken, where the code takes the older one.    *)
(***************************************************************************)
EXTENDS Evidence

CONSTANTS
    InitialModels,      \* the models given to createGlobalUnderstandingState, by id
    InitialDominant,    \* the id of the dominant one
    InitialBackbone,    \* the edges of the semantic backbone, by id
    NoModel             \* no model: undefined or null

ASSUME ModelConstants ==
    /\ InitialDominant \in DOMAIN InitialModels /\ NoModel \notin DOMAIN InitialModels
    /\ \A m \in DOMAIN InitialModels : "status" \in DOMAIN InitialModels[m]

VARIABLES
    models,                 \* state.models, by id
    dominantModelId,        \* state.dominantModelId
    alternativeModelIds,    \* state.alternativeModelIds
    semanticBackbone,       \* state.semanticBackbone, by id
    globalRevisionCount     \* state.globalRevisionCount

understandingVars ==
    <<models, dominantModelId, alternativeModelIds, semanticBackbone, globalRevisionCount>>

UNDERSTANDING_POLICY ==
    [minimumCoherence |-> 550, globalRevisionPressureThreshold |-> 680,
     localRevisionPressureThreshold |-> 340,
     minimumIndependentChallengesForGlobalRevision |-> 2,
     alternativePromotionMargin |-> 120, contextDriftWeight |-> 280,
     truthChangeWeight |-> 350, stabilityInertia |-> 720]

\* createGlobalUnderstandingState.
UnderstandingInit ==
    /\ models = [m \in DOMAIN InitialModels |->
                    [InitialModels[m] EXCEPT
                        !.status = IF m = InitialDominant THEN "dominant" ELSE "alternative"]]
    /\ dominantModelId = InitialDominant
    /\ alternativeModelIds = DOMAIN InitialModels \ {InitialDominant}
    /\ semanticBackbone = InitialBackbone
    /\ globalRevisionCount = 0

-----------------------------------------------------------------------------
(* Revising the dominant model                                             *)

WithEffect(observations, effects) == {o \in observations : o.effect \in effects}
Supporting(observations) == WithEffect(observations, {"supports", "expands"})
Challenging(observations) == WithEffect(observations, {"challenges", "narrows", "supersedes"})

modelFitness(model) ==
    Clamp((model.coherence * 32 + model.coverage * 22 + model.stability * 18
           + model.plasticity * 8 + (1000 - model.uncertainty) * 12
           + (1000 - model.contradiction) * 8) \div 100)

contextDrift(model, observations) ==
    LET shifts == {o \in observations : o.kind = "context_shift"}
    IN  IF shifts = {} THEN 0
        ELSE Clamp(Pressure(WithEffect(shifts, {"challenges", "supersedes"}))
                   + IF \E o \in shifts : o.fingerprint = model.fingerprint THEN 0 ELSE 250)

observationsForModel(m, observations) ==
    {o \in observations :
        o.targets = {} \/ o.targets \cap ({m} \cup models[m].targets) # {}}

reviseClaim(id, claim, relevant) ==
    LET about == {o \in relevant : id \in o.targets}
        challenge == Pressure(Challenging(about))
    IN  IF about = {} THEN claim
        ELSE [claim EXCEPT
                !.status = IF challenge >= 700 THEN "disputed"
                           ELSE IF WithEffect(about, {"supersedes"}) # {} THEN "retired" ELSE @,
                !.confidence = Clamp(@ + Scale(Pressure(Supporting(about)), 180)
                                       - Scale(challenge, 340)),
                !.challengeKeys = @ \cup Keys(Challenging(about))]

reviseModel(m, observations) ==
    LET model == models[m]
        relevant == observationsForModel(m, observations)
        support == Pressure(Supporting(relevant))
        challenge == Pressure(Challenging(relevant))
        drift == contextDrift(model, relevant)
        truth == Pressure({o \in Challenging(relevant) : o.kind = "truth_change"})
        sameContext == {o \in relevant : o.fingerprint = model.fingerprint}
        pressure == Clamp(Scale(challenge, 480)
                          + Scale(drift, UNDERSTANDING_POLICY.contextDriftWeight)
                          + Scale(truth, UNDERSTANDING_POLICY.truthChangeWeight))
        coherence == Clamp((model.coherence * 72 + support * 28 - challenge * 24 - drift * 12)
                           \div 100)
        inertia == UNDERSTANDING_POLICY.stabilityInertia
    IN  [model EXCEPT
            !.claims = [c \in DOMAIN model.claims |-> reviseClaim(c, model.claims[c], relevant)],
            !.coherence = coherence,
            !.stability = Clamp(Scale(model.stability, inertia) + Scale(coherence, 1000 - inertia)
                                - Scale(pressure, 220)),
            !.plasticity = Clamp((model.plasticity * 68 + pressure * 32 + support * 8) \div 100),
            !.uncertainty =
                Clamp((model.uncertainty * 76 + challenge * 32 - support * 20) \div 100),
            !.coverage = Clamp(Scale(model.coverage, 700) + 60 * Cardinality(sameContext)
                               + Scale(support, 120) - Scale(drift, 250)),
            !.contradiction =
                Clamp((model.contradiction * 55 + challenge * 65 - support * 20) \div 100),
            !.pressure = pressure,
            !.supportKeys = model.supportKeys \cup Keys(Supporting(relevant)),
            !.challengeKeys = model.challengeKeys \cup Keys(Challenging(relevant))]

updateBackbone(observations) ==
    [e \in DOMAIN semanticBackbone |->
        LET about == {o \in observations : e \in o.targets}
            support == Pressure(Supporting(about))
            challenge == Pressure(Challenging(about))
        IN  IF about = {} THEN semanticBackbone[e]
            ELSE [semanticBackbone[e] EXCEPT
                    !.confidence = Clamp(@ + Scale(support, 160) - Scale(challenge, 320)),
                    !.status = FirstOf(<<
                        <<WithEffect(about, {"supersedes"}) # {}, "superseded">>,
                        <<challenge >= 650, "disputed">>,
                        <<support >= 750, "verified">>,
                        <<support > 0, "supported">>,
                        <<TRUE, @>> >>),
                    !.supportKeys = @ \cup Keys(Supporting(about)),
                    !.challengeKeys = @ \cup Keys(Challenging(about))]]

-----------------------------------------------------------------------------
(* The revision gate and applyUnderstandingObservations                    *)

\* The fittest alternative, when it beats the revised dominant model by the
\* margin.
chooseAlternative(revised) ==
    LET rivals == alternativeModelIds \cap (DOMAIN models \ {dominantModelId})
        best == {m \in rivals : \A n \in rivals : modelFitness(models[n]) <= modelFitness(models[m])}
    IN  {m \in best : modelFitness(models[m])
                        >= modelFitness(revised) + UNDERSTANDING_POLICY.alternativePromotionMargin}

\* The action of the gate.
revisionAction(revised, observations) ==
    LET policy == UNDERSTANDING_POLICY
        challenges == Challenging(observationsForModel(dominantModelId, observations))
    IN  FirstOf(<<
        <<chooseAlternative(revised) # {}, "promote_alternative">>,
        <<revised.pressure >= policy.globalRevisionPressureThreshold
            /\ Cardinality(Keys(challenges))
                 >= policy.minimumIndependentChallengesForGlobalRevision, "global_revision">>,
        <<revised.pressure >= policy.localRevisionPressureThreshold
            /\ revised.coherence < policy.minimumCoherence, "challenge_dominant">>,
        <<revised.pressure >= policy.localRevisionPressureThreshold, "local_revision">>,
        <<TRUE, "maintain">> >>)

Challenged(model) == [model EXCEPT !.status = "challenged"]

Promote(revised, best) ==
    /\ models' = [models EXCEPT ![dominantModelId] = [revised EXCEPT !.status = "alternative"],
                                ![best].status = "dominant"]
    /\ dominantModelId' = best
    /\ alternativeModelIds' = (alternativeModelIds \ {best}) \cup {dominantModelId}
    /\ globalRevisionCount' = globalRevisionCount + 1

\* Mutant: the model that is replaced is not kept as an alternative.
ReplaceForgetting(revised, id, replacement) ==
    /\ models' = [m \in DOMAIN models \cup {id} |->
                    IF m = id THEN [replacement EXCEPT !.status = "dominant"]
                    ELSE IF m = dominantModelId THEN Challenged(revised) ELSE models[m]]
    /\ dominantModelId' = id
    /\ alternativeModelIds' = alternativeModelIds \ {id}
    /\ globalRevisionCount' = globalRevisionCount + 1

Replace(revised, id, replacement) ==
    /\ models' = [m \in DOMAIN models \cup {id} |->
                    IF m = id
                    THEN [replacement EXCEPT
                            !.status = "dominant", !.derivedFrom = @ \cup {dominantModelId}]
                    ELSE IF m = dominantModelId THEN Challenged(revised) ELSE models[m]]
    /\ dominantModelId' = id
    /\ alternativeModelIds' = (alternativeModelIds \ {id}) \cup {dominantModelId}
    /\ globalRevisionCount' = globalRevisionCount + 1

\* replacementId is the id of input.replacementModel, or NoModel.
applyUnderstandingObservations(observations, replacementId, replacement) ==
    \E revised \in {reviseModel(dominantModelId, observations)} :
    \E action \in {revisionAction(revised, observations)} :
        /\ semanticBackbone' = updateBackbone(observations)
        /\ \/ /\ action = "promote_alternative"
              /\ \E best \in chooseAlternative(revised) : Promote(revised, best)
           \/ /\ action = "global_revision" /\ replacementId # NoModel
              /\ Replace(revised, replacementId, replacement)
           \/ /\ \/ action \in {"maintain", "local_revision", "challenge_dominant"}
                 \/ action = "global_revision" /\ replacementId = NoModel
              /\ models' = [models EXCEPT ![dominantModelId] =
                              IF action \in {"maintain", "local_revision"}
                              THEN revised ELSE Challenged(revised)]
              /\ UNCHANGED <<dominantModelId, alternativeModelIds, globalRevisionCount>>

-----------------------------------------------------------------------------
(* Properties                                                              *)

\* No understanding is lost: every model that is not the dominant one is
\* listed as an alternative, the dominant one exists, and no other model has
\* the status of the dominant one.
OneDominantModel ==
    /\ dominantModelId \in DOMAIN models
    /\ DOMAIN models = {dominantModelId} \cup alternativeModelIds
    /\ \A m \in DOMAIN models : models[m].status = "dominant" => m = dominantModelId
=============================================================================
