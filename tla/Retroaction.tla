---------------------------- MODULE Retroaction -----------------------------
(***************************************************************************)
(* The retroactive loop: the outcome of a View moves the attention that    *)
(* produced it, opens a challenge, and is recorded in the ledger of        *)
(* rejected Views and in the plastic memory graph.                         *)
(***************************************************************************)
EXTENDS AttentionField, RejectedViews, Plasticity

VARIABLE signals    \* what the last outcome reported: the signals and plans

retroactionVars == <<focuses, dominantFocusId, traces, evidence, links, signals>>

isPositiveVerdict(verdict) == verdict \in {"supported", "partially_supported"}
isRejectingVerdict(verdict) ==
    verdict \in {"contradicted", "context_mismatch", "scope_mismatch",
                 "truth_conflict", "superseded", "redundant"}
Undecided(verdict) == verdict \in {"missing_evidence", "unresolved"}

feedbackMagnitude(verdict, confidence) ==
    Scale(CASE verdict = "supported" -> 900
            [] verdict = "partially_supported" -> 550
            [] Undecided(verdict) -> 300
            [] OTHER -> 780, confidence)

buildAttentionFeedback(view, outcome) ==
    {[focus |-> id, key |-> outcome.key,
      effect |-> IF isPositiveVerdict(outcome.verdict) THEN "reinforce"
                 ELSE IF Undecided(outcome.verdict) THEN "reactivate" ELSE "challenge",
      magnitude |-> feedbackMagnitude(outcome.verdict, outcome.confidence)] :
     id \in view.attentions}

\* Mutant: only a rejected View is challenged, not one left undecided.
buildChallengeRejected(view, outcome, fingerprint) ==
    IF ~isRejectingVerdict(outcome.verdict) THEN <<>>
    ELSE << [id |-> <<"challenge", view.id, outcome.verdict, fingerprint>>,
             type |-> "contradiction", target |-> <<"view", view.id>>, role |-> "challenge",
             contexts |-> {}, truths |-> view.truths, pinned |-> FALSE,
             signals |-> [n \in DOMAIN CandidateWeights |-> 700]] >>

\* The candidate that challenges a View whose outcome was not positive.
buildChallengeAttention(view, outcome, fingerprint) ==
    LET related == {i \in DOMAIN focuses : focuses[i].id \in view.attentions}
        conflict == outcome.verdict = "truth_conflict"
    IN  IF isPositiveVerdict(outcome.verdict) THEN <<>>
        ELSE << [id |-> <<"challenge", view.id, outcome.verdict, fingerprint>>,
                 type |-> IF conflict THEN "truth_anchor" ELSE "contradiction",
                 target |-> <<"view", view.id>>, role |-> "challenge",
                 contexts |-> UNION {focuses[i].contexts : i \in related},
                 truths |-> view.truths \cup UNION {focuses[i].truths : i \in related},
                 pinned |-> FALSE,
                 signals |-> [goalDependency |-> 550,
                     constraintImportance |->
                         IF conflict \/ outcome.verdict = "scope_mismatch" THEN 900 ELSE 650,
                     uncertainty |-> 850,
                     novelty |-> IF outcome.discriminators # {} THEN 780 ELSE 500,
                     risk |-> IF conflict THEN 950 ELSE 700,
                     expectedInformationGain |-> 880, predictiveValue |-> 620,
                     persistence |-> 450, urgency |-> 800]] >>

\* Every capsule of the outcome has this one observation.
capsulePlan(outcome) ==
    refinementAction({[key |-> outcome.key, verdict |-> outcome.verdict,
                       discriminators |-> outcome.discriminators,
                       confidence |-> outcome.confidence]})

\* fingerprint is that of the outcome; the context revision has moved by delta.
applyRetroactiveLearning(view, outcome, fingerprint, activeContexts, delta) ==
    /\ advanceMemoryAttentionField(activeContexts, delta,
           buildChallengeAttention(view, outcome, fingerprint),
           buildAttentionFeedback(view, outcome))
    /\ IF isPositiveVerdict(outcome.verdict) THEN UNCHANGED traces
       ELSE recordRejectedView(view, outcome.verdict, fingerprint, outcome.revisit)
    /\ updatePlasticMemoryGraph(outcome.linkObservations)
    /\ signals' = [view |-> view.id, invalidated |-> isRejectingVerdict(outcome.verdict),
                   reconsidered |-> outcome.verdict = "partially_supported"
                                    \/ Undecided(outcome.verdict),
                   plan |-> capsulePlan(outcome)]

-----------------------------------------------------------------------------
(* Properties                                                              *)

\* A View that is rejected or left undecided is challenged: the step that
\* records it leaves a focus that challenges the View and is not released.
RejectionLeavesChallenge ==
    [][\A t \in traces' \ traces : \E i \in DOMAIN focuses' :
          /\ focuses'[i].role = "challenge" /\ focuses'[i].status # "released"
          /\ focuses'[i].target = <<"view", signals'.view>>]_retroactionVars
=============================================================================
