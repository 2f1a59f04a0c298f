----------------------------- MODULE Reflection -----------------------------
(***************************************************************************)
(* Mirror learning: the engine stores its own trajectories, forms from the *)
(* grounded ones of a context a reflective capsule and a cognitive policy, *)
(* and looks for bias in the recent ones.                                  *)
(*                                                                         *)
(* Trajectories are similar enough to be learned from together exactly     *)
(* when their context fingerprints are the same: the discriminators alone  *)
(* weigh 0.45, less than the 0.55 required.  A capsule and a policy are    *)
(* found by the fingerprint too, and are kept here by it.                  *)
(***************************************************************************)
EXTENDS Evidence

CONSTANTS
    MaxStoredTrajectories,      \* policy.maximumStoredTrajectories
    BiasWindow,                 \* policy.biasWindowSize
    SuccessesForSupport,        \* policy.minimumIndependentSuccessesForSupport
    SuccessesForValidation,     \* policy.minimumIndependentSuccessesForValidation
    NoView                      \* selectedViewId null

ASSUME ReflectionConstants ==
    /\ MaxStoredTrajectories \in Nat \ {0} /\ BiasWindow \in Nat \ {0}
    /\ SuccessesForSupport \in Nat \ {0} /\ SuccessesForValidation \in Nat \ {0}

VARIABLES
    trajectories,           \* state.trajectories
    reflectiveCapsules,     \* state.capsules, by context fingerprint
    cognitivePolicies,      \* state.cognitivePolicies, by context fingerprint
    biasSignals             \* state.biasSignals

reflectionVars == <<trajectories, reflectiveCapsules, cognitivePolicies, biasSignals>>

REFLECTION_POLICY ==
    [minimumExternalGroundingKeys |-> 1, experienceOveruseThreshold |-> 550,
     contradictionNeglectThreshold |-> 80, dominantViewInertiaThreshold |-> 750,
     injectionRatioThreshold |-> 500]

ATTENTION_ROLES ==
    {"goal", "constraint", "uncertainty", "experience", "challenge",
     "transition", "risk", "exploration", "reflection", "dehabituation"}

Positive == {"supported", "partially_supported"}

ReflectionInit ==
    /\ trajectories = <<>>
    /\ reflectiveCapsules = <<>>
    /\ cognitivePolicies = <<>>
    /\ biasSignals = <<>>

\* A trajectory has a weight for every role.
IsTrajectory(t) == "roles" \in DOMAIN t /\ t.roles \in [ATTENTION_ROLES -> Nat]

-----------------------------------------------------------------------------
(* Analysing trajectories                                                  *)

Shares(weights) ==
    LET total == Total(weights)
    IN  IF total = 0 THEN weights
        ELSE [r \in ATTENTION_ROLES |-> (weights[r] * 1000) \div total]

normalizedRoleWeights(t) == Shares(t.roles)

verdictOutcomeFit(verdict) ==
    CASE verdict = "supported" -> 1000
      [] verdict = "partially_supported" -> 680
      [] verdict \in {"missing_evidence", "unresolved"} -> 380
      [] verdict \in {"redundant", "superseded"} -> 280
      [] OTHER -> 0

\* Mutant: a trajectory without external grounding is learned from.
UngroundedAllowed(t) == TRUE

mirrorLearningAllowed(t) ==
    Cardinality(t.grounding) >= REFLECTION_POLICY.minimumExternalGroundingKeys

strategyEfficiency(t) ==
    Scale(720, IF t.visited = 0 THEN 1000 ELSE Clamp(1000 - (1000 * t.injected) \div t.visited))
        + Scale(280, Clamp(1000 - (1000 * t.durationMs) \div 30000))

AveragePattern(ts) ==
    LET shares == [i \in DOMAIN ts |-> normalizedRoleWeights(ts[i])]
    IN  [r \in ATTENTION_ROLES |-> Average([i \in DOMAIN ts |-> shares[i][r]])]

-----------------------------------------------------------------------------
(* The reflective capsule                                                  *)

capsuleStatus(successes, failures) ==
    FirstOf(<<
        <<failures >= successes /\ failures > 0, "disputed">>,
        <<successes >= SuccessesForValidation, "validated">>,
        <<successes >= SuccessesForSupport, "supported">>,
        <<TRUE, "candidate">> >>)

\* The grounded trajectories are told apart by the outcome of the trajectory
\* at the same place among all relevant ones.
OutcomeAt(relevant, i) == verdictOutcomeFit(relevant[i].verdict)

deriveReflectiveCapsule(relevant, target, existing) ==
    LET grounded == AtPlaces(relevant, {i \in DOMAIN relevant : mirrorLearningAllowed(relevant[i])})
        At(I) == [i \in I |-> grounded[i]]
        successful == At({i \in DOMAIN grounded : OutcomeAt(relevant, i) >= 680})
        failed == At({i \in DOMAIN grounded : OutcomeAt(relevant, i) < 380})
        source == IF DOMAIN successful = {} THEN grounded ELSE successful
        successKeys == Keys(Range(successful))
        failureKeys == Keys(Range(failed))
        weights == AveragePattern(source)
        Sum(field(_)) == Total([i \in DOMAIN source |-> field(source[i])])
        size == Cardinality(DOMAIN source)
        Rounded(sum) == (2 * sum + size) \div (2 * size)
        RoundedUp(sum) == (sum + size - 1) \div size
        confidence ==
            Clamp(180 * Cardinality(successKeys)
                  + Scale(280, Average([i \in DOMAIN relevant |-> strategyEfficiency(relevant[i])]))
                  + Scale(240, Average([i \in DOMAIN relevant |-> relevant[i].prediction]))
                  - 120 * Cardinality(failureKeys))
    IN  [successKeys |-> successKeys, failureKeys |-> failureKeys,
         status |-> capsuleStatus(Cardinality(successKeys), Cardinality(failureKeys)),
         roleWeights |-> weights,
         discriminators |-> UNION {t.discriminators : t \in Range(source)},
         minimumAlternativeViews |-> Higher(1, Rounded(Sum(LAMBDA t : t.activeViews))),
         usefulViews |-> {t.selected : t \in Range(successful)} \ {NoView},
         rejectedViews |-> UNION {t.rejected : t \in Range(source)},
         contradictionBudget |->
             Scale(700, weights["challenge"]) + Scale(300, weights["dehabituation"]),
         maximumVisited |-> Higher(1, RoundedUp(Sum(LAMBDA t : t.visited))),
         maximumInjected |-> Higher(1, RoundedUp(Sum(LAMBDA t : t.injected))),
         confidence |-> confidence,
         applicability |->
             Scale(700, IF existing = {} THEN 1000
                        ELSE Similarity(target.discriminators,
                                        (CHOOSE c \in existing : TRUE).discriminators))
                 + Scale(300, confidence)]

-----------------------------------------------------------------------------
(* Self-bias                                                               *)

detectSelfBias(all) ==
    LET window == SubSeq(all, Higher(1, Len(all) - BiasWindow + 1), Len(all))
        size == Len(window)
        within == DOMAIN window
        policy == REFLECTION_POLICY
        average == AveragePattern(window)
        selected == {i \in within : window[i].selected # NoView}
        mostCommon == Max({0} \cup
            {Cardinality({j \in selected : window[j].selected = window[i].selected}) : i \in selected})
        dominance == IF selected = {} THEN 0 ELSE (1000 * mostCommon) \div Cardinality(selected)
        dominated == dominance >= policy.dominantViewInertiaThreshold
        neglected == average["challenge"] < policy.contradictionNeglectThreshold
        conflations == {i \in within : /\ window[i].promoted
                                       /\ window[i].causal \notin {"verified", "supported"}}
        overInjected == {i \in within :
            window[i].visited > 0 /\ 1000 * window[i].injected
                                       >= policy.injectionRatioThreshold * window[i].visited}
        Part(I) == (1000 * Cardinality(I)) \div size
        Signal(kind, severity) == [kind |-> kind, severity |-> Clamp(severity)]
        Found(holds, signal) == IF holds THEN {signal} ELSE {}
    IN  Found(average["experience"] >= policy.experienceOveruseThreshold,
              Signal("experience_overuse", average["experience"]))
        \cup Found(neglected,
              Signal("contradiction_neglect",
                     1000 - (1000 * average["challenge"]) \div policy.contradictionNeglectThreshold))
        \cup Found(dominated /\ \E i \in selected : window[i].verdict \notin Positive,
              Signal("dominant_view_inertia", dominance))
        \cup Found(average["exploration"] < 50 /\ \E i \in within : window[i].verdict = "unresolved",
              Signal("novelty_neglect", 720))
        \cup Found(conflations # {}, Signal("outcome_cause_conflation", Part(conflations)))
        \cup Found(overInjected # {}, Signal("memory_over_injection", Part(overInjected)))
        \cup Found(dominated /\ neglected,
              Signal("confirmation_bias", (dominance + 1000 - average["challenge"]) \div 2))

SeverityOf(signals, kinds) == Total([s \in {t \in signals : t.kind \in kinds} |-> s.severity])

Corrected(weights, signals, gain) ==
    [weights EXCEPT
        !["experience"] = Clamp(@ - Scale(200, SeverityOf(signals, {"experience_overuse"}))),
        !["exploration"] = Clamp(@ + Scale(120, SeverityOf(signals, {"experience_overuse"}))
                                   + Scale(180, SeverityOf(signals, {"novelty_neglect"}))),
        !["challenge"] =
            Clamp(@ + Scale(gain, SeverityOf(signals, {"contradiction_neglect",
                                                       "confirmation_bias"}))),
        !["dehabituation"] = Clamp(@ + Scale(160, SeverityOf(signals, {"dominant_view_inertia"})))]

\* Mutant: neglect adds so little to challenge that, when other signals add to
\* their roles as well, the normalisation takes back more than that.
MovedFaintly(weights, signals) == Corrected(weights, signals, 18)

\* Every signal moves the weights of some roles.
MovedWeights(weights, signals) == Corrected(weights, signals, 180)

\* The moved weights are normalised to shares.
adaptPolicy(capsule, signals) ==
    LET weights == Shares(MovedWeights(capsule.roleWeights, signals))
    IN  [roleWeights |-> weights,
         contradictionBudget |-> Higher(capsule.contradictionBudget, weights["challenge"]),
         minimumAlternativeViews |->
             Higher(capsule.minimumAlternativeViews,
                    IF \E s \in signals : s.kind = "dominant_view_inertia" THEN 2 ELSE 1),
         maximumVisited |-> capsule.maximumVisited,
         maximumInjected |-> capsule.maximumInjected]

-----------------------------------------------------------------------------
(* applyReflectiveLearning                                                 *)

Stored(t) ==
    LET all == Append(trajectories, t)
    IN  SubSeq(all, Higher(1, Len(all) - MaxStoredTrajectories + 1), Len(all))

With(f, key, value) == [k \in DOMAIN f \cup {key} |-> IF k = key THEN value ELSE f[k]]

applyReflectiveLearning(t) ==
    LET f == t.fingerprint
        relevant == AtPlaces(Stored(t), {i \in DOMAIN Stored(t) : Stored(t)[i].fingerprint = f})
        existing == {reflectiveCapsules[g] : g \in DOMAIN reflectiveCapsules \cap {f}}
        capsule == deriveReflectiveCapsule(relevant, t, existing)
    IN  \E signals \in {detectSelfBias(Stored(t))} :
        /\ trajectories' = Stored(t)
        /\ biasSignals' = Append(biasSignals, signals)
        /\ IF mirrorLearningAllowed(t)
           THEN /\ reflectiveCapsules' = With(reflectiveCapsules, f, capsule)
                /\ cognitivePolicies' = With(cognitivePolicies, f, adaptPolicy(capsule, signals))
           ELSE UNCHANGED <<reflectiveCapsules, cognitivePolicies>>

-----------------------------------------------------------------------------
(* Properties                                                              *)

\* Only grounded experience teaches: the outcomes a capsule counts when it
\* changes are outcomes of stored trajectories of its context that have an
\* external grounding key.
CapsulesLearnFromGroundedOutcomes ==
    [][\A f \in DOMAIN reflectiveCapsules' :
          (f \in DOMAIN reflectiveCapsules => reflectiveCapsules[f] # reflectiveCapsules'[f]) =>
              reflectiveCapsules'[f].successKeys \cup reflectiveCapsules'[f].failureKeys \subseteq
                  {t.key : t \in {u \in Range(trajectories') :
                                     u.fingerprint = f /\ u.grounding # {}}}
      ]_reflectionVars

\* The severity from which contradiction counts as neglected plainly: the
\* recent trajectories gave challenge no more than 60 of the 80 wanted.  Neglect
\* then adds at least 45 to the weight of challenge.  All other signals together
\* add at most 460 to the weights, so a smaller gain may be less than what
\* the normalisation takes back: with 2 from neglect and 129 from
\* novelty_neglect a share of 79 becomes 71.
PlainNeglect == 250

\* The mirror corrects plain neglect: when the recent trajectories neglect
\* contradiction with a severity of at least PlainNeglect, and those of the
\* context give challenge less than the 80 wanted too, the policy learned now
\* gives challenge a larger share of attention than it had, whatever else the
\* other signals move and the normalisation takes back.  Of milder neglect
\* nothing is claimed: its correction may lower the share.
NeglectRaisesChallenge ==
    [][\A f \in DOMAIN cognitivePolicies' :
          /\ f \in DOMAIN cognitivePolicies => cognitivePolicies[f] # cognitivePolicies'[f]
          /\ \E s \in biasSignals'[Len(biasSignals')] :
                s.kind = "contradiction_neglect" /\ s.severity >= PlainNeglect
          /\ reflectiveCapsules'[f].roleWeights["challenge"] < 80
          => cognitivePolicies'[f].roleWeights["challenge"]
                > reflectiveCapsules'[f].roleWeights["challenge"]
      ]_reflectionVars
=============================================================================
