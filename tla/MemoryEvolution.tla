---------------------------- MODULE MemoryEvolution ----------------------------
(***************************************************************************)
(* The adaptive memory evolution cycle: the outcome of a View goes through *)
(* the retroactive loop, mirror learning and, for the habit involved,      *)
(* unlearning; what each of them says is evidence for the global           *)
(* understanding, and together they guide the next cycle.                  *)
(***************************************************************************)
EXTENDS AttentionCycle, Reflection, Unlearning, Understanding

VARIABLE guidance       \* nextCycleGuidance of the last evolution

\* Before the first outcome.
GuidanceInit ==
    guidance = [requiredRoles |-> {}, minimumAlternativeViews |-> 1,
                contradictionBudget |-> 120, maximumVisited |-> 0, maximumInjected |-> 0,
                blockedHabits |-> {}, viewPlans |-> {}, relearning |-> {},
                globalRevision |-> "maintain", mirrorLearningAccepted |-> FALSE]

\* A completion is a record of the outcome, the trajectory, the habit or
\* NoHabit with its observations and replacement, the observations of the
\* caller, the replacement model with its id, and the active contexts.
Decision(completion) ==
    buildDecision(completion.habit, completion.habitObservations, completion.replacementHabit)

outcomeObservation(view, outcome, fingerprint) ==
    [kind |-> "view_outcome",
     effect |-> IF isPositiveVerdict(outcome.verdict) THEN "supports" ELSE "challenges",
     targets |-> {dominantModelId, view.id} \cup outcome.capsules,
     weight |-> outcome.confidence, key |-> outcome.key, fingerprint |-> fingerprint]

reflectiveObservation(t) ==
    [kind |-> "reflective_signal",
     effect |-> IF mirrorLearningAllowed(t) THEN "supports" ELSE "challenges",
     targets |-> {dominantModelId}, weight |-> IF mirrorLearningAllowed(t) THEN 420 ELSE 280,
     key |-> <<"reflection", t.key>>, fingerprint |-> t.fingerprint]

unlearningObservation(decision, t) ==
    IF decision.action = "retain" THEN {}
    ELSE {[kind |-> "unlearning_signal",
           effect |-> IF decision.action = "narrow" THEN "narrows" ELSE "challenges",
           targets |-> {dominantModelId, decision.habit}, weight |-> decision.confidence,
           key |-> <<"unlearning", decision.number>>, fingerprint |-> t.fingerprint]}

\* What the global understanding is given.
ObservationsOf(view, completion) ==
    {outcomeObservation(view, completion.outcome, completion.trajectory.fingerprint),
     reflectiveObservation(completion.trajectory)}
    \cup (IF completion.habit = NoHabit THEN {}
          ELSE unlearningObservation(Decision(completion), completion.trajectory))
    \cup completion.observations

buildGuidance(completion, observations) ==
    LET f == completion.trajectory.fingerprint
        learned == mirrorLearningAllowed(completion.trajectory)
        evaluated == completion.habit # NoHabit
        decision == Decision(completion)
        policy == IF learned THEN cognitivePolicies'[f]
                  ELSE [roleWeights |-> <<>>, minimumAlternativeViews |-> 1,
                        contradictionBudget |-> 120, maximumVisited |-> 0, maximumInjected |-> 0]
        plans == IF evaluated THEN buildCounterfactualViewPlans(decision) ELSE {}
    IN  [requiredRoles |->
             {r \in DOMAIN policy.roleWeights : policy.roleWeights[r] >= 80}
             \cup UNION {p.roles : p \in plans}
             \cup (IF evaluated /\ decision.action # "retain"
                   THEN {"dehabituation"} ELSE {}),
         minimumAlternativeViews |-> policy.minimumAlternativeViews,
         contradictionBudget |-> policy.contradictionBudget,
         maximumVisited |-> policy.maximumVisited,
         maximumInjected |-> policy.maximumInjected,
         blockedHabits |-> IF evaluated /\ decision.action
                                              \in Suspending \cup {"supersede"}
                           THEN {completion.habit} ELSE {},
         viewPlans |-> plans,
         relearning |-> IF evaluated THEN buildRelearningPlan(decision) ELSE {},
         globalRevision |->
             revisionAction(reviseModel(dominantModelId, observations), observations),
         mirrorLearningAccepted |-> learned]

completeAdaptiveMemoryEvolution(view, completion) ==
    /\ applyRetroactiveLearning(view, completion.outcome, completion.trajectory.fingerprint,
                                completion.active, completion.delta)
    /\ applyReflectiveLearning(completion.trajectory)
    /\ IF completion.habit = NoHabit THEN UNCHANGED unlearningVars
       ELSE evaluateHabitForUnlearning(completion.habit, completion.habitObservations,
                                       completion.replacementHabit)
    /\ \E observations \in {ObservationsOf(view, completion)} :
        /\ applyUnderstandingObservations(observations, completion.replacementId,
                                          completion.replacement)
        /\ guidance' = buildGuidance(completion, observations)
=============================================================================
