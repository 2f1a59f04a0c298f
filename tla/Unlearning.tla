----------------------------- MODULE Unlearning -----------------------------
(***************************************************************************)
(* Adaptive unlearning: a habit is evaluated against observations of its   *)
(* use, and challenged, inhibited, narrowed, quarantined or superseded; a  *)
(* suspended habit comes back when the conditions of a recovery entry are  *)
(* satisfied.                                                              *)
(*                                                                         *)
(* Of a habit's confidence only what decisions read is kept; a decision,   *)
(* an inhibition and a relearning plan are known by the number of the      *)
(* decision.                                                               *)
(***************************************************************************)
EXTENDS Evidence

CONSTANTS
    Habits,             \* ids of the habits
    NoHabit,            \* no habit: undefined or null
    InitialHabits       \* the habits the state is created with, by id

ASSUME HabitConstants ==
    /\ NoHabit \notin Habits
    /\ DOMAIN InitialHabits = Habits
    /\ \A h \in Habits : /\ "status" \in DOMAIN InitialHabits[h]
                         /\ InitialHabits[h].status \notin {"inhibited", "quarantined"}

VARIABLES
    habits,             \* state.habits, by id
    inhibitions,        \* state.inhibitions
    recoveryRegistry,   \* state.recoveryRegistry
    relearningPlans,    \* state.relearningPlans
    decisions           \* state.decisions

unlearningVars == <<habits, inhibitions, recoveryRegistry, relearningPlans, decisions>>

UNLEARNING_POLICY ==
    [minimumIndependentFailuresForInhibition |-> 2,
     minimumIndependentFailuresForQuarantine |-> 4,
     contextDriftThreshold |-> 450, contradictionPressureThreshold |-> 620,
     overactivationThreshold |-> 700, superiorStrategyThreshold |-> 720,
     automaticityReduction |-> 350, applicabilityReduction |-> 400]

Inhibiting == {"contextually_inhibit", "narrow", "weaken"}
Quarantining == {"quarantine", "reopen_unknown"}
Suspending == Inhibiting \cup Quarantining
Suspended == {"inhibited", "quarantined"}

UnlearningInit ==
    /\ habits = InitialHabits
    /\ inhibitions = {}
    /\ recoveryRegistry = {}
    /\ relearningPlans = {}
    /\ decisions = <<>>

-----------------------------------------------------------------------------
(* evaluateHabitForUnlearning                                              *)

OfKind(observations, kind) == {o \in observations : o.kind = kind}

\* The observations of habit h, in the order given.
Relevant(h, observations) == SelectSeq(observations, LAMBDA o : o.habit = h)
Observed(h, observations) ==
    LET relevant == Relevant(h, observations) IN {relevant[i] : i \in DOMAIN relevant}

\* The context is that of the latest observation.
assessContextDrift(h, observations) ==
    LET habit == habits[h]
        relevant == Relevant(h, observations)
        latest == relevant[Len(relevant)]
        fingerprint == IF relevant = <<>> THEN habit.fingerprint ELSE latest.fingerprint
        current == IF relevant = <<>> THEN habit.discriminators ELSE latest.discriminators
    IN  [missing |-> habit.discriminators \ current,
         severity |-> Clamp((IF fingerprint # habit.fingerprint THEN 300 ELSE 0)
                            + Scale(700, 1000 - Similarity(habit.discriminators, current)))]

\* Mutant: correlated failures, of one key, count one by one.
determineActionCorrelated(h, observed, drift, replacement) ==
    IF Cardinality(OfKind(observed, "failure")) >= 2
    THEN [action |-> "weaken", confidence |-> Pressure(OfKind(observed, "failure"))]
    ELSE [action |-> "retain", confidence |-> habits[h].applicability]

\* The first rule that holds decides.
determineAction(h, observed, drift, replacement) ==
    LET habit == habits[h]
        policy == UNLEARNING_POLICY
        failed == Pressure(OfKind(observed, "failure"))
        failures == Cardinality(Keys(OfKind(observed, "failure")))
        untrue == Pressure(OfKind(observed, "truth_supersession"))
        superior == Pressure(OfKind(observed, "superior_strategy"))
        overactive == Pressure(OfKind(observed, "overactivation"))
        repeated == failures >= policy.minimumIndependentFailuresForInhibition
        Result(action, confidence) == [action |-> action, confidence |-> confidence]
    IN  FirstOf(<<
        <<untrue >= policy.contradictionPressureThreshold,
          Result(IF replacement = NoHabit THEN "reopen_unknown" ELSE "supersede", untrue)>>,
        <<replacement # NoHabit /\ superior >= policy.superiorStrategyThreshold,
          Result("supersede", superior)>>,
        <<failures >= policy.minimumIndependentFailuresForQuarantine
            /\ failed >= policy.contradictionPressureThreshold, Result("quarantine", failed)>>,
        <<drift.severity >= policy.contextDriftThreshold /\ repeated,
          Result("contextually_inhibit", (drift.severity + failed) \div 2)>>,
        <<repeated /\ drift.missing # {}, Result("narrow", failed)>>,
        <<overactive >= policy.overactivationThreshold
            \/ (habit.automaticity >= policy.overactivationThreshold /\ failures > 0),
          Result("challenge", Higher(overactive, habit.automaticity))>>,
        <<repeated, Result("weaken", failed)>>,
        <<failures = 1, Result("challenge", Scale(failed, 600))>>,
        <<TRUE, Result(IF habit.status = "relearning" THEN "relearn" ELSE "retain",
                       habit.applicability)>> >>)

\* Mutant: nothing says how the habit could come back.
recoveryConditionsNone(h, drift, action) == habits[h].reactivationConditions

recoveryConditions(h, drift, action) ==
    habits[h].reactivationConditions \cup
    (IF action \in Inhibiting \cup {"challenge"}
     THEN {<<"context-restores", d>> : d \in drift.missing}
          \cup {<<"new-independent-success">>, <<"contradiction-resolved">>}
     ELSE IF action \in Quarantining \cup {"supersede"}
     THEN {<<"explicit-revalidation">>, <<"new-independent-success">>}
     ELSE {})

\* The decision evaluateHabitForUnlearning takes on habit h.
buildDecision(h, observations, replacement) ==
    LET observed == Observed(h, observations)
        drift == assessContextDrift(h, observations)
        result == determineAction(h, observed, drift, replacement)
    IN  [number |-> Len(decisions) + 1, habit |-> h, action |-> result.action,
         confidence |-> Clamp(result.confidence), triggers |-> observed,
         conditions |-> recoveryConditions(h, drift, result.action)]

\* The strategies of the counterfactual Views a decision asks for, with the
\* attention roles each requires.
buildCounterfactualViewPlans(decision) ==
    IF decision.action \in {"retain", "relearn"} THEN {}
    ELSE LET preferred == habits[decision.habit].preferredRoles
         IN {[strategy |-> "habit_control", roles |-> preferred],
             [strategy |-> "without_habit",
              roles |-> {"goal", "constraint", "challenge", "exploration", "dehabituation"}
                        \cup (preferred \ {"experience"})],
             [strategy |-> "inverted_assumption",
              roles |-> {"challenge", "uncertainty", "dehabituation"}],
             [strategy |-> "fresh_from_truths",
              roles |-> {"goal", "constraint", "uncertainty", "exploration"}]}

buildRelearningPlan(decision) ==
    IF decision.action \in {"retain", "challenge"} THEN {}
    ELSE {[decision |-> decision.number, habit |-> decision.habit,
           explore |-> {p.strategy : p \in buildCounterfactualViewPlans(decision)}]}

StatusAfter(action, status) ==
    CASE action \in Inhibiting -> "inhibited"
      [] action \in Quarantining -> "quarantined"
      [] action = "supersede" -> "superseded"
      [] action = "relearn" -> "relearning"
      [] action = "challenge" -> "challenged"
      [] OTHER -> status

applyDecisionToHabit(h, drift, decision, replacement) ==
    LET reduced == decision.action \in Suspending \cup {"supersede"}
        successes == OfKind(decision.triggers, "success")
    IN  [habits[h] EXCEPT
            !.discriminators = IF decision.action = "narrow" THEN @ \ drift.missing ELSE @,
            !.successes = @ \cup Keys(successes),
            !.failures = @ \cup Keys(OfKind(decision.triggers, "failure")),
            !.automaticity =
                IF reduced \/ decision.action = "challenge"
                THEN Clamp(@ - UNLEARNING_POLICY.automaticityReduction) ELSE @,
            !.applicability =
                Clamp(@ - (IF reduced THEN UNLEARNING_POLICY.applicabilityReduction ELSE 0)
                        + Scale(Pressure(successes), 120)),
            !.status = StatusAfter(decision.action, @),
            !.reactivationConditions = decision.conditions,
            !.supersededBy = IF decision.action = "supersede" THEN replacement ELSE @]

\* An entry is known by its habit and the conditions it requires.
upsertRecovery(h, required) ==
    LET same == {e \in recoveryRegistry : e.habit = h /\ e.required = required}
    IN  (recoveryRegistry \ same) \cup
        {[habit |-> h, required |-> required,
          satisfied |-> UNION {e.satisfied : e \in same}, ready |-> FALSE]}

evaluateHabitForUnlearning(h, observations, replacement) ==
    \E drift \in {assessContextDrift(h, observations)},
       decision \in {buildDecision(h, observations, replacement)} :
        /\ habits' = [habits EXCEPT ![h] = applyDecisionToHabit(h, drift, decision, replacement)]
        /\ IF decision.action \in Suspending
           THEN /\ inhibitions' = inhibitions \cup
                      {[decision |-> decision.number, habit |-> h,
                        conditions |-> decision.conditions, active |-> TRUE]}
                /\ recoveryRegistry' = upsertRecovery(h, decision.conditions)
           ELSE UNCHANGED <<inhibitions, recoveryRegistry>>
        /\ relearningPlans' = relearningPlans \cup buildRelearningPlan(decision)
        /\ decisions' = Append(decisions, decision)

-----------------------------------------------------------------------------
(* reactivateHabit                                                         *)

\* Without a registered entry the state is returned as it is.
reactivateHabit(h, satisfied) ==
    /\ \E e \in recoveryRegistry : e.habit = h
    /\ recoveryRegistry' =
          {IF e.habit = h
           THEN [e EXCEPT !.satisfied = @ \cup satisfied, !.ready = e.required \subseteq satisfied]
           ELSE e : e \in recoveryRegistry}
    /\ IF \E e \in recoveryRegistry : e.habit = h /\ e.required \subseteq satisfied
       THEN /\ habits' = [habits EXCEPT
                  ![h].status = "challenged",
                  ![h].automaticity = Lower(@, 450),
                  ![h].applicability = Higher(@, 450)]
            /\ inhibitions' =
                  {IF i.habit = h THEN [i EXCEPT !.active = FALSE] ELSE i : i \in inhibitions}
       ELSE UNCHANGED <<habits, inhibitions>>
    /\ UNCHANGED <<relearningPlans, decisions>>

-----------------------------------------------------------------------------
(* Properties                                                              *)

\* A suspended habit has an active inhibition, and the registry holds an
\* entry with the conditions of that inhibition, so that reactivateHabit can
\* bring the habit back.
SuspendedHabitsHaveAWayBack ==
    \A h \in Habits : habits[h].status \in Suspended =>
        \E i \in inhibitions :
            /\ i.habit = h /\ i.active /\ i.conditions # {}
            /\ \E e \in recoveryRegistry : e.habit = h /\ e.required = i.conditions

\* Nothing suspends or supersedes a habit on failures of one independence
\* key, however many of them are reported; only truth or a superior strategy
\* may do so without two independent failures.
CorrelatedFailuresCountOnce ==
    \A n \in DOMAIN decisions :
        decisions[n].action \in Suspending \cup {"supersede"} =>
            \/ \E d, e \in OfKind(decisions[n].triggers, "failure") : d.key # e.key
            \/ OfKind(decisions[n].triggers, "truth_supersession") # {}
            \/ OfKind(decisions[n].triggers, "superior_strategy") # {}
=============================================================================
