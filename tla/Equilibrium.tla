------------------------------ MODULE Equilibrium ------------------------------
(***************************************************************************)
(* The dynamic equilibrium controller: after a triage it measures eleven   *)
(* dimensions of the search against their bands and decides what to        *)
(* rebalance.  The decisions of a result are kept as a set of actions with *)
(* their targets.                                                          *)
(***************************************************************************)
EXTENDS AttentionField, Triage

CONSTANT MaxDominanceSwitches    \* policy.maximumDominanceSwitches

VARIABLE equilibrium    \* the last result: snapshot, decisions and balanced

\* minimum and maximum of each band.
Bands ==
    [goal_fidelity |-> <<350, 1000>>, constraint_coverage |-> <<300, 1000>>,
     attention_diversity |-> <<200, 1000>>, view_diversity |-> <<150, 1000>>,
     challenge_coverage |-> <<120, 1000>>, uncertainty_coverage |-> <<120, 1000>>,
     exploration_depth |-> <<100, 950>>, exploration_breadth |-> <<150, 1000>>,
     injection_efficiency |-> <<400, 1000>>, stability |-> <<300, 1000>>,
     plasticity |-> <<200, 1000>>]

CriticalDebtThreshold == 620

\* Before the first cycle.
EquilibriumInit ==
    equilibrium = [revision |-> 0, dimensions |-> <<>>, outOfBand |-> {},
                   criticalDebts |-> {}, oscillation |-> FALSE, decisions |-> {},
                   balanced |-> TRUE]

switchCount(history) ==
    Cardinality({i \in 2 .. Len(history) : history[i] # history[i - 1]})

\* fs are the focuses of the field, result the triage of this cycle and
\* observation what the caller measured.
dimensionsOf(fs, result, observation) ==
    LET Role(role) == Clamp(getAttentionRoleCoverage(fs, role))
        awake == {i \in DOMAIN fs : fs[i].status \in Awake}
        views == Cardinality(Leading(result.views))
        explored == {d \in observation.debts : d.coverage > 0}
    IN  [goal_fidelity |-> Clamp(Role("goal") + 40 * Cardinality(result.commonAttentions)),
         constraint_coverage |-> Clamp(Role("constraint") + (Role("risk") * 3) \div 10),
         attention_diversity |-> Clamp((1000 * Cardinality({fs[i].role : i \in awake})) \div 6),
         view_diversity |-> Clamp((1000 * views) \div MaxActiveFocuses),
         challenge_coverage |->
             Clamp(Role("challenge") + 80 * Cardinality(result.divergences)),
         uncertainty_coverage |-> Clamp(Role("uncertainty") + 50 * Cardinality(explored)),
         exploration_depth |-> Clamp((1000 * observation.depth) \div 8),
         exploration_breadth |-> Clamp((1000 * views + 2 * Role("exploration")) \div 6),
         injection_efficiency |->
             IF observation.visited = 0 THEN 1000
             ELSE Clamp(1000 - (1000 * observation.injected) \div observation.visited),
         stability |->
             Clamp(1000 - (1000 * switchCount(observation.history))
                            \div (MaxDominanceSwitches + 1)),
         plasticity |->
             Clamp(250 + (IF observation.contextChanged THEN 250 ELSE 0)
                   + (IF observation.truthChanged THEN 200 ELSE 0)
                   + (15 * (Role("challenge") + Role("uncertainty"))) \div 100)]

outOfBandDimensions(dimensions) ==
    {d \in DOMAIN dimensions : dimensions[d] < Bands[d][1] \/ dimensions[d] > Bands[d][2]}

criticalExplorationDebts(debts) ==
    {d.id : d \in {e \in debts : Scale(Scale(e.criticality, e.risk), 1000 - e.coverage)
                                   >= CriticalDebtThreshold}}

\* Every correction decided; all have a confidence above the minimum.
Corrections(fs, result, dimensions, debts, oscillation, history) ==
    LET OfRoles(roles) == Ids(fs, {i \in DOMAIN fs : fs[i].role \in roles})
        Below(d) == dimensions[d] < Bands[d][1]
        awake == {i \in DOMAIN fs : fs[i].status \in Awake}
        lastTwo == {history[i] : i \in {j \in DOMAIN history : j > Len(history) - 2}}
        When(holds, action, targets) == IF holds THEN {<<action, targets>>} ELSE {}
    IN  When(Below("goal_fidelity"), "PIN_INVARIANT", OfRoles({"goal"}))
        \cup When(Below("view_diversity") \/ Below("challenge_coverage"), "SPAWN_ALTERNATIVE",
                  OfRoles({"challenge", "uncertainty", "exploration"}))
        \cup When(debts # {}, "REQUEST_EVIDENCE", debts)
        \cup When(debts # {}, "FREEZE_CONSOLIDATION", debts)
        \cup When(oscillation, "DEFER_VIEW", lastTwo)
        \cup When(oscillation, "REQUEST_EVIDENCE", lastTwo)
        \cup When(Below("injection_efficiency"), "REDUCE_INJECTION",
                  ViewIds([i \in Leading(result.views) |-> result.views[i]]))
        \cup When(Below("exploration_depth") /\ result.dominantViewId # NoDominant /\ debts = {},
                  "DEEPEN_VIEW", {result.dominantViewId})
        \cup When(\/ dimensions["exploration_breadth"] > Bands["exploration_breadth"][2]
                  \/ Cardinality(awake) > MaxActiveFocuses,
                  "DECAY_ATTENTION", Ids(fs, {i \in DOMAIN fs : fs[i].status = "background"}))

evaluateDynamicEquilibrium(fs, dominantFocus, result, observation, revision) ==
    LET dimensions == dimensionsOf(fs, result, observation)
        outOfBand == outOfBandDimensions(dimensions)
        debts == criticalExplorationDebts(observation.debts)
        oscillation == switchCount(observation.history) > MaxDominanceSwitches
        corrections == Corrections(fs, result, dimensions, debts, oscillation, observation.history)
    IN  [revision |-> revision + 1, dimensions |-> dimensions, outOfBand |-> outOfBand,
         criticalDebts |-> debts, oscillation |-> oscillation,
         decisions |->
             IF corrections # {} THEN corrections
             ELSE {<<"MAINTAIN",
                     {result.dominantViewId, dominantFocus} \ {NoDominant, NoFocus}>>},
         balanced |-> outOfBand = {} /\ debts = {} /\ ~oscillation]
=============================================================================
