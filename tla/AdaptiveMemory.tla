---------------------------- MODULE AdaptiveMemory ----------------------------
(***************************************************************************)
(* Adaptive memory at work: a host runs attention-driven cycles, reports   *)
(* the outcome of Views the last triage ranked, in any order and number,   *)
(* and reports conditions under which a suspended habit may come back.     *)
(*                                                                         *)
(* Cycles and Completions are the inputs the host may give, as records;    *)
(* the View of an outcome is one the last triage gave a seed to explore,   *)
(* and the trajectory selected that View and shares the outcome's verdict  *)
(* and key.                                                                *)
(***************************************************************************)
EXTENDS MemoryEvolution

CONSTANTS
    Cycles,             \* inputs of attention-driven cycles
    Completions,        \* inputs of evolution cycles, but for the View
    SatisfiedSets,      \* sets of satisfied conditions reported for a habit
    MaxCalls            \* bound: cycles run and outcomes reported

ASSUME CycleConstants ==
    \A cycle \in Cycles :
        /\ cycle.delta \in Int /\ AreCandidates(cycle.candidates)
        /\ AreProposals(cycle.proposals) /\ AreEvidence(cycle.evidence)
        /\ AreBranches(cycle.branches)

\* A replacement model, when there is one, has the status it is given.
ASSUME CompletionConstants ==
    \A c \in Completions :
        /\ {"outcome", "trajectory", "delta", "replacement", "habit"} \subseteq DOMAIN c
        /\ "status" \in DOMAIN c.replacement
        /\ c.outcome.confidence \in Int /\ c.delta \in Int
        /\ AreObservations(c.outcome.linkObservations) /\ IsTrajectory(c.trajectory)

vars == <<retroactionVars, triage, equilibrium, reflectionVars, unlearningVars,
          understandingVars, guidance>>

Init ==
    /\ AttentionCycleInit /\ RejectedViewsInit /\ PlasticityInit
    /\ signals = [view |-> NoDominant, invalidated |-> FALSE, reconsidered |-> FALSE,
                  plan |-> "retain_raw_trace"]
    /\ ReflectionInit /\ UnlearningInit /\ UnderstandingInit /\ GuidanceInit

Calls == equilibrium.revision + Len(biasSignals)

RunCycle(cycle) ==
    /\ Calls < MaxCalls
    /\ runAttentionDrivenMemoryCycle(cycle)
    /\ UNCHANGED <<traces, evidence, links, signals, reflectionVars, unlearningVars,
                   understandingVars, guidance>>

\* The completion with what the trajectory and the outcome share.
About(view, completion) ==
    [completion EXCEPT !.trajectory.selected = view.id,
                       !.trajectory.verdict = completion.outcome.verdict,
                       !.trajectory.key = completion.outcome.key]

Explored ==
    {v \in Range(triage.views) : v.status \in {"dominant", "promising", "deferred"}}

Complete(view, completion) ==
    /\ Calls < MaxCalls
    /\ completeAdaptiveMemoryEvolution(view, About(view, completion))
    /\ UNCHANGED <<triage, equilibrium>>

Reactivate(h, satisfied) ==
    /\ reactivateHabit(h, satisfied)
    /\ UNCHANGED <<retroactionVars, triage, equilibrium, reflectionVars,
                   understandingVars, guidance>>

Next ==
    \/ \E cycle \in Cycles : RunCycle(cycle)
    \/ \E view \in Explored, completion \in Completions : Complete(view, completion)
    \/ \E h \in Habits, satisfied \in SatisfiedSets : Reactivate(h, satisfied)

Spec == Init /\ [][Next]_vars
=============================================================================
