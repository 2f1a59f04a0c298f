------------------------------ MODULE Situation ------------------------------
(***************************************************************************)
(* One situation: buildSituation, transitionSituationPhase with the        *)
(* handoffs it returns, and closeSituation.  Its contract is left out but  *)
(* for the contexts it relies on.                                          *)
(***************************************************************************)
EXTENDS Naturals, FiniteSets

VARIABLES
    phase,          \* situation.phase, "none" before buildSituation
    state,          \* situation.state
    contextIds,     \* situation.contextFrameIds
    handoffs        \* the handoffs returned so far, as pairs of phases

situationVars == <<phase, state, contextIds, handoffs>>

ALLOWED_TRANSITIONS ==
    [exploration    |-> {"convergence", "closed"},
     convergence    |-> {"implementation", "exploration", "closed"},
     implementation |-> {"validation", "convergence", "closed"},
     validation     |-> {"implementation", "closed"},
     closed         |-> {},
     none           |-> {}]

Phases == DOMAIN ALLOWED_TRANSITIONS
Outcomes == {"resolved", "abandoned", "superseded", "unresolved"}

SituationInit ==
    phase = "none" /\ state = "none" /\ contextIds = {} /\ handoffs = {}

Build(ids) ==
    /\ phase = "none" /\ ids # {}
    /\ phase' = "exploration" /\ state' = "forming"
    /\ contextIds' = ids
    /\ UNCHANGED handoffs

\* contexts: the retained ones and those left behind compacted or dormant.
Transition(to, contexts) ==
    /\ to \in ALLOWED_TRANSITIONS[phase]
    /\ contexts # {} \/ to = "closed"
    /\ phase' = to
    /\ state' = IF to = "closed" THEN state ELSE "active"
    /\ contextIds' = contexts
    /\ handoffs' = handoffs \cup {<<phase, to>>}

\* Mutant: without the condition on the phase.
CloseAnywhere(outcome) ==
    /\ phase # "none"
    /\ phase' = "closed" /\ state' = outcome
    /\ UNCHANGED <<contextIds, handoffs>>

\* Any phase may be closed, a closed one too.
Close(outcome) ==
    /\ phase # "none"
    /\ outcome = "resolved" => phase = "validation"
    /\ phase' = "closed" /\ state' = outcome
    /\ UNCHANGED <<contextIds, handoffs>>

-----------------------------------------------------------------------------
(* Properties                                                              *)

\* A resolved situation has been handed over from exploration to convergence,
\* to implementation and to validation, on whatever detours: no phase can be
\* skipped on the way to a resolution, and closing early forgoes it.
ResolvedThroughEveryPhase ==
    state = "resolved" =>
        {<<"exploration", "convergence">>, <<"convergence", "implementation">>,
         <<"implementation", "validation">>} \subseteq handoffs
=============================================================================
