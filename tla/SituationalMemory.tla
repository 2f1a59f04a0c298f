------------------------- MODULE SituationalMemory -------------------------
(***************************************************************************)
(* A conversation with its context field and one situation that relies on  *)
(* some of the contexts.  Contexts are released through the gate for a     *)
(* copy of the frame the caller took earlier, as input.frame is.           *)
(***************************************************************************)
EXTENDS ContextField, Situation

CONSTANT MaxSteps           \* bound: operations on frames and phases

ASSUME MaxSteps \in Nat

VARIABLES
    held,       \* the frame, if any, the caller holds a copy of; it is not pinned
    capsule,    \* a consolidated capsule of the situation exists
    steps       \* operations on frames and phases so far

vars == <<fieldVars, situationVars, held, capsule, steps>>

Init ==
    /\ FieldInit /\ SituationInit
    /\ held = {} /\ capsule = FALSE /\ steps = 0

Ids == DOMAIN frames

Signal ==
    /\ \E relevance \in Relevances \cup {Unspecified} :
        \/ \E explicit \in BOOLEAN : NewContext(explicit, relevance)
        \/ \E i \in Ids : Continue(i, relevance) \/ Overlap(i, relevance)
    /\ UNCHANGED <<situationVars, held, capsule>>

Reactivate ==
    /\ \E i \in Ids, explicit \in BOOLEAN : Return(i, explicit, Unspecified)
    /\ UNCHANGED <<situationVars, held, capsule>>

Protect ==
    /\ \E i \in Ids :
        \/ \E reason \in Reasons : Pin(i, reason) \/ Unpin(i, {reason})
        \/ Unpin(i, Reasons)
        \/ Compact(i)
    /\ UNCHANGED <<situationVars, held, capsule>>

\* The caller reads a frame, to ask for its release in the situation later.
Hold ==
    /\ phase # "none" /\ held = {}
    /\ \E i \in Ids : frames[i].retentionState # "pinned" /\ held' = {i}
    /\ UNCHANGED <<fieldVars, situationVars, capsule>>

\* An open situation depends on its contexts; the transfer is what its caller
\* says of it.
ApplyRelease ==
    /\ \E i \in held, target \in Retentions \ {"pinned", "active"} :
        /\ \E destination \in BOOLEAN, preserved \in SUBSET Preserved :
            Releasable([retentionState |-> "active"], target, state,
                       phase # "closed" /\ i \in contextIds,
                       capsule, destination, preserved)
        /\ Release(i, target)
        /\ held' = {}
    /\ UNCHANGED <<situationVars, capsule>>

Begin ==
    /\ \E ids \in SUBSET Ids : Build(ids)
    /\ UNCHANGED <<fieldVars, held, capsule>>

\* The contexts a phase leaves behind compacted or dormant stay listed with those
\* it retains, and are not told apart.  TransitionPhaseInput knows no way back to
\* exploration.
Situate ==
    /\ \/ \E to \in Phases \ {"exploration"}, contexts \in SUBSET Ids : Transition(to, contexts)
       \/ \E outcome \in Outcomes : Close(outcome)
    /\ UNCHANGED <<fieldVars, held, capsule>>

Consolidate ==
    /\ phase # "none" /\ ~capsule /\ capsule' = TRUE
    /\ UNCHANGED <<fieldVars, situationVars, held>>

Next ==
    \/ /\ steps < MaxSteps /\ steps' = steps + 1
       /\ Signal \/ Reactivate \/ Protect \/ ApplyRelease \/ Situate
    \/ Begin /\ UNCHANGED steps
    \/ Hold /\ UNCHANGED steps
    \/ Consolidate /\ UNCHANGED steps

Spec == Init /\ [][Next]_vars

-----------------------------------------------------------------------------
(* Properties                                                              *)

\* The shape of the state.
TypeOK ==
    /\ FieldTypeOK
    /\ phase \in Phases /\ state \in Outcomes \cup {"none", "forming", "active"}
    /\ contextIds \subseteq Ids /\ held \subseteq Ids
    /\ handoffs \subseteq Phases \X Phases
    /\ capsule \in BOOLEAN

\* After every signal no more than maxNonDormantFrames unpinned frames have the
\* activation to be awake, whatever pins, compactions and releases have changed
\* in between.  (A dominant frame that has faded below it is not counted.)
SignalsKeepBudget ==
    [][MaxNonDormantFrames < Cardinality({i \in DOMAIN frames' :
               /\ frames'[i].activation >= DEFAULT_POLICY.dormantThreshold
               /\ frames'[i].retentionState # "pinned"})
         => ~Signal /\ ~Reactivate]_vars

\* A frame is archived or up for deletion only once the situation has been
\* closed with an outcome: no way of pinning, unpinning, compacting or
\* reactivating gets it there while the situation may still need it.
ArchivedAfterClosing ==
    (\E i \in Ids : frames[i].retentionState \in Archives) =>
        phase = "closed" /\ state \in Outcomes

\* docs/memory-v0.3-specification.md: permanent deletion requires consolidated
\* persistent memory.
DeletionAfterConsolidation ==
    (\E i \in Ids : frames[i].retentionState = "eligible_for_deletion") => capsule
=============================================================================
