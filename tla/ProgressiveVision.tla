--------------------------- MODULE ProgressiveVision ---------------------------
(***************************************************************************)
(* A progressive vision: one search hypothesis over a few branches, made   *)
(* from a seed, judged again whenever the context, the memory or the       *)
(* evidence changes, with checkpoints of its search to come back to.       *)
(*                                                                         *)
(* A seed names its hypothesis, branches (in order), anchors, questions,   *)
(* prior utility, novelty and project.  A context field is its revision    *)
(* and its awake frames, the most active first.  The scope of a search is  *)
(* the project of its task; hashes of ids are the tuples they hash.        *)
(***************************************************************************)
EXTENDS BranchVision

CONSTANTS
    NoVision,                       \* a vision without a parent
    ContradictionPruneThreshold,    \* in thousandths, as every score
    MaxStaleContextRevisions,
    MaxVisitedNodes,                \* the budget of a vision
    MaxInjectedItems

ASSUME BudgetConstants == MaxVisitedNodes \in Nat \ {0} /\ MaxInjectedItems \in Nat \ {0}

(* A vision left of another in the order of their hashed ids.              *)
CONSTANT IdBefore(_, _)

aggregateEvidenceScore(evidence, kind) == Pressure({e \in evidence : e.kind = kind})

strongestIndependentEvidence(evidence, kind) ==
    LET ofKind == {e \in evidence : e.kind = kind}
    IN  {CHOOSE e \in ofKind : e.key = key /\ e.weight = StrongestOf(ofKind, key) :
            key \in Keys(ofKind)}

\* Evidence has weights that are numbers; what was observed of a vision are
\* finite sets and a number.
IsEvidence(evidence) == IsFiniteSet(evidence) /\ \A e \in evidence : e.weight \in Int
AreObserved(observations) ==
    /\ IsFiniteSet(observations)
    /\ \A o \in observations :
          /\ o.utilityGain \in Int /\ IsFiniteSet(o.visited) /\ IsFiniteSet(o.injected)

Ids(items) == {item.id : item \in items}

activeContextIds(field) == Range(field.awake)

Anchored(anchors, field) == anchors = {} \/ anchors \cap activeContextIds(field) # {}

calculateCoverageScore(unresolved, original) ==
    IF original = 0 THEN 1000
    ELSE Clamp(1000 - (1000 * Cardinality(unresolved)) \div original)

calculateCostPenalty(v) ==
    Clamp((680 * Cardinality(v.visited)) \div MaxVisitedNodes
          + (320 * Cardinality(v.injected)) \div MaxInjectedItems)

calculateProgressiveVisionScore(v) ==
    Clamp((160 * v.priorUtility + 240 * confidence(v.memoryVision) + 240 * v.support
           + 140 * v.coverage + 120 * v.novelty - 320 * v.contradiction - 100 * v.costPenalty)
          \div 1000)

Scored(v) == [v EXCEPT !.score = calculateProgressiveVisionScore(v)]

\* The branches of the memory a vision is about, and what the task makes of them.
Selected(branchIds, branches) == {b \in branches : b.id \in branchIds}

\* A vision of another project, or whose branches the task all excludes.
Impossible(project, shared, memoryVision, task) ==
    \/ ~projectScopeMatches(project, task.project, shared)
    \/ allowedBranchIds(memoryVision) = {}

createProgressiveVision(seed, parent, task, field, branches) ==
    LET selected == Selected(Range(seed.branchIds), branches)
        memoryVision == resolveMemoryVision(selected, task)
        anchors == IF seed.anchors # {} THEN seed.anchors
                   ELSE {field.awake[i] : i \in DOMAIN field.awake \cap 1..3}
        anchored == Anchored(anchors, field)
    IN  Scored([
            id |-> <<seed.id, seed.hypothesis, Range(seed.branchIds), parent>>,
            hypothesis |-> seed.hypothesis,
            parent |-> parent,
            mergedFrom |-> {},
            contextRevision |-> field.revision,
            project |-> seed.project,
            shared |-> seed.shared,
            anchors |-> anchors,
            branchIds |-> Ids(selected),
            unresolved |-> seed.questions,
            visited |-> {}, frontier |-> {}, injected |-> {},
            checkpointIds |-> {}, supportingIds |-> {}, contradictionIds |-> {},
            priorUtility |-> Clamp(seed.priorUtility),
            support |-> 0, contradiction |-> 0,
            novelty |-> Clamp(seed.novelty),
            coverage |-> IF seed.questions = {} THEN 1000 ELSE 0,
            costPenalty |-> 0,
            score |-> 0,
            stale |-> IF anchored THEN 0 ELSE 1,
            status |-> IF Impossible(seed.project, seed.shared, memoryVision, task) THEN "pruned"
                       ELSE IF anchored THEN "candidate" ELSE "deferred",
            memoryVision |-> memoryVision])

\* The vision before the observation is applied to it.  The id does not
\* cover the injected items, the questions or the score.
createCheckpoint(v, observation) ==
    [id |-> <<v.id, v.contextRevision, observation.depth, v.frontier, v.visited>>,
     visionId |-> v.id,
     contextRevision |-> v.contextRevision,
     frontier |-> v.frontier,
     visited |-> v.visited,
     injected |-> v.injected,
     unresolved |-> v.unresolved,
     score |-> v.score]

\* At most one of the observations is about the vision.
ObservationsAbout(v, observations) == {o \in observations : o.visionId = v.id}
checkpointsBefore(v, observations) ==
    {createCheckpoint(v, o) : o \in ObservationsAbout(v, observations)}

Staleness(v, field) ==
    IF Anchored(v.anchors, field) THEN 0
    ELSE v.stale + Higher(1, field.revision - v.contextRevision)

\* The vision with what was explored, learnt and changed since, not yet judged.
Observed(v, task, field, branches, relevant, seen) ==
    LET selected == Selected(v.branchIds, branches)
        unresolved == v.unresolved \ UNION {o.resolved : o \in seen}
        gain == Total([o \in seen |-> o.utilityGain])
    IN  [v EXCEPT
            !.contextRevision = field.revision,
            !.branchIds = Ids(selected),
            !.memoryVision = resolveMemoryVision(selected, task),
            !.unresolved = unresolved,
            !.visited = @ \cup UNION {o.visited : o \in seen},
            !.frontier = IF seen = {} THEN @ ELSE UNION {o.frontier : o \in seen},
            !.injected = @ \cup UNION {o.injected : o \in seen},
            !.checkpointIds = @ \cup Ids({createCheckpoint(v, o) : o \in seen}),
            !.supportingIds =
                @ \cup Ids(strongestIndependentEvidence(relevant, "support"))
                  \cup Ids(strongestIndependentEvidence(relevant, "novelty")),
            !.contradictionIds = @ \cup Ids(strongestIndependentEvidence(relevant, "contradiction")),
            !.support = Higher(@, aggregateEvidenceScore(relevant, "support")),
            !.contradiction = Higher(@, aggregateEvidenceScore(relevant, "contradiction")),
            !.novelty = Clamp(Higher(@, aggregateEvidenceScore(relevant, "novelty"))
                              + (150 * gain) \div 1000),
            !.coverage = calculateCoverageScore(unresolved, Cardinality(v.unresolved)),
            !.stale = Staleness(v, field)]

\* The contradiction that prunes is that of the evidence given in this call.
revalidateProgressiveVision(v, task, field, branches, evidence, observations) ==
    LET relevant == {e \in evidence : e.visionId = v.id /\ e.contextRevision <= field.revision}
        seen == ObservationsAbout(v, observations)
        next == Observed(v, task, field, branches, relevant, seen)
        pruned == \/ Impossible(v.project, v.shared, next.memoryVision, task)
                  \/ aggregateEvidenceScore(relevant, "contradiction") >= ContradictionPruneThreshold
                  \/ next.stale > MaxStaleContextRevisions
        exhausted == next.frontier = {} /\ \E o \in seen : o.exhausted
        status == FirstOf(<<
            <<pruned, "pruned">>,
            <<exhausted, "exhausted">>,
            <<Anchored(v.anchors, field), "exploring">>,
            <<TRUE, "deferred">> >>)
    IN  Scored([next EXCEPT !.status = status, !.costPenalty = calculateCostPenalty(next)])

\* A checkpoint of another vision is refused.
backtrackProgressiveVision(v, checkpoint) ==
    [v EXCEPT
        !.contextRevision = Higher(@, checkpoint.contextRevision),
        !.frontier = checkpoint.frontier,
        !.visited = checkpoint.visited,
        !.injected = checkpoint.injected,
        !.unresolved = checkpoint.unresolved,
        !.score = Higher(checkpoint.score, Scale(@, 820)),
        !.status = "exploring"]

visionEquivalenceKey(v) == <<v.hypothesis, v.branchIds, v.project>>

visionDominates(left, right, margin) ==
    /\ right.branchIds \subseteq left.branchIds
    /\ left.score >= right.score + margin
    /\ left.contradiction <= right.contradiction
    /\ left.costPenalty <= right.costPenalty
=============================================================================
