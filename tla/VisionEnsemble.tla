---------------------------- MODULE VisionEnsemble ----------------------------
(***************************************************************************)
(* The ensemble of the progressive visions of a search: broad seeds are    *)
(* split, equivalent visions merged, dominated ones superseded, and a beam *)
(* of active and deferred visions chosen; the first active one dominates.  *)
(***************************************************************************)
EXTENDS ProgressiveVision, SequencesExt

CONSTANTS
    MaxActiveVisions,
    MaxDeferredVisions,
    MaxBranchesPerVision,
    MinimumActiveScore,
    DominanceMargin

ASSUME BeamConstants == MaxBranchesPerVision \in Nat \ {0}

VARIABLES
    ensemble,           \* the visions and what the beam made of them
    backtrackEligible   \* the visions the last advance names as such

ensembleVars == <<ensemble, backtrackEligible>>

\* Seeds are a sequence, each with branches in order, finitely many questions
\* and numbers for its utility and novelty.
AreSeeds(seeds) ==
    /\ Len(seeds) \in Nat /\ DOMAIN seeds = 1..Len(seeds)
    /\ \A i \in DOMAIN seeds :
          /\ {"id", "hypothesis", "branchIds", "questions", "priorUtility", "novelty"}
                 \subseteq DOMAIN seeds[i]
          /\ Len(seeds[i].branchIds) \in Nat /\ IsFiniteSet(seeds[i].questions)
          /\ seeds[i].priorUtility \in Int /\ seeds[i].novelty \in Int

expandSeed(seed) ==
    LET many == Len(seed.branchIds)
        part(i) == SubSeq(seed.branchIds, (i - 1) * MaxBranchesPerVision + 1,
                          Lower(i * MaxBranchesPerVision, many))
        piece(i) == [seed EXCEPT
            !.id = <<@, i>>,
            !.hypothesis = <<@, i>>,
            !.branchIds = part(i),
            !.novelty = Higher(0, @ - 30 * (i - 1))]
    IN  IF many <= MaxBranchesPerVision
        THEN << [seed |-> seed, parent |-> NoVision] >>
        ELSE [i \in 1..((many + MaxBranchesPerVision - 1) \div MaxBranchesPerVision) |->
                 [seed |-> piece(i), parent |-> <<seed.id, Range(seed.branchIds)>>]]

createFromSeeds(seeds, task, field, branches) ==
    LET items == FoldLeft(LAMBDA before, seed : before \o expandSeed(seed), <<>>, seeds)
    IN  [i \in DOMAIN items |->
            createProgressiveVision(items[i].seed, items[i].parent, task, field, branches)]

\* The first of the highest score.
Winner(group) ==
    CHOOSE i \in DOMAIN group :
        \A j \in DOMAIN group :
            \/ group[i].score > group[j].score
            \/ group[i].score = group[j].score /\ i <= j

\* Mutant: the checkpoints are those of the winner.
mergeGroupForgetting(group) ==
    LET others == {group[i] : i \in DOMAIN group \ {Winner(group)}}
        all == Range(group)
    IN  [group[Winner(group)] EXCEPT
            !.mergedFrom = @ \cup Ids(others) \cup UNION {v.mergedFrom : v \in others},
            !.supportingIds = UNION {v.supportingIds : v \in all},
            !.contradictionIds = UNION {v.contradictionIds : v \in all},
            !.visited = UNION {v.visited : v \in all},
            !.frontier = UNION {v.frontier : v \in all},
            !.injected = UNION {v.injected : v \in all}]

\* The winner keeps its status, its contradiction and its questions.
mergeGroup(group) ==
    LET others == {group[i] : i \in DOMAIN group \ {Winner(group)}}
        all == Range(group)
    IN  [group[Winner(group)] EXCEPT
            !.mergedFrom = @ \cup Ids(others) \cup UNION {v.mergedFrom : v \in others},
            !.supportingIds = UNION {v.supportingIds : v \in all},
            !.contradictionIds = UNION {v.contradictionIds : v \in all},
            !.visited = UNION {v.visited : v \in all},
            !.frontier = UNION {v.frontier : v \in all},
            !.injected = UNION {v.injected : v \in all},
            !.checkpointIds = UNION {v.checkpointIds : v \in all}]

mergeEquivalentVisions(visions) ==
    LET key(i) == visionEquivalenceKey(visions[i])
        firsts == ByPlace({i \in DOMAIN visions : \A j \in 1..(i - 1) : key(j) # key(i)})
        groupOf(i) == AtPlaces(visions, {j \in DOMAIN visions : key(j) = key(i)})
    IN  [k \in DOMAIN firsts |-> mergeGroup(groupOf(firsts[k]))]

rank(left, right) ==
    \/ left.score > right.score
    \/ left.score = right.score /\ left.costPenalty < right.costPenalty
    \/ left.score = right.score /\ left.costPenalty = right.costPenalty
       /\ IdBefore(left.id, right.id)

Out == {"pruned", "exhausted", "superseded"}

\* The ids a better vision before them in the ranking covers, unless that
\* vision is itself covered.
Dominated(ranked) ==
    LET after[i \in 0..Len(ranked)] ==
            IF i = 0 THEN {}
            ELSE IF ranked[i].id \in after[i - 1] THEN after[i - 1]
            ELSE after[i - 1] \cup
                 {ranked[j].id : j \in {k \in (i + 1)..Len(ranked) :
                                           visionDominates(ranked[i], ranked[k], DominanceMargin)}}
    IN  after[Len(ranked)]

UpTo(s, n) == SubSeq(s, 1, Lower(n, Len(s)))
IdsOf(s) == {s[i].id : i \in DOMAIN s}

\* The ensemble of the visions, each with the status the beam gives it.
selectProgressiveVisionBeam(visions) ==
    LET eligible == SortSeq(SelectSeq(visions, LAMBDA v : v.status \notin Out), rank)
        dominated == Dominated(eligible)
        ranked == SelectSeq(eligible, LAMBDA v : v.id \notin dominated)
        active == UpTo(SelectSeq(ranked, LAMBDA v : v.score >= MinimumActiveScore /\ v.stale = 0),
                       MaxActiveVisions)
        deferred == UpTo(SelectSeq(ranked, LAMBDA v : v.id \notin IdsOf(active)),
                         MaxDeferredVisions)
        dominant == IF active = <<>> THEN NoVision ELSE Head(active).id
        statusOf(v) == FirstOf(<<
            <<v.id \in dominated, "superseded">>,
            <<v.id = dominant, "dominant">>,
            <<v.id \in IdsOf(active), "exploring">>,
            <<v.id \in IdsOf(deferred) \/ v.status \notin Out, "deferred">>,
            <<TRUE, v.status>> >>)
    IN  [visions |-> [i \in DOMAIN visions |-> [visions[i] EXCEPT !.status = statusOf(visions[i])]],
         dominantVisionId |-> dominant,
         activeVisionIds |-> IdsOf(active),
         deferredVisionIds |-> IdsOf(deferred)]

createProgressiveVisionEnsemble(seeds, task, field, branches) ==
    /\ ensemble = selectProgressiveVisionBeam(
                      mergeEquivalentVisions(createFromSeeds(seeds, task, field, branches)))
    /\ backtrackEligible = {}

branchIdsExist(v, branches) == v.branchIds \cap Ids(branches) # {}

\* What one vision becomes before seeds, merges and the beam.
Reevaluated(v, task, field, branches, evidence, observations) ==
    IF branchIdsExist(v, branches)
    THEN revalidateProgressiveVision(v, task, field, branches, evidence, observations)
    ELSE [v EXCEPT !.contextRevision = field.revision, !.status = "pruned"]

advanceProgressiveVisionEnsemble(task, field, branches, evidence, observations, newSeeds) ==
    \E again \in {[i \in DOMAIN ensemble.visions |->
                      Reevaluated(ensemble.visions[i], task, field, branches, evidence,
                                  observations)]},
       spawned \in {createFromSeeds(newSeeds, task, field, branches)} :
        /\ ensemble' = selectProgressiveVisionBeam(mergeEquivalentVisions(again \o spawned))
        /\ backtrackEligible' =
               {v.id : v \in {w \in Range(again) :
                   /\ branchIdsExist(w, branches)
                   /\ w.checkpointIds # {}
                   /\ w.status \in {"pruned", "exhausted"}}}

\* The checkpoints an advance hands to its caller, in the order of the visions.
CheckpointsOfAdvance(branches, observations) ==
    LET visions == ensemble.visions
        made == [i \in DOMAIN visions |->
                    IF branchIdsExist(visions[i], branches)
                    THEN checkpointsBefore(visions[i], observations) ELSE {}]
    IN  AtPlaces([i \in DOMAIN visions |-> CHOOSE c \in made[i] : TRUE],
                 {i \in DOMAIN visions : made[i] # {}})
=============================================================================
