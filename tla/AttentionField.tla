--------------------------- MODULE AttentionField ---------------------------
(***************************************************************************)
(* The memory attention field: a bounded portfolio of attention focuses,   *)
(* created from candidates and advanced by feedback, decay, merging and    *)
(* ranking.                                                                *)
(*                                                                         *)
(* A focus is its candidate with a weight, a score and a status.  Where    *)
(* the code breaks a tie of weight and score by the ids, which are hashes, *)
(* the older focus comes first here.  One call brings at most one piece of *)
(* feedback to a focus, as the retroactive loop does.                      *)
(***************************************************************************)
EXTENDS Evidence, SequencesExt

CONSTANTS
    MaxActiveFocuses,       \* policy.maxActiveFocuses
    MaxBackgroundFocuses,   \* policy.maxBackgroundFocuses
    MinimumRoleCoverage,    \* policy.minimumRoleCoverage, a sequence of roles
    NoFocus                 \* dominantFocusId null

ASSUME AttentionConstants ==
    /\ MaxActiveFocuses \in Nat \ {0} /\ MaxBackgroundFocuses \in Nat
    /\ DOMAIN MinimumRoleCoverage = 1..Len(MinimumRoleCoverage)
    /\ Len(MinimumRoleCoverage) \in 0..MaxActiveFocuses

VARIABLES
    focuses,            \* field.focuses
    dominantFocusId     \* field.dominantFocusId

attentionVars == <<focuses, dominantFocusId>>

ATTENTION_POLICY ==
    [minimumWeight |-> 60, dominantMinimumMargin |-> 80, decayPerContextRevision |-> 80,
     maxStaleContextRevisions |-> 3, redundancyThreshold |-> 900]

Awake == {"pinned", "dominant", "active"}

AttentionInit == focuses = <<>> /\ dominantFocusId = NoFocus

-----------------------------------------------------------------------------
(* Focuses                                                                 *)

CandidateWeights ==
    [goalDependency |-> 18, constraintImportance |-> 17, uncertainty |-> 14, novelty |-> 11,
     risk |-> 13, expectedInformationGain |-> 14, predictiveValue |-> 8, persistence |-> 3,
     urgency |-> 2]

\* Candidates are a sequence, with numbers for signals and finite anchors.
AreCandidates(candidates) ==
    /\ DOMAIN candidates = 1..Len(candidates) /\ Len(candidates) \in Nat
    /\ \A i \in DOMAIN candidates :
          /\ \A n \in DOMAIN CandidateWeights : candidates[i].signals[n] \in Int
          /\ IsFiniteSet(candidates[i].contexts) /\ IsFiniteSet(candidates[i].truths)

candidateScore(c) ==
    Clamp(Total([n \in DOMAIN CandidateWeights |-> CandidateWeights[n] * c.signals[n]]) \div 100)

createFocus(c) ==
    LET score == candidateScore(c) IN
    [id |-> c.id, role |-> c.role, type |-> c.type, target |-> c.target,
     contexts |-> c.contexts, truths |-> c.truths, pinned |-> c.pinned,
     weight |-> score, score |-> score,
     status |-> IF c.pinned THEN "pinned" ELSE "active",
     support |-> {}, challenge |-> {}, stale |-> 0]

attentionSimilarity(left, right) ==
    IF left.role # right.role \/ left.type # right.type THEN 0
    ELSE (IF left.target = right.target THEN 600 ELSE 0)
         + Scale(200, Similarity(left.contexts, right.contexts))
         + Scale(200, Similarity(left.truths, right.truths))

\* The stronger focus with the anchors and keys of both.
mergeFocus(left, right) ==
    [(IF left.score >= right.score THEN left ELSE right) EXCEPT
        !.contexts = left.contexts \cup right.contexts,
        !.truths = left.truths \cup right.truths,
        !.support = left.support \cup right.support,
        !.challenge = left.challenge \cup right.challenge,
        !.weight = Clamp(Higher(left.weight, right.weight)
                         + Scale(150, Lower(left.weight, right.weight))),
        !.score = Clamp(Higher(left.score, right.score)
                        + Scale(100, Lower(left.score, right.score)))]

createFocuses(candidates) == [i \in DOMAIN candidates |-> createFocus(candidates[i])]

\* The focus of a candidate joins the first that is awake or asleep and says
\* the same, or stays a focus of its own.
Admit(fs, incoming) ==
    LET twins == {i \in DOMAIN fs :
                    /\ fs[i].status # "released"
                    /\ attentionSimilarity(fs[i], incoming) >= ATTENTION_POLICY.redundancyThreshold}
    IN  IF twins = {} THEN Append(fs, incoming)
        ELSE [fs EXCEPT ![Min(twins)] = mergeFocus(@, incoming)]

applyFeedback(focus, feedback) ==
    LET given == {f \in feedback : f.focus = focus.id}
        f == CHOOSE g \in given : TRUE
        Moved(score, weight) ==
            [focus EXCEPT !.score = Clamp(@ + score), !.weight = Clamp(@ + weight)]
    IN  IF given = {} THEN focus
        ELSE CASE f.effect = "reinforce" ->
                    [Moved(Scale(200, f.magnitude), Scale(160, f.magnitude))
                        EXCEPT !.support = @ \cup {f.key}]
               [] f.effect = "challenge" ->
                    [Moved(-Scale(250, f.magnitude), -Scale(200, f.magnitude))
                        EXCEPT !.challenge = @ \cup {f.key}]
               [] f.effect = "resolve" ->
                    Moved(-Scale(400, f.magnitude), -Scale(350, f.magnitude))
               [] f.effect = "reactivate" ->
                    [Moved(Scale(240, f.magnitude), Scale(220, f.magnitude))
                        EXCEPT !.status = "active", !.stale = 0]

-----------------------------------------------------------------------------
(* Ranking                                                                 *)

Heavier(fs, i, j) ==
    \/ fs[i].weight > fs[j].weight
    \/ fs[i].weight = fs[j].weight /\ fs[i].score > fs[j].score
    \/ fs[i].weight = fs[j].weight /\ fs[i].score = fs[j].score /\ i < j

ByWeight(fs, I) == InOrder(I, {p \in I \X I : Heavier(fs, p[1], p[2])})

Ids(fs, I) == {fs[i].id : i \in I}

\* Mutant: the heaviest focuses are taken, whatever their roles.
CoverNoRole(fs, sorted) == Range(SubSeq(sorted, 1, Lower(MaxActiveFocuses, Len(sorted))))

Select(fs, taken, i) ==
    IF Cardinality(taken) < MaxActiveFocuses /\ fs[i].id \notin Ids(fs, taken)
    THEN taken \cup {i} ELSE taken

Cover(fs, sorted, taken, role) ==
    LET able == {n \in DOMAIN sorted : fs[sorted[n]].role = role
                                       /\ fs[sorted[n]].id \notin Ids(fs, taken)}
    IN  IF able = {} THEN taken ELSE Select(fs, taken, sorted[Min(able)])

\* The first focus of every required role, then the heaviest others.
ensureRoleCoverage(fs, sorted) ==
    FoldLeft(LAMBDA taken, i : Select(fs, taken, i),
             FoldLeft(LAMBDA taken, role : Cover(fs, sorted, taken, role),
                      {}, MinimumRoleCoverage),
             sorted)

\* The focuses with their statuses, before one becomes dominant.
assignStatuses(fs) ==
    LET pinned == {i \in DOMAIN fs : fs[i].status = "pinned"}
        eligible == {i \in DOMAIN fs : fs[i].status \notin {"pinned", "released"}}
        sorted == ByPlace(pinned) \o ByWeight(fs, eligible)
        active == Ids(fs, ensureRoleCoverage(fs, sorted))
        remaining == {i \in eligible : fs[i].id \notin active}
        background == Ids(fs, {i \in remaining :
            Cardinality({j \in remaining : Heavier(fs, j, i)}) < MaxBackgroundFocuses})
    IN  [i \in DOMAIN fs |-> [fs[i] EXCEPT !.status =
            FirstOf(<<
                <<@ = "released", "released">>,
                <<fs[i].pinned \/ @ = "pinned", "pinned">>,
                <<fs[i].id \in active, "active">>,
                <<fs[i].id \in background, "background">>,
                <<TRUE, "dormant">> >>)]]

\* The id of the focus that leads the awake ones, if it leads by the margin
\* or is pinned.
dominantOf(fs) ==
    LET awake == {i \in DOMAIN fs : fs[i].status \in {"active", "pinned"}}
        First(I) == CHOOSE i \in I : \A j \in I \ {i} : Heavier(fs, i, j)
        first == First(awake)
        second == First(awake \ {first})
    IN  IF awake = {} THEN NoFocus
        ELSE IF /\ Cardinality(awake) > 1 /\ fs[first].status # "pinned"
                /\ fs[first].weight - fs[second].weight < ATTENTION_POLICY.dominantMinimumMargin
        THEN NoFocus
        ELSE fs[first].id

\* The whole field follows from the focuses that enter it.
rankAndAssignStatuses(fs) ==
    \E ranked \in {assignStatuses(fs)} :
    \E dominant \in {dominantOf(ranked)} :
        /\ focuses' = [i \in DOMAIN ranked |->
              IF ranked[i].id = dominant /\ ranked[i].status # "pinned"
              THEN [ranked[i] EXCEPT !.status = "dominant"] ELSE ranked[i]]
        /\ dominantFocusId' = dominant

-----------------------------------------------------------------------------
(* Creating and advancing the field                                        *)

\* The candidates enter the highest score first.
createMemoryAttentionField(candidates) ==
    rankAndAssignStatuses(FoldLeft(Admit, <<>>, ByScore(createFocuses(candidates))))

\* Feedback, then decay, then release.
Aged(focus, activeContexts, delta, feedback) ==
    LET moved == applyFeedback(focus, feedback)
        anchored == moved.contexts = {} \/ moved.contexts \cap activeContexts # {}
        stale == IF anchored THEN 0 ELSE moved.stale + delta
        decay == IF anchored \/ moved.status = "pinned" THEN 0
                 ELSE ATTENTION_POLICY.decayPerContextRevision * delta
        weight == Clamp(moved.weight - decay)
    IN  [moved EXCEPT
            !.stale = stale,
            !.weight = weight,
            !.score = Clamp(@ - (decay * 3) \div 4),
            !.status = IF /\ @ # "pinned"
                          /\ \/ weight < ATTENTION_POLICY.minimumWeight
                             \/ stale > ATTENTION_POLICY.maxStaleContextRevisions
                       THEN "released" ELSE @]

\* What advancing fs gives, before it is ranked; delta is how far the context
\* revision has moved.
Advanced(fs, activeContexts, delta, candidates, feedback) ==
    FoldLeft(Admit,
             [i \in DOMAIN fs |-> Aged(fs[i], activeContexts, Higher(1, delta), feedback)],
             createFocuses(candidates))

advanceMemoryAttentionField(activeContexts, delta, candidates, feedback) ==
    rankAndAssignStatuses(Advanced(focuses, activeContexts, delta, candidates, feedback))

\* getAttentionRoleCoverage of a field with focuses fs.
getAttentionRoleCoverage(fs, role) ==
    Total([i \in {j \in DOMAIN fs : fs[j].status \in Awake /\ fs[j].role = role} |-> fs[i].weight])

-----------------------------------------------------------------------------
(* Properties                                                              *)

AwakeFocuses == {i \in DOMAIN focuses : focuses[i].status \in Awake}

\* Every required role that has a focus at all has one awake, whatever pins
\* and weights compete for the budget.
RequiredRolesCovered ==
    \A n \in DOMAIN MinimumRoleCoverage :
        (\E i \in DOMAIN focuses : focuses[i].role = MinimumRoleCoverage[n]
                                   /\ focuses[i].status # "released")
        => \E i \in AwakeFocuses : focuses[i].role = MinimumRoleCoverage[n]

\* Dominance is granted only when the score margin is meaningful: a focus with
\* the status of the dominant one leads every other awake focus by the margin.
DominanceIsMeaningful ==
    \A i \in DOMAIN focuses : focuses[i].status = "dominant" =>
        \A j \in AwakeFocuses \ {i} :
            focuses[i].weight - focuses[j].weight >= ATTENTION_POLICY.dominantMinimumMargin
=============================================================================
