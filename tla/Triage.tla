-------------------------------- MODULE Triage --------------------------------
(***************************************************************************)
(* Cross-View triage: proposals become Views, are scored against the       *)
(* attention field, the truths and the branches, merged when they say the  *)
(* same, and ranked into active, deferred and rejected ones.               *)
(*                                                                         *)
(* Of two Views of one score the one proposed first comes first.  The id   *)
(* of a merged View is made of its parts' ids; conclusions are known by    *)
(* their key, statement and confidence.                                    *)
(***************************************************************************)
EXTENDS BranchVision, SequencesExt

CONSTANTS
    MaxActiveViews,         \* policy.maxActiveViews
    MaxDeferredViews,       \* policy.maxDeferredViews
    ActiveTruths,           \* ids of the active truth anchors of the core
    NoDominant              \* dominantViewId null

VARIABLE triage         \* the last result: its views, dominantViewId, traces and consensus

TRIAGE_POLICY ==
    [minimumPromisingScore |-> 280, contradictionThreshold |-> 780,
     truthConflictThreshold |-> 720, redundancyThreshold |-> 900,
     dominanceMargin |-> 60, minimumAttentionCoverage |-> 120]

Hard == {"ineligible", "contradicted"}

\* Before the first cycle.
TriageInit == triage = [views |-> <<>>, dominantViewId |-> NoDominant, rejectedTraces |-> <<>>,
                        consensus |-> {}, divergences |-> {}, commonAttentions |-> {}]

-----------------------------------------------------------------------------
(* From a proposal to a View                                               *)

\* Proposals are a sequence, with numbers and finitely many truths.
AreProposals(proposals) ==
    /\ DOMAIN proposals = 1..Len(proposals) /\ Len(proposals) \in Nat
    /\ \A i \in DOMAIN proposals : LET p == proposals[i] IN
          {p.prior, p.novelty, p.cost, p.risk} \subseteq Int /\ IsFiniteSet(p.truths)

AreEvidence(evidenceOfViews) ==
    IsFiniteSet(evidenceOfViews) /\ \A e \in evidenceOfViews : e.weight \in Int

\* How much of the weight of the awake focuses the proposal attends to.
attentionCoverage(proposal, awake) ==
    LET Weight(I) == MapThenSumSet(LAMBDA f : f.weight, I)
    IN  IF Weight(awake) = 0 THEN IF proposal.attentions = {} THEN 1000 ELSE 0
        ELSE Clamp((1000 * Weight({f \in awake : f.id \in proposal.attentions}))
                   \div Weight(awake))

\* View evidence is a set of records of a view, an effect, a key and a weight.
Effect(id, evidenceOfViews, effect) ==
    Pressure({e \in evidenceOfViews : e.view = id /\ e.effect = effect})

createAttentionView(proposal, awake, evidenceOfViews) ==
    [id |-> <<proposal.id>>, hypothesis |-> proposal.hypothesis,
     attentions |-> proposal.attentions, truths |-> proposal.truths,
     assumptions |-> proposal.assumptions, branches |-> proposal.branches,
     questions |-> proposal.questions, conclusions |-> proposal.conclusions,
     scope |-> proposal.scope, shared |-> proposal.shared, prior |-> proposal.prior,
     novelty |-> proposal.novelty, cost |-> proposal.cost, risk |-> proposal.risk,
     support |-> Effect(proposal.id, evidenceOfViews, "supports"),
     contradiction |-> Effect(proposal.id, evidenceOfViews, "contradicts"),
     coverage |-> attentionCoverage(proposal, awake),
     eligible |-> {}, truthScore |-> 1000, score |-> 0, status |-> "candidate", seed |-> TRUE]

truthConflicts(view) == (view.truths \ ActiveTruths) \cup (view.assumptions \cap view.truths)

truthConsistency(view) ==
    IF view.truths = {} THEN 1000
    ELSE Clamp((1000 * (Cardinality(view.truths) - Cardinality(truthConflicts(view))))
               \div Cardinality(view.truths))

triageOne(view, branches, task, scope) ==
    LET vision == resolveMemoryVision({b \in branches : b.id \in view.branches}, task)
        truth == truthConsistency(view)
        score == Clamp((view.prior * 17 + view.support * 17 + view.coverage * 18
                        + (IF view.questions = {} THEN 0 ELSE 11000) + view.novelty * 10
                        + truth * 17 + confidence(vision) * 10 - view.contradiction * 20
                        - view.cost * 8 - view.risk * 5) \div 100)
        status == FirstOf(<<
            <<\/ ~projectScopeMatches(view.scope, scope, view.shared)
              \/ allowedBranchIds(vision) = {}
              \/ truth < TRIAGE_POLICY.truthConflictThreshold, "ineligible">>,
            <<view.contradiction >= TRIAGE_POLICY.contradictionThreshold, "contradicted">>,
            <<score >= TRIAGE_POLICY.minimumPromisingScore, "promising">>,
            <<TRUE, "deferred">> >>)
    IN  [view EXCEPT !.eligible = allowedBranchIds(vision), !.truthScore = truth,
                     !.score = score, !.status = status, !.seed = status \notin Hard]

-----------------------------------------------------------------------------
(* Merging and ranking                                                     *)

viewSimilarity(left, right) ==
    (IF left.hypothesis = right.hypothesis THEN 450 ELSE 0)
    + Scale(350, Similarity(left.eligible, right.eligible))
    + Scale(200, Similarity(left.attentions, right.attentions))

\* Of the conclusions of one key the most confident is kept.
MergedConclusions(left, right) ==
    LET all == left.conclusions \cup right.conclusions
    IN  {c \in all : \A d \in all : d.key = c.key =>
                        \/ d.confidence < c.confidence
                        \/ d.confidence = c.confidence /\ (c \in left.conclusions \/ d = c)}

\* Mutant: the merged View keeps the attention and truths of the stronger only.
mergeViewsStronger(left, right) ==
    [(IF left.score >= right.score THEN left ELSE right) EXCEPT
        !.id = left.id \o right.id, !.status = "candidate"]

mergeViews(left, right) ==
    LET Best(m, n, part) == Clamp(Higher(m, n) + Scale(part, Lower(m, n)))
    IN  [(IF left.score >= right.score THEN left ELSE right) EXCEPT
            !.id = left.id \o right.id,
            !.attentions = left.attentions \cup right.attentions,
            !.truths = left.truths \cup right.truths,
            !.assumptions = left.assumptions \cup right.assumptions,
            !.branches = left.branches \cup right.branches,
            !.eligible = left.eligible \cup right.eligible,
            !.questions = left.questions \cup right.questions,
            !.conclusions = MergedConclusions(left, right),
            !.support = Best(left.support, right.support, 150),
            !.contradiction = Lower(left.contradiction, right.contradiction),
            !.coverage = Higher(left.coverage, right.coverage),
            !.truthScore = Lower(left.truthScore, right.truthScore),
            !.cost = Lower(left.cost, right.cost),
            !.score = Best(left.score, right.score, 80),
            !.status = "candidate"]

\* One View joins those merged so far, or is redundant.
MergeInto(result, view) ==
    LET merged == result.merged
        twins == {i \in DOMAIN merged :
                    /\ merged[i].status \notin Hard
                    /\ viewSimilarity(merged[i], view) >= TRIAGE_POLICY.redundancyThreshold}
    IN  IF view.status \in Hard \/ twins = {}
        THEN [result EXCEPT !.merged = Append(@, view)]
        ELSE [result EXCEPT
                !.merged[Min(twins)] = mergeViews(@, view),
                !.redundant = Append(@, [view EXCEPT !.status = "redundant"])]

ViewIds(views) == {views[i].id : i \in DOMAIN views}

dominantViewId(active) ==
    IF active = <<>> THEN NoDominant
    ELSE IF Len(active) = 1
              \/ active[1].score - active[2].score >= TRIAGE_POLICY.dominanceMargin
         THEN active[1].id ELSE NoDominant

\* Whatever is left of the merged Views after the beam is exhausted.
Ranked(merged) ==
    LET eligible == ByScore(AtPlaces(merged, {i \in DOMAIN merged : merged[i].status \notin Hard}))
        active == SubSeq(eligible, 1, Lower(MaxActiveViews, Len(eligible)))
        deferred == SubSeq(eligible, Len(active) + 1,
                           Lower(MaxActiveViews + MaxDeferredViews, Len(eligible)))
    IN  [i \in DOMAIN merged |-> [merged[i] EXCEPT !.status = FirstOf(<<
            <<merged[i].id = dominantViewId(active), "dominant">>,
            <<merged[i].id \in ViewIds(active), "promising">>,
            <<merged[i].id \in ViewIds(deferred), "deferred">>,
            <<@ \in Hard, @>>,
            <<TRUE, "exhausted">> >>)]]

rejectedVerdict(view, scope) ==
    CASE view.status = "ineligible" ->
            IF view.truthScore < TRIAGE_POLICY.truthConflictThreshold THEN "truth_conflict"
            ELSE IF ~projectScopeMatches(view.scope, scope, view.shared)
            THEN "scope_mismatch" ELSE "context_mismatch"
      [] view.status = "exhausted" -> "missing_evidence"
      [] OTHER -> view.status

-----------------------------------------------------------------------------
(* Consensus                                                               *)

Leading(views) == {i \in DOMAIN views : views[i].status \in {"dominant", "promising"}}

\* The statements made on a key, and who makes each.
Statements(views, key) ==
    {c.statement : c \in {d \in UNION {views[i].conclusions : i \in Leading(views)} : d.key = key}}
Holders(views, key, statement) ==
    {i \in Leading(views) :
        \E c \in views[i].conclusions : c.key = key /\ c.statement = statement}

ConclusionKeys(views) == Keys(UNION {views[i].conclusions : i \in Leading(views)})

\* A statement made by 60 percent of the leading Views, and by two at least.
consensus(views) ==
    {ks \in UNION {{<<key, s>> : s \in Statements(views, key)} : key \in ConclusionKeys(views)} :
        /\ Cardinality(Holders(views, ks[1], ks[2])) >= 2
        /\ 10 * Cardinality(Holders(views, ks[1], ks[2])) >= 6 * Cardinality(Leading(views))}

divergences(views) == {k \in ConclusionKeys(views) : Cardinality(Statements(views, k)) > 1}

commonAttentions(views) ==
    {a \in UNION {views[i].attentions : i \in Leading(views)} :
        \A i \in Leading(views) : a \in views[i].attentions}

-----------------------------------------------------------------------------
(* generateAndTriageAttentionViews                                         *)

\* proposals is a sequence; awake holds the awake focuses of the field.
triageResult(proposals, awake, evidenceOfViews, branches, task, scope) ==
    LET triaged == [i \in DOMAIN proposals |->
                      triageOne(createAttentionView(proposals[i], awake, evidenceOfViews),
                                branches, task, scope)]
        result == FoldLeft(MergeInto, [merged |-> <<>>, redundant |-> <<>>], ByScore(triaged))
        ranked == Ranked(result.merged)
        views == ranked \o result.redundant
        dominant == {i \in DOMAIN ranked : ranked[i].status = "dominant"}
        rejected == AtPlaces(views, {i \in DOMAIN views : views[i].status \in
                                  {"ineligible", "contradicted", "redundant", "exhausted"}})
    IN  [views |-> views,
         dominantViewId |-> IF dominant = {} THEN NoDominant ELSE ranked[Min(dominant)].id,
         rejectedTraces |-> [i \in DOMAIN rejected |->
             [view |-> rejected[i].id, verdict |-> rejectedVerdict(rejected[i], scope)]],
         consensus |-> consensus(views), divergences |-> divergences(views),
         commonAttentions |-> commonAttentions(views)]

-----------------------------------------------------------------------------
(* Properties                                                              *)

\* No proposal is lost: a View that is merged away has its attention, truths
\* and questions in a View that is ranked with it, so that a later outcome of
\* that View reaches every focus that led to it, and every View that is not
\* active or deferred leaves a trace.
NoViewIsLost ==
    \A i \in DOMAIN triage.views : LET v == triage.views[i] IN
        /\ v.status = "redundant" =>
              \E j \in DOMAIN triage.views : LET w == triage.views[j] IN
                  /\ w.status \notin Hard \cup {"redundant"}
                  /\ v.id[1] \in {w.id[n] : n \in DOMAIN w.id}
                  /\ v.attentions \subseteq w.attentions /\ v.truths \subseteq w.truths
                  /\ v.questions \subseteq w.questions
        /\ v.status \notin {"dominant", "promising", "deferred"} =>
              \E n \in DOMAIN triage.rejectedTraces : triage.rejectedTraces[n].view = v.id
=============================================================================
