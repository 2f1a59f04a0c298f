--------------------------- MODULE MCAdaptiveMemory ---------------------------
\* Adaptive memory with two contexts, a few cycles and outcomes; numbers are
\* chosen around the thresholds of the policies.
EXTENDS AdaptiveMemory

CONSTANTS h1, h2, m1, m2, m3, edge, claim

MCHabits == {h1, h2}

Habit(discriminators, automaticity, status) ==
    [fingerprint |-> "A", discriminators |-> discriminators, preferredRoles |-> {"experience"},
     successes |-> {}, failures |-> {}, automaticity |-> automaticity, applicability |-> 700,
     status |-> status, reactivationConditions |-> {}, supersededBy |-> NoHabit]

MCInitialHabits == (h1 :> Habit({"x", "y"}, 500, "active"))
                   @@ (h2 :> Habit({"x"}, 800, "relearning"))

Model(fingerprint, coherence) ==
    [status |-> "alternative", fingerprint |-> fingerprint, targets |-> {claim},
     claims |-> (claim :> [status |-> "held", confidence |-> 600, challengeKeys |-> {}]),
     coherence |-> coherence, stability |-> 600, plasticity |-> 400, uncertainty |-> 300,
     coverage |-> 500, contradiction |-> 100, pressure |-> 0, supportKeys |-> {},
     challengeKeys |-> {}, derivedFrom |-> {}]

MCInitialModels == (m1 :> Model("A", 950)) @@ (m2 :> [Model("B", 300) EXCEPT !.coverage = 200])
MCInitialBackbone ==
    (edge :> [status |-> "candidate", confidence |-> 500, supportKeys |-> {}, challengeKeys |-> {}])

-----------------------------------------------------------------------------
MCMinimumRoleCoverage == <<"goal", "challenge">>

Even(n) == [s \in DOMAIN CandidateWeights |-> n]
Focus(name, role, level, contexts, pinned) ==
    [id |-> <<name>>, role |-> role, type |-> "need", target |-> <<name>>, contexts |-> contexts,
     truths |-> {}, pinned |-> pinned, signals |-> Even(level)]

Proposal(name, hypothesis, attentions, branches, truths, prior) ==
    [id |-> name, hypothesis |-> hypothesis, attentions |-> attentions, truths |-> truths,
     assumptions |-> {}, branches |-> branches, questions |-> {name},
     conclusions |-> {[key |-> "cause", statement |-> hypothesis, confidence |-> prior]},
     scope |-> "p", shared |-> FALSE, prior |-> prior, novelty |-> 300, cost |-> 200, risk |-> 200]

Branch(name, project, contradicted) ==
    [id |-> name, project |-> project, shared |-> FALSE, effects |-> {},
     contradicted |-> contradicted, required |-> {}, prior |-> 700, evidence |-> 600]

Observation(history, debts, visited, injected, depth) ==
    [history |-> history, debts |-> debts, visited |-> visited, injected |-> injected,
     depth |-> depth, contextChanged |-> FALSE, truthChanged |-> FALSE]

Goal == Focus("goal", "goal", 700, {"A"}, TRUE)
Doubt == Focus("doubt", "uncertainty", 650, {"A"}, FALSE)
Habitual == Focus("habit", "experience", 400, {"B"}, FALSE)
Twin == Proposal("twin", "cache", {<<"goal">>}, {"b1"}, {}, 500)
Cache == Proposal("cache", "cache", {<<"goal">>}, {"b1"}, {"truth"}, 700)
Index == [Proposal("index", "index", {<<"doubt">>}, {"b1"}, {}, 650)
             EXCEPT !.conclusions = {[key |-> "cause", statement |-> "cache", confidence |-> 500]}]
Weak == Proposal("weak", "weak", {<<"goal">>, <<"doubt">>}, {"b1"}, {}, 0)
Schema == Proposal("schema", "schema", {<<"doubt">>}, {"b1", "b2"}, {}, 600)
Stale == Proposal("stale", "stale", {<<"goal">>}, {"b1"}, {"gone"}, 700)

CycleIn(fingerprint, delta, candidates, proposals, satisfied, observation) ==
    [fingerprint |-> fingerprint, active |-> {fingerprint}, delta |-> delta,
     candidates |-> candidates, proposals |-> proposals, satisfied |-> satisfied,
     evidence |-> {[view |-> "schema", effect |-> "contradicts", key |-> <<"e">>, weight |-> 300]},
     branches |-> {Branch("b1", "p", FALSE), Branch("b2", "q", FALSE)},
     task |-> [project |-> "p", constraints |-> {}, forbidden |-> {}], scope |-> "p",
     observation |-> observation]

Debt == [id |-> "debt", criticality |-> 900, risk |-> 900, coverage |-> 100]

MCCycles ==
    {CycleIn("A", 1, <<Goal, Doubt>>, <<Cache, Twin, Schema, Index, Weak>>, {},
             Observation(<<>>, {}, 10, 2, 4)),
     CycleIn("A", 4, <<Habitual>>, <<Schema, Stale>>, {"evidence"},
             Observation(<<"v", "w", "v", "w", "v">>, {Debt}, 10, 8, 0)),
     CycleIn("B", 2, <<Habitual, Doubt>>, <<Twin, Cache>>, {}, Observation(<<>>, {}, 0, 0, 0))}

-----------------------------------------------------------------------------
Weights(experience, challenge) ==
    [r \in ATTENTION_ROLES |-> CASE r = "experience" -> experience
                                 [] r = "challenge" -> challenge
                                 [] r = "goal" -> 300
                                 [] OTHER -> 0]

Trajectory(fingerprint, weights, grounding) ==
    [fingerprint |-> fingerprint, discriminators |-> {"x"}, roles |-> weights,
     activeViews |-> 2, selected |-> NoView, rejected |-> {}, verdict |-> "unresolved",
     prediction |-> 500, causal |-> "unverified", promoted |-> FALSE, grounding |-> grounding,
     visited |-> 10, injected |-> 4, durationMs |-> 3000, key |-> <<>>]

Outcome(verdict, name, revisit, linkObservations) ==
    [verdict |-> verdict, confidence |-> 900, key |-> <<name>>, discriminators |-> {},
     revisit |-> revisit, capsules |-> {}, linkObservations |-> linkObservations]

Link(effect, name, at) ==
    [link |-> "link", effect |-> effect, key |-> <<name>>, at |-> at, weight |-> 800]

Of(h, kind, name, fingerprint, discriminators) ==
    [habit |-> h, kind |-> kind, key |-> <<name>>, weight |-> 800, fingerprint |-> fingerprint,
     discriminators |-> discriminators]

Saying(kind, effect, name, target, fingerprint) ==
    [kind |-> kind, effect |-> effect, targets |-> target, weight |-> 900, key |-> <<name>>,
     fingerprint |-> fingerprint]

Completion(outcome, trajectory, habit, habitObservations, observations, replacementId) ==
    [outcome |-> outcome, trajectory |-> trajectory, active |-> {trajectory.fingerprint},
     delta |-> 1, habit |-> habit, habitObservations |-> habitObservations,
     replacementHabit |-> NoHabit, observations |-> observations,
     replacementId |-> replacementId, replacement |-> Model("B", 650)]

MCCompletions ==
    {\* supported, twice over one link, and a success of h2; challenge is just
     \* below what it should have
     Completion(Outcome("supported", "o1", {}, <<Link("supports", "o1", 1), Link("supports", "o1", 2)>>),
                Trajectory("A", Weights(600, 73), {"test"}), h2,
                <<Of(h2, "success", "s0", "A", {"x"})>>,
                {Saying("view_outcome", "supports", "o1", {edge, claim}, "A")}, NoModel),
     \* contradicted: two independent failures of h1, the last without y
     Completion(Outcome("contradicted", "o2", {"evidence"}, <<Link("contradicts", "o2", 1)>>),
                Trajectory("A", Weights(100, 300), {"test"}), h1,
                <<Of(h1, "failure", "f1", "A", {"x", "y"}), Of(h1, "failure", "f2", "A", {"x"})>>,
                {}, NoModel),
     \* another context: the context of h1 is gone, and the model with it
     Completion(Outcome("context_mismatch", "o3", {}, <<>>),
                Trajectory("B", Weights(100, 50), {"trace"}), h1,
                <<Of(h1, "failure", "f1", "B", {"z"}), Of(h1, "failure", "f3", "B", {"z"})>>,
                {Saying("truth_change", "supersedes", "t1", {edge, claim}, "B"),
                 Saying("context_shift", "challenges", "t2", {}, "B")}, m3),
     \* left open and not grounded, on evidence known already: correlated failures of h2
     Completion(Outcome("unresolved", "o4", {"evidence"}, <<Link("supports", "o1", 3)>>),
                [Trajectory("B", Weights(0, 0), {}) EXCEPT !.injected = 6], h2,
                <<Of(h2, "failure", "f4", "A", {"x"}), Of(h2, "failure", "f4", "A", {"x", "y"})>>,
                {}, NoModel),
     \* a superior strategy, the other habit
     [Completion(Outcome("partially_supported", "o5", {}, <<>>),
                 Trajectory("A", Weights(100, 50), {"review"}), h2,
                 <<Of(h2, "superior_strategy", "s1", "A", {"x"})>>,
                 {Saying("context_shift", "supersedes", "t3", {}, "B")}, NoModel)
          EXCEPT !.replacementHabit = h1, !.trajectory.promoted = TRUE],
     \* what h1 assumed is no longer true; not grounded either
     Completion(Outcome("truth_conflict", "o6", {}, <<>>),
                Trajectory("A", Weights(100, 50), {}), h1,
                <<Of(h1, "truth_supersession", "u1", "A", {"x", "y"})>>, {}, NoModel)}

MCSatisfiedSets ==
    {{<<"new-independent-success">>, <<"contradiction-resolved">>},
     {<<"explicit-revalidation">>, <<"new-independent-success">>, <<"contradiction-resolved">>,
      <<"context-restores", "x">>, <<"context-restores", "y">>}}
=============================================================================
