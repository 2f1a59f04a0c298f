---------------------------- MODULE MCVisionSearch ----------------------------
(* Two visions of one hypothesis that a later seed doubles, and a broad     *)
(* one that is split, over three branches of a small memory.                *)
EXTENDS VisionSearch

CONSTANTS atlas, b1, b2, b3, f1, f2, n1, n2, q, rule, effect, s1, s2, s3, h, g

Branch(id, prior) ==
    [id |-> id, project |-> atlas, shared |-> FALSE, effects |-> {}, contradicted |-> FALSE,
     required |-> {rule}, prior |-> prior, evidence |-> 840]
Replay == [Branch(b3, 950) EXCEPT !.effects = {effect}, !.required = {}]

MCBranches == {Branch(b1, 880), Branch(b2, 820)}
MCLateBranches == {Replay}
MCTasks == {[project |-> atlas, constraints |-> {rule}, forbidden |-> {effect}]}

Seed(id, hypothesis, branchIds, prior) ==
    [id |-> id, hypothesis |-> hypothesis, branchIds |-> branchIds, anchors |-> {f1},
     questions |-> {q}, priorUtility |-> prior, novelty |-> 650, project |-> atlas,
     shared |-> FALSE]
Narrow == Seed(s1, h, <<b1>>, 500)
Again == Seed(s2, h, <<b1>>, 900)
Broad == Seed(s3, g, <<b1, b2, b3>>, 700)

MCStart == [seeds |-> <<Narrow, Broad>>, field |-> [revision |-> 1, awake |-> <<f1>>]]

Nothing == [shift |-> 0, awake |-> <<f1>>, evidence |-> {}, observations |-> {},
            newSeeds |-> <<>>]
Item(id, kind, weight) == [id |-> id, kind |-> kind, weight |-> weight, key |-> id]
Seen(visited, frontier, exhausted) ==
    [visited |-> visited, frontier |-> frontier, injected |-> {}, resolved |-> {},
     depth |-> 2, utilityGain |-> 50, exhausted |-> exhausted]

MCAdvances == {
    [Nothing EXCEPT !.observations = {Seen({n1}, {n2}, FALSE)}],
    [Nothing EXCEPT !.observations = {[Seen({n2}, {}, TRUE) EXCEPT !.resolved = {q}]},
                    !.evidence = {Item("passed", "support", 600)}],
    [Nothing EXCEPT !.evidence = {Item("refuted", "contradiction", 850)}],
    [Nothing EXCEPT !.newSeeds = <<Again>>],
    [Nothing EXCEPT !.newSeeds = <<Broad>>, !.shift = 1],
    [Nothing EXCEPT !.awake = <<f2>>, !.shift = 1]}

\* Any order will do.
MCIdBefore(left, right) == left[1] = s1 /\ right[1] # s1
=============================================================================
