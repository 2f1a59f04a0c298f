----------------------------- MODULE BranchVision -----------------------------
(***************************************************************************)
(* A memory vision of a task: the branches the task admits, each a         *)
(* frontier with its utility, cost and uncertainty, and the branches it    *)
(* excludes, each with the reason.                                         *)
(*                                                                         *)
(* A branch is a record of its id, project, whether it is shared across    *)
(* projects, the effects it predicts, whether it is contradicted, the      *)
(* constraints it requires, its prior utility and its evidence confidence; *)
(* a task names its project, constraints and forbidden effects.  Branches  *)
(* are sets: the order of frontiers decides only the anchors.              *)
(*                                                                         *)
(* A memory vision is kept as its frontiers and exclusions, from which its *)
(* allowed branches, likely patterns and confidence follow.  Its id and    *)
(* its anchors are left out: a full resolution makes the id of the task    *)
(* and the revision and anchors queued branches, an update lengthens the   *)
(* id it finds and puts awake contexts before the branches.                *)
(***************************************************************************)
EXTENDS Evidence

CONSTANT NoProject      \* a scope without a projectId

\* Branches are finitely many, with numbers and finite requirements.
AreBranches(branches) ==
    /\ IsFiniteSet(branches)
    /\ \A b \in branches : b.prior \in Int /\ IsFiniteSet(b.required)

projectScopeMatches(left, right, shared) ==
    shared \/ left = NoProject \/ right = NoProject \/ left = right

exclusion(branch, task) ==
    FirstOf(<<
        <<~projectScopeMatches(branch.project, task.project, branch.shared), "scope_mismatch">>,
        <<branch.effects \cap task.forbidden # {}, "forbidden_effect">>,
        <<branch.contradicted, "contradicted">>,
        <<TRUE, "none">> >>)

frontierOf(branch, task) ==
    LET uncertainty == (1000 * Cardinality(branch.required \ task.constraints))
                         \div Higher(1, Cardinality(branch.required))
    IN  [branchId |-> branch.id,
         estimatedUtility |-> Clamp(Scale(branch.prior, 1000 - uncertainty \div 2)),
         estimatedCost |-> 1000 + 3 * uncertainty + 2 * (1000 - branch.evidence),
         uncertainty |-> uncertainty,
         state |-> IF uncertainty > 500 THEN "deferred" ELSE "queued"]

Assessed(branches, task) ==
    [frontiers |-> {frontierOf(b, task) : b \in {c \in branches : exclusion(c, task) = "none"}},
     excludedBranches |-> {[branchId |-> b.id, reason |-> exclusion(b, task)] :
                              b \in {c \in branches : exclusion(c, task) # "none"}}]

resolveMemoryVision(branches, task) == Assessed(branches, task)

allowedBranchIds(vision) == {f.branchId : f \in vision.frontiers}

confidence(vision) ==
    IF vision.frontiers = {} THEN 0
    ELSE MapThenSumSet(LAMBDA f : Scale(f.estimatedUtility, 1000 - f.uncertainty),
                       vision.frontiers) \div Cardinality(vision.frontiers)

\* Only the affected branches are assessed again; one that no longer exists
\* leaves the vision.
updateMemoryVision(previous, branches, affected, task) ==
    LET again == Assessed({b \in branches : b.id \in affected}, task)
    IN  [frontiers |-> {f \in previous.frontiers : f.branchId \notin affected} \cup again.frontiers,
         excludedBranches |->
             {e \in previous.excludedBranches : e.branchId \notin affected} \cup again.excludedBranches]
=============================================================================
