----------------------------- MODULE VisionSearch -----------------------------
(***************************************************************************)
(* A search with progressive visions over a memory that changes: its       *)
(* caller advances the ensemble with what was explored and learnt, saves   *)
(* the checkpoints it is handed, asks the loop guard before it goes on     *)
(* from a node, and goes back to a checkpoint.                             *)
(***************************************************************************)
EXTENDS VisionEnsemble, VisionMemory

CONSTANTS
    Start,              \* the seeds and the context field of the first ensemble
    Advances,           \* what an advance may bring about a vision
    MinimumProgress,
    MaxRevisitsWithoutProgress,
    MaxCalls            \* bound on the calls of a search

ASSUME GuardConstants == MaxRevisitsWithoutProgress \in Nat

ASSUME SearchConstants ==
    /\ AreSeeds(Start.seeds)
    /\ \A input \in Advances :
          /\ IsEvidence(input.evidence) /\ AreObserved(input.observations)
          /\ AreSeeds(input.newSeeds)

VARIABLES
    task, field,
    stored,             \* the checkpoint store: id |-> checkpoint
    byVision,           \* and the ids of each vision in the order of their first save
    entries,            \* the loop guard: state |-> what is known of it
    visits,             \* history: state |-> its checks since its vision was last cleared
    calls

searchVars == <<task, field, stored, byVision, entries, visits, calls>>
vars == <<ensembleVars, memoryVars, searchVars>>

Visions == Range(ensemble.visions)

Init ==
    /\ MemoryInit
    /\ task \in Tasks
    /\ field = Start.field
    /\ createProgressiveVisionEnsemble(Start.seeds, task, field, branches)
    /\ stored = <<>>
    /\ byVision = <<>>
    /\ entries = <<>>
    /\ visits = <<>>
    /\ calls = 0

Calls == calls < MaxCalls /\ calls' = calls + 1

-----------------------------------------------------------------------------
(* The checkpoint store.                                                   *)

Saved(id) == IF id \in DOMAIN byVision THEN byVision[id] ELSE <<>>

\* The checkpoints are saved in order.  One saved again keeps its place in the
\* list of its vision but not its contents.
saveAll(checkpoints) ==
    LET ids == [i \in DOMAIN checkpoints |-> checkpoints[i].id]
        last(id) == Max({i \in DOMAIN ids : ids[i] = id})
        unlisted(v) ==
            {i \in DOMAIN ids : /\ checkpoints[i].visionId = v
                                /\ ids[i] \notin Range(Saved(v)) \cup {ids[j] : j \in 1..(i - 1)}}
    IN  /\ stored' = [id \in DOMAIN stored \cup Range(ids) |->
                          IF id \in Range(ids) THEN checkpoints[last(id)] ELSE stored[id]]
        /\ byVision' = [v \in DOMAIN byVision \cup {c.visionId : c \in Range(checkpoints)} |->
                            Saved(v) \o AtPlaces(ids, unlisted(v))]

getLatest(id) == stored[Last(Saved(id))]

deleteVision(id) ==
    /\ stored' = Restrict(stored, DOMAIN stored \ Range(Saved(id)))
    /\ byVision' = Restrict(byVision, DOMAIN byVision \ {id})

-----------------------------------------------------------------------------
(* The loop guard.                                                         *)

signature(v, node) == <<v.id, field.awake, node, v.unresolved, task.constraints>>

\* Whether a check brings progress or new evidence over an entry.
Anew(entry, v) ==
    \/ v.score >= entry.bestProgress + MinimumProgress
    \/ v.supportingIds # entry.evidence

Fresh(v, best) ==
    [visionId |-> v.id, bestProgress |-> best, evidence |-> v.supportingIds, repeated |-> 0]

\* Mutant: a refused revisit starts the count again.
CheckedForgiving(v, node) ==
    LET state == signature(v, node)
    IN  IF state \notin DOMAIN entries THEN Fresh(v, v.score)
        ELSE IF Anew(entries[state], v) \/ entries[state].repeated >= MaxRevisitsWithoutProgress
        THEN Fresh(v, Higher(entries[state].bestProgress, v.score))
        ELSE [entries[state] EXCEPT !.repeated = @ + 1]

\* The entry of a state after a check.
Checked(v, node) ==
    LET state == signature(v, node)
    IN  IF state \notin DOMAIN entries THEN Fresh(v, v.score)
        ELSE IF Anew(entries[state], v)
        THEN Fresh(v, Higher(entries[state].bestProgress, v.score))
        ELSE [entries[state] EXCEPT !.repeated = @ + 1]

With(f, x, y) == [z \in DOMAIN f \cup {x} |-> IF z = x THEN y ELSE f[z]]

checkAndRecord(v, node) ==
    LET state == signature(v, node)
        entry == Checked(v, node)
        check == [evidence |-> v.supportingIds, progress |-> v.score, best |-> entry.bestProgress,
                  allowed |-> entry.repeated <= MaxRevisitsWithoutProgress]
        before == IF state \in DOMAIN visits THEN visits[state] ELSE <<>>
    IN  /\ entries' = With(entries, state, entry)
        /\ visits' = With(visits, state, Append(before, check))

clearVision(id) ==
    /\ entries' = Restrict(entries, {s \in DOMAIN entries : entries[s].visionId # id})
    /\ visits' = Restrict(visits, {s \in DOMAIN visits : s[1] # id})

-----------------------------------------------------------------------------
(* The calls of a search.                                                  *)

\* The context, the evidence and the observation are about one vision; the
\* checkpoints are saved.
Advance(v, input) ==
    LET next == [revision |-> field.revision + input.shift, awake |-> input.awake]
        evidence == {[id |-> e.id, visionId |-> v.id, kind |-> e.kind, weight |-> e.weight,
                      key |-> e.key, contextRevision |-> next.revision] : e \in input.evidence}
        observations == {[visionId |-> v.id, visited |-> o.visited, frontier |-> o.frontier,
                          injected |-> o.injected, resolved |-> o.resolved, depth |-> o.depth,
                          utilityGain |-> o.utilityGain, exhausted |-> o.exhausted] :
                             o \in input.observations}
    IN  /\ Calls
        /\ field' = next
        /\ advanceProgressiveVisionEnsemble(task, next, branches, evidence, observations,
                                            input.newSeeds)
        /\ saveAll(CheckpointsOfAdvance(branches, observations))
        /\ UNCHANGED <<memoryVars, task, entries, visits>>

Check(v, node) ==
    /\ Calls
    /\ node \in v.visited \cup v.frontier
    /\ checkAndRecord(v, node)
    /\ UNCHANGED <<ensembleVars, memoryVars, task, field, stored, byVision>>

\* The caller puts the vision it gets back into the ensemble.
Backtrack(i) ==
    LET v == ensemble.visions[i]
    IN  /\ Calls
        /\ Saved(v.id) # <<>>
        /\ ensemble' = [ensemble EXCEPT
               !.visions[i] = backtrackProgressiveVision(v, getLatest(v.id))]
        /\ UNCHANGED <<backtrackEligible, memoryVars, task, field, stored, byVision, entries, visits>>

\* A vision that has left the ensemble is forgotten.
Forget(id) ==
    /\ Calls
    /\ id \notin Ids(Visions)
    /\ deleteVision(id)
    /\ clearVision(id)
    /\ UNCHANGED <<ensembleVars, memoryVars, task, field>>

MemoryStep ==
    /\ Calls
    /\ \/ \E t \in Tasks : Look(t)
       \/ \E b \in branches : Reconsider(b) \/ Shrink(b)
       \/ \E b \in LateBranches : Grow(b)
    /\ UNCHANGED <<ensembleVars, task, field, stored, byVision, entries, visits>>

Next ==
    \/ \E v \in Visions, input \in Advances : Advance(v, input)
    \/ \E v \in Visions : \E node \in v.visited \cup v.frontier : Check(v, node)
    \/ \E i \in DOMAIN ensemble.visions : Backtrack(i)
    \/ \E id \in DOMAIN byVision : Forget(id)
    \/ MemoryStep

Spec == Init /\ [][Next]_vars

-----------------------------------------------------------------------------
(* A loop ends: of the checks of one state, one is allowed more than       *)
(* MaxRevisitsWithoutProgress after another only if in between some check  *)
(* brought other evidence than the one before it, or MinimumProgress over  *)
(* the best on record then (VisionLoopGuard, docs/progressive-visions.md). *)
LoopsAreBounded ==
    \A state \in DOMAIN visits : LET checks == visits[state] IN
        \A i, j \in DOMAIN checks :
            /\ j > i + MaxRevisitsWithoutProgress
            /\ checks[j].allowed
            => \E k \in (i + 1)..j :
                  \/ checks[k].evidence # checks[k - 1].evidence
                  \/ checks[k].progress >= checks[k - 1].best + MinimumProgress

(* A vision goes on under its id or inside the vision it was merged into,  *)
(* with all evidence, contradictions and checkpoints it had.               *)
MergingLosesNothing ==
    [][\A v \in Visions :
          \E w \in Range(ensemble'.visions) :
              /\ v.id \in {w.id} \cup w.mergedFrom
              /\ v.mergedFrom \subseteq w.mergedFrom
              /\ v.supportingIds \subseteq w.supportingIds
              /\ v.contradictionIds \subseteq w.contradictionIds
              /\ v.checkpointIds \subseteq w.checkpointIds]_vars

(* A vision the last advance names as eligible for backtracking has, among *)
(* its checkpoints, a stored one that backtrackProgressiveVision accepts:  *)
(* "Evidence, checkpoints, frontiers, visited nodes, and lineage are       *)
(* combined" (docs/progressive-visions.md).  Merging breaks it.            *)
EligibleVisionsCanBacktrack ==
    \A v \in {w \in Visions : w.id \in backtrackEligible} :
        \E id \in v.checkpointIds \cap DOMAIN stored : stored[id].visionId = v.id
=============================================================================
