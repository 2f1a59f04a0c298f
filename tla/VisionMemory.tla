----------------------------- MODULE VisionMemory -----------------------------
(***************************************************************************)
(* The branches of the memory, the cache of the memory visions resolved    *)
(* from them, and a memory vision that is kept up to date by assessing     *)
(* only the branches that changed.  Who changes a branch says so: to the   *)
(* cache by its id, or by a new memory revision when a branch comes or     *)
(* goes, for no cached vision mentions a branch it has not seen.           *)
(***************************************************************************)
EXTENDS BranchVision

CONSTANTS
    Tasks,
    InitialBranches,
    LateBranches            \* branches that may come later

\* Every branch is a record that has an id, which changing it leaves alone, and
\* the numbers and requirements of a branch; the memory starts with finitely many.
ASSUME BranchConstants ==
    /\ \A b \in InitialBranches \cup LateBranches :
          {"id", "prior", "required"} \subseteq DOMAIN b /\ AreBranches({b})
    /\ IsFiniteSet(InitialBranches)

VARIABLES
    branches,
    memoryRevision,
    cached,                 \* <<task, memory revision>> |-> memory vision
    followed                \* the memory vision of each task, kept by updates

memoryVars == <<branches, memoryRevision, cached, followed>>

MemoryInit ==
    /\ branches = InitialBranches
    /\ memoryRevision = 0
    /\ cached = <<>>
    /\ followed = [task \in Tasks |-> resolveMemoryVision(branches, task)]

Kept(keys) == [key \in keys |-> cached[key]]

invalidateByMemoryRevision(revision) == Kept({key \in DOMAIN cached : key[2] >= revision})

\* Mutant: a vision is touched only by the branches it allows.
invalidateByAllowedIds(ids) ==
    Kept({key \in DOMAIN cached : allowedBranchIds(cached[key]) \cap ids = {}})

invalidateByBranchIds(ids) ==
    Kept({key \in DOMAIN cached :
             (allowedBranchIds(cached[key]) \cup {e.branchId : e \in cached[key].excludedBranches})
                 \cap ids = {}})

\* The followed visions after the branches with these ids have changed.
UpdatedFor(next, ids) ==
    [task \in Tasks |-> updateMemoryVision(followed[task], next, ids, task)]

\* A vision that is not in the cache is resolved and set.
Look(task) ==
    /\ <<task, memoryRevision>> \notin DOMAIN cached
    /\ cached' = [key \in DOMAIN cached \cup {<<task, memoryRevision>>} |->
                     IF key \in DOMAIN cached THEN cached[key]
                     ELSE resolveMemoryVision(branches, task)]
    /\ UNCHANGED <<branches, memoryRevision, followed>>

\* Knowledge behind a branch is contradicted, or the contradiction resolved.
Reconsider(b) ==
    /\ branches' = (branches \ {b}) \cup {[b EXCEPT !.contradicted = ~@]}
    /\ cached' = invalidateByBranchIds({b.id})
    /\ followed' = UpdatedFor(branches', {b.id})
    /\ UNCHANGED memoryRevision

ComeOrGo(next, id) ==
    /\ branches' = next
    /\ memoryRevision' = memoryRevision + 1
    /\ cached' = invalidateByMemoryRevision(memoryRevision + 1)
    /\ followed' = UpdatedFor(next, {id})

Grow(b) == b.id \notin {c.id : c \in branches} /\ ComeOrGo(branches \cup {b}, b.id)
Shrink(b) == ComeOrGo(branches \ {b}, b.id)

-----------------------------------------------------------------------------
(* Neither way of sparing a full resolution of the current branches shows: *)
(* the vision updated for the changed branches only is the one it would    *)
(* give (updateMemoryVision), and so is whatever the cache returns for the *)
(* current memory revision, for the invalidation by branch ids forgets     *)
(* every vision a change of a branch could alter (VisionCache).  That is   *)
(* claimed of frontiers and exclusions: the id and the anchors of an       *)
(* updated vision are others than those of a resolved one.                 *)
MemoryVisionsAreCurrent ==
    \A task \in Tasks :
        LET current == resolveMemoryVision(branches, task)
            key == <<task, memoryRevision>>
        IN  /\ followed[task] = current
            /\ key \in DOMAIN cached => cached[key] = current
=============================================================================
