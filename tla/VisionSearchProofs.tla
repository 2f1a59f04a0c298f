-------------------------- MODULE VisionSearchProofs --------------------------
(***************************************************************************)
(* Proofs about VisionSearch for any tasks, branches, seeds, advances and  *)
(* budgets: whatever the calls of a search and the changes of its memory,  *)
(* memory visions that are cached or updated are current, loops end, and   *)
(* merging loses nothing of any vision.                                    *)
(***************************************************************************)
EXTENDS VisionSearch, EvidenceProofs, TLAPS

\* What is cached for a memory revision, and followed, is what a resolution of
\* the branches gives now; nothing is cached for a revision still to come.
MemoryInv ==
    /\ memoryRevision \in Nat
    /\ \A b \in branches : "id" \in DOMAIN b
    /\ followed = [t \in Tasks |-> resolveMemoryVision(branches, t)]
    /\ \A key \in DOMAIN cached :
           /\ key[2] \in Nat /\ key[2] <= memoryRevision
           /\ key[2] = memoryRevision => cached[key] = resolveMemoryVision(branches, key[1])

\* Two sets of branches differ at most in branches of one id.
SameBut(B, C, id) == \A b : b.id # id => (b \in B <=> b \in C)

-----------------------------------------------------------------------------
(* What the operators on memory visions return                             *)

\* A frontier is of the branch it assesses.
LEMMA FrontierBranch ==
    ASSUME NEW b, NEW t
    PROVE  frontierOf(b, t).branchId = b.id
BY DEF frontierOf

\* A resolved vision allows or excludes every branch there is.
LEMMA EveryBranchAssessed ==
    ASSUME NEW B, NEW t, NEW b \in B
    PROVE  b.id \in allowedBranchIds(resolveMemoryVision(B, t))
                    \cup {e.branchId : e \in resolveMemoryVision(B, t).excludedBranches}
<1> DEFINE R == resolveMemoryVision(B, t)
<1>1. CASE exclusion(b, t) = "none"
  <2>1. frontierOf(b, t) \in R.frontiers
    BY <1>1 DEF resolveMemoryVision, Assessed
  <2> QED BY <2>1, FrontierBranch DEF allowedBranchIds
<1>2. CASE exclusion(b, t) # "none"
  <2> DEFINE e == [branchId |-> b.id, reason |-> exclusion(b, t)]
  <2>1. e \in R.excludedBranches
    BY <1>2 DEF resolveMemoryVision, Assessed
  <2>2. e.branchId = b.id
    OBVIOUS
  <2> HIDE DEF R, e
  <2> QED BY <2>1, <2>2 DEF R
<1> QED BY <1>1, <1>2

\* Two sets of branches that differ only in branches of one id: assessing that
\* one again makes the vision of the one the vision of the other.
LEMMA UpdateIsResolution ==
    ASSUME NEW B, NEW C, NEW t, NEW id, SameBut(B, C, id)
    PROVE  updateMemoryVision(resolveMemoryVision(B, t), C, {id}, t)
               = resolveMemoryVision(C, t)
<1> DEFINE old == resolveMemoryVision(B, t)
           new == resolveMemoryVision(C, t)
           again == Assessed({b \in C : b.id \in {id}}, t)
<1>1. /\ old.frontiers = {frontierOf(b, t) : b \in {c \in B : exclusion(c, t) = "none"}}
      /\ new.frontiers = {frontierOf(b, t) : b \in {c \in C : exclusion(c, t) = "none"}}
      /\ again.frontiers =
            {frontierOf(b, t) :
                b \in {c \in {d \in C : d.id \in {id}} : exclusion(c, t) = "none"}}
  BY DEF resolveMemoryVision, Assessed
<1>2. /\ old.excludedBranches =
            {[branchId |-> b.id, reason |-> exclusion(b, t)] :
                b \in {c \in B : exclusion(c, t) # "none"}}
      /\ new.excludedBranches =
            {[branchId |-> b.id, reason |-> exclusion(b, t)] :
                b \in {c \in C : exclusion(c, t) # "none"}}
      /\ again.excludedBranches =
            {[branchId |-> b.id, reason |-> exclusion(b, t)] :
                b \in {c \in {d \in C : d.id \in {id}} : exclusion(c, t) # "none"}}
  BY DEF resolveMemoryVision, Assessed
<1>3. new = [frontiers |-> new.frontiers, excludedBranches |-> new.excludedBranches]
  BY DEF resolveMemoryVision, Assessed
<1>4. updateMemoryVision(old, C, {id}, t) =
         [frontiers |-> {f \in old.frontiers : f.branchId \notin {id}} \cup again.frontiers,
          excludedBranches |->
             {e \in old.excludedBranches : e.branchId \notin {id}} \cup again.excludedBranches]
  BY DEF updateMemoryVision
<1> HIDE DEF old, new, again
<1>5. {f \in old.frontiers : f.branchId \notin {id}} \cup again.frontiers = new.frontiers
  BY <1>1, FrontierBranch DEF SameBut
<1>6. {e \in old.excludedBranches : e.branchId \notin {id}} \cup again.excludedBranches
        = new.excludedBranches
  <2> DEFINE entry(b) == [branchId |-> b.id, reason |-> exclusion(b, t)]
  <2>1. \A b : entry(b).branchId = b.id
    OBVIOUS
  <2>2. /\ old.excludedBranches = {entry(b) : b \in {c \in B : exclusion(c, t) # "none"}}
        /\ new.excludedBranches = {entry(b) : b \in {c \in C : exclusion(c, t) # "none"}}
        /\ again.excludedBranches =
             {entry(b) : b \in {c \in {d \in C : d.id \in {id}} : exclusion(c, t) # "none"}}
    BY <1>2
  <2> HIDE DEF entry
  <2> QED BY <2>1, <2>2 DEF SameBut
<1> QED BY <1>3, <1>4, <1>5, <1>6 DEF old, new

\* A change of the branches of one id leaves every followed vision current.
LEMMA FollowedStaysCurrent ==
    ASSUME MemoryInv, NEW C, NEW id, SameBut(branches, C, id)
    PROVE  UpdatedFor(C, {id}) = [t \in Tasks |-> resolveMemoryVision(C, t)]
<1>1. \A t \in Tasks : followed[t] = resolveMemoryVision(branches, t)
  BY DEF MemoryInv
<1>2. ASSUME NEW t \in Tasks
      PROVE  updateMemoryVision(followed[t], C, {id}, t) = resolveMemoryVision(C, t)
  <2>1. updateMemoryVision(resolveMemoryVision(branches, t), C, {id}, t)
            = resolveMemoryVision(C, t)
    BY UpdateIsResolution
  <2> QED BY <1>1, <2>1
<1> QED BY <1>2 DEF UpdatedFor

-----------------------------------------------------------------------------
(* The invariant                                                           *)

\* The first state has an empty cache.
LEMMA InitInv == Init => MemoryInv
<1> SUFFICES ASSUME Init PROVE MemoryInv
  OBVIOUS
<1>1. branches = InitialBranches /\ memoryRevision = 0 /\ cached = <<>>
      /\ followed = [t \in Tasks |-> resolveMemoryVision(branches, t)]
  BY DEF Init, MemoryInit
<1>2. DOMAIN cached = {}
  BY <1>1
<1> QED BY <1>1, <1>2, BranchConstants DEF MemoryInv

\* A lookup caches what it has resolved.
LEMMA LookStep == ASSUME MemoryInv, NEW t \in Tasks, Look(t) PROVE MemoryInv'
<1> DEFINE here == <<t, memoryRevision>>
           now == resolveMemoryVision(branches, t)
<1>1. /\ cached' = [key \in DOMAIN cached \cup {here} |->
                      IF key \in DOMAIN cached THEN cached[key] ELSE now]
      /\ UNCHANGED <<branches, memoryRevision, followed>>
  BY DEF Look
<1>2. DOMAIN cached' = DOMAIN cached \cup {here}
  BY <1>1
<1>3. \A key \in DOMAIN cached : cached'[key] = cached[key]
  BY <1>1
<1>4. here \notin DOMAIN cached
  BY DEF Look
<1>5. cached'[here] = now
  BY <1>1, <1>4
<1>6. here[1] = t /\ here[2] = memoryRevision
  OBVIOUS
<1> HIDE DEF here
<1> QED BY <1>1, <1>2, <1>3, <1>5, <1>6 DEF MemoryInv

\* A change of one branch forgets every cached vision of the present revision,
\* for each of them mentions the branch.
LEMMA ReconsiderStep == ASSUME MemoryInv, NEW b \in branches, Reconsider(b) PROVE MemoryInv'
<1> DEFINE c == [b EXCEPT !.contradicted = ~@]
<1>1. c.id = b.id /\ "id" \in DOMAIN c
  BY DEF MemoryInv
<1> HIDE DEF c
<1>2. /\ branches' = (branches \ {b}) \cup {c}
      /\ cached' = invalidateByBranchIds({b.id})
      /\ followed' = UpdatedFor(branches', {b.id})
      /\ memoryRevision' = memoryRevision
  BY DEF Reconsider, c
<1>3. SameBut(branches, branches', b.id)
  BY <1>1, <1>2 DEF SameBut
<1>4. followed' = [t \in Tasks |-> resolveMemoryVision(branches', t)]
  BY <1>2, <1>3, FollowedStaysCurrent
<1>5. \A key \in DOMAIN cached' :
          /\ key \in DOMAIN cached
          /\ b.id \notin allowedBranchIds(cached[key])
                         \cup {e.branchId : e \in cached[key].excludedBranches}
  BY <1>2 DEF invalidateByBranchIds, Kept
<1>6. \A key \in DOMAIN cached' : key[2] # memoryRevision
  BY <1>5, EveryBranchAssessed DEF MemoryInv
<1> QED BY <1>1, <1>2, <1>4, <1>5, <1>6 DEF MemoryInv

\* A branch that comes or goes makes a revision nothing is cached for.
LEMMA ComeOrGoStep ==
    ASSUME MemoryInv, NEW next, NEW id, ComeOrGo(next, id),
           \A b \in next : "id" \in DOMAIN b,
           SameBut(branches, next, id)
    PROVE  MemoryInv'
<1>1. /\ branches' = next
      /\ memoryRevision' = memoryRevision + 1
      /\ cached' = invalidateByMemoryRevision(memoryRevision + 1)
      /\ followed' = UpdatedFor(next, {id})
  BY DEF ComeOrGo
<1>2. followed' = [t \in Tasks |-> resolveMemoryVision(branches', t)]
  BY <1>1, FollowedStaysCurrent
<1>3. DOMAIN cached' = {}
  <2>1. \A key \in DOMAIN cached : ~(key[2] >= memoryRevision + 1)
    <3> TAKE key \in DOMAIN cached
    <3>1. key[2] \in Nat /\ memoryRevision \in Nat /\ key[2] <= memoryRevision
      BY DEF MemoryInv
    <3> QED BY <3>1
  <2>2. DOMAIN cached' = {key \in DOMAIN cached : key[2] >= memoryRevision + 1}
    BY <1>1 DEF invalidateByMemoryRevision, Kept
  <2> QED BY <2>1, <2>2
<1>4. memoryRevision' \in Nat
  BY <1>1 DEF MemoryInv
<1>5. \A b \in branches' : "id" \in DOMAIN b
  BY <1>1
<1> QED BY <1>2, <1>3, <1>4, <1>5 DEF MemoryInv

\* Every step of a search keeps the invariant: only the memory moves it.
LEMMA NextInv == MemoryInv /\ [Next]_vars => MemoryInv'
<1> SUFFICES ASSUME MemoryInv, [Next]_vars PROVE MemoryInv'
  OBVIOUS
<1>1. ASSUME UNCHANGED memoryVars PROVE MemoryInv'
  BY <1>1 DEF memoryVars, MemoryInv
<1>2. CASE MemoryStep
  <2>1. ASSUME NEW b \in LateBranches, Grow(b) PROVE MemoryInv'
    <3>1. ComeOrGo(branches \cup {b}, b.id)
      BY <2>1 DEF Grow
    <3>2. \A d \in branches \cup {b} : "id" \in DOMAIN d
      BY BranchConstants DEF MemoryInv
    <3>3. SameBut(branches, branches \cup {b}, b.id)
      BY DEF SameBut
    <3> QED BY <3>1, <3>2, <3>3, ComeOrGoStep
  <2>2. ASSUME NEW b \in branches, Shrink(b) PROVE MemoryInv'
    <3>1. ComeOrGo(branches \ {b}, b.id)
      BY <2>2 DEF Shrink
    <3>2. \A d \in branches \ {b} : "id" \in DOMAIN d
      BY DEF MemoryInv
    <3>3. SameBut(branches, branches \ {b}, b.id)
      BY DEF SameBut
    <3> QED BY <3>1, <3>2, <3>3, ComeOrGoStep
  <2> QED BY <1>2, <2>1, <2>2, LookStep, ReconsiderStep DEF MemoryStep
<1>3. ASSUME Next, ~MemoryStep PROVE UNCHANGED memoryVars
  <2>1. ASSUME NEW v \in Visions, NEW input \in Advances, Advance(v, input)
        PROVE  UNCHANGED memoryVars
    BY <2>1 DEF Advance
  <2>2. ASSUME NEW v \in Visions, NEW node \in v.visited \cup v.frontier, Check(v, node)
        PROVE  UNCHANGED memoryVars
    BY <2>2 DEF Check
  <2>3. ASSUME NEW i \in DOMAIN ensemble.visions, Backtrack(i) PROVE UNCHANGED memoryVars
    BY <2>3 DEF Backtrack
  <2>4. ASSUME NEW id \in DOMAIN byVision, Forget(id) PROVE UNCHANGED memoryVars
    BY <2>4 DEF Forget
  <2> QED BY <1>3, <2>1, <2>2, <2>3, <2>4 DEF Next
<1>4. CASE UNCHANGED vars
  BY <1>1, <1>4 DEF vars
<1> QED BY <1>1, <1>2, <1>3, <1>4

-----------------------------------------------------------------------------
(* The theorem                                                             *)

\* Neither the cache nor the updates by changed branches ever show: the frontiers
\* and exclusions they give are those of a full resolution of the current branches.
THEOREM Current == Spec => []MemoryVisionsAreCurrent
<1>1. MemoryInv => MemoryVisionsAreCurrent
  BY DEF MemoryInv, MemoryVisionsAreCurrent
<1> QED BY <1>1, InitInv, NextInv, PTL DEF Spec

-----------------------------------------------------------------------------
(* The loop guard                                                          *)

\* A check that brings neither other evidence than the one before it nor
\* progress over the best on record then.
Idle(checks, k) ==
    /\ checks[k].evidence = checks[k - 1].evidence
    /\ ~(checks[k].progress >= checks[k - 1].best + MinimumProgress)

\* What an entry says of the n checks of its state: it holds what the last one
\* brought, and counts at least the idle checks at the end of them.
Accounts(entry, checks, n) ==
    /\ DOMAIN entry = {"visionId", "bestProgress", "evidence", "repeated"}
    /\ checks = [k \in 1..n |-> checks[k]]
    /\ entry.evidence = checks[n].evidence
    /\ entry.bestProgress = checks[n].best
    /\ entry.repeated \in Nat
    /\ \A i \in 1..n : (\A k \in (i + 1)..n : Idle(checks, k)) => n - i <= entry.repeated

\* Between a check and an allowed one that comes too long after it, some check
\* is not idle.
Bounded(checks, n) ==
    \A i, j \in 1..n :
        /\ j > i + MaxRevisitsWithoutProgress
        /\ checks[j].allowed
        => \E k \in (i + 1)..j : ~Idle(checks, k)

GuardInv ==
    /\ DOMAIN visits = DOMAIN entries
    /\ \A s \in DOMAIN entries :
          /\ entries[s].visionId = s[1]
          /\ \E n \in Nat \ {0} : Accounts(entries[s], visits[s], n) /\ Bounded(visits[s], n)

\* A check appended to a sequence comes last and leaves the others in place.
LEMMA Appended ==
    ASSUME NEW n \in Nat, NEW checks, checks = [k \in 1..n |-> checks[k]], NEW check
    PROVE  Append(checks, check) = [k \in 1..(n + 1) |-> IF k = n + 1 THEN check ELSE checks[k]]
<1> DEFINE S == {checks[k] : k \in 1..n} \cup {check}
<1>1. checks \in Seq(S) /\ check \in S /\ Len(checks) = n
  <2>1. checks \in [1..n -> S]
    OBVIOUS
  <2> HIDE DEF S
  <2>2. checks \in Seq(S)
    BY <2>1
  <2> QED BY <2>1, <2>2 DEF S
<1> HIDE DEF S
<1> QED BY <1>1

\* The first check of a state.
LEMMA FirstCheck ==
    ASSUME NEW entry, NEW check,
           DOMAIN entry = {"visionId", "bestProgress", "evidence", "repeated"},
           entry.evidence = check.evidence, entry.bestProgress = check.best, entry.repeated = 0
    PROVE  Accounts(entry, <<check>>, 1) /\ Bounded(<<check>>, 1)
<1> DEFINE checks == <<check>>
<1>1. checks = [k \in 1..1 |-> checks[k]] /\ checks[1] = check
  OBVIOUS
<1> HIDE DEF checks
<1>2. Accounts(entry, checks, 1)
  BY <1>1 DEF Accounts
<1>3. Bounded(checks, 1)
  BY GuardConstants DEF Bounded
<1> QED BY <1>2, <1>3 DEF checks

\* Another check of it: the count starts again unless the check is idle, and a
\* check is allowed only while the count is within the bound.
LEMMA NextCheck ==
    ASSUME NEW n \in Nat \ {0}, NEW old, NEW checks, NEW entry, NEW check,
           Accounts(old, checks, n), Bounded(checks, n),
           DOMAIN entry = {"visionId", "bestProgress", "evidence", "repeated"},
           entry.evidence = check.evidence, entry.bestProgress = check.best,
           check.allowed => entry.repeated <= MaxRevisitsWithoutProgress,
           \/ /\ entry.repeated = 0
              /\ \/ check.evidence # old.evidence
                 \/ check.progress >= old.bestProgress + MinimumProgress
           \/ entry.repeated = old.repeated + 1
    PROVE  /\ Accounts(entry, Append(checks, check), n + 1)
           /\ Bounded(Append(checks, check), n + 1)
<1> DEFINE longer == Append(checks, check)
<1>1. longer = [k \in 1..(n + 1) |-> IF k = n + 1 THEN check ELSE checks[k]]
  BY Appended DEF Accounts
<1> HIDE DEF longer
<1>2. /\ longer[n + 1] = check
      /\ \A k \in 1..n : longer[k] = checks[k]
      /\ longer = [k \in 1..(n + 1) |-> longer[k]]
  BY <1>1
<1>3. entry.repeated \in Nat
  BY DEF Accounts
<1>4. \A k \in 2..n : Idle(longer, k) <=> Idle(checks, k)
  <2> TAKE k \in 2..n
  <2>1. k \in 1..n /\ k - 1 \in 1..n
    OBVIOUS
  <2>2. longer[k] = checks[k] /\ longer[k - 1] = checks[k - 1]
    BY <1>2, <2>1
  <2> QED BY <2>2, Zenon DEF Idle
<1>5. ASSUME NEW i \in 1..(n + 1), \A k \in (i + 1)..(n + 1) : Idle(longer, k)
      PROVE  n + 1 - i <= entry.repeated
  <2>1. CASE i = n + 1
    BY <2>1, <1>3
  <2>2. CASE i \in 1..n
    <3>1. Idle(longer, n + 1)
      BY <1>5, <2>2
    <3>2. check.evidence = checks[n].evidence
          /\ ~(check.progress >= checks[n].best + MinimumProgress)
      <4>1. n \in 1..n /\ (n + 1) - 1 = n
        OBVIOUS
      <4>2. longer[(n + 1) - 1] = checks[n] /\ longer[n + 1] = check
        BY <4>1, <1>2
      <4> QED BY <3>1, <4>2, Zenon DEF Idle
    <3>3. entry.repeated = old.repeated + 1
      BY <3>2 DEF Accounts
    <3>4. \A k \in (i + 1)..n : Idle(checks, k)
      BY <1>4, <1>5, <2>2
    <3>5. n - i <= old.repeated /\ old.repeated \in Nat
      BY <2>2, <3>4 DEF Accounts
    <3> QED BY <2>2, <3>3, <3>5
  <2> QED BY <2>1, <2>2
<1>6. Accounts(entry, longer, n + 1)
  BY <1>2, <1>3, <1>5 DEF Accounts
<1>7. ASSUME NEW i \in 1..(n + 1), NEW j \in 1..(n + 1),
             j > i + MaxRevisitsWithoutProgress, longer[j].allowed,
             \A k \in (i + 1)..j : Idle(longer, k)
      PROVE  FALSE
  <2>1. CASE j = n + 1
    <3>1. n + 1 - i <= entry.repeated
      BY <1>5, <1>7, <2>1
    <3>2. entry.repeated <= MaxRevisitsWithoutProgress
      <4>1. check.allowed
        BY <1>2, <1>7, <2>1, Zenon
      <4> QED BY <4>1
    <3>3. /\ entry.repeated \in Nat /\ MaxRevisitsWithoutProgress \in Nat
          /\ i \in Nat /\ n \in Nat /\ n + 1 > i + MaxRevisitsWithoutProgress
      BY <1>3, <1>7, <2>1, GuardConstants
    <3> HIDE DEF longer
    <3> QED BY <3>1, <3>2, <3>3
  <2>2. CASE j \in 1..n
    <3>1. i \in 1..n
      BY <1>7, <2>2, GuardConstants
    <3>2. checks[j].allowed
      BY <1>2, <1>7, <2>2
    <3>3. PICK k \in (i + 1)..j : ~Idle(checks, k)
      BY <1>7, <2>2, <3>1, <3>2 DEF Bounded
    <3> QED BY <1>4, <1>7, <2>2, <3>1, <3>3
  <2> QED BY <2>1, <2>2
<1>8. Bounded(longer, n + 1)
  BY <1>7 DEF Bounded
<1> QED BY <1>6, <1>8 DEF longer

\* A check keeps the guard's books.
LEMMA CheckStep ==
    ASSUME GuardInv, NEW v, NEW node, checkAndRecord(v, node)
    PROVE  GuardInv'
<1> DEFINE state == signature(v, node)
           entry == Checked(v, node)
           check == [evidence |-> v.supportingIds, progress |-> v.score,
                     best |-> entry.bestProgress,
                     allowed |-> entry.repeated <= MaxRevisitsWithoutProgress]
           before == IF state \in DOMAIN visits THEN visits[state] ELSE <<>>
           checks == Append(before, check)
<1>1. state[1] = v.id
  BY DEF signature
<1>2. /\ entries' = [s \in DOMAIN entries \cup {state} |-> IF s = state THEN entry ELSE entries[s]]
      /\ visits' = [s \in DOMAIN visits \cup {state} |-> IF s = state THEN checks ELSE visits[s]]
  BY Zenon DEF checkAndRecord, With
<1>3. /\ check.evidence = v.supportingIds /\ check.progress = v.score
      /\ check.best = entry.bestProgress
      /\ check.allowed = (entry.repeated <= MaxRevisitsWithoutProgress)
  BY Zenon
<1>4. DOMAIN visits = DOMAIN entries
  BY DEF GuardInv
<1> HIDE DEF state, check
<1>5. /\ DOMAIN entry = {"visionId", "bestProgress", "evidence", "repeated"}
      /\ entry.visionId = v.id
      /\ entry.evidence = v.supportingIds
      /\ \E n \in Nat \ {0} : Accounts(entry, checks, n) /\ Bounded(checks, n)
  <2>1. CASE state \notin DOMAIN entries
    <3>1. entry = Fresh(v, v.score)
      BY <2>1 DEF Checked, state
    <3>2. /\ DOMAIN entry = {"visionId", "bestProgress", "evidence", "repeated"}
          /\ entry.visionId = v.id /\ entry.evidence = v.supportingIds /\ entry.repeated = 0
      BY <3>1 DEF Fresh
    <3>3. checks = <<check>>
      BY <2>1, <1>4
    <3> HIDE DEF entry, checks
    <3>4. Accounts(entry, <<check>>, 1) /\ Bounded(<<check>>, 1)
      BY <1>3, <3>2, FirstCheck
    <3> QED BY <3>2, <3>3, <3>4
  <2>2. CASE state \in DOMAIN entries
    <3> DEFINE old == entries[state]
               past == visits[state]
    <3>1. PICK n \in Nat \ {0} : Accounts(old, past, n) /\ Bounded(past, n)
      BY <2>2 DEF GuardInv
    <3>2. old.visionId = v.id
      BY <2>2, <1>1 DEF GuardInv
    <3>3. checks = Append(past, check)
      BY <2>2, <1>4
    <3>4. CASE Anew(old, v)
      <4>1. entry = Fresh(v, Higher(old.bestProgress, v.score))
        BY <2>2, <3>4 DEF Checked, state
      <4>2. /\ DOMAIN entry = {"visionId", "bestProgress", "evidence", "repeated"}
            /\ entry.visionId = v.id /\ entry.evidence = v.supportingIds /\ entry.repeated = 0
        BY <4>1 DEF Fresh
      <4>3. check.evidence # old.evidence
            \/ check.progress >= old.bestProgress + MinimumProgress
        BY <3>4, <1>3 DEF Anew
      <4> HIDE DEF entry, checks, old, past
      <4>4. Accounts(entry, Append(past, check), n + 1) /\ Bounded(Append(past, check), n + 1)
        BY <1>3, <3>1, <4>2, <4>3, NextCheck
      <4> QED BY <3>3, <4>2, <4>4
    <3>5. CASE ~Anew(old, v)
      <4>1. entry = [old EXCEPT !.repeated = @ + 1]
        BY <2>2, <3>5 DEF Checked, state
      <4>2. DOMAIN old = {"visionId", "bestProgress", "evidence", "repeated"}
        BY <3>1 DEF Accounts
      <4>3. /\ DOMAIN entry = {"visionId", "bestProgress", "evidence", "repeated"}
            /\ entry.visionId = old.visionId /\ entry.evidence = old.evidence
            /\ entry.repeated = old.repeated + 1
        BY <4>1, <4>2
      <4>4. old.evidence = v.supportingIds
        BY <3>5 DEF Anew
      <4> HIDE DEF entry, checks, old, past
      <4>5. Accounts(entry, Append(past, check), n + 1) /\ Bounded(Append(past, check), n + 1)
        BY <1>3, <3>1, <4>3, <4>4, NextCheck
      <4> QED BY <3>2, <3>3, <4>3, <4>4, <4>5
    <3> QED BY <3>4, <3>5
  <2> QED BY <2>1, <2>2
<1> HIDE DEF entry, checks
<1> QED BY <1>1, <1>2, <1>4, <1>5 DEF GuardInv

\* Forgetting a vision forgets its entries and its checks, and no others.
LEMMA ClearStep ==
    ASSUME GuardInv, NEW id, clearVision(id)
    PROVE  GuardInv'
<1>1. /\ entries' = [s \in {s \in DOMAIN entries : entries[s].visionId # id} |-> entries[s]]
      /\ visits' = [s \in {s \in DOMAIN visits : s[1] # id} |-> visits[s]]
  BY DEF clearVision, Restrict
<1> QED BY <1>1 DEF GuardInv

\* Only checks and the forgetting of visions touch the guard.
LEMMA GuardNext == GuardInv /\ [Next]_vars => GuardInv'
<1> SUFFICES ASSUME GuardInv, [Next]_vars PROVE GuardInv'
  OBVIOUS
<1>1. ASSUME UNCHANGED <<entries, visits>> PROVE GuardInv'
  BY <1>1 DEF GuardInv
<1>2. ASSUME NEW v \in Visions, NEW input \in Advances, Advance(v, input) PROVE GuardInv'
  BY <1>1, <1>2 DEF Advance
<1>3. ASSUME NEW v \in Visions, NEW node \in v.visited \cup v.frontier, Check(v, node)
      PROVE  GuardInv'
  BY <1>3, CheckStep DEF Check
<1>4. ASSUME NEW i \in DOMAIN ensemble.visions, Backtrack(i) PROVE GuardInv'
  BY <1>1, <1>4 DEF Backtrack
<1>5. ASSUME NEW id \in DOMAIN byVision, Forget(id) PROVE GuardInv'
  BY <1>5, ClearStep DEF Forget
<1>6. CASE MemoryStep
  BY <1>1, <1>6 DEF MemoryStep
<1>7. CASE UNCHANGED vars
  BY <1>1, <1>7 DEF vars, searchVars
<1> QED BY <1>2, <1>3, <1>4, <1>5, <1>6, <1>7 DEF Next

\* A vision can go round in circles only so often: however its checks, its
\* evidence and its progress come, a state visited too often without anything
\* new stays blocked until something new comes.
THEOREM LoopsEnd == Spec => []LoopsAreBounded
<1>1. Init => GuardInv
  <2> SUFFICES ASSUME Init PROVE GuardInv
    OBVIOUS
  <2>1. DOMAIN entries = {} /\ DOMAIN visits = {}
    BY DEF Init
  <2> QED BY <2>1 DEF GuardInv
<1>2. GuardInv => LoopsAreBounded
  <2> SUFFICES ASSUME GuardInv, NEW s \in DOMAIN visits,
                      NEW i \in DOMAIN visits[s], NEW j \in DOMAIN visits[s],
                      j > i + MaxRevisitsWithoutProgress, visits[s][j].allowed
               PROVE  \E k \in (i + 1)..j :
                         \/ visits[s][k].evidence # visits[s][k - 1].evidence
                         \/ visits[s][k].progress >= visits[s][k - 1].best + MinimumProgress
    BY DEF LoopsAreBounded
  <2>1. PICK n \in Nat \ {0} : Accounts(entries[s], visits[s], n) /\ Bounded(visits[s], n)
    BY DEF GuardInv
  <2>2. DOMAIN visits[s] = 1..n
    BY <2>1 DEF Accounts
  <2>3. PICK k \in (i + 1)..j : ~Idle(visits[s], k)
    BY <2>1, <2>2 DEF Bounded
  <2> QED BY <2>3 DEF Idle
<1> QED BY <1>1, <1>2, GuardNext, PTL DEF Spec

-----------------------------------------------------------------------------
(* Numbers                                                                 *)

Plus(f, unused, sum, i) == f[i] + sum
Summation == INSTANCE EvidenceProofs WITH Op <- Plus

\* A sum of numbers is a number.
LEMMA TotalIsNumber ==
    ASSUME NEW f, IsFiniteSet(DOMAIN f), \A i \in DOMAIN f : f[i] \in Int
    PROVE  Total(f) \in Int
<1> DEFINE S == DOMAIN f
<1>1. Total(f) = Summation!FoldedSet(f, {}, 0, S)
  BY Zenon DEF Total, FoldFunction, FoldFunctionOnSet, MapThenFoldSet, Summation!FoldedSet,
               Summation!MapThenFoldSet, Plus
<1>2. Summation!IsFiniteSet(S)
  BY Zenon DEF IsFiniteSet, Summation!IsFiniteSet
<1>3. \A r \in Int, i \in S : Plus(f, {}, r, i) \in Int
  BY DEF Plus
<1> HIDE DEF S
<1>4. Summation!FoldedSet(f, {}, 0, S) \in Int
  <2>1. 0 \in Int
    OBVIOUS
  <2> QED BY <1>2, <1>3, <2>1, Summation!SetFoldIn, Zenon
<1> QED BY <1>1, <1>4

\* The greater and the smaller of two numbers, a clamped one and a product are numbers.
LEMMA NumbersKept ==
    \A m, n \in Int : Higher(m, n) \in Int /\ Lower(m, n) \in Int
BY DEF Higher, Lower

LEMMA ClampIsNumber == \A n \in Int : Clamp(n) \in Int /\ Clamp(n) \in Nat
BY DEF Clamp

LEMMA ScaleIsNumber == \A m, n \in Int : Scale(m, n) \in Int
BY DEF Scale

\* The pressure of finitely many pieces of evidence is a number.
Remaining(pieces, unused, rest, key) == Scale(rest, 1000 - Clamp(StrongestOf(pieces, key)))
Weighing == INSTANCE EvidenceProofs WITH Op <- Remaining

LEMMA PressureIsNumber ==
    ASSUME NEW pieces, IsFiniteSet(pieces), \A e \in pieces : e.weight \in Int
    PROVE  Pressure(pieces) \in Int
<1> DEFINE keys == Keys(pieces)
<1>1. Pressure(pieces) = 1000 - Weighing!FoldedSet(pieces, {}, 1000, keys)
  BY Zenon DEF Pressure, FoldSet, MapThenFoldSet, Weighing!FoldedSet, Weighing!MapThenFoldSet,
               Remaining
<1>2. Weighing!IsFiniteSet(keys)
  <2> DEFINE keyOf == [e \in pieces |-> e.key]
  <2>1. keys = {keyOf[e] : e \in DOMAIN keyOf} /\ DOMAIN keyOf = pieces
    BY DEF Keys
  <2> HIDE DEF keyOf, keys
  <2>2. IsFiniteSet(keys)
    BY <2>1, ImageIsFinite
  <2> QED BY <2>2, Zenon DEF IsFiniteSet, Weighing!IsFiniteSet
<1>3. ASSUME NEW rest \in Int, NEW key \in keys PROVE Remaining(pieces, {}, rest, key) \in Int
  <2> DEFINE those == {d \in pieces : d.key = key}
             weightOf == [e \in those |-> e.weight]
             weights == {weightOf[e] : e \in DOMAIN weightOf}
  <2>1. those \subseteq pieces /\ those # {}
    BY DEF Keys
  <2>2. IsFiniteSet(those)
    BY <2>1, FS_Subset
  <2>3. DOMAIN weightOf = those /\ \A e \in those : weightOf[e] = e.weight
    OBVIOUS
  <2>4. {e.weight : e \in those} = weights
    BY <2>3
  <2> HIDE DEF those, weightOf
  <2>5. weights \in SUBSET Int /\ weights # {}
    BY <2>1, <2>3
  <2>6. IsFiniteSet(weights)
    BY <2>2, <2>3, ImageIsFinite
  <2> HIDE DEF weights
  <2>7. Max(weights) \in Int
    BY <2>5, <2>6, GreatestOf
  <2>8. StrongestOf(pieces, key) = Max(weights)
    BY <2>4, Zenon DEF StrongestOf, those
  <2>9. Clamp(StrongestOf(pieces, key)) \in Int
    BY <2>7, <2>8, ClampIsNumber, Zenon
  <2>10. 1000 - Clamp(StrongestOf(pieces, key)) \in Int
    BY <2>9
  <2>11. Scale(rest, 1000 - Clamp(StrongestOf(pieces, key))) \in Int
    BY <2>10 DEF Scale
  <2> QED BY <2>11 DEF Remaining
<1> HIDE DEF keys
<1> DEFINE base == 1000
<1>4. Weighing!FoldedSet(pieces, {}, base, keys) \in Int
  <2>1. base \in Int
    OBVIOUS
  <2> HIDE DEF base
  <2>2. \A r \in Int, x \in keys : Remaining(pieces, {}, r, x) \in Int
    BY <1>3
  <2> QED BY <1>2, <2>1, <2>2, Weighing!SetFoldIn, Zenon
<1> QED BY <1>1, <1>4

\* The confidence of a memory vision is a number.
PlusConfidence(unused, neither, sum, f) == Scale(f.estimatedUtility, 1000 - f.uncertainty) + sum
Confidences == INSTANCE EvidenceProofs WITH Op <- PlusConfidence

LEMMA ConfidenceIsNumber ==
    ASSUME NEW B, AreBranches(B), NEW t
    PROVE  confidence(resolveMemoryVision(B, t)) \in Int
<1> DEFINE fs == resolveMemoryVision(B, t).frontiers
           some == {c \in B : exclusion(c, t) = "none"}
           frontier == [b \in some |-> frontierOf(b, t)]
           sum == MapThenSumSet(LAMBDA f : Scale(f.estimatedUtility, 1000 - f.uncertainty), fs)
<1>1. fs = {frontierOf(b, t) : b \in some}
  BY DEF resolveMemoryVision, Assessed
<1>2. IsFiniteSet(fs)
  <2>1. IsFiniteSet(some)
    <3>1. some \subseteq B /\ IsFiniteSet(B)
      BY DEF AreBranches
    <3> QED BY <3>1, FS_Subset
  <2>2. IsFiniteSet({frontier[b] : b \in DOMAIN frontier})
    BY <2>1, ImageIsFinite
  <2>3. {frontier[b] : b \in DOMAIN frontier} = {frontierOf(b, t) : b \in some}
    OBVIOUS
  <2> QED BY <1>1, <2>2, <2>3
<1>3. ASSUME NEW b \in B
      PROVE  /\ frontierOf(b, t).estimatedUtility \in Int
             /\ frontierOf(b, t).uncertainty \in Int
  <2> DEFINE open == Cardinality(b.required \ t.constraints)
             all == Cardinality(b.required)
             uncertainty == (1000 * open) \div Higher(1, all)
             certainty == 1000 - uncertainty \div 2
  <2>1. b.prior \in Int /\ IsFiniteSet(b.required)
    BY DEF AreBranches
  <2>2. open \in Nat /\ all \in Nat
    <3>1. IsFiniteSet(b.required \ t.constraints)
      BY <2>1, FS_Subset
    <3> QED BY <2>1, <3>1, FS_CardinalityType
  <2>3. /\ frontierOf(b, t).estimatedUtility = Clamp(Scale(b.prior, certainty))
        /\ frontierOf(b, t).uncertainty = uncertainty
    BY DEF frontierOf
  <2> HIDE DEF open, all
  <2>4. uncertainty \in Int
    BY <2>2 DEF Higher
  <2> HIDE DEF uncertainty
  <2>5. certainty \in Int
    BY <2>4
  <2> HIDE DEF certainty
  <2>6. Scale(b.prior, certainty) \in Int
    BY <2>1, <2>5, ScaleIsNumber, Zenon
  <2> QED BY <2>3, <2>4, <2>6, ClampIsNumber, Zenon
<1>4. \A f \in fs : f.estimatedUtility \in Int /\ f.uncertainty \in Int
  BY <1>1, <1>3
<1> HIDE DEF fs
<1>5. sum \in Int
  <2>1. sum = Confidences!FoldedSet({}, {}, 0, fs)
    BY Zenon DEF MapThenSumSet, MapThenFoldSet, Confidences!FoldedSet,
                 Confidences!MapThenFoldSet, PlusConfidence
  <2>2. Confidences!IsFiniteSet(fs)
    BY <1>2, Zenon DEF IsFiniteSet, Confidences!IsFiniteSet
  <2>3. \A r \in Int, x \in fs : PlusConfidence({}, {}, r, x) \in Int
    BY <1>4 DEF PlusConfidence, Scale
  <2>4. 0 \in Int
    OBVIOUS
  <2>5. Confidences!FoldedSet({}, {}, 0, fs) \in Int
    BY <2>2, <2>3, <2>4, Confidences!SetFoldIn, Zenon
  <2> QED BY <2>1, <2>5
<1>6. confidence(resolveMemoryVision(B, t)) =
        IF fs = {} THEN 0 ELSE sum \div Cardinality(fs)
  BY DEF confidence, fs
<1> HIDE DEF sum
<1>7. Cardinality(fs) \in Nat /\ (fs # {} => Cardinality(fs) # 0)
  BY <1>2, FS_CardinalityType, FS_EmptySet
<1> QED BY <1>5, <1>6, <1>7

-----------------------------------------------------------------------------
(* The visions of an ensemble                                              *)

VisionFields == {"id", "mergedFrom", "contextRevision", "branchIds", "unresolved", "visited",
                 "frontier", "injected", "checkpointIds", "supportingIds", "contradictionIds",
                 "priorUtility", "support", "contradiction", "novelty", "coverage", "costPenalty",
                 "score", "stale", "status", "memoryVision"}

\* A vision has numbers to be ranked by, and finitely much to its name.
IsVision(v) ==
    /\ VisionFields \subseteq DOMAIN v
    /\ v.score \in Int /\ v.priorUtility \in Int /\ v.support \in Int
    /\ v.contradiction \in Int /\ v.novelty \in Int
    /\ IsFiniteSet(v.visited) /\ IsFiniteSet(v.injected) /\ IsFiniteSet(v.unresolved)

\* The score of a vision with numbers is a number.
LEMMA ScoreIsNumber ==
    ASSUME NEW v, v.priorUtility \in Int, confidence(v.memoryVision) \in Int, v.support \in Int,
           v.coverage \in Int, v.novelty \in Int, v.contradiction \in Int, v.costPenalty \in Int
    PROVE  calculateProgressiveVisionScore(v) \in Int
<1> DEFINE worth == confidence(v.memoryVision)
           raw == (160 * v.priorUtility + 240 * worth + 240 * v.support + 140 * v.coverage
                   + 120 * v.novelty - 320 * v.contradiction - 100 * v.costPenalty) \div 1000
<1>1. calculateProgressiveVisionScore(v) = Clamp(raw)
  BY DEF calculateProgressiveVisionScore
<1>2. worth \in Int
  OBVIOUS
<1> HIDE DEF worth
<1>3. raw \in Int
  BY <1>2
<1> HIDE DEF raw
<1> QED BY <1>1, <1>3, ClampIsNumber

\* Some of the branches are branches.
LEMMA SelectedAreBranches ==
    ASSUME NEW B, AreBranches(B), NEW ids
    PROVE  AreBranches(Selected(ids, B))
<1>1. Selected(ids, B) \subseteq B
  BY DEF Selected
<1>2. IsFiniteSet(Selected(ids, B))
  BY <1>1, FS_Subset DEF AreBranches
<1> QED BY <1>1, <1>2 DEF AreBranches

IsSeed(seed) ==
    IsFiniteSet(seed.questions) /\ seed.priorUtility \in Int /\ seed.novelty \in Int

\* A vision created from a seed is one.
LEMMA CreatedIsVision ==
    ASSUME NEW seed, IsSeed(seed), NEW parent, NEW t, NEW g, NEW B, AreBranches(B)
    PROVE  IsVision(createProgressiveVision(seed, parent, t, g, B))
<1> DEFINE selected == Selected(Range(seed.branchIds), B)
           memoryVision == resolveMemoryVision(selected, t)
           anchors == IF seed.anchors # {} THEN seed.anchors
                      ELSE {g.awake[i] : i \in DOMAIN g.awake \cap 1..3}
           anchored == Anchored(anchors, g)
           id == <<seed.id, seed.hypothesis, Range(seed.branchIds), parent>>
           prior == Clamp(seed.priorUtility)
           novelty == Clamp(seed.novelty)
           coverage == IF seed.questions = {} THEN 1000 ELSE 0
           stale == IF anchored THEN 0 ELSE 1
           status == IF Impossible(seed.project, seed.shared, memoryVision, t) THEN "pruned"
                     ELSE IF anchored THEN "candidate" ELSE "deferred"
           ids == Ids(selected)
           raw == [id |-> id, hypothesis |-> seed.hypothesis, parent |-> parent,
                   mergedFrom |-> {}, contextRevision |-> g.revision, project |-> seed.project,
                   shared |-> seed.shared, anchors |-> anchors, branchIds |-> ids,
                   unresolved |-> seed.questions, visited |-> {}, frontier |-> {},
                   injected |-> {}, checkpointIds |-> {}, supportingIds |-> {},
                   contradictionIds |-> {}, priorUtility |-> prior, support |-> 0,
                   contradiction |-> 0, novelty |-> novelty, coverage |-> coverage,
                   costPenalty |-> 0, score |-> 0, stale |-> stale, status |-> status,
                   memoryVision |-> memoryVision]
           made == createProgressiveVision(seed, parent, t, g, B)
<1>1. made = [raw EXCEPT !.score = calculateProgressiveVisionScore(raw)]
  BY Zenon DEF createProgressiveVision, Scored
<1>2. confidence(memoryVision) \in Int
  BY SelectedAreBranches, ConfidenceIsNumber
<1>3. prior \in Int /\ novelty \in Int /\ coverage \in Int
  BY ClampIsNumber DEF IsSeed
<1>4. IsFiniteSet({}) /\ IsFiniteSet(seed.questions)
  BY FS_EmptySet DEF IsSeed
<1> HIDE DEF selected, memoryVision, anchors, anchored, id, prior, novelty, coverage, stale, status,
             ids, made
<1>5. /\ VisionFields \subseteq DOMAIN raw
      /\ raw.priorUtility = prior /\ raw.support = 0 /\ raw.contradiction = 0
      /\ raw.novelty = novelty /\ raw.coverage = coverage /\ raw.costPenalty = 0
      /\ raw.memoryVision = memoryVision /\ raw.unresolved = seed.questions
      /\ raw.visited = {} /\ raw.injected = {}
  BY DEF VisionFields
<1> HIDE DEF raw
<1> DEFINE score == calculateProgressiveVisionScore(raw)
<1>6. score \in Int
  BY <1>2, <1>3, <1>5, ScoreIsNumber
<1> HIDE DEF score
<1>7. /\ DOMAIN made = DOMAIN raw /\ made.score = score
      /\ made.priorUtility = raw.priorUtility /\ made.support = raw.support
      /\ made.contradiction = raw.contradiction /\ made.novelty = raw.novelty
      /\ made.visited = raw.visited /\ made.injected = raw.injected
      /\ made.unresolved = raw.unresolved
  BY <1>1, <1>5 DEF VisionFields, score
<1> QED BY <1>3, <1>4, <1>5, <1>6, <1>7 DEF IsVision, made

\* Seeds with the parent of the vision each is for.
AreItems(items) == (\E T : items \in Seq(T)) /\ \A i \in DOMAIN items : IsSeed(items[i].seed)

LEMMA JoinedItems ==
    ASSUME NEW left, AreItems(left), NEW right, AreItems(right)
    PROVE  AreItems(left \o right)
<1>1. PICK S : left \in Seq(S)
  BY DEF AreItems
<1>2. PICK T : right \in Seq(T)
  BY DEF AreItems
<1>3. left \in Seq(S \cup T) /\ right \in Seq(S \cup T)
  BY <1>1, <1>2
<1> DEFINE both == left \o right
<1>4. /\ Len(left) \in Nat /\ DOMAIN left = 1..Len(left)
      /\ Len(right) \in Nat /\ DOMAIN right = 1..Len(right)
      /\ both \in Seq(S \cup T) /\ DOMAIN both = 1..(Len(left) + Len(right))
      /\ \A i \in 1..(Len(left) + Len(right)) :
            both[i] = IF i <= Len(left) THEN left[i] ELSE right[i - Len(left)]
  BY <1>3
<1>5. ASSUME NEW i \in DOMAIN both PROVE IsSeed(both[i].seed)
  <2>1. CASE i <= Len(left)
    <3>1. i \in DOMAIN left /\ both[i] = left[i]
      BY <1>4, <2>1
    <3> HIDE DEF both
    <3> QED BY <3>1 DEF AreItems
  <2>2. CASE ~(i <= Len(left))
    <3>1. i - Len(left) \in DOMAIN right /\ both[i] = right[i - Len(left)]
      BY <1>4, <2>2
    <3> HIDE DEF both
    <3> QED BY <3>1 DEF AreItems
  <2> QED BY <2>1, <2>2
<1> QED BY <1>4, <1>5 DEF AreItems

\* The parts of a seed are seeds.
LEMMA ExpandedAreItems ==
    ASSUME NEW seed, IsSeed(seed), Len(seed.branchIds) \in Nat,
           {"id", "hypothesis", "branchIds", "questions", "priorUtility", "novelty"}
               \subseteq DOMAIN seed
    PROVE  AreItems(expandSeed(seed))
<1> DEFINE many == Len(seed.branchIds)
           part(i) == SubSeq(seed.branchIds, (i - 1) * MaxBranchesPerVision + 1,
                             Lower(i * MaxBranchesPerVision, many))
           novelty(i) == Higher(0, seed.novelty - 30 * (i - 1))
           piece(i) == [seed EXCEPT
               !.id = <<@, i>>, !.hypothesis = <<@, i>>, !.branchIds = part(i),
               !.novelty = Higher(0, @ - 30 * (i - 1))]
           pieces == (many + MaxBranchesPerVision - 1) \div MaxBranchesPerVision
           parent == <<seed.id, Range(seed.branchIds)>>
           whole == << [seed |-> seed, parent |-> NoVision] >>
           parts == [i \in 1..pieces |-> [seed |-> piece(i), parent |-> parent]]
<1>1. expandSeed(seed) = IF many <= MaxBranchesPerVision THEN whole ELSE parts
  BY Zenon DEF expandSeed
<1>2. AreItems(whole)
  <2> DEFINE item == [seed |-> seed, parent |-> NoVision]
  <2>1. item.seed = seed
    OBVIOUS
  <2> HIDE DEF item
  <2>2. <<item>> \in Seq({item}) /\ \A i \in DOMAIN <<item>> : <<item>>[i] = item
    OBVIOUS
  <2>3. AreItems(<<item>>)
    BY <2>1, <2>2 DEF AreItems
  <2> QED BY <2>3 DEF item
<1>3. AreItems(parts)
  <2>1. many + MaxBranchesPerVision - 1 \in Nat
    BY BeamConstants
  <2>2. pieces \in Nat
    <3> DEFINE sum == many + MaxBranchesPerVision - 1
    <3>1. sum \in Nat
      BY <2>1
    <3> HIDE DEF sum, many
    <3>2. sum \div MaxBranchesPerVision \in Nat
      BY <3>1, BeamConstants
    <3> QED BY <3>2 DEF sum
  <2> HIDE DEF pieces
  <2>3. ASSUME NEW i \in 1..pieces PROVE IsSeed(piece(i))
    <3> HIDE DEF part
    <3>1. /\ piece(i).questions = seed.questions /\ piece(i).priorUtility = seed.priorUtility
          /\ piece(i).novelty = novelty(i)
      OBVIOUS
    <3>2. novelty(i) \in Int
      <4>1. seed.novelty \in Int /\ i \in Int
        BY DEF IsSeed
      <4>2. seed.novelty - 30 * (i - 1) \in Int /\ 0 \in Int
        BY <4>1
      <4> QED BY <4>2, NumbersKept, Zenon
    <3> HIDE DEF piece, novelty
    <3> QED BY <3>1, <3>2 DEF IsSeed
  <2> HIDE DEF piece, parent
  <2> DEFINE S == {parts[i] : i \in 1..pieces}
  <2>4. /\ parts \in [1..pieces -> S] /\ DOMAIN parts = 1..pieces
        /\ \A i \in 1..pieces : parts[i].seed = piece(i)
    OBVIOUS
  <2> HIDE DEF S, parts
  <2>5. parts \in Seq(S)
    BY <2>2, <2>4
  <2> QED BY <2>3, <2>4, <2>5 DEF AreItems
<1> HIDE DEF whole, parts
<1> QED BY <1>1, <1>2, <1>3

ExpandOne(unused, alsoUnused, before, seed) == before \o expandSeed(seed)
Expanding == INSTANCE EvidenceProofs WITH Op <- ExpandOne

\* The visions there are: a sequence of them.
AreVisions(visions) ==
    \E n \in Nat : DOMAIN visions = 1..n /\ \A i \in 1..n : IsVision(visions[i])

\* Seeds become visions.
LEMMA CreatedAreVisions ==
    ASSUME NEW seeds, AreSeeds(seeds), NEW t, NEW g, NEW B, AreBranches(B)
    PROVE  AreVisions(createFromSeeds(seeds, t, g, B))
<1> DEFINE items == FoldLeft(LAMBDA before, seed : before \o expandSeed(seed), <<>>, seeds)
           n == Len(seeds)
           base == <<>>
<1>1. /\ n \in Nat /\ DOMAIN seeds = 1..n
      /\ \A i \in 1..n : AreItems(expandSeed(seeds[i]))
  <2>1. n \in Nat /\ DOMAIN seeds = 1..n
    BY DEF AreSeeds
  <2>2. ASSUME NEW i \in 1..n PROVE AreItems(expandSeed(seeds[i]))
    <3>1. /\ {"id", "hypothesis", "branchIds", "questions", "priorUtility", "novelty"}
                 \subseteq DOMAIN seeds[i]
          /\ Len(seeds[i].branchIds) \in Nat /\ IsSeed(seeds[i])
      BY <2>1 DEF AreSeeds, IsSeed
    <3> QED BY <3>1, ExpandedAreItems
  <2> QED BY <2>1, <2>2
<1>2. items = Expanding!FoldedSequence({}, {}, base, seeds)
  BY Zenon DEF FoldLeft, MapThenFoldSet, Expanding!FoldedSequence, Expanding!FoldLeft,
               Expanding!MapThenFoldSet, Expanding!Max, Max, ExpandOne
<1>3. AreItems(base)
  BY DEF AreItems
<1> HIDE DEF items, base, n
<1>4. PICK run : /\ Expanding!LeftToRight(run, {}, {}, base, seeds, n)
                 /\ items = run[n]
  BY <1>1, <1>2, Expanding!SequenceRun
<1>5. run[0] = base /\ \A k \in 1..n : run[k] = run[k - 1] \o expandSeed(seeds[k])
  BY <1>4, Zenon DEF Expanding!LeftToRight, ExpandOne
<1> DEFINE A == {k \in Nat : k <= n => AreItems(run[k])}
<1>6. 0 \in A
  BY <1>3, <1>5
<1>7. ASSUME NEW k \in Nat, k \in A PROVE k + 1 \in A
  <2> SUFFICES ASSUME k + 1 <= n PROVE AreItems(run[k + 1])
    OBVIOUS
  <2>1. k + 1 \in 1..n /\ (k + 1) - 1 = k /\ AreItems(run[k])
    BY <1>1, <1>7
  <2>2. run[k + 1] = run[k] \o expandSeed(seeds[k + 1])
    BY <1>5, <2>1
  <2>3. AreItems(expandSeed(seeds[k + 1]))
    BY <1>1, <2>1
  <2>4. AreItems(run[k] \o expandSeed(seeds[k + 1]))
    BY <2>1, <2>3, JoinedItems
  <2> QED BY <2>2, <2>4
<1> HIDE DEF A
<1>8. n \in A
  BY <1>1, <1>6, <1>7, NaturalInduction
<1>9. AreItems(items)
  BY <1>1, <1>4, <1>8 DEF A
<1> DEFINE created == createFromSeeds(seeds, t, g, B)
<1>10. created = [i \in DOMAIN items |->
                    createProgressiveVision(items[i].seed, items[i].parent, t, g, B)]
  BY Zenon DEF createFromSeeds, items
<1> HIDE DEF created
<1>11. Len(items) \in Nat /\ DOMAIN items = 1..Len(items)
  BY <1>9 DEF AreItems
<1>12. ASSUME NEW i \in DOMAIN items PROVE IsVision(created[i])
  <2>1. IsSeed(items[i].seed)
    BY <1>9 DEF AreItems
  <2>2. IsVision(createProgressiveVision(items[i].seed, items[i].parent, t, g, B))
    BY <2>1, CreatedIsVision
  <2> QED BY <1>10, <2>2
<1>13. DOMAIN created = 1..Len(items)
  BY <1>10, <1>11
<1> QED BY <1>11, <1>12, <1>13 DEF AreVisions, created

-----------------------------------------------------------------------------
(* A vision judged again                                                   *)

\* A vision goes on as another one: under its id or merged into it, with all
\* it had.
Continues(v, w) ==
    /\ v.id \in {w.id} \cup w.mergedFrom
    /\ v.mergedFrom \subseteq w.mergedFrom
    /\ v.supportingIds \subseteq w.supportingIds
    /\ v.contradictionIds \subseteq w.contradictionIds
    /\ v.checkpointIds \subseteq w.checkpointIds

LEMMA ContinuesOn ==
    ASSUME NEW u, NEW v, NEW w, Continues(u, v), Continues(v, w) PROVE Continues(u, w)
BY DEF Continues

\* What is aggregated from evidence is a number.
LEMMA AggregateIsNumber ==
    ASSUME NEW pieces, IsEvidence(pieces), NEW kind
    PROVE  aggregateEvidenceScore(pieces, kind) \in Int
<1> DEFINE those == {e \in pieces : e.kind = kind}
<1>1. those \subseteq pieces /\ IsFiniteSet(those) /\ \A e \in those : e.weight \in Int
  BY FS_Subset DEF IsEvidence
<1> HIDE DEF those
<1>2. Pressure(those) \in Int
  BY <1>1, PressureIsNumber
<1> QED BY <1>2 DEF aggregateEvidenceScore, those

\* A part of finitely many finite sets is one.
LEMMA AllAreFinite ==
    ASSUME NEW f, IsFiniteSet(DOMAIN f), \A x \in DOMAIN f : IsFiniteSet(f[x])
    PROVE  IsFiniteSet(UNION {f[x] : x \in DOMAIN f})
<1> DEFINE sets == {f[x] : x \in DOMAIN f}
<1>1. IsFiniteSet(sets) /\ \A S \in sets : IsFiniteSet(S)
  BY ImageIsFinite
<1> HIDE DEF sets
<1>2. IsFiniteSet(UNION sets)
  BY <1>1, FS_UNION
<1> QED BY <1>2 DEF sets

LEMMA CoverageOfQuestionsIsNumber ==
    ASSUME NEW S, IsFiniteSet(S), NEW n \in Nat
    PROVE  calculateCoverageScore(S, n) \in Int
<1> DEFINE left == Cardinality(S)
           score == 1000 - (1000 * left) \div n
<1>1. left \in Nat
  BY FS_CardinalityType
<1> HIDE DEF left
<1>2. n # 0 => score \in Int
  BY <1>1
<1> HIDE DEF score
<1>3. n # 0 => Clamp(score) \in Int
  BY <1>2, ClampIsNumber
<1>4. calculateCoverageScore(S, n) = IF n = 0 THEN 1000 ELSE Clamp(score)
  BY DEF calculateCoverageScore, score, left
<1> QED BY <1>3, <1>4

LEMMA CostIsNumber ==
    ASSUME NEW v, IsFiniteSet(v.visited), IsFiniteSet(v.injected)
    PROVE  calculateCostPenalty(v) \in Int
<1> DEFINE visited == Cardinality(v.visited)
           injected == Cardinality(v.injected)
           cost == (680 * visited) \div MaxVisitedNodes + (320 * injected) \div MaxInjectedItems
<1>1. visited \in Nat /\ injected \in Nat
  BY FS_CardinalityType
<1>2. calculateCostPenalty(v) = Clamp(cost)
  BY DEF calculateCostPenalty
<1> HIDE DEF visited, injected
<1>3. cost \in Int
  BY <1>1, BudgetConstants
<1> HIDE DEF cost
<1> QED BY <1>2, <1>3, ClampIsNumber

\* A vision that is judged again is one, and goes on.
LEMMA RevalidatedIsVision ==
    ASSUME NEW v, IsVision(v), NEW t, NEW g, NEW B, AreBranches(B),
           NEW pieces, IsEvidence(pieces), NEW observations, AreObserved(observations)
    PROVE  /\ IsVision(revalidateProgressiveVision(v, t, g, B, pieces, observations))
           /\ Continues(v, revalidateProgressiveVision(v, t, g, B, pieces, observations))
<1> DEFINE relevant == {e \in pieces : e.visionId = v.id /\ e.contextRevision <= g.revision}
           seen == ObservationsAbout(v, observations)
           selected == Selected(v.branchIds, B)
           memoryVision == resolveMemoryVision(selected, t)
           ids == Ids(selected)
           unresolved == v.unresolved \ UNION {o.resolved : o \in seen}
           gain == Total([o \in seen |-> o.utilityGain])
           visited == v.visited \cup UNION {o.visited : o \in seen}
           frontier == IF seen = {} THEN v.frontier ELSE UNION {o.frontier : o \in seen}
           injected == v.injected \cup UNION {o.injected : o \in seen}
           checkpoints == Ids({createCheckpoint(v, o) : o \in seen})
           supporting == Ids(strongestIndependentEvidence(relevant, "support"))
           novel == Ids(strongestIndependentEvidence(relevant, "novelty"))
           contradicting == Ids(strongestIndependentEvidence(relevant, "contradiction"))
           support == Higher(v.support, aggregateEvidenceScore(relevant, "support"))
           contradiction == Higher(v.contradiction, aggregateEvidenceScore(relevant, "contradiction"))
           newer == Higher(v.novelty, aggregateEvidenceScore(relevant, "novelty"))
           raised == newer + (150 * gain) \div 1000
           novelty == Clamp(raised)
           coverage == calculateCoverageScore(unresolved, Cardinality(v.unresolved))
           stale == Staleness(v, g)
           next == Observed(v, t, g, B, relevant, seen)
           pruned == \/ Impossible(v.project, v.shared, next.memoryVision, t)
                     \/ aggregateEvidenceScore(relevant, "contradiction")
                            >= ContradictionPruneThreshold
                     \/ next.stale > MaxStaleContextRevisions
           exhausted == next.frontier = {} /\ \E o \in seen : o.exhausted
           status == FirstOf(<<
               <<pruned, "pruned">>,
               <<exhausted, "exhausted">>,
               <<Anchored(v.anchors, g), "exploring">>,
               <<TRUE, "deferred">> >>)
           cost == calculateCostPenalty(next)
           judged == [next EXCEPT !.status = status, !.costPenalty = cost]
           made == revalidateProgressiveVision(v, t, g, B, pieces, observations)
<1>1. made = [judged EXCEPT !.score = calculateProgressiveVisionScore(judged)]
  BY Zenon DEF revalidateProgressiveVision, Scored
<1>2. next = [v EXCEPT
            !.contextRevision = g.revision,
            !.branchIds = ids,
            !.memoryVision = memoryVision,
            !.unresolved = unresolved,
            !.visited = visited,
            !.frontier = frontier,
            !.injected = injected,
            !.checkpointIds = v.checkpointIds \cup checkpoints,
            !.supportingIds = v.supportingIds \cup supporting \cup novel,
            !.contradictionIds = v.contradictionIds \cup contradicting,
            !.support = support,
            !.contradiction = contradiction,
            !.novelty = novelty,
            !.coverage = coverage,
            !.stale = stale]
  BY DEF Observed
<1>3. confidence(memoryVision) \in Int
  BY SelectedAreBranches, ConfidenceIsNumber
<1>4. IsEvidence(relevant)
  <2>1. relevant \subseteq pieces
    OBVIOUS
  <2> HIDE DEF relevant
  <2> QED BY <2>1, FS_Subset DEF IsEvidence
<1>5. /\ IsFiniteSet(seen)
      /\ \A o \in seen : o.utilityGain \in Int /\ IsFiniteSet(o.visited) /\ IsFiniteSet(o.injected)
  <2>1. seen \subseteq observations
    BY DEF ObservationsAbout
  <2> HIDE DEF seen
  <2> QED BY <2>1, FS_Subset DEF AreObserved
<1>6. IsFiniteSet(v.unresolved) /\ IsFiniteSet(unresolved)
  <2>1. IsFiniteSet(v.unresolved) /\ unresolved \subseteq v.unresolved
    BY DEF IsVision
  <2> QED BY <2>1, FS_Subset
<1> HIDE DEF relevant, seen, selected, memoryVision, ids, unresolved
<1>7. IsFiniteSet(visited) /\ IsFiniteSet(injected)
  <2> DEFINE visitedBy == [o \in seen |-> o.visited]
             injectedBy == [o \in seen |-> o.injected]
  <2>1. IsFiniteSet(UNION {visitedBy[o] : o \in DOMAIN visitedBy})
    BY <1>5, AllAreFinite
  <2>2. IsFiniteSet(UNION {injectedBy[o] : o \in DOMAIN injectedBy})
    BY <1>5, AllAreFinite
  <2>3. /\ {visitedBy[o] : o \in DOMAIN visitedBy} = {o.visited : o \in seen}
        /\ {injectedBy[o] : o \in DOMAIN injectedBy} = {o.injected : o \in seen}
    OBVIOUS
  <2>4. IsFiniteSet(v.visited) /\ IsFiniteSet(v.injected)
    BY DEF IsVision
  <2>5. IsFiniteSet(UNION {o.visited : o \in seen}) /\ IsFiniteSet(UNION {o.injected : o \in seen})
    BY <2>1, <2>2, <2>3
  <2> QED BY <2>4, <2>5, FS_Union
<1>8. gain \in Int
  <2> DEFINE gains == [o \in seen |-> o.utilityGain]
  <2>1. DOMAIN gains = seen /\ \A o \in seen : gains[o] \in Int
    BY <1>5
  <2> HIDE DEF gains
  <2>2. Total(gains) \in Int
    BY <1>5, <2>1, TotalIsNumber
  <2> QED BY <2>2 DEF gains
<1>9. support \in Int /\ contradiction \in Int /\ newer \in Int
  <2>1. v.support \in Int /\ v.contradiction \in Int /\ v.novelty \in Int
    BY DEF IsVision
  <2>2. /\ aggregateEvidenceScore(relevant, "support") \in Int
        /\ aggregateEvidenceScore(relevant, "contradiction") \in Int
        /\ aggregateEvidenceScore(relevant, "novelty") \in Int
    BY <1>4, AggregateIsNumber
  <2> QED BY <2>1, <2>2, NumbersKept, Zenon
<1> HIDE DEF gain, visited, frontier, injected, checkpoints, supporting, novel, contradicting, support,
             contradiction, newer
<1>10. novelty \in Int
  <2>1. raised \in Int
    BY <1>8, <1>9
  <2> HIDE DEF raised
  <2> QED BY <2>1, ClampIsNumber, Zenon
<1>11. coverage \in Int
  BY <1>6, FS_CardinalityType, CoverageOfQuestionsIsNumber
<1> HIDE DEF novelty, coverage, stale, next
<1>12. /\ DOMAIN next = DOMAIN v /\ next.id = v.id /\ next.mergedFrom = v.mergedFrom
       /\ next.priorUtility = v.priorUtility
  BY <1>2 DEF IsVision, VisionFields
<1>13. /\ next.memoryVision = memoryVision /\ next.unresolved = unresolved
       /\ next.visited = visited /\ next.injected = injected
       /\ next.support = support /\ next.contradiction = contradiction
       /\ next.novelty = novelty /\ next.coverage = coverage
  BY <1>2 DEF IsVision, VisionFields
<1>14. /\ v.checkpointIds \subseteq next.checkpointIds
       /\ v.supportingIds \subseteq next.supportingIds
       /\ v.contradictionIds \subseteq next.contradictionIds
  BY <1>2 DEF IsVision, VisionFields
<1>15. cost \in Int
  BY <1>7, <1>13, CostIsNumber
<1> HIDE DEF status, cost, judged
<1>16. judged = [next EXCEPT !.status = status, !.costPenalty = cost]
  BY DEF judged
<1>17. /\ VisionFields \subseteq DOMAIN judged /\ judged.costPenalty = cost
       /\ judged.id = next.id /\ judged.mergedFrom = next.mergedFrom
       /\ judged.checkpointIds = next.checkpointIds
       /\ judged.supportingIds = next.supportingIds
       /\ judged.contradictionIds = next.contradictionIds
       /\ judged.priorUtility = next.priorUtility
       /\ judged.memoryVision = next.memoryVision /\ judged.unresolved = next.unresolved
       /\ judged.visited = next.visited /\ judged.injected = next.injected
       /\ judged.support = next.support /\ judged.contradiction = next.contradiction
       /\ judged.novelty = next.novelty /\ judged.coverage = next.coverage
  BY <1>12, <1>16 DEF IsVision, VisionFields
<1> DEFINE score == calculateProgressiveVisionScore(judged)
<1>18. score \in Int
  <2>1. v.priorUtility \in Int
    BY DEF IsVision
  <2> QED BY <1>3, <1>9, <1>10, <1>11, <1>12, <1>13, <1>15, <1>17, <2>1, ScoreIsNumber
<1> HIDE DEF score, made
<1>19. made = [judged EXCEPT !.score = score]
  BY <1>1 DEF score
<1>20. /\ DOMAIN made = DOMAIN judged /\ made.score = score
       /\ made.id = judged.id /\ made.mergedFrom = judged.mergedFrom
       /\ made.checkpointIds = judged.checkpointIds
       /\ made.supportingIds = judged.supportingIds
       /\ made.contradictionIds = judged.contradictionIds
       /\ made.priorUtility = judged.priorUtility /\ made.unresolved = judged.unresolved
       /\ made.visited = judged.visited /\ made.injected = judged.injected
       /\ made.support = judged.support /\ made.contradiction = judged.contradiction
       /\ made.novelty = judged.novelty
  BY <1>17, <1>19 DEF VisionFields
<1>21. IsVision(made)
  <2>1. v.priorUtility \in Int
    BY DEF IsVision
  <2> QED BY <1>6, <1>7, <1>9, <1>10, <1>12, <1>13, <1>17, <1>18, <1>20, <2>1 DEF IsVision
<1>22. Continues(v, made)
  BY <1>12, <1>14, <1>17, <1>20 DEF Continues
<1> QED BY <1>21, <1>22 DEF made

LEMMA ReevaluatedIsVision ==
    ASSUME NEW v, IsVision(v), NEW t, NEW g, NEW B, AreBranches(B),
           NEW pieces, IsEvidence(pieces), NEW observations, AreObserved(observations)
    PROVE  /\ IsVision(Reevaluated(v, t, g, B, pieces, observations))
           /\ Continues(v, Reevaluated(v, t, g, B, pieces, observations))
<1>1. CASE branchIdsExist(v, B)
  BY <1>1, RevalidatedIsVision DEF Reevaluated
<1>2. CASE ~branchIdsExist(v, B)
  <2> DEFINE made == [v EXCEPT !.contextRevision = g.revision, !.status = "pruned"]
  <2>1. Reevaluated(v, t, g, B, pieces, observations) = made
    BY <1>2 DEF Reevaluated
  <2>2. IsVision(made) /\ Continues(v, made)
    BY DEF IsVision, VisionFields, Continues
  <2> QED BY <2>1, <2>2
<1> QED BY <1>1, <1>2

-----------------------------------------------------------------------------
(* Equivalent visions merged                                               *)

\* Of the visions of a group, one wins.
LEMMA WinnerIsMember ==
    ASSUME NEW group, NEW n \in Nat \ {0}, DOMAIN group = 1..n,
           \A i \in 1..n : group[i].score \in Int
    PROVE  Winner(group) \in 1..n
<1> DEFINE scoreOf == [i \in 1..n |-> group[i].score]
           scores == {scoreOf[i] : i \in DOMAIN scoreOf}
           top == Max(scores)
           best == {i \in 1..n : group[i].score = top}
           first == Min(best)
           wins(i) == \A j \in DOMAIN group :
                          \/ group[i].score > group[j].score
                          \/ group[i].score = group[j].score /\ i <= j
<1>1. top \in scores /\ \A i \in 1..n : top >= group[i].score
  <2>1. IsFiniteSet(DOMAIN scoreOf)
    BY FS_Interval
  <2>2. IsFiniteSet(scores)
    <3> HIDE DEF scoreOf
    <3> QED BY <2>1, ImageIsFinite
  <2>3. \A i \in 1..n : group[i].score \in scores
    OBVIOUS
  <2>4. scores \in SUBSET Int /\ scores # {}
    OBVIOUS
  <2> HIDE DEF scores
  <2>5. top \in scores /\ \A m \in scores : top >= m
    BY <2>2, <2>4, GreatestOf
  <2> QED BY <2>3, <2>5
<1>2. best # {} /\ best \in SUBSET Nat /\ best \subseteq 1..n
  <2>1. \E i \in 1..n : group[i].score = top
    <3> HIDE DEF top
    <3> QED BY <1>1
  <2> HIDE DEF top
  <2> QED BY <2>1
<1> HIDE DEF scoreOf, scores, top
<1>3. first \in best /\ \A i \in best : first <= i
  <2> HIDE DEF best
  <2> QED BY <1>2, LeastOf
<1> HIDE DEF first
<1>4. first \in 1..n /\ wins(first)
  <2>1. first \in 1..n /\ group[first].score = top
    BY <1>3
  <2>2. ASSUME NEW j \in 1..n
        PROVE  \/ group[first].score > group[j].score
               \/ group[first].score = group[j].score /\ first <= j
    <3>1. CASE group[j].score = top
      BY <1>3, <2>1, <3>1
    <3>2. CASE group[j].score # top
      BY <1>1, <2>1, <3>2
    <3> QED BY <3>1, <3>2
  <2> QED BY <2>1, <2>2
<1>5. Winner(group) = CHOOSE i \in DOMAIN group : wins(i)
  BY DEF Winner
<1> HIDE DEF wins
<1> QED BY <1>4, <1>5

\* The merged vision is one, and each vision of the group goes on as it.
LEMMA MergedIsVision ==
    ASSUME NEW group, NEW n \in Nat \ {0}, DOMAIN group = 1..n, \A i \in 1..n : IsVision(group[i])
    PROVE  IsVision(mergeGroup(group)) /\ \A i \in 1..n : Continues(group[i], mergeGroup(group))
<1> DEFINE k == Winner(group)
           winner == group[k]
           others == {group[i] : i \in DOMAIN group \ {k}}
           all == Range(group)
           mergedFrom == winner.mergedFrom \cup Ids(others) \cup UNION {v.mergedFrom : v \in others}
           supporting == UNION {v.supportingIds : v \in all}
           contradicting == UNION {v.contradictionIds : v \in all}
           visited == UNION {v.visited : v \in all}
           frontier == UNION {v.frontier : v \in all}
           injected == UNION {v.injected : v \in all}
           checkpoints == UNION {v.checkpointIds : v \in all}
           made == mergeGroup(group)
<1>1. k \in 1..n
  BY WinnerIsMember DEF IsVision
<1>2. made = [winner EXCEPT
            !.mergedFrom = mergedFrom,
            !.supportingIds = supporting,
            !.contradictionIds = contradicting,
            !.visited = visited,
            !.frontier = frontier,
            !.injected = injected,
            !.checkpointIds = checkpoints]
  BY DEF mergeGroup
<1> HIDE DEF k
<1>3. all = {group[i] : i \in 1..n} /\ \A i \in 1..n : group[i] \in all
  BY DEF Range
<1>4. IsFiniteSet(visited) /\ IsFiniteSet(injected)
  <2> DEFINE visitedBy == [v \in all |-> v.visited]
             injectedBy == [v \in all |-> v.injected]
  <2>1. IsFiniteSet(all)
    <3>1. IsFiniteSet(DOMAIN group)
      BY FS_Interval
    <3> QED BY <3>1, ImageIsFinite DEF Range
  <2>2. \A v \in all : IsFiniteSet(v.visited) /\ IsFiniteSet(v.injected)
    BY <1>3 DEF IsVision
  <2> HIDE DEF all
  <2>3. /\ {visitedBy[v] : v \in DOMAIN visitedBy} = {v.visited : v \in all}
        /\ {injectedBy[v] : v \in DOMAIN injectedBy} = {v.injected : v \in all}
    OBVIOUS
  <2>4. IsFiniteSet(UNION {visitedBy[v] : v \in DOMAIN visitedBy})
    BY <2>1, <2>2, AllAreFinite
  <2>5. IsFiniteSet(UNION {injectedBy[v] : v \in DOMAIN injectedBy})
    BY <2>1, <2>2, AllAreFinite
  <2> QED BY <2>3, <2>4, <2>5
<1>5. /\ VisionFields \subseteq DOMAIN winner /\ winner.score \in Int /\ winner.priorUtility \in Int
      /\ winner.support \in Int /\ winner.contradiction \in Int /\ winner.novelty \in Int
      /\ IsFiniteSet(winner.unresolved)
  BY <1>1 DEF IsVision
<1> HIDE DEF winner, mergedFrom, supporting, contradicting, visited, frontier, injected,
             checkpoints, made
<1>6. /\ DOMAIN made = DOMAIN winner /\ made.id = winner.id /\ made.score = winner.score
      /\ made.priorUtility = winner.priorUtility /\ made.support = winner.support
      /\ made.contradiction = winner.contradiction /\ made.novelty = winner.novelty
      /\ made.unresolved = winner.unresolved
      /\ made.visited = visited /\ made.injected = injected /\ made.mergedFrom = mergedFrom
      /\ made.supportingIds = supporting /\ made.contradictionIds = contradicting
      /\ made.checkpointIds = checkpoints
  BY <1>2, <1>5 DEF VisionFields
<1>7. IsVision(made)
  BY <1>4, <1>5, <1>6 DEF IsVision
<1>8. ASSUME NEW i \in 1..n PROVE Continues(group[i], made)
  <2>1. group[i] \in all
    BY <1>3
  <2> HIDE DEF all
  <2>2. /\ group[i].supportingIds \subseteq supporting
        /\ group[i].contradictionIds \subseteq contradicting
        /\ group[i].checkpointIds \subseteq checkpoints
    BY <2>1 DEF supporting, contradicting, checkpoints
  <2>3. CASE i = k
    <3>1. group[i].id = winner.id /\ group[i].mergedFrom \subseteq mergedFrom
      BY <2>3 DEF winner, mergedFrom
    <3> QED BY <1>6, <2>2, <3>1 DEF Continues
  <2>4. CASE i # k
    <3>1. group[i] \in others
      BY <2>4
    <3> HIDE DEF others
    <3>2. group[i].id \in mergedFrom /\ group[i].mergedFrom \subseteq mergedFrom
      BY <3>1 DEF mergedFrom, Ids
    <3> QED BY <1>6, <2>2, <3>2 DEF Continues
  <2> QED BY <2>3, <2>4
<1> QED BY <1>7, <1>8 DEF made

\* Every one of the visions goes on as one of the others.
Covered(visions, others) ==
    \A i \in DOMAIN visions : \E k \in DOMAIN others : Continues(visions[i], others[k])

\* Merging leaves visions, and every vision goes on.
LEMMA MergedAreVisions ==
    ASSUME NEW visions, AreVisions(visions)
    PROVE  /\ AreVisions(mergeEquivalentVisions(visions))
           /\ Covered(visions, mergeEquivalentVisions(visions))
<1> DEFINE key(i) == visionEquivalenceKey(visions[i])
           alone == {i \in DOMAIN visions : \A j \in 1..(i - 1) : key(j) # key(i)}
           alike(i) == {j \in DOMAIN visions : key(j) = key(i)}
           firsts == ByPlace(alone)
           group(i) == AtPlaces(visions, alike(i))
           merged == mergeEquivalentVisions(visions)
           many == Cardinality(alone)
<1>1. merged = [k \in DOMAIN firsts |-> mergeGroup(group(firsts[k]))]
  BY DEF mergeEquivalentVisions
<1>2. PICK n \in Nat : DOMAIN visions = 1..n /\ \A i \in 1..n : IsVision(visions[i])
  BY DEF AreVisions
<1> HIDE DEF key, merged
<1>3. /\ many \in Nat /\ DOMAIN firsts = 1..many
      /\ \A k \in 1..many : firsts[k] \in alone
      /\ \A i \in alone : \E k \in 1..many : firsts[k] = i
  <2>1. alone \in SUBSET Nat /\ alone \subseteq 1..n
    BY <1>2
  <2> HIDE DEF alone
  <2>2. IsFiniteSet(1..n)
    BY FS_Interval
  <2>3. IsFiniteSet(alone)
    BY <2>1, <2>2, FS_Subset
  <2> QED BY <2>1, <2>3, InPlace
<1>4. ASSUME NEW i \in 1..n
      PROVE  /\ IsVision(mergeGroup(group(i)))
             /\ \A j \in alike(i) : Continues(visions[j], mergeGroup(group(i)))
  <2> DEFINE size == Cardinality(alike(i))
  <2>1. alike(i) \in SUBSET DOMAIN visions /\ i \in alike(i) /\ alike(i) \subseteq 1..n
    BY <1>2
  <2> HIDE DEF alike
  <2>2. /\ size \in Nat /\ DOMAIN group(i) = 1..size
        /\ \A k \in 1..size : \E j \in alike(i) : group(i)[k] = visions[j]
        /\ \A j \in alike(i) : \E k \in 1..size : group(i)[k] = visions[j]
    BY <1>2, <2>1, ElementsAt
  <2> HIDE DEF group, size
  <2>3. size \in Nat \ {0}
    BY <2>1, <2>2
  <2>4. \A k \in 1..size : IsVision(group(i)[k])
    BY <1>2, <2>1, <2>2
  <2>5. /\ IsVision(mergeGroup(group(i)))
        /\ \A k \in 1..size : Continues(group(i)[k], mergeGroup(group(i)))
    BY <2>2, <2>3, <2>4, MergedIsVision
  <2> QED BY <2>2, <2>5
<1>5. ASSUME NEW i \in 1..n PROVE \E j \in alone : i \in alike(j)
  <2> DEFINE same == {j \in 1..n : key(j) = key(i)}
             first == Min(same)
  <2>1. same \in SUBSET Nat /\ same # {}
    OBVIOUS
  <2> HIDE DEF same
  <2>2. first \in same /\ \A j \in same : first <= j
    BY <2>1, LeastOf
  <2> HIDE DEF first
  <2>3. first \in 1..n /\ key(first) = key(i)
    BY <2>2 DEF same
  <2>4. \A j \in 1..(first - 1) : key(j) # key(first)
    <3> SUFFICES ASSUME NEW j \in 1..(first - 1), key(j) = key(first) PROVE FALSE
      OBVIOUS
    <3>1. j \in same
      BY <2>3 DEF same
    <3> QED BY <2>2, <2>3, <3>1
  <2>5. first \in alone /\ i \in alike(first)
    BY <1>2, <2>3, <2>4
  <2> QED BY <2>5
<1>6. alone \subseteq 1..n
  BY <1>2
<1> HIDE DEF alone, alike, group, firsts, many
<1>7. DOMAIN merged = 1..many /\ \A k \in 1..many : merged[k] = mergeGroup(group(firsts[k]))
  BY <1>1, <1>3
<1>8. \A k \in 1..many : IsVision(merged[k])
  BY <1>3, <1>4, <1>6, <1>7
<1>9. ASSUME NEW i \in 1..n PROVE \E k \in 1..many : Continues(visions[i], merged[k])
  <2>1. PICK j \in alone : i \in alike(j)
    BY <1>5
  <2>2. PICK k \in 1..many : firsts[k] = j
    BY <1>3
  <2>3. Continues(visions[i], mergeGroup(group(j)))
    BY <1>4, <1>6, <2>1
  <2> QED BY <1>7, <2>2, <2>3
<1> QED BY <1>2, <1>3, <1>7, <1>8, <1>9 DEF AreVisions, Covered, merged

\* The beam gives visions a status, and nothing else.
LEMMA BeamKeepsVisions ==
    ASSUME NEW visions, AreVisions(visions)
    PROVE  /\ AreVisions(selectProgressiveVisionBeam(visions).visions)
           /\ Covered(visions, selectProgressiveVisionBeam(visions).visions)
<1> DEFINE chosen == selectProgressiveVisionBeam(visions).visions
<1>1. \E status : chosen = [i \in DOMAIN visions |-> [visions[i] EXCEPT !.status = status[i]]]
  <2> DEFINE eligible == SortSeq(SelectSeq(visions, LAMBDA v : v.status \notin Out), rank)
             dominated == Dominated(eligible)
             ranked == SelectSeq(eligible, LAMBDA v : v.id \notin dominated)
             active == UpTo(SelectSeq(ranked, LAMBDA v : v.score >= MinimumActiveScore /\ v.stale = 0),
                            MaxActiveVisions)
             deferred == UpTo(SelectSeq(ranked, LAMBDA v : v.id \notin IdsOf(active)),
                              MaxDeferredVisions)
             dominant == IF active = <<>> THEN NoVision ELSE Head(active).id
             statusOf(v) == FirstOf(<<
                 <<v.id \in dominated, "superseded">>,
                 <<v.id = dominant, "dominant">>,
                 <<v.id \in IdsOf(active), "exploring">>,
                 <<v.id \in IdsOf(deferred) \/ v.status \notin Out, "deferred">>,
                 <<TRUE, v.status>> >>)
             status == [i \in DOMAIN visions |-> statusOf(visions[i])]
             beam == [i \in DOMAIN visions |-> [visions[i] EXCEPT !.status = statusOf(visions[i])]]
  <2>1. selectProgressiveVisionBeam(visions) =
            [visions |-> beam, dominantVisionId |-> dominant, activeVisionIds |-> IdsOf(active),
             deferredVisionIds |-> IdsOf(deferred)]
    BY Zenon DEF selectProgressiveVisionBeam
  <2> HIDE DEF dominated, active, deferred, dominant, statusOf
  <2>2. chosen = beam
    <3> HIDE DEF beam
    <3> QED BY <2>1
  <2>3. beam = [i \in DOMAIN visions |-> [visions[i] EXCEPT !.status = status[i]]]
    OBVIOUS
  <2> HIDE DEF status, beam, chosen
  <2> QED BY <2>2, <2>3
<1>2. PICK status : chosen = [i \in DOMAIN visions |-> [visions[i] EXCEPT !.status = status[i]]]
  BY <1>1
<1>3. PICK n \in Nat : DOMAIN visions = 1..n /\ \A i \in 1..n : IsVision(visions[i])
  BY DEF AreVisions
<1> HIDE DEF chosen
<1>4. ASSUME NEW i \in 1..n PROVE IsVision(chosen[i]) /\ Continues(visions[i], chosen[i])
  <2>1. chosen[i] = [visions[i] EXCEPT !.status = status[i]]
    BY <1>2, <1>3
  <2>2. IsVision(visions[i])
    BY <1>3
  <2> QED BY <2>1, <2>2 DEF IsVision, VisionFields, Continues
<1>5. DOMAIN chosen = 1..n
  BY <1>2, <1>3
<1> QED BY <1>3, <1>4, <1>5 DEF AreVisions, Covered, chosen

LEMMA CoveredOn ==
    ASSUME NEW u, NEW v, NEW w, Covered(u, v), Covered(v, w) PROVE Covered(u, w)
BY ContinuesOn DEF Covered

-----------------------------------------------------------------------------
(* Checkpoints                                                             *)

\* A checkpoint has what a vision goes back to.
IsCheckpoint(c) ==
    /\ c.score \in Int
    /\ IsFiniteSet(c.visited) /\ IsFiniteSet(c.injected) /\ IsFiniteSet(c.unresolved)

\* The store keeps checkpoints, and of a vision only ids that are its own.
StoreInv ==
    /\ \A id \in DOMAIN stored : IsCheckpoint(stored[id])
    /\ \A v \in DOMAIN byVision : byVision[v] \in Seq({id \in DOMAIN stored : id[1] = v})

LEMMA SaveStep ==
    ASSUME StoreInv, NEW checkpoints, NEW n \in Nat, DOMAIN checkpoints = 1..n,
           saveAll(checkpoints),
           \A i \in 1..n : IsCheckpoint(checkpoints[i])
                           /\ checkpoints[i].id[1] = checkpoints[i].visionId
    PROVE  StoreInv'
<1> DEFINE ids == [i \in DOMAIN checkpoints |-> checkpoints[i].id]
           last(id) == Max({i \in DOMAIN ids : ids[i] = id})
           unlisted(v) ==
               {i \in DOMAIN ids :
                   /\ checkpoints[i].visionId = v
                   /\ ids[i] \notin Range(Saved(v)) \cup {ids[j] : j \in 1..(i - 1)}}
           own(v) == {id \in DOMAIN stored : id[1] = v}
           later(v) == {id \in DOMAIN stored' : id[1] = v}
<1>1. /\ stored' = [id \in DOMAIN stored \cup Range(ids) |->
                        IF id \in Range(ids) THEN checkpoints[last(id)] ELSE stored[id]]
      /\ byVision' = [v \in DOMAIN byVision \cup {c.visionId : c \in Range(checkpoints)} |->
                          Saved(v) \o AtPlaces(ids, unlisted(v))]
  BY Zenon DEF saveAll
<1>2. /\ DOMAIN ids = 1..n
      /\ \A i \in 1..n : ids[i] = checkpoints[i].id
  OBVIOUS
<1>3. ASSUME NEW v PROVE /\ unlisted(v) \in SUBSET 1..n
                         /\ \A i \in unlisted(v) : ids[i][1] = v
  BY <1>2
<1>4. ASSUME NEW id \in Range(ids) PROVE last(id) \in 1..n
  <2> DEFINE I == {i \in DOMAIN ids : ids[i] = id}
  <2>1. I \in SUBSET (1..n) /\ I \in SUBSET Int /\ I # {}
    BY <1>2 DEF Range
  <2>2. IsFiniteSet(I)
    <3>1. IsFiniteSet(1..n)
      BY FS_Interval
    <3> HIDE DEF I
    <3> QED BY <2>1, <3>1, FS_Subset
  <2> HIDE DEF I
  <2>3. Max(I) \in 1..n
    BY <2>1, <2>2, GreatestOf
  <2> QED BY <2>3, Zenon DEF I
<1>5. DOMAIN stored' = DOMAIN stored \cup Range(ids)
  BY <1>1
<1>6. \A i \in 1..n : ids[i] \in DOMAIN stored'
  BY <1>2, <1>5 DEF Range
<1>7. ASSUME NEW id \in DOMAIN stored' PROVE IsCheckpoint(stored'[id])
  <2>1. CASE id \in Range(ids)
    <3>1. stored'[id] = checkpoints[last(id)]
      BY <1>1, <2>1
    <3>2. last(id) \in 1..n
      BY <1>4, <2>1
    <3> HIDE DEF last
    <3> QED BY <3>1, <3>2
  <2>2. CASE id \notin Range(ids)
    <3>1. id \in DOMAIN stored /\ stored'[id] = stored[id]
      BY <1>1, <1>5, <2>2
    <3> QED BY <3>1 DEF StoreInv
  <2> QED BY <2>1, <2>2
<1>8. ASSUME NEW v PROVE own(v) \subseteq later(v)
  BY <1>5
<1>9. ASSUME NEW v PROVE Saved(v) \in Seq(later(v))
  <2>1. CASE v \in DOMAIN byVision
    <3>1. Saved(v) \in Seq(own(v))
      BY <2>1 DEF StoreInv, Saved
    <3>2. own(v) \subseteq later(v)
      BY <1>8
    <3> HIDE DEF own, later
    <3> QED BY <3>1, <3>2
  <2>2. CASE v \notin DOMAIN byVision
    <3>1. Saved(v) = <<>>
      BY <2>2 DEF Saved
    <3> HIDE DEF later
    <3> QED BY <3>1
  <2> QED BY <2>1, <2>2
<1>10. \A v \in DOMAIN byVision' : byVision'[v] = Saved(v) \o AtPlaces(ids, unlisted(v))
  BY <1>1
<1> HIDE DEF ids, last, unlisted, own
<1>11. ASSUME NEW v PROVE AtPlaces(ids, unlisted(v)) \in Seq(later(v))
  <2> DEFINE added == AtPlaces(ids, unlisted(v))
             m == Cardinality(unlisted(v))
  <2>1. /\ m \in Nat /\ DOMAIN added = 1..m
        /\ \A k \in 1..m : \E i \in unlisted(v) : added[k] = ids[i]
    BY <1>2, <1>3, ElementsAt
  <2>2. \A i \in unlisted(v) : ids[i] \in later(v)
    BY <1>3, <1>6
  <2>3. \A k \in 1..m : added[k] \in later(v)
    BY <2>1, <2>2
  <2>4. added = [k \in 1..m |-> added[k]]
    BY <2>1, Zenon DEF AtPlaces
  <2> HIDE DEF added, m, later
  <2>5. added \in Seq(later(v))
    BY <2>1, <2>3, <2>4
  <2> QED BY <2>5 DEF added
<1>12. ASSUME NEW v \in DOMAIN byVision' PROVE byVision'[v] \in Seq(later(v))
  <2> DEFINE added == AtPlaces(ids, unlisted(v))
  <2>1. byVision'[v] = Saved(v) \o added
    BY <1>10
  <2>2. Saved(v) \in Seq(later(v)) /\ added \in Seq(later(v))
    BY <1>9, <1>11
  <2> HIDE DEF added, later
  <2> QED BY <2>1, <2>2
<1> QED BY <1>7, <1>12 DEF StoreInv, later

LEMMA DeleteStep ==
    ASSUME StoreInv, NEW v \in DOMAIN byVision, deleteVision(v)
    PROVE  StoreInv'
<1> DEFINE own(w) == {id \in DOMAIN stored : id[1] = w}
           later(w) == {id \in DOMAIN stored' : id[1] = w}
<1>1. /\ DOMAIN stored' = DOMAIN stored \ Range(Saved(v))
      /\ \A id \in DOMAIN stored' : stored'[id] = stored[id]
      /\ DOMAIN byVision' = DOMAIN byVision \ {v}
      /\ \A w \in DOMAIN byVision' : byVision'[w] = byVision[w]
  BY DEF deleteVision, Restrict
<1>2. \A w \in DOMAIN byVision : byVision[w] \in Seq(own(w))
  BY DEF StoreInv
<1>3. \A id \in Range(Saved(v)) : id[1] = v
  <2>1. Saved(v) \in Seq(own(v))
    BY <1>2 DEF Saved
  <2>2. \A id \in own(v) : id[1] = v
    OBVIOUS
  <2> HIDE DEF own
  <2>3. \A i \in DOMAIN Saved(v) : Saved(v)[i] \in own(v)
    BY <2>1
  <2> QED BY <2>2, <2>3 DEF Range
<1>4. ASSUME NEW w \in DOMAIN byVision' PROVE byVision'[w] \in Seq(later(w))
  <2>1. own(w) \subseteq later(w)
    BY <1>1, <1>3
  <2>2. byVision'[w] \in Seq(own(w))
    BY <1>1, <1>2
  <2> HIDE DEF own, later
  <2> QED BY <2>1, <2>2
<1>5. \A id \in DOMAIN stored' : IsCheckpoint(stored'[id])
  BY <1>1 DEF StoreInv
<1> QED BY <1>4, <1>5 DEF StoreInv

\* A checkpoint of a vision is one, and its own.
LEMMA CheckpointOfVision ==
    ASSUME NEW v, IsVision(v), NEW o
    PROVE  /\ IsCheckpoint(createCheckpoint(v, o))
           /\ createCheckpoint(v, o).id[1] = createCheckpoint(v, o).visionId
BY DEF createCheckpoint, IsCheckpoint, IsVision

\* A vision that goes back to a checkpoint is one, and goes on.
LEMMA BacktrackedIsVision ==
    ASSUME NEW v, IsVision(v), NEW c, IsCheckpoint(c)
    PROVE  /\ IsVision(backtrackProgressiveVision(v, c))
           /\ Continues(v, backtrackProgressiveVision(v, c))
<1> DEFINE revision == Higher(v.contextRevision, c.contextRevision)
           part == 820
           score == Higher(c.score, Scale(v.score, part))
           made == backtrackProgressiveVision(v, c)
<1>1. made = [v EXCEPT
        !.contextRevision = revision,
        !.frontier = c.frontier,
        !.visited = c.visited,
        !.injected = c.injected,
        !.unresolved = c.unresolved,
        !.score = score,
        !.status = "exploring"]
  BY DEF backtrackProgressiveVision
<1>2. score \in Int
  <2>1. c.score \in Int /\ v.score \in Int /\ part \in Int
    BY DEF IsCheckpoint, IsVision
  <2> HIDE DEF part
  <2>2. Scale(v.score, part) \in Int
    BY <2>1, ScaleIsNumber, Zenon
  <2> QED BY <2>1, <2>2, NumbersKept, Zenon
<1> HIDE DEF revision, score, made
<1>3. /\ DOMAIN made = DOMAIN v /\ made.id = v.id /\ made.mergedFrom = v.mergedFrom
      /\ made.supportingIds = v.supportingIds /\ made.contradictionIds = v.contradictionIds
      /\ made.checkpointIds = v.checkpointIds /\ made.priorUtility = v.priorUtility
      /\ made.support = v.support /\ made.contradiction = v.contradiction
      /\ made.novelty = v.novelty /\ made.score = score /\ made.visited = c.visited
      /\ made.injected = c.injected /\ made.unresolved = c.unresolved
  BY <1>1 DEF IsVision, VisionFields
<1>4. IsVision(made)
  BY <1>2, <1>3 DEF IsVision, IsCheckpoint
<1>5. Continues(v, made)
  BY <1>3 DEF Continues
<1> QED BY <1>4, <1>5 DEF made

-----------------------------------------------------------------------------
(* The invariant of the search                                             *)

SearchInv ==
    /\ "visions" \in DOMAIN ensemble /\ AreVisions(ensemble.visions)
    /\ AreBranches(branches) /\ \A b \in branches : {"prior", "required"} \subseteq DOMAIN b
    /\ StoreInv

\* What the beam leaves of visions, merged, covers them.
LEMMA SelectedEnsemble ==
    ASSUME NEW visions, AreVisions(visions), NEW e,
           e = selectProgressiveVisionBeam(mergeEquivalentVisions(visions))
    PROVE  "visions" \in DOMAIN e /\ AreVisions(e.visions) /\ Covered(visions, e.visions)
<1> DEFINE merged == mergeEquivalentVisions(visions)
<1>1. AreVisions(merged) /\ Covered(visions, merged)
  BY MergedAreVisions
<1> HIDE DEF merged
<1>2. "visions" \in DOMAIN selectProgressiveVisionBeam(merged)
  BY DEF selectProgressiveVisionBeam
<1>3. AreVisions(selectProgressiveVisionBeam(merged).visions)
      /\ Covered(merged, selectProgressiveVisionBeam(merged).visions)
  BY <1>1, BeamKeepsVisions
<1>4. e = selectProgressiveVisionBeam(merged)
  BY DEF merged
<1> QED BY <1>1, <1>2, <1>3, <1>4, CoveredOn

LEMMA InitSearch == Init => SearchInv
<1> SUFFICES ASSUME Init PROVE SearchInv
  OBVIOUS
<1>1. /\ branches = InitialBranches /\ stored = <<>> /\ byVision = <<>>
      /\ ensemble = selectProgressiveVisionBeam(
                        mergeEquivalentVisions(createFromSeeds(Start.seeds, task, field, branches)))
  BY Zenon DEF Init, MemoryInit, createProgressiveVisionEnsemble
<1>2. AreBranches(branches) /\ \A b \in branches : {"prior", "required"} \subseteq DOMAIN b
  BY <1>1, BranchConstants DEF AreBranches
<1>3. AreVisions(createFromSeeds(Start.seeds, task, field, branches))
  BY <1>2, SearchConstants, CreatedAreVisions
<1>4. "visions" \in DOMAIN ensemble /\ AreVisions(ensemble.visions)
  BY <1>1, <1>3, SelectedEnsemble, Zenon
<1>5. StoreInv
  <2>1. DOMAIN stored = {} /\ DOMAIN byVision = {}
    BY <1>1
  <2> QED BY <2>1 DEF StoreInv
<1> QED BY <1>2, <1>4, <1>5 DEF SearchInv

\* A function of the places up to n is a sequence.
LEMMA PlacesAreSequence ==
    ASSUME NEW n \in Nat, NEW f, f = [i \in 1..n |-> f[i]]
    PROVE  \E S : f \in Seq(S)
<1> DEFINE S == {f[i] : i \in 1..n}
<1>1. f \in [1..n -> S]
  OBVIOUS
<1> HIDE DEF S
<1>2. f \in Seq(S)
  BY <1>1
<1> QED BY <1>2

\* Visions judged again, and more behind them, are visions that cover them.
LEMMA SpawnedCover ==
    ASSUME NEW S, NEW again \in Seq(S), NEW T, NEW spawned \in Seq(T),
           \A i \in DOMAIN again : IsVision(again[i]),
           \A i \in DOMAIN spawned : IsVision(spawned[i]),
           NEW visions, DOMAIN visions = DOMAIN again,
           \A i \in DOMAIN again : Continues(visions[i], again[i])
    PROVE  AreVisions(again \o spawned) /\ Covered(visions, again \o spawned)
<1> DEFINE both == again \o spawned
<1>1. again \in Seq(S \cup T) /\ spawned \in Seq(S \cup T)
  OBVIOUS
<1>2. /\ Len(again) \in Nat /\ DOMAIN again = 1..Len(again)
      /\ Len(spawned) \in Nat /\ DOMAIN spawned = 1..Len(spawned)
      /\ DOMAIN both = 1..(Len(again) + Len(spawned))
      /\ \A i \in 1..(Len(again) + Len(spawned)) :
            both[i] = IF i <= Len(again) THEN again[i] ELSE spawned[i - Len(again)]
  BY <1>1
<1>3. ASSUME NEW i \in DOMAIN both PROVE IsVision(both[i])
  <2>1. CASE i <= Len(again)
    <3>1. i \in DOMAIN again /\ both[i] = again[i]
      BY <1>2, <2>1
    <3> HIDE DEF both
    <3> QED BY <3>1
  <2>2. CASE ~(i <= Len(again))
    <3>1. i - Len(again) \in DOMAIN spawned /\ both[i] = spawned[i - Len(again)]
      BY <1>2, <2>2
    <3> HIDE DEF both
    <3> QED BY <3>1
  <2> QED BY <2>1, <2>2
<1>4. ASSUME NEW i \in DOMAIN again PROVE i \in DOMAIN both /\ Continues(visions[i], both[i])
  <2>1. i \in DOMAIN both /\ both[i] = again[i]
    BY <1>2
  <2> HIDE DEF both
  <2> QED BY <2>1
<1>5. Len(again) + Len(spawned) \in Nat
  BY <1>2
<1> HIDE DEF both
<1> QED BY <1>2, <1>3, <1>4, <1>5 DEF AreVisions, Covered, both

LEMMA AdvanceSearch ==
    ASSUME SearchInv, NEW v \in Visions, NEW input \in Advances, Advance(v, input)
    PROVE  SearchInv' /\ Covered(ensemble.visions, ensemble'.visions)
<1> DEFINE next == [revision |-> field.revision + input.shift, awake |-> input.awake]
           piece == [e \in input.evidence |->
                        [id |-> e.id, visionId |-> v.id, kind |-> e.kind, weight |-> e.weight,
                         key |-> e.key, contextRevision |-> next.revision]]
           seen == [o \in input.observations |->
                        [visionId |-> v.id, visited |-> o.visited, frontier |-> o.frontier,
                         injected |-> o.injected, resolved |-> o.resolved, depth |-> o.depth,
                         utilityGain |-> o.utilityGain, exhausted |-> o.exhausted]]
           pieces == {piece[e] : e \in DOMAIN piece}
           observations == {seen[o] : o \in DOMAIN seen}
           old == ensemble.visions
           again == [i \in DOMAIN old |-> Reevaluated(old[i], task, next, branches, pieces,
                                                      observations)]
           spawned == createFromSeeds(input.newSeeds, task, next, branches)
<1>1. /\ ensemble' = selectProgressiveVisionBeam(mergeEquivalentVisions(again \o spawned))
      /\ saveAll(CheckpointsOfAdvance(branches, observations))
      /\ branches' = branches
  <2>1. /\ pieces = {[id |-> e.id, visionId |-> v.id, kind |-> e.kind, weight |-> e.weight,
                      key |-> e.key, contextRevision |-> next.revision] : e \in input.evidence}
        /\ observations = {[visionId |-> v.id, visited |-> o.visited, frontier |-> o.frontier,
                            injected |-> o.injected, resolved |-> o.resolved, depth |-> o.depth,
                            utilityGain |-> o.utilityGain, exhausted |-> o.exhausted] :
                               o \in input.observations}
    BY Zenon
  <2> HIDE DEF pieces, observations
  <2>2. /\ advanceProgressiveVisionEnsemble(task, next, branches, pieces, observations,
                                            input.newSeeds)
        /\ saveAll(CheckpointsOfAdvance(branches, observations))
        /\ UNCHANGED memoryVars
    BY <2>1, Zenon DEF Advance
  <2>3. ensemble' = selectProgressiveVisionBeam(mergeEquivalentVisions(again \o spawned))
    BY <2>2, Zenon DEF advanceProgressiveVisionEnsemble
  <2> QED BY <2>2, <2>3 DEF memoryVars
<1>2. IsEvidence(pieces)
  <2>1. IsFiniteSet(input.evidence) /\ \A e \in input.evidence : e.weight \in Int
    BY SearchConstants DEF IsEvidence
  <2>2. DOMAIN piece = input.evidence /\ \A e \in input.evidence : piece[e].weight = e.weight
    OBVIOUS
  <2> HIDE DEF piece
  <2>3. IsFiniteSet(pieces)
    BY <2>1, <2>2, ImageIsFinite
  <2> QED BY <2>1, <2>2, <2>3 DEF IsEvidence
<1>3. AreObserved(observations)
  <2>1. /\ IsFiniteSet(input.observations)
        /\ \A o \in input.observations :
              o.utilityGain \in Int /\ IsFiniteSet(o.visited) /\ IsFiniteSet(o.injected)
    BY SearchConstants DEF AreObserved
  <2>2. /\ DOMAIN seen = input.observations
        /\ \A o \in input.observations :
              /\ seen[o].utilityGain = o.utilityGain /\ seen[o].visited = o.visited
              /\ seen[o].injected = o.injected
    OBVIOUS
  <2> HIDE DEF seen
  <2>3. IsFiniteSet(observations)
    BY <2>1, <2>2, ImageIsFinite
  <2>4. \A x \in observations :
           x.utilityGain \in Int /\ IsFiniteSet(x.visited) /\ IsFiniteSet(x.injected)
    BY <2>1, <2>2
  <2> QED BY <2>3, <2>4 DEF AreObserved
<1> HIDE DEF next, pieces, observations
<1>4. PICK n \in Nat : DOMAIN old = 1..n /\ \A i \in 1..n : IsVision(old[i])
  BY DEF SearchInv, AreVisions
<1>5. AreBranches(branches)
  BY DEF SearchInv
<1>6. /\ again = [i \in 1..n |-> again[i]]
      /\ \A i \in 1..n : IsVision(again[i]) /\ Continues(old[i], again[i])
  <2>1. \A i \in 1..n :
           again[i] = Reevaluated(old[i], task, next, branches, pieces, observations)
    BY <1>4
  <2>2. again = [i \in 1..n |-> again[i]]
    BY <1>4
  <2> HIDE DEF again
  <2>3. ASSUME NEW i \in 1..n PROVE IsVision(again[i]) /\ Continues(old[i], again[i])
    BY <1>2, <1>3, <1>4, <1>5, <2>1, ReevaluatedIsVision
  <2> QED BY <2>2, <2>3
<1>7. \E m \in Nat : /\ spawned = [i \in 1..m |-> spawned[i]]
                     /\ \A i \in 1..m : IsVision(spawned[i])
  <2>1. AreVisions(spawned)
    BY <1>5, SearchConstants, CreatedAreVisions
  <2>2. spawned = [i \in DOMAIN spawned |-> spawned[i]]
    BY DEF createFromSeeds
  <2> HIDE DEF spawned
  <2> QED BY <2>1, <2>2 DEF AreVisions
<1> HIDE DEF again, spawned
<1>8. AreVisions(again \o spawned) /\ Covered(old, again \o spawned)
  <2>1. PICK m \in Nat : /\ spawned = [i \in 1..m |-> spawned[i]]
                        /\ \A i \in 1..m : IsVision(spawned[i])
    BY <1>7
  <2>2. PICK S : again \in Seq(S)
    BY <1>6, PlacesAreSequence
  <2>3. PICK T : spawned \in Seq(T)
    BY <2>1, PlacesAreSequence
  <2>4. DOMAIN again = 1..n /\ DOMAIN spawned = 1..m
    BY <1>6, <2>1
  <2>5. /\ \A i \in DOMAIN again : IsVision(again[i]) /\ Continues(old[i], again[i])
        /\ \A i \in DOMAIN spawned : IsVision(spawned[i])
        /\ DOMAIN old = DOMAIN again
    BY <1>4, <1>6, <2>1, <2>4, Zenon
  <2> HIDE DEF old
  <2> QED BY <2>2, <2>3, <2>5, SpawnedCover
<1>9. "visions" \in DOMAIN ensemble' /\ AreVisions(ensemble'.visions)
      /\ Covered(again \o spawned, ensemble'.visions)
  BY <1>1, <1>8, SelectedEnsemble
<1>10. Covered(old, ensemble'.visions)
  BY <1>8, <1>9, CoveredOn
<1>11. StoreInv'
  <2> DEFINE checkpoints == CheckpointsOfAdvance(branches, observations)
             made == [i \in DOMAIN old |->
                         IF branchIdsExist(old[i], branches)
                         THEN checkpointsBefore(old[i], observations) ELSE {}]
             one == [i \in DOMAIN old |-> CHOOSE c \in made[i] : TRUE]
             I == {i \in DOMAIN old : made[i] # {}}
  <2>1. checkpoints = AtPlaces(one, I)
    BY DEF CheckpointsOfAdvance
  <2>2. ASSUME NEW i \in I PROVE IsCheckpoint(one[i]) /\ one[i].id[1] = one[i].visionId
    <3>1. i \in 1..n /\ IsVision(old[i])
      BY <1>4
    <3>2. one[i] \in checkpointsBefore(old[i], observations)
      BY <1>4
    <3>3. PICK o : one[i] = createCheckpoint(old[i], o)
      <4> HIDE DEF one
      <4> QED BY <3>2 DEF checkpointsBefore
    <3> HIDE DEF one
    <3> QED BY <3>1, <3>3, CheckpointOfVision
  <2>3. DOMAIN one = 1..n /\ I \in SUBSET DOMAIN one
    BY <1>4
  <2> HIDE DEF checkpoints, made, one, I
  <2>4. /\ Cardinality(I) \in Nat /\ DOMAIN checkpoints = 1..Cardinality(I)
        /\ \A k \in 1..Cardinality(I) : \E i \in I : checkpoints[k] = one[i]
    BY <2>1, <2>3, ElementsAt
  <2>5. \A k \in 1..Cardinality(I) : /\ IsCheckpoint(checkpoints[k])
                                     /\ checkpoints[k].id[1] = checkpoints[k].visionId
    BY <2>2, <2>4
  <2>6. saveAll(checkpoints)
    BY <1>1 DEF checkpoints
  <2> QED BY <2>4, <2>5, <2>6, SaveStep DEF SearchInv
<1> HIDE DEF old
<1>12. SearchInv'
  BY <1>1, <1>9, <1>11 DEF SearchInv
<1> QED BY <1>10, <1>12 DEF old

LEMMA BacktrackSearch ==
    ASSUME SearchInv, NEW i \in DOMAIN ensemble.visions, Backtrack(i)
    PROVE  SearchInv' /\ Covered(ensemble.visions, ensemble'.visions)
<1> DEFINE v == ensemble.visions[i]
           c == getLatest(v.id)
           back == backtrackProgressiveVision(v, c)
<1>1. /\ Saved(v.id) # <<>>
      /\ ensemble' = [ensemble EXCEPT !.visions[i] = back]
      /\ UNCHANGED <<branches, stored, byVision>>
  BY DEF Backtrack, memoryVars
<1>2. PICK n \in Nat : DOMAIN ensemble.visions = 1..n /\ \A j \in 1..n : IsVision(ensemble.visions[j])
  BY DEF SearchInv, AreVisions
<1>3. IsCheckpoint(c)
  <2> DEFINE own == {id \in DOMAIN stored : id[1] = v.id}
             ids == Saved(v.id)
  <2>1. ids \in Seq(own)
    <3>1. v.id \in DOMAIN byVision
      BY <1>1 DEF Saved
    <3>2. ids = byVision[v.id]
      BY <3>1 DEF Saved
    <3> QED BY <3>1, <3>2 DEF SearchInv, StoreInv
  <2>2. own \subseteq DOMAIN stored
    OBVIOUS
  <2>2a. ids # <<>>
    BY <1>1
  <2>2b. c = stored[Last(ids)]
    BY DEF getLatest
  <2> HIDE DEF own, ids, c
  <2>3. Len(ids) \in DOMAIN ids
    BY <2>1, <2>2a
  <2>4. Last(ids) \in own
    BY <2>1, <2>3 DEF Last
  <2> QED BY <2>2, <2>2b, <2>4 DEF SearchInv, StoreInv
<1>4. IsVision(back) /\ Continues(v, back)
  BY <1>2, <1>3, BacktrackedIsVision
<1> HIDE DEF back
<1>5. /\ "visions" \in DOMAIN ensemble' /\ DOMAIN ensemble'.visions = 1..n
      /\ \A j \in 1..n : ensemble'.visions[j] = IF j = i THEN back ELSE ensemble.visions[j]
  BY <1>1, <1>2 DEF SearchInv
<1>6. AreVisions(ensemble'.visions)
  BY <1>2, <1>4, <1>5 DEF AreVisions
<1>7. Covered(ensemble.visions, ensemble'.visions)
  <2>1. ASSUME NEW j \in 1..n PROVE Continues(ensemble.visions[j], ensemble'.visions[j])
    <3>1. CASE j = i
      BY <1>4, <1>5, <3>1
    <3>2. CASE j # i
      BY <1>5, <3>2 DEF Continues
    <3> QED BY <3>1, <3>2
  <2> QED BY <1>2, <1>5, <2>1 DEF Covered
<1>8. StoreInv'
  BY <1>1 DEF SearchInv, StoreInv
<1>9. SearchInv'
  BY <1>1, <1>5, <1>6, <1>8 DEF SearchInv
<1> QED BY <1>7, <1>9

\* The memory changes its branches, and leaves the visions alone.
LEMMA MemorySearch ==
    ASSUME SearchInv, MemoryStep PROVE SearchInv'
<1>1. UNCHANGED <<ensemble, stored, byVision>>
  BY DEF MemoryStep, ensembleVars
<1>2. AreBranches(branches') /\ \A b \in branches' : {"prior", "required"} \subseteq DOMAIN b
  <2> DEFINE Good(B) == AreBranches(B) /\ \A b \in B : {"prior", "required"} \subseteq DOMAIN b
  <2>0. Good(branches)
    BY DEF SearchInv
  <2>1. ASSUME NEW t \in Tasks, Look(t) PROVE Good(branches')
    BY <2>0, <2>1 DEF Look
  <2>2. ASSUME NEW b \in branches, Reconsider(b) PROVE Good(branches')
    <3> DEFINE c == [b EXCEPT !.contradicted = ~@]
    <3>1. branches' = (branches \ {b}) \cup {c}
      BY <2>2 DEF Reconsider
    <3>2. /\ {"prior", "required"} \subseteq DOMAIN c
          /\ c.prior = b.prior /\ c.required = b.required
      BY <2>0
    <3> HIDE DEF c
    <3>3. IsFiniteSet(branches)
      BY <2>0 DEF AreBranches
    <3>4. IsFiniteSet((branches \ {b}) \cup {c})
      <4>1. IsFiniteSet(branches \ {b})
        BY <3>3, FS_Difference
      <4> QED BY <4>1, FS_AddElement
    <3> QED BY <2>0, <3>1, <3>2, <3>4 DEF AreBranches
  <2>3. ASSUME NEW b \in branches, Shrink(b) PROVE Good(branches')
    <3>1. branches' = branches \ {b}
      BY <2>3 DEF Shrink, ComeOrGo
    <3>2. IsFiniteSet(branches \ {b})
      BY <2>0, FS_Difference DEF AreBranches
    <3> QED BY <2>0, <3>1, <3>2 DEF AreBranches
  <2>4. ASSUME NEW b \in LateBranches, Grow(b) PROVE Good(branches')
    <3>1. branches' = branches \cup {b}
      BY <2>4 DEF Grow, ComeOrGo
    <3>2. AreBranches({b}) /\ {"prior", "required"} \subseteq DOMAIN b
      BY BranchConstants
    <3>3. IsFiniteSet(branches \cup {b})
      BY <2>0, <3>2, FS_Union DEF AreBranches
    <3> QED BY <2>0, <3>1, <3>2, <3>3 DEF AreBranches
  <2> HIDE DEF Good
  <2>5. Good(branches')
    BY <2>1, <2>2, <2>3, <2>4 DEF MemoryStep
  <2> QED BY <2>5 DEF Good
<1>3. StoreInv'
  BY <1>1 DEF SearchInv, StoreInv
<1> QED BY <1>1, <1>2, <1>3 DEF SearchInv

LEMMA NextSearch ==
    SearchInv /\ [Next]_vars => SearchInv' /\ Covered(ensemble.visions, ensemble'.visions)
<1> SUFFICES ASSUME SearchInv, [Next]_vars
             PROVE  SearchInv' /\ Covered(ensemble.visions, ensemble'.visions)
  OBVIOUS
<1>1. ASSUME UNCHANGED ensemble PROVE Covered(ensemble.visions, ensemble'.visions)
  <2>1. \A v : Continues(v, v)
    BY DEF Continues
  <2>2. Covered(ensemble.visions, ensemble.visions)
    BY <2>1 DEF Covered
  <2> QED BY <1>1, <2>2
<1>2. ASSUME UNCHANGED <<ensemble, branches, stored, byVision>> PROVE SearchInv'
  BY <1>2 DEF SearchInv, StoreInv
<1>3. ASSUME NEW v \in Visions, NEW input \in Advances, Advance(v, input)
      PROVE  SearchInv' /\ Covered(ensemble.visions, ensemble'.visions)
  BY <1>3, AdvanceSearch
<1>4. ASSUME NEW v \in Visions, NEW node \in v.visited \cup v.frontier, Check(v, node)
      PROVE  SearchInv' /\ Covered(ensemble.visions, ensemble'.visions)
  BY <1>1, <1>2, <1>4 DEF Check, ensembleVars, memoryVars
<1>5. ASSUME NEW i \in DOMAIN ensemble.visions, Backtrack(i)
      PROVE  SearchInv' /\ Covered(ensemble.visions, ensemble'.visions)
  BY <1>5, BacktrackSearch
<1>6. ASSUME NEW id \in DOMAIN byVision, Forget(id)
      PROVE  SearchInv' /\ Covered(ensemble.visions, ensemble'.visions)
  <2>1. UNCHANGED <<ensemble, branches>> /\ deleteVision(id)
    BY <1>6 DEF Forget, ensembleVars, memoryVars
  <2>2. StoreInv'
    BY <2>1, DeleteStep DEF SearchInv
  <2> QED BY <1>1, <2>1, <2>2 DEF SearchInv
<1>7. CASE MemoryStep
  BY <1>1, <1>7, MemorySearch DEF MemoryStep, ensembleVars
<1>8. CASE UNCHANGED vars
  BY <1>1, <1>2, <1>8 DEF vars, ensembleVars, memoryVars, searchVars
<1> QED BY <1>3, <1>4, <1>5, <1>6, <1>7, <1>8 DEF Next

\* No vision is forgotten: whatever an advance judges, merges, supersedes or
\* prunes, each vision goes on with all its evidence and checkpoints.
THEOREM Merging == Spec => MergingLosesNothing
<1> DEFINE Continued ==
        \A v \in Visions :
          \E w \in Range(ensemble'.visions) :
              /\ v.id \in {w.id} \cup w.mergedFrom
              /\ v.mergedFrom \subseteq w.mergedFrom
              /\ v.supportingIds \subseteq w.supportingIds
              /\ v.contradictionIds \subseteq w.contradictionIds
              /\ v.checkpointIds \subseteq w.checkpointIds
<1>1. Covered(ensemble.visions, ensemble'.visions) => Continued
  BY DEF Covered, Continues, Visions, Range
<1>2. SearchInv /\ [Next]_vars => SearchInv' /\ Continued
  BY <1>1, NextSearch
<1> HIDE DEF Continued
<1>3. Spec => [][Continued]_vars
  BY <1>2, InitSearch, PTL DEF Spec
<1> QED BY <1>3 DEF MergingLosesNothing, Continued
=============================================================================
