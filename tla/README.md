# Verification of spooky-context-memory

TLA+ specifications of the persistence layer, the situational memory, the
adaptive memory and the progressive visions of this repository, model-checked
with TLC, with the central theorems proved with TLAPS. The code is the
reference: every definition that models code is listed in `PROJECT.json` under
`map` with the lines it translates.

    tlc -workers 2 -config MCStreamLock.cfg MCStreamLock.tla     # one run
    tlapm StreamLockProofs.tla                                   # the proofs

1. [The system](#1-the-system)
2. [Modules and how they correspond to the code](#2-modules-and-how-they-correspond-to-the-code)
3. [Runs, bounds, and what they show](#3-runs-bounds-and-what-they-show)
4. [What the code does otherwise than its documentation says](#4-what-the-code-does-otherwise-than-its-documentation-says)
5. [Fairness](#5-fairness)
6. [Proofs](#6-proofs)
7. [Assumptions of the models](#7-assumptions-of-the-models)
8. [Not modelled, and the plan](#8-not-modelled-and-the-plan)

## 1. The system

The library turns conversations into memory. A conversation flows through a
*context field*; contexts support a *situation* with phases and a contract;
what a situation teaches is *accumulated*, sealed into *capsules*, and lets
its contexts go through a *release gate*. Around that stand engines that judge
and revise memory (attention, epistemic core, understanding, unlearning,
visions, reflection), and below it a *persistence layer* that keeps a stream of
events in an append-only journal with snapshots and backups.

Almost all of the engines are synchronous functions from a value and an input
to a new value: what is hard about them is the order in which their callers
apply them. The persistence layer is asynchronous, and several processes share
its files: what is hard there are interleavings and failures between two system
calls.

| Component | State | Operations | Interacts with | Hard | Correct when |
|---|---|---|---|---|---|
| Stream lock `persistence/file-event-journal.ts` | `<stream>.lock`, claimed paths | `withStreamLock`, `removeOwnedLockAtomically`, `inspectLock`, `recoverOrphanedLock` | every journal write; an operator's `recover-lock` | check and rename are two calls; owners die; calls fail half way | one operation at a time; a live lock is never deleted; every call returns |
| Event journal, same file | lines of the journal, what is flushed | `append`, `inspect`, `read`, `recoverTrailingCorruption` | lock, replay, backup | torn writes, power failures, damage, stale `expectedSequence` | an acknowledged event stays; interrupted appends leave a recoverable tail |
| Snapshot store `persistence/file-snapshot-store.ts` | snapshot files, temporary files | `save`, `loadLatest`, `list`, `inspect`, `prune`, `cleanupTemporaryFiles` | replay; no lock | two processes publish, prune, clean up at once | a snapshot is published whole; the newest stays |
| Replay and `PersistentAdaptiveMemory` `persistence/replay.ts`, `adaptive-memory-persistence.ts` | the state in memory | `hydrate`, `append`, `checkpoint`, automatic checkpoints | journal, snapshots, reducer | journal and snapshots are read at different moments | a hydrate is the replay of the journal; a commit follows the state it was checked against |
| Durable state reducer, same file | the durable state | `reduceAdaptiveMemoryEvent` | domain types | references between the records of one state | every journal event reduces to a valid state |
| Backup and restore `persistence/backup.ts` | destination, directories moved aside | `createPersistenceBackup`, `verifyPersistenceBackup`, `restorePersistenceBackup` | journal and snapshot files of a running process | files change while they are copied; a replacement is two renames | only verified copies are published; the last backup survives |
| Migrations, compaction, health `persistence/migrations.ts`, `compaction.ts` | none | chains of schema steps, reports | journal, snapshots | chain to the target version | a chain ends at the target or refuses |
| Context flow `contexts/` | frames, transitions | `updateContextField`, `pinContextFrame`, `compactContextFrame`, `reactivateContextFrame`, `unpinContextFrame`, `reconstructTransitionPath` | situations, release | decay, crowding, pins and compaction in any order | pins survive; one frame is dominant; paths can be reconstructed |
| Release gate `release/` | none | `evaluateContextRelease`, `applyContextRelease` | field, situation, accumulator, capsule | the gate judges the caller's copy | nothing is archived while it may be needed |
| Situations `situations/` | phase, state, contract | `buildSituation`, `transitionSituationPhase`, `closeSituation`, contract updates | contexts, accumulators | repeated and early closing | a resolution has been validated |
| Accumulators and capsules `accumulation/`, `capsules/` | items, status | `deposit…`, `resolveAccumulatorItem`, `sealCapsuleAccumulator`, assessment | situations, release | sealing and resolving in any order | a sealed accumulator stays as it is |
| Distributed attention `attention/` | focuses with weight, score, status | `createMemoryAttentionField`, `advanceMemoryAttentionField` | views, equilibrium, retroaction | merging, pins, decay and role coverage compete for places | required roles stay awake; dominance needs a margin |
| Equilibrium `equilibrium/` | last snapshot | `evaluateDynamicEquilibrium` | field, triage | eleven dimensions, oscillation | corrections for what is out of its band |
| Views `views/` | last triage, ledger of rejected Views | `createAttentionView`, `generateAndTriageAttentionViews`, `recordRejectedView`, `canRevisitRejectedView` | field, visions, retroaction | merging of redundant Views, beam | no View is lost |
| Plasticity `plasticity/` | links and their evidence | `updatePlasticMemoryGraph`, `deriveCapsuleRefinementPlans` | retroaction | repeated and correlated reports | repetition moves nothing |
| Retroaction `retroaction/` | what it tells the others | `applyRetroactiveLearning` | field, ledger, links | a challenge merges with another focus | a rejection leaves a challenge |
| Reflection `reflection/` | trajectories, capsules, policies, bias signals | `applyReflectiveLearning` | guidance of the next cycle | windows, groups, lists read by index | only grounded outcomes teach; neglect is corrected |
| Adaptive unlearning `unlearning/` | habits, inhibitions, recovery entries, plans | `evaluateHabitForUnlearning`, `reactivateHabit` | understanding, guidance | suspension and reactivation in any order | a suspended habit has a way back |
| Global understanding `understanding/` | models, dominant and alternative ids, backbone | `applyUnderstandingObservations` | all of the above | promotion and replacement | one dominant model, none lost |
| Orchestration `orchestration/` | guidance | `runAttentionDrivenMemoryCycle`, `completeAdaptiveMemoryEvolution` | calls all of the above | one outcome moves six states | each keeps its promise while the others act |
| Progressive visions `visions/` | ensemble, checkpoints, loop entries, cached memory visions | create, advance, merge, beam, backtrack, `checkAndRecord`, cache invalidation, `updateMemoryVision` | branches of the memory, context field | merging, stale caches, revisits | nothing is lost in a merge; loops end; memory visions are current |
| Epistemic core `epistemic/`, `claims/`, `admission/` | truth anchors, challenges | `upsertTruthAnchor`, `applyTruthChallenges` | attention, views | supersession and revival | one active anchor per truth |
| Retrieval, routing, traversal, reconstruction, episodes, patterns, incidents, preflight, evaluation, privacy, CLI | none | pure functions of their inputs | all | formatting and scoring | |

`PROJECT.json` lists under `hazards` what in this code is hard to test, at the
line where it bites, with the properties that would notice.

## 2. Modules and how they correspond to the code

    StreamMutex <-implements- StreamLock            EventLog <-implements- EventJournal
         ^                        ^                     ^                  (extends StreamMutex)
         |                  StreamLockProofs            |                        ^
         |                                              |                EventJournalProofs
         +---------------- AdaptivePersistence ---------+     SnapshotStore <-extends- AdaptivePersistence
                                ^
                     AdaptivePersistenceProofs          BackupRestore <- BackupRestoreProofs

    ContextField, Situation <-extend- SituationalMemory <- SituationalMemoryProofs

    Evidence <- Plasticity, AttentionField;  Plasticity, AttentionField, RejectedViews <- Retroaction
    Evidence <- BranchVision <- Triage;  AttentionField, Triage <- Equilibrium
    Equilibrium, Retroaction <- AttentionCycle
    AttentionCycle, Reflection, Unlearning, Understanding <- MemoryEvolution <- AdaptiveMemory
    AdaptiveMemory, EvidenceProofs <- AdaptiveMemoryProofs;  Evidence <- EvidenceProofs

    BranchVision <- ProgressiveVision <- VisionEnsemble;  BranchVision <- VisionMemory
    VisionEnsemble, VisionMemory <- VisionSearch <- VisionSearchProofs (with EvidenceProofs)

**StreamMutex** is what the lock promises: a set `holders` of at most one
process. **StreamLock** is the lock as the code makes it, one action per
file-system call: `CreateLock` is `open(O_EXCL)`, `WriteMetadata` and
`SyncDirectory` follow it, `Finish` ends the operation and enters the removal;
`Stat`, `Read`, `Claim`, `Verify`, `Delete` or `Restore`/`Unlink` are
`removeOwnedLockAtomically`, run by the owner or by a recoverer that
`Inspect` and `Recover` have convinced that the owner is dead. The pair of a
writer and the number of its call stands for the `ownerId`, and for the inode
its `open` has created: the file keeps its name through renames. `AcquireFails`
and the actions of `RemoveFault` are calls that throw; `Crash` ends a process.

**EventLog** is what a stream promises: an event once in the log keeps its
place, and only events no caller has been told about may be lost, only in a
failure of the machine. **EventJournal** is the file, as lines that are whole,
cut or altered. A `writeFile` of a batch is `StartRecord`, `CompleteRecord` and
`TerminateRecord` per record, so that `Abandon` (a throwing call, a dying
process) and `PowerLoss` fall between any two pieces. `Inspection` is what
`inspect` returns; the refinement maps `log` to the events of an inspection.

**SnapshotStore** has one action per file-system call of `save`, `loadLatest`,
`prune` and `cleanupTemporaryFiles`, by processes that share no lock.
**AdaptivePersistence** extends it with the calls of `PersistentAdaptiveMemory`:
`Submit` ... `Commit` is `append` (hydrate, check against the state, journal
append, hydrate, automatic checkpoint), `Checkpoint` ... `Save` is `checkpoint`.
Its journal is the one EventJournal has been shown to be, with a whole write as
two steps. An event is the name of the process that wrote it and a state is the
sequence of events reduced into it, which is all that tells replays apart.

**BackupRestore** has a runtime that appends, saves and prunes without a pause
while backups copy its files, publish them by renames, and restores copy a
backup, which other backups may replace meanwhile, to another directory. The
length of the journal stands for its bytes and last hash.

**ContextField** is the field of `contexts/context-flow-engine.ts` and the
release gate. `Receive` is `updateContextField` for one signal whose target has
been found: decay of the others, ranking, crowding, classification, and the
bridge, in the order of the code. `NewContext`, `Continue`, `Overlap` and
`Return` find the target. Activations are in thousandths, computed with the
constants of `DEFAULT_POLICY` and rounded down; a frame is known by the order it
was created in. **Situation** is the phase machine of one situation.
**SituationalMemory** composes both: an open situation depends on the contexts
it lists, and a caller releases a frame (`Hold`, later `ApplyRelease`) by the
copy it has read, as `ContextReleaseInput.frame` is.

**AdaptiveMemory** composes the engines that judge and revise memory as their
callers do. `RunCycle` is `runAttentionDrivenMemoryCycle` (**AttentionCycle**):
the field is created or advanced (**AttentionField**), proposals the ledger
blocks are left out (**RejectedViews**), the rest become Views, are triaged,
merged and ranked (**Triage**) and the equilibrium is evaluated
(**Equilibrium**). `Complete` is `completeAdaptiveMemoryEvolution`
(**MemoryEvolution**) for a View of the last triage: attention feedback, links,
challenges and the ledger (**Retroaction**, **Plasticity**), capsules, policies
and bias signals (**Reflection**), the habit involved (**Unlearning**), the
global model (**Understanding**), and the guidance. `Reactivate` is
`reactivateHabit`. Each of these calls is one action, for each is one
synchronous function; the hazard is the order in which callers make them and
what one call leaves for the next. **Evidence** has what all engines share:
numbers in thousandths kept between 0 and 1, the strongest report of each
independence key combined into a pressure, and the first rule that applies.
Ids that hash their contents are those contents.

**BranchVision** is the memory vision of a task (`resolveMemoryVision`,
`updateMemoryVision`), **ProgressiveVision** one vision with its score,
revalidation, checkpoints and backtracking, and **VisionEnsemble** the seeds,
the merge of equivalent visions, the beam and the advance of all visions.
**VisionMemory** has the branches, the cache and the incrementally updated
vision; **VisionSearch** adds the checkpoint store and the loop guard (with the
history of the checks of every state, `visits`) and makes the calls of `examples/progressive-vision-routing.ts` in any order, while
branches of the memory come, go and are contradicted.

The `MC` modules of the persistence layer and of the situational memory only add
symmetry sets; those of the adaptive memory and the visions define the inputs.
Definitions marked `Mutant` are wrong versions of the definition that follows
them; replacing the one by the other must violate the property named in
`PROJECT.json`, which shows that the run would notice such a bug.

## 3. Runs, bounds, and what they show

| Run | Checks | Bounds |
|---|---|---|
| `stream_lock` | type, mutual exclusion, holders keep their lock, no leak without a fault, StreamMutex, every call returns | 2 writers of 2 calls, 1 recoverer, 1 poll, 1 failing call, crashes anywhere |
| `stream_lock_recovery` | a live lock is never deleted | 2 writers of 1 call, 2 recoverers, 1 failing call |
| `stream_lock_race` (violated) | mutual exclusion | 3 writers, 2 recoverers, no fault |
| `event_journal` | type, no stale commit, failures stay trailing, EventLog, only the machine loses events | 2 writers, batches of up to 2, 3 lines, 1 power failure, 1 damaged line |
| `adaptive_persistence` | snapshots are anchored in the journal, hydrate is replay, commits what it checked, temporary files of a running save, newest snapshot kept, EventLog | 2 processes, 2 events, 1 snapshot kept, a checkpoint per event, 1 crash, damage or power failure |
| `hydrate_race` (violated) | a healthy stream hydrates | as above, no trouble |
| `backup_restore` | only verified directories are published, the last backup survives, restores delete nothing | 2 backups, 2 restores, 3 calls, 2 events, 1 trouble |
| `situational_memory` | type, pins keep their trace, one dominant frame, every context reachable, budget of awake frames, resolution through every phase, archiving after closing | 3 frames, budget 1, 2 pin reasons, 5 operations on frames and phases, any number of holds and consolidations |
| `adaptive_memory` | suspended habits have a way back, correlated failures count once, one dominant model, required roles are awake, no View is lost, capsules learn from grounded outcomes, neglect of a severity of a quarter or more raises challenge, repetition moves no link, a rejection leaves a challenge | 3 kinds of cycle, 6 of outcome, 2 habits, 3 models, 2 places for active focuses and Views, 3 stored trajectories, 4 cycles and outcomes, any number of reactivations |
| `released_focus_dominates` (violated) | dominance needs its margin | as above |
| `progressive_visions` | the frontiers and exclusions of memory visions are current, loops are bounded, merging loses nothing | 3 seeds of which one is broad and two are of one hypothesis, 3 branches, 1 task, 6 kinds of advance, 5 calls |
| `merged_vision_backtrack` (violated) | eligible visions can backtrack | as above, 4 calls |

Why the bounds are enough to be interesting:

* *Lock.* Two calls per writer let a lock of a dead call meet a live call of the
  same process; one failing call is enough to leave a lock behind, and one poll
  separates the waiter that times out from the one that gets the lock. The race
  of two recoveries needs a third process, and no fault.
* *Journal.* Three lines hold a batch of two behind or before one event; the
  third line is also the capacity, so that full journals occur. One power
  failure may follow one that has left unflushed data, for `durable` does not
  grow by it.
* *Persistence.* Two events, so that a snapshot can be ahead of, behind and at
  the end of the journal; one snapshot kept, so that every save prunes.
* *Backup.* Two callers at one place and three calls: a replacement of a
  replacement, with the third caller between the renames.
* *Situational memory.* With a budget of one, the second awake frame is
  crowded out. In five operations three frames can be created and two of them
  pinned, compacted or released; five are also the least that create a context
  and resolve a situation about it. What needs more of them (long
  decay, many frames) is covered by the theorems of section 6.
* *Adaptive memory.* The inputs are placed around the thresholds of the policies:
  failures that are independent and correlated, contexts that drift, evidence
  that repeats, trajectories with and without grounding, Views that merge,
  conflict with a truth or only miss the beam. Four calls let a habit be
  suspended, come back and be suspended again, a window of trajectories slide,
  and a model be replaced by one and promoted over by another. Not reached in
  four calls: the action `quarantine` of four independent failures (`reopen_unknown`, which has the same effects, is),
  an edge of the backbone that becomes disputed, a balanced equilibrium and the
  correction that lets attention decay.
* *Progressive visions.* Five calls are a merge, an exploration, a contradiction
  and a return; the late branch is one the task forbids, so that both lists of a
  memory vision change. One task, for visions of different tasks share nothing
  but the memory.

`CHECK_DEADLOCK FALSE` is used where calls or operations are bounded and the
system may rest when they are used up. The other runs have no deadlock.

Symmetry is only used in runs without liveness properties.

## 4. What the code does otherwise than its documentation says

* `stream_lock_race`: a removal reads the lock, then renames whatever is there.
  With two recoveries of one orphaned lock, the slower one renames the lock of a
  new owner aside; until it is linked back a third process can create its own,
  and two processes run stream operations at once.
  `docs/post-release-adversarial-hardening.md` says the window is closed. The
  file of the live owner is restored or preserved (`DeletesOnlyRetiredLocks`),
  so that the exclusion is lost, and not the lock.
* `released_focus_dominates`: `rankAndAssignStatuses` gives the status of the
  dominant focus to every focus with its id. A focus that decay releases keeps
  its id; when the same call admits a candidate with that id, both become
  dominant, the released one with the weight decay has left it. The docs grant dominance
  only for a meaningful margin (`docs/distributed-memory-attention.md`).
* `merged_vision_backtrack`: `mergeEquivalentVisions` gives the winner the
  checkpoint ids of the others, and an advance that prunes it reports it as
  eligible for backtracking, but `backtrackProgressiveVision` throws for a
  checkpoint of another vision and the store finds none for its id
  (`docs/progressive-visions.md`: "Evidence, checkpoints, frontiers ... are
  combined").
* `hydrate_race`: `replayMemoryStream` reads the journal, then the snapshots. A
  commit with a checkpoint between the two makes it throw that a snapshot is
  ahead of the journal, on a healthy stream; `append` can throw it after its own
  event has been committed. `docs/persistent-adaptive-memory.md` calls snapshots
  "accelerators, not authority".

Further divergences are part of the models, which behave as the code does, and
have no run of their own; the properties checked are those that hold in spite
of them:

* EventJournal: a batch is one `writeFile` of several lines. A process
  that dies when the first of them are complete leaves a valid journal with a part
  of the batch, which no inspection reports; `docs/deterministic-replay.md` says
  that the partial record is detected. There is none to detect.
* EventJournal: a last line that is terminated but damaged counts as a
  trailing record and is truncated by `recover`, though
  `docs/operational-recovery.md` restricts it to partial records.
* AdaptivePersistence: a hydrate sees events another process has written and not
  flushed; a checkpoint of them is flushed. A power failure can then take the
  events and leave the snapshot, and every later hydrate throws. `README.md`
  promises that snapshots anchor to journal history.
* BackupRestore: `syncDirectory` after the first rename stands outside
  the `try` that rolls back. A failure there leaves no directory at the
  destination; `docs/reliability-gauntlet.md` says that it is left untouched.
  The previous directory is still beside it (`BackupSurvives`).

* SituationalMemory: `applyContextRelease` checks `input.frame`, the caller's
  copy, and then changes the field's frame of that id; a frame pinned since the
  copy was taken is released (`docs/context-retention.md` lists pinned frames
  among those the gate blocks).
* Reflection: `adaptPolicy` raises the weight of challenge for neglect and then
  normalises all weights. When challenge is neglected only mildly, what other
  signals add outweighs the gain: one grounded, unresolved trajectory without a
  selected View and without exploration, in which challenge has a share of 0.079,
  gives a `contradiction_neglect` of severity 0.0125, which adds 0.00225 to
  challenge, and a `novelty_neglect`, which adds 0.1296 to exploration; after the
  normalisation challenge has 0.0718. The signal that asks for more contradiction
  (`docs/reflective-learning.md`: "Bias signals modify future policy") has left
  less room for it. `NeglectRaisesChallenge` therefore starts at a severity of
  a quarter (`PlainNeglect`), from which the gain is large enough whatever
  else moves; no document names a threshold.
* Reflection: `deriveReflectiveCapsule` filters the grounded trajectories and
  then looks up their outcomes by the place in the filtered list. After an
  ungrounded trajectory of the context a capsule counts successes and failures by
  the outcome of another trajectory, where `docs/reflective-learning.md` has it
  learn from "independent successes and failures". `OutcomeAt` does the same;
  what holds is that every key counted, as one or the other, is of a grounded
  trajectory.

Two more behaviours are modelled as they are and contradict no text:

* VisionEnsemble: an advance prunes a vision for the contradictions among the
  evidence of this call only, so that the next advance has it exploring again.
  `docs/progressive-visions.md` defines what pruned means and not whether it
  can be left.
* VisionEnsemble: a seed given again after branches have come or gone resolves
  to other branches under the same id, so that two visions of one id live side
  by side. `VisionSearch` reaches such pairs. An advance then saves a checkpoint
  of each, and the beam, which goes by ids, gives both one status.

## 5. Fairness

Only `CallsReturn` is a liveness property. It is checked under weak fairness of
`Acquire(w)`, `Recover(r)` and `Remove(a)`: a process that lives goes on with
the call it is in, because every await is on a file-system call or a timer that
completes. Nothing is assumed about new calls, failing calls or crashes, and no
strong fairness: a waiter need not get the lock, for it has its timeout. A poll
that finds the lock gone goes on without a look at the clock; the bound on calls
is what ends such a chase in the model.

## 6. Proofs

`StreamLockProofs`, for any writers, recoverers and bounds:

* `TypeCorrect`: the shape of the state, by one step per action.
* `HolderKeeps`, `Exclusion`, `Refinement`: while at most one recovery runs
  (`OneRecoverer`, an assumption about the operator which the code does not
  enforce and whose failure is `stream_lock_race`), a holder's file stays at its
  path, operations exclude each other, and the protocol implements StreamMutex.
  Mutual exclusion is not inductive: a state in which a recoverer is about to
  rename a live lock satisfies it. `LockInv` adds that the processes in calls
  are alive, that a recoverer's target has a dead owner, and that a recoverer
  about to rename still has its target before it. The last one is what needs
  `OneRecoverer`: nobody else displaces a dead owner's file.
* `NoLeak`, under the same assumption: until a call fails, a lock at its path
  belongs to a call that is running or to a dead process. `LeakInv` says that
  only such a lock is ever put back.
* `DeletesRetired`, for any number of recoveries at once: only locks of owners
  that are dead or done are deleted. `ClaimInv` says that what is about to be
  deleted is what the removal was for, and `DiskInv` that a file on the disk is
  that of an owner that is done, or is where its owner or a removal will find it.
  This is why the race of two recoveries costs the exclusion and not the lock.

`EventJournalProofs`, for any writers, events, batch sizes and capacity, and any
number of damaged lines and power failures, from `JournalConstants` alone:

* `TypeCorrect`: the shape of the state; the file never outgrows its limit.
* `TrailingFailures`: without damage to the medium, the file has at most one last
  line that recovery may truncate.
* `Commits`: an append about to return has committed its batch behind the
  sequence its caller expected, and nothing else.
* `Refinement`: the journal implements EventLog. `OnlyMachineLoses`: steps of
  processes only ever extend the events.

None of these is inductive: they hold because a writer past its inspection is
alone and knows what is in the file. `JournalInv` says so (`OneCall`,
`Extends`): the valid events are those the writer found, followed by the part of
its batch it has written; the line it is writing is its next record; and what
has been acknowledged is both flushed (`acked <= durable`) and returned by an
inspection. `ValidThrough` is a CHOOSE over the lines, so the proof begins with
its existence (the first line that does not pass, by the well-founded order of
the naturals) and uniqueness, and with what a write, a cut and a damage do to it
(`StartedFile`, `CompletedFile`, `ShortenedFile`, `SpoiledFile`, `CutFile`). Each
action then has one lemma for its effect on the events and one for the
invariant.

`AdaptivePersistenceProofs`, for any processes, events and snapshots kept, and
any number of crashes, damaged snapshots and power failures, from
`FileConstants` (a missing or unreadable file is no snapshot) and the
assumptions about the log:

* `Hydration`: a hydrate that returns has the replay of the journal it has read,
  whatever is committed, saved and pruned between its reads.
* `Commits`: an event is committed right behind the state it was checked
  against, although the check runs before the lock is taken.
* `Anchorage`: until a power failure, every snapshot that verifies is the replay
  of a beginning of the journal.
* `NewestKept`: no process deletes the newest sound snapshot. `TempsKept`: no
  cleanup takes the temporary file of a running save.
* `Durability`: the processes with their lock implement EventLog.

The argument goes from the lock outwards. Only the process that holds it is in
the part of `append` that writes (`Exclusive`), so that what a process has read
stays a beginning of the log, and what the holder has read stays all of it
(`ReplayInv`); a state is therefore the events of a beginning of the log, and so
is the snapshot made of it. Only a power failure shortens the log, which is why
`Anchorage` is about streams without one. A prune decides by a list that may be
old: `PruneInv` says that behind each name it is about to delete there is a newer
file, and the newest of them is on no such list.

`BackupRestoreProofs`, for any callers, events, snapshots and calls, and any
number of failures between two steps, from `DirectoryConstants` (a missing
directory is none):

* `OnlyVerified`: what appears at a destination or a target verifies, or was
  there before. `CopyInv` says what a caller has in its temporary directory,
  which nobody else writes, at each step of the copy.
* `OneSurvives`: once a backup has been published there is one at its place or
  beside it. That alone is not inductive, for a caller deletes the predecessor it
  has moved aside: by `SafeInv` it only does so while another backup is at the
  place, left beside it, or held by a caller that has yet to publish.
* `NothingDeleted`: a restore deletes no runtime: what it holds aside it puts
  back or leaves there (`AsideInv`).

`SituationalMemoryProofs`, for any reasons, relevances, budget and number of
frames and steps:

* `TypeCorrect`: activations and relevances stay between 0 and 1 through boosts,
  mixes, decay and crowding.
* `Traces`: a pinned frame keeps its minimum activation and a reason.
* `Dominance`: at most one frame is dominant. Two frames cannot both rank first
  (`OneFirst`), and no operation on a single frame makes it dominant.
* `BudgetKept`: a signal leaves at most the budget of unpinned frames with the
  activation to be awake. No more frames rank within the budget than it allows
  (`RankCounts`: a rank is the number of frames before it, and no two frames
  share one), and the others are crowded below the threshold.
* `Reachable`: every frame can be followed back to the first. `Bridged` is the
  invariant that makes it so: each frame but the first has a transition from an
  older one. `reconstructTransitionPath` is a recursion over the frames, whose
  solution the proof exhibits (`ReachedSteps`).
* `Resolution`, `Archiving`: what a resolved situation has been through, and
  what an archived frame presupposes. `SituationInv` adds which handoffs each
  phase implies, and that only a closed situation has an outcome.

The invariant `MemoryInv` is proved action by action from lemmas about what the
operators on frames return (`UpdateType`, `DecayedType`, `ClassifiedType`) and
what a signal or a change of one frame preserves (`ReceivePreserves`,
`SetPreserves`).

`AdaptiveMemoryProofs`, for any cycles, outcomes, models, habits and conditions
and any number of calls:

* `Dominance`: one model is dominant and every other is listed as an
  alternative. `UnderstandingInv` adds that every model has a status, which the
  update of an absent field would not give it; a revision keeps the fields
  (`RevisedFields`), and only an alternative is promoted (`ChosenIsAlternative`).
* `WayBack`: a suspended habit has an active inhibition and a recovery entry with
  its conditions. Every action that suspends has conditions
  (`SuspendingHasConditions`) and no other does (`OnlySuspendingSuspends`);
  reporting conditions keeps the way back of the other habits.
* `Independence`: reports of one failure suspend nothing. `SuspendingIsGrounded`
  goes through the rules of `determineAction`, in their order, from three facts
  about the shared operators (`EvidenceProofs`): no evidence is no pressure, one
  key counts as one piece, and the first rule that holds decides.
* `RolesCovered`: every required role that has a focus has one awake. The
  selection goes through the required roles in their order and then through the
  other focuses by weight; what it keeps is that a role it has been through, and
  for which there is a focus, has one among those taken (`CoverStep`,
  `TakenMore`), which makes room for one focus per role the assumption about the
  policy (`AttentionConstants`: no more required roles than active focuses).
  The code drops a role by the ids it has taken, so the proof needs no ids to
  differ. `AttentionInv` adds that the field is a sequence of focuses whose
  weights and scores are numbers, without which there is no order of them; that
  goes through every merge, feedback and decay (`MergedIsFocus`, `FedIsFocus`,
  `AgedIsFocus`).
* `NothingIsLost`: a View that is redundant has its focuses, truths and questions
  in one that is ranked, and one that is rejected or deferred leaves a trace. The
  merge goes through the triaged Views in order; what each turn keeps is
  `Merging`: every redundant View is `Within` a merged one that is not rejected,
  and merging only adds to that one (`MergedView`, `MergeStep`, `MergeAllKeeps`).
  The ranking changes statuses and scores alone and rejects no View it was given
  as live (`RankRules`, `RankedViews`). `TriageInv` adds that the truths of a View
  are finitely many, which the challenge of an outcome needs.
* `Challenge`: an outcome that is not positive leaves a focus that challenges its
  View and is not released. A candidate joins a focus only when both have the
  role and the target of the challenge: contexts and truths together weigh 400 of
  the 880 required (`SimilarityBounded`, `TwinsAlike`), so a twin stands for it
  as well as a focus of its own (`AdmitFinds`, `AdvancedFinds`); feedback comes
  before admission, and ranking releases nothing (`RankedKeeps`).
* `Repetition`: evidence that repeats a cause, no stronger than before, moves
  neither the confidence nor the status of its link. `IsGraph` says that a link
  has the ids of exactly the evidence about it and that both follow from that
  evidence, although an id leaves out the weight and evidence is found by its id
  (`FoundByIds`, `ObserveStep`, `ObservedGraph`). The strongest piece of every
  key is then as strong as before, so the fold over the keys gives the same
  pressure (`RepeatedPressure`, `SetFoldSame`).
* `Grounding`: the outcomes a capsule counts are those of grounded trajectories
  of its context, those the store still has. The code tells successes from
  failures by the verdict at the same place of another list; whichever it takes,
  the key is of a grounded one (`CountsGrounded`).
* `Correction`: when the recent trajectories neglect contradiction with a severity
  of at least `PlainNeglect`, a quarter (challenge has no more than 60 of the 80
  wanted), and the capsule gives challenge less than 80, the policy learned gives
  it more than the capsule does, though three other roles move and all are
  normalised. Of milder neglect it says nothing, for there the share may fall
  (section 4). The average of shares is a share (`PatternAreShares`), for which a
  sum may be taken in any order (`SumIs`, `SumOfBoth`, `SumChanged`): the code
  adds over roles what it has added over trajectories. Challenge then gains at
  least 45 and the sum grows by at most 460 more than it, which leaves it a larger
  share whenever it had less than 80 (`RaisedShare`). It takes that a kind of
  signal is found once and is no more severe than 1 (`BiasIsSignals`), since
  the code adds the severities of a kind.

The folds of the code's loops take an induction, and the induction theorems of
the library have an operator as a parameter, which the provers cannot
instantiate. `EvidenceProofs` therefore proves the induction about a set of
numbers (`NaturalInduction`, from the well-founded order of the naturals) and
the theorems about folds for an operator `Op` that is a constant of the module
(`SequenceRun`, `SequenceFoldIn`, `SetRun`, `SetFoldIn`, `SetFoldSame`); the
proofs about the memory take them from instances with `Op` the step of each loop
(`Summation`, `Weighing`, `Joining`, `Covering`, `Selecting`, `Weights`,
`Confidences`, `MergingAll`, `Observing`). It also shows that a finite set in a strict
order is a sequence of all its members (`OrderIsSequence`), which is what
sorting and filtering give.

They assume that the inputs have the fields the code declares, with numbers where
it declares numbers and finitely many of what it declares as an array
(`ModelConstants`, `HabitConstants`, `CycleConstants`, `CompletionConstants`, by
`AreCandidates`, `AreProposals`, `AreEvidence`, `AreBranches`, `AreObservations`
and `IsTrajectory`), and that the initial dominant model is one of the models.

`VisionSearchProofs`, for any branches, tasks, seeds, evidence and observations:

* `Current`: a memory vision from the cache, or updated incrementally, has the
  frontiers and exclusions of a full resolution of the current branches. For the cache, `MemoryInv` adds that
  no key is of a revision to come: a change of the memory then makes every entry
  old, or, when it keeps the revision, forgets those that mention its branch. As
  every branch is either allowed or excluded (`EveryBranchAssessed`), that is
  every entry it could change.
* `LoopsEnd`: the loop guard allows a state more often than its limit only if
  one of the checks since brought other evidence, or progress beyond the best on
  record. `GuardInv` accounts for the count of revisits: it is the number of
  checks since something was new. Progress counts against the best so far and
  not against the last check, or falling and rising again would be progress.
* `Merging`: every vision goes on, under its id or in the lineage of the vision it
  was merged into, with all its evidence, contradictions and checkpoints.
  `Continues` relates a vision to what becomes of it and is transitive, so each
  of judging again (`ReevaluatedIsVision`), merging (`MergedAreVisions`: each
  vision is in the group of the first one like it, and `MergedIsVision` shows
  that the winner has what the group had), the beam (`BeamKeepsVisions`) and
  going back (`BacktrackedIsVision`) is shown for itself. A group has a winner
  only if the scores are numbers, which is what `SearchInv` is for: every vision
  has numbers and finite sets to be scored by, and every stored checkpoint has
  what a vision takes back from it. For that the store must find only ids that
  are its vision's own (`SaveStep`, `DeleteStep`), or forgetting one vision would
  take the checkpoint another goes back to.

These assume that branches, seeds, evidence and observations have the numbers and
finite arrays the code declares (`BranchConstants`, `SearchConstants`, by
`AreBranches`, `AreSeeds`, `IsEvidence` and `AreObserved`) and that the limits of
a policy are the integers its validation admits (`BudgetConstants`,
`BeamConstants`, `GuardConstants`). The folds over seeds, evidence and branches
are instances of `EvidenceProofs` again.

Only model-checked: `CallsReturn`, a liveness property, which is out of the
prover's reach.

## 7. Assumptions of the models

* SHA-256 has no collisions: a hash stands for the history it covers.
* A torn write leaves a prefix of what was written, a power failure what was
  flushed and a prefix of the rest; a rename or link is atomic, and lasts once
  its directory has been flushed.
* All processes run on one host and a pid is not used again while its lock
  exists; locks of other hosts and of unknown liveness are never recovered.
* The queue that orders calls within one process is covered by the lock.
* Backup: one stream; the target of a restore is not the root backups read.
* Context field: every signal has a turn of its own, so that ids differ; a
  signal may resemble any frame. Similarity is not computed.
* Adaptive memory: the outcome and the trajectory of a completion are of one View
  of the last triage that was not rejected; a habit and a model are given whole.
  Numbers are thousandths rounded down, so that a value within a thousandth of a
  threshold may fall on the other side of it; averages of counts are rounded as
  the code rounds them.
* Memory visions: equal means equal in frontiers and exclusions, and so in allowed
  branches, likely patterns and confidence. `updateMemoryVision` sets `anchors`
  and `id` otherwise than `resolveMemoryVision` (contexts before branches, and the
  previous id with a suffix); neither is modelled.
* Progressive visions: the caller puts a vision it has taken back into the
  ensemble, saves the checkpoints of an advance at once, forgets only visions
  that have left, and says which branch it has changed; a branch that comes or
  goes makes a new memory revision. `IdBefore` orders ids as `localeCompare`
  does.
* A dominant frame may fade below the dormant threshold; it is then not counted
  in the budget, as in the code.

## 8. Not modelled, and the plan

Done, in this order: lock, journal, snapshots and persistence, backup, context
field with release and situations; the proofs of the lock, of the journal and of
the context field; the adaptive memory (attention, views, equilibrium,
plasticity, retroaction, reflection, unlearning, understanding, orchestrated);
the progressive visions; the proofs about models, habits and memory visions,
about snapshots and backups, the rest of those about the lock, the context
field and the loop guard, and those about required roles, Views, challenges,
links, mirror learning and merged visions.

Next:

1. *CapsuleAccumulator* (accumulation, sealing, release of capsules), composed
   with SituationalMemory: a sealed accumulator stays as it is
   (`resolveAccumulatorItem` has no guard), readiness needs what it claims.
2. *DurableState*: the reducer with the references its validation checks, and
   InMemoryMemoryStore; *Migrations* as a pure algorithm against a reference
   definition of the chain.
3. *EpistemicCore* in AdaptiveMemory, whose set of active truths is a constant so
   far: no cycle or outcome changes it.

Not planned: the pure ranking, formatting and matching functions (retrieval,
routing, traversal, reconstruction, episodes, patterns, incidents, preflight,
evaluation, privacy), which keep no state between calls; the command line; fault
injection, whose points are failing calls of the models; metrics of the visions
and the `clear` of their stores.
