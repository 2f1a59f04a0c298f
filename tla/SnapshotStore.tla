---------------------------- MODULE SnapshotStore ----------------------------
(***************************************************************************)
(* FileSnapshotStore for one stream: save, loadLatest, prune and           *)
(* cleanupTemporaryFiles, one action per file-system call, called by       *)
(* processes that share no lock.  `pc` says which call of the store a      *)
(* process is in and how far; AdaptivePersistence starts the calls and     *)
(* takes over where they return.                                           *)
(***************************************************************************)
EXTENDS Naturals, Sequences, FiniteSets, FiniteSetsExt

CONSTANTS
    Procs,              \* processes with a PersistentAdaptiveMemory
    NoFile, Corrupt,    \* nothing at a path; a file that fails its checks
    MaxSequence,        \* bound: events in the stream
    MaximumSnapshots    \* policy.maximumSnapshots

ASSUME SnapshotConstants ==
    /\ MaxSequence \in Nat
    /\ MaximumSnapshots \in Nat \ {0}

VARIABLES
    files,      \* per sequence: the snapshot file published for it
    temps,      \* the pids (a process and its life) with temporary files on disk
    life,       \* per process: how often it has been started again
    pc,         \* per process: the next step of its call
    intent,     \* per process: the snapshot it saves
    names,      \* per process: the files it listed and has still to visit
    latest      \* per process: what loadLatest has returned

diskVars  == <<files, temps, life>>
localVars == <<intent, names, latest>>
storeVars == <<diskVars, pc, localVars>>

Sequences == 0 .. MaxSequence

\* A snapshot's eventHash and state; the hash of the last event stands for
\* the history up to it, and the state for the events reduced into it.
Snapshot == [hash : Seq(Procs), state : Seq(Procs)]
SequenceOf(s) == Len(s.hash)
None == [hash |-> << >>, state |-> << >>]

\* A snapshot is told apart from no file and from a damaged one.
ASSUME FileConstants ==
    /\ NoFile # Corrupt
    /\ NoFile \notin Snapshot /\ Corrupt \notin Snapshot

Listed == {n \in Sequences : files[n] # NoFile}
Verified == {n \in Sequences : files[n] \notin {NoFile, Corrupt}}

StoreInit ==
    /\ files = [n \in Sequences |-> NoFile]
    /\ temps = {}
    /\ life = [p \in Procs |-> 0]
    /\ pc = [p \in Procs |-> "idle"]
    /\ intent = [p \in Procs |-> None]
    /\ names = [p \in Procs |-> {}]
    /\ latest = [p \in Procs |-> None]

Goto(p, from, to) == pc[p] = from /\ pc' = [pc EXCEPT ![p] = to]

\* The call is over, whichever way.
Forget(p) ==
    /\ pc' = [pc EXCEPT ![p] = "idle"]
    /\ intent' = [intent EXCEPT ![p] = None]
    /\ names' = [names EXCEPT ![p] = {}]
    /\ latest' = [latest EXCEPT ![p] = None]

\* The pid in the name of the temporary files of p.  A file an earlier save has
\* left behind is not told apart from that of the present one.
Temp(p) == [owner |-> p, life |-> life[p]]

-----------------------------------------------------------------------------
(* save                                                                    *)

\* The first look at finalPath finds the very same snapshot: save returns it.
SaveKnown(p) ==
    /\ files[SequenceOf(intent[p])] = intent[p]
    /\ Goto(p, "save", "prune")
    /\ UNCHANGED <<diskVars, localVars>>

\* It finds nothing: open(temporaryPath, "wx"), writeFile and sync.
SaveWrite(p) ==
    /\ files[SequenceOf(intent[p])] = NoFile
    /\ Goto(p, "save", "publish")
    /\ temps' = temps \cup {Temp(p)}
    /\ UNCHANGED <<files, life, localVars>>

\* link(temporaryPath, finalPath); on EEXIST the other file must be the same.
SavePublish(p) ==
    LET n == SequenceOf(intent[p]) IN
    /\ files[n] \in {NoFile, intent[p]}
    /\ Goto(p, "publish", "tidy")
    /\ files' = [files EXCEPT ![n] = intent[p]]
    /\ UNCHANGED <<temps, life, localVars>>

\* unlink(temporaryPath), syncDirectory; then saveSnapshot prunes.
SaveTidy(p) ==
    /\ Goto(p, "tidy", "prune")
    /\ temps' = temps \ {Temp(p)}
    /\ UNCHANGED <<files, life, localVars>>

\* "Refusing to replace immutable snapshot": the file there is another one or
\* no valid one.  The catch block removes the temporary file.
SaveRefused(p) ==
    /\ pc[p] \in {"save", "publish"}
    /\ files[SequenceOf(intent[p])] \notin {NoFile, intent[p]}
    /\ temps' = temps \ {Temp(p)}
    /\ Forget(p)
    /\ UNCHANGED <<files, life>>

-----------------------------------------------------------------------------
(* prune                                                                   *)

\* Mutant: oldest first.
BeyondOldest(listed) ==
    {n \in listed : Cardinality({m \in listed : m < n}) >= MaximumSnapshots}

\* snapshotFiles(), newest first, without its first keepLatest entries.
\* Whether a file is valid makes no difference.
Beyond(listed) ==
    {n \in listed : Cardinality({m \in listed : m > n}) >= MaximumSnapshots}

PruneList(p) ==
    /\ Goto(p, "prune", "unlink")
    /\ names' = [names EXCEPT ![p] = Beyond(Listed)]
    /\ UNCHANGED <<diskVars, intent, latest>>

PruneUnlink(p) ==
    LET n == Max(names[p]) IN
    /\ pc[p] = "unlink" /\ names[p] # {}
    /\ files[n] # NoFile
    /\ files' = [files EXCEPT ![n] = NoFile]
    /\ names' = [names EXCEPT ![p] = @ \ {n}]
    /\ UNCHANGED <<temps, life, pc, intent, latest>>

\* Another process has pruned the file since: ENOENT, and the call fails.
PruneMissing(p) ==
    /\ pc[p] = "unlink" /\ names[p] # {}
    /\ files[Max(names[p])] = NoFile
    /\ Forget(p)
    /\ UNCHANGED diskVars

PruneDone(p) ==
    /\ pc[p] = "unlink" /\ names[p] = {}
    /\ Forget(p)
    /\ UNCHANGED diskVars

-----------------------------------------------------------------------------
(* loadLatest                                                              *)

LoadList(p) ==
    /\ Goto(p, "list", "load")
    /\ names' = [names EXCEPT ![p] = Listed]
    /\ latest' = [latest EXCEPT ![p] = None]
    /\ UNCHANGED <<diskVars, intent>>

\* readAll skips what it cannot read or verify; the first snapshot it keeps,
\* newest first, is the one.
LoadSkip(p) ==
    LET n == Max(names[p]) IN
    /\ pc[p] = "load" /\ names[p] # {}
    /\ files[n] \in {NoFile, Corrupt}
    /\ names' = [names EXCEPT ![p] = @ \ {n}]
    /\ UNCHANGED <<diskVars, pc, intent, latest>>

LoadFound(p) ==
    LET n == Max(names[p]) IN
    /\ names[p] # {} /\ files[n] \notin {NoFile, Corrupt}
    /\ Goto(p, "load", "loaded")
    /\ latest' = [latest EXCEPT ![p] = files[n]]
    /\ names' = [names EXCEPT ![p] = {}]
    /\ UNCHANGED <<diskVars, intent>>

LoadNothing(p) ==
    /\ names[p] = {}
    /\ Goto(p, "load", "loaded")
    /\ UNCHANGED <<diskVars, localVars>>

-----------------------------------------------------------------------------

\* Mutant: whether the process lives is not asked.
CleanupAll ==
    /\ \E t \in temps : temps' = temps \ {t}
    /\ UNCHANGED <<files, life, pc, localVars>>

\* cleanupTemporaryFiles, on the operator's word: a file old enough whose pid
\* belongs to no process.
Cleanup ==
    /\ \E t \in temps : t.life < life[t.owner] /\ temps' = temps \ {t}
    /\ UNCHANGED <<files, life, pc, localVars>>

\* A system call of the store fails.  The catch block of save unlinks its
\* temporary file, or leaves it behind when that fails too.
StoreFails(p) ==
    /\ pc[p] \in {"save", "publish", "tidy", "prune", "unlink"}
    /\ temps' \in {temps, temps \ {Temp(p)}}
    /\ Forget(p)
    /\ UNCHANGED <<files, life>>

\* The process dies; a temporary file of its save stays.
StoreCrash(p) ==
    /\ life' = [life EXCEPT ![p] = @ + 1]
    /\ Forget(p)
    /\ UNCHANGED <<files, temps>>

StoreStep(p) ==
    \/ SaveKnown(p) \/ SaveWrite(p) \/ SavePublish(p) \/ SaveTidy(p) \/ SaveRefused(p)
    \/ PruneList(p) \/ PruneUnlink(p) \/ PruneMissing(p) \/ PruneDone(p)
    \/ LoadList(p) \/ LoadSkip(p) \/ LoadFound(p) \/ LoadNothing(p)
=============================================================================
