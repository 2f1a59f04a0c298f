---------------------------- MODULE ContextField ----------------------------
(***************************************************************************)
(* The field of context frames of one conversation: updateContextField,    *)
(* pin, compact, reactivate and unpin, and applyContextRelease with its    *)
(* gate.  A frame is known by the order it was created in; the ids the     *)
(* code derives from a signal are different because its turns are.         *)
(*                                                                         *)
(* Activation and relevance are in thousandths, rounded down.  Which frame *)
(* a signal resembles, and how much, is what the signal brings.            *)
(***************************************************************************)
EXTENDS Naturals, Sequences, FiniteSets

CONSTANTS
    Reasons,                \* reasons to pin a frame
    Relevances,             \* what signal.relevance may be, in thousandths
    Unspecified,            \* signal.relevance, when the signal has none
    MaxNonDormantFrames,    \* policy.maxNonDormantFrames
    MaxFrames               \* bound: frames of the field

ASSUME FieldConstants ==
    MaxNonDormantFrames \in Nat \ {0} /\ MaxFrames \in Nat /\ Relevances \subseteq 0 .. 1000

VARIABLES
    frames,         \* field.frames
    transitions     \* field.transitions, as pairs of frames

fieldVars == <<frames, transitions>>

DEFAULT_POLICY ==
    [activationBoost |-> 280, explicitShiftBoost |-> 460, decayRate |-> 180,
     backgroundThreshold |-> 280, dormantThreshold |-> 100, minimumPinnedActivation |-> 340]

Retentions == {"pinned", "active", "background", "compacted", "dormant",
               "archived", "eligible_for_deletion"}

Least(m, n) == IF m < n THEN m ELSE n
Greatest(m, n) == IF m < n THEN n ELSE m
Minus(m, n) == IF m < n THEN 0 ELSE m - n
Clamp(n) == Least(1000, n)

FieldInit == frames = <<>> /\ transitions = {}

Activations(f) == [i \in DOMAIN f |-> f[i].activation]
Strengths(f) == [i \in DOMAIN f |-> f[i].activation * f[i].relevance]

\* The position of frame i when the frames are sorted by score, the highest
\* first; the sort is stable.
Rank(score, i) ==
    Cardinality({j \in DOMAIN score : score[j] > score[i] \/ (score[j] = score[i] /\ j < i)})

-----------------------------------------------------------------------------
(* updateContextField                                                      *)

createFrame(activation, relevance) ==
    [activation |-> Clamp(activation),
     relevance |-> IF relevance = Unspecified THEN 750 ELSE relevance,
     activationState |-> "dominant", retentionState |-> "active", reasons |-> {}]

\* Mutant: the boost goes past 1.
UpdateUnclamped(frame, boost, relevance) ==
    [frame EXCEPT
        !.activation = @ + boost,
        !.relevance = IF relevance = Unspecified THEN @ ELSE (@ * 55 + relevance * 45) \div 100]

updateExistingFrame(frame, boost, relevance) ==
    [frame EXCEPT
        !.activation = Clamp(@ + boost),
        !.relevance = IF relevance = Unspecified THEN @ ELSE (@ * 55 + relevance * 45) \div 100]

\* An explicit shift or return lifts the frame to the foreground.
Foreground(frame) ==
    [frame EXCEPT !.activation = Greatest(@, 880), !.relevance = Greatest(@, 950)]

\* Mutant: a pinned frame decays like the others.
DecayedAlike(frame, explicit) ==
    [frame EXCEPT !.activation = Minus(@, IF explicit THEN 159 ELSE 122)]

\* A pinned frame keeps a minimum; every frame has the inertia 0.58.
Decayed(frame, explicit) ==
    LET pressure == IF explicit THEN 13 ELSE 10
        decay == (DEFAULT_POLICY.decayRate * pressure * 681) \div 10000
        activation == Minus(frame.activation, decay)
    IN  [frame EXCEPT !.activation =
            IF frame.retentionState = "pinned"
            THEN Greatest(activation, DEFAULT_POLICY.minimumPinnedActivation)
            ELSE activation]

classifyActivation(activation, isDominant) ==
    IF isDominant THEN "dominant"
    ELSE IF activation >= DEFAULT_POLICY.backgroundThreshold + 180 THEN "overlapping"
    ELSE IF activation >= DEFAULT_POLICY.dormantThreshold THEN "background"
    ELSE "dormant"

retentionFromActivation(retention, state) ==
    CASE retention = "pinned" -> "pinned"
      [] retention # "pinned" /\ state \in {"dominant", "overlapping"} -> "active"
      [] retention # "pinned" /\ state = "background" ->
            IF retention = "compacted" THEN "compacted" ELSE "background"
      [] retention # "pinned" /\ state = "dormant" ->
            IF retention \in {"archived", "eligible_for_deletion", "compacted"}
            THEN retention ELSE "dormant"

\* Mutant: nothing is crowded out.
CrowdedNone(f) == {}

\* The frames beyond maxNonDormantFrames, pinned ones apart.
Crowded(f) ==
    LET awake == {i \in DOMAIN f : f[i].activation >= DEFAULT_POLICY.dormantThreshold}
        ahead(i) == {j \in awake : Rank(Strengths(f), j) < Rank(Strengths(f), i)}
    IN  {i \in awake : /\ Cardinality(ahead(i)) >= MaxNonDormantFrames
                       /\ f[i].retentionState # "pinned"}

Classified(f) ==
    LET crowded == Crowded(f)
        settle(i) ==
            LET activation == IF i \in crowded
                              THEN Least(f[i].activation, (DEFAULT_POLICY.dormantThreshold * 8) \div 10)
                              ELSE f[i].activation
                state == classifyActivation(activation, Rank(Strengths(f), i) = 0)
            IN  [f[i] EXCEPT !.activation = activation, !.activationState = state,
                             !.retentionState = retentionFromActivation(@, state)]
    IN  [i \in DOMAIN f |-> settle(i)]

\* Mutant: the bridge leads from the frame that is dominant by now.
ReceiveLate(i, target, explicit) ==
    LET f == [j \in DOMAIN frames \cup {i} |->
                 IF j = i THEN target ELSE Decayed(frames[j], explicit)]
    IN  /\ frames' = Classified(f)
        /\ transitions' = transitions \cup {<<j, i>> : j \in {k \in DOMAIN f \ {i} : Rank(Activations(f), k) = 0}}

\* One signal: its target becomes `target`, every other frame decays, and the
\* bridge leads from the frame that was the most activated.
Receive(i, target, explicit) ==
    LET f == [j \in DOMAIN frames \cup {i} |->
                 IF j = i THEN target ELSE Decayed(frames[j], explicit)]
        previousDominant == {j \in DOMAIN frames : Rank(Activations(frames), j) = 0}
    IN  /\ frames' = Classified(f)
        /\ transitions' = transitions \cup {<<j, i>> : j \in previousDominant \ {i}}

\* The first signal, one that resembles no frame, and every explicit shift.
NewContext(explicit, relevance) ==
    LET activation == 480 + (IF explicit THEN DEFAULT_POLICY.explicitShiftBoost
                                         ELSE DEFAULT_POLICY.activationBoost + 120)
        frame == createFrame(activation, relevance)
    IN  /\ Len(frames) < MaxFrames
        /\ Receive(Len(frames) + 1, IF explicit THEN Foreground(frame) ELSE frame, explicit)

\* The signal resembles frame i so much that it continues it, or overlaps it.
Resemble(i, boost, relevance) ==
    Receive(i, updateExistingFrame(frames[i], boost, relevance), FALSE)

Continue(i, relevance) == Resemble(i, DEFAULT_POLICY.activationBoost, relevance)
Overlap(i, relevance) == Resemble(i, (DEFAULT_POLICY.activationBoost * 82) \div 100, relevance)

\* signal.returnToContextId; reactivateContextFrame sends such a signal.
Return(i, explicit, relevance) ==
    LET boost == (DEFAULT_POLICY.activationBoost * 82) \div 100
    IN  Receive(i, Foreground(updateExistingFrame(frames[i], boost, relevance)), explicit)

-----------------------------------------------------------------------------
(* The other operations on one frame                                       *)

Set(i, frame) == frames' = [frames EXCEPT ![i] = frame] /\ UNCHANGED transitions

Pin(i, reason) ==
    Set(i, [frames[i] EXCEPT
                !.retentionState = "pinned", !.reasons = @ \cup {reason},
                !.activation = Greatest(@, DEFAULT_POLICY.minimumPinnedActivation)])

\* Mutant: the activation is left to the next signal.
CompactLazily(i) ==
    /\ frames[i].retentionState # "pinned"
    /\ Set(i, [frames[i] EXCEPT !.retentionState = "compacted"])

Compact(i) ==
    /\ frames[i].retentionState # "pinned"
    /\ Set(i, [frames[i] EXCEPT
                   !.retentionState = "compacted", !.activationState = "background",
                   !.activation = Least(@, DEFAULT_POLICY.backgroundThreshold)])

\* One reason, or all, with transferVerified.  A frame with no reason left is
\* unprotected, whatever it was before.
Unpin(i, removed) ==
    LET reasons == frames[i].reasons \ removed
    IN  Set(i, [frames[i] EXCEPT
                   !.reasons = reasons,
                   !.retentionState = IF reasons # {} THEN @
                                      ELSE IF frames[i].activationState = "dormant" THEN "dormant"
                                      ELSE "active"])

-----------------------------------------------------------------------------
(* The release gate                                                        *)

\* What a release is asked to check of the transfer.
Preserved == {"need", "constraints", "provenance", "uncertainty", "decisions", "rejected"}
Archives == {"archived", "eligible_for_deletion"}

\* Mutant: without the condition on active situations.
ReleasableWhileActive(copy, target, situation, depended, capsule, destination, preserved) ==
    /\ copy.retentionState # "pinned" /\ ~depended /\ (destination \/ capsule)
    /\ ~(situation = "forming" /\ target \in {"dormant"} \cup Archives)
    /\ target = "eligible_for_deletion" => capsule

\* evaluateContextRelease, for a caller's copy of the frame.
Releasable(copy, target, situation, depended, capsule, destination, preserved) ==
    /\ copy.retentionState # "pinned"
    /\ ~depended
    /\ destination \/ capsule
    /\ {"need", "constraints", "provenance", "uncertainty"} \subseteq preserved
    /\ ~(situation = "forming" /\ target \in {"dormant"} \cup Archives)
    /\ ~(situation = "active" /\ target \in Archives)
    /\ target = "eligible_for_deletion" => capsule
    /\ target # "background" => "decisions" \in preserved
    /\ target \in Archives => "rejected" \in preserved

\* applyContextRelease, to the frame of the field.
Release(i, target) ==
    LET light == target \in {"background", "compacted"}
    IN  Set(i, [frames[i] EXCEPT
                   !.retentionState = target,
                   !.activationState = IF light THEN "background" ELSE "dormant",
                   !.activation = IF light THEN Least(@, 280) ELSE 0])

-----------------------------------------------------------------------------
(* Properties                                                              *)

ActivationStates == {"dominant", "overlapping", "background", "dormant"}

Score == 0 .. 1000

Frame == [activation : Score, relevance : Score, activationState : ActivationStates,
          retentionState : Retentions, reasons : SUBSET Reasons]

FieldTypeOK ==
    /\ frames \in Seq(Frame)
    /\ transitions \subseteq (DOMAIN frames) \X (DOMAIN frames)

\* A pinned frame never fades below the minimum activation, and never loses its
\* last reason while it is pinned: however many signals push it back, whatever
\* was done to it before it was pinned.
PinnedKeepsTrace ==
    \A i \in DOMAIN frames :
        frames[i].retentionState = "pinned" =>
            /\ frames[i].activation >= DEFAULT_POLICY.minimumPinnedActivation
            /\ frames[i].reasons # {}

\* No sequence of signals, compactions and releases leaves two dominant frames,
\* or one that retention has put aside.
OneDominant ==
    \A i, j \in DOMAIN frames :
        frames[i].activationState = "dominant" =>
            /\ frames[i].retentionState \in {"active", "pinned"}
            /\ frames[j].activationState = "dominant" => i = j

\* reconstructTransitionPath: what can be reached from the first frame.
Reached ==
    LET reached[n \in 0 .. Len(frames)] ==
            IF n = 0 THEN {1}
            ELSE reached[n - 1] \cup {t[2] : t \in {u \in transitions : u[1] \in reached[n - 1]}}
    IN  reached[Len(frames)]

\* docs/memory-v0.3-specification.md: transition paths remain reconstructable
\* after compaction.  Every frame can be reached from where the conversation
\* began, whatever has been compacted, pinned or released since.
EveryContextReachable == DOMAIN frames \subseteq Reached \cup {1}
=============================================================================
