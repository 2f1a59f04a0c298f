----------------------- MODULE SituationalMemoryProofs -----------------------
(***************************************************************************)
(* Proofs about SituationalMemory for any reasons and relevances, any      *)
(* budget of awake frames and any number of frames and steps.              *)
(***************************************************************************)
EXTENDS SituationalMemory, Integers, FiniteSetTheorems, TLAPS

-----------------------------------------------------------------------------
(* Arithmetic in thousandths                                               *)

\* A boost never lifts a score beyond 1, nor lowers it.
LEMMA ClampScore ==
    ASSUME NEW m \in Score, NEW n \in Nat
    PROVE  Clamp(m + n) \in Score /\ Clamp(m + n) >= m
BY DEF Clamp, Least, Score

\* The lower bounds of the field stay within 1.
LEMMA GreatestScore ==
    ASSUME NEW m \in Score, NEW n \in {280, 340, 880, 950}
    PROVE  Greatest(m, n) \in Score /\ Greatest(m, n) >= m /\ Greatest(m, n) >= n
BY DEF Greatest, Score

\* The upper bounds of the field keep a score a score.
LEMMA LeastScore ==
    ASSUME NEW m \in Score, NEW n \in {80, 280}
    PROVE  Least(m, n) \in Score
BY DEF Least, Score

\* Scores are numbers, and the smaller the gap to 1 the higher the score.
LEMMA ScoreGap ==
    \A a, b \in Score : /\ a \in Int /\ 1000 - a \in Nat
                        /\ 1000 - a <= 1000 - b => ~(b > a)
BY DEF Score

\* Decay stops at zero.
LEMMA MinusScore ==
    ASSUME NEW m \in Score, NEW n \in Nat
    PROVE  Minus(m, n) \in Score
BY DEF Minus, Score

\* Scores can be multiplied.
LEMMA ProductInt ==
    ASSUME NEW m \in Int, NEW n \in Int
    PROVE  m * n \in Int
OBVIOUS

\* The weighted relevance of a frame and a signal is a score.
LEMMA MixScore ==
    ASSUME NEW m \in Score, NEW n \in Score
    PROVE  (m * 55 + n * 45) \div 100 \in Score
BY DEF Score

-----------------------------------------------------------------------------
(* What the operators on frames return                                     *)

\* A frame with other scores is a frame.
LEMMA FrameExcept ==
    ASSUME NEW frame \in Frame, NEW a \in Score, NEW r \in Score
    PROVE  /\ frame.activation \in Score /\ frame.relevance \in Score
           /\ [frame EXCEPT !.activation = a, !.relevance = r] \in Frame
           /\ [frame EXCEPT !.activation = a] \in Frame
BY DEF Frame

\* createFrame returns an active frame.
LEMMA CreateFrameType ==
    ASSUME NEW activation \in Nat, NEW relevance \in Score \cup {Unspecified}
    PROVE  /\ createFrame(activation, relevance) \in Frame
           /\ createFrame(activation, relevance).retentionState = "active"
BY DEF createFrame, Frame, Score, Clamp, Least, Retentions, ActivationStates

\* updateExistingFrame only ever adds activation, and leaves retention alone.
LEMMA UpdateType ==
    ASSUME NEW frame \in Frame, NEW boost \in Nat, NEW relevance \in Score \cup {Unspecified}
    PROVE  /\ updateExistingFrame(frame, boost, relevance) \in Frame
           /\ updateExistingFrame(frame, boost, relevance).activation >= frame.activation
           /\ updateExistingFrame(frame, boost, relevance).retentionState = frame.retentionState
           /\ updateExistingFrame(frame, boost, relevance).reasons = frame.reasons
<1>1. PICK m \in Score : m = frame.activation
  BY DEF Frame
<1>2. PICK n \in Score : n = frame.relevance
  BY DEF Frame
<1>3. PICK a \in Score : a = Clamp(m + boost) /\ a >= m
  BY ClampScore
<1>4. PICK r \in Score : r = IF relevance = Unspecified THEN n ELSE (n * 55 + relevance * 45) \div 100
  BY MixScore
<1>5. updateExistingFrame(frame, boost, relevance) =
        [frame EXCEPT !.activation = a, !.relevance = r]
  BY <1>1, <1>2, <1>3, <1>4 DEF updateExistingFrame
<1>6. /\ [frame EXCEPT !.activation = a, !.relevance = r].activation = a
      /\ [frame EXCEPT !.activation = a, !.relevance = r] \in Frame
      /\ [frame EXCEPT !.activation = a, !.relevance = r].retentionState = frame.retentionState
      /\ [frame EXCEPT !.activation = a, !.relevance = r].reasons = frame.reasons
  BY DEF Frame
<1> QED BY <1>1, <1>3, <1>5, <1>6

\* A frame lifted to the foreground is no weaker than before.
LEMMA ForegroundType ==
    ASSUME NEW frame \in Frame
    PROVE  /\ Foreground(frame) \in Frame
           /\ Foreground(frame).activation >= frame.activation
           /\ Foreground(frame).retentionState = frame.retentionState
           /\ Foreground(frame).reasons = frame.reasons
<1>1. PICK a \in Score : a = Greatest(frame.activation, 880) /\ a >= frame.activation
  BY GreatestScore DEF Frame
<1>2. PICK r \in Score : r = Greatest(frame.relevance, 950)
  BY GreatestScore DEF Frame
<1>3. Foreground(frame) = [frame EXCEPT !.activation = a, !.relevance = r]
  BY <1>1, <1>2 DEF Foreground
<1>4. /\ [frame EXCEPT !.activation = a, !.relevance = r].activation = a
      /\ [frame EXCEPT !.activation = a, !.relevance = r] \in Frame
      /\ [frame EXCEPT !.activation = a, !.relevance = r].retentionState = frame.retentionState
      /\ [frame EXCEPT !.activation = a, !.relevance = r].reasons = frame.reasons
  BY DEF Frame
<1> QED BY <1>1, <1>3, <1>4

\* Decay leaves a pinned frame its minimum, and its reasons.
LEMMA DecayedType ==
    ASSUME NEW frame \in Frame, NEW explicit \in BOOLEAN
    PROVE  /\ Decayed(frame, explicit) \in Frame
           /\ Decayed(frame, explicit).retentionState = frame.retentionState
           /\ Decayed(frame, explicit).reasons = frame.reasons
           /\ frame.retentionState = "pinned" => Decayed(frame, explicit).activation >= 340
<1> DEFINE decay == (180 * (IF explicit THEN 13 ELSE 10) * 681) \div 10000
<1>1. decay \in Nat
  OBVIOUS
<1>2. Decayed(frame, explicit) =
        [frame EXCEPT !.activation = IF frame.retentionState = "pinned"
                                     THEN Greatest(Minus(frame.activation, decay), 340)
                                     ELSE Minus(frame.activation, decay)]
  BY DEF Decayed, DEFAULT_POLICY
<1> HIDE DEF decay
<1>3. Minus(frame.activation, decay) \in Score
  BY <1>1, MinusScore DEF Frame
<1>4. PICK a \in Score : /\ Decayed(frame, explicit) = [frame EXCEPT !.activation = a]
                         /\ frame.retentionState = "pinned" => a >= 340
  BY <1>2, <1>3, GreatestScore
<1>5. /\ [frame EXCEPT !.activation = a].activation = a
      /\ [frame EXCEPT !.activation = a] \in Frame
      /\ [frame EXCEPT !.activation = a].retentionState = frame.retentionState
      /\ [frame EXCEPT !.activation = a].reasons = frame.reasons
  BY DEF Frame
<1>6. /\ Decayed(frame, explicit).activation = a
      /\ Decayed(frame, explicit) \in Frame
      /\ Decayed(frame, explicit).retentionState = frame.retentionState
      /\ Decayed(frame, explicit).reasons = frame.reasons
  BY <1>4, <1>5, Zenon
<1> QED BY <1>4, <1>6, Zenon

\* Retention keeps pins, archives nothing and puts no dominant frame aside.
LEMMA RetentionType ==
    ASSUME NEW retention \in Retentions, NEW s \in ActivationStates
    PROVE  LET new == retentionFromActivation(retention, s)
           IN  /\ new \in Retentions
               /\ new = "pinned" <=> retention = "pinned"
               /\ new \in Archives => retention = new
               /\ s = "dominant" => new \in {"active", "pinned"}
BY DEF retentionFromActivation, Retentions, ActivationStates, Archives

\* Only the frame that ranks first is classified as dominant.
LEMMA ClassifyType ==
    ASSUME NEW activation \in Score, NEW isDominant \in BOOLEAN
    PROVE  /\ classifyActivation(activation, isDominant) \in ActivationStates
           /\ classifyActivation(activation, isDominant) = "dominant" <=> isDominant
BY DEF classifyActivation, ActivationStates, DEFAULT_POLICY

\* What a signal makes of frame f[i], whichever it is.
Settles(f, g, i) ==
    /\ g[i] \in Frame
    /\ g[i].reasons = f[i].reasons
    /\ g[i].retentionState = "pinned" <=> f[i].retentionState = "pinned"
    /\ f[i].retentionState = "pinned" => g[i].activation = f[i].activation
    /\ IF i \in Crowded(f) THEN g[i].activation <= 80 ELSE g[i].activation = f[i].activation
    /\ g[i].retentionState \in Archives => g[i].retentionState = f[i].retentionState
    /\ g[i].activationState = "dominant" <=> Rank(Strengths(f), i) = 0
    /\ g[i].activationState = "dominant" => g[i].retentionState \in {"active", "pinned"}

\* Classification does to every frame what Settles says.
LEMMA ClassifiedType ==
    ASSUME NEW n \in Nat, NEW f \in [1 .. n -> Frame]
    PROVE  /\ Classified(f) \in [1 .. n -> Frame]
           /\ \A i \in 1 .. n : Settles(f, Classified(f), i)
<1> DEFINE crowded == Crowded(f)
           level(i) == IF i \in crowded THEN Least(f[i].activation, 80) ELSE f[i].activation
           class(i) == classifyActivation(level(i), Rank(Strengths(f), i) = 0)
           settled(i) == [f[i] EXCEPT !.activation = level(i), !.activationState = class(i),
                             !.retentionState = retentionFromActivation(f[i].retentionState, class(i))]
<1>1. Classified(f) = [i \in 1 .. n |-> settled(i)]
  BY DEF Classified, DEFAULT_POLICY
<1>2. ASSUME NEW i \in 1 .. n PROVE Settles(f, Classified(f), i)
  <2>1. f[i] \in Frame /\ f[i].activation \in Score /\ f[i].retentionState \in Retentions
    BY DEF Frame
  <2>2. level(i) \in Score
    BY <2>1, LeastScore
  <2>3. f[i].retentionState = "pinned" => level(i) = f[i].activation
    BY DEF Crowded
  <2>8. IF i \in Crowded(f) THEN level(i) <= 80 ELSE level(i) = f[i].activation
    <3>1. \A m \in Score : Least(m, 80) <= 80
      BY DEF Least, Score
    <3> QED BY <2>1, <3>1
  <2>4. class(i) \in ActivationStates /\ (class(i) = "dominant" <=> Rank(Strengths(f), i) = 0)
    BY <2>2, ClassifyType
  <2>5. PICK r : /\ r = retentionFromActivation(f[i].retentionState, class(i))
                 /\ r \in Retentions
                 /\ r = "pinned" <=> f[i].retentionState = "pinned"
                 /\ r \in Archives => f[i].retentionState = r
                 /\ class(i) = "dominant" => r \in {"active", "pinned"}
    BY <2>1, <2>4, RetentionType
  <2> HIDE DEF level, class
  <2>6. Classified(f)[i] = [f[i] EXCEPT !.activation = level(i), !.activationState = class(i),
                                        !.retentionState = r]
    BY <1>1, <2>5
  <2>7. /\ Classified(f)[i] \in Frame
        /\ Classified(f)[i].reasons = f[i].reasons
        /\ Classified(f)[i].activation = level(i)
        /\ Classified(f)[i].activationState = class(i)
        /\ Classified(f)[i].retentionState = r
    BY <2>1, <2>2, <2>4, <2>5, <2>6 DEF Frame
  <2> QED BY <2>3, <2>4, <2>5, <2>7, <2>8 DEF Settles
<1> QED BY <1>1, <1>2 DEF Settles

\* Two frames cannot both come first.
LEMMA OneFirst ==
    ASSUME NEW n \in Nat, NEW score \in [1 .. n -> Int],
           NEW i \in 1 .. n, NEW j \in 1 .. n, Rank(score, i) = 0, Rank(score, j) = 0
    PROVE  i = j
<1> DEFINE ahead(k) == {l \in DOMAIN score : score[l] > score[k] \/ (score[l] = score[k] /\ l < k)}
<1>1. IsFiniteSet(1 .. n)
  BY FS_Interval
<1>2. ASSUME NEW k \in 1 .. n, Rank(score, k) = 0 PROVE ahead(k) = {}
  <2>1. IsFiniteSet(ahead(k))
    BY <1>1, FS_Subset
  <2> QED BY <1>2, <2>1, FS_EmptySet DEF Rank
<1>3. i \notin ahead(j) /\ j \notin ahead(i)
  BY <1>2
<1> QED BY <1>3

\* Every set of numbers that is not empty has a least one.
LEMMA Smallest ==
    ASSUME NEW S \in SUBSET Nat, S # {}
    PROVE  \E m \in S : \A k \in S : m <= k
<1> DEFINE less == {p \in Nat \X Nat : p[1] < p[2]}
<1>1. IsWellFoundedOn(less, Nat)
  BY NatLessThanWellFounded DEF OpToRel
<1>2. \A i \in Nat, m \in Nat : i < m => <<i, m>> \in less
  OBVIOUS
<1> HIDE DEF less
<1>3. PICK m \in S : \A k \in S : ~(<<k, m>> \in less)
  BY <1>1, WFMin
<1>4. \A k \in S : k \in Nat /\ m \in Nat /\ ~(k < m)
  BY <1>2, <1>3
<1> QED BY <1>3, <1>4

\* The frames that come before frame k.
Before(score, k) ==
    {l \in DOMAIN score : score[l] > score[k] \/ (score[l] = score[k] /\ l < k)}

\* A rank is a number of frames.
LEMMA RankCounts ==
    ASSUME NEW n \in Nat, NEW score \in [1 .. n -> Int], NEW k \in 1 .. n
    PROVE  /\ Rank(score, k) = Cardinality(Before(score, k))
           /\ IsFiniteSet(Before(score, k))
           /\ Rank(score, k) \in 0 .. n
<1>1. IsFiniteSet(1 .. n) /\ Cardinality(1 .. n) = n
  BY FS_Interval
<1>2. Before(score, k) \in SUBSET (1 .. n)
  BY DEF Before
<1>3. IsFiniteSet(Before(score, k)) /\ Cardinality(Before(score, k)) <= n
  BY <1>1, <1>2, FS_Subset
<1>4. Cardinality(Before(score, k)) \in Nat
  BY <1>3, FS_CardinalityType
<1>5. Rank(score, k) = Cardinality(Before(score, k))
  BY DEF Rank, Before
<1> QED BY <1>3, <1>4, <1>5

\* A frame that comes before another has the lower rank.
LEMMA RankOrders ==
    ASSUME NEW n \in Nat, NEW score \in [1 .. n -> Int],
           NEW i \in 1 .. n, NEW j \in Before(score, i)
    PROVE  Rank(score, j) < Rank(score, i)
<1>1. j \in 1 .. n /\ DOMAIN score = 1 .. n
  BY DEF Before
<1>2. /\ Before(score, j) \cup {j} \subseteq Before(score, i)
      /\ j \notin Before(score, j)
  BY <1>1 DEF Before
<1>3. /\ IsFiniteSet(Before(score, j)) /\ Rank(score, j) = Cardinality(Before(score, j))
      /\ IsFiniteSet(Before(score, i)) /\ Rank(score, i) = Cardinality(Before(score, i))
      /\ Rank(score, i) \in Nat /\ Rank(score, j) \in Nat
  BY <1>1, RankCounts
<1>4. Cardinality(Before(score, j) \cup {j}) = Rank(score, j) + 1
  BY <1>2, <1>3, FS_AddElement
<1>5. Cardinality(Before(score, j) \cup {j}) <= Rank(score, i)
  BY <1>2, <1>3, FS_Subset
<1> QED BY <1>3, <1>4, <1>5

\* Of some frames one comes first: of those with the highest score, the oldest.
LEMMA FirstExists ==
    ASSUME NEW n \in Nat \ {0}, NEW score \in [1 .. n -> Score]
    PROVE  \E k \in 1 .. n : Rank(score, k) = 0
<1> DEFINE gaps == {1000 - score[k] : k \in 1 .. n}
<1>1. gaps \in SUBSET Nat /\ gaps # {}
  <2>1. \A k \in 1 .. n : 1000 - score[k] \in Nat
    BY ScoreGap
  <2>2. 1 \in 1 .. n
    OBVIOUS
  <2> QED BY <2>1, <2>2
<1> HIDE DEF gaps
<1>2. PICK gap \in gaps : \A g \in gaps : gap <= g
  BY <1>1, Smallest
<1> DEFINE best == {k \in 1 .. n : 1000 - score[k] = gap}
<1>3. best \in SUBSET Nat /\ best # {}
  BY <1>2 DEF gaps
<1>4. PICK k \in best : \A j \in best : k <= j
  <2> HIDE DEF best
  <2> QED BY <1>3, Smallest
<1>5. Before(score, k) = {}
  <2> SUFFICES ASSUME NEW j \in Before(score, k) PROVE FALSE
    OBVIOUS
  <2>1. j \in 1 .. n /\ k \in 1 .. n /\ 1000 - score[k] = gap
    BY <1>4 DEF Before
  <2>2. score[j] \in Score /\ score[k] \in Score
    BY <2>1
  <2>3. 1000 - score[k] <= 1000 - score[j]
    BY <1>2, <2>1 DEF gaps
  <2>4. score[j] = score[k] /\ j < k
    <3>1. score[j] > score[k] \/ (score[j] = score[k] /\ j < k)
      BY DEF Before
    <3>2. ~(score[j] > score[k])
      BY <2>2, <2>3, ScoreGap
    <3> QED BY <3>1, <3>2, Zenon
  <2> QED BY <1>4, <2>1, <2>4
<1>6. score \in [1 .. n -> Int] /\ k \in 1 .. n
  <2>1. \A i \in 1 .. n : score[i] \in Int
    <3>1. \A i \in 1 .. n : score[i] \in Score
      OBVIOUS
    <3> QED BY <3>1, ScoreGap
  <2>2. k \in 1 .. n
    BY <1>4
  <2> HIDE DEF best
  <2> QED BY <2>1, <2>2
<1> QED BY <1>5, <1>6, RankCounts, FS_EmptySet

\* The frames of g that count against the budget.
Awake(g) ==
    {i \in DOMAIN g : /\ g[i].activation >= DEFAULT_POLICY.dormantThreshold
                      /\ g[i].retentionState # "pinned"}

\* Classification keeps the budget.  The last of the unpinned frames still awake
\* has not been crowded out, though every other of them comes before it.
LEMMA WithinBudget ==
    ASSUME NEW n \in Nat, NEW f \in [1 .. n -> Frame], Strengths(f) \in [1 .. n -> Int]
    PROVE  Cardinality(Awake(Classified(f))) \in 0 .. MaxNonDormantFrames
<1> DEFINE g == Classified(f)
           score == Strengths(f)
           awake == {i \in DOMAIN f : f[i].activation >= DEFAULT_POLICY.dormantThreshold}
           ahead(i) == {j \in awake : Rank(score, j) < Rank(score, i)}
           U == Awake(g)
<1>1. g \in [1 .. n -> Frame] /\ \A i \in 1 .. n : Settles(f, g, i)
  BY ClassifiedType
<1>2. Crowded(f) = {i \in awake : /\ Cardinality(ahead(i)) >= MaxNonDormantFrames
                                  /\ f[i].retentionState # "pinned"}
  BY DEF Crowded
<1> HIDE DEF g
<1>3. U \subseteq awake /\ \A i \in U : ~(Cardinality(ahead(i)) >= MaxNonDormantFrames)
  <2> SUFFICES ASSUME NEW i \in U
               PROVE  i \in awake /\ ~(Cardinality(ahead(i)) >= MaxNonDormantFrames)
    OBVIOUS
  <2>1. i \in 1 .. n /\ g[i].activation >= 100 /\ g[i].retentionState # "pinned"
    BY <1>1 DEF Awake, DEFAULT_POLICY
  <2>2. g[i].activation \in Int
    <3>1. g[i].activation \in Score
      BY <1>1, <2>1 DEF Frame
    <3> QED BY <3>1, ScoreGap
  <2>3. /\ g[i].retentionState = "pinned" <=> f[i].retentionState = "pinned"
        /\ IF i \in Crowded(f) THEN g[i].activation <= 80 ELSE g[i].activation = f[i].activation
    BY <1>1, <2>1, Zenon DEF Settles
  <2>6. i \notin Crowded(f)
    BY <2>1, <2>2, <2>3
  <2>4. f[i].activation >= 100 /\ f[i].retentionState # "pinned"
    BY <2>1, <2>3, <2>6
  <2>5. i \in awake
    BY <2>1, <2>4 DEF DEFAULT_POLICY
  <2> HIDE DEF awake, ahead
  <2> QED BY <1>2, <2>4, <2>5, <2>6
<1>4. awake \subseteq 1 .. n /\ IsFiniteSet(awake)
  BY FS_Interval, FS_Subset
<1>5. IsFiniteSet(U) /\ Cardinality(U) \in Nat
  BY <1>3, <1>4, FS_Subset, FS_CardinalityType
<1> HIDE DEF awake, score
<1>6. MaxNonDormantFrames \in Nat \ {0}
  BY FieldConstants
<1>7. CASE U = {}
  <2>1. Cardinality(U) = 0
    BY <1>7, FS_EmptySet
  <2> HIDE DEF U
  <2>2. Cardinality(U) \in 0 .. MaxNonDormantFrames
    BY <1>6, <2>1
  <2> QED BY <2>2 DEF U, g
<1>8. CASE U # {}
  <2> DEFINE gaps == {n - Rank(score, i) : i \in U}
  <2>1. \A i \in U : i \in 1 .. n /\ Rank(score, i) \in 0 .. n
    BY <1>3, <1>4, RankCounts DEF score
  <2>2. gaps \in SUBSET Nat /\ gaps # {}
    BY <1>8, <2>1
  <2>3. PICK gap \in gaps : \A m \in gaps : gap <= m
    <3> HIDE DEF gaps
    <3> QED BY <2>2, Smallest
  <2>4. PICK last \in U : gap = n - Rank(score, last)
    OBVIOUS
  <2>5. \A j \in U : Rank(score, j) <= Rank(score, last)
    <3> TAKE j \in U
    <3>1. gap <= n - Rank(score, j)
      BY <2>3
    <3>2. Rank(score, j) \in 0 .. n /\ Rank(score, last) \in 0 .. n
      BY <2>1
    <3> HIDE DEF U, gaps
    <3> QED BY <2>4, <3>1, <3>2
  <2>6. U \ {last} \subseteq ahead(last)
    <3> SUFFICES ASSUME NEW j \in U, j # last PROVE Rank(score, j) < Rank(score, last)
      BY <1>3
    <3>1. j \in 1 .. n /\ last \in 1 .. n
      BY <2>1
    <3>2. CASE j \in Before(score, last)
      BY <3>1, <3>2, RankOrders DEF score
    <3>3. CASE last \in Before(score, j)
      <4>1. Rank(score, last) < Rank(score, j)
        BY <3>1, <3>3, RankOrders DEF score
      <4> QED BY <2>1, <2>5, <4>1
    <3>4. j \in Before(score, last) \/ last \in Before(score, j)
      <4>1. score \in [1 .. n -> Int]
        BY DEF score
      <4> QED BY <3>1, <4>1 DEF Before
    <3> QED BY <3>2, <3>3, <3>4
  <2>7. ahead(last) \subseteq awake
    OBVIOUS
  <2> HIDE DEF ahead, U
  <2>8. IsFiniteSet(ahead(last)) /\ Cardinality(ahead(last)) \in Nat
    BY <1>4, <2>7, FS_Subset, FS_CardinalityType
  <2>9. Cardinality(ahead(last)) < MaxNonDormantFrames
    BY <1>3, <1>6, <2>8
  <2>10. Cardinality(U \ {last}) <= Cardinality(ahead(last))
    BY <2>6, <2>8, FS_Subset
  <2>11. Cardinality(U \ {last}) = Cardinality(U) - 1
    BY <1>5, FS_RemoveElement
  <2>12. Cardinality(U) \in 0 .. MaxNonDormantFrames
    BY <1>5, <1>6, <2>8, <2>9, <2>10, <2>11
  <2> QED BY <2>12 DEF U, g
<1> QED BY <1>7, <1>8

-----------------------------------------------------------------------------
(* The operations on the field                                             *)

\* PinnedKeepsTrace and OneDominant, of one frame.
Sound(frame) ==
    /\ frame.retentionState = "pinned" => frame.activation >= 340 /\ frame.reasons # {}
    /\ frame.activationState = "dominant" => frame.retentionState \in {"active", "pinned"}

\* The transition that brought a frame led to it from an older one.
Bridged ==
    \A j \in DOMAIN frames \ {1} : \E i \in DOMAIN frames : i < j /\ <<i, j>> \in transitions

FieldInv == FieldTypeOK /\ PinnedKeepsTrace /\ OneDominant /\ Bridged

\* What a signal leaves awake is within the budget.
Budget == Cardinality(Awake(frames)) \in 0 .. MaxNonDormantFrames

\* No frame comes to be archived or up for deletion.
NothingArchived ==
    \A j \in DOMAIN frames' : frames'[j].retentionState \in Archives =>
        j \in DOMAIN frames /\ frames'[j].retentionState = frames[j].retentionState

\* The field as a function on the positions of its frames.
LEMMA FieldFunction ==
    ASSUME FieldTypeOK
    PROVE  /\ Len(frames) \in Nat /\ DOMAIN frames = 1 .. Len(frames)
           /\ frames \in [1 .. Len(frames) -> Frame]
BY DEF FieldTypeOK

\* The two invariants of the field, read for one frame.
LEMMA FieldSound ==
    ASSUME FieldInv, NEW i \in DOMAIN frames
    PROVE  Sound(frames[i])
BY DEF FieldInv, PinnedKeepsTrace, OneDominant, Sound, DEFAULT_POLICY

\* A signal keeps the field sound when its target is, and archives nothing.
LEMMA ReceivePreserves ==
    ASSUME FieldInv, NEW i \in 1 .. (Len(frames) + 1), NEW target \in Frame, NEW explicit \in BOOLEAN,
           Receive(i, target, explicit),
           target.retentionState = "pinned" => target.activation >= 340 /\ target.reasons # {},
           target.retentionState \in Archives =>
               i \in DOMAIN frames /\ target.retentionState = frames[i].retentionState
    PROVE  FieldInv' /\ Budget' /\ NothingArchived /\ DOMAIN frames \subseteq DOMAIN frames'
<1> DEFINE f == [j \in DOMAIN frames \cup {i} |-> IF j = i THEN target ELSE Decayed(frames[j], explicit)]
           g == Classified(f)
           n == IF i = Len(frames) + 1 THEN i ELSE Len(frames)
<1>1. /\ Len(frames) \in Nat /\ DOMAIN frames = 1 .. Len(frames)
      /\ frames \in [1 .. Len(frames) -> Frame] /\ PinnedKeepsTrace
  BY FieldFunction DEF FieldInv
<1>2. n \in Nat /\ DOMAIN frames \cup {i} = 1 .. n
  BY <1>1
<1>3. ASSUME NEW j \in 1 .. n
      PROVE  /\ f[j] \in Frame
             /\ f[j].retentionState = "pinned" => f[j].activation >= 340 /\ f[j].reasons # {}
             /\ f[j].retentionState \in Archives =>
                    j \in DOMAIN frames /\ f[j].retentionState = frames[j].retentionState
  <2>1. CASE j = i
    BY <2>1, <1>2
  <2>2. CASE j # i
    <3>1. j \in DOMAIN frames /\ f[j] = Decayed(frames[j], explicit) /\ frames[j] \in Frame
      BY <2>2, <1>1, <1>2
    <3>2. frames[j].retentionState = "pinned" => frames[j].reasons # {}
      BY <3>1, <1>1 DEF PinnedKeepsTrace
    <3> QED BY <3>1, <3>2, DecayedType
  <2> QED BY <2>1, <2>2
<1>4. f \in [1 .. n -> Frame]
  BY <1>2, <1>3
<1>5. /\ frames' = g
      /\ \A t \in transitions' : t \in transitions \/ \E j \in DOMAIN frames : t = <<j, i>>
  <2> DEFINE previous == {j \in DOMAIN frames : Rank(Activations(frames), j) = 0} \ {i}
  <2>1. frames' = g /\ transitions' = transitions \cup {<<j, i>> : j \in previous}
    BY DEF Receive
  <2>2. previous \subseteq DOMAIN frames
    OBVIOUS
  <2> HIDE DEF previous, g
  <2> QED BY <2>1, <2>2
<1> HIDE DEF f, n
<1>6. g \in [1 .. n -> Frame] /\ \A j \in 1 .. n : Settles(f, g, j)
  BY <1>2, <1>4, ClassifiedType
<1> HIDE DEF g
<1>7. FieldTypeOK'
  <2>1. g \in Seq(Frame) /\ DOMAIN g = 1 .. n
    BY <1>2, <1>6
  <2>2. i \in 1 .. n /\ DOMAIN frames \subseteq 1 .. n
    BY <1>2
  <2>3. transitions \subseteq (DOMAIN frames) \X (DOMAIN frames)
    BY DEF FieldInv, FieldTypeOK
  <2>4. ASSUME NEW t \in transitions' PROVE t \in (1 .. n) \X (1 .. n)
    <3>1. CASE t \in transitions BY <3>1, <2>2, <2>3
    <3>2. CASE \E j \in DOMAIN frames : t = <<j, i>> BY <3>2, <2>2
    <3> QED BY <3>1, <3>2, <1>5
  <2> QED BY <2>1, <2>4, <1>5 DEF FieldTypeOK
<1>8. PinnedKeepsTrace'
  BY <1>3, <1>5, <1>6 DEF PinnedKeepsTrace, Settles, DEFAULT_POLICY
<1>12. Strengths(f) \in [1 .. n -> Int]
    <3>1. \A j \in 1 .. n : f[j].activation \in Int /\ f[j].relevance \in Int
      <4>1. Score \subseteq Int
        BY DEF Score
      <4>2. \A j \in 1 .. n : f[j].activation \in Score /\ f[j].relevance \in Score
        BY <1>4 DEF Frame
      <4> QED BY <4>1, <4>2
    <3>2. \A j \in 1 .. n : f[j].activation * f[j].relevance \in Int
      BY <3>1, ProductInt
    <3> QED BY <1>4, <3>2 DEF Strengths
<1>9. OneDominant'
  <2>2. \A j, k \in 1 .. n : Rank(Strengths(f), j) = 0 /\ Rank(Strengths(f), k) = 0 => j = k
    BY <1>2, <1>12, OneFirst
  <2> QED BY <1>5, <1>6, <2>2 DEF OneDominant, Settles
<1>13. Budget'
  BY <1>2, <1>4, <1>5, <1>12, WithinBudget DEF Budget, g
<1>14. Bridged'
  <2> DEFINE previous == {j \in DOMAIN frames : Rank(Activations(frames), j) = 0} \ {i}
  <2>1. transitions' = transitions \cup {<<j, i>> : j \in previous}
    BY DEF Receive
  <2>2. DOMAIN frames' = 1 .. n
    BY <1>5, <1>6
  <2> SUFFICES ASSUME NEW j \in 1 .. n, j # 1
               PROVE  \E k \in 1 .. n : k < j /\ <<k, j>> \in transitions'
    BY <2>2 DEF Bridged
  <2>3. CASE j \in DOMAIN frames
    <3>1. PICK k \in DOMAIN frames : k < j /\ <<k, j>> \in transitions
      BY <2>3 DEF FieldInv, Bridged
    <3> QED BY <3>1, <2>1, <1>2
  <2>4. CASE j \notin DOMAIN frames
    <3>1. j = i /\ i = Len(frames) + 1 /\ Len(frames) \in Nat \ {0}
      BY <2>4, <1>1, <1>2
    <3>2. Activations(frames) \in [1 .. Len(frames) -> Score]
      BY <1>1 DEF Activations, Frame
    <3>3. PICK k \in 1 .. Len(frames) : Rank(Activations(frames), k) = 0
      BY <3>1, <3>2, FirstExists
    <3>4. k \in previous /\ k < i /\ k \in 1 .. n
      BY <1>1, <1>2, <3>1, <3>3
    <3> QED BY <2>1, <3>1, <3>4
  <2> QED BY <2>3, <2>4
<1>10. NothingArchived
  BY <1>3, <1>5, <1>6 DEF NothingArchived, Settles
<1> QED BY <1>2, <1>5, <1>6, <1>7, <1>8, <1>9, <1>10, <1>13, <1>14 DEF FieldInv

\* Changing one frame keeps the field sound when the new frame is and no second
\* frame becomes dominant.
LEMMA SetPreserves ==
    ASSUME FieldInv, NEW i \in DOMAIN frames, NEW frame \in Frame, Set(i, frame), Sound(frame),
           frame.activationState = "dominant" => frames[i].activationState = "dominant"
    PROVE  FieldInv' /\ DOMAIN frames' = DOMAIN frames
<1>1. /\ Len(frames) \in Nat /\ DOMAIN frames = 1 .. Len(frames)
      /\ frames \in [1 .. Len(frames) -> Frame]
  BY FieldFunction DEF FieldInv
<1>2. /\ frames' \in [1 .. Len(frames) -> Frame]
      /\ \A j \in DOMAIN frames : frames'[j] = IF j = i THEN frame ELSE frames[j]
  BY <1>1 DEF Set
<1>3. frames' \in Seq(Frame) /\ DOMAIN frames' = DOMAIN frames
  BY <1>1, <1>2
<1>4. FieldTypeOK'
  BY <1>3 DEF Set, FieldInv, FieldTypeOK
<1>5. PinnedKeepsTrace'
  BY <1>2, <1>3 DEF FieldInv, PinnedKeepsTrace, Sound, DEFAULT_POLICY
<1>6. OneDominant'
  BY <1>2, <1>3 DEF FieldInv, OneDominant, Sound
<1>7. Bridged'
  BY <1>3 DEF Set, FieldInv, Bridged
<1> QED BY <1>3, <1>4, <1>5, <1>6, <1>7 DEF FieldInv

\* A pin raises the frame to its minimum and keeps the field sound.
LEMMA PinPreserves ==
    ASSUME FieldInv, NEW i \in DOMAIN frames, NEW reason \in Reasons, Pin(i, reason)
    PROVE  FieldInv' /\ NothingArchived /\ DOMAIN frames' = DOMAIN frames
<1> DEFINE a == Greatest(frames[i].activation, 340)
           frame == [frames[i] EXCEPT !.retentionState = "pinned", !.reasons = @ \cup {reason},
                                      !.activation = a]
<1>1. frames[i] \in Frame /\ Sound(frames[i])
  BY FieldFunction, FieldSound DEF FieldInv
<1>2. a \in Score /\ a >= 340
  BY <1>1, GreatestScore DEF Frame
<1>3. Set(i, frame)
  BY DEF Pin, DEFAULT_POLICY
<1> HIDE DEF a
<1>4. /\ frame \in Frame /\ frame.retentionState = "pinned" /\ frame.activation = a
      /\ frame.reasons # {} /\ frame.activationState = frames[i].activationState
  BY <1>1, <1>2 DEF Frame, Retentions
<1> HIDE DEF frame
<1>5. FieldInv' /\ DOMAIN frames' = DOMAIN frames
  BY <1>2, <1>3, <1>4, SetPreserves DEF Sound
<1>6. NothingArchived
  BY <1>3, <1>4, <1>5 DEF Set, NothingArchived, Archives
<1> QED BY <1>5, <1>6

\* Compaction keeps the field sound.
LEMMA CompactPreserves ==
    ASSUME FieldInv, NEW i \in DOMAIN frames, Compact(i)
    PROVE  FieldInv' /\ NothingArchived /\ DOMAIN frames' = DOMAIN frames
<1> DEFINE a == Least(frames[i].activation, 280)
           frame == [frames[i] EXCEPT !.retentionState = "compacted",
                                      !.activationState = "background", !.activation = a]
<1>1. frames[i] \in Frame
  BY FieldFunction DEF FieldInv
<1>2. a \in Score
  BY <1>1, LeastScore DEF Frame
<1>3. Set(i, frame)
  BY DEF Compact, DEFAULT_POLICY
<1> HIDE DEF a
<1>4. /\ frame \in Frame /\ frame.retentionState = "compacted"
      /\ frame.activationState = "background"
  BY <1>1, <1>2 DEF Frame, Retentions, ActivationStates
<1> HIDE DEF frame
<1>5. FieldInv' /\ DOMAIN frames' = DOMAIN frames
  BY <1>3, <1>4, SetPreserves DEF Sound
<1>6. NothingArchived
  BY <1>3, <1>4, <1>5 DEF Set, NothingArchived, Archives
<1> QED BY <1>5, <1>6

\* A pin goes with its last reason.
LEMMA UnpinPreserves ==
    ASSUME FieldInv, NEW i \in DOMAIN frames, NEW removed, Unpin(i, removed)
    PROVE  FieldInv' /\ NothingArchived /\ DOMAIN frames' = DOMAIN frames
<1> DEFINE left == frames[i].reasons \ removed
           retention == IF left # {} THEN frames[i].retentionState
                        ELSE IF frames[i].activationState = "dormant" THEN "dormant"
                        ELSE "active"
           frame == [frames[i] EXCEPT !.reasons = left, !.retentionState = retention]
<1>1. frames[i] \in Frame /\ Sound(frames[i])
  BY FieldFunction, FieldSound DEF FieldInv
<1>2. Set(i, frame)
  BY DEF Unpin
<1>3. left \subseteq Reasons /\ retention \in Retentions
  BY <1>1 DEF Frame, Retentions
<1>4. retention = "pinned" => frames[i].retentionState = "pinned" /\ left # {}
  OBVIOUS
<1>5. /\ retention \in Archives => frames[i].retentionState = retention
      /\ frames[i].activationState = "dominant" => retention \in {"active", "pinned"}
  BY <1>1 DEF Archives, Sound
<1> HIDE DEF left, retention
<1>6. /\ frame \in Frame /\ frame.retentionState = retention /\ frame.reasons = left
      /\ frame.activation = frames[i].activation
      /\ frame.activationState = frames[i].activationState
  BY <1>1, <1>3 DEF Frame
<1> HIDE DEF frame
<1>7. FieldInv' /\ DOMAIN frames' = DOMAIN frames
  BY <1>1, <1>2, <1>4, <1>5, <1>6, SetPreserves DEF Sound
<1>8. NothingArchived
  BY <1>2, <1>5, <1>6, <1>7 DEF Set, NothingArchived
<1> QED BY <1>7, <1>8

\* A release changes the one frame, and leaves the field sound.
LEMMA ReleasePreserves ==
    ASSUME FieldInv, NEW i \in DOMAIN frames, NEW target \in Retentions \ {"pinned", "active"},
           Release(i, target)
    PROVE  /\ FieldInv' /\ DOMAIN frames' = DOMAIN frames
           /\ frames'[i].retentionState = target
           /\ \A j \in DOMAIN frames \ {i} : frames'[j] = frames[j]
<1> DEFINE light == target \in {"background", "compacted"}
           a == IF light THEN Least(frames[i].activation, 280) ELSE 0
           s == IF light THEN "background" ELSE "dormant"
           frame == [frames[i] EXCEPT !.retentionState = target, !.activationState = s,
                                      !.activation = a]
<1>1. frames[i] \in Frame
  BY FieldFunction DEF FieldInv
<1>2. a \in Score
  <2>1. 0 \in Score
    BY DEF Score
  <2> QED BY <1>1, <2>1, LeastScore DEF Frame
<1>3. s \in ActivationStates /\ s # "dominant"
  BY DEF ActivationStates
<1>4. Set(i, frame)
  BY DEF Release
<1> HIDE DEF a, s
<1>5. frame \in Frame /\ frame.retentionState = target /\ frame.activationState = s
  BY <1>1, <1>2, <1>3 DEF Frame
<1> HIDE DEF frame
<1>6. FieldInv' /\ DOMAIN frames' = DOMAIN frames
  BY <1>3, <1>4, <1>5, SetPreserves DEF Sound
<1> QED BY <1>4, <1>5, <1>6 DEF Set

-----------------------------------------------------------------------------
(* The invariant                                                           *)

\* The phase a situation is in tells the handoffs that led there; without a
\* situation nothing is held, and only a closed one has an outcome.
SituationInv ==
    /\ phase = "none" => state = "none" /\ held = {}
    /\ phase # "none" => state # "none"
    /\ state \in Outcomes => phase = "closed"
    /\ phase \in {"convergence", "implementation", "validation"} =>
           <<"exploration", "convergence">> \in handoffs
    /\ phase \in {"implementation", "validation"} => <<"convergence", "implementation">> \in handoffs
    /\ phase = "validation" => <<"implementation", "validation">> \in handoffs
    /\ ResolvedThroughEveryPhase

MemoryInv ==
    TypeOK /\ FieldInv /\ SituationInv /\ ArchivedAfterClosing /\ DeletionAfterConsolidation

\* The invariant holds initially.
LEMMA InitInv == Init => MemoryInv
<1> SUFFICES ASSUME Init PROVE MemoryInv
  OBVIOUS
<1>1. frames \in Seq(Frame) /\ DOMAIN frames = {} /\ transitions = {}
  BY DEF Init, FieldInit
<1>2. FieldInv
  BY <1>1 DEF FieldInv, FieldTypeOK, PinnedKeepsTrace, OneDominant, Bridged
<1>3. SituationInv
  BY DEF Init, SituationInit, SituationInv, Outcomes, ResolvedThroughEveryPhase
<1>4. TypeOK
  BY <1>2 DEF FieldInv, TypeOK, Init, SituationInit, Phases, ALLOWED_TRANSITIONS, Ids
<1> QED BY <1>1, <1>2, <1>3, <1>4 DEF MemoryInv, ArchivedAfterClosing, DeletionAfterConsolidation, Ids

\* The signals and pins leave the situation alone, and archive nothing.
LEMMA FieldStep ==
    ASSUME MemoryInv, UNCHANGED <<situationVars, held, capsule>>,
           FieldInv', NothingArchived, DOMAIN frames \subseteq DOMAIN frames'
    PROVE  MemoryInv'
<1> USE DEF situationVars
<1>1. TypeOK'
  BY DEF MemoryInv, FieldInv, TypeOK, Ids
<1>2. SituationInv'
  BY DEF MemoryInv, SituationInv, ResolvedThroughEveryPhase
<1>3. ArchivedAfterClosing' /\ DeletionAfterConsolidation'
  BY DEF MemoryInv, ArchivedAfterClosing, DeletionAfterConsolidation, NothingArchived, Archives, Ids
<1> QED BY <1>1, <1>2, <1>3 DEF MemoryInv

\* A signal finds its target, or makes one, and preserves the invariant.
LEMMA SignalStep ==
    ASSUME MemoryInv, Signal
    PROVE  MemoryInv' /\ Budget'
<1>1. FieldInv /\ Len(frames) \in Nat /\ DOMAIN frames = 1 .. Len(frames)
      /\ frames \in [1 .. Len(frames) -> Frame]
  BY FieldFunction DEF MemoryInv, FieldInv
<1>2. Relevances \subseteq Score
  BY FieldConstants DEF Score
<1>3. ASSUME NEW explicit \in BOOLEAN, NEW relevance \in Relevances \cup {Unspecified},
             NewContext(explicit, relevance)
      PROVE  FieldInv' /\ Budget' /\ NothingArchived /\ DOMAIN frames \subseteq DOMAIN frames'
  <2> DEFINE activation == 480 + (IF explicit THEN 460 ELSE 400)
             frame == createFrame(activation, relevance)
             target == IF explicit THEN Foreground(frame) ELSE frame
  <2>1. frame \in Frame /\ frame.retentionState = "active"
    BY <1>2, CreateFrameType
  <2>2. Receive(Len(frames) + 1, target, explicit)
    BY <1>3 DEF NewContext, DEFAULT_POLICY
  <2> HIDE DEF frame
  <2>3. target \in Frame /\ target.retentionState = "active"
    BY <2>1, ForegroundType
  <2> HIDE DEF target
  <2>4. Len(frames) + 1 \in 1 .. (Len(frames) + 1)
    BY <1>1
  <2>5. target.retentionState # "pinned" /\ target.retentionState \notin Archives
    BY <2>3 DEF Archives
  <2> QED BY <1>1, <2>2, <2>3, <2>4, <2>5, ReceivePreserves
<1>4. ASSUME NEW i \in Ids, NEW boost \in Nat, NEW relevance \in Relevances \cup {Unspecified},
             Resemble(i, boost, relevance)
      PROVE  FieldInv' /\ Budget' /\ NothingArchived /\ DOMAIN frames \subseteq DOMAIN frames'
  <2> DEFINE target == updateExistingFrame(frames[i], boost, relevance)
  <2>1. i \in 1 .. Len(frames) + 1 /\ i \in DOMAIN frames /\ frames[i] \in Frame
    BY <1>1 DEF Ids
  <2>2. /\ target \in Frame /\ target.activation >= frames[i].activation
        /\ target.retentionState = frames[i].retentionState /\ target.reasons = frames[i].reasons
    BY <1>2, <2>1, UpdateType
  <2>3. target.retentionState = "pinned" => target.activation >= 340 /\ target.reasons # {}
    <3>1. \A a, b \in Score : a >= b /\ b >= 340 => a >= 340
      BY DEF Score
    <3>2. frames[i].activation \in Score /\ target.activation \in Score
      BY <2>1, <2>2 DEF Frame
    <3>3. frames[i].retentionState = "pinned" =>
              frames[i].activation >= 340 /\ frames[i].reasons # {}
      BY <1>1, <2>1, FieldSound DEF Sound
    <3> HIDE DEF target
    <3> QED BY <2>2, <3>1, <3>2, <3>3
  <2>4. Receive(i, target, FALSE)
    BY <1>4 DEF Resemble
  <2> HIDE DEF target
  <2> QED BY <1>1, <2>1, <2>2, <2>3, <2>4, ReceivePreserves
<1>5. ASSUME NEW i \in Ids, NEW relevance \in Relevances \cup {Unspecified},
             Continue(i, relevance) \/ Overlap(i, relevance)
      PROVE  FieldInv' /\ Budget' /\ NothingArchived /\ DOMAIN frames \subseteq DOMAIN frames'
  <2>1. 280 \in Nat /\ (280 * 82) \div 100 \in Nat
    OBVIOUS
  <2> QED BY <1>4, <1>5, <2>1 DEF Continue, Overlap, DEFAULT_POLICY
<1> QED BY <1>3, <1>5, FieldStep DEF Signal

\* A reactivation preserves the invariant.
LEMMA ReactivateStep ==
    ASSUME MemoryInv, Reactivate
    PROVE  MemoryInv' /\ Budget'
<1>1. FieldInv /\ Len(frames) \in Nat /\ DOMAIN frames = 1 .. Len(frames)
      /\ frames \in [1 .. Len(frames) -> Frame]
  BY FieldFunction DEF MemoryInv, FieldInv
<1>2. ASSUME NEW i \in Ids, NEW explicit \in BOOLEAN, Return(i, explicit, Unspecified)
      PROVE  FieldInv' /\ Budget' /\ NothingArchived /\ DOMAIN frames \subseteq DOMAIN frames'
  <2> DEFINE boost == (280 * 82) \div 100
             updated == updateExistingFrame(frames[i], boost, Unspecified)
             target == Foreground(updated)
  <2>1. i \in 1 .. Len(frames) + 1 /\ i \in DOMAIN frames /\ frames[i] \in Frame
    BY <1>1 DEF Ids
  <2>2. boost \in Nat
    OBVIOUS
  <2>3. Receive(i, target, explicit)
    BY <1>2 DEF Return, DEFAULT_POLICY
  <2> HIDE DEF boost
  <2>4. /\ updated \in Frame /\ updated.activation >= frames[i].activation
        /\ updated.retentionState = frames[i].retentionState /\ updated.reasons = frames[i].reasons
    BY <2>1, <2>2, UpdateType
  <2> HIDE DEF updated
  <2>5. /\ target \in Frame /\ target.activation >= updated.activation
        /\ target.retentionState = frames[i].retentionState /\ target.reasons = frames[i].reasons
    BY <2>4, ForegroundType
  <2> HIDE DEF target
  <2>6. target.retentionState = "pinned" => target.activation >= 340 /\ target.reasons # {}
    <3>1. \A a, b, c \in Score : a >= b /\ b >= c /\ c >= 340 => a >= 340
      BY DEF Score
    <3>2. frames[i].activation \in Score /\ updated.activation \in Score /\ target.activation \in Score
      BY <2>1, <2>4, <2>5 DEF Frame
    <3>3. frames[i].retentionState = "pinned" =>
              frames[i].activation >= 340 /\ frames[i].reasons # {}
      BY <1>1, <2>1, FieldSound DEF Sound
    <3> QED BY <2>4, <2>5, <3>1, <3>2, <3>3
  <2> QED BY <1>1, <2>1, <2>3, <2>5, <2>6, ReceivePreserves
<1> QED BY <1>2, FieldStep DEF Reactivate

\* Pins, unpins and compactions preserve the invariant.
LEMMA ProtectStep ==
    ASSUME MemoryInv, Protect
    PROVE  MemoryInv'
<1>1. FieldInv
  BY DEF MemoryInv
<1>2. ASSUME NEW i \in Ids, NEW reason \in Reasons, Pin(i, reason)
      PROVE  FieldInv' /\ NothingArchived /\ DOMAIN frames \subseteq DOMAIN frames'
  BY <1>1, <1>2, PinPreserves DEF Ids
<1>3. ASSUME NEW i \in Ids, NEW removed, Unpin(i, removed)
      PROVE  FieldInv' /\ NothingArchived /\ DOMAIN frames \subseteq DOMAIN frames'
  BY <1>1, <1>3, UnpinPreserves DEF Ids
<1>4. ASSUME NEW i \in Ids, Compact(i)
      PROVE  FieldInv' /\ NothingArchived /\ DOMAIN frames \subseteq DOMAIN frames'
  BY <1>1, <1>4, CompactPreserves DEF Ids
<1> QED BY <1>2, <1>3, <1>4, FieldStep DEF Protect

\* The gate lets a frame be archived only when the situation has an outcome.
LEMMA ReleaseStep ==
    ASSUME MemoryInv, ApplyRelease
    PROVE  MemoryInv'
<1>1. PICK i \in held, target \in Retentions \ {"pinned", "active"} :
        /\ \E destination \in BOOLEAN, preserved \in SUBSET Preserved :
            Releasable([retentionState |-> "active"], target, state,
                       phase # "closed" /\ i \in contextIds, capsule, destination, preserved)
        /\ Release(i, target)
        /\ held' = {}
  BY DEF ApplyRelease
<1>2. i \in DOMAIN frames /\ FieldInv
  BY DEF MemoryInv, TypeOK, Ids
<1>3. /\ FieldInv' /\ DOMAIN frames' = DOMAIN frames
      /\ frames'[i].retentionState = target
      /\ \A j \in DOMAIN frames \ {i} : frames'[j] = frames[j]
  BY <1>1, <1>2, ReleasePreserves
<1>4. target \in Archives => phase = "closed" /\ state \in Outcomes
  <2>1. state # "none"
    BY DEF MemoryInv, SituationInv
  <2>2. target \in Archives => state # "forming" /\ state # "active"
    BY <1>1 DEF Releasable
  <2> QED BY <2>1, <2>2 DEF MemoryInv, TypeOK, SituationInv
<1>5. target = "eligible_for_deletion" => capsule
  BY <1>1 DEF Releasable
<1>6. UNCHANGED <<phase, state, contextIds, handoffs, capsule>>
  BY DEF ApplyRelease, situationVars
<1>7. TypeOK'
  BY <1>1, <1>3, <1>6 DEF MemoryInv, FieldInv, TypeOK, Ids
<1>8. SituationInv'
  BY <1>1, <1>6 DEF MemoryInv, SituationInv, ResolvedThroughEveryPhase
<1>9. ArchivedAfterClosing' /\ DeletionAfterConsolidation'
  BY <1>3, <1>4, <1>5, <1>6 DEF MemoryInv, ArchivedAfterClosing, DeletionAfterConsolidation, Ids, Archives
<1> QED BY <1>3, <1>7, <1>8, <1>9 DEF MemoryInv

\* The situation's steps leave the field alone, and no step reopens a closed
\* situation.
LEMMA SituationStep ==
    ASSUME MemoryInv, Begin \/ Situate \/ Hold \/ Consolidate
    PROVE  MemoryInv'
<1> USE DEF situationVars, fieldVars
<1>1. UNCHANGED <<frames, transitions>>
  BY DEF Begin, Situate, Hold, Consolidate
<1>2. FieldInv'
  BY <1>1 DEF MemoryInv, FieldInv, FieldTypeOK, PinnedKeepsTrace, OneDominant, Bridged
<1>3. TypeOK'
  <2>1. CASE Begin
    BY <1>1, <2>1 DEF Begin, Build, MemoryInv, TypeOK, FieldTypeOK, Ids, Phases, ALLOWED_TRANSITIONS
  <2>2. CASE Situate
    BY <1>1, <2>2 DEF Situate, Transition, Close, MemoryInv, TypeOK, FieldTypeOK, Ids, Phases,
       ALLOWED_TRANSITIONS
  <2>3. CASE Hold \/ Consolidate
    BY <1>1, <2>3 DEF Hold, Consolidate, MemoryInv, TypeOK, FieldTypeOK, Ids
  <2> QED BY <2>1, <2>2, <2>3
<1>4. SituationInv'
  <2> USE DEF SituationInv, ResolvedThroughEveryPhase
  <2>1. CASE Begin
    BY <2>1 DEF Begin, Build, MemoryInv, Outcomes
  <2>2. ASSUME NEW to \in Phases, NEW contexts, Transition(to, contexts), held' = held
        PROVE  SituationInv'
    <3>1. \/ phase = "exploration" /\ to \in {"convergence", "closed"}
          \/ phase = "convergence" /\ to \in {"implementation", "exploration", "closed"}
          \/ phase = "implementation" /\ to \in {"validation", "convergence", "closed"}
          \/ phase = "validation" /\ to \in {"implementation", "closed"}
      BY <2>2 DEF Transition, MemoryInv, TypeOK, Phases, ALLOWED_TRANSITIONS
    <3>2. SituationInv /\ state \notin Outcomes
      BY <3>1 DEF MemoryInv
    <3>3. /\ phase' = to /\ state' = IF to = "closed" THEN state ELSE "active"
          /\ handoffs' = handoffs \cup {<<phase, to>>}
      BY <2>2 DEF Transition
    <3>4. state' \notin Outcomes /\ state' # "none" /\ phase' # "none"
      BY <3>1, <3>2, <3>3 DEF Outcomes
    <3> QED BY <3>1, <3>2, <3>3, <3>4 DEF Outcomes
  <2>3. ASSUME NEW outcome \in Outcomes, Close(outcome), held' = held PROVE SituationInv'
    BY <2>3 DEF Close, MemoryInv, Outcomes
  <2>4. CASE Hold \/ Consolidate
    BY <2>4 DEF Hold, Consolidate, MemoryInv
  <2> QED BY <2>1, <2>2, <2>3, <2>4 DEF Situate
<1>5. ArchivedAfterClosing'
  <2> USE DEF MemoryInv, ArchivedAfterClosing, Ids
  <2>1. CASE Begin BY <1>1, <2>1 DEF Begin, Build
  <2>2. CASE Situate
    <3>1. ALLOWED_TRANSITIONS["closed"] = {}
      BY DEF ALLOWED_TRANSITIONS
    <3>2. ASSUME NEW to, NEW contexts, Transition(to, contexts) PROVE phase # "closed"
      BY <3>1, <3>2 DEF Transition
    <3>3. ASSUME NEW outcome \in Outcomes, Close(outcome) PROVE phase' = "closed" /\ state' \in Outcomes
      BY <3>3 DEF Close
    <3> QED BY <1>1, <2>2, <3>2, <3>3 DEF Situate
  <2>3. CASE Hold \/ Consolidate BY <1>1, <2>3 DEF Hold, Consolidate
  <2> QED BY <2>1, <2>2, <2>3
<1>6. DeletionAfterConsolidation'
  BY <1>1 DEF Begin, Situate, Hold, Consolidate, MemoryInv, DeletionAfterConsolidation, Ids
<1> QED BY <1>2, <1>3, <1>4, <1>5, <1>6 DEF MemoryInv

\* The invariant is inductive.
LEMMA NextInv == MemoryInv /\ [Next]_vars => MemoryInv'
<1> SUFFICES ASSUME MemoryInv, [Next]_vars PROVE MemoryInv'
  OBVIOUS
<1>1. CASE Next
  BY <1>1, SignalStep, ReactivateStep, ProtectStep, ReleaseStep, SituationStep DEF Next
<1>2. CASE UNCHANGED vars
  BY <1>2 DEF vars, fieldVars, situationVars, MemoryInv, FieldInv, FieldTypeOK, PinnedKeepsTrace,
     OneDominant, Bridged, SituationInv, ResolvedThroughEveryPhase, TypeOK, ArchivedAfterClosing,
     DeletionAfterConsolidation, Ids
<1> QED BY <1>1, <1>2

\* The invariant holds in every reachable state.
LEMMA Invariance == Spec => []MemoryInv
BY InitInv, NextInv, PTL DEF Spec

-----------------------------------------------------------------------------
(* Theorems                                                                *)

\* Scores stay in thousandths, and every state has its shape.
THEOREM TypeCorrect == Spec => []TypeOK
BY Invariance, PTL DEF MemoryInv

\* A pinned frame keeps its minimum activation and a reason, whatever signals,
\* compactions and releases surround it.
THEOREM Traces == Spec => []PinnedKeepsTrace
<1>1. MemoryInv => PinnedKeepsTrace
  BY DEF MemoryInv, FieldInv
<1> QED BY <1>1, Invariance, PTL

\* At most one frame is dominant, and retention has not put it aside.
THEOREM Dominance == Spec => []OneDominant
<1>1. MemoryInv => OneDominant
  BY DEF MemoryInv, FieldInv
<1> QED BY <1>1, Invariance, PTL

\* A resolved situation has been through every phase.
THEOREM Resolution == Spec => []ResolvedThroughEveryPhase
<1>1. MemoryInv => ResolvedThroughEveryPhase
  BY DEF MemoryInv, SituationInv
<1> QED BY <1>1, Invariance, PTL

\* The gate is the only way to the archive, and the unpinning of archived
\* frames the only way out: a frame is archived after its situation has closed
\* with an outcome, and is up for deletion after it has been consolidated.
THEOREM Archiving == Spec => [](ArchivedAfterClosing /\ DeletionAfterConsolidation)
<1>1. MemoryInv => ArchivedAfterClosing /\ DeletionAfterConsolidation
  BY DEF MemoryInv
<1> QED BY <1>1, Invariance, PTL

\* Whatever pins, compactions and releases have woken or put aside, the next
\* signal leaves no more unpinned frames awake than the budget allows.
THEOREM BudgetKept == Spec => SignalsKeepBudget
<1>1. MemoryInv /\ [Next]_vars =>
        [MaxNonDormantFrames < Cardinality({i \in DOMAIN frames' :
               /\ frames'[i].activation >= DEFAULT_POLICY.dormantThreshold
               /\ frames'[i].retentionState # "pinned"})
         => ~Signal /\ ~Reactivate]_vars
  <2> SUFFICES ASSUME MemoryInv, Signal \/ Reactivate
               PROVE  ~(MaxNonDormantFrames < Cardinality(Awake(frames')))
    BY Zenon DEF Awake
  <2>1. Cardinality(Awake(frames')) \in 0 .. MaxNonDormantFrames
    BY SignalStep, ReactivateStep DEF Budget
  <2>2. MaxNonDormantFrames \in Nat
    BY FieldConstants
  <2> QED BY <2>1, <2>2
<1> QED BY <1>1, Invariance, PTL DEF Spec, SignalsKeepBudget

\* One step of the recursion that reconstructs the paths, and the recursion.
Further(S) == S \cup {t[2] : t \in {u \in transitions : u[1] \in S}}
Steps(f, n) == [k \in 0 .. n |-> IF k = 0 THEN {1} ELSE Further(f[k - 1])]

\* The recursion has a solution: what a path of at most k transitions leads to.
LEMMA ReachedSteps ==
    ASSUME NEW n \in Nat, transitions \subseteq (DOMAIN frames) \X (DOMAIN frames)
    PROVE  \E f : f = Steps(f, n)
<1> DEFINE D == DOMAIN frames \cup {1}
           paths(k) == {p \in [0 .. k -> D] :
                          /\ p[0] = 1
                          /\ \A m \in 1 .. k : p[m] = p[m - 1] \/ <<p[m - 1], p[m]>> \in transitions}
           ends == [k \in 0 .. n |-> {p[k] : p \in paths(k)}]
<1>1. ends[0] = {1}
  <2>1. [m \in 0 .. 0 |-> 1] \in paths(0)
    OBVIOUS
  <2> QED BY <2>1
<1>2. ASSUME NEW k \in 1 .. n
      PROVE  ends[k] = Further(ends[k - 1])
  <2>1. k - 1 \in 0 .. n /\ k \in 0 .. n /\ k \in Nat /\ k - 1 \in Nat
    OBVIOUS
  <2>2. ends[k] = {p[k] : p \in paths(k)} /\ ends[k - 1] = {p[k - 1] : p \in paths(k - 1)}
    BY <2>1
  <2>3. ASSUME NEW p \in paths(k)
        PROVE  p[k] \in Further(ends[k - 1])
    <3> DEFINE q == [m \in 0 .. (k - 1) |-> p[m]]
    <3>1. q \in paths(k - 1) /\ q[k - 1] = p[k - 1]
      BY <2>1
    <3>2. p[k - 1] \in ends[k - 1]
      BY <2>2, <3>1
    <3>3. p[k] = p[k - 1] \/ <<p[k - 1], p[k]>> \in transitions
      BY <2>1
    <3> HIDE DEF ends, paths
    <3>4. CASE <<p[k - 1], p[k]>> \in transitions
      <4> DEFINE t == <<p[k - 1], p[k]>>
      <4>1. t \in transitions /\ t[1] \in ends[k - 1] /\ t[2] = p[k]
        BY <3>2, <3>4
      <4> HIDE DEF t
      <4> QED BY <4>1 DEF Further
    <3> QED BY <3>2, <3>3, <3>4 DEF Further
  <2>4. ASSUME NEW q \in paths(k - 1), NEW j \in D,
               j = q[k - 1] \/ <<q[k - 1], j>> \in transitions
        PROVE  j \in ends[k]
    <3> DEFINE p == [m \in 0 .. k |-> IF m = k THEN j ELSE q[m]]
    <3>1. p \in [0 .. k -> D] /\ p[k] = j /\ p[k - 1] = q[k - 1] /\ p[0] = 1
      BY <2>1, <2>4
    <3>2. ASSUME NEW m \in 1 .. k PROVE p[m] = p[m - 1] \/ <<p[m - 1], p[m]>> \in transitions
      <4>1. CASE m = k
        BY <2>4, <3>1, <4>1
      <4>2. CASE m # k
        <5>1. m \in 1 .. (k - 1) /\ m \in 0 .. k /\ m - 1 \in 0 .. k /\ m - 1 # k
          BY <2>1, <4>2
        <5>2. p[m] = q[m] /\ p[m - 1] = q[m - 1]
          BY <4>2, <5>1
        <5> QED BY <2>4, <5>1, <5>2
      <4> QED BY <4>1, <4>2
    <3> HIDE DEF p
    <3>3. p \in paths(k)
      BY <3>1, <3>2
    <3> QED BY <2>2, <3>1, <3>3
  <2>5. \A q \in paths(k - 1) : q[k - 1] \in D
    BY <2>1
  <2> HIDE DEF ends, paths
  <2>6. ends[k - 1] \subseteq ends[k]
    BY <2>2, <2>4, <2>5
  <2>7. ASSUME NEW u \in transitions, u[1] \in ends[k - 1] PROVE u[2] \in ends[k]
    <3>1. u = <<u[1], u[2]>> /\ u[2] \in D
      OBVIOUS
    <3>2. PICK q \in paths(k - 1) : u[1] = q[k - 1]
      BY <2>2, <2>7
    <3> QED BY <2>4, <3>1, <3>2
  <2> QED BY <2>2, <2>3, <2>6, <2>7 DEF Further
<1> HIDE DEF paths
<1>3. \A k \in 0 .. n : ends[k] = IF k = 0 THEN {1} ELSE Further(ends[k - 1])
  <2> HIDE DEF ends
  <2> TAKE k \in 0 .. n
  <2>1. CASE k = 0
    BY <1>1, <2>1
  <2>2. CASE k # 0
    <3>1. k \in 1 .. n
      BY <2>2
    <3> QED BY <1>2, <2>2, <3>1
  <2> QED BY <2>1, <2>2
<1>4. ends = [k \in 0 .. n |-> ends[k]]
  OBVIOUS
<1> HIDE DEF ends
<1>5. ends = Steps(ends, n)
  BY <1>3, <1>4 DEF Steps
<1> QED BY <1>5, Zenon

\* No context is cut off: by the bridges between them every frame is reached
\* from the first, for the bridge to a new frame comes from an older one, which
\* no later operation takes away.
THEOREM Reachable == Spec => []EveryContextReachable
<1>1. MemoryInv => EveryContextReachable
  <2> SUFFICES ASSUME MemoryInv, NEW bad \in DOMAIN frames, bad \notin Reached \cup {1}
               PROVE  FALSE
    BY DEF EveryContextReachable
  <2> DEFINE n == Len(frames)
             r == CHOOSE f : f = Steps(f, n)
  <2>1. n \in Nat /\ DOMAIN frames = 1 .. n /\ Bridged
        /\ transitions \subseteq (DOMAIN frames) \X (DOMAIN frames)
    BY FieldFunction DEF MemoryInv, FieldInv, FieldTypeOK
  <2>2. Reached = r[n]
    BY Zenon DEF Reached, Steps, Further
  <2> HIDE DEF n
  <2>3. r = Steps(r, n)
    <3>1. \E f : f = Steps(f, n)
      BY <2>1, ReachedSteps
    <3> QED BY <3>1, Zenon
  <2> HIDE DEF r
  <2>4. r[0] = {1} /\ \A k \in 1 .. n : r[k] = Further(r[k - 1])
    <3>1. \A q : q = Steps(r, n) => q[0] = {1} /\ \A k \in 1 .. n : q[k] = Further(r[k - 1])
      BY <2>1 DEF Steps
    <3> QED BY <2>3, <3>1, Zenon
  <2> DEFINE late == {k \in 1 .. n : \E j \in 1 .. k : j \notin r[k]}
  <2>5. n \in late
    BY <2>1, <2>2
  <2>6. PICK k \in late : \A m \in late : k <= m
    <3>1. late \in SUBSET Nat
      OBVIOUS
    <3> HIDE DEF late
    <3> QED BY <2>5, <3>1, Smallest
  <2>7. PICK j \in 1 .. k : j \notin r[k]
    BY <2>6
  <2>8. ASSUME NEW i \in 1 .. (k - 1) PROVE i \in r[k - 1]
    <3>1. k - 1 \in 1 .. n /\ k - 1 \notin late
      BY <2>1, <2>6, <2>8
    <3> QED BY <2>8, <3>1
  <2>9. 1 \in r[k]
    <3>1. 1 \in r[k - 1]
      <4>1. CASE k = 1 BY <2>4, <4>1
      <4>2. CASE k # 1 BY <2>6, <2>8, <4>2
      <4> QED BY <4>1, <4>2
    <3> QED BY <2>4, <3>1 DEF Further
  <2>10. j # 1 /\ j \in DOMAIN frames
    BY <2>1, <2>7, <2>9
  <2>11. PICK i \in DOMAIN frames : i < j /\ <<i, j>> \in transitions
    BY <2>1, <2>10 DEF Bridged
  <2>12. i \in r[k - 1]
    BY <2>1, <2>7, <2>8, <2>11
  <2> QED BY <2>4, <2>7, <2>11, <2>12 DEF Further
<1> QED BY <1>1, Invariance, PTL
=============================================================================
