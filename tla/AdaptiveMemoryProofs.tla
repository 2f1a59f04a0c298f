------------------------- MODULE AdaptiveMemoryProofs -------------------------
(***************************************************************************)
(* Proofs about AdaptiveMemory for any cycles and outcomes a host may      *)
(* report, any models, habits and conditions, and any number of calls.     *)
(***************************************************************************)
EXTENDS AdaptiveMemory, EvidenceProofs, TLAPS

-----------------------------------------------------------------------------
(* Numbers                                                                 *)

Plus(f, unused, sum, i) == f[i] + sum
Summation == INSTANCE EvidenceProofs WITH Op <- Plus

\* A sum of numbers is a number.
LEMMA TotalIsNumber ==
    ASSUME NEW f, IsFiniteSet(DOMAIN f), \A i \in DOMAIN f : f[i] \in Int
    PROVE  Total(f) \in Int
<1> DEFINE S == DOMAIN f
<1>1. Total(f) = Summation!FoldedSet(f, {}, 0, S)
  BY Zenon DEF Total, FoldFunction, FoldFunctionOnSet, MapThenFoldSet, Summation!FoldedSet,
               Summation!MapThenFoldSet, Plus
<1>2. Summation!IsFiniteSet(S)
  BY Zenon DEF IsFiniteSet, Summation!IsFiniteSet
<1>3. \A r \in Int, i \in S : Plus(f, {}, r, i) \in Int
  BY DEF Plus
<1> HIDE DEF S
<1>4. Summation!FoldedSet(f, {}, 0, S) \in Int
  <2>1. 0 \in Int
    OBVIOUS
  <2> QED BY <1>2, <1>3, <2>1, Summation!SetFoldIn, Zenon
<1> QED BY <1>1, <1>4

\* The greater and the smaller of two numbers, a clamped one and a product are numbers.
LEMMA NumbersKept ==
    \A m, n \in Int : Higher(m, n) \in Int /\ Lower(m, n) \in Int
BY DEF Higher, Lower

LEMMA ClampIsNumber == \A n \in Int : Clamp(n) \in Int /\ Clamp(n) \in Nat
BY DEF Clamp

LEMMA ScaleIsNumber == \A m, n \in Int : Scale(m, n) \in Int
BY DEF Scale

\* The better of two numbers with a part of the other is a number.
LEMMA BestIsNumber ==
    ASSUME NEW m \in Int, NEW n \in Int, NEW part \in Int
    PROVE  Clamp(Higher(m, n) + Scale(part, Lower(m, n))) \in Nat
<1>1. Higher(m, n) \in Int /\ Lower(m, n) \in Int
  BY NumbersKept
<1>2. Scale(part, Lower(m, n)) \in Int
  BY <1>1, ScaleIsNumber, Zenon
<1>3. Higher(m, n) + Scale(part, Lower(m, n)) \in Int
  BY <1>1, <1>2
<1> QED BY <1>3, ClampIsNumber, Zenon

\* The pressure of finitely many pieces of evidence is a number.
Remaining(pieces, unused, rest, key) == Scale(rest, 1000 - Clamp(StrongestOf(pieces, key)))
Weighing == INSTANCE EvidenceProofs WITH Op <- Remaining

LEMMA PressureIsNumber ==
    ASSUME NEW pieces, IsFiniteSet(pieces), \A e \in pieces : e.weight \in Int
    PROVE  Pressure(pieces) \in Int
<1> DEFINE keys == Keys(pieces)
<1>1. Pressure(pieces) = 1000 - Weighing!FoldedSet(pieces, {}, 1000, keys)
  BY Zenon DEF Pressure, FoldSet, MapThenFoldSet, Weighing!FoldedSet, Weighing!MapThenFoldSet,
               Remaining
<1>2. Weighing!IsFiniteSet(keys)
  <2> DEFINE keyOf == [e \in pieces |-> e.key]
  <2>1. keys = {keyOf[e] : e \in DOMAIN keyOf} /\ DOMAIN keyOf = pieces
    BY DEF Keys
  <2> HIDE DEF keyOf, keys
  <2>2. IsFiniteSet(keys)
    BY <2>1, ImageIsFinite
  <2> QED BY <2>2, Zenon DEF IsFiniteSet, Weighing!IsFiniteSet
<1>3. ASSUME NEW rest \in Int, NEW key \in keys PROVE Remaining(pieces, {}, rest, key) \in Int
  <2> DEFINE those == {d \in pieces : d.key = key}
             weightOf == [e \in those |-> e.weight]
             weights == {weightOf[e] : e \in DOMAIN weightOf}
  <2>1. those \subseteq pieces /\ those # {}
    BY DEF Keys
  <2>2. IsFiniteSet(those)
    BY <2>1, FS_Subset
  <2>3. DOMAIN weightOf = those /\ \A e \in those : weightOf[e] = e.weight
    OBVIOUS
  <2>4. {e.weight : e \in those} = weights
    BY <2>3
  <2> HIDE DEF those, weightOf
  <2>5. weights \in SUBSET Int /\ weights # {}
    BY <2>1, <2>3
  <2>6. IsFiniteSet(weights)
    BY <2>2, <2>3, ImageIsFinite
  <2> HIDE DEF weights
  <2>7. Max(weights) \in Int
    BY <2>5, <2>6, GreatestOf
  <2>8. StrongestOf(pieces, key) = Max(weights)
    BY <2>4, Zenon DEF StrongestOf, those
  <2>9. Clamp(StrongestOf(pieces, key)) \in Int
    BY <2>7, <2>8, ClampIsNumber, Zenon
  <2>10. 1000 - Clamp(StrongestOf(pieces, key)) \in Int
    BY <2>9
  <2>11. Scale(rest, 1000 - Clamp(StrongestOf(pieces, key))) \in Int
    BY <2>10 DEF Scale
  <2> QED BY <2>11 DEF Remaining
<1> HIDE DEF keys
<1> DEFINE base == 1000
<1>4. Weighing!FoldedSet(pieces, {}, base, keys) \in Int
  <2>1. base \in Int
    OBVIOUS
  <2> HIDE DEF base
  <2>2. \A r \in Int, x \in keys : Remaining(pieces, {}, r, x) \in Int
    BY <1>3
  <2> QED BY <1>2, <2>1, <2>2, Weighing!SetFoldIn, Zenon
<1> QED BY <1>1, <1>4

-----------------------------------------------------------------------------
(* The focuses of the attention field                                      *)

FocusFields == {"id", "role", "type", "target", "contexts", "truths", "pinned", "weight",
                "score", "status", "support", "challenge", "stale"}

IsFocus(f) ==
    /\ FocusFields \subseteq DOMAIN f /\ f.weight \in Nat /\ f.score \in Int
    /\ IsFiniteSet(f.contexts) /\ IsFiniteSet(f.truths)

IsField(fs) == (\E S : fs \in Seq(S)) /\ \A i \in DOMAIN fs : IsFocus(fs[i])

\* A candidate becomes a focus.
LEMMA CreatedIsFocus ==
    ASSUME NEW c, \A n \in DOMAIN CandidateWeights : c.signals[n] \in Int,
           IsFiniteSet(c.contexts), IsFiniteSet(c.truths)
    PROVE  IsFocus(createFocus(c)) /\ createFocus(c).status # "released"
<1> DEFINE products == [n \in DOMAIN CandidateWeights |-> CandidateWeights[n] * c.signals[n]]
<1>1. \A n \in DOMAIN CandidateWeights : CandidateWeights[n] \in Int
  BY DEF CandidateWeights
<1>2. IsFiniteSet(DOMAIN CandidateWeights)
  <2> DEFINE one == (({} \cup {"goalDependency"}) \cup {"constraintImportance"}) \cup {"uncertainty"}
             two == ((one \cup {"novelty"}) \cup {"risk"}) \cup {"expectedInformationGain"}
             three == ((two \cup {"predictiveValue"}) \cup {"persistence"}) \cup {"urgency"}
  <2>1. DOMAIN CandidateWeights = three
    BY DEF CandidateWeights
  <2>2. \A S, x, y, z : IsFiniteSet(S) => IsFiniteSet(((S \cup {x}) \cup {y}) \cup {z})
    BY FS_AddElement
  <2>3. IsFiniteSet(one)
    BY <2>2, FS_EmptySet
  <2> HIDE DEF one
  <2>4. IsFiniteSet(two)
    BY <2>2, <2>3
  <2> HIDE DEF two
  <2>5. IsFiniteSet(three)
    BY <2>2, <2>4
  <2> QED BY <2>1, <2>5
<1>3. Total(products) \in Int
  <2>1. DOMAIN products = DOMAIN CandidateWeights
    OBVIOUS
  <2>2. \A n \in DOMAIN products : products[n] \in Int
    BY <1>1
  <2> HIDE DEF products
  <2> QED BY <1>2, <2>1, <2>2, TotalIsNumber
<1>4. candidateScore(c) = Clamp(Total(products) \div 100)
  BY DEF candidateScore
<1> HIDE DEF products
<1>5. candidateScore(c) \in Nat
  <2>1. Total(products) \div 100 \in Int
    BY <1>3
  <2>2. candidateScore(c) \in Nat
    BY <1>4, <2>1, ClampIsNumber, Zenon
  <2> QED BY <2>2
<1> QED BY <1>5 DEF createFocus, IsFocus, FocusFields

\* Two focuses merge into one, which says what the stronger says.
LEMMA MergedIsFocus ==
    ASSUME NEW f, NEW g, IsFocus(f), IsFocus(g)
    PROVE  /\ IsFocus(mergeFocus(f, g))
           /\ mergeFocus(f, g).status \in {f.status, g.status}
           /\ mergeFocus(f, g).role \in {f.role, g.role}
           /\ mergeFocus(f, g).target \in {f.target, g.target}
<1> DEFINE weight == Clamp(Higher(f.weight, g.weight) + Scale(150, Lower(f.weight, g.weight)))
           score == Clamp(Higher(f.score, g.score) + Scale(100, Lower(f.score, g.score)))
           stronger == IF f.score >= g.score THEN f ELSE g
<1>1. weight \in Nat /\ score \in Int
  <2>1. /\ f.weight \in Int /\ g.weight \in Int /\ f.score \in Int /\ g.score \in Int
        /\ 150 \in Int /\ 100 \in Int
    BY DEF IsFocus
  <2>2. weight \in Nat /\ score \in Nat
    BY <2>1, BestIsNumber, Zenon
  <2> HIDE DEF weight, score
  <2> QED BY <2>2
<1>1a. IsFiniteSet(f.contexts \cup g.contexts) /\ IsFiniteSet(f.truths \cup g.truths)
  <2>1. /\ IsFiniteSet(f.contexts) /\ IsFiniteSet(g.contexts)
        /\ IsFiniteSet(f.truths) /\ IsFiniteSet(g.truths)
    BY Zenon DEF IsFocus
  <2>2. IsFiniteSet(f.contexts \cup g.contexts)
    BY <2>1, FS_Union
  <2>3. IsFiniteSet(f.truths \cup g.truths)
    BY <2>1, FS_Union
  <2> QED BY <2>2, <2>3
<1>2. IsFocus(stronger) /\ stronger \in {f, g}
  OBVIOUS
<1>3. mergeFocus(f, g) =
        [stronger EXCEPT
            !.contexts = f.contexts \cup g.contexts, !.truths = f.truths \cup g.truths,
            !.support = f.support \cup g.support, !.challenge = f.challenge \cup g.challenge,
            !.weight = weight, !.score = score]
  BY DEF mergeFocus
<1> HIDE DEF weight, score, stronger
<1> QED BY <1>1, <1>1a, <1>2, <1>3 DEF IsFocus, FocusFields

\* A focus that is admitted joins the field or a focus of it.
LEMMA AdmitKeeps ==
    ASSUME NEW fs, IsField(fs), NEW g, IsFocus(g)
    PROVE  IsField(Admit(fs, g))
<1> DEFINE twins == {i \in DOMAIN fs :
                       /\ fs[i].status # "released"
                       /\ attentionSimilarity(fs[i], g) >= ATTENTION_POLICY.redundancyThreshold}
           merged == mergeFocus(fs[Min(twins)], g)
<1>1. PICK S : fs \in Seq(S)
  BY DEF IsField
<1>2. \A i \in DOMAIN fs : IsFocus(fs[i])
  BY DEF IsField
<1>3. Admit(fs, g) = IF twins = {} THEN Append(fs, g)
                     ELSE [fs EXCEPT ![Min(twins)] = mergeFocus(@, g)]
  BY DEF Admit
<1>4. CASE twins = {}
  <2>1. fs \in Seq(S \cup {g}) /\ Append(fs, g) \in Seq(S \cup {g})
    BY <1>1
  <2>2. \A i \in DOMAIN Append(fs, g) :
            Append(fs, g)[i] = g \/ (i \in DOMAIN fs /\ Append(fs, g)[i] = fs[i])
    BY <1>1
  <2> QED BY <1>2, <1>3, <1>4, <2>1, <2>2 DEF IsField
<1>5. CASE twins # {}
  <2>1. twins \subseteq DOMAIN fs /\ twins \in SUBSET Nat
    BY <1>1
  <2> HIDE DEF twins
  <2>2. Min(twins) \in DOMAIN fs
    BY <1>5, <2>1, LeastOf
  <2>3. IsFocus(merged)
    BY <1>2, <2>2, MergedIsFocus
  <2> DEFINE result == [fs EXCEPT ![Min(twins)] = merged]
  <2>4. Admit(fs, g) = result
    BY <1>3, <1>5
  <2> HIDE DEF merged
  <2>5. result \in Seq(S \cup {merged})
    BY <1>1, <2>2
  <2>6. \A i \in DOMAIN result : result[i] = merged \/ (i \in DOMAIN fs /\ result[i] = fs[i])
    BY <1>1
  <2> HIDE DEF result
  <2> QED BY <1>2, <2>3, <2>4, <2>5, <2>6 DEF IsField
<1> QED BY <1>4, <1>5

Joined(unused, neither, fs, g) == Admit(fs, g)
Joining == INSTANCE EvidenceProofs WITH Op <- Joined

\* So do any number of focuses that are admitted one after the other.
LEMMA AdmitAllKeeps ==
    ASSUME NEW fs, IsField(fs), NEW n \in Nat, NEW s, DOMAIN s = 1..n,
           \A i \in 1..n : IsFocus(s[i])
    PROVE  IsField(FoldLeft(Admit, fs, s))
<1>1. FoldLeft(Admit, fs, s) = Joining!FoldedSequence({}, {}, fs, s)
  BY Zenon DEF FoldLeft, MapThenFoldSet, Max, Joining!FoldedSequence, Joining!FoldLeft,
               Joining!MapThenFoldSet, Joining!Max, Joined
<1>2. PICK run : /\ Joining!LeftToRight(run, {}, {}, fs, s, n)
                 /\ Joining!FoldedSequence({}, {}, fs, s) = run[n]
  BY Joining!SequenceRun
<1>2a. run[0] = fs /\ \A k \in 1..n : run[k] = Admit(run[k - 1], s[k])
  BY <1>2, Zenon DEF Joining!LeftToRight, Joined
<1> DEFINE A == {k \in Nat : k <= n => IsField(run[k])}
<1>3. 0 \in A
  BY <1>2a
<1>4. ASSUME NEW k \in Nat, k \in A PROVE k + 1 \in A
  <2> SUFFICES ASSUME k + 1 <= n PROVE IsField(run[k + 1])
    OBVIOUS
  <2>1. k + 1 \in 1..n /\ (k + 1) - 1 = k /\ IsField(run[k])
    BY <1>4
  <2>2. run[k + 1] = Admit(run[k], s[k + 1])
    BY <1>2a, <2>1
  <2> QED BY <2>1, <2>2, AdmitKeeps
<1> HIDE DEF A
<1>5. Nat \subseteq A
  BY <1>3, <1>4, NaturalInduction
<1> QED BY <1>1, <1>2, <1>5 DEF A

\* The focuses of candidates are a sequence, and none is released.
LEMMA CreatedAreFocuses ==
    ASSUME NEW candidates, AreCandidates(candidates)
    PROVE  /\ Len(candidates) \in Nat /\ DOMAIN createFocuses(candidates) = 1..Len(candidates)
           /\ \A i \in 1..Len(candidates) :
                 /\ IsFocus(createFocuses(candidates)[i])
                 /\ createFocuses(candidates)[i].status # "released"
<1>1. Len(candidates) \in Nat /\ DOMAIN candidates = 1..Len(candidates)
  BY DEF AreCandidates
<1>2. /\ DOMAIN createFocuses(candidates) = 1..Len(candidates)
      /\ \A i \in 1..Len(candidates) :
            createFocuses(candidates)[i] = createFocus(candidates[i])
  BY <1>1 DEF createFocuses
<1>3. \A i \in 1..Len(candidates) :
          IsFocus(createFocus(candidates[i])) /\ createFocus(candidates[i]).status # "released"
  BY <1>1, CreatedIsFocus DEF AreCandidates
<1> QED BY <1>1, <1>2, <1>3

\* So are they in the order of their scores.
LEMMA CreatedInOrder ==
    ASSUME NEW candidates, AreCandidates(candidates)
    PROVE  LET ordered == ByScore(createFocuses(candidates)) IN
           DOMAIN ordered = 1..Len(candidates) /\ \A i \in 1..Len(candidates) : IsFocus(ordered[i])
<1> DEFINE raw == createFocuses(candidates)
           n == Len(candidates)
<1>1. n \in Nat /\ DOMAIN raw = 1..n /\ \A i \in 1..n : IsFocus(raw[i])
  BY CreatedAreFocuses
<1> HIDE DEF raw, n
<1>2. \A i \in 1..n : raw[i].score \in Int
  BY <1>1 DEF IsFocus
<1>3. /\ DOMAIN ByScore(raw) = 1..n
      /\ \A k \in 1..n : \E i \in 1..n : ByScore(raw)[k] = raw[i]
  BY <1>1, <1>2, InScoreOrder
<1>4. \A k \in 1..n : IsFocus(ByScore(raw)[k])
  BY <1>1, <1>3
<1> QED BY <1>3, <1>4 DEF raw, n

IsFeedback(feedback) ==
    \A f \in feedback : /\ f.effect \in {"reinforce", "challenge", "resolve", "reactivate"}
                        /\ f.magnitude \in Int

\* Feedback moves a focus and leaves it one.
LEMMA FedIsFocus ==
    ASSUME NEW focus, IsFocus(focus), NEW feedback, IsFeedback(feedback)
    PROVE  IsFocus(applyFeedback(focus, feedback))
<1> DEFINE given == {f \in feedback : f.focus = focus.id}
           f == CHOOSE g \in given : TRUE
           moved(score, weight) ==
               [focus EXCEPT !.score = Clamp(@ + score), !.weight = Clamp(@ + weight)]
           reinforced == moved(Scale(200, f.magnitude), Scale(160, f.magnitude))
           challenged == moved(-Scale(250, f.magnitude), -Scale(200, f.magnitude))
           resolved == moved(-Scale(400, f.magnitude), -Scale(350, f.magnitude))
           reactivated == moved(Scale(240, f.magnitude), Scale(220, f.magnitude))
<1>1. CASE given = {}
  BY <1>1 DEF applyFeedback
<1>2. CASE given # {}
  <2>1. /\ f.effect \in {"reinforce", "challenge", "resolve", "reactivate"}
        /\ f.magnitude \in Int
    BY <1>2 DEF IsFeedback
  <2>2. applyFeedback(focus, feedback) =
          CASE f.effect = "reinforce" -> [reinforced EXCEPT !.support = @ \cup {f.key}]
            [] f.effect = "challenge" -> [challenged EXCEPT !.challenge = @ \cup {f.key}]
            [] f.effect = "resolve" -> resolved
            [] f.effect = "reactivate" -> [reactivated EXCEPT !.status = "active", !.stale = 0]
    BY <1>2, Zenon DEF applyFeedback
  <2> HIDE DEF f, given
  <2>3. ASSUME NEW score \in Int, NEW weight \in Int PROVE IsFocus(moved(score, weight))
    <3>1. focus.score + score \in Int /\ focus.weight + weight \in Int
      BY DEF IsFocus
    <3>2. Clamp(focus.score + score) \in Int /\ Clamp(focus.weight + weight) \in Nat
      BY <3>1, ClampIsNumber, Zenon
    <3> QED BY <3>2 DEF IsFocus, FocusFields
  <2> HIDE DEF moved
  <2>4. \A part \in Int : Scale(part, f.magnitude) \in Int /\ -Scale(part, f.magnitude) \in Int
    <3>1. \A part \in Int : Scale(part, f.magnitude) \in Int
      BY <2>1, ScaleIsNumber, Zenon
    <3> QED BY <3>1
  <2>5. IsFocus(reinforced) /\ IsFocus(challenged) /\ IsFocus(resolved) /\ IsFocus(reactivated)
    <3>1. /\ Scale(200, f.magnitude) \in Int /\ Scale(160, f.magnitude) \in Int
          /\ -Scale(250, f.magnitude) \in Int /\ -Scale(200, f.magnitude) \in Int
          /\ -Scale(400, f.magnitude) \in Int /\ -Scale(350, f.magnitude) \in Int
          /\ Scale(240, f.magnitude) \in Int /\ Scale(220, f.magnitude) \in Int
      BY <2>4
    <3>2. \A score, weight \in Int : IsFocus(moved(score, weight))
      BY <2>3, Zenon
    <3>3. IsFocus(reinforced)
      BY <3>1, <3>2, Zenon
    <3>4. IsFocus(challenged)
      BY <3>1, <3>2, Zenon
    <3>5. IsFocus(resolved)
      BY <3>1, <3>2, Zenon
    <3>6. IsFocus(reactivated)
      BY <3>1, <3>2, Zenon
    <3> QED BY <3>3, <3>4, <3>5, <3>6
  <2> HIDE DEF reinforced, challenged, resolved, reactivated
  <2>6. /\ IsFocus([reinforced EXCEPT !.support = @ \cup {f.key}])
        /\ IsFocus([challenged EXCEPT !.challenge = @ \cup {f.key}])
        /\ IsFocus([reactivated EXCEPT !.status = "active", !.stale = 0])
    BY <2>5 DEF IsFocus, FocusFields
  <2> QED BY <2>1, <2>2, <2>5, <2>6
<1> QED BY <1>1, <1>2

\* Ageing leaves a focus one.
LEMMA AgedIsFocus ==
    ASSUME NEW focus, IsFocus(focus), NEW active, NEW delta \in Int,
           NEW feedback, IsFeedback(feedback)
    PROVE  IsFocus(Aged(focus, active, delta, feedback))
<1> DEFINE moved == applyFeedback(focus, feedback)
           anchored == moved.contexts = {} \/ moved.contexts \cap active # {}
           stale == IF anchored THEN 0 ELSE moved.stale + delta
           decay == IF anchored \/ moved.status = "pinned" THEN 0
                    ELSE ATTENTION_POLICY.decayPerContextRevision * delta
           weight == Clamp(moved.weight - decay)
           status == IF /\ moved.status # "pinned"
                        /\ \/ weight < ATTENTION_POLICY.minimumWeight
                           \/ stale > ATTENTION_POLICY.maxStaleContextRevisions
                     THEN "released" ELSE moved.status
           score == Clamp(moved.score - (decay * 3) \div 4)
<1>1. Aged(focus, active, delta, feedback) =
        [moved EXCEPT !.stale = stale, !.weight = weight, !.score = score, !.status = status]
  BY DEF Aged
<1>2. IsFocus(moved)
  BY FedIsFocus
<1> HIDE DEF moved
<1>3. weight \in Nat /\ score \in Int
  <2>1. decay \in Int
    BY DEF ATTENTION_POLICY
  <2> HIDE DEF decay
  <2>2. moved.weight - decay \in Int /\ moved.score - (decay * 3) \div 4 \in Int
    BY <1>2, <2>1 DEF IsFocus
  <2> QED BY <2>2, ClampIsNumber, Zenon
<1> HIDE DEF anchored, stale, decay, weight, status, score
<1> QED BY <1>1, <1>2, <1>3 DEF IsFocus, FocusFields

\* What enters the ranking is a field, when the field is advanced.
LEMMA AdvancedIsField ==
    ASSUME NEW fs, IsField(fs), NEW active, NEW delta \in Int,
           NEW candidates, AreCandidates(candidates), NEW feedback, IsFeedback(feedback)
    PROVE  IsField(Advanced(fs, active, delta, candidates, feedback))
<1> DEFINE aged == [i \in DOMAIN fs |-> Aged(fs[i], active, Higher(1, delta), feedback)]
<1>1. Higher(1, delta) \in Int
  BY NumbersKept
<1>2. \A i \in DOMAIN fs : aged[i] = Aged(fs[i], active, Higher(1, delta), feedback)
                           /\ IsFocus(aged[i])
  BY <1>1, AgedIsFocus DEF IsField
<1>3. PICK S : fs \in Seq(S)
  BY DEF IsField
<1>4. aged \in Seq({aged[i] : i \in DOMAIN fs}) /\ DOMAIN aged = DOMAIN fs
  BY <1>3
<1> HIDE DEF aged
<1>5. IsField(aged)
  BY <1>2, <1>4 DEF IsField
<1>6. Advanced(fs, active, delta, candidates, feedback)
        = FoldLeft(Admit, aged, createFocuses(candidates))
  BY DEF Advanced, aged
<1> QED BY <1>5, <1>6, AdmitAllKeeps, CreatedAreFocuses

-----------------------------------------------------------------------------
(* What stands for a candidate                                             *)

\* The similarity of finite sets is at most 1.
LEMMA SimilarityBounded ==
    ASSUME NEW S, IsFiniteSet(S), NEW T, IsFiniteSet(T)
    PROVE  Similarity(S, T) \in Int /\ Similarity(S, T) <= 1000
<1> DEFINE common == Cardinality(S \cap T)
           all == Cardinality(S \cup T)
           part == (1000 * common) \div all
<1>1. CASE S \cup T = {}
  BY <1>1 DEF Similarity
<1>2. CASE S \cup T # {}
  <2>1. IsFiniteSet(S \cup T)
    BY FS_Union
  <2>2. S \cap T \subseteq S \cup T
    OBVIOUS
  <2>3. IsFiniteSet(S \cap T) /\ common <= all
    BY <2>1, <2>2, FS_Subset
  <2>4. all \in Nat /\ common \in Nat
    BY <2>1, <2>3, FS_CardinalityType
  <2>5. all # 0
    BY <1>2, <2>1, FS_EmptySet
  <2>6. Similarity(S, T) = part
    BY <1>2 DEF Similarity
  <2> HIDE DEF common, all
  <2>7. part \in Int /\ part <= 1000
    BY <2>3, <2>4, <2>5
  <2> QED BY <2>6, <2>7
<1> QED BY <1>1, <1>2

\* Two focuses that say the same have a role and a target.
LEMMA TwinsAlike ==
    ASSUME NEW f, IsFocus(f), NEW g, IsFocus(g),
           attentionSimilarity(f, g) >= ATTENTION_POLICY.redundancyThreshold
    PROVE  f.role = g.role /\ f.target = g.target
<1> DEFINE contexts == Similarity(f.contexts, g.contexts)
           truths == Similarity(f.truths, g.truths)
<1>1. /\ contexts \in Int /\ contexts <= 1000 /\ truths \in Int /\ truths <= 1000
  BY SimilarityBounded DEF IsFocus
<1>2. attentionSimilarity(f, g) =
        IF f.role # g.role \/ f.type # g.type THEN 0
        ELSE (IF f.target = g.target THEN 600 ELSE 0) + Scale(200, contexts) + Scale(200, truths)
  BY DEF attentionSimilarity
<1> HIDE DEF contexts, truths
<1>3. /\ Scale(200, contexts) \in Int /\ Scale(200, contexts) <= 200
      /\ Scale(200, truths) \in Int /\ Scale(200, truths) <= 200
  BY <1>1 DEF Scale
<1>4. ATTENTION_POLICY.redundancyThreshold > 400
  BY DEF ATTENTION_POLICY
<1>5. ATTENTION_POLICY.redundancyThreshold \in Int
  BY DEF ATTENTION_POLICY
<1> QED BY <1>2, <1>3, <1>4, <1>5

\* A focus stands for another: of its role and target, and not released.
StandsFor(f, g) == f.role = g.role /\ f.target = g.target /\ f.status # "released"

\* A focus that is admitted has one that stands for it.
LEMMA AdmitFinds ==
    ASSUME NEW fs, IsField(fs), NEW g, IsFocus(g), g.status # "released"
    PROVE  \E i \in DOMAIN Admit(fs, g) : StandsFor(Admit(fs, g)[i], g)
<1> DEFINE twins == {i \in DOMAIN fs :
                       /\ fs[i].status # "released"
                       /\ attentionSimilarity(fs[i], g) >= ATTENTION_POLICY.redundancyThreshold}
           k == Min(twins)
<1>1. PICK S : fs \in Seq(S)
  BY DEF IsField
<1>2. Admit(fs, g) = IF twins = {} THEN Append(fs, g)
                     ELSE [fs EXCEPT ![k] = mergeFocus(@, g)]
  BY DEF Admit
<1>3. CASE twins = {}
  <2>1. fs \in Seq(S \cup {g})
    BY <1>1
  <2>2. Len(fs) + 1 \in DOMAIN Append(fs, g) /\ Append(fs, g)[Len(fs) + 1] = g
    BY <2>1
  <2> QED BY <1>2, <1>3, <2>2 DEF StandsFor
<1>4. CASE twins # {}
  <2>1. twins \in SUBSET Nat
    BY <1>1
  <2>2. k \in twins
    <3> HIDE DEF twins
    <3> QED BY <1>4, <2>1, LeastOf
  <2>3. /\ k \in DOMAIN fs /\ fs[k].status # "released"
        /\ attentionSimilarity(fs[k], g) >= ATTENTION_POLICY.redundancyThreshold
    BY <2>2
  <2> HIDE DEF twins, k
  <2>4. IsFocus(fs[k])
    BY <2>3 DEF IsField
  <2>5. fs[k].role = g.role /\ fs[k].target = g.target
    BY <2>3, <2>4, TwinsAlike
  <2> DEFINE merged == mergeFocus(fs[k], g)
  <2>6. StandsFor(merged, g)
    <3>1. /\ merged.status \in {fs[k].status, g.status} /\ merged.role \in {fs[k].role, g.role}
          /\ merged.target \in {fs[k].target, g.target}
      BY <2>4, MergedIsFocus
    <3> HIDE DEF merged
    <3> QED BY <2>3, <2>5, <3>1 DEF StandsFor
  <2>7. k \in DOMAIN Admit(fs, g) /\ Admit(fs, g)[k] = merged
    BY <1>2, <1>4, <2>3
  <2> QED BY <2>6, <2>7
<1> QED BY <1>3, <1>4

\* So has a candidate that enters a field alone.
LEMMA AdvancedFinds ==
    ASSUME NEW fs, IsField(fs), NEW active, NEW delta \in Int, NEW c, AreCandidates(<<c>>),
           NEW feedback, IsFeedback(feedback)
    PROVE  LET result == Advanced(fs, active, delta, <<c>>, feedback) IN
           \E i \in DOMAIN result : StandsFor(result[i], createFocus(c))
<1> DEFINE aged == [i \in DOMAIN fs |-> Aged(fs[i], active, Higher(1, delta), feedback)]
           created == createFocuses(<<c>>)
           result == Advanced(fs, active, delta, <<c>>, feedback)
<1>1. IsField(aged)
  <2>1. Higher(1, delta) \in Int
    BY NumbersKept
  <2>2. \A i \in DOMAIN fs : i \in DOMAIN aged /\ aged[i] = Aged(fs[i], active, Higher(1, delta), feedback)
                           /\ IsFocus(aged[i])
    BY <2>1, AgedIsFocus DEF IsField
  <2>3. PICK S : fs \in Seq(S)
    BY DEF IsField
  <2>4. aged \in Seq({aged[i] : i \in DOMAIN fs}) /\ DOMAIN aged = DOMAIN fs
    BY <2>3
  <2> HIDE DEF aged
  <2> QED BY <2>2, <2>4 DEF IsField
<1>2. /\ DOMAIN created = 1..1 /\ created[1] = createFocus(c)
      /\ IsFocus(createFocus(c)) /\ createFocus(c).status # "released"
  <2>1. DOMAIN <<c>> = 1..1 /\ <<c>>[1] = c /\ Len(<<c>>) = 1
    OBVIOUS
  <2>2. DOMAIN created = 1..1 /\ created[1] = createFocus(c)
    BY <2>1 DEF createFocuses
  <2>3. IsFocus(created[1]) /\ created[1].status # "released"
    BY <2>1, CreatedAreFocuses
  <2> QED BY <2>2, <2>3
<1>3. result = FoldLeft(Admit, aged, created)
  BY DEF Advanced
<1> HIDE DEF aged, created, result
<1>4. FoldLeft(Admit, aged, created) = Joining!FoldedSequence({}, {}, aged, created)
  BY Zenon DEF FoldLeft, MapThenFoldSet, Max, Joining!FoldedSequence, Joining!FoldLeft,
               Joining!MapThenFoldSet, Joining!Max, Joined
<1> DEFINE n == 1
<1>5. n \in Nat /\ n \in 1..n /\ n - 1 = 0 /\ DOMAIN created = 1..n /\ created[n] = createFocus(c)
  BY <1>2
<1> HIDE DEF n
<1>6. PICK run : /\ Joining!LeftToRight(run, {}, {}, aged, created, n)
                 /\ Joining!FoldedSequence({}, {}, aged, created) = run[n]
  BY <1>5, Joining!SequenceRun
<1>7. run[0] = aged /\ \A k \in 1..n : run[k] = Admit(run[k - 1], created[k])
  BY <1>6, Zenon DEF Joining!LeftToRight, Joined
<1>8. result = Admit(aged, createFocus(c))
  <2>1. run[n] = Admit(run[n - 1], created[n])
    BY <1>5, <1>7, Zenon
  <2> QED BY <1>3, <1>4, <1>5, <1>6, <1>7, <2>1
<1> QED BY <1>1, <1>2, <1>8, AdmitFinds DEF result

-----------------------------------------------------------------------------
(* The roles the active focuses cover                                      *)

\* The focuses that may be active: the pinned ones, then the heaviest.
Sorted(fs) ==
    ByPlace({i \in DOMAIN fs : fs[i].status = "pinned"})
    \o ByWeight(fs, {i \in DOMAIN fs : fs[i].status \notin {"pinned", "released"}})

\* They are the focuses that are not released.
LEMMA SortedHasAll ==
    ASSUME NEW fs, IsField(fs)
    PROVE  /\ Sorted(fs) \in Seq(DOMAIN fs)
           /\ \A n \in DOMAIN Sorted(fs) : fs[Sorted(fs)[n]].status # "released"
           /\ \A i \in DOMAIN fs : fs[i].status # "released" =>
                 \E n \in DOMAIN Sorted(fs) : Sorted(fs)[n] = i
<1> DEFINE pinned == {i \in DOMAIN fs : fs[i].status = "pinned"}
           eligible == {i \in DOMAIN fs : fs[i].status \notin {"pinned", "released"}}
           heavier == {p \in eligible \X eligible : Heavier(fs, p[1], p[2])}
           earlier == {p \in pinned \X pinned : p[1] < p[2]}
           first == InOrder(pinned, earlier)
           second == InOrder(eligible, heavier)
<1>1. PICK size \in Nat : DOMAIN fs = 1..size
  BY DEF IsField
<1>2. /\ pinned \in SUBSET Nat /\ IsFiniteSet(pinned)
      /\ eligible \in SUBSET Nat /\ IsFiniteSet(eligible)
  <2>1. IsFiniteSet(1..size)
    BY FS_Interval
  <2>2. pinned \in SUBSET (1..size) /\ eligible \in SUBSET (1..size)
    BY <1>1
  <2> HIDE DEF pinned, eligible
  <2>3. IsFiniteSet(pinned) /\ IsFiniteSet(eligible)
    BY <2>1, <2>2, FS_Subset
  <2> QED BY <2>2, <2>3
<1>3. Orders(earlier, pinned)
  <2> HIDE DEF pinned
  <2>1. \A i, j \in pinned : <<i, j>> \in earlier <=> i < j
    OBVIOUS
  <2> HIDE DEF earlier
  <2>2. \A i, j \in pinned : i # j => i < j \/ j < i
    BY <1>2
  <2>3. \A i, j, k \in pinned : ~(i < i) /\ (i < j /\ j < k => i < k)
    BY <1>2
  <2> QED BY <2>1, <2>2, <2>3 DEF Orders
<1>4. Orders(heavier, eligible)
  <2>1. \A i \in eligible : fs[i].weight \in Int /\ fs[i].score \in Int /\ i \in Nat
    BY <1>2 DEF IsField, IsFocus
  <2> HIDE DEF eligible
  <2>2. \A i, j \in eligible : <<i, j>> \in heavier <=> Heavier(fs, i, j)
    OBVIOUS
  <2> HIDE DEF heavier
  <2>3. \A i \in eligible : ~Heavier(fs, i, i)
    BY <2>1 DEF Heavier
  <2>4. \A i, j \in eligible : i # j => Heavier(fs, i, j) \/ Heavier(fs, j, i)
    BY <2>1 DEF Heavier
  <2>5. \A i, j, k \in eligible : Heavier(fs, i, j) /\ Heavier(fs, j, k) => Heavier(fs, i, k)
    BY <2>1 DEF Heavier
  <2> QED BY <2>2, <2>3, <2>4, <2>5 DEF Orders
<1>5. /\ first \in Seq(pinned) /\ \A i \in pinned : \E n \in DOMAIN first : first[n] = i
      /\ second \in Seq(eligible) /\ \A i \in eligible : \E n \in DOMAIN second : second[n] = i
  <2> HIDE DEF pinned, eligible, earlier, heavier
  <2> QED BY <1>2, <1>3, <1>4, OrderIsSequence
<1>6. Sorted(fs) = first \o second
  BY DEF Sorted, ByPlace, ByWeight
<1>7. pinned \subseteq DOMAIN fs /\ eligible \subseteq DOMAIN fs
  OBVIOUS
<1>8. \A i \in DOMAIN fs : fs[i].status # "released" <=> i \in pinned \cup eligible
  OBVIOUS
<1> HIDE DEF pinned, eligible, first, second
<1>9. /\ first \o second \in Seq(pinned \cup eligible)
      /\ \A n \in DOMAIN first : n \in DOMAIN (first \o second)
                                /\ (first \o second)[n] = first[n]
      /\ \A n \in DOMAIN second : Len(first) + n \in DOMAIN (first \o second)
                                 /\ (first \o second)[Len(first) + n] = second[n]
  <2>1. first \in Seq(pinned \cup eligible) /\ second \in Seq(pinned \cup eligible)
    BY <1>5
  <2> QED BY <2>1
<1>10. \A i \in pinned \cup eligible : \E n \in DOMAIN (first \o second) : (first \o second)[n] = i
  BY <1>5, <1>9
<1>11. \A n \in DOMAIN (first \o second) : (first \o second)[n] \in pinned \cup eligible
  BY <1>9
<1>12. first \o second \in Seq(DOMAIN fs)
  BY <1>7, <1>9
<1> QED BY <1>6, <1>7, <1>8, <1>10, <1>11, <1>12

\* A role is taken when a focus of it, if one may be active, is among the
\* taken, or shares its id with one of them.
RoleTaken(fs, sorted, taken, role) ==
    (\E n \in DOMAIN sorted : fs[sorted[n]].role = role)
    => \E n \in DOMAIN sorted : fs[sorted[n]].role = role /\ fs[sorted[n]].id \in Ids(fs, taken)

\* While there is room, covering a role takes it, and one focus at most.
LEMMA CoverStep ==
    ASSUME NEW fs, NEW I, NEW sorted \in Seq(I), NEW role,
           NEW taken, IsFiniteSet(taken), Cardinality(taken) < MaxActiveFocuses
    PROVE  /\ taken \subseteq Cover(fs, sorted, taken, role)
           /\ IsFiniteSet(Cover(fs, sorted, taken, role))
           /\ Cardinality(Cover(fs, sorted, taken, role)) <= Cardinality(taken) + 1
           /\ RoleTaken(fs, sorted, Cover(fs, sorted, taken, role), role)
<1> DEFINE able == {n \in DOMAIN sorted : fs[sorted[n]].role = role
                                          /\ fs[sorted[n]].id \notin Ids(fs, taken)}
           first == sorted[Min(able)]
<1>1. Cardinality(taken) \in Nat
  BY FS_CardinalityType
<1>2. Cover(fs, sorted, taken, role) = IF able = {} THEN taken ELSE Select(fs, taken, first)
  BY DEF Cover
<1>3. CASE able = {}
  <2>1. Cover(fs, sorted, taken, role) = taken
    BY <1>2, <1>3
  <2>2. RoleTaken(fs, sorted, taken, role)
    BY <1>3 DEF RoleTaken
  <2> QED BY <1>1, <2>1, <2>2
<1>4. CASE able # {}
  <2>1. able \in SUBSET Nat
    OBVIOUS
  <2>2. Min(able) \in able
    <3> HIDE DEF able
    <3> QED BY <1>4, <2>1, LeastOf
  <2>3. /\ Min(able) \in DOMAIN sorted /\ fs[first].role = role
        /\ fs[first].id \notin Ids(fs, taken)
    BY <2>2
  <2>4. Cover(fs, sorted, taken, role) = taken \cup {first}
    BY <1>2, <1>4, <2>3 DEF Select
  <2>5. /\ IsFiniteSet(taken \cup {first})
        /\ Cardinality(taken \cup {first}) <= Cardinality(taken) + 1
    <3> HIDE DEF first
    <3>1. /\ IsFiniteSet(taken \cup {first})
          /\ Cardinality(taken \cup {first})
               = IF first \in taken THEN Cardinality(taken) ELSE Cardinality(taken) + 1
      BY FS_AddElement, Zenon
    <3> QED BY <1>1, <3>1
  <2>6. RoleTaken(fs, sorted, taken \cup {first}, role)
    <3>1. fs[first].id \in Ids(fs, taken \cup {first})
      BY DEF Ids
    <3> QED BY <2>3, <3>1 DEF RoleTaken
  <2> QED BY <2>4, <2>5, <2>6
<1> QED BY <1>3, <1>4

\* A role that is taken stays so when more is taken.
LEMMA TakenMore ==
    ASSUME NEW fs, NEW sorted, NEW role, NEW taken, NEW more, taken \subseteq more,
           RoleTaken(fs, sorted, taken, role)
    PROVE  RoleTaken(fs, sorted, more, role)
<1>1. Ids(fs, taken) \subseteq Ids(fs, more)
  BY DEF Ids
<1> QED BY <1>1 DEF RoleTaken

Covering == INSTANCE EvidenceProofs WITH Op <- Cover

\* What the required roles take.
Covered(fs, sorted) ==
    FoldLeft(LAMBDA taken, role : Cover(fs, sorted, taken, role), {}, MinimumRoleCoverage)

\* There is room for every required role.
LEMMA CoveredTakes ==
    ASSUME NEW fs, NEW I, NEW sorted \in Seq(I)
    PROVE  \A m \in DOMAIN MinimumRoleCoverage :
               RoleTaken(fs, sorted, Covered(fs, sorted), MinimumRoleCoverage[m])
<1> DEFINE roles == MinimumRoleCoverage
           n == Len(MinimumRoleCoverage)
<1>1. n \in Nat /\ n <= MaxActiveFocuses /\ MaxActiveFocuses \in Nat /\ DOMAIN roles = 1..n
  BY AttentionConstants
<1>2. Covered(fs, sorted) = Covering!FoldedSequence(fs, sorted, {}, roles)
  BY Zenon DEF Covered, FoldLeft, MapThenFoldSet, Max, Covering!FoldedSequence, Covering!FoldLeft,
               Covering!MapThenFoldSet, Covering!Max
<1> HIDE DEF n
<1>3. PICK run : /\ Covering!LeftToRight(run, fs, sorted, {}, roles, n)
                 /\ Covering!FoldedSequence(fs, sorted, {}, roles) = run[n]
  BY <1>1, Covering!SequenceRun
<1>3a. run[0] = {} /\ \A k \in 1..n : run[k] = Cover(fs, sorted, run[k - 1], roles[k])
  BY <1>3, Zenon DEF Covering!LeftToRight
<1> DEFINE A == {k \in Nat : k <= n => /\ IsFiniteSet(run[k]) /\ Cardinality(run[k]) <= k
                                      /\ \A m \in 1..k : RoleTaken(fs, sorted, run[k], roles[m])}
<1>4. 0 \in A
  <2>1. IsFiniteSet(run[0]) /\ Cardinality(run[0]) = 0 /\ 1..0 = {}
    BY <1>3a, FS_EmptySet
  <2> QED BY <2>1
<1>5. ASSUME NEW k \in Nat, k \in A PROVE k + 1 \in A
  <2> SUFFICES ASSUME k + 1 <= n
               PROVE  /\ IsFiniteSet(run[k + 1]) /\ Cardinality(run[k + 1]) <= k + 1
                      /\ \A m \in 1..(k + 1) : RoleTaken(fs, sorted, run[k + 1], roles[m])
    OBVIOUS
  <2>1. /\ k + 1 \in 1..n /\ (k + 1) - 1 = k
        /\ IsFiniteSet(run[k]) /\ Cardinality(run[k]) <= k
        /\ \A m \in 1..k : RoleTaken(fs, sorted, run[k], roles[m])
    BY <1>1, <1>5
  <2>2. Cardinality(run[k]) \in Nat
    BY <2>1, FS_CardinalityType
  <2>3. Cardinality(run[k]) < MaxActiveFocuses
    BY <1>1, <2>1, <2>2
  <2>4. run[k + 1] = Cover(fs, sorted, run[k], roles[k + 1])
    BY <1>3a, <2>1
  <2>5. /\ run[k] \subseteq run[k + 1] /\ IsFiniteSet(run[k + 1])
        /\ Cardinality(run[k + 1]) <= Cardinality(run[k]) + 1
        /\ RoleTaken(fs, sorted, run[k + 1], roles[k + 1])
    BY <2>1, <2>3, <2>4, CoverStep
  <2>6. Cardinality(run[k + 1]) \in Nat
    BY <2>5, FS_CardinalityType
  <2>7. ASSUME NEW m \in 1..(k + 1) PROVE RoleTaken(fs, sorted, run[k + 1], roles[m])
    <3>1. CASE m = k + 1
      BY <2>5, <3>1
    <3>2. CASE m \in 1..k
      BY <2>1, <2>5, <3>2, TakenMore
    <3> QED BY <3>1, <3>2
  <2> QED BY <2>1, <2>2, <2>5, <2>6, <2>7
<1> HIDE DEF A
<1>6. Nat \subseteq A
  BY <1>4, <1>5, NaturalInduction
<1>7. \A m \in 1..n : RoleTaken(fs, sorted, run[n], roles[m])
  BY <1>1, <1>6 DEF A
<1> QED BY <1>1, <1>2, <1>3, <1>7

Selected(fs, unused, taken, i) == Select(fs, taken, i)
Selecting == INSTANCE EvidenceProofs WITH Op <- Selected

\* Taking the heaviest others leaves every required role taken.
LEMMA RolesTaken ==
    ASSUME NEW fs, NEW I, NEW sorted \in Seq(I), NEW m \in DOMAIN MinimumRoleCoverage
    PROVE  RoleTaken(fs, sorted, ensureRoleCoverage(fs, sorted), MinimumRoleCoverage[m])
<1> DEFINE covered == Covered(fs, sorted)
           n == Len(sorted)
<1>1. RoleTaken(fs, sorted, covered, MinimumRoleCoverage[m])
  BY CoveredTakes
<1>2. ensureRoleCoverage(fs, sorted) = FoldLeft(LAMBDA taken, i : Select(fs, taken, i), covered, sorted)
  BY Zenon DEF ensureRoleCoverage, Covered
<1> HIDE DEF covered
<1>3. ensureRoleCoverage(fs, sorted) = Selecting!FoldedSequence(fs, {}, covered, sorted)
  BY <1>2, Zenon DEF FoldLeft, MapThenFoldSet, Max, Selecting!FoldedSequence,
                     Selecting!FoldLeft, Selecting!MapThenFoldSet, Selecting!Max, Selected
<1>4. n \in Nat /\ DOMAIN sorted = 1..n
  OBVIOUS
<1> HIDE DEF n
<1>5. PICK run : /\ Selecting!LeftToRight(run, fs, {}, covered, sorted, n)
                 /\ Selecting!FoldedSequence(fs, {}, covered, sorted) = run[n]
  BY <1>4, Selecting!SequenceRun
<1>5a. run[0] = covered /\ \A k \in 1..n : run[k] = Select(fs, run[k - 1], sorted[k])
  BY <1>5, Zenon DEF Selecting!LeftToRight, Selected
<1> DEFINE A == {k \in Nat : k <= n => covered \subseteq run[k]}
<1>6. 0 \in A
  BY <1>5a
<1>7. ASSUME NEW k \in Nat, k \in A PROVE k + 1 \in A
  <2> SUFFICES ASSUME k + 1 <= n PROVE covered \subseteq run[k + 1]
    OBVIOUS
  <2>1. k + 1 \in 1..n /\ (k + 1) - 1 = k /\ covered \subseteq run[k]
    BY <1>4, <1>7
  <2>2. run[k + 1] = Select(fs, run[k], sorted[k + 1])
    BY <1>5a, <2>1
  <2> QED BY <2>1, <2>2 DEF Select
<1> HIDE DEF A
<1>8. Nat \subseteq A
  BY <1>6, <1>7, NaturalInduction
<1>9. covered \subseteq ensureRoleCoverage(fs, sorted)
  BY <1>3, <1>4, <1>5, <1>8 DEF A
<1> QED BY <1>1, <1>9, TakenMore

\* The status a focus is given: by its own, whether it is pinned, and whether
\* its id is among the active or the background ones.
StatusOf(own, pinned, id, active, background) ==
    FirstOf(<< <<own = "released", "released">>,
               <<pinned \/ own = "pinned", "pinned">>,
               <<id \in active, "active">>,
               <<id \in background, "background">>,
               <<TRUE, "dormant">> >>)

\* Only what is released stays so, and what is to be active is awake.
LEMMA StatusRules ==
    ASSUME NEW own, NEW pinned, NEW id, NEW active, NEW background
    PROVE  /\ StatusOf(own, pinned, id, active, background) = "released" <=> own = "released"
           /\ id \in active /\ own # "released" =>
                 StatusOf(own, pinned, id, active, background) \in {"pinned", "active"}
<1> DEFINE c1 == own = "released"
           c2 == pinned \/ own = "pinned"
           c3 == id \in active
           c4 == id \in background
           rules == << <<c1, "released">>, <<c2, "pinned">>, <<c3, "active">>,
                       <<c4, "background">>, <<TRUE, "dormant">> >>
<1>1. StatusOf(own, pinned, id, active, background) = FirstOf(rules)
  BY Zenon DEF StatusOf
<1> HIDE DEF c2, c3, c4
<1>2. /\ DOMAIN rules = 1..5
      /\ rules[1][1] = c1 /\ rules[1][2] = "released" /\ rules[2][2] = "pinned"
      /\ rules[3][1] = c3 /\ rules[3][2] = "active" /\ rules[4][2] = "background"
      /\ rules[5][1] = TRUE /\ rules[5][2] = "dormant"
  OBVIOUS
<1> HIDE DEF rules
<1>3. PICK i \in 1..5 : HoldsFirst(rules, i) /\ FirstOf(rules) = rules[i][2]
  <2>1. 5 \in Nat /\ 5 \in 1..5
    OBVIOUS
  <2>2. rules[5][1]
    BY <1>2
  <2> QED BY <1>2, <2>1, <2>2, FirstRule, Zenon
<1>3a. (c1 => i <= 1) /\ (c3 => i <= 3)
  <2>1. 1 \in 1..5 /\ 3 \in 1..5
    OBVIOUS
  <2> QED BY <1>2, <1>3, <2>1, Zenon DEF HoldsFirst
<1>4. CASE i = 1
  <2>1. c1
    <3>1. rules[i][1]
      BY <1>3, Zenon DEF HoldsFirst
    <3> QED BY <1>2, <1>4, <3>1
  <2> QED BY <1>1, <1>2, <1>3, <1>4, <2>1
<1>5. CASE i \in 2..5
  <2>1. own # "released"
    BY <1>3a, <1>5
  <2>2. c3 => i \in {2, 3}
    <3>1. i <= 3 => i \in {2, 3}
      BY <1>5
    <3> QED BY <1>3a, <3>1, Zenon
  <2>3. rules[i][2] \in {"pinned", "active", "background", "dormant"}
        /\ (i \in {2, 3} => rules[i][2] \in {"pinned", "active"})
    BY <1>2, <1>5
  <2> QED BY <1>1, <1>3, <2>1, <2>2, <2>3 DEF c3
<1> QED BY <1>4, <1>5

\* The ids of the active focuses.
ActiveIds(fs) == Ids(fs, ensureRoleCoverage(fs, Sorted(fs)))

\* A focus keeps everything but its status; it is released only if it was, and
\* awake if its id is active.
LEMMA AssignedStatuses ==
    ASSUME NEW fs, IsField(fs)
    PROVE  /\ DOMAIN assignStatuses(fs) = DOMAIN fs /\ IsField(assignStatuses(fs))
           /\ \A i \in DOMAIN fs :
                 /\ \E status : assignStatuses(fs)[i] = [fs[i] EXCEPT !.status = status]
                 /\ assignStatuses(fs)[i].status = "released" <=> fs[i].status = "released"
                 /\ fs[i].status # "released" /\ fs[i].id \in ActiveIds(fs) =>
                       assignStatuses(fs)[i].status \in {"pinned", "active"}
<1> DEFINE active == ActiveIds(fs)
           eligible == {i \in DOMAIN fs : fs[i].status \notin {"pinned", "released"}}
           remaining == {i \in eligible : fs[i].id \notin active}
           background == Ids(fs, {i \in remaining :
               Cardinality({j \in remaining : Heavier(fs, j, i)}) < MaxBackgroundFocuses})
           status(i) == StatusOf(fs[i].status, fs[i].pinned, fs[i].id, active, background)
           ranked == assignStatuses(fs)
<1>1. ranked = [i \in DOMAIN fs |-> [fs[i] EXCEPT !.status = status(i)]]
  BY Zenon DEF assignStatuses, Sorted, ActiveIds, StatusOf
<1> HIDE DEF active, background, ranked
<1>2. \A i \in DOMAIN fs :
          /\ status(i) = "released" <=> fs[i].status = "released"
          /\ fs[i].status # "released" /\ fs[i].id \in active => status(i) \in {"pinned", "active"}
  BY StatusRules, Zenon
<1> HIDE DEF status
<1>3. PICK n \in Nat : DOMAIN fs = 1..n
  BY DEF IsField
<1>4. /\ DOMAIN ranked = DOMAIN fs /\ ranked = [i \in 1..n |-> ranked[i]]
      /\ \A i \in DOMAIN fs : ranked[i] = [fs[i] EXCEPT !.status = status(i)]
  BY <1>1, <1>3
<1>5. \A i \in DOMAIN fs : ranked[i].status = status(i) /\ IsFocus(ranked[i])
  BY <1>4 DEF IsField, IsFocus, FocusFields
<1>6. ranked \in Seq({ranked[i] : i \in 1..n})
  BY <1>4
<1>7. IsField(ranked)
  BY <1>4, <1>5, <1>6 DEF IsField
<1> QED BY <1>2, <1>4, <1>5, <1>7 DEF active, ranked

\* The ranking keeps every focus, and moves nothing but its status; what is
\* released was so.
LEMMA RankedKeeps ==
    ASSUME NEW fs, IsField(fs), rankAndAssignStatuses(fs)
    PROVE  /\ DOMAIN focuses' = DOMAIN fs /\ IsField(focuses')
           /\ \A i \in DOMAIN fs :
                 /\ focuses'[i].role = fs[i].role /\ focuses'[i].target = fs[i].target
                 /\ focuses'[i].status \in {assignStatuses(fs)[i].status, "dominant"}
                 /\ fs[i].status # "released" => focuses'[i].status # "released"
<1> DEFINE ranked == assignStatuses(fs)
           dominant == dominantOf(ranked)
<1>1. focuses' = [i \in DOMAIN ranked |->
                      IF ranked[i].id = dominant /\ ranked[i].status # "pinned"
                      THEN [ranked[i] EXCEPT !.status = "dominant"] ELSE ranked[i]]
  BY DEF rankAndAssignStatuses
<1>2. /\ DOMAIN ranked = DOMAIN fs /\ IsField(ranked)
      /\ \A i \in DOMAIN fs :
            /\ \E status : ranked[i] = [fs[i] EXCEPT !.status = status]
            /\ ranked[i].status = "released" <=> fs[i].status = "released"
  BY AssignedStatuses
<1> HIDE DEF ranked, dominant
<1>3. PICK n \in Nat : DOMAIN fs = 1..n
  BY DEF IsField
<1>4. DOMAIN focuses' = 1..n /\ focuses' = [i \in 1..n |-> focuses'[i]]
  BY <1>1, <1>2, <1>3
<1>5. ASSUME NEW i \in 1..n
      PROVE  /\ IsFocus(focuses'[i])
             /\ focuses'[i].role = fs[i].role /\ focuses'[i].target = fs[i].target
             /\ focuses'[i].status \in {ranked[i].status, "dominant"}
  <2>1. /\ focuses'[i] = ranked[i] \/ focuses'[i] = [ranked[i] EXCEPT !.status = "dominant"]
        /\ IsFocus(ranked[i])
    BY <1>1, <1>2, <1>3 DEF IsField
  <2>2. IsFocus(fs[i])
    BY <1>3 DEF IsField
  <2>3. ranked[i].role = fs[i].role /\ ranked[i].target = fs[i].target
    BY <1>2, <1>3, <2>2 DEF IsFocus, FocusFields
  <2>4. /\ IsFocus(focuses'[i])
        /\ focuses'[i].role = ranked[i].role /\ focuses'[i].target = ranked[i].target
        /\ focuses'[i].status \in {ranked[i].status, "dominant"}
    BY <2>1 DEF IsFocus, FocusFields
  <2> QED BY <2>3, <2>4
<1>6. focuses' \in Seq({focuses'[i] : i \in 1..n})
  BY <1>4
<1>7. IsField(focuses')
  BY <1>4, <1>5, <1>6 DEF IsField
<1> QED BY <1>2, <1>3, <1>4, <1>5, <1>7 DEF ranked

\* The ranking leaves a field in which every required role is covered.
LEMMA RankedCovers ==
    ASSUME NEW fs, IsField(fs), rankAndAssignStatuses(fs)
    PROVE  IsField(focuses') /\ RequiredRolesCovered'
<1> DEFINE ranked == assignStatuses(fs)
           sorted == Sorted(fs)
<1>1. \A i \in DOMAIN fs :
          /\ ranked[i].status = "released" <=> fs[i].status = "released"
          /\ fs[i].status # "released" /\ fs[i].id \in ActiveIds(fs) =>
                ranked[i].status \in {"pinned", "active"}
  BY AssignedStatuses
<1> HIDE DEF ranked
<1>2. PICK n \in Nat : DOMAIN fs = 1..n
  BY DEF IsField
<1>3. /\ DOMAIN focuses' = 1..n /\ IsField(focuses')
      /\ \A i \in 1..n : /\ focuses'[i].role = fs[i].role
                         /\ focuses'[i].status \in {ranked[i].status, "dominant"}
  BY <1>2, RankedKeeps DEF ranked
<1>4. ASSUME NEW m \in DOMAIN MinimumRoleCoverage, NEW i \in 1..n,
             focuses'[i].role = MinimumRoleCoverage[m], focuses'[i].status # "released"
      PROVE  \E j \in 1..n : focuses'[j].role = MinimumRoleCoverage[m] /\ focuses'[j].status \in Awake
  <2> DEFINE role == MinimumRoleCoverage[m]
  <2>0. CASE focuses'[i].status = "dominant"
    BY <1>4, <2>0 DEF Awake
  <2> SUFFICES ASSUME focuses'[i].status # "dominant"
               PROVE  \E j \in 1..n : focuses'[j].role = role /\ focuses'[j].status \in Awake
    BY <2>0
  <2>1. fs[i].role = role /\ fs[i].status # "released"
    BY <1>1, <1>2, <1>3, <1>4
  <2>2. /\ sorted \in Seq(DOMAIN fs)
        /\ \A k \in DOMAIN sorted : fs[sorted[k]].status # "released"
        /\ \E k \in DOMAIN sorted : sorted[k] = i
    BY <1>2, <2>1, SortedHasAll
  <2>3. RoleTaken(fs, sorted, ensureRoleCoverage(fs, sorted), role)
    BY <2>2, RolesTaken
  <2> HIDE DEF sorted
  <2>4. PICK k \in DOMAIN sorted : fs[sorted[k]].role = role
                                /\ fs[sorted[k]].id \in Ids(fs, ensureRoleCoverage(fs, sorted))
    BY <2>1, <2>2, <2>3 DEF RoleTaken
  <2>5. sorted[k] \in 1..n /\ fs[sorted[k]].status # "released"
    BY <1>2, <2>2
  <2>6. ranked[sorted[k]].status \in {"pinned", "active"}
    BY <1>1, <1>2, <2>4, <2>5 DEF ActiveIds, sorted
  <2> QED BY <1>3, <2>4, <2>5, <2>6 DEF Awake
<1> QED BY <1>3, <1>4 DEF RequiredRolesCovered, AwakeFocuses

\* The field is one of focuses, and covers the required roles.
AttentionInv == IsField(focuses) /\ RequiredRolesCovered

\* Advancing the field keeps the invariant.
LEMMA AdvanceStep ==
    ASSUME AttentionInv, NEW active, NEW delta \in Int,
           NEW candidates, AreCandidates(candidates), NEW feedback, IsFeedback(feedback),
           advanceMemoryAttentionField(active, delta, candidates, feedback)
    PROVE  AttentionInv'
<1> DEFINE fs == Advanced(focuses, active, delta, candidates, feedback)
<1>1. IsField(fs)
  BY AdvancedIsField DEF AttentionInv
<1>2. rankAndAssignStatuses(fs)
  BY DEF advanceMemoryAttentionField
<1> HIDE DEF fs
<1>3. IsField(focuses') /\ RequiredRolesCovered'
  BY <1>1, <1>2, RankedCovers
<1> QED BY <1>3 DEF AttentionInv

\* Creating the field establishes it.
LEMMA CreateStep ==
    ASSUME NEW candidates, AreCandidates(candidates), createMemoryAttentionField(candidates)
    PROVE  AttentionInv'
<1> DEFINE ordered == ByScore(createFocuses(candidates))
           fs == FoldLeft(Admit, <<>>, ordered)
<1>1. /\ Len(candidates) \in Nat /\ DOMAIN ordered = 1..Len(candidates)
      /\ \A i \in 1..Len(candidates) : IsFocus(ordered[i])
  BY CreatedInOrder DEF AreCandidates
<1> HIDE DEF ordered
<1>2. IsField(<<>>)
  <2>1. <<>> \in Seq({}) /\ DOMAIN <<>> = {}
    OBVIOUS
  <2> QED BY <2>1 DEF IsField
<1>3. IsField(fs)
  BY <1>1, <1>2, AdmitAllKeeps
<1>4. rankAndAssignStatuses(fs)
  BY DEF createMemoryAttentionField, ordered
<1> HIDE DEF fs
<1>5. IsField(focuses') /\ RequiredRolesCovered'
  BY <1>3, <1>4, RankedCovers
<1> QED BY <1>5 DEF AttentionInv

\* The feedback of an outcome is feedback.
LEMMA OutcomeFeedback ==
    ASSUME NEW view, NEW outcome, outcome.confidence \in Int
    PROVE  IsFeedback(buildAttentionFeedback(view, outcome))
<1>1. feedbackMagnitude(outcome.verdict, outcome.confidence) \in Int
  BY DEF feedbackMagnitude, Scale
<1> QED BY <1>1 DEF IsFeedback, buildAttentionFeedback

\* The challenge of an outcome is a candidate.
LEMMA ChallengeIsCandidate ==
    ASSUME IsField(focuses), NEW view, IsFiniteSet(view.truths), NEW outcome, NEW fingerprint
    PROVE  AreCandidates(buildChallengeAttention(view, outcome, fingerprint))
<1> DEFINE built == buildChallengeAttention(view, outcome, fingerprint)
           conflict == outcome.verdict = "truth_conflict"
           given == [goalDependency |-> 550,
                     constraintImportance |->
                         IF conflict \/ outcome.verdict = "scope_mismatch" THEN 900 ELSE 650,
                     uncertainty |-> 850,
                     novelty |-> IF outcome.discriminators # {} THEN 780 ELSE 500,
                     risk |-> IF conflict THEN 950 ELSE 700,
                     expectedInformationGain |-> 880, predictiveValue |-> 620,
                     persistence |-> 450, urgency |-> 800]
           related == {i \in DOMAIN focuses : focuses[i].id \in view.attentions}
           contexts == UNION {focuses[i].contexts : i \in related}
           truths == view.truths \cup UNION {focuses[i].truths : i \in related}
           whole == [id |-> <<"challenge", view.id, outcome.verdict, fingerprint>>,
                     type |-> IF conflict THEN "truth_anchor" ELSE "contradiction",
                     target |-> <<"view", view.id>>, role |-> "challenge",
                     contexts |-> contexts, truths |-> truths,
                     pinned |-> FALSE, signals |-> given]
<1>1. \/ built = <<>>
      \/ \E c : built = <<c>> /\ c.signals = given /\ c.contexts = contexts /\ c.truths = truths
  <2>1. built = (IF isPositiveVerdict(outcome.verdict) THEN <<>> ELSE <<whole>>)
    BY Zenon DEF buildChallengeAttention
  <2>2. whole.signals = given
    BY Zenon
  <2>2a. whole.contexts = contexts /\ whole.truths = truths
    BY Zenon
  <2> HIDE DEF built, whole, given, contexts, truths
  <2>3. CASE built = <<>>
    BY <2>3
  <2>4. CASE built = <<whole>>
    BY <2>2, <2>2a, <2>4, Zenon
  <2>5. built = <<>> \/ built = <<whole>>
    BY <2>1 DEF isPositiveVerdict
  <2> QED BY <2>3, <2>4, <2>5
<1>2. \A n \in DOMAIN CandidateWeights : given[n] \in Int
  BY DEF CandidateWeights
<1>2a. IsFiniteSet(contexts) /\ IsFiniteSet(truths)
  <2>1. \A i \in DOMAIN focuses : IsFiniteSet(focuses[i].contexts) /\ IsFiniteSet(focuses[i].truths)
    BY DEF IsField, IsFocus
  <2>2. PICK n \in Nat : DOMAIN focuses = 1..n
    BY DEF IsField
  <2>3. IsFiniteSet(related)
    <3>1. IsFiniteSet(1..n) /\ related \subseteq 1..n
      BY <2>2, FS_Interval
    <3> QED BY <3>1, FS_Subset
  <2> DEFINE cs == [i \in related |-> focuses[i].contexts]
             ts == [i \in related |-> focuses[i].truths]
  <2>4. /\ IsFiniteSet({cs[i] : i \in DOMAIN cs}) /\ IsFiniteSet({ts[i] : i \in DOMAIN ts})
    BY <2>3, ImageIsFinite
  <2>5. /\ {cs[i] : i \in DOMAIN cs} = {focuses[i].contexts : i \in related}
        /\ {ts[i] : i \in DOMAIN ts} = {focuses[i].truths : i \in related}
    OBVIOUS
  <2>6. related \subseteq DOMAIN focuses
    OBVIOUS
  <2> HIDE DEF cs, ts, related
  <2>7. IsFiniteSet(UNION {focuses[i].contexts : i \in related})
    BY <2>1, <2>4, <2>5, <2>6, FS_UNION
  <2>8. IsFiniteSet(UNION {focuses[i].truths : i \in related})
    BY <2>1, <2>4, <2>5, <2>6, FS_UNION
  <2> QED BY <2>7, <2>8, FS_Union
<1> HIDE DEF built, given, contexts, truths
<1>3. CASE built = <<>>
  BY <1>3 DEF AreCandidates, built
<1>4. ASSUME NEW c, built = <<c>>, c.signals = given, c.contexts = contexts, c.truths = truths
      PROVE  AreCandidates(built)
  <2>1. DOMAIN built = 1..Len(built) /\ Len(built) \in Nat /\ \A i \in DOMAIN built : built[i] = c
    BY <1>4
  <2> QED BY <1>2, <1>2a, <1>4, <2>1 DEF AreCandidates
<1> QED BY <1>1, <1>3, <1>4 DEF built

\* An outcome that is not positive has one challenge.
LEMMA OneChallenge ==
    ASSUME NEW view, NEW outcome, NEW fingerprint, ~isPositiveVerdict(outcome.verdict)
    PROVE  \E c : /\ buildChallengeAttention(view, outcome, fingerprint) = <<c>>
                  /\ c.role = "challenge" /\ c.target = <<"view", view.id>>
<1> DEFINE built == buildChallengeAttention(view, outcome, fingerprint)
           conflict == outcome.verdict = "truth_conflict"
           given == [goalDependency |-> 550,
                     constraintImportance |->
                         IF conflict \/ outcome.verdict = "scope_mismatch" THEN 900 ELSE 650,
                     uncertainty |-> 850,
                     novelty |-> IF outcome.discriminators # {} THEN 780 ELSE 500,
                     risk |-> IF conflict THEN 950 ELSE 700,
                     expectedInformationGain |-> 880, predictiveValue |-> 620,
                     persistence |-> 450, urgency |-> 800]
           related == {i \in DOMAIN focuses : focuses[i].id \in view.attentions}
           whole == [id |-> <<"challenge", view.id, outcome.verdict, fingerprint>>,
                     type |-> IF conflict THEN "truth_anchor" ELSE "contradiction",
                     target |-> <<"view", view.id>>, role |-> "challenge",
                     contexts |-> UNION {focuses[i].contexts : i \in related},
                     truths |-> view.truths \cup UNION {focuses[i].truths : i \in related},
                     pinned |-> FALSE, signals |-> given]
<1>1. built = (IF isPositiveVerdict(outcome.verdict) THEN <<>> ELSE <<whole>>)
  BY Zenon DEF buildChallengeAttention
<1>2. whole.role = "challenge" /\ whole.target = <<"view", view.id>>
  BY Zenon
<1> HIDE DEF built, whole
<1>3. built = <<whole>>
  BY <1>1, Zenon
<1> QED BY <1>2, <1>3, Zenon DEF built

\* What an outcome that is not positive leaves is a focus that challenges its View.
ViewChallenged(id) ==
    \E i \in DOMAIN focuses : /\ focuses[i].role = "challenge" /\ focuses[i].status # "released"
                              /\ focuses[i].target = <<"view", id>>

LEMMA ChallengeStep ==
    ASSUME AttentionInv, NEW view, IsFiniteSet(view.truths),
           NEW outcome, outcome.confidence \in Int, ~isPositiveVerdict(outcome.verdict),
           NEW fingerprint, NEW active, NEW delta \in Int,
           advanceMemoryAttentionField(active, delta,
               buildChallengeAttention(view, outcome, fingerprint),
               buildAttentionFeedback(view, outcome))
    PROVE  ViewChallenged(view.id)'
<1> DEFINE feedback == buildAttentionFeedback(view, outcome)
<1>1. PICK c : /\ buildChallengeAttention(view, outcome, fingerprint) = <<c>>
               /\ c.role = "challenge" /\ c.target = <<"view", view.id>>
  BY OneChallenge
<1>2. AreCandidates(<<c>>)
  BY <1>1, ChallengeIsCandidate DEF AttentionInv
<1>3. IsFeedback(feedback)
  BY OutcomeFeedback
<1> HIDE DEF feedback
<1> DEFINE fs == Advanced(focuses, active, delta, <<c>>, feedback)
<1>4. rankAndAssignStatuses(fs)
  BY <1>1 DEF advanceMemoryAttentionField, feedback
<1>5. IsField(fs)
  BY <1>2, <1>3, AdvancedIsField DEF AttentionInv
<1>6. PICK i \in DOMAIN fs : StandsFor(fs[i], createFocus(c))
  BY <1>2, <1>3, AdvancedFinds DEF AttentionInv
<1>7. createFocus(c).role = "challenge" /\ createFocus(c).target = <<"view", view.id>>
  BY <1>1 DEF createFocus
<1> HIDE DEF fs
<1>8. /\ i \in DOMAIN focuses' /\ focuses'[i].role = fs[i].role
      /\ focuses'[i].target = fs[i].target /\ focuses'[i].status # "released"
  BY <1>4, <1>5, <1>6, RankedKeeps DEF StandsFor
<1> QED BY <1>6, <1>7, <1>8 DEF StandsFor, ViewChallenged

-----------------------------------------------------------------------------
(* The Views                                                               *)

ViewFields == {"id", "attentions", "truths", "questions", "score", "status"}

\* A View has the ids of the proposals it is made of, and finitely many truths.
IsView(v) == /\ ViewFields \subseteq DOMAIN v
             /\ (\E S : v.id \in Seq(S)) /\ v.id # <<>>
             /\ IsFiniteSet(v.truths)

\* One View is within another that has what it is made of.
Names(v) == {v.id[n] : n \in DOMAIN v.id}

Within(v, w) == /\ Names(v) \subseteq Names(w) /\ v.attentions \subseteq w.attentions
                /\ v.truths \subseteq w.truths /\ v.questions \subseteq w.questions

\* The number of a View that is triaged, from a proposal with numbers.
PlusWeight(unused, neither, sum, f) == f.weight + sum
Weights == INSTANCE EvidenceProofs WITH Op <- PlusWeight

\* How much of the attention a proposal covers is a number.
LEMMA CoverageIsNumber ==
    ASSUME NEW proposal, NEW awake, IsFiniteSet(awake), \A f \in awake : f.weight \in Nat
    PROVE  attentionCoverage(proposal, awake) \in Int
<1> DEFINE weight(I) == MapThenSumSet(LAMBDA f : f.weight, I)
           seen == {f \in awake : f.id \in proposal.attentions}
<1>1. ASSUME NEW I \in SUBSET awake PROVE weight(I) \in Nat
  <2>1. weight(I) = Weights!FoldedSet({}, {}, 0, I)
    BY Zenon DEF MapThenSumSet, MapThenFoldSet, Weights!FoldedSet, Weights!MapThenFoldSet,
                 PlusWeight
  <2>2. IsFiniteSet(I)
    BY FS_Subset
  <2>3. Weights!IsFiniteSet(I)
    BY <2>2, Zenon DEF IsFiniteSet, Weights!IsFiniteSet
  <2>4. 0 \in Nat /\ \A r \in Nat, x \in I : PlusWeight({}, {}, r, x) \in Nat
    BY DEF PlusWeight
  <2>5. Weights!FoldedSet({}, {}, 0, I) \in Nat
    BY <2>3, <2>4, Weights!SetFoldIn, Zenon
  <2> QED BY <2>1, <2>5
<1>2. weight(awake) \in Nat /\ weight(seen) \in Nat
  BY <1>1
<1> DEFINE part == (1000 * weight(seen)) \div weight(awake)
<1>3. attentionCoverage(proposal, awake) =
        IF weight(awake) = 0 THEN IF proposal.attentions = {} THEN 1000 ELSE 0 ELSE Clamp(part)
  BY DEF attentionCoverage
<1> HIDE DEF weight, seen
<1>4. weight(awake) # 0 => part \in Int
  BY <1>2
<1> HIDE DEF part
<1>5. weight(awake) # 0 => Clamp(part) \in Int
  BY <1>4, ClampIsNumber, Zenon
<1> QED BY <1>3, <1>5

\* So is the confidence of a memory vision.
PlusConfidence(unused, neither, sum, f) == Scale(f.estimatedUtility, 1000 - f.uncertainty) + sum
Confidences == INSTANCE EvidenceProofs WITH Op <- PlusConfidence

LEMMA ConfidenceIsNumber ==
    ASSUME NEW branches, AreBranches(branches), NEW task
    PROVE  confidence(resolveMemoryVision(branches, task)) \in Int
<1> DEFINE fs == resolveMemoryVision(branches, task).frontiers
           some == {c \in branches : exclusion(c, task) = "none"}
           frontier == [b \in some |-> frontierOf(b, task)]
           sum == MapThenSumSet(LAMBDA f : Scale(f.estimatedUtility, 1000 - f.uncertainty), fs)
<1>1. fs = {frontierOf(b, task) : b \in some}
  BY DEF resolveMemoryVision, Assessed
<1>2. IsFiniteSet(fs)
  <2>1. IsFiniteSet(some)
    <3>1. some \subseteq branches /\ IsFiniteSet(branches)
      BY DEF AreBranches
    <3> QED BY <3>1, FS_Subset
  <2>2. IsFiniteSet({frontier[b] : b \in DOMAIN frontier})
    BY <2>1, ImageIsFinite
  <2>3. {frontier[b] : b \in DOMAIN frontier} = {frontierOf(b, task) : b \in some}
    OBVIOUS
  <2> QED BY <1>1, <2>2, <2>3
<1>3. ASSUME NEW b \in branches
      PROVE  /\ frontierOf(b, task).estimatedUtility \in Int
             /\ frontierOf(b, task).uncertainty \in Int
  <2> DEFINE open == Cardinality(b.required \ task.constraints)
             all == Cardinality(b.required)
             uncertainty == (1000 * open) \div Higher(1, all)
             certainty == 1000 - uncertainty \div 2
  <2>1. b.prior \in Int /\ IsFiniteSet(b.required)
    BY DEF AreBranches
  <2>2. open \in Nat /\ all \in Nat
    <3>1. IsFiniteSet(b.required \ task.constraints)
      BY <2>1, FS_Subset
    <3> QED BY <2>1, <3>1, FS_CardinalityType
  <2>3. /\ frontierOf(b, task).estimatedUtility = Clamp(Scale(b.prior, certainty))
        /\ frontierOf(b, task).uncertainty = uncertainty
    BY DEF frontierOf
  <2> HIDE DEF open, all
  <2>4. uncertainty \in Int
    BY <2>2 DEF Higher
  <2> HIDE DEF uncertainty
  <2>5. certainty \in Int
    BY <2>4
  <2> HIDE DEF certainty
  <2>6. Scale(b.prior, certainty) \in Int
    BY <2>1, <2>5, ScaleIsNumber, Zenon
  <2> QED BY <2>3, <2>4, <2>6, ClampIsNumber, Zenon
<1>4. \A f \in fs : f.estimatedUtility \in Int /\ f.uncertainty \in Int
  BY <1>1, <1>3
<1> HIDE DEF fs
<1>5. sum \in Int
  <2>1. sum = Confidences!FoldedSet({}, {}, 0, fs)
    BY Zenon DEF MapThenSumSet, MapThenFoldSet, Confidences!FoldedSet,
                 Confidences!MapThenFoldSet, PlusConfidence
  <2>2. Confidences!IsFiniteSet(fs)
    BY <1>2, Zenon DEF IsFiniteSet, Confidences!IsFiniteSet
  <2>3. \A r \in Int, x \in fs : PlusConfidence({}, {}, r, x) \in Int
    BY <1>4 DEF PlusConfidence, Scale
  <2>4. 0 \in Int
    OBVIOUS
  <2>5. Confidences!FoldedSet({}, {}, 0, fs) \in Int
    BY <2>2, <2>3, <2>4, Confidences!SetFoldIn, Zenon
  <2> QED BY <2>1, <2>5
<1>6. confidence(resolveMemoryVision(branches, task)) =
        IF fs = {} THEN 0 ELSE sum \div Cardinality(fs)
  BY DEF confidence, fs
<1> HIDE DEF sum
<1>7. Cardinality(fs) \in Nat /\ (fs # {} => Cardinality(fs) # 0)
  BY <1>2, FS_CardinalityType, FS_EmptySet
<1> QED BY <1>5, <1>6, <1>7

\* So is the consistency of a View with the truths.
LEMMA ConsistencyIsNumber ==
    ASSUME NEW view, IsFiniteSet(view.truths)
    PROVE  truthConsistency(view) \in Int
<1> DEFINE all == Cardinality(view.truths)
           wrong == Cardinality(truthConflicts(view))
<1>1. IsFiniteSet(truthConflicts(view))
  <2>1. truthConflicts(view) \subseteq view.truths
    BY DEF truthConflicts
  <2> QED BY <2>1, FS_Subset
<1>2. all \in Nat /\ wrong \in Nat /\ (view.truths # {} => all # 0)
  BY <1>1, FS_CardinalityType, FS_EmptySet
<1> DEFINE part == (1000 * (all - wrong)) \div all
<1>3. truthConsistency(view) = IF view.truths = {} THEN 1000 ELSE Clamp(part)
  BY DEF truthConsistency
<1> HIDE DEF all, wrong
<1>4. view.truths # {} => part \in Int
  BY <1>2
<1> HIDE DEF part
<1>5. view.truths # {} => Clamp(part) \in Int
  BY <1>4, ClampIsNumber, Zenon
<1> QED BY <1>3, <1>5

\* The statuses before the ranking.
Statuses == Hard \cup {"promising", "deferred", "candidate"}

\* The status of a triaged View is one of four.
TriagedStatus(unfit, against, enough) ==
    FirstOf(<< <<unfit, "ineligible">>, <<against, "contradicted">>,
               <<enough, "promising">>, <<TRUE, "deferred">> >>)

\* It is a status before the ranking.
LEMMA TriageRules ==
    ASSUME NEW unfit, NEW against, NEW enough
    PROVE  TriagedStatus(unfit, against, enough) \in Statuses
<1> DEFINE rules == << <<unfit, "ineligible">>, <<against, "contradicted">>,
                       <<enough, "promising">>, <<TRUE, "deferred">> >>
<1>1. TriagedStatus(unfit, against, enough) = FirstOf(rules)
  BY Zenon DEF TriagedStatus
<1>2. /\ DOMAIN rules = 1..4 /\ rules[4][1] = TRUE
      /\ \A i \in 1..4 : rules[i][2] \in {"ineligible", "contradicted", "promising", "deferred"}
  OBVIOUS
<1> HIDE DEF rules
<1>3. PICK i \in 1..4 : FirstOf(rules) = rules[i][2]
  <2>1. 4 \in Nat /\ 4 \in 1..4
    OBVIOUS
  <2>2. rules[4][1]
    BY <1>2
  <2> QED BY <1>2, <2>1, <2>2, FirstRule, Zenon
<1> QED BY <1>1, <1>2, <1>3 DEF Statuses, Hard

\* A proposal is triaged into a View of a number.
LEMMA TriagedView ==
    ASSUME NEW p, {p.prior, p.novelty, p.cost, p.risk} \subseteq Int, IsFiniteSet(p.truths),
           NEW awake, IsFiniteSet(awake), \A f \in awake : f.weight \in Nat,
           NEW evs, AreEvidence(evs), NEW branches, AreBranches(branches), NEW task, NEW scope
    PROVE  LET v == triageOne(createAttentionView(p, awake, evs), branches, task, scope) IN
           IsView(v) /\ v.score \in Int /\ v.status \in Statuses
<1> DEFINE view == createAttentionView(p, awake, evs)
           mine == {b \in branches : b.id \in view.branches}
           vision == resolveMemoryVision(mine, task)
           truth == truthConsistency(view)
           raw == view.prior * 17 + view.support * 17 + view.coverage * 18
                  + (IF view.questions = {} THEN 0 ELSE 11000) + view.novelty * 10
                  + truth * 17 + confidence(vision) * 10 - view.contradiction * 20
                  - view.cost * 8 - view.risk * 5
           part == raw \div 100
           score == Clamp(part)
           eligible == allowedBranchIds(vision)
           unfit == \/ ~projectScopeMatches(view.scope, scope, view.shared)
                    \/ eligible = {}
                    \/ truth < TRIAGE_POLICY.truthConflictThreshold
           against == view.contradiction >= TRIAGE_POLICY.contradictionThreshold
           enough == score >= TRIAGE_POLICY.minimumPromisingScore
           status == TriagedStatus(unfit, against, enough)
           seed == status \notin Hard
           v == triageOne(view, branches, task, scope)
<1>1. v = [view EXCEPT !.eligible = eligible, !.truthScore = truth,
                       !.score = score, !.status = status, !.seed = seed]
  BY DEF triageOne, TriagedStatus
<1>2. status \in Statuses
  <2> HIDE DEF unfit, against, enough
  <2> QED BY TriageRules, Zenon
<1>3. /\ view.id = <<p.id>> /\ view.truths = p.truths
      /\ view.prior = p.prior /\ view.novelty = p.novelty /\ view.cost = p.cost
      /\ view.risk = p.risk /\ view.support = Effect(p.id, evs, "supports")
      /\ view.contradiction = Effect(p.id, evs, "contradicts")
      /\ view.coverage = attentionCoverage(p, awake)
      /\ ViewFields \subseteq DOMAIN view
  BY DEF createAttentionView, ViewFields
<1>4. AreBranches(mine)
  <2>1. IsFiniteSet(mine)
    <3>1. mine \subseteq branches /\ IsFiniteSet(branches)
      BY DEF AreBranches
    <3> HIDE DEF mine
    <3> QED BY <3>1, FS_Subset
  <2> QED BY <2>1 DEF AreBranches
<1>5. \A effect : Effect(p.id, evs, effect) \in Int
  <2> SUFFICES ASSUME NEW effect PROVE Effect(p.id, evs, effect) \in Int
    OBVIOUS
  <2> DEFINE those == {e \in evs : e.view = p.id /\ e.effect = effect}
  <2>1. those \subseteq evs /\ IsFiniteSet(evs) /\ \A e \in those : e.weight \in Int
    BY DEF AreEvidence
  <2>2. Effect(p.id, evs, effect) = Pressure(those)
    BY DEF Effect
  <2> HIDE DEF those
  <2>3. IsFiniteSet(those)
    BY <2>1, FS_Subset
  <2> QED BY <2>1, <2>2, <2>3, PressureIsNumber
<1> HIDE DEF view, mine
<1>6. view.support \in Int /\ view.contradiction \in Int
  BY <1>3, <1>5, Zenon
<1>7. view.coverage \in Int
  BY <1>3, CoverageIsNumber
<1>8. truth \in Int
  BY <1>3, ConsistencyIsNumber
<1>9. confidence(vision) \in Int
  BY <1>4, ConfidenceIsNumber
<1> HIDE DEF vision, truth
<1>10. part \in Int
  <2>1. {view.prior, view.novelty, view.cost, view.risk} \subseteq Int
    BY <1>3
  <2>2. raw \in Int
    BY <1>6, <1>7, <1>8, <1>9, <2>1
  <2> HIDE DEF raw
  <2> QED BY <2>2
<1> HIDE DEF part
<1>11. score \in Int
  BY <1>10, ClampIsNumber, Zenon
<1> HIDE DEF score, eligible, status, seed, v
<1>12. /\ DOMAIN v = DOMAIN view /\ v.id = <<p.id>> /\ v.truths = p.truths
       /\ v.score = score /\ v.status = status
  BY <1>1, <1>3 DEF ViewFields
<1>13. v.id \in Seq({p.id}) /\ v.id # <<>>
  BY <1>12
<1>14. IsView(v)
  BY <1>3, <1>12, <1>13 DEF IsView
<1> QED BY <1>2, <1>11, <1>12, <1>14 DEF v, view

\* Two Views merge into one that both are within.
LEMMA MergedView ==
    ASSUME NEW left, IsView(left), NEW right, IsView(right)
    PROVE  /\ IsView(mergeViews(left, right)) /\ mergeViews(left, right).status = "candidate"
           /\ Within(left, mergeViews(left, right)) /\ Within(right, mergeViews(left, right))
<1> DEFINE best(m, n, part) == Clamp(Higher(m, n) + Scale(part, Lower(m, n)))
           stronger == IF left.score >= right.score THEN left ELSE right
           support == best(left.support, right.support, 150)
           contradiction == Lower(left.contradiction, right.contradiction)
           coverage == Higher(left.coverage, right.coverage)
           truthScore == Lower(left.truthScore, right.truthScore)
           cost == Lower(left.cost, right.cost)
           score == best(left.score, right.score, 80)
           conclusions == MergedConclusions(left, right)
           merged == mergeViews(left, right)
           id == left.id \o right.id
           attentions == left.attentions \cup right.attentions
           truths == left.truths \cup right.truths
           assumptions == left.assumptions \cup right.assumptions
           branches == left.branches \cup right.branches
           eligible == left.eligible \cup right.eligible
           questions == left.questions \cup right.questions
<1>1. merged = [stronger EXCEPT !.id = id, !.attentions = attentions, !.truths = truths,
                    !.assumptions = assumptions, !.branches = branches, !.eligible = eligible,
                    !.questions = questions, !.conclusions = conclusions, !.support = support,
                    !.contradiction = contradiction, !.coverage = coverage,
                    !.truthScore = truthScore, !.cost = cost, !.score = score,
                    !.status = "candidate"]
  BY Zenon DEF mergeViews
<1>2. ViewFields \subseteq DOMAIN stronger
  BY DEF IsView
<1> HIDE DEF stronger, support, contradiction, coverage, truthScore, cost, score, conclusions,
             merged, id, attentions, truths, assumptions, branches, eligible, questions
<1>3. /\ DOMAIN merged = DOMAIN stronger /\ merged.id = id /\ merged.attentions = attentions
      /\ merged.truths = truths /\ merged.questions = questions /\ merged.status = "candidate"
  BY <1>1, <1>2 DEF ViewFields
<1>4. PICK S : left.id \in Seq(S)
  BY DEF IsView
<1>5. PICK T : right.id \in Seq(T)
  BY DEF IsView
<1>6. /\ id \in Seq(S \cup T) /\ id # <<>>
      /\ \A n \in DOMAIN left.id : n \in DOMAIN id /\ id[n] = left.id[n]
      /\ \A n \in DOMAIN right.id : Len(left.id) + n \in DOMAIN id
                                    /\ id[Len(left.id) + n] = right.id[n]
  <2> DEFINE l == left.id
             r == right.id
  <2>1. l \in Seq(S \cup T) /\ r \in Seq(S \cup T)
    BY <1>4, <1>5
  <2>2. id = l \o r /\ l # <<>>
    BY DEF id, IsView
  <2> HIDE DEF l, r
  <2>3. /\ Len(l) \in Nat /\ DOMAIN l = 1..Len(l) /\ Len(r) \in Nat /\ DOMAIN r = 1..Len(r)
        /\ id \in Seq(S \cup T) /\ Len(id) = Len(l) + Len(r) /\ DOMAIN id = 1..Len(id)
        /\ \A n \in 1..(Len(l) + Len(r)) : id[n] = IF n <= Len(l) THEN l[n] ELSE r[n - Len(l)]
    BY <2>1, <2>2
  <2>4. Len(l) # 0
    BY <2>1, <2>2
  <2>5. id # <<>>
    BY <2>3, <2>4
  <2>6. \A n \in DOMAIN l : n \in DOMAIN id /\ id[n] = l[n]
    BY <2>3
  <2>7. \A n \in DOMAIN r : Len(l) + n \in DOMAIN id /\ id[Len(l) + n] = r[n]
    BY <2>3
  <2> QED BY <2>3, <2>5, <2>6, <2>7 DEF l, r
<1>7. IsFiniteSet(truths)
  <2>1. IsFiniteSet(left.truths) /\ IsFiniteSet(right.truths)
    BY DEF IsView
  <2>2. IsFiniteSet(left.truths \cup right.truths)
    BY <2>1, FS_Union
  <2> QED BY <2>2 DEF truths
<1>8. IsView(merged)
  BY <1>2, <1>3, <1>6, <1>7 DEF IsView
<1>9. Names(left) \subseteq Names(merged) /\ Names(right) \subseteq Names(merged)
  <2>1. ASSUME NEW n \in DOMAIN left.id PROVE left.id[n] \in {id[k] : k \in DOMAIN id}
    BY <1>6
  <2>2. ASSUME NEW n \in DOMAIN right.id PROVE right.id[n] \in {id[k] : k \in DOMAIN id}
    BY <1>6
  <2> QED BY <1>3, <2>1, <2>2 DEF Names
<1>10. Within(left, merged) /\ Within(right, merged)
  BY <1>3, <1>9 DEF Within, attentions, truths, questions
<1> QED BY <1>3, <1>8, <1>10 DEF merged

\* What the merging has at any time: the merged Views, and the redundant ones,
\* each of which is within a merged one that is not rejected.
Merging(result) ==
    /\ {"merged", "redundant"} \subseteq DOMAIN result
    /\ (\E S : result.merged \in Seq(S)) /\ (\E S : result.redundant \in Seq(S))
    /\ \A i \in DOMAIN result.merged :
          IsView(result.merged[i]) /\ result.merged[i].status \in Statuses
    /\ \A i \in DOMAIN result.redundant : LET v == result.redundant[i] IN
          /\ IsView(v) /\ v.status = "redundant"
          /\ \E j \in DOMAIN result.merged :
                result.merged[j].status \notin Hard /\ Within(v, result.merged[j])

\* What is within a View is within what that is within.
LEMMA WithinTransitive ==
    ASSUME NEW u, NEW v, NEW w, Within(u, v), Within(v, w) PROVE Within(u, w)
BY DEF Within

\* Merging one more View leaves it so.
LEMMA MergeStep ==
    ASSUME NEW result, Merging(result), NEW view, IsView(view), view.status \in Statuses
    PROVE  Merging(MergeInto(result, view))
<1> DEFINE merged == result.merged
           redundant == result.redundant
           twins == {i \in DOMAIN merged :
                       /\ merged[i].status \notin Hard
                       /\ viewSimilarity(merged[i], view) >= TRIAGE_POLICY.redundancyThreshold}
           k == Min(twins)
           both == mergeViews(merged[k], view)
           again == [view EXCEPT !.status = "redundant"]
           next == MergeInto(result, view)
<1>1. PICK S : merged \in Seq(S)
  BY DEF Merging
<1>2. PICK R : redundant \in Seq(R)
  BY DEF Merging
<1>3. next = IF view.status \in Hard \/ twins = {}
             THEN [result EXCEPT !.merged = Append(merged, view)]
             ELSE [result EXCEPT !.merged = [merged EXCEPT ![k] = both],
                                 !.redundant = Append(redundant, again)]
  <2>1. next = IF view.status \in Hard \/ twins = {}
               THEN [result EXCEPT !.merged = Append(@, view)]
               ELSE [result EXCEPT !.merged[k] = mergeViews(@, view), !.redundant = Append(@, again)]
    BY Zenon DEF MergeInto
  <2> HIDE DEF next, twins, k, again
  <2> QED BY <2>1 DEF Merging
<1>4. CASE view.status \in Hard \/ twins = {}
  <2>1. next.merged = Append(merged, view) /\ next.redundant = redundant
        /\ {"merged", "redundant"} \subseteq DOMAIN next
    BY <1>3, <1>4 DEF Merging
  <2>2. merged \in Seq(S \cup {view})
    BY <1>1
  <2>3. /\ Append(merged, view) \in Seq(S \cup {view})
        /\ \A i \in DOMAIN merged : i \in DOMAIN Append(merged, view)
                                    /\ Append(merged, view)[i] = merged[i]
        /\ \A i \in DOMAIN Append(merged, view) :
              Append(merged, view)[i] = view \/ i \in DOMAIN merged
    BY <2>2
  <2> HIDE DEF next, twins, again, both, k
  <2>4. ASSUME NEW i \in DOMAIN next.merged
        PROVE  IsView(next.merged[i]) /\ next.merged[i].status \in Statuses
    BY <2>1, <2>3 DEF Merging
  <2>5. ASSUME NEW i \in DOMAIN redundant
        PROVE  /\ IsView(redundant[i]) /\ redundant[i].status = "redundant"
               /\ \E j \in DOMAIN next.merged :
                     next.merged[j].status \notin Hard /\ Within(redundant[i], next.merged[j])
    <3>1. /\ IsView(redundant[i]) /\ redundant[i].status = "redundant"
          /\ \E j \in DOMAIN merged : merged[j].status \notin Hard /\ Within(redundant[i], merged[j])
      BY DEF Merging
    <3>2. PICK j \in DOMAIN merged : merged[j].status \notin Hard /\ Within(redundant[i], merged[j])
      BY <3>1
    <3>3. j \in DOMAIN next.merged /\ next.merged[j] = merged[j]
      BY <2>1, <2>3
    <3> QED BY <3>1, <3>2, <3>3
  <2>6. Merging(next)
    BY <1>2, <2>1, <2>3, <2>4, <2>5 DEF Merging
  <2> QED BY <2>6 DEF next
<1>5. CASE ~(view.status \in Hard \/ twins = {})
  <2>1. k \in DOMAIN merged /\ merged[k].status \notin Hard
    <3>1. twins \in SUBSET Nat
      BY <1>1
    <3>2. k \in twins
      <4> HIDE DEF twins
      <4> QED BY <1>5, <3>1, LeastOf
    <3> QED BY <3>2
  <2>2. IsView(merged[k])
    BY <2>1 DEF Merging
  <2>3. /\ IsView(both) /\ both.status = "candidate" /\ Within(merged[k], both) /\ Within(view, both)
    BY <2>2, MergedView
  <2>4. /\ next.merged = [merged EXCEPT ![k] = both] /\ next.redundant = Append(redundant, again)
        /\ {"merged", "redundant"} \subseteq DOMAIN next
    BY <1>3, <1>5 DEF Merging
  <2>5. /\ IsView(again) /\ again.status = "redundant" /\ Within(again, both)
    <3>1. /\ DOMAIN again = DOMAIN view /\ again.status = "redundant" /\ again.id = view.id
          /\ again.truths = view.truths /\ again.attentions = view.attentions
          /\ again.questions = view.questions
      BY DEF IsView, ViewFields
    <3> HIDE DEF again, both
    <3> QED BY <2>3, <3>1 DEF IsView, Within, Names
  <2> HIDE DEF next, twins, again, both, k
  <2>6. /\ next.merged \in Seq(S \cup {both}) /\ DOMAIN next.merged = DOMAIN merged
        /\ next.merged[k] = both
        /\ \A i \in DOMAIN merged : i # k => next.merged[i] = merged[i]
    <3>1. merged \in Seq(S \cup {both})
      BY <1>1
    <3> QED BY <2>1, <2>4, <3>1
  <2>7. ASSUME NEW i \in DOMAIN next.merged
        PROVE  IsView(next.merged[i]) /\ next.merged[i].status \in Statuses
    <3>1. "candidate" \in Statuses
      BY DEF Statuses
    <3> QED BY <2>3, <2>6, <3>1 DEF Merging
  <2>8. /\ redundant \in Seq(R \cup {again})
        /\ next.redundant \in Seq(R \cup {again})
        /\ \A i \in DOMAIN next.redundant :
              next.redundant[i] = again \/ (i \in DOMAIN redundant
                                            /\ next.redundant[i] = redundant[i])
    <3>1. redundant \in Seq(R \cup {again})
      BY <1>2
    <3> QED BY <2>4, <3>1
  <2>9. ASSUME NEW i \in DOMAIN next.redundant
        PROVE  /\ IsView(next.redundant[i]) /\ next.redundant[i].status = "redundant"
               /\ \E j \in DOMAIN next.merged : /\ next.merged[j].status \notin Hard
                                                /\ Within(next.redundant[i], next.merged[j])
    <3>0. "candidate" \notin Hard
      BY DEF Hard
    <3>1. CASE next.redundant[i] = again
      BY <2>1, <2>3, <2>5, <2>6, <3>0, <3>1
    <3>2. CASE i \in DOMAIN redundant /\ next.redundant[i] = redundant[i]
      <4>1. /\ IsView(redundant[i]) /\ redundant[i].status = "redundant"
            /\ \E j \in DOMAIN merged :
                  merged[j].status \notin Hard /\ Within(redundant[i], merged[j])
        BY <3>2 DEF Merging
      <4>2. PICK j \in DOMAIN merged :
                merged[j].status \notin Hard /\ Within(redundant[i], merged[j])
        BY <4>1
      <4>3. CASE j = k
        <5>1. Within(redundant[i], both)
          BY <2>3, <4>2, <4>3, WithinTransitive
        <5> QED BY <2>1, <2>3, <2>6, <3>0, <3>2, <4>1, <5>1
      <4>4. CASE j # k
        BY <2>6, <3>2, <4>1, <4>2, <4>4
      <4> QED BY <4>3, <4>4
    <3> QED BY <2>8, <3>1, <3>2
  <2>10. Merging(next)
    BY <2>4, <2>6, <2>7, <2>8, <2>9 DEF Merging
  <2> QED BY <2>10 DEF next
<1> QED BY <1>4, <1>5

Merged(unused, neither, result, view) == MergeInto(result, view)
MergingAll == INSTANCE EvidenceProofs WITH Op <- Merged

\* Merging Views one after the other loses none.
LEMMA MergeAllKeeps ==
    ASSUME NEW base, Merging(base), NEW n \in Nat, NEW s, DOMAIN s = 1..n,
           \A i \in 1..n : IsView(s[i]) /\ s[i].status \in Statuses
    PROVE  Merging(FoldLeft(MergeInto, base, s))
<1>1. FoldLeft(MergeInto, base, s) = MergingAll!FoldedSequence({}, {}, base, s)
  BY Zenon DEF FoldLeft, MapThenFoldSet, Max, MergingAll!FoldedSequence, MergingAll!FoldLeft,
               MergingAll!MapThenFoldSet, MergingAll!Max, Merged
<1>2. PICK run : /\ MergingAll!LeftToRight(run, {}, {}, base, s, n)
                 /\ MergingAll!FoldedSequence({}, {}, base, s) = run[n]
  BY MergingAll!SequenceRun
<1>2a. run[0] = base /\ \A k \in 1..n : run[k] = MergeInto(run[k - 1], s[k])
  BY <1>2, Zenon DEF MergingAll!LeftToRight, Merged
<1> DEFINE A == {k \in Nat : k <= n => Merging(run[k])}
<1>3. 0 \in A
  BY <1>2a
<1>4. ASSUME NEW k \in Nat, k \in A PROVE k + 1 \in A
  <2> SUFFICES ASSUME k + 1 <= n PROVE Merging(run[k + 1])
    OBVIOUS
  <2>1. k + 1 \in 1..n /\ (k + 1) - 1 = k /\ Merging(run[k])
    BY <1>4
  <2>2. run[k + 1] = MergeInto(run[k], s[k + 1])
    BY <1>2a, <2>1
  <2> QED BY <2>1, <2>2, MergeStep
<1> HIDE DEF A
<1>5. Nat \subseteq A
  BY <1>3, <1>4, NaturalInduction
<1> QED BY <1>1, <1>2, <1>5 DEF A

\* The status the ranking gives a View: by its own, and whether it is the
\* dominant View, an active or a deferred one.
RankOf(own, first, active, deferred) ==
    FirstOf(<< <<first, "dominant">>, <<active, "promising">>, <<deferred, "deferred">>,
               <<own \in Hard, own>>, <<TRUE, "exhausted">> >>)

\* One that is not rejected is not ranked as if it was.
LEMMA RankRules ==
    ASSUME NEW own, NEW first, NEW active, NEW deferred
    PROVE  /\ RankOf(own, first, active, deferred)
                \in {"dominant", "promising", "deferred", "exhausted"} \cup Hard
           /\ own \notin Hard => RankOf(own, first, active, deferred) \notin Hard
<1> DEFINE c == own \in Hard
           rules == << <<first, "dominant">>, <<active, "promising">>, <<deferred, "deferred">>,
                       <<c, own>>, <<TRUE, "exhausted">> >>
<1>1. RankOf(own, first, active, deferred) = FirstOf(rules)
  BY Zenon DEF RankOf
<1> HIDE DEF c
<1>2. /\ DOMAIN rules = 1..5
      /\ rules[1][2] = "dominant" /\ rules[2][2] = "promising" /\ rules[3][2] = "deferred"
      /\ rules[4][1] = c /\ rules[4][2] = own
      /\ rules[5][1] = TRUE /\ rules[5][2] = "exhausted"
  OBVIOUS
<1> HIDE DEF rules
<1>3. PICK i \in 1..5 : HoldsFirst(rules, i) /\ FirstOf(rules) = rules[i][2]
  <2>1. 5 \in Nat /\ 5 \in 1..5
    OBVIOUS
  <2>2. rules[5][1]
    BY <1>2
  <2> QED BY <1>2, <2>1, <2>2, FirstRule, Zenon
<1>4. CASE i = 4
  <2>1. c
    <3>1. rules[i][1]
      BY <1>3, Zenon DEF HoldsFirst
    <3> QED BY <1>2, <1>4, <3>1
  <2> QED BY <1>1, <1>2, <1>3, <1>4, <2>1 DEF c
<1>5. CASE i # 4
  <2>1. rules[i][2] \in {"dominant", "promising", "deferred", "exhausted"}
    BY <1>2, <1>5
  <2> QED BY <1>1, <1>3, <2>1 DEF Hard
<1> QED BY <1>4, <1>5

\* The ranking moves nothing but the status of a merged View.
LEMMA RankedViews ==
    ASSUME NEW merged, NEW S, merged \in Seq(S),
           \A i \in DOMAIN merged : IsView(merged[i]) /\ merged[i].status \in Statuses
    PROVE  /\ Ranked(merged) \in Seq({Ranked(merged)[i] : i \in DOMAIN merged})
           /\ DOMAIN Ranked(merged) = DOMAIN merged
           /\ \A i \in DOMAIN merged : LET v == Ranked(merged)[i] IN
                 /\ IsView(v) /\ v.id = merged[i].id /\ Within(merged[i], v)
                 /\ v.status \in {"dominant", "promising", "deferred", "exhausted"} \cup Hard
                 /\ merged[i].status \notin Hard => v.status \notin Hard
<1> DEFINE eligible == ByScore(AtPlaces(merged, {i \in DOMAIN merged : merged[i].status \notin Hard}))
           active == SubSeq(eligible, 1, Lower(MaxActiveViews, Len(eligible)))
           deferred == SubSeq(eligible, Len(active) + 1,
                              Lower(MaxActiveViews + MaxDeferredViews, Len(eligible)))
           rank(i) == RankOf(merged[i].status, merged[i].id = dominantViewId(active),
                             merged[i].id \in ViewIds(active), merged[i].id \in ViewIds(deferred))
           ranked == Ranked(merged)
<1>1. ranked = [i \in DOMAIN merged |-> [merged[i] EXCEPT !.status = rank(i)]]
  BY Zenon DEF Ranked, RankOf
<1> HIDE DEF eligible, active, deferred
<1>2. \A i \in DOMAIN merged :
          /\ rank(i) \in {"dominant", "promising", "deferred", "exhausted"} \cup Hard
          /\ merged[i].status \notin Hard => rank(i) \notin Hard
  BY RankRules, Zenon
<1> HIDE DEF rank, ranked
<1>3. PICK n \in Nat : DOMAIN merged = 1..n
  OBVIOUS
<1>4. /\ DOMAIN ranked = 1..n /\ ranked = [i \in 1..n |-> ranked[i]]
      /\ \A i \in 1..n : ranked[i] = [merged[i] EXCEPT !.status = rank(i)]
  BY <1>1, <1>3
<1>5. ranked \in Seq({ranked[i] : i \in 1..n})
  BY <1>4
<1>6. ASSUME NEW i \in DOMAIN merged
      PROVE  /\ IsView(ranked[i]) /\ ranked[i].id = merged[i].id /\ Within(merged[i], ranked[i])
             /\ ranked[i].status = rank(i)
  <2>1. IsView(merged[i]) /\ ranked[i] = [merged[i] EXCEPT !.status = rank(i)]
    BY <1>3, <1>4
  <2>2. /\ DOMAIN ranked[i] = DOMAIN merged[i] /\ ranked[i].id = merged[i].id
        /\ ranked[i].truths = merged[i].truths /\ ranked[i].attentions = merged[i].attentions
        /\ ranked[i].questions = merged[i].questions /\ ranked[i].status = rank(i)
    BY <2>1 DEF IsView, ViewFields
  <2> QED BY <2>1, <2>2 DEF IsView, Within, Names
<1> QED BY <1>2, <1>3, <1>4, <1>5, <1>6 DEF ranked

\* What a triage leaves: no View is lost, and all have finitely many truths.
TriageInv == NoViewIsLost /\ \A i \in DOMAIN triage.views : IsFiniteSet(triage.views[i].truths)

\* A triage establishes it.
LEMMA TriageStep ==
    ASSUME NEW proposals, AreProposals(proposals),
           NEW awake, IsFiniteSet(awake), \A f \in awake : f.weight \in Nat,
           NEW evs, AreEvidence(evs), NEW branches, AreBranches(branches), NEW task, NEW scope,
           triage' = triageResult(proposals, awake, evs, branches, task, scope)
    PROVE  TriageInv'
<1> DEFINE triaged == [i \in DOMAIN proposals |->
                         triageOne(createAttentionView(proposals[i], awake, evs),
                                   branches, task, scope)]
           result == FoldLeft(MergeInto, [merged |-> <<>>, redundant |-> <<>>], ByScore(triaged))
           ranked == Ranked(result.merged)
           redundant == result.redundant
           views == ranked \o redundant
           traced == {i \in DOMAIN views : views[i].status \in
                        {"ineligible", "contradicted", "redundant", "exhausted"}}
           rejected == AtPlaces(views, traced)
           n == Len(proposals)
<1>1. /\ triage'.views = views
      /\ triage'.rejectedTraces = [i \in DOMAIN rejected |->
             [view |-> rejected[i].id, verdict |-> rejectedVerdict(rejected[i], scope)]]
  BY DEF triageResult
<1>2. /\ n \in Nat /\ DOMAIN triaged = 1..n
      /\ \A i \in 1..n : /\ IsView(triaged[i]) /\ triaged[i].score \in Int
                         /\ triaged[i].status \in Statuses
  <2>1. n \in Nat /\ DOMAIN proposals = 1..n
    BY DEF AreProposals
  <2>2. ASSUME NEW i \in 1..n
        PROVE  /\ IsView(triaged[i]) /\ triaged[i].score \in Int
               /\ triaged[i].status \in Statuses
    <3>1. /\ {proposals[i].prior, proposals[i].novelty, proposals[i].cost, proposals[i].risk}
               \subseteq Int
          /\ IsFiniteSet(proposals[i].truths)
      BY <2>1 DEF AreProposals
    <3>2. triaged[i] = triageOne(createAttentionView(proposals[i], awake, evs),
                                 branches, task, scope)
      BY <2>1
    <3> HIDE DEF triaged
    <3> QED BY <3>1, <3>2, TriagedView
  <2> QED BY <2>1, <2>2
<1> HIDE DEF triaged, n
<1>3. /\ DOMAIN ByScore(triaged) = 1..n
      /\ \A k \in 1..n : IsView(ByScore(triaged)[k]) /\ ByScore(triaged)[k].status \in Statuses
  <2>1. /\ DOMAIN ByScore(triaged) = 1..n
        /\ \A k \in 1..n : \E i \in 1..n : ByScore(triaged)[k] = triaged[i]
    BY <1>2, InScoreOrder
  <2> QED BY <1>2, <2>1
<1>4. Merging(result)
  <2> DEFINE base == [merged |-> <<>>, redundant |-> <<>>]
  <2>1. base.merged = <<>> /\ base.redundant = <<>> /\ DOMAIN base = {"merged", "redundant"}
        /\ <<>> \in Seq({}) /\ DOMAIN <<>> = {}
    OBVIOUS
  <2> HIDE DEF base
  <2>2. Merging(base)
    BY <2>1 DEF Merging
  <2>3. Merging(FoldLeft(MergeInto, base, ByScore(triaged)))
    BY <1>2, <1>3, <2>2, MergeAllKeeps
  <2> QED BY <2>3 DEF base
<1> HIDE DEF result
<1> DEFINE merged == result.merged
<1>5. PICK S : merged \in Seq(S)
  BY <1>4 DEF Merging
<1>6. PICK R : redundant \in Seq(R)
  BY <1>4 DEF Merging
<1>7. /\ \A i \in DOMAIN merged : IsView(merged[i]) /\ merged[i].status \in Statuses
      /\ \A i \in DOMAIN redundant :
            /\ IsView(redundant[i]) /\ redundant[i].status = "redundant"
            /\ \E j \in DOMAIN merged :
                  merged[j].status \notin Hard /\ Within(redundant[i], merged[j])
  BY <1>4 DEF Merging
<1>8. /\ ranked \in Seq({ranked[i] : i \in DOMAIN merged}) /\ DOMAIN ranked = DOMAIN merged
      /\ \A i \in DOMAIN merged :
            /\ IsView(ranked[i]) /\ Within(merged[i], ranked[i])
            /\ ranked[i].status \in {"dominant", "promising", "deferred", "exhausted"} \cup Hard
            /\ merged[i].status \notin Hard => ranked[i].status \notin Hard
  BY <1>5, <1>7, RankedViews
<1> HIDE DEF ranked, redundant, merged
<1>9. /\ Len(views) \in Nat /\ DOMAIN views = 1..Len(views)
      /\ \A i \in DOMAIN ranked : i \in DOMAIN views /\ views[i] = ranked[i]
      /\ \A i \in DOMAIN views : \/ i \in DOMAIN ranked /\ views[i] = ranked[i]
                                 \/ \E j \in DOMAIN redundant : views[i] = redundant[j]
  <2>1. PICK Q : ranked \in Seq(Q) /\ redundant \in Seq(Q)
    <3> DEFINE Q == {ranked[i] : i \in DOMAIN merged} \cup R
    <3>1. ranked \in Seq(Q) /\ redundant \in Seq(Q)
      BY <1>6, <1>8
    <3> QED BY <3>1
  <2>2. /\ Len(ranked) \in Nat /\ DOMAIN ranked = 1..Len(ranked)
        /\ Len(redundant) \in Nat /\ DOMAIN redundant = 1..Len(redundant)
        /\ Len(views) = Len(ranked) + Len(redundant) /\ DOMAIN views = 1..Len(views)
        /\ \A i \in 1..(Len(ranked) + Len(redundant)) :
              views[i] = IF i <= Len(ranked) THEN ranked[i] ELSE redundant[i - Len(ranked)]
    BY <2>1
  <2> HIDE DEF views
  <2>3. ASSUME NEW i \in DOMAIN views
        PROVE  \/ i \in DOMAIN ranked /\ views[i] = ranked[i]
               \/ \E j \in DOMAIN redundant : views[i] = redundant[j]
    <3>1. CASE i <= Len(ranked)
      BY <2>2, <3>1
    <3>2. CASE ~(i <= Len(ranked))
      <4>1. i - Len(ranked) \in DOMAIN redundant /\ views[i] = redundant[i - Len(ranked)]
        BY <2>2, <3>2
      <4> QED BY <4>1
    <3> QED BY <3>1, <3>2
  <2> QED BY <2>2, <2>3
<1>10. \A i \in DOMAIN views :
          /\ IsView(views[i])
          /\ views[i].status \in {"dominant", "promising", "deferred", "exhausted", "redundant"}
                                 \cup Hard
  BY <1>7, <1>8, <1>9
<1>11. ASSUME NEW i \in DOMAIN views, views[i].status = "redundant"
       PROVE  \E j \in DOMAIN views : /\ views[j].status \notin Hard \cup {"redundant"}
                                      /\ Within(views[i], views[j])
  <2>0. i \notin DOMAIN ranked \/ views[i] # ranked[i]
    BY <1>8, <1>11 DEF Hard
  <2>1. PICK m \in DOMAIN redundant : views[i] = redundant[m]
    BY <1>9, <2>0
  <2>2. PICK j \in DOMAIN merged :
            merged[j].status \notin Hard /\ Within(redundant[m], merged[j])
    BY <1>7
  <2>3. Within(views[i], ranked[j])
    BY <1>8, <2>1, <2>2, WithinTransitive
  <2>4. ranked[j].status \notin Hard \cup {"redundant"}
    BY <1>8, <2>2 DEF Hard
  <2> QED BY <1>8, <1>9, <2>3, <2>4
<1>12. ASSUME NEW i \in DOMAIN views,
              views[i].status \notin {"dominant", "promising", "deferred"}
       PROVE  \E k \in DOMAIN rejected : rejected[k].id = views[i].id
  <2>1. i \in traced
    BY <1>10, <1>12 DEF Hard
  <2>2. \E k \in 1..Cardinality(traced) : rejected[k] = views[i]
    <3>1. traced \in SUBSET DOMAIN views
      OBVIOUS
    <3> HIDE DEF traced, views
    <3> QED BY <1>9, <2>1, <3>1, ElementsAt
  <2>3. DOMAIN rejected = 1..Cardinality(traced)
    BY DEF AtPlaces
  <2> HIDE DEF rejected, views
  <2> QED BY <2>2, <2>3
<1> HIDE DEF views, rejected
<1>13. \A k \in DOMAIN rejected : /\ k \in DOMAIN triage'.rejectedTraces
                                  /\ triage'.rejectedTraces[k].view = rejected[k].id
  BY <1>1
<1>14. ASSUME NEW i \in DOMAIN views
       PROVE  views[i].id[1] \in Names(views[i])
  <2>1. PICK Q : views[i].id \in Seq(Q) /\ views[i].id # <<>>
    BY <1>10 DEF IsView
  <2>2. 1 \in DOMAIN views[i].id
    <3> DEFINE id == views[i].id
    <3>1. id \in Seq(Q) /\ id # <<>>
      BY <2>1
    <3> HIDE DEF id
    <3>2. 1 \in DOMAIN id
      BY <3>1
    <3> QED BY <3>2 DEF id
  <2> QED BY <2>2 DEF Names
<1>15. ASSUME NEW i \in DOMAIN views, views[i].status = "redundant"
       PROVE  \E j \in DOMAIN views :
                  /\ views[j].status \notin Hard \cup {"redundant"}
                  /\ views[i].id[1] \in {views[j].id[k] : k \in DOMAIN views[j].id}
                  /\ views[i].attentions \subseteq views[j].attentions
                  /\ views[i].truths \subseteq views[j].truths
                  /\ views[i].questions \subseteq views[j].questions
  BY <1>11, <1>14, <1>15 DEF Within, Names
<1>16. ASSUME NEW i \in DOMAIN views,
              views[i].status \notin {"dominant", "promising", "deferred"}
       PROVE  \E k \in DOMAIN triage'.rejectedTraces :
                  triage'.rejectedTraces[k].view = views[i].id
  BY <1>12, <1>13, <1>16
<1>17. NoViewIsLost'
  BY <1>1, <1>15, <1>16 DEF NoViewIsLost
<1>18. \A i \in DOMAIN views : IsFiniteSet(views[i].truths)
  BY <1>10 DEF IsView
<1> QED BY <1>1, <1>17, <1>18 DEF TriageInv

-----------------------------------------------------------------------------
(* The global understanding                                                *)

\* Besides the one dominant model, every model has a status to change.
UnderstandingInv ==
    /\ OneDominantModel
    /\ \A m \in DOMAIN models : "status" \in DOMAIN models[m]

\* A revision changes what a model holds and not which fields it has.
LEMMA RevisedFields ==
    ASSUME NEW m, NEW observations
    PROVE  DOMAIN reviseModel(m, observations) = DOMAIN models[m]
<1> DEFINE model == models[m]
           relevant == observationsForModel(m, observations)
           support == Pressure(Supporting(relevant))
           challenge == Pressure(Challenging(relevant))
           drift == contextDrift(model, relevant)
           truth == Pressure({o \in Challenging(relevant) : o.kind = "truth_change"})
           sameContext == {o \in relevant : o.fingerprint = model.fingerprint}
           pressure == Clamp(Scale(challenge, 480)
                             + Scale(drift, UNDERSTANDING_POLICY.contextDriftWeight)
                             + Scale(truth, UNDERSTANDING_POLICY.truthChangeWeight))
           coherence == Clamp((model.coherence * 72 + support * 28 - challenge * 24 - drift * 12)
                              \div 100)
           inertia == UNDERSTANDING_POLICY.stabilityInertia
           claims == [c \in DOMAIN model.claims |-> reviseClaim(c, model.claims[c], relevant)]
           stability == Clamp(Scale(model.stability, inertia) + Scale(coherence, 1000 - inertia)
                              - Scale(pressure, 220))
           plasticity == Clamp((model.plasticity * 68 + pressure * 32 + support * 8) \div 100)
           uncertainty ==
               Clamp((model.uncertainty * 76 + challenge * 32 - support * 20) \div 100)
           coverage == Clamp(Scale(model.coverage, 700) + 60 * Cardinality(sameContext)
                             + Scale(support, 120) - Scale(drift, 250))
           contradiction ==
               Clamp((model.contradiction * 55 + challenge * 65 - support * 20) \div 100)
           supportKeys == model.supportKeys \cup Keys(Supporting(relevant))
           challengeKeys == model.challengeKeys \cup Keys(Challenging(relevant))
<1>1. reviseModel(m, observations) =
        [models[m] EXCEPT
            !.claims = claims, !.coherence = coherence, !.stability = stability,
            !.plasticity = plasticity, !.uncertainty = uncertainty, !.coverage = coverage,
            !.contradiction = contradiction, !.pressure = pressure,
            !.supportKeys = supportKeys, !.challengeKeys = challengeKeys]
  BY Zenon DEF reviseModel
<1> HIDE DEF claims, coherence, stability, plasticity, uncertainty, coverage, contradiction,
             pressure, supportKeys, challengeKeys
<1>2. DOMAIN [models[m] EXCEPT
            !.claims = claims, !.coherence = coherence, !.stability = stability,
            !.plasticity = plasticity, !.uncertainty = uncertainty, !.coverage = coverage,
            !.contradiction = contradiction, !.pressure = pressure,
            !.supportKeys = supportKeys, !.challengeKeys = challengeKeys] = DOMAIN models[m]
  BY Zenon
<1> QED BY <1>1, <1>2, Zenon

\* Only a listed alternative other than the dominant model is promoted.
LEMMA ChosenIsAlternative ==
    ASSUME NEW revised, NEW best \in chooseAlternative(revised)
    PROVE  best \in alternativeModelIds /\ best \in DOMAIN models /\ best # dominantModelId
BY DEF chooseAlternative

\* A batch of observations keeps one dominant model, whatever the gate decides.
LEMMA ObservationsStep ==
    ASSUME UnderstandingInv, NEW observations, NEW id, NEW replacement,
           "status" \in DOMAIN replacement,
           applyUnderstandingObservations(observations, id, replacement)
    PROVE  UnderstandingInv'
<1> DEFINE revised == reviseModel(dominantModelId, observations)
<1>1. /\ dominantModelId \in DOMAIN models
      /\ DOMAIN models = {dominantModelId} \cup alternativeModelIds
      /\ \A m \in DOMAIN models : models[m].status = "dominant" => m = dominantModelId
      /\ \A m \in DOMAIN models : "status" \in DOMAIN models[m]
  BY DEF UnderstandingInv, OneDominantModel
<1>2. "status" \in DOMAIN revised
  BY <1>1, RevisedFields
<1> HIDE DEF revised
<1>3. ASSUME NEW best \in chooseAlternative(revised), Promote(revised, best)
      PROVE  UnderstandingInv'
  <2>1. best \in alternativeModelIds /\ best \in DOMAIN models /\ best # dominantModelId
    BY <1>3, ChosenIsAlternative
  <2> DEFINE demoted == [revised EXCEPT !.status = "alternative"]
  <2>2. "status" \in DOMAIN demoted /\ demoted.status = "alternative"
    BY <1>2
  <2> HIDE DEF demoted
  <2>3. /\ models' = [models EXCEPT ![dominantModelId] = demoted, ![best].status = "dominant"]
        /\ dominantModelId' = best
        /\ alternativeModelIds' = (alternativeModelIds \ {best}) \cup {dominantModelId}
    BY <1>3 DEF Promote, demoted
  <2>4. DOMAIN models' = DOMAIN models
    BY <2>3
  <2>5. models'[dominantModelId] = demoted
    BY <1>1, <2>1, <2>3
  <2>6. \A m \in DOMAIN models \ {dominantModelId, best} : models'[m] = models[m]
    BY <2>3
  <2>7. "status" \in DOMAIN models'[best]
    BY <1>1, <2>1, <2>3
  <2> QED BY <1>1, <2>1, <2>2, <2>3, <2>4, <2>5, <2>6, <2>7 DEF UnderstandingInv, OneDominantModel
<1>4. ASSUME Replace(revised, id, replacement) PROVE UnderstandingInv'
  <2> DEFINE new == [replacement EXCEPT !.status = "dominant",
                                        !.derivedFrom = @ \cup {dominantModelId}]
  <2>1. "status" \in DOMAIN new
    OBVIOUS
  <2> HIDE DEF new
  <2>2. "status" \in DOMAIN Challenged(revised) /\ Challenged(revised).status = "challenged"
    BY <1>2 DEF Challenged
  <2>3. /\ models' = [m \in DOMAIN models \cup {id} |->
                        IF m = id THEN new
                        ELSE IF m = dominantModelId THEN Challenged(revised) ELSE models[m]]
        /\ dominantModelId' = id
        /\ alternativeModelIds' = (alternativeModelIds \ {id}) \cup {dominantModelId}
    BY <1>4 DEF Replace, new
  <2> QED BY <1>1, <2>1, <2>2, <2>3 DEF UnderstandingInv, OneDominantModel
<1>5. ASSUME NEW m \in {revised, Challenged(revised)},
             models' = [models EXCEPT ![dominantModelId] = m],
             UNCHANGED <<dominantModelId, alternativeModelIds>>
      PROVE  UnderstandingInv'
  <2>1. "status" \in DOMAIN m
    BY <1>2 DEF Challenged
  <2> QED BY <1>1, <1>5, <2>1 DEF UnderstandingInv, OneDominantModel
<1> QED BY <1>3, <1>4, <1>5 DEF applyUnderstandingObservations, revised

-----------------------------------------------------------------------------
(* Unlearning                                                              *)

\* Besides the way back, habits, inhibitions and entries have the fields by
\* which they are found.
UnlearningInv ==
    /\ SuspendedHabitsHaveAWayBack
    /\ DOMAIN habits = Habits
    /\ \A h \in Habits : "status" \in DOMAIN habits[h]
    /\ \A i \in inhibitions : {"habit", "conditions"} \subseteq DOMAIN i
    /\ \A e \in recoveryRegistry : {"habit", "required"} \subseteq DOMAIN e

\* A decision that suspends a habit says how it may come back.
LEMMA SuspendingHasConditions ==
    ASSUME NEW h, NEW drift, NEW action \in Suspending
    PROVE  recoveryConditions(h, drift, action) # {}
BY DEF recoveryConditions, Suspending

\* No other decision makes a habit suspended that was not.
LEMMA OnlySuspendingSuspends ==
    ASSUME NEW action, NEW status, action \notin Suspending, StatusAfter(action, status) \in Suspended
    PROVE  status \in Suspended
BY DEF StatusAfter, Suspending, Suspended

\* The status of a habit after a decision, and its fields.
LEMMA DecidedStatus ==
    ASSUME NEW h, NEW drift, NEW decision, NEW replacement, "status" \in DOMAIN habits[h]
    PROVE  LET after == applyDecisionToHabit(h, drift, decision, replacement)
           IN  /\ DOMAIN after = DOMAIN habits[h]
               /\ after.status = StatusAfter(decision.action, habits[h].status)
BY DEF applyDecisionToHabit

\* An evaluation leaves every suspended habit a way back: the habit it suspends
\* now, those suspended before, and the one it leaves suspended.
LEMMA EvaluationStep ==
    ASSUME UnlearningInv, NEW h, NEW observations, NEW replacement,
           evaluateHabitForUnlearning(h, observations, replacement)
    PROVE  UnlearningInv'
<1> DEFINE drift == assessContextDrift(h, observations)
           decision == buildDecision(h, observations, replacement)
           after == applyDecisionToHabit(h, drift, decision, replacement)
           inhibition == [decision |-> decision.number, habit |-> h,
                          conditions |-> decision.conditions, active |-> TRUE]
<1>1. decision.conditions = recoveryConditions(h, drift, decision.action)
  BY DEF buildDecision
<1>2. /\ habits' = [habits EXCEPT ![h] = after]
      /\ \/ /\ decision.action \in Suspending
            /\ inhibitions' = inhibitions \cup {inhibition}
            /\ recoveryRegistry' = upsertRecovery(h, decision.conditions)
         \/ /\ decision.action \notin Suspending
            /\ UNCHANGED <<inhibitions, recoveryRegistry>>
  BY DEF evaluateHabitForUnlearning
<1>3. /\ inhibition.habit = h /\ inhibition.active /\ inhibition.conditions = decision.conditions
      /\ {"habit", "conditions"} \subseteq DOMAIN inhibition
  OBVIOUS
<1>4. h \in Habits => /\ "status" \in DOMAIN after
                      /\ after.status = StatusAfter(decision.action, habits[h].status)
  BY DecidedStatus DEF UnlearningInv
<1> HIDE DEF decision, drift, after, inhibition
<1>5. DOMAIN habits' = Habits /\ \A g \in Habits : "status" \in DOMAIN habits'[g]
  BY <1>2, <1>4 DEF UnlearningInv
<1>6. \A g \in Habits : g # h => habits'[g] = habits[g]
  BY <1>2 DEF UnlearningInv
<1>7. h \in Habits => habits'[h] = after
  BY <1>2 DEF UnlearningInv
<1>8. CASE decision.action \in Suspending
  <2> DEFINE required == decision.conditions
             same == {e \in recoveryRegistry : e.habit = h /\ e.required = required}
             entry == [habit |-> h, required |-> required,
                       satisfied |-> UNION {e.satisfied : e \in same}, ready |-> FALSE]
  <2>1. inhibitions' = inhibitions \cup {inhibition}
        /\ recoveryRegistry' = (recoveryRegistry \ same) \cup {entry}
    BY <1>2, <1>8 DEF upsertRecovery
  <2>2. entry.habit = h /\ entry.required = required /\ {"habit", "required"} \subseteq DOMAIN entry
    OBVIOUS
  <2>3. required # {}
    BY <1>1, <1>8, SuspendingHasConditions
  <2> HIDE DEF entry, required
  <2>4. \A i \in inhibitions' : {"habit", "conditions"} \subseteq DOMAIN i
    BY <1>3, <2>1 DEF UnlearningInv
  <2>5. \A e \in recoveryRegistry' : {"habit", "required"} \subseteq DOMAIN e
    BY <2>1, <2>2 DEF UnlearningInv
  <2>6. ASSUME NEW g \in Habits, habits'[g].status \in Suspended
        PROVE  \E i \in inhibitions' :
                  /\ i.habit = g /\ i.active /\ i.conditions # {}
                  /\ \E e \in recoveryRegistry' : e.habit = g /\ e.required = i.conditions
    <3>1. CASE g = h
      BY <1>3, <2>1, <2>2, <2>3, <3>1 DEF required
    <3>2. CASE g # h
      <4>1. PICK i \in inhibitions :
                  /\ i.habit = g /\ i.active /\ i.conditions # {}
                  /\ \E e \in recoveryRegistry : e.habit = g /\ e.required = i.conditions
        BY <1>6, <2>6, <3>2 DEF UnlearningInv, SuspendedHabitsHaveAWayBack
      <4>2. PICK e \in recoveryRegistry : e.habit = g /\ e.required = i.conditions
        BY <4>1
      <4>3. e \in recoveryRegistry' /\ i \in inhibitions'
        BY <2>1, <3>2, <4>2
      <4> QED BY <4>1, <4>2, <4>3
    <3> QED BY <3>1, <3>2
  <2> QED BY <1>5, <2>4, <2>5, <2>6 DEF UnlearningInv, SuspendedHabitsHaveAWayBack
<1>9. CASE decision.action \notin Suspending
  <2>1. UNCHANGED <<inhibitions, recoveryRegistry>>
    BY <1>2, <1>9
  <2>2. \A g \in Habits : habits'[g].status \in Suspended => habits[g].status \in Suspended
    BY <1>4, <1>6, <1>7, <1>9, OnlySuspendingSuspends
  <2> QED BY <1>5, <2>1, <2>2 DEF UnlearningInv, SuspendedHabitsHaveAWayBack
<1> QED BY <1>8, <1>9

\* Conditions reported for a habit bring it back or leave its way back open,
\* and do not touch that of another.
LEMMA ReactivationStep ==
    ASSUME UnlearningInv, NEW h \in Habits, NEW satisfied, reactivateHabit(h, satisfied)
    PROVE  UnlearningInv'
<1> DEFINE told(e) == IF e.habit = h
                      THEN [e EXCEPT !.satisfied = @ \cup satisfied,
                                     !.ready = e.required \subseteq satisfied]
                      ELSE e
           lifted(i) == IF i.habit = h THEN [i EXCEPT !.active = FALSE] ELSE i
           ready == \E e \in recoveryRegistry : e.habit = h /\ e.required \subseteq satisfied
<1>1. recoveryRegistry' = {told(e) : e \in recoveryRegistry}
  BY DEF reactivateHabit
<1>2. /\ ready => /\ habits' = [habits EXCEPT ![h].status = "challenged",
                                              ![h].automaticity = Lower(@, 450),
                                              ![h].applicability = Higher(@, 450)]
                  /\ inhibitions' = {lifted(i) : i \in inhibitions}
      /\ ~ready => UNCHANGED <<habits, inhibitions>>
  BY DEF reactivateHabit
<1>3. \A e \in recoveryRegistry :
          /\ told(e).habit = e.habit /\ told(e).required = e.required
          /\ {"habit", "required"} \subseteq DOMAIN told(e)
  BY DEF UnlearningInv
<1>4. \A i \in inhibitions : /\ {"habit", "conditions"} \subseteq DOMAIN lifted(i)
                             /\ i.habit # h => lifted(i) = i
  BY DEF UnlearningInv
<1> HIDE DEF told, lifted, ready
<1>5. /\ DOMAIN habits' = Habits
      /\ \A g \in Habits : "status" \in DOMAIN habits'[g]
      /\ \A g \in Habits : g # h => habits'[g] = habits[g]
      /\ ready => habits'[h].status = "challenged"
      /\ ~ready => habits'[h] = habits[h]
  BY <1>2 DEF UnlearningInv
<1>6. \A i \in inhibitions' : {"habit", "conditions"} \subseteq DOMAIN i
  BY <1>2, <1>4 DEF UnlearningInv
<1>7. \A e \in recoveryRegistry' : {"habit", "required"} \subseteq DOMAIN e
  BY <1>1, <1>3
<1>8. ASSUME NEW g \in Habits, habits'[g].status \in Suspended
      PROVE  \E i \in inhibitions' :
                /\ i.habit = g /\ i.active /\ i.conditions # {}
                /\ \E e \in recoveryRegistry' : e.habit = g /\ e.required = i.conditions
  <2>1. g = h => ~ready
    BY <1>5, <1>8 DEF Suspended
  <2>2. PICK i \in inhibitions :
                /\ i.habit = g /\ i.active /\ i.conditions # {}
                /\ \E e \in recoveryRegistry : e.habit = g /\ e.required = i.conditions
    BY <1>5, <1>8, <2>1 DEF UnlearningInv, SuspendedHabitsHaveAWayBack
  <2>3. i \in inhibitions'
    BY <1>2, <1>4, <2>1, <2>2
  <2>4. PICK e \in recoveryRegistry : e.habit = g /\ e.required = i.conditions
    BY <2>2
  <2>5. told(e) \in recoveryRegistry' /\ told(e).habit = g /\ told(e).required = i.conditions
    BY <1>1, <1>3, <2>4
  <2> QED BY <2>2, <2>3, <2>5
<1> QED BY <1>5, <1>6, <1>7, <1>8 DEF UnlearningInv, SuspendedHabitsHaveAWayBack

\* What determineAction needs to suspend or supersede a habit: of the rules that
\* do so, two ask for truth or a superior strategy with some pressure, the others
\* for two independent failures at least.
LEMMA SuspendingIsGrounded ==
    ASSUME NEW h, NEW observed, NEW drift, NEW replacement,
           determineAction(h, observed, drift, replacement).action
               \in Suspending \cup {"supersede"}
    PROVE  \/ \E d, e \in OfKind(observed, "failure") : d.key # e.key
           \/ OfKind(observed, "truth_supersession") # {}
           \/ OfKind(observed, "superior_strategy") # {}
<1> DEFINE policy == UNLEARNING_POLICY
           failed == Pressure(OfKind(observed, "failure"))
           failures == Cardinality(Keys(OfKind(observed, "failure")))
           untrue == Pressure(OfKind(observed, "truth_supersession"))
           superior == Pressure(OfKind(observed, "superior_strategy"))
           overactive == Pressure(OfKind(observed, "overactivation"))
           repeated == failures >= policy.minimumIndependentFailuresForInhibition
           Result(action, value) == [action |-> action, confidence |-> value]
           c1 == untrue >= policy.contradictionPressureThreshold
           r1 == Result(IF replacement = NoHabit THEN "reopen_unknown" ELSE "supersede", untrue)
           c2 == replacement # NoHabit /\ superior >= policy.superiorStrategyThreshold
           r2 == Result("supersede", superior)
           c3 == failures >= policy.minimumIndependentFailuresForQuarantine
                   /\ failed >= policy.contradictionPressureThreshold
           r3 == Result("quarantine", failed)
           c4 == drift.severity >= policy.contextDriftThreshold /\ repeated
           r4 == Result("contextually_inhibit", (drift.severity + failed) \div 2)
           c5 == repeated /\ drift.missing # {}
           r5 == Result("narrow", failed)
           c6 == overactive >= policy.overactivationThreshold
                  \/ (habits[h].automaticity >= policy.overactivationThreshold /\ failures > 0)
           r6 == Result("challenge", Higher(overactive, habits[h].automaticity))
           r7 == Result("weaken", failed)
           c8 == failures = 1
           r8 == Result("challenge", Scale(failed, 600))
           r9 == Result(IF habits[h].status = "relearning" THEN "relearn" ELSE "retain",
                        habits[h].applicability)
           rules == << <<c1, r1>>, <<c2, r2>>, <<c3, r3>>, <<c4, r4>>, <<c5, r5>>, <<c6, r6>>,
                       <<repeated, r7>>, <<c8, r8>>, <<TRUE, r9>> >>
           independent == \E d, e \in OfKind(observed, "failure") : d.key # e.key
<1>1. determineAction(h, observed, drift, replacement) = FirstOf(rules)
  BY Zenon DEF determineAction
<1>2. /\ c1 => OfKind(observed, "truth_supersession") # {}
      /\ c2 => OfKind(observed, "superior_strategy") # {}
      /\ c3 \/ c4 \/ c5 \/ repeated => independent
  <2>1. /\ policy.contradictionPressureThreshold = 620
        /\ policy.superiorStrategyThreshold = 720
        /\ policy.minimumIndependentFailuresForInhibition = 2
        /\ policy.minimumIndependentFailuresForQuarantine = 4
    BY DEF UNLEARNING_POLICY
  <2> HIDE DEF policy
  <2>2. c1 => OfKind(observed, "truth_supersession") # {}
    BY <2>1, PressureOfNone
  <2>3. c2 => OfKind(observed, "superior_strategy") # {}
    BY <2>1, PressureOfNone
  <2>4. ~independent => failures \in {0, 1}
    BY OneKey
  <2> HIDE DEF failures, independent
  <2>5. c3 \/ c4 \/ c5 \/ repeated => independent
    BY <2>1, <2>4
  <2> QED BY <2>2, <2>3, <2>5
<1>3. /\ r6.action = "challenge" /\ r8.action = "challenge"
      /\ r9.action \in {"relearn", "retain"}
  OBVIOUS
<1> HIDE DEF c1, c2, c3, c4, c5, c6, repeated, c8, r1, r2, r3, r4, r5, r6, r7, r8, r9
<1>4. DOMAIN rules = 1..9
  OBVIOUS
<1>5. /\ rules[1][1] = c1 /\ rules[2][1] = c2 /\ rules[3][1] = c3 /\ rules[4][1] = c4
      /\ rules[5][1] = c5 /\ rules[7][1] = repeated /\ rules[9][1] = TRUE
      /\ rules[6][2] = r6 /\ rules[8][2] = r8 /\ rules[9][2] = r9
  OBVIOUS
<1> HIDE DEF rules, independent
<1>6a. PICK i \in 1..9 : HoldsFirst(rules, i) /\ FirstOf(rules) = rules[i][2]
  <2>1. 9 \in Nat /\ 9 \in 1..9
    OBVIOUS
  <2>2. rules[9][1]
    BY <1>5
  <2> QED BY <1>4, <2>1, <2>2, FirstRule, Zenon
<1>6. rules[i][1] /\ FirstOf(rules) = rules[i][2]
  BY <1>6a, Zenon DEF HoldsFirst
<1>7. i \notin {6, 8, 9}
  BY <1>1, <1>3, <1>5, <1>6 DEF Suspending, Inhibiting, Quarantining
<1>8. c1 \/ c2 \/ c3 \/ c4 \/ c5 \/ repeated
  BY <1>5, <1>6, <1>7
<1> QED BY <1>2, <1>8 DEF independent

\* The decisions are a sequence, and each that suspends is grounded.
DecisionsInv == CorrelatedFailuresCountOnce /\ \E D : decisions \in Seq(D)

\* An evaluation appends a decision on what it has observed.
LEMMA DecisionStep ==
    ASSUME DecisionsInv, NEW h, NEW observations, NEW replacement,
           evaluateHabitForUnlearning(h, observations, replacement)
    PROVE  DecisionsInv'
<1> DEFINE decision == buildDecision(h, observations, replacement)
<1>1. decisions' = Append(decisions, decision)
  BY DEF evaluateHabitForUnlearning
<1>2. decision.action \in Suspending \cup {"supersede"} =>
          \/ \E d, e \in OfKind(decision.triggers, "failure") : d.key # e.key
          \/ OfKind(decision.triggers, "truth_supersession") # {}
          \/ OfKind(decision.triggers, "superior_strategy") # {}
  <2> DEFINE observed == Observed(h, observations)
             result == determineAction(h, observed, assessContextDrift(h, observations),
                                       replacement)
  <2>1. decision.triggers = observed /\ decision.action = result.action
    BY DEF buildDecision
  <2> HIDE DEF decision, observed
  <2> QED BY <2>1, SuspendingIsGrounded
<1> HIDE DEF decision
<1>3. PICK D : decisions \in Seq(D)
  BY DEF DecisionsInv
<1>4. decisions \in Seq(D \cup {decision})
  BY <1>3
<1>5. decisions' \in Seq(D \cup {decision})
  BY <1>1, <1>4
<1>6. \A n \in DOMAIN decisions' :
          decisions'[n] = decision \/ (n \in DOMAIN decisions /\ decisions'[n] = decisions[n])
  BY <1>1, <1>4
<1>7. CorrelatedFailuresCountOnce'
  BY <1>2, <1>6 DEF DecisionsInv, CorrelatedFailuresCountOnce
<1> QED BY <1>5, <1>7 DEF DecisionsInv

-----------------------------------------------------------------------------
(* Sums                                                                    *)

\* What sum has for every set of places is the sum over it, in any order.
IsSum(sum, f) ==
    /\ sum[{}] = 0 /\ sum[DOMAIN f] = Total(f)
    /\ \A T \in SUBSET DOMAIN f :
          sum[T] \in Int /\ \A x \in T : sum[T] = f[x] + sum[T \ {x}]

IsNumbers(f) == IsFiniteSet(DOMAIN f) /\ \A i \in DOMAIN f : f[i] \in Int

LEMMA SumIs ==
    ASSUME NEW f, IsNumbers(f) PROVE \E sum : IsSum(sum, f)
<1> DEFINE S == DOMAIN f
<1>1. IsFiniteSet(S) /\ \A i \in S : f[i] \in Int
  BY DEF IsNumbers
<1>2. Total(f) = Summation!FoldedSet(f, {}, 0, S)
  BY Zenon DEF Total, FoldFunction, FoldFunctionOnSet, MapThenFoldSet, Summation!FoldedSet,
               Summation!MapThenFoldSet, Plus
<1>3. Summation!IsFiniteSet(S)
  BY <1>1, Zenon DEF IsFiniteSet, Summation!IsFiniteSet
<1> HIDE DEF S
<1>4. PICK sum : Summation!OneByOne(sum, f, {}, 0, S) /\ Summation!FoldedSet(f, {}, 0, S) = sum[S]
  BY <1>3, Summation!SetRun, Zenon
<1>5. sum[{}] = 0
  BY <1>4, Zenon DEF Summation!OneByOne
<1>6. \A T \in SUBSET S : T # {} => \E x \in T : sum[T] = f[x] + sum[T \ {x}]
  BY <1>4, Zenon DEF Summation!OneByOne, Plus
<1> DEFINE V == {T \in SUBSET S : sum[T] \in Int}
           W == {T \in SUBSET S : \A x \in T : sum[T] = f[x] + sum[T \ {x}]}
<1>7. SUBSET S \subseteq V
  <2>1. {} \in V
    BY <1>5
  <2>2. ASSUME NEW T \in SUBSET S, T # {}, \A x \in T : T \ {x} \in V PROVE T \in V
    <3>1. PICK x \in T : sum[T] = f[x] + sum[T \ {x}]
      BY <1>6, <2>2
    <3>2. sum[T \ {x}] \in Int /\ f[x] \in Int
      BY <1>1, <2>2
    <3> QED BY <3>1, <3>2
  <2> HIDE DEF V
  <2> QED BY <1>1, <2>1, <2>2, SetInduction, Zenon
<1>8. SUBSET S \subseteq W
  <2>1. {} \in W
    OBVIOUS
  <2>2. ASSUME NEW T \in SUBSET S, T # {}, \A y \in T : T \ {y} \in W PROVE T \in W
    <3> SUFFICES ASSUME NEW x \in T PROVE sum[T] = f[x] + sum[T \ {x}]
      OBVIOUS
    <3>1. PICK y \in T : sum[T] = f[y] + sum[T \ {y}]
      BY <1>6, <2>2
    <3>2. CASE x = y
      BY <3>1, <3>2
    <3>3. CASE x # y
      <4> DEFINE rest == (T \ {y}) \ {x}
      <4>1. x \in T \ {y} /\ y \in T \ {x} /\ rest = (T \ {x}) \ {y} /\ rest \in SUBSET S
        BY <3>3
      <4>2. sum[T \ {y}] = f[x] + sum[rest]
        BY <2>2, <4>1
      <4>3. sum[T \ {x}] = f[y] + sum[(T \ {x}) \ {y}]
        BY <2>2, <4>1
      <4>4. sum[rest] \in Int /\ f[x] \in Int /\ f[y] \in Int
        <5>1. rest \in V
          BY <1>7, <4>1, Zenon
        <5> QED BY <1>1, <5>1
      <4> HIDE DEF rest
      <4> QED BY <3>1, <4>1, <4>2, <4>3, <4>4
    <3> QED BY <3>2, <3>3
  <2> HIDE DEF W
  <2> QED BY <1>1, <2>1, <2>2, SetInduction, Zenon
<1>9. \A T \in SUBSET S : sum[T] \in Int /\ \A x \in T : sum[T] = f[x] + sum[T \ {x}]
  <2>1. \A T \in SUBSET S : T \in V /\ T \in W
    BY <1>7, <1>8, Zenon
  <2> QED BY <2>1
<1> HIDE DEF V, W
<1>10. sum[S] = Total(f)
  BY <1>2, <1>4, Zenon
<1> QED BY <1>5, <1>9, <1>10, Zenon DEF IsSum, S

\* What holds of no place, and of places when it does without one of them,
\* holds of all.
LEMMA AllPlaces ==
    ASSUME NEW f, IsFiniteSet(DOMAIN f), NEW V, {} \in V,
           \A T \in SUBSET DOMAIN f : \A x \in T : T \ {x} \in V => T \in V
    PROVE  DOMAIN f \in V
<1>1. \A T \in SUBSET DOMAIN f : T # {} /\ (\A x \in T : T \ {x} \in V) => T \in V
  OBVIOUS
<1>2. SUBSET DOMAIN f \subseteq V
  BY <1>1, SetInduction, Zenon
<1> QED BY <1>2

\* A sum that is in proportion at every place is so as a whole.
LEMMA SumInProportion ==
    ASSUME NEW f, NEW g, IsNumbers(f), IsNumbers(g), DOMAIN f = DOMAIN g,
           NEW n \in Int, NEW k \in Int, \A i \in DOMAIN f : n * g[i] <= k * f[i]
    PROVE  n * Total(g) <= k * Total(f)
<1>1. PICK sum : IsSum(sum, f)
  BY SumIs
<1>2. PICK other : IsSum(other, g)
  BY SumIs
<1> DEFINE V == {T \in SUBSET DOMAIN f : n * other[T] <= k * sum[T]}
<1>3. {} \in V
  BY <1>1, <1>2 DEF IsSum
<1>4. ASSUME NEW T \in SUBSET DOMAIN f, NEW x, x \in T, T \ {x} \in V PROVE T \in V
  <2>1. /\ sum[T] = f[x] + sum[T \ {x}] /\ other[T] = g[x] + other[T \ {x}]
        /\ sum[T \ {x}] \in Int /\ other[T \ {x}] \in Int
    <3>1. T \ {x} \in SUBSET DOMAIN f
      OBVIOUS
    <3> QED BY <1>1, <1>2, <1>4, <3>1 DEF IsSum
  <2>2. f[x] \in Int /\ g[x] \in Int /\ n * g[x] <= k * f[x] /\ n * other[T \ {x}] <= k * sum[T \ {x}]
    BY <1>4 DEF IsNumbers
  <2>3. \A a, b, c, d \in Int : n * a <= k * b /\ n * c <= k * d => n * (a + c) <= k * (b + d)
    OBVIOUS
  <2>4. n * other[T] <= k * sum[T]
    BY <2>1, <2>2, <2>3
  <2> QED BY <2>4
<1>5. IsFiniteSet(DOMAIN f)
  BY DEF IsNumbers
<1> HIDE DEF V
<1>6. DOMAIN f \in V
  BY <1>3, <1>4, <1>5, AllPlaces, Zenon
<1> QED BY <1>1, <1>2, <1>6 DEF V, IsSum

\* Numbers of which none is above a bound are together not above as many bounds.
LEMMA SumAtMost ==
    ASSUME NEW f, IsNumbers(f), NEW b \in Int, \A i \in DOMAIN f : f[i] <= b
    PROVE  Total(f) <= b * Cardinality(DOMAIN f)
<1>1. PICK sum : IsSum(sum, f)
  BY SumIs
<1> DEFINE V == {T \in SUBSET DOMAIN f : sum[T] <= b * Cardinality(T)}
<1>2. {} \in V
  BY <1>1, FS_EmptySet DEF IsSum
<1>3. ASSUME NEW T \in SUBSET DOMAIN f, NEW x, x \in T, T \ {x} \in V PROVE T \in V
  <2>1. sum[T] = f[x] + sum[T \ {x}] /\ sum[T \ {x}] \in Int /\ f[x] \in Int /\ f[x] <= b
    <3>1. T \ {x} \in SUBSET DOMAIN f
      OBVIOUS
    <3> QED BY <1>1, <1>3, <3>1 DEF IsSum, IsNumbers
  <2>2. /\ Cardinality(T) \in Nat /\ Cardinality(T \ {x}) = Cardinality(T) - 1
    <3>1. IsFiniteSet(T)
      BY FS_Subset DEF IsNumbers
    <3> QED BY <1>3, <3>1, FS_RemoveElement, FS_CardinalityType
  <2>3. b * Cardinality(T) = b * (Cardinality(T) - 1) + b
    BY <2>2
  <2>4. sum[T \ {x}] <= b * (Cardinality(T) - 1)
    BY <1>3, <2>2
  <2>5. b * (Cardinality(T) - 1) \in Int
    BY <2>2
  <2> QED BY <2>1, <2>3, <2>4, <2>5
<1>4. IsFiniteSet(DOMAIN f)
  BY DEF IsNumbers
<1> HIDE DEF V
<1>5. DOMAIN f \in V
  BY <1>2, <1>3, <1>4, AllPlaces, Zenon
<1> QED BY <1>1, <1>5 DEF V, IsSum

\* The sum of sums by places is the sum of the sum.
LEMMA SumOfBoth ==
    ASSUME NEW f, NEW g, NEW h, IsNumbers(f), IsNumbers(g), IsNumbers(h),
           DOMAIN f = DOMAIN h, DOMAIN g = DOMAIN h, \A i \in DOMAIN h : h[i] = f[i] + g[i]
    PROVE  Total(h) = Total(f) + Total(g)
<1>1. PICK sf : IsSum(sf, f)
  BY SumIs
<1>2. PICK sg : IsSum(sg, g)
  BY SumIs
<1>3. PICK sh : IsSum(sh, h)
  BY SumIs
<1> DEFINE V == {T \in SUBSET DOMAIN h : sh[T] = sf[T] + sg[T]}
<1>4. {} \in V
  BY <1>1, <1>2, <1>3 DEF IsSum
<1>5. ASSUME NEW T \in SUBSET DOMAIN h, NEW x, x \in T, T \ {x} \in V PROVE T \in V
  <2>1. T \ {x} \in SUBSET DOMAIN h
    OBVIOUS
  <2>2. /\ sh[T] = h[x] + sh[T \ {x}] /\ sf[T] = f[x] + sf[T \ {x}] /\ sg[T] = g[x] + sg[T \ {x}]
        /\ {sf[T \ {x}], sg[T \ {x}], sh[T \ {x}]} \subseteq Int
    BY <1>1, <1>2, <1>3, <1>5, <2>1 DEF IsSum
  <2>3. f[x] \in Int /\ g[x] \in Int /\ h[x] = f[x] + g[x]
    BY <1>5 DEF IsNumbers
  <2> QED BY <1>5, <2>2, <2>3
<1>6. IsFiniteSet(DOMAIN h)
  BY DEF IsNumbers
<1> HIDE DEF V
<1>7. DOMAIN h \in V
  BY <1>4, <1>5, <1>6, AllPlaces, Zenon
<1> QED BY <1>1, <1>2, <1>3, <1>7 DEF V, IsSum

\* A change at one place changes the sum as much.
LEMMA SumChanged ==
    ASSUME NEW f, IsNumbers(f), NEW x \in DOMAIN f, NEW v \in Int
    PROVE  /\ IsNumbers([f EXCEPT ![x] = v])
           /\ Total([f EXCEPT ![x] = v]) = Total(f) - f[x] + v
<1> DEFINE g == [f EXCEPT ![x] = v]
           D == DOMAIN f \ {x}
<1>1. DOMAIN g = DOMAIN f /\ g[x] = v /\ \A i \in D : g[i] = f[i]
  OBVIOUS
<1>2. IsFiniteSet(DOMAIN f) /\ f[x] \in Int /\ \A i \in DOMAIN f : f[i] \in Int
  BY DEF IsNumbers
<1> HIDE DEF g
<1>3. IsNumbers(g)
  BY <1>1, <1>2 DEF IsNumbers
<1>4. PICK sf : IsSum(sf, f)
  BY SumIs
<1>5. PICK sg : IsSum(sg, g)
  BY <1>3, SumIs
<1> DEFINE V == {T \in SUBSET D : sf[T] = sg[T]}
<1>6. {} \in V
  BY <1>4, <1>5 DEF IsSum
<1>7. ASSUME NEW T \in SUBSET D, T # {}, \A y \in T : T \ {y} \in V PROVE T \in V
  <2>1. PICK y \in T : TRUE
    BY <1>7
  <2>2. T \in SUBSET DOMAIN f /\ sf[T \ {y}] = sg[T \ {y}] /\ g[y] = f[y]
    BY <1>1, <1>7
  <2>3. sf[T] = f[y] + sf[T \ {y}] /\ sg[T] = g[y] + sg[T \ {y}]
    BY <1>1, <1>4, <1>5, <2>2 DEF IsSum
  <2> QED BY <2>2, <2>3
<1>8. IsFiniteSet(D)
  BY <1>2, FS_Subset
<1>9. D \in SUBSET D
  OBVIOUS
<1>10. DOMAIN f \ {x} = D /\ D \in SUBSET DOMAIN f
  OBVIOUS
<1> HIDE DEF V, D
<1>11. D \in V
  <2>1. SUBSET D \subseteq V
    BY <1>6, <1>7, <1>8, SetInduction, Zenon
  <2> QED BY <1>9, <2>1
<1>12. /\ Total(f) = f[x] + sf[D] /\ Total(g) = g[x] + sg[D] /\ sf[D] \in Int
  BY <1>1, <1>4, <1>5, <1>10 DEF IsSum
<1>13. sf[D] = sg[D]
  BY <1>11 DEF V
<1>14. /\ Total(f) \in Int /\ f[x] \in Int /\ sf[D] \in Int
       /\ Total(g) = v + sf[D] /\ Total(f) = f[x] + sf[D]
  BY <1>1, <1>2, <1>12, <1>13
<1>15. Total(g) = Total(f) - f[x] + v
  BY <1>14
<1> QED BY <1>3, <1>15 DEF g

\* Of natural numbers the sum is one too, and none is above it.
LEMMA SumOfNaturals ==
    ASSUME NEW f, IsFiniteSet(DOMAIN f), \A i \in DOMAIN f : f[i] \in Nat
    PROVE  IsNumbers(f) /\ Total(f) \in Nat /\ \A i \in DOMAIN f : f[i] <= Total(f)
<1>1. IsNumbers(f)
  BY DEF IsNumbers
<1>2. PICK sum : IsSum(sum, f)
  BY <1>1, SumIs
<1> DEFINE V == {T \in SUBSET DOMAIN f : sum[T] \in Nat}
<1>3. {} \in V
  BY <1>2 DEF IsSum
<1>4. ASSUME NEW T \in SUBSET DOMAIN f, T # {}, \A y \in T : T \ {y} \in V PROVE T \in V
  <2>1. PICK x \in T : TRUE
    BY <1>4
  <2>2. sum[T] = f[x] + sum[T \ {x}] /\ sum[T \ {x}] \in Nat /\ f[x] \in Nat
    BY <1>2, <1>4, <2>1 DEF IsSum
  <2> QED BY <2>2
<1> HIDE DEF V
<1>5. SUBSET DOMAIN f \subseteq V
  <2>1. \A T \in SUBSET DOMAIN f : T # {} /\ (\A y \in T : T \ {y} \in V) => T \in V
    BY <1>4
  <2> QED BY <1>3, <2>1, SetInduction
<1>6. ASSUME NEW i \in DOMAIN f PROVE f[i] <= sum[DOMAIN f]
  <2>1. DOMAIN f \ {i} \in V
    <3>1. DOMAIN f \ {i} \in SUBSET DOMAIN f
      OBVIOUS
    <3> QED BY <1>5, <3>1, Zenon
  <2>2. sum[DOMAIN f] = f[i] + sum[DOMAIN f \ {i}] /\ sum[DOMAIN f \ {i}] \in Nat
    BY <1>2, <2>1 DEF IsSum, V
  <2> QED BY <2>2
<1>7. sum[DOMAIN f] \in Nat
  <2>1. DOMAIN f \in V
    BY <1>5
  <2> QED BY <2>1 DEF V
<1> QED BY <1>1, <1>2, <1>6, <1>7 DEF IsSum

-----------------------------------------------------------------------------
(* Reflection                                                              *)

\* The trajectories are a sequence of trajectories, and so are the signals one.
ReflectionInv ==
    /\ \E S : trajectories \in Seq(S)
    /\ \E S : biasSignals \in Seq(S)
    /\ \A i \in DOMAIN trajectories : IsTrajectory(trajectories[i])

\* What is stored is a sequence of trajectories that is not empty.
LEMMA StoredAre ==
    ASSUME ReflectionInv, NEW t, IsTrajectory(t)
    PROVE  /\ \E S : Stored(t) \in Seq(S)
           /\ \E n \in Nat \ {0} : DOMAIN Stored(t) = 1..n
           /\ \A i \in DOMAIN Stored(t) : IsTrajectory(Stored(t)[i])
<1> DEFINE all == Append(trajectories, t)
           first == Higher(1, Len(all) - MaxStoredTrajectories + 1)
<1>1. PICK S : trajectories \in Seq(S)
  BY DEF ReflectionInv
<1>2. /\ all \in Seq(S \cup {t}) /\ Len(all) = Len(trajectories) + 1 /\ Len(trajectories) \in Nat
      /\ all[Len(all)] = t
      /\ \A i \in 1..Len(trajectories) : all[i] = trajectories[i]
  BY <1>1
<1>3. \A i \in 1..Len(all) : IsTrajectory(all[i])
  BY <1>1, <1>2 DEF ReflectionInv
<1> HIDE DEF all
<1>4. first \in 1..Len(all)
  BY <1>2, ReflectionConstants DEF Higher
<1>5. Stored(t) = SubSeq(all, first, Len(all))
  BY DEF Stored, all
<1> HIDE DEF first
<1>6. /\ Stored(t) \in Seq(S \cup {t})
      /\ Len(Stored(t)) = Len(all) - first + 1
      /\ \A i \in 1..(Len(all) - first + 1) : Stored(t)[i] = all[first + i - 1]
  BY <1>2, <1>4, <1>5
<1>7. DOMAIN Stored(t) = 1..(Len(all) - first + 1) /\ Len(all) - first + 1 \in Nat \ {0}
  BY <1>2, <1>4, <1>6
<1>8. \A i \in DOMAIN Stored(t) : first + i - 1 \in 1..Len(all)
  BY <1>2, <1>4, <1>7
<1> QED BY <1>3, <1>6, <1>7, <1>8

\* The outcomes a capsule counts are those of grounded trajectories.
LEMMA CountsGrounded ==
    ASSUME NEW relevant, NEW n \in Nat, DOMAIN relevant = 1..n, NEW target, NEW existing
    PROVE  LET capsule == deriveReflectiveCapsule(relevant, target, existing) IN
           \A k \in capsule.successKeys \cup capsule.failureKeys :
              \E i \in 1..n : mirrorLearningAllowed(relevant[i]) /\ k = relevant[i].key
<1> DEFINE capsule == deriveReflectiveCapsule(relevant, target, existing)
           I == {i \in DOMAIN relevant : mirrorLearningAllowed(relevant[i])}
           grounded == AtPlaces(relevant, I)
           won == {i \in DOMAIN grounded : OutcomeAt(relevant, i) >= 680}
           lost == {i \in DOMAIN grounded : OutcomeAt(relevant, i) < 380}
           At(J) == [i \in J |-> grounded[i]]
<1>1. /\ capsule.successKeys = Keys(Range(At(won)))
      /\ capsule.failureKeys = Keys(Range(At(lost)))
  BY DEF deriveReflectiveCapsule
<1>2. I \in SUBSET DOMAIN relevant /\ \A i \in I : mirrorLearningAllowed(relevant[i])
  OBVIOUS
<1> HIDE DEF I, capsule
<1>3. \A k \in DOMAIN grounded : \E i \in I : grounded[k] = relevant[i]
  <2>1. /\ DOMAIN grounded = 1..Cardinality(I)
        /\ \A k \in 1..Cardinality(I) : \E i \in I : grounded[k] = relevant[i]
    BY <1>2, ElementsAt, Zenon
  <2> HIDE DEF grounded
  <2> QED BY <2>1
<1> HIDE DEF grounded
<1>4. ASSUME NEW J \in SUBSET DOMAIN grounded, NEW k \in Keys(Range(At(J)))
      PROVE  \E i \in 1..n : mirrorLearningAllowed(relevant[i]) /\ k = relevant[i].key
  <2>1. PICK j \in J : k = grounded[j].key
    BY DEF Keys, Range
  <2> QED BY <1>2, <1>3, <2>1
<1>5. won \in SUBSET DOMAIN grounded /\ lost \in SUBSET DOMAIN grounded
  OBVIOUS
<1> HIDE DEF won, lost, At
<1> QED BY <1>1, <1>4, <1>5 DEF capsule

\* Learning keeps the trajectories and the signals what they are.
LEMMA LearningKeeps ==
    ASSUME ReflectionInv, NEW t, IsTrajectory(t), applyReflectiveLearning(t)
    PROVE  ReflectionInv'
<1> DEFINE found == detectSelfBias(Stored(t))
           stored == Stored(t)
<1>1. trajectories' = stored /\ biasSignals' = Append(biasSignals, found)
  BY DEF applyReflectiveLearning
<1>2. (\E S : stored \in Seq(S)) /\ \A i \in DOMAIN stored : IsTrajectory(stored[i])
  BY StoredAre
<1>3. PICK S : biasSignals \in Seq(S)
  BY DEF ReflectionInv
<1> HIDE DEF found, stored
<1>4. biasSignals' \in Seq(S \cup {found})
  <2>1. biasSignals \in Seq(S \cup {found})
    BY <1>3
  <2> QED BY <1>1, <2>1
<1> QED BY <1>1, <1>2, <1>4 DEF ReflectionInv

\* What a change of a capsule may count.
LearnsFromGrounded ==
    \A f \in DOMAIN reflectiveCapsules' :
        (f \in DOMAIN reflectiveCapsules => reflectiveCapsules[f] # reflectiveCapsules'[f]) =>
            reflectiveCapsules'[f].successKeys \cup reflectiveCapsules'[f].failureKeys \subseteq
                {t.key : t \in {u \in Range(trajectories') :
                                   u.fingerprint = f /\ u.grounding # {}}}

LEMMA LearningIsGrounded ==
    ASSUME ReflectionInv, NEW t, IsTrajectory(t), applyReflectiveLearning(t)
    PROVE  LearnsFromGrounded
<1> DEFINE f == t.fingerprint
           stored == Stored(t)
           I == {i \in DOMAIN stored : stored[i].fingerprint = f}
           relevant == AtPlaces(stored, I)
           existing == {reflectiveCapsules[g] : g \in DOMAIN reflectiveCapsules \cap {f}}
           capsule == deriveReflectiveCapsule(relevant, t, existing)
<1>1. PICK n \in Nat : DOMAIN stored = 1..n
  BY StoredAre
<1>2. /\ trajectories' = stored
      /\ \/ reflectiveCapsules' = With(reflectiveCapsules, f, capsule)
         \/ UNCHANGED reflectiveCapsules
  BY DEF applyReflectiveLearning
<1>3. I \in SUBSET DOMAIN stored /\ \A i \in I : stored[i].fingerprint = f
  OBVIOUS
<1> HIDE DEF I
<1>4. /\ Cardinality(I) \in Nat /\ DOMAIN relevant = 1..Cardinality(I)
      /\ \A k \in DOMAIN relevant : \E i \in I : relevant[k] = stored[i]
  <2> HIDE DEF stored
  <2> QED BY <1>1, <1>3, ElementsAt
<1>5. ASSUME NEW k \in capsule.successKeys \cup capsule.failureKeys
      PROVE  \E u \in Range(stored) : u.fingerprint = f /\ u.grounding # {} /\ k = u.key
  <2> HIDE DEF relevant
  <2>1. PICK i \in DOMAIN relevant : mirrorLearningAllowed(relevant[i]) /\ k = relevant[i].key
    BY <1>4, CountsGrounded
  <2>2. relevant[i].grounding # {}
    <3>1. Cardinality(relevant[i].grounding) >= 1
      BY <2>1 DEF mirrorLearningAllowed, REFLECTION_POLICY
    <3> QED BY <3>1, FS_EmptySet
  <2>3. PICK j \in I : relevant[i] = stored[j]
    BY <1>4
  <2>4. stored[j] \in Range(stored)
    BY <1>3 DEF Range
  <2> QED BY <1>3, <2>1, <2>2, <2>3, <2>4
<1> HIDE DEF capsule, stored
<1>6. CASE UNCHANGED reflectiveCapsules
  BY <1>6 DEF LearnsFromGrounded
<1>7. CASE reflectiveCapsules' = With(reflectiveCapsules, f, capsule)
  <2>1. \A g \in DOMAIN reflectiveCapsules' :
           reflectiveCapsules'[g] = IF g = f THEN capsule ELSE reflectiveCapsules[g]
    BY <1>7 DEF With
  <2>2. \A g \in DOMAIN reflectiveCapsules' : g = f \/ g \in DOMAIN reflectiveCapsules
    BY <1>7 DEF With
  <2> SUFFICES ASSUME NEW g \in DOMAIN reflectiveCapsules',
                      g \in DOMAIN reflectiveCapsules => reflectiveCapsules[g] # reflectiveCapsules'[g]
               PROVE  reflectiveCapsules'[g].successKeys \cup reflectiveCapsules'[g].failureKeys
                        \subseteq {u.key : u \in {v \in Range(trajectories') :
                                                     v.fingerprint = g /\ v.grounding # {}}}
    BY DEF LearnsFromGrounded
  <2>3. g = f /\ reflectiveCapsules'[g] = capsule
    BY <2>1, <2>2
  <2> HIDE DEF f
  <2> QED BY <1>2, <1>5, <2>3
<1> QED BY <1>2, <1>6, <1>7

-----------------------------------------------------------------------------
(* Shares of attention                                                     *)

\* Weights of roles that are shares of a whole.
AreShares(weights) == weights \in [ATTENTION_ROLES -> Nat] /\ Total(weights) <= 1000

LEMMA RolesAreFinite == IsFiniteSet(ATTENTION_ROLES)
<1>1. \A S, x : IsFiniteSet(S) => IsFiniteSet(S \cup {x})
  BY FS_AddElement
<1>2. IsFiniteSet({})
  BY FS_EmptySet
<1>3. ATTENTION_ROLES =
         ((((((((({} \cup {"goal"}) \cup {"constraint"}) \cup {"uncertainty"}) \cup {"experience"})
          \cup {"challenge"}) \cup {"transition"}) \cup {"risk"}) \cup {"exploration"})
          \cup {"reflection"}) \cup {"dehabituation"}
  BY DEF ATTENTION_ROLES
<1> QED BY <1>1, <1>2, <1>3, Zenon

LEMMA Quotient ==
    ASSUME NEW m \in Nat, NEW n \in Nat, n # 0
    PROVE  m \div n \in Nat /\ n * (m \div n) <= m
OBVIOUS

LEMMA Cancelled ==
    ASSUME NEW n \in Nat, n # 0, NEW a \in Int, NEW b \in Int, n * a <= b * n
    PROVE  a <= b
<1> SUFFICES ASSUME a >= b + 1 PROVE FALSE
  OBVIOUS
<1>1. n * (b + 1) = n * b + n /\ n * b = b * n
  OBVIOUS
<1>2. n * a >= n * (b + 1)
  OBVIOUS
<1> QED BY <1>1, <1>2

\* Weights of roles are made shares of a whole.
LEMMA SharesAreShares ==
    ASSUME NEW weights \in [ATTENTION_ROLES -> Nat]
    PROVE  AreShares(Shares(weights))
<1> DEFINE total == Total(weights)
           shares == [r \in ATTENTION_ROLES |-> (weights[r] * 1000) \div total]
<1>1. DOMAIN weights = ATTENTION_ROLES /\ IsFiniteSet(ATTENTION_ROLES)
  BY RolesAreFinite
<1>2. IsNumbers(weights) /\ total \in Nat
  BY <1>1, SumOfNaturals
<1> HIDE DEF total
<1>3. CASE total = 0
  <2>1. Shares(weights) = weights
    BY <1>3 DEF Shares, total
  <2> QED BY <1>3, <2>1 DEF AreShares, total
<1>4. CASE total # 0
  <2>1. Shares(weights) = shares
    BY <1>4 DEF Shares, total
  <2>2. ASSUME NEW r \in ATTENTION_ROLES
        PROVE  shares[r] \in Nat /\ total * shares[r] <= 1000 * weights[r]
    <3>1. weights[r] * 1000 \in Nat
      OBVIOUS
    <3>2. (weights[r] * 1000) \div total \in Nat
          /\ total * ((weights[r] * 1000) \div total) <= weights[r] * 1000
      BY <1>2, <1>4, <3>1, Quotient
    <3> QED BY <3>2
  <2>3. DOMAIN shares = ATTENTION_ROLES /\ shares \in [ATTENTION_ROLES -> Nat]
    BY <2>2
  <2> HIDE DEF shares
  <2>4. IsNumbers(shares) /\ Total(shares) \in Nat
    BY <1>1, <2>3, SumOfNaturals
  <2>5. total * Total(shares) <= 1000 * Total(weights)
    <3> DEFINE whole == 1000
    <3>1. /\ total \in Int /\ whole \in Int /\ DOMAIN weights = DOMAIN shares
          /\ \A r \in DOMAIN weights : total * shares[r] <= whole * weights[r]
      BY <1>1, <1>2, <2>2, <2>3
    <3> HIDE DEF whole
    <3>2. total * Total(shares) <= whole * Total(weights)
      BY <1>2, <2>4, <3>1, SumInProportion, Zenon
    <3> QED BY <3>2 DEF whole
  <2>6. Total(shares) <= 1000
    BY <1>2, <1>4, <2>4, <2>5, Cancelled DEF total
  <2> QED BY <2>1, <2>3, <2>6 DEF AreShares
<1> QED BY <1>2, <1>3, <1>4

\* Trajectories by place, finitely many.
AreTrajectories(ts) == IsFiniteSet(DOMAIN ts) /\ \A i \in DOMAIN ts : IsTrajectory(ts[i])

\* The sum by roles of the sums by places is that by places of those by roles.
LEMMA SumOfSums ==
    ASSUME NEW I, IsFiniteSet(I), NEW s, \A i \in I : s[i] \in [ATTENTION_ROLES -> Nat],
           NEW byRole, byRole = [r \in ATTENTION_ROLES |-> Total([i \in I |-> s[i][r]])]
    PROVE  /\ byRole \in [ATTENTION_ROLES -> Nat]
           /\ Total(byRole) = Total([i \in I |-> Total(s[i])])
<1> DEFINE R == ATTENTION_ROLES
           at(r) == [i \in I |-> s[i][r]]
           sums == [i \in I |-> CHOOSE sum : IsSum(sum, s[i])]
           of(T) == [i \in I |-> sums[i][T]]
<1>0. IsFiniteSet(R)
  BY RolesAreFinite
<1>1. ASSUME NEW r \in R PROVE /\ DOMAIN at(r) = I /\ IsNumbers(at(r)) /\ Total(at(r)) \in Nat
  <2>1. DOMAIN at(r) = I /\ \A i \in I : at(r)[i] \in Nat
    OBVIOUS
  <2> HIDE DEF at
  <2> QED BY <2>1, SumOfNaturals
<1>2. \A i \in I : IsNumbers(s[i]) /\ DOMAIN s[i] = R
  BY <1>0, SumOfNaturals
<1>3. \A i \in I : IsSum(sums[i], s[i])
  BY <1>2, SumIs
<1> HIDE DEF sums
<1>4. ASSUME NEW T \in SUBSET R
      PROVE  /\ DOMAIN of(T) = I /\ \A i \in I : of(T)[i] = sums[i][T] /\ sums[i][T] \in Int
             /\ IsNumbers(of(T))
  <2>1. DOMAIN of(T) = I /\ \A i \in I : of(T)[i] = sums[i][T]
    OBVIOUS
  <2>2. \A i \in I : sums[i][T] \in Int
    BY <1>2, <1>3 DEF IsSum
  <2> HIDE DEF of
  <2> QED BY <2>1, <2>2 DEF IsNumbers
<1>5. /\ DOMAIN byRole = R /\ \A r \in R : byRole[r] = Total(at(r)) /\ byRole[r] \in Nat
      /\ byRole \in [R -> Nat]
  BY <1>1
<1>6. IsNumbers(byRole)
  BY <1>0, <1>5, SumOfNaturals
<1>7. PICK outer : IsSum(outer, byRole)
  BY <1>6, SumIs
<1> DEFINE V == {T \in SUBSET R : outer[T] = Total(of(T))}
<1> HIDE DEF of, at, R
<1>8. {} \in V
  <2>1. {} \in SUBSET R
    OBVIOUS
  <2>2. \A i \in I : of({})[i] = 0
    BY <1>3, <1>4, <2>1 DEF IsSum
  <2>3. Total(of({})) <= 0 * Cardinality(I)
    BY <1>4, <2>1, <2>2, SumAtMost
  <2>4. Total(of({})) \in Nat /\ Cardinality(I) \in Nat
    BY <1>4, <2>1, <2>2, SumOfNaturals, FS_CardinalityType
  <2>5. Total(of({})) = 0
    BY <2>3, <2>4
  <2> QED BY <1>7, <2>5 DEF IsSum
<1>9. ASSUME NEW T \in SUBSET R, NEW x, x \in T, T \ {x} \in V PROVE T \in V
  <2>1. T \ {x} \in SUBSET R /\ x \in R
    BY <1>9
  <2>2. outer[T] = byRole[x] + outer[T \ {x}]
    BY <1>5, <1>7, <1>9 DEF IsSum
  <2>3. \A i \in I : of(T)[i] = at(x)[i] + of(T \ {x})[i]
    <3> SUFFICES ASSUME NEW i \in I PROVE of(T)[i] = at(x)[i] + of(T \ {x})[i]
      OBVIOUS
    <3>1. sums[i][T] = s[i][x] + sums[i][T \ {x}]
      BY <1>2, <1>3, <1>9 DEF IsSum
    <3>2. at(x)[i] = s[i][x]
      BY DEF at
    <3> QED BY <1>4, <2>1, <3>1, <3>2
  <2>4. Total(of(T)) = Total(at(x)) + Total(of(T \ {x}))
    <3>1. /\ DOMAIN of(T) = I /\ DOMAIN at(x) = I /\ DOMAIN of(T \ {x}) = I
          /\ IsNumbers(of(T)) /\ IsNumbers(at(x)) /\ IsNumbers(of(T \ {x}))
      BY <1>1, <1>4, <2>1
    <3> QED BY <2>3, <3>1, SumOfBoth, Zenon
  <2>5. outer[T \ {x}] = Total(of(T \ {x})) /\ byRole[x] = Total(at(x))
    BY <1>5, <1>9, <2>1
  <2> QED BY <2>2, <2>4, <2>5
<1> HIDE DEF V
<1>10. R \in V
  BY <1>0, <1>5, <1>8, <1>9, AllPlaces
<1>11. Total(byRole) = Total(of(R))
  BY <1>5, <1>7, <1>10 DEF V, IsSum
<1>12. of(R) = [i \in I |-> Total(s[i])]
  <2>1. \A i \in I : sums[i][R] = Total(s[i])
    BY <1>2, <1>3 DEF IsSum
  <2> QED BY <2>1 DEF of
<1> QED BY <1>5, <1>11, <1>12 DEF R

\* What trajectories attend to on average are shares of a whole.
LEMMA PatternAreShares ==
    ASSUME NEW ts, AreTrajectories(ts) PROVE AreShares(AveragePattern(ts))
<1> DEFINE I == DOMAIN ts
           R == ATTENTION_ROLES
           n == Cardinality(I)
           s == [i \in I |-> normalizedRoleWeights(ts[i])]
           pattern == AveragePattern(ts)
           byRole == [r \in R |-> Total([i \in I |-> s[i][r]])]
           whole == [i \in I |-> Total(s[i])]
<1>1. IsFiniteSet(I) /\ \A i \in I : AreShares(s[i])
  <2>1. \A i \in I : AreShares(Shares(ts[i].roles))
    BY SharesAreShares DEF AreTrajectories, IsTrajectory
  <2> QED BY <2>1 DEF AreTrajectories, normalizedRoleWeights
<1>2. pattern = [r \in R |-> Average([i \in I |-> s[i][r]])]
  BY DEF AveragePattern
<1>3. n \in Nat /\ (n = 0 <=> I = {}) /\ IsFiniteSet(R)
  BY <1>1, FS_CardinalityType, FS_EmptySet, RolesAreFinite
<1>4. \A i \in I : s[i] \in [R -> Nat] /\ Total(s[i]) <= 1000
  BY <1>1 DEF AreShares
<1> HIDE DEF s, I, pattern
<1>5. CASE n = 0
  <2>1. \A r \in R : pattern[r] = 0
    BY <1>2, <1>3, <1>5 DEF Average
  <2>2. DOMAIN pattern = R /\ pattern \in [R -> Nat]
    BY <1>2, <2>1
  <2>3. IsNumbers(pattern) /\ Total(pattern) \in Nat
    BY <1>3, <2>1, <2>2, SumOfNaturals
  <2>4. Total(pattern) <= 0 * Cardinality(R)
    BY <2>1, <2>2, <2>3, SumAtMost
  <2>5. Cardinality(R) \in Nat
    BY <1>3, FS_CardinalityType
  <2>6. Total(pattern) <= 1000
    BY <2>3, <2>4, <2>5
  <2> QED BY <2>2, <2>6 DEF AreShares, pattern
<1>6. CASE n # 0
  <2>1. byRole \in [R -> Nat] /\ Total(byRole) = Total(whole)
    BY <1>1, <1>4, SumOfSums DEF I
  <2>2. \A r \in R : pattern[r] = byRole[r] \div n
    BY <1>2, <1>3, <1>6 DEF Average
  <2>3. Total(whole) <= 1000 * n
    <3>1. DOMAIN whole = I /\ \A i \in I : whole[i] \in Nat /\ whole[i] <= 1000
      <4>1. \A i \in I : DOMAIN s[i] = R /\ Total(s[i]) \in Nat
        BY <1>3, <1>4, SumOfNaturals
      <4> QED BY <1>4, <4>1
    <3> HIDE DEF whole
    <3>2. IsNumbers(whole)
      BY <1>1, <3>1, SumOfNaturals DEF I
    <3> QED BY <3>1, <3>2, SumAtMost
  <2> HIDE DEF byRole, whole
  <2>4. \A r \in R : pattern[r] \in Nat /\ n * pattern[r] <= 1 * byRole[r]
    <3> SUFFICES ASSUME NEW r \in R PROVE pattern[r] \in Nat /\ n * pattern[r] <= 1 * byRole[r]
      OBVIOUS
    <3>1. byRole[r] \in Nat
      BY <2>1
    <3>2. byRole[r] \div n \in Nat /\ n * (byRole[r] \div n) <= byRole[r]
      BY <1>3, <1>6, <3>1, Quotient
    <3> QED BY <2>2, <3>1, <3>2
  <2>5. DOMAIN pattern = R /\ pattern \in [R -> Nat] /\ DOMAIN byRole = R
    BY <1>2, <2>1, <2>4
  <2>6. IsNumbers(pattern) /\ Total(pattern) \in Nat /\ IsNumbers(byRole) /\ Total(byRole) \in Nat
    BY <1>3, <2>1, <2>5, SumOfNaturals
  <2>7. n * Total(pattern) <= 1 * Total(byRole)
    BY <1>3, <2>4, <2>5, <2>6, SumInProportion
  <2>8. n * Total(pattern) <= 1000 * n
    <3>1. 1 * Total(byRole) = Total(whole)
      BY <2>1, <2>6
    <3>2. n * Total(pattern) <= Total(whole) /\ n * Total(pattern) \in Int /\ Total(whole) \in Int
      BY <1>3, <2>1, <2>6, <2>7, <3>1
    <3>3. 1000 * n \in Int
      BY <1>3
    <3> QED BY <2>3, <3>2, <3>3
  <2>9. Total(pattern) <= 1000
    BY <1>3, <1>6, <2>6, <2>8, Cancelled
  <2> QED BY <2>5, <2>9 DEF AreShares, pattern
<1> QED BY <1>3, <1>5, <1>6

-----------------------------------------------------------------------------
(* Bias                                                                    *)

LEMMA ClampBounds == \A n \in Int : Clamp(n) \in 0..1000
BY DEF Clamp

\* The kinds of signals by which a policy is adapted.
Correcting == {"experience_overuse", "novelty_neglect", "contradiction_neglect",
               "confirmation_bias", "dominant_view_inertia"}

\* Finitely many signals, one of a kind, with severities between 0 and 1.
AreSignals(found) ==
    /\ IsFiniteSet(found)
    /\ \A s \in found : s.kind \in Correcting => s.severity \in 0..1000
    /\ \A s, u \in found : s.kind = u.kind => s = u

\* How often the most common View of a window was selected is a number.
MostCommon(window, selected) ==
    Max({0} \cup {Cardinality({j \in selected : window[j].selected = window[i].selected}) :
                     i \in selected})

LEMMA MostCommonIsNumber ==
    ASSUME NEW window, NEW selected, IsFiniteSet(selected)
    PROVE  MostCommon(window, selected) \in Nat
<1> DEFINE alike(i) == {j \in selected : window[j].selected = window[i].selected}
           count == [i \in selected |-> Cardinality(alike(i))]
           counts == {count[i] : i \in DOMAIN count}
<1>1. \A i \in selected : Cardinality(alike(i)) \in Nat
  <2> SUFFICES ASSUME NEW i \in selected PROVE Cardinality(alike(i)) \in Nat
    OBVIOUS
  <2>1. alike(i) \subseteq selected
    OBVIOUS
  <2> HIDE DEF alike
  <2> QED BY <2>1, FS_Subset, FS_CardinalityType
<1>2. counts = {Cardinality(alike(i)) : i \in selected} /\ DOMAIN count = selected
  OBVIOUS
<1>3. {Cardinality({j \in selected : window[j].selected = window[i].selected}) : i \in selected} = counts
  BY <1>2
<1> HIDE DEF alike
<1>4. counts \subseteq Nat
  BY <1>1, <1>2
<1> HIDE DEF count
<1>5. IsFiniteSet(counts)
  BY <1>2, ImageIsFinite
<1> HIDE DEF counts
<1>6. IsFiniteSet({0} \cup counts)
  <2>1. IsFiniteSet(counts \cup {0}) /\ counts \cup {0} = {0} \cup counts
    BY <1>5, FS_AddElement
  <2> QED BY <2>1
<1> DEFINE all == {0} \cup counts
<1>7. all \in SUBSET Int /\ all # {} /\ all \subseteq Nat
  BY <1>4
<1> HIDE DEF all
<1>8. Max(all) \in all
  BY <1>6, <1>7, GreatestOf DEF all
<1> QED BY <1>3, <1>7, <1>8 DEF all, MostCommon

\* The mirror finds signals.
LEMMA BiasIsSignals ==
    ASSUME NEW all, \E S : all \in Seq(S), DOMAIN all # {},
           \A i \in DOMAIN all : IsTrajectory(all[i])
    PROVE  AreSignals(detectSelfBias(all))
<1> DEFINE first == Higher(1, Len(all) - BiasWindow + 1)
           window == SubSeq(all, first, Len(all))
           size == Len(window)
           within == DOMAIN window
           average == AveragePattern(window)
           selected == {i \in within : window[i].selected # NoView}
           mostCommon == MostCommon(window, selected)
           dominance == IF selected = {} THEN 0
                        ELSE (1000 * mostCommon) \div Cardinality(selected)
           conflations == {i \in within : /\ window[i].promoted
                                          /\ window[i].causal \notin {"verified", "supported"}}
           overInjected == {i \in within :
               window[i].visited > 0 /\ 1000 * window[i].injected
                                          >= REFLECTION_POLICY.injectionRatioThreshold
                                             * window[i].visited}
           neglect == 1000 - (1000 * average["challenge"])
                                 \div REFLECTION_POLICY.contradictionNeglectThreshold
           both == (dominance + 1000 - average["challenge"]) \div 2
           Signal(kind, severity) == [kind |-> kind, severity |-> Clamp(severity)]
           s1 == Signal("experience_overuse", average["experience"])
           s2 == Signal("contradiction_neglect", neglect)
           s3 == Signal("dominant_view_inertia", dominance)
           s4 == Signal("novelty_neglect", 720)
           s5 == Signal("outcome_cause_conflation", (1000 * Cardinality(conflations)) \div size)
           s6 == Signal("memory_over_injection", (1000 * Cardinality(overInjected)) \div size)
           s7 == Signal("confirmation_bias", both)
           found == detectSelfBias(all)
<1>1. \A s \in found : s \in {s1, s2, s3, s4, s5, s6, s7}
  <2> DEFINE policy == REFLECTION_POLICY
             dominated == dominance >= policy.dominantViewInertiaThreshold
             neglected == average["challenge"] < policy.contradictionNeglectThreshold
             c1 == average["experience"] >= policy.experienceOveruseThreshold
             c3 == dominated /\ \E i \in selected : window[i].verdict \notin Positive
             c4 == average["exploration"] < 50 /\ \E i \in within : window[i].verdict = "unresolved"
             Found(holds, signal) == IF holds THEN {signal} ELSE {}
  <2>1. found = Found(c1, s1) \cup Found(neglected, s2) \cup Found(c3, s3) \cup Found(c4, s4)
                \cup Found(conflations # {}, s5) \cup Found(overInjected # {}, s6)
                \cup Found(dominated /\ neglected, s7)
    BY Zenon DEF detectSelfBias, MostCommon
  <2> HIDE DEF found, c1, c3, c4, dominated, neglected, s1, s2, s3, s4, s5, s6, s7, conflations,
               overInjected
  <2> QED BY <2>1
<1>2. AreTrajectories(window)
  <2>1. PICK S : all \in Seq(S)
    OBVIOUS
  <2>2. Len(all) \in Nat \ {0} /\ DOMAIN all = 1..Len(all)
    BY <2>1
  <2>3. first \in 1..Len(all)
    BY <2>2, ReflectionConstants DEF Higher
  <2> HIDE DEF first
  <2>4. /\ DOMAIN window = 1..(Len(all) - first + 1)
        /\ \A i \in DOMAIN window : window[i] = all[first + i - 1] /\ first + i - 1 \in DOMAIN all
    BY <2>1, <2>2, <2>3
  <2>5. IsFiniteSet(1..(Len(all) - first + 1))
    BY <2>2, <2>3, FS_Interval
  <2> HIDE DEF window
  <2> QED BY <2>4, <2>5 DEF AreTrajectories
<1> HIDE DEF window
<1>3. average["experience"] \in Nat /\ average["challenge"] \in Nat
  <2>1. average \in [ATTENTION_ROLES -> Nat]
    BY <1>2, PatternAreShares DEF AreShares
  <2>2. {"experience", "challenge"} \subseteq ATTENTION_ROLES
    BY DEF ATTENTION_ROLES
  <2> QED BY <2>1, <2>2
<1> HIDE DEF average
<1>4. dominance \in Int
  <2>1. IsFiniteSet(selected)
    <3>1. selected \subseteq within
      OBVIOUS
    <3> HIDE DEF selected
    <3> QED BY <1>2, <3>1, FS_Subset DEF AreTrajectories
  <2>2. mostCommon \in Nat
    <3> HIDE DEF selected
    <3> QED BY <2>1, MostCommonIsNumber
  <2> HIDE DEF selected, mostCommon
  <2>3. selected # {} => Cardinality(selected) \in Nat \ {0}
    BY <2>1, FS_CardinalityType, FS_EmptySet
  <2> QED BY <2>2, <2>3
<1> HIDE DEF dominance
<1>5. neglect \in Int /\ both \in Int
  BY <1>3, <1>4 DEF REFLECTION_POLICY
<1> HIDE DEF neglect, both
<1>5a. /\ Clamp(average["experience"]) \in 0..1000 /\ Clamp(neglect) \in 0..1000
       /\ Clamp(dominance) \in 0..1000 /\ Clamp(both) \in 0..1000 /\ Clamp(720) \in 0..1000
  <2>1. average["experience"] \in Int
    BY <1>3
  <2>2. Clamp(720) \in 0..1000
    BY DEF Clamp
  <2>3. Clamp(average["experience"]) \in 0..1000
    BY <2>1, ClampBounds, Zenon
  <2>4. Clamp(neglect) \in 0..1000
    BY <1>5, ClampBounds, Zenon
  <2>5. Clamp(dominance) \in 0..1000
    BY <1>4, ClampBounds, Zenon
  <2>6. Clamp(both) \in 0..1000
    BY <1>5, ClampBounds, Zenon
  <2> QED BY <2>2, <2>3, <2>4, <2>5, <2>6
<1>6. /\ s1.kind = "experience_overuse" /\ s1.severity \in 0..1000
      /\ s2.kind = "contradiction_neglect" /\ s2.severity \in 0..1000
      /\ s3.kind = "dominant_view_inertia" /\ s3.severity \in 0..1000
      /\ s4.kind = "novelty_neglect" /\ s4.severity \in 0..1000
      /\ s5.kind = "outcome_cause_conflation" /\ s6.kind = "memory_over_injection"
      /\ s7.kind = "confirmation_bias" /\ s7.severity \in 0..1000
  BY <1>5a
<1> HIDE DEF s1, s2, s3, s4, s5, s6, s7, found
<1>7. IsFiniteSet(found)
  <2>1. \A S, x : IsFiniteSet(S) => IsFiniteSet(S \cup {x})
    BY FS_AddElement
  <2>2. IsFiniteSet({})
    BY FS_EmptySet
  <2>3. IsFiniteSet(((((((({} \cup {s1}) \cup {s2}) \cup {s3}) \cup {s4}) \cup {s5}) \cup {s6}) \cup {s7}))
    BY <2>1, <2>2, Zenon
  <2>4. found \subseteq ((((((({} \cup {s1}) \cup {s2}) \cup {s3}) \cup {s4}) \cup {s5}) \cup {s6}) \cup {s7})
    BY <1>1
  <2> QED BY <2>3, <2>4, FS_Subset
<1>8. \A s \in found : s.kind \in Correcting => s.severity \in 0..1000
  <2> SUFFICES ASSUME NEW s \in found, s.kind \in Correcting PROVE s.severity \in 0..1000
    OBVIOUS
  <2>1. s # s5 /\ s # s6
    BY <1>6 DEF Correcting
  <2>2. s = s1 \/ s = s2 \/ s = s3 \/ s = s4 \/ s = s7
    BY <1>1, <2>1, Zenon
  <2>3. /\ s1.severity \in 0..1000 /\ s2.severity \in 0..1000 /\ s3.severity \in 0..1000
        /\ s4.severity \in 0..1000 /\ s7.severity \in 0..1000
    BY <1>6
  <2> DEFINE unit == 0..1000
  <2>4. /\ s1.severity \in unit /\ s2.severity \in unit /\ s3.severity \in unit
        /\ s4.severity \in unit /\ s7.severity \in unit
    BY <2>3
  <2> HIDE DEF unit
  <2>5. s.severity \in unit
    BY <2>2, <2>4, Zenon
  <2> QED BY <2>5 DEF unit
<1>9. \A s, u \in found : s.kind = u.kind => s = u
  BY <1>1, <1>6
<1> QED BY <1>7, <1>8, <1>9 DEF AreSignals, found

\* The signals of some kinds are together as severe as any of them at least.
LEMMA SeverityIs ==
    ASSUME NEW found, AreSignals(found), NEW kinds \in SUBSET Correcting
    PROVE  /\ SeverityOf(found, kinds) \in Nat
           /\ \A s \in found : s.kind \in kinds => s.severity <= SeverityOf(found, kinds)
<1> DEFINE those == {t \in found : t.kind \in kinds}
           f == [s \in those |-> s.severity]
<1>1. those \subseteq found /\ \A s \in found : s.kind \in kinds <=> s \in those
  OBVIOUS
<1>2. IsFiniteSet(those) /\ \A s \in those : s.severity \in Nat
  <2>1. IsFiniteSet(those)
    BY <1>1, FS_Subset DEF AreSignals
  <2> QED BY <2>1 DEF AreSignals
<1>3. DOMAIN f = those /\ \A s \in those : f[s] = s.severity
  OBVIOUS
<1>4. SeverityOf(found, kinds) = Total(f)
  BY DEF SeverityOf
<1> HIDE DEF those, f
<1>5. Total(f) \in Nat /\ \A s \in those : f[s] <= Total(f)
  BY <1>2, <1>3, SumOfNaturals
<1> QED BY <1>1, <1>3, <1>4, <1>5

\* Those of one kind are at most one.
LEMMA SeverityOfOne ==
    ASSUME NEW found, AreSignals(found), NEW kind \in Correcting
    PROVE  SeverityOf(found, {kind}) \in 0..1000
<1> DEFINE those == {t \in found : t.kind \in {kind}}
           f == [s \in those |-> s.severity]
<1>1. those \subseteq found /\ \A s \in those : s.kind = kind
  OBVIOUS
<1>2. IsFiniteSet(those) /\ \A s \in those : s.severity \in 0..1000
  <2>1. IsFiniteSet(those)
    BY <1>1, FS_Subset DEF AreSignals
  <2> QED BY <2>1 DEF AreSignals
<1>3. Cardinality(those) \in {0, 1}
  <2>1. CASE those = {}
    BY <2>1, FS_EmptySet
  <2>2. CASE those # {}
    <3>1. PICK s : s \in those
      BY <2>2
    <3>2. those = {s}
      BY <1>1, <3>1 DEF AreSignals
    <3> QED BY <3>2, FS_Singleton
  <2> QED BY <2>1, <2>2
<1>4. DOMAIN f = those /\ \A s \in those : f[s] = s.severity
  OBVIOUS
<1>5. SeverityOf(found, {kind}) = Total(f)
  BY DEF SeverityOf
<1> HIDE DEF those, f
<1> DEFINE most == 1000
<1>5a. /\ IsFiniteSet(DOMAIN f) /\ \A s \in DOMAIN f : f[s] \in Nat /\ f[s] <= most
       /\ most \in Int
  <2>1. \A n \in 0..1000 : n \in Nat /\ n <= most
    OBVIOUS
  <2>2. most \in Int
    OBVIOUS
  <2> HIDE DEF most
  <2>3. ASSUME NEW s \in those PROVE f[s] \in Nat /\ f[s] <= most
    <3>1. f[s] = s.severity
      BY <1>4, Zenon
    <3>2. s.severity \in 0..1000
      BY <1>2
    <3>3. f[s] \in 0..1000
      BY <3>1, <3>2
    <3> QED BY <2>1, <3>3
  <2> QED BY <1>2, <1>4, <2>2, <2>3, Zenon
<1> HIDE DEF most
<1>6. IsNumbers(f) /\ Total(f) \in Nat
  BY <1>5a, SumOfNaturals
<1>7. Total(f) <= most * Cardinality(DOMAIN f)
  BY <1>5a, <1>6, SumAtMost, Zenon
<1> QED BY <1>3, <1>4, <1>5, <1>6, <1>7 DEF most

\* The arithmetic of the correction: weight is what challenge had, raised what it
\* has before the weights are normalised, and whole their sum then.
LEMMA RaisedShare ==
    ASSUME NEW weight \in 0..79, NEW raised \in Nat, raised >= weight + 45,
           NEW whole \in Nat, whole >= raised, whole <= 1460 + raised - weight
    PROVE  (raised * 1000) \div whole > weight
<1> DEFINE gain == raised - weight
<1>1. gain \in Nat /\ gain >= 45 /\ raised = weight + gain /\ whole <= 1460 + gain
  OBVIOUS
<1> HIDE DEF gain
<1>2. weight * (460 + gain) <= 79 * (460 + gain)
  BY <1>1
<1>3. weight * (460 + gain) = 460 * weight + weight * gain
  BY <1>1
<1>4. (weight + 1) * (1460 + gain) = 1460 * weight + weight * gain + 1460 + gain
  BY <1>1
<1>5. (weight + 1) * (1460 + gain) <= 1000 * raised
  <2> DEFINE p == weight * gain
  <2>1. p \in Int
    BY <1>1
  <2>2. 460 * weight + p <= 79 * (460 + gain)
    BY <1>2, <1>3
  <2>3. (weight + 1) * (1460 + gain) = 1460 * weight + p + 1460 + gain
    BY <1>4
  <2> HIDE DEF p
  <2> QED BY <1>1, <2>1, <2>2, <2>3
<1>6. (weight + 1) * whole <= (weight + 1) * (1460 + gain)
  BY <1>1
<1>7. (weight + 1) * whole <= raised * 1000
  BY <1>1, <1>5, <1>6
<1>8. \A m \in Nat, n \in Nat \ {0}, k \in Nat : (k + 1) * n <= m => m \div n > k
  OBVIOUS
<1>9. whole \in Nat \ {0} /\ raised * 1000 \in Nat
  BY <1>1
<1> QED BY <1>7, <1>8, <1>9

\* The policy gives challenge a larger share than the capsule when contradiction
\* was neglected plainly, however the others move.
LEMMA PolicyRaises ==
    ASSUME NEW capsule, AreShares(capsule.roleWeights), NEW found, AreSignals(found),
           capsule.roleWeights["challenge"] < 80,
           \E s \in found : s.kind = "contradiction_neglect" /\ s.severity >= PlainNeglect
    PROVE  adaptPolicy(capsule, found).roleWeights["challenge"] > capsule.roleWeights["challenge"]
<1> DEFINE R == capsule.roleWeights
           overuse == SeverityOf(found, {"experience_overuse"})
           novelty == SeverityOf(found, {"novelty_neglect"})
           neglect == SeverityOf(found, {"contradiction_neglect", "confirmation_bias"})
           inertia == SeverityOf(found, {"dominant_view_inertia"})
           experience == Clamp(R["experience"] - Scale(200, overuse))
           exploration == Clamp(R["exploration"] + Scale(120, overuse) + Scale(180, novelty))
           challenge == Clamp(R["challenge"] + Scale(180, neglect))
           habit == Clamp(R["dehabituation"] + Scale(160, inertia))
           moved == [R EXCEPT !["experience"] = experience, !["exploration"] = exploration,
                              !["challenge"] = challenge, !["dehabituation"] = habit]
<1>1. adaptPolicy(capsule, found).roleWeights = Shares(moved)
  BY DEF adaptPolicy, MovedWeights, Corrected
<1>2. /\ overuse \in 0..1000 /\ novelty \in 0..1000 /\ inertia \in 0..1000
      /\ neglect \in Nat /\ neglect >= 250
  <2>1. /\ {"contradiction_neglect", "confirmation_bias"} \in SUBSET Correcting
        /\ {"experience_overuse", "novelty_neglect", "dominant_view_inertia"} \subseteq Correcting
    BY DEF Correcting
  <2>2. overuse \in 0..1000 /\ novelty \in 0..1000 /\ inertia \in 0..1000
    BY <2>1, SeverityOfOne
  <2>3. PICK s \in found : s.kind = "contradiction_neglect" /\ s.severity >= 250
    BY DEF PlainNeglect
  <2>4. s.severity \in 0..1000
    BY <2>3 DEF AreSignals, Correcting
  <2>5. neglect \in Nat /\ s.severity <= neglect
    BY <2>1, <2>3, SeverityIs
  <2> HIDE DEF overuse, novelty, inertia, neglect
  <2>6. \A m \in Int, n \in Int : m >= 250 /\ m <= n => n >= 250
    OBVIOUS
  <2>7. s.severity \in Int /\ neglect \in Int
    BY <2>4, <2>5
  <2>8. neglect >= 250
    BY <2>3, <2>5, <2>6, <2>7, Zenon
  <2> QED BY <2>2, <2>5, <2>8, Zenon
<1> HIDE DEF overuse, novelty, inertia, neglect
<1>3. /\ {"experience", "exploration", "challenge", "dehabituation"} \subseteq ATTENTION_ROLES
      /\ R \in [ATTENTION_ROLES -> Nat] /\ DOMAIN R = ATTENTION_ROLES /\ Total(R) <= 1000
  BY DEF ATTENTION_ROLES, AreShares
<1>4. /\ IsNumbers(R) /\ Total(R) \in Nat
  BY <1>3, RolesAreFinite, SumOfNaturals
<1>5. /\ R["experience"] \in Nat /\ R["exploration"] \in Nat /\ R["challenge"] \in 0..79
      /\ R["dehabituation"] \in Nat
  BY <1>3
<1> HIDE DEF R
<1>6. /\ experience \in Nat /\ experience <= R["experience"]
      /\ exploration \in Nat /\ exploration <= R["exploration"] + 300
      /\ challenge \in Nat /\ challenge >= R["challenge"] + 45
      /\ habit \in Nat /\ habit <= R["dehabituation"] + 160
  <2> DEFINE less == Scale(200, overuse)
             more == Scale(120, overuse)
             newer == Scale(180, novelty)
             against == Scale(180, neglect)
             looser == Scale(160, inertia)
  <2>4. /\ less \in 0..200 /\ more \in 0..120 /\ newer \in 0..180 /\ looser \in 0..160
        /\ against \in Nat /\ against >= 45
    <3>1. less \in 0..200 /\ more \in 0..120
      BY <1>2 DEF Scale
    <3>2. newer \in 0..180 /\ looser \in 0..160
      BY <1>2 DEF Scale
    <3>3. against \in Nat /\ against >= 45
      BY <1>2 DEF Scale
    <3> QED BY <3>1, <3>2, <3>3
  <2> HIDE DEF less, more, newer, against, looser
  <2>5. /\ experience = Clamp(R["experience"] - less)
        /\ exploration = Clamp(R["exploration"] + more + newer)
        /\ challenge = Clamp(R["challenge"] + against)
        /\ habit = Clamp(R["dehabituation"] + looser)
    BY Zenon DEF less, more, newer, against, looser
  <2> HIDE DEF experience, exploration, challenge, habit
  <2>6. experience \in Nat /\ experience <= R["experience"]
    BY <1>5, <2>4, <2>5 DEF Clamp
  <2>7. exploration \in Nat /\ exploration <= R["exploration"] + 300
    BY <1>5, <2>4, <2>5 DEF Clamp
  <2>8. challenge \in Nat /\ challenge >= R["challenge"] + 45
    BY <1>5, <2>4, <2>5 DEF Clamp
  <2>9. habit \in Nat /\ habit <= R["dehabituation"] + 160
    BY <1>5, <2>4, <2>5 DEF Clamp
  <2> QED BY <2>6, <2>7, <2>8, <2>9
<1> HIDE DEF experience, exploration, challenge, habit
<1> DEFINE R1 == [R EXCEPT !["experience"] = experience]
           R2 == [R1 EXCEPT !["exploration"] = exploration]
           R3 == [R2 EXCEPT !["challenge"] = challenge]
           R4 == [R3 EXCEPT !["dehabituation"] = habit]
<1>7. moved = R4
  OBVIOUS
<1>8. /\ DOMAIN R1 = ATTENTION_ROLES /\ DOMAIN R2 = ATTENTION_ROLES
      /\ DOMAIN R3 = ATTENTION_ROLES /\ DOMAIN R4 = ATTENTION_ROLES
  BY <1>3
<1>9. /\ R1["exploration"] = R["exploration"] /\ R2["challenge"] = R["challenge"]
      /\ R3["dehabituation"] = R["dehabituation"]
      /\ R4["challenge"] = challenge /\ R4 \in [ATTENTION_ROLES -> Nat]
  BY <1>3, <1>6
<1>9a. /\ "experience" \in DOMAIN R /\ "exploration" \in DOMAIN R1
       /\ "challenge" \in DOMAIN R2 /\ "dehabituation" \in DOMAIN R3
       /\ experience \in Int /\ exploration \in Int /\ challenge \in Int /\ habit \in Int
  BY <1>3, <1>6, <1>8
<1>10. IsNumbers(R1) /\ Total(R1) = Total(R) - R["experience"] + experience
  BY <1>4, <1>9a, SumChanged, Zenon
<1> HIDE DEF R1
<1>11. IsNumbers(R2) /\ Total(R2) = Total(R1) - R1["exploration"] + exploration
  BY <1>9a, <1>10, SumChanged, Zenon
<1> HIDE DEF R2
<1>12. IsNumbers(R3) /\ Total(R3) = Total(R2) - R2["challenge"] + challenge
  BY <1>9a, <1>11, SumChanged, Zenon
<1> HIDE DEF R3
<1>13. Total(R4) = Total(R3) - R3["dehabituation"] + habit
  BY <1>9a, <1>12, SumChanged, Zenon
<1> HIDE DEF R4
<1>14. Total(R4) \in Nat /\ challenge <= Total(R4)
  BY <1>3, <1>8, <1>9, RolesAreFinite, SumOfNaturals
<1>15. Total(R4) <= 1460 + challenge - R["challenge"]
  BY <1>3, <1>4, <1>5, <1>6, <1>9, <1>10, <1>11, <1>12, <1>13
<1>16. Shares(R4)["challenge"] = (challenge * 1000) \div Total(R4)
  BY <1>3, <1>5, <1>6, <1>9, <1>14 DEF Shares
<1>17. (challenge * 1000) \div Total(R4) > R["challenge"]
  BY <1>5, <1>6, <1>14, <1>15, RaisedShare
<1> HIDE DEF moved
<1> QED BY <1>1, <1>7, <1>16, <1>17 DEF R

-----------------------------------------------------------------------------
(* Correction                                                              *)

\* What trajectories the weights of a capsule come from.
LEMMA CapsuleHasShares ==
    ASSUME NEW relevant, NEW n \in Nat, DOMAIN relevant = 1..n, NEW target, NEW existing,
           \A i \in 1..n : IsTrajectory(relevant[i])
    PROVE  AreShares(deriveReflectiveCapsule(relevant, target, existing).roleWeights)
<1> DEFINE capsule == deriveReflectiveCapsule(relevant, target, existing)
           I == {i \in DOMAIN relevant : mirrorLearningAllowed(relevant[i])}
           grounded == AtPlaces(relevant, I)
           won == {i \in DOMAIN grounded : OutcomeAt(relevant, i) >= 680}
           successful == [i \in won |-> grounded[i]]
           source == IF DOMAIN successful = {} THEN grounded ELSE successful
<1>1. capsule.roleWeights = AveragePattern(source)
  BY DEF deriveReflectiveCapsule
<1>2. I \in SUBSET DOMAIN relevant
  OBVIOUS
<1> HIDE DEF I, capsule, won, successful, source
<1>3. /\ Cardinality(I) \in Nat /\ DOMAIN grounded = 1..Cardinality(I)
      /\ \A k \in DOMAIN grounded : \E i \in I : grounded[k] = relevant[i]
  <2>1. /\ Cardinality(I) \in Nat /\ DOMAIN grounded = 1..Cardinality(I)
        /\ \A k \in 1..Cardinality(I) : \E i \in I : grounded[k] = relevant[i]
    BY <1>2, ElementsAt, Zenon
  <2> HIDE DEF grounded
  <2> QED BY <2>1
<1> HIDE DEF grounded
<1>4. IsFiniteSet(DOMAIN grounded) /\ \A k \in DOMAIN grounded : IsTrajectory(grounded[k])
  <2>1. \A k \in Nat : IsFiniteSet(1..k)
    BY FS_Interval
  <2> QED BY <1>2, <1>3, <2>1
<1>5. won \in SUBSET DOMAIN grounded
  BY DEF won
<1>6. IsFiniteSet(won) /\ DOMAIN successful = won /\ \A k \in won : successful[k] = grounded[k]
  BY <1>4, <1>5, FS_Subset DEF successful
<1>7. AreTrajectories(grounded) /\ AreTrajectories(successful)
  BY <1>4, <1>5, <1>6 DEF AreTrajectories
<1>8. AreTrajectories(source)
  BY <1>7 DEF source
<1> QED BY <1>1, <1>8, PatternAreShares DEF capsule

\* What a change of a policy does when contradiction was neglected plainly.
NeglectCorrected ==
    \A f \in DOMAIN cognitivePolicies' :
        /\ f \in DOMAIN cognitivePolicies => cognitivePolicies[f] # cognitivePolicies'[f]
        /\ \E s \in biasSignals'[Len(biasSignals')] :
              s.kind = "contradiction_neglect" /\ s.severity >= PlainNeglect
        /\ reflectiveCapsules'[f].roleWeights["challenge"] < 80
        => cognitivePolicies'[f].roleWeights["challenge"]
              > reflectiveCapsules'[f].roleWeights["challenge"]

LEMMA LearningCorrects ==
    ASSUME ReflectionInv, NEW t, IsTrajectory(t), applyReflectiveLearning(t)
    PROVE  NeglectCorrected
<1> DEFINE f == t.fingerprint
           stored == Stored(t)
           I == {i \in DOMAIN stored : stored[i].fingerprint = f}
           relevant == AtPlaces(stored, I)
           existing == {reflectiveCapsules[g] : g \in DOMAIN reflectiveCapsules \cap {f}}
           capsule == deriveReflectiveCapsule(relevant, t, existing)
           found == detectSelfBias(stored)
<1>1. PICK n \in Nat \ {0} : DOMAIN stored = 1..n
  BY StoredAre
<1>2. \A i \in DOMAIN stored : IsTrajectory(stored[i])
  BY StoredAre
<1>3. /\ biasSignals' = Append(biasSignals, found)
      /\ \/ /\ reflectiveCapsules' = With(reflectiveCapsules, f, capsule)
            /\ cognitivePolicies' = With(cognitivePolicies, f, adaptPolicy(capsule, found))
         \/ UNCHANGED cognitivePolicies
  BY DEF applyReflectiveLearning
<1>4. AreSignals(found)
  <2>1. \E S : stored \in Seq(S)
    BY StoredAre
  <2>2. DOMAIN stored # {}
    BY <1>1
  <2> HIDE DEF stored
  <2> QED BY <1>2, <2>1, <2>2, BiasIsSignals
<1>5. AreShares(capsule.roleWeights)
  <2>1. I \in SUBSET DOMAIN stored
    OBVIOUS
  <2> HIDE DEF I
  <2>2. /\ Cardinality(I) \in Nat /\ DOMAIN relevant = 1..Cardinality(I)
        /\ \A k \in DOMAIN relevant : \E i \in I : relevant[k] = stored[i]
    <3> HIDE DEF stored
    <3> QED BY <1>1, <2>1, ElementsAt
  <2> HIDE DEF relevant, stored
  <2>3. \A k \in 1..Cardinality(I) : IsTrajectory(relevant[k])
    BY <1>2, <2>1, <2>2
  <2> QED BY <2>2, <2>3, CapsuleHasShares
<1>6. biasSignals'[Len(biasSignals')] = found
  <2>1. PICK S : biasSignals \in Seq(S)
    BY DEF ReflectionInv
  <2> HIDE DEF found
  <2> QED BY <1>3, <2>1
<1> HIDE DEF found, capsule
<1>7. CASE UNCHANGED cognitivePolicies
  BY <1>7 DEF NeglectCorrected
<1>8. CASE /\ reflectiveCapsules' = With(reflectiveCapsules, f, capsule)
           /\ cognitivePolicies' = With(cognitivePolicies, f, adaptPolicy(capsule, found))
  <2> SUFFICES ASSUME NEW g \in DOMAIN cognitivePolicies',
                      g \in DOMAIN cognitivePolicies =>
                          cognitivePolicies[g] # cognitivePolicies'[g],
                      \E s \in found :
                          s.kind = "contradiction_neglect" /\ s.severity >= PlainNeglect,
                      reflectiveCapsules'[g].roleWeights["challenge"] < 80
               PROVE  cognitivePolicies'[g].roleWeights["challenge"]
                          > reflectiveCapsules'[g].roleWeights["challenge"]
    BY <1>6 DEF NeglectCorrected
  <2>1. g = f
    BY <1>8 DEF With
  <2>2. cognitivePolicies'[f] = adaptPolicy(capsule, found) /\ reflectiveCapsules'[f] = capsule
    BY <1>8 DEF With
  <2> HIDE DEF f
  <2>3. capsule.roleWeights["challenge"] < 80
    BY <2>1, <2>2
  <2>4. adaptPolicy(capsule, found).roleWeights["challenge"] > capsule.roleWeights["challenge"]
    BY <1>4, <1>5, <2>3, PolicyRaises
  <2> QED BY <2>1, <2>2, <2>4
<1> QED BY <1>3, <1>7, <1>8

-----------------------------------------------------------------------------
(* Plasticity                                                              *)

\* The pressure of evidence is a fold over its keys.
LEMMA PressureFold ==
    ASSUME NEW pieces
    PROVE  Pressure(pieces) = 1000 - Weighing!FoldedSet(pieces, {}, 1000, Keys(pieces))
BY Zenon DEF Pressure, FoldSet, MapThenFoldSet, Weighing!FoldedSet, Weighing!MapThenFoldSet,
             Remaining

\* Finitely many pieces have finitely many keys.
LEMMA KeysAreFinite ==
    ASSUME NEW pieces, IsFiniteSet(pieces) PROVE IsFiniteSet(Keys(pieces))
<1> DEFINE keyOf == [e \in pieces |-> e.key]
<1>1. Keys(pieces) = {keyOf[e] : e \in DOMAIN keyOf} /\ DOMAIN keyOf = pieces
  BY DEF Keys
<1> HIDE DEF keyOf
<1> QED BY <1>1, ImageIsFinite

\* The strongest piece of a key is one of them, and none is stronger.
LEMMA StrongestIs ==
    ASSUME NEW pieces, IsFiniteSet(pieces), \A e \in pieces : e.weight \in Int,
           NEW key \in Keys(pieces)
    PROVE  /\ \E e \in pieces : e.key = key /\ StrongestOf(pieces, key) = e.weight
           /\ \A e \in pieces : e.key = key => StrongestOf(pieces, key) >= e.weight
<1> DEFINE those == {d \in pieces : d.key = key}
           weightOf == [e \in those |-> e.weight]
           weights == {weightOf[e] : e \in DOMAIN weightOf}
<1>1. those \subseteq pieces /\ those # {} /\ \A e \in pieces : e.key = key <=> e \in those
  BY DEF Keys
<1>2. IsFiniteSet(those)
  BY <1>1, FS_Subset
<1>3. DOMAIN weightOf = those /\ \A e \in those : weightOf[e] = e.weight
  OBVIOUS
<1>4. {e.weight : e \in those} = weights
  BY <1>3
<1>5. StrongestOf(pieces, key) = Max(weights)
  BY <1>4, Zenon DEF StrongestOf
<1> HIDE DEF those, weightOf
<1>6. weights \in SUBSET Int /\ weights # {} /\ IsFiniteSet(weights)
  <2>1. IsFiniteSet(weights)
    BY <1>2, <1>3, ImageIsFinite
  <2> QED BY <1>1, <1>3, <2>1
<1>7. \A w \in weights : \E e \in those : w = e.weight
  BY <1>3
<1>8. \A e \in those : e.weight \in weights
  BY <1>3
<1> HIDE DEF weights
<1>9. Max(weights) \in weights /\ \A w \in weights : Max(weights) >= w
  BY <1>6, GreatestOf
<1> QED BY <1>1, <1>5, <1>7, <1>8, <1>9

\* More evidence weighs no more when each piece repeats the key of one that is
\* as strong.
LEMMA RepeatedPressure ==
    ASSUME NEW old, NEW new, IsFiniteSet(new), \A e \in new : e.weight \in Int,
           old \subseteq new,
           \A e \in new \ old : \E d \in old : d.key = e.key /\ d.weight >= e.weight
    PROVE  Keys(new) = Keys(old) /\ Pressure(new) = Pressure(old)
<1>1. Keys(new) = Keys(old)
  <2>1. \A e \in new : \E d \in old : d.key = e.key
    OBVIOUS
  <2> QED BY <2>1 DEF Keys
<1>2. IsFiniteSet(old)
  BY FS_Subset
<1>3. ASSUME NEW key \in Keys(old) PROVE StrongestOf(new, key) = StrongestOf(old, key)
  <2>1. PICK d \in old : /\ d.key = key /\ StrongestOf(old, key) = d.weight
                         /\ \A e \in old : e.key = key => d.weight >= e.weight
    BY <1>2, StrongestIs
  <2>2. PICK e \in new : /\ e.key = key /\ StrongestOf(new, key) = e.weight
                         /\ \A c \in new : c.key = key => e.weight >= c.weight
    BY <1>1, StrongestIs
  <2>3. e.weight >= d.weight /\ e.weight \in Int /\ d.weight \in Int
    BY <2>1, <2>2
  <2>4. d.weight >= e.weight
    <3>1. PICK c \in old : c.key = e.key /\ c.weight >= e.weight /\ c.weight \in Int
      BY <2>2, <2>3
    <3>2. d.weight >= c.weight
      BY <2>1, <2>2, <3>1
    <3> QED BY <2>3, <3>1, <3>2
  <2> QED BY <2>1, <2>2, <2>3, <2>4
<1>4. ASSUME NEW r, NEW x, x \in Keys(old)
      PROVE  Remaining(new, {}, r, x) = Remaining(old, {}, r, x)
  BY <1>3, <1>4 DEF Remaining
<1>5. IsFiniteSet(Keys(old))
  BY <1>2, KeysAreFinite
<1>6. Weighing!IsFiniteSet(Keys(old))
  BY <1>5, Zenon DEF IsFiniteSet, Weighing!IsFiniteSet
<1> DEFINE base == 1000
<1>7. /\ Pressure(new) = base - Weighing!FoldedSet(new, {}, base, Keys(old))
      /\ Pressure(old) = base - Weighing!FoldedSet(old, {}, base, Keys(old))
  BY <1>1, PressureFold
<1> HIDE DEF base
<1>8. Weighing!FoldedSet(new, {}, base, Keys(old)) = Weighing!FoldedSet(old, {}, base, Keys(old))
  BY <1>4, <1>6, Weighing!SetFoldSame
<1>9. Pressure(new) = Pressure(old)
  BY <1>7, <1>8
<1> QED BY <1>1, <1>9

\* The evidence for and against a link, and the confidence and the status that
\* follow from it.
For(pool, l) == {e \in pool : e.link = l /\ e.effect = "supports"}
Against(pool, l) == {e \in pool : e.link = l /\ e.effect # "supports"}

ConfidenceOf(support, contradiction) ==
    Clamp(500 + Scale(480, support) - Scale(580, contradiction))
LinkStatus(support, contradiction, independent) ==
    FirstOf(<<
        <<contradiction >= 620 /\ contradiction >= Scale(850, support), "disputed">>,
        <<independent >= 3 /\ ConfidenceOf(support, contradiction) >= 820, "verified">>,
        <<independent >= 2 /\ ConfidenceOf(support, contradiction) >= 680, "supported">>,
        <<TRUE, "candidate">> >>)

Follows(link, supporting, contradicting) ==
    /\ link.confidence = ConfidenceOf(Pressure(supporting), Pressure(contradicting))
    /\ link.status = LinkStatus(Pressure(supporting), Pressure(contradicting),
                              Cardinality(Keys(supporting)))

LinkFields == {"support", "contradiction", "confidence", "status"}
IdsOfAll(pieces) == {evidenceId(e) : e \in pieces}

\* A link has the ids of the evidence about it, and follows from it.
IsLink(link, pool, l) ==
    /\ LinkFields \subseteq DOMAIN link
    /\ link.support = IdsOfAll(For(pool, l)) /\ link.contradiction = IdsOfAll(Against(pool, l))
    /\ Follows(link, For(pool, l), Against(pool, l))

IsGraph(pool, known) ==
    /\ IsFiniteSet(pool)
    /\ \A e \in pool : e.weight \in Int /\ e.link \in DOMAIN known
    /\ \A l \in DOMAIN known : IsLink(known[l], pool, l)

\* Evidence is found by its ids.
LEMMA FoundByIds ==
    ASSUME NEW pool, NEW l
    PROVE  /\ WithIds(pool, IdsOfAll(For(pool, l))) = For(pool, l)
           /\ WithIds(pool, IdsOfAll(Against(pool, l))) = Against(pool, l)
<1>1. \A d, e : evidenceId(d) = evidenceId(e) => d.link = e.link /\ d.effect = e.effect
  BY DEF evidenceId
<1>2. \A e \in For(pool, l) : e \in pool /\ e.link = l /\ e.effect = "supports"
  BY DEF For
<1>3. \A e \in Against(pool, l) : e \in pool /\ e.link = l /\ e.effect # "supports"
  BY DEF Against
<1>4. WithIds(pool, IdsOfAll(For(pool, l))) = For(pool, l)
  <2>1. \A e \in WithIds(pool, IdsOfAll(For(pool, l))) : e \in For(pool, l)
    <3> SUFFICES ASSUME NEW e \in pool, NEW d \in For(pool, l), evidenceId(e) = evidenceId(d)
                 PROVE  e \in For(pool, l)
      BY DEF WithIds, IdsOfAll
    <3> QED BY <1>1, <1>2 DEF For
  <2>2. \A e \in For(pool, l) : e \in WithIds(pool, IdsOfAll(For(pool, l)))
    BY <1>2 DEF WithIds, IdsOfAll
  <2> QED BY <2>1, <2>2
<1>5. WithIds(pool, IdsOfAll(Against(pool, l))) = Against(pool, l)
  <2>1. \A e \in WithIds(pool, IdsOfAll(Against(pool, l))) : e \in Against(pool, l)
    <3> SUFFICES ASSUME NEW e \in pool, NEW d \in Against(pool, l), evidenceId(e) = evidenceId(d)
                 PROVE  e \in Against(pool, l)
      BY DEF WithIds, IdsOfAll
    <3> QED BY <1>1, <1>3 DEF Against
  <2>2. \A e \in Against(pool, l) : e \in WithIds(pool, IdsOfAll(Against(pool, l)))
    BY <1>3 DEF WithIds, IdsOfAll
  <2> QED BY <2>1, <2>2
<1> QED BY <1>4, <1>5

\* A link with the ids of the evidence about it is classified into a link.
LEMMA ClassifiedIsLink ==
    ASSUME NEW pool, NEW l, NEW link, LinkFields \subseteq DOMAIN link,
           link.support = IdsOfAll(For(pool, l)), link.contradiction = IdsOfAll(Against(pool, l))
    PROVE  IsLink(classifyLink(link, pool), pool, l)
<1> DEFINE supporting == WithIds(pool, link.support)
           contradicting == WithIds(pool, link.contradiction)
           support == Pressure(supporting)
           contradiction == Pressure(contradicting)
           classified == classifyLink(link, pool)
           sure == ConfidenceOf(support, contradiction)
           status == LinkStatus(support, contradiction, Cardinality(Keys(supporting)))
<1>1. classified = [link EXCEPT !.confidence = sure, !.status = status]
  BY Zenon DEF classifyLink, ConfidenceOf, LinkStatus
<1> HIDE DEF classified, sure, status
<1>2. /\ DOMAIN classified = DOMAIN link
      /\ classified.support = link.support /\ classified.contradiction = link.contradiction
      /\ classified.confidence = sure /\ classified.status = status
  BY <1>1 DEF LinkFields
<1>3. supporting = For(pool, l) /\ contradicting = Against(pool, l)
  BY FoundByIds
<1> HIDE DEF supporting, contradicting
<1>4. Follows(classified, For(pool, l), Against(pool, l))
  BY <1>2, <1>3, Zenon DEF Follows, sure, status
<1> QED BY <1>2, <1>4 DEF IsLink, classified

\* An observation keeps the graph one, and takes nothing from it.
LEMMA ObserveStep ==
    ASSUME NEW graph, IsGraph(graph.evidence, graph.links), NEW o, o.weight \in Int
    PROVE  /\ IsGraph(Observe(graph, o).evidence, Observe(graph, o).links)
           /\ graph.evidence \subseteq Observe(graph, o).evidence
           /\ DOMAIN graph.links \subseteq DOMAIN Observe(graph, o).links
<1> DEFINE id == evidenceId(o)
           old == graph.evidence
           repeated == \E e \in old : evidenceId(e) = id
           pool == IF repeated THEN old ELSE old \cup {o}
           known == IF o.link \in DOMAIN graph.links THEN graph.links[o.link]
                    ELSE [support |-> {}, contradiction |-> {}, confidence |-> 500,
                          status |-> "candidate"]
           changed == IF o.effect = "supports" THEN [known EXCEPT !.support = @ \cup {id}]
                      ELSE [known EXCEPT !.contradiction = @ \cup {id}]
           links1 == [l \in DOMAIN graph.links \cup {o.link} |->
                         IF l = o.link THEN classifyLink(changed, pool) ELSE graph.links[l]]
<1>1. Observe(graph, o).evidence = pool /\ Observe(graph, o).links = links1
  BY DEF Observe
<1>2. /\ IsFiniteSet(old) /\ \A e \in old : e.weight \in Int /\ e.link \in DOMAIN graph.links
      /\ \A l \in DOMAIN graph.links : IsLink(graph.links[l], old, l)
  BY DEF IsGraph
<1>3. old \subseteq pool /\ IsFiniteSet(pool) /\ \A e \in pool : e \in old \/ e = o
  BY <1>2, FS_AddElement
<1>4. \A l : l # o.link => For(pool, l) = For(old, l) /\ Against(pool, l) = Against(old, l)
  BY <1>3 DEF For, Against
<1>5. /\ LinkFields \subseteq DOMAIN known
      /\ known.support = IdsOfAll(For(old, o.link))
      /\ known.contradiction = IdsOfAll(Against(old, o.link))
  <2>1. CASE o.link \in DOMAIN graph.links
    BY <1>2, <2>1 DEF IsLink
  <2>2. CASE o.link \notin DOMAIN graph.links
    <3>1. For(old, o.link) = {} /\ Against(old, o.link) = {}
      BY <1>2, <2>2 DEF For, Against
    <3>2. IdsOfAll({}) = {}
      BY DEF IdsOfAll
    <3> QED BY <2>2, <3>1, <3>2 DEF LinkFields
  <2> QED BY <2>1, <2>2
<1> HIDE DEF known
<1>6. o.effect = "supports" =>
        /\ IdsOfAll(For(pool, o.link)) = IdsOfAll(For(old, o.link)) \cup {id}
        /\ IdsOfAll(Against(pool, o.link)) = IdsOfAll(Against(old, o.link))
  <2> SUFFICES ASSUME o.effect = "supports"
               PROVE  /\ IdsOfAll(For(pool, o.link)) = IdsOfAll(For(old, o.link)) \cup {id}
                      /\ IdsOfAll(Against(pool, o.link)) = IdsOfAll(Against(old, o.link))
    OBVIOUS
  <2>1. CASE repeated
    <3>1. PICK e \in old : evidenceId(e) = id
      BY <2>1
    <3>2. e.link = o.link /\ e.effect = o.effect
      BY <3>1 DEF evidenceId
    <3>3. e \in For(old, o.link)
      BY <3>2 DEF For
    <3>4. id \in IdsOfAll(For(old, o.link))
      BY <3>1, <3>3 DEF IdsOfAll
    <3> HIDE DEF id
    <3> QED BY <2>1, <3>4
  <2>2. CASE ~repeated
    <3>1. For(pool, o.link) = For(old, o.link) \cup {o} /\ Against(pool, o.link) = Against(old, o.link)
      BY <2>2 DEF For, Against
    <3> HIDE DEF pool
    <3> QED BY <3>1 DEF IdsOfAll
  <2> QED BY <2>1, <2>2
<1>7. o.effect # "supports" =>
        /\ IdsOfAll(For(pool, o.link)) = IdsOfAll(For(old, o.link))
        /\ IdsOfAll(Against(pool, o.link)) = IdsOfAll(Against(old, o.link)) \cup {id}
  <2> SUFFICES ASSUME o.effect # "supports"
               PROVE  /\ IdsOfAll(For(pool, o.link)) = IdsOfAll(For(old, o.link))
                      /\ IdsOfAll(Against(pool, o.link)) = IdsOfAll(Against(old, o.link)) \cup {id}
    OBVIOUS
  <2>1. CASE repeated
    <3>1. PICK e \in old : evidenceId(e) = id
      BY <2>1
    <3>2. e.link = o.link /\ e.effect = o.effect
      BY <3>1 DEF evidenceId
    <3>3. e \in Against(old, o.link)
      BY <3>2 DEF Against
    <3>4. id \in IdsOfAll(Against(old, o.link))
      BY <3>1, <3>3 DEF IdsOfAll
    <3> HIDE DEF id
    <3> QED BY <2>1, <3>4
  <2>2. CASE ~repeated
    <3>1. For(pool, o.link) = For(old, o.link) /\ Against(pool, o.link) = Against(old, o.link) \cup {o}
      BY <2>2 DEF For, Against
    <3> HIDE DEF pool
    <3> QED BY <3>1 DEF IdsOfAll
  <2> QED BY <2>1, <2>2
<1> HIDE DEF pool, id
<1>8. /\ LinkFields \subseteq DOMAIN changed
      /\ changed.support = IdsOfAll(For(pool, o.link))
      /\ changed.contradiction = IdsOfAll(Against(pool, o.link))
  BY <1>5, <1>6, <1>7 DEF LinkFields
<1> HIDE DEF changed
<1>9. IsLink(classifyLink(changed, pool), pool, o.link)
  BY <1>8, ClassifiedIsLink
<1>10. \A l \in DOMAIN links1 : IsLink(links1[l], pool, l)
  <2> SUFFICES ASSUME NEW l \in DOMAIN links1 PROVE IsLink(links1[l], pool, l)
    OBVIOUS
  <2>1. CASE l = o.link
    BY <1>9, <2>1
  <2>2. CASE l # o.link
    <3>1. l \in DOMAIN graph.links /\ links1[l] = graph.links[l]
      BY <2>2
    <3> HIDE DEF links1
    <3> QED BY <1>2, <1>4, <2>2, <3>1 DEF IsLink
  <2> QED BY <2>1, <2>2
<1>11. IsGraph(pool, links1)
  <2>1. DOMAIN links1 = DOMAIN graph.links \cup {o.link}
    OBVIOUS
  <2> HIDE DEF links1
  <2> QED BY <1>2, <1>3, <1>10, <2>1 DEF IsGraph
<1> QED BY <1>1, <1>3, <1>11

ObserveOne(unused, alsoUnused, graph, o) == Observe(graph, o)
Observing == INSTANCE EvidenceProofs WITH Op <- ObserveOne

\* So do any number of observations.
LEMMA ObservedGraph ==
    ASSUME IsGraph(evidence, links), NEW observations, AreObservations(observations),
           updatePlasticMemoryGraph(observations)
    PROVE  /\ IsGraph(evidence, links)'
           /\ evidence \subseteq evidence' /\ DOMAIN links \subseteq DOMAIN links'
<1> DEFINE base == [evidence |-> evidence, links |-> links]
           graph == FoldLeft(Observe, base, observations)
           n == Len(observations)
           more(g) == /\ IsGraph(g.evidence, g.links)
                      /\ evidence \subseteq g.evidence /\ DOMAIN links \subseteq DOMAIN g.links
<1>1. n \in Nat /\ DOMAIN observations = 1..n /\ \A i \in 1..n : observations[i].weight \in Int
  BY DEF AreObservations
<1>2. graph = Observing!FoldedSequence({}, {}, base, observations)
  BY Zenon DEF FoldLeft, MapThenFoldSet, Observing!FoldedSequence, Observing!FoldLeft,
               Observing!MapThenFoldSet, Observing!Max, Max, ObserveOne
<1>3. more(base)
  OBVIOUS
<1> HIDE DEF base, n
<1>4. PICK run : /\ Observing!LeftToRight(run, {}, {}, base, observations, n)
                 /\ graph = run[n]
  BY <1>1, <1>2, Observing!SequenceRun
<1>5. run[0] = base /\ \A k \in 1..n : run[k] = Observe(run[k - 1], observations[k])
  BY <1>4, Zenon DEF Observing!LeftToRight, ObserveOne
<1> DEFINE A == {k \in Nat : k <= n => more(run[k])}
<1>6. 0 \in A
  BY <1>3, <1>5
<1>7. ASSUME NEW k \in Nat, k \in A PROVE k + 1 \in A
  <2> SUFFICES ASSUME k + 1 <= n PROVE more(run[k + 1])
    OBVIOUS
  <2>1. k + 1 \in 1..n /\ (k + 1) - 1 = k /\ more(run[k])
    BY <1>1, <1>7
  <2>2. run[k + 1] = Observe(run[k], observations[k + 1])
    BY <1>5, <2>1
  <2>3. observations[k + 1].weight \in Int
    BY <1>1, <2>1
  <2>4. /\ IsGraph(Observe(run[k], observations[k + 1]).evidence,
                   Observe(run[k], observations[k + 1]).links)
        /\ run[k].evidence \subseteq Observe(run[k], observations[k + 1]).evidence
        /\ DOMAIN run[k].links \subseteq DOMAIN Observe(run[k], observations[k + 1]).links
    BY <2>1, <2>3, ObserveStep
  <2> QED BY <2>1, <2>2, <2>4
<1> HIDE DEF A
<1>8. n \in A
  BY <1>1, <1>6, <1>7, NaturalInduction
<1>9. more(graph)
  BY <1>1, <1>4, <1>8 DEF A
<1>10. evidence' = graph.evidence /\ links' = graph.links
  BY Zenon DEF updatePlasticMemoryGraph, base
<1> HIDE DEF graph
<1> QED BY <1>9, <1>10

\* What the evidence of a link moves.
RepeatedMovesNothing ==
    \A l \in DOMAIN links :
        (\A e \in evidence' \ evidence : e.link = l =>
            \E d \in evidence : d.link = l /\ d.effect = e.effect /\ d.key = e.key
                                  /\ d.weight >= e.weight)
        => links'[l].confidence = links[l].confidence /\ links'[l].status = links[l].status

LEMMA RepetitionStep ==
    ASSUME IsGraph(evidence, links), IsGraph(evidence, links)',
           evidence \subseteq evidence', DOMAIN links \subseteq DOMAIN links'
    PROVE  RepeatedMovesNothing
<1> SUFFICES ASSUME NEW l \in DOMAIN links,
                    \A e \in evidence' \ evidence : e.link = l =>
                       \E d \in evidence : d.link = l /\ d.effect = e.effect /\ d.key = e.key
                                             /\ d.weight >= e.weight
             PROVE  links'[l].confidence = links[l].confidence /\ links'[l].status = links[l].status
  BY DEF RepeatedMovesNothing
<1>1. /\ IsFiniteSet(evidence') /\ \A e \in evidence' : e.weight \in Int
      /\ Follows(links[l], For(evidence, l), Against(evidence, l))
      /\ Follows(links'[l], For(evidence', l), Against(evidence', l))
  BY DEF IsGraph, IsLink
<1>2. /\ Keys(For(evidence', l)) = Keys(For(evidence, l))
      /\ Pressure(For(evidence', l)) = Pressure(For(evidence, l))
  <2>1. /\ IsFiniteSet(For(evidence', l)) /\ \A e \in For(evidence', l) : e.weight \in Int
        /\ For(evidence, l) \subseteq For(evidence', l)
    <3>1. For(evidence', l) \subseteq evidence'
      BY DEF For
    <3>2. IsFiniteSet(For(evidence', l))
      BY <1>1, <3>1, FS_Subset
    <3> QED BY <1>1, <3>1, <3>2 DEF For
  <2>2. \A e \in For(evidence', l) \ For(evidence, l) :
           \E d \in For(evidence, l) : d.key = e.key /\ d.weight >= e.weight
    BY DEF For
  <2> QED BY <2>1, <2>2, RepeatedPressure
<1>3. Pressure(Against(evidence', l)) = Pressure(Against(evidence, l))
  <2>1. /\ IsFiniteSet(Against(evidence', l)) /\ \A e \in Against(evidence', l) : e.weight \in Int
        /\ Against(evidence, l) \subseteq Against(evidence', l)
    <3>1. Against(evidence', l) \subseteq evidence'
      BY DEF Against
    <3>2. IsFiniteSet(Against(evidence', l))
      BY <1>1, <3>1, FS_Subset
    <3> QED BY <1>1, <3>1, <3>2 DEF Against
  <2>2. \A e \in Against(evidence', l) \ Against(evidence, l) :
           \E d \in Against(evidence, l) : d.key = e.key /\ d.weight >= e.weight
    BY DEF Against
  <2> QED BY <2>1, <2>2, RepeatedPressure
<1> QED BY <1>1, <1>2, <1>3, Zenon DEF Follows

-----------------------------------------------------------------------------
(* The invariant                                                           *)

MemoryInv == /\ AttentionInv /\ TriageInv /\ UnderstandingInv /\ UnlearningInv /\ DecisionsInv
             /\ ReflectionInv /\ IsGraph(evidence, links)

\* The first state has the models and the habits it is created with.
LEMMA InitInv == Init => MemoryInv
<1> SUFFICES ASSUME Init PROVE MemoryInv
  OBVIOUS
<1>1. UnderstandingInv
  <2>1. /\ models = [m \in DOMAIN InitialModels |->
                       [InitialModels[m] EXCEPT
                          !.status = IF m = InitialDominant THEN "dominant" ELSE "alternative"]]
        /\ dominantModelId = InitialDominant
        /\ alternativeModelIds = DOMAIN InitialModels \ {InitialDominant}
    BY DEF Init, UnderstandingInit
  <2>2. \A m \in DOMAIN models :
            /\ "status" \in DOMAIN models[m]
            /\ models[m].status = IF m = InitialDominant THEN "dominant" ELSE "alternative"
    BY <2>1, ModelConstants
  <2> QED BY <2>1, <2>2, ModelConstants DEF UnderstandingInv, OneDominantModel
<1>2. UnlearningInv
  BY HabitConstants DEF Init, UnlearningInit, UnlearningInv, SuspendedHabitsHaveAWayBack, Suspended
<1>3. DecisionsInv
  <2>1. decisions = <<>>
    BY DEF Init, UnlearningInit
  <2>2. decisions \in Seq({}) /\ DOMAIN decisions = {}
    BY <2>1
  <2> QED BY <2>2 DEF DecisionsInv, CorrelatedFailuresCountOnce
<1>4. AttentionInv
  <2>1. focuses = <<>> /\ <<>> \in Seq({}) /\ DOMAIN <<>> = {}
    BY DEF Init, AttentionCycleInit, AttentionInit
  <2> QED BY <2>1 DEF AttentionInv, IsField, RequiredRolesCovered
<1>5. TriageInv
  BY DEF Init, AttentionCycleInit, TriageInit, TriageInv, NoViewIsLost
<1>6. ReflectionInv
  <2>1. trajectories = <<>> /\ biasSignals = <<>> /\ <<>> \in Seq({}) /\ DOMAIN <<>> = {}
    BY DEF Init, ReflectionInit
  <2> QED BY <2>1 DEF ReflectionInv
<1>7. IsGraph(evidence, links)
  <2>1. evidence = {} /\ DOMAIN links = {}
    BY DEF Init, PlasticityInit
  <2> QED BY <2>1, FS_EmptySet DEF IsGraph
<1> QED BY <1>1, <1>2, <1>3, <1>4, <1>5, <1>6, <1>7 DEF MemoryInv

\* The View of an outcome has finitely many truths.
LEMMA ExploredView ==
    ASSUME TriageInv, NEW view \in Explored PROVE IsFiniteSet(view.truths)
BY DEF TriageInv, Explored, Range

\* The trajectory of an outcome is one.
LEMMA AboutTrajectory ==
    ASSUME NEW view, NEW completion \in Completions
    PROVE  IsTrajectory(About(view, completion).trajectory)
<1> DEFINE c == About(view, completion)
           t == completion.trajectory
           t1 == [t EXCEPT !.selected = view.id]
           t2 == [t1 EXCEPT !.verdict = completion.outcome.verdict]
           t3 == [t2 EXCEPT !.key = completion.outcome.key]
<1>1. IsTrajectory(t) /\ "trajectory" \in DOMAIN completion
  BY CompletionConstants
<1>2. c.trajectory = t3
  BY <1>1 DEF About
<1> HIDE DEF t, c
<1>3. DOMAIN t3 = DOMAIN t /\ t3.roles = t.roles
  BY <1>1 DEF IsTrajectory
<1> HIDE DEF t3
<1> QED BY <1>1, <1>2, <1>3 DEF IsTrajectory, c

\* An outcome reaches the attention, the graph, the reflection, the habit
\* involved and the global understanding.
LEMMA CompleteStep ==
    ASSUME MemoryInv, NEW view \in Explored, NEW completion \in Completions,
           Complete(view, completion)
    PROVE  MemoryInv'
<1> DEFINE c == About(view, completion)
<1>1. /\ c.replacement = completion.replacement /\ c.delta = completion.delta
      /\ c.outcome = completion.outcome
  BY CompletionConstants DEF About
<1> HIDE DEF c
<1>2. completeAdaptiveMemoryEvolution(view, c)
  BY DEF Complete, c
<1>3. UnderstandingInv'
  <2>1. applyUnderstandingObservations(ObservationsOf(view, c), c.replacementId, c.replacement)
    BY <1>2 DEF completeAdaptiveMemoryEvolution
  <2> QED BY <1>1, <2>1, ObservationsStep, CompletionConstants DEF MemoryInv
<1>4. UnlearningInv'
  <2>1. CASE UNCHANGED unlearningVars
    BY <2>1 DEF MemoryInv, UnlearningInv, SuspendedHabitsHaveAWayBack, unlearningVars
  <2>2. CASE evaluateHabitForUnlearning(c.habit, c.habitObservations, c.replacementHabit)
    BY <2>2, EvaluationStep DEF MemoryInv
  <2> QED BY <1>2, <2>1, <2>2 DEF completeAdaptiveMemoryEvolution
<1>5. DecisionsInv'
  <2>1. CASE UNCHANGED unlearningVars
    BY <2>1 DEF MemoryInv, DecisionsInv, CorrelatedFailuresCountOnce, unlearningVars
  <2>2. CASE evaluateHabitForUnlearning(c.habit, c.habitObservations, c.replacementHabit)
    BY <2>2, DecisionStep DEF MemoryInv
  <2> QED BY <1>2, <2>1, <2>2 DEF completeAdaptiveMemoryEvolution
<1>6. AttentionInv'
  <2>1. advanceMemoryAttentionField(c.active, c.delta,
            buildChallengeAttention(view, c.outcome, c.trajectory.fingerprint),
            buildAttentionFeedback(view, c.outcome))
    BY <1>2 DEF completeAdaptiveMemoryEvolution, applyRetroactiveLearning
  <2>2. c.delta \in Int /\ c.outcome.confidence \in Int
    BY <1>1, CompletionConstants
  <2>3. IsFiniteSet(view.truths)
    BY ExploredView DEF MemoryInv
  <2>4. AreCandidates(buildChallengeAttention(view, c.outcome, c.trajectory.fingerprint))
    BY <2>3, ChallengeIsCandidate DEF MemoryInv, AttentionInv
  <2> QED BY <2>1, <2>2, <2>4, AdvanceStep, OutcomeFeedback DEF MemoryInv
<1>7. TriageInv'
  <2>1. UNCHANGED triage
    BY DEF Complete
  <2> QED BY <2>1 DEF MemoryInv, TriageInv, NoViewIsLost
<1>8. ReflectionInv'
  <2>1. applyReflectiveLearning(c.trajectory)
    BY <1>2 DEF completeAdaptiveMemoryEvolution
  <2> QED BY <2>1, AboutTrajectory, LearningKeeps DEF MemoryInv, c
<1>9. IsGraph(evidence, links)'
  <2>1. updatePlasticMemoryGraph(c.outcome.linkObservations)
    BY <1>2 DEF completeAdaptiveMemoryEvolution, applyRetroactiveLearning
  <2> QED BY <1>1, <2>1, ObservedGraph, CompletionConstants DEF MemoryInv
<1> QED BY <1>3, <1>4, <1>5, <1>6, <1>7, <1>8, <1>9 DEF MemoryInv

\* The proposals the ledger allows are proposals.
LEMMA AllowedAreProposals ==
    ASSUME NEW cycle, AreProposals(cycle.proposals)
    PROVE  AreProposals(AllowedProposals(cycle))
<1> DEFINE proposals == cycle.proposals
           I == {i \in DOMAIN proposals :
                    canRevisitRejectedView(attentionViewSignature(proposals[i]),
                                           cycle.fingerprint, cycle.satisfied)}
           allowed == AtPlaces(proposals, I)
           n == Cardinality(I)
<1>1. AllowedProposals(cycle) = allowed
  BY DEF AllowedProposals
<1>2. I \in SUBSET DOMAIN proposals
  OBVIOUS
<1> HIDE DEF I
<1>3. /\ n \in Nat /\ DOMAIN allowed = 1..n
      /\ \A k \in 1..n : \E i \in I : allowed[k] = proposals[i]
  BY <1>2, ElementsAt DEF AreProposals
<1>4. allowed = [k \in 1..n |-> proposals[ByPlace(I)[k]]]
  BY DEF AtPlaces
<1> HIDE DEF n
<1>5. Len(allowed) = n
  BY <1>3, <1>4
<1> HIDE DEF allowed
<1> QED BY <1>1, <1>2, <1>3, <1>5 DEF AreProposals

\* A cycle creates the field or advances it without feedback, and triages the
\* proposals against it.
LEMMA CycleStep ==
    ASSUME AttentionInv, NEW cycle \in Cycles, runAttentionDrivenMemoryCycle(cycle)
    PROVE  AttentionInv' /\ TriageInv'
<1>1. /\ cycle.delta \in Int /\ AreCandidates(cycle.candidates)
      /\ AreProposals(cycle.proposals) /\ AreEvidence(cycle.evidence)
      /\ AreBranches(cycle.branches)
  BY CycleConstants
<1>2. ASSUME Started PROVE AttentionInv'
  <2>1. advanceMemoryAttentionField(cycle.active, cycle.delta, cycle.candidates, {})
    BY <1>2 DEF runAttentionDrivenMemoryCycle
  <2>2. IsFeedback({})
    BY DEF IsFeedback
  <2> QED BY <1>1, <2>1, <2>2, AdvanceStep
<1>3. ASSUME ~Started PROVE AttentionInv'
  <2>1. createMemoryAttentionField(cycle.candidates)
    BY <1>3 DEF runAttentionDrivenMemoryCycle
  <2> QED BY <1>1, <2>1, CreateStep
<1>4. AttentionInv'
  BY <1>2, <1>3
<1> DEFINE I == {j \in DOMAIN focuses' : focuses'[j].status \in Awake}
           awake == {focuses'[i] : i \in I}
<1>5. IsFiniteSet(awake) /\ \A f \in awake : f.weight \in Nat
  <2>1. PICK n \in Nat : DOMAIN focuses' = 1..n
    BY <1>4 DEF AttentionInv, IsField
  <2>2. IsFiniteSet(I)
    <3>1. IsFiniteSet(1..n) /\ I \subseteq 1..n
      BY <2>1, FS_Interval
    <3> HIDE DEF I
    <3> QED BY <3>1, FS_Subset
  <2> DEFINE focusAt == [i \in I |-> focuses'[i]]
  <2>3. IsFiniteSet({focusAt[i] : i \in DOMAIN focusAt})
    BY <2>2, ImageIsFinite
  <2>4. {focusAt[i] : i \in DOMAIN focusAt} = awake
    OBVIOUS
  <2>5. \A i \in DOMAIN focuses' : focuses'[i].weight \in Nat
    BY <1>4 DEF AttentionInv, IsField, IsFocus
  <2> QED BY <2>3, <2>4, <2>5
<1>6. triage' = triageResult(AllowedProposals(cycle), awake, cycle.evidence, cycle.branches,
                             cycle.task, cycle.scope)
  BY DEF runAttentionDrivenMemoryCycle
<1> HIDE DEF awake
<1>7. TriageInv'
  BY <1>1, <1>5, <1>6, AllowedAreProposals, TriageStep
<1> QED BY <1>4, <1>7

\* The invariant is inductive: a cycle moves the attention alone, and what is
\* reported about a habit neither attention nor a decision.
LEMMA NextInv == MemoryInv /\ [Next]_vars => MemoryInv'
<1> SUFFICES ASSUME MemoryInv, [Next]_vars PROVE MemoryInv'
  OBVIOUS
<1>1. ASSUME UNCHANGED understandingVars PROVE UnderstandingInv'
  BY <1>1 DEF MemoryInv, UnderstandingInv, OneDominantModel, understandingVars
<1>2. ASSUME UNCHANGED unlearningVars PROVE UnlearningInv'
  BY <1>2 DEF MemoryInv, UnlearningInv, SuspendedHabitsHaveAWayBack, unlearningVars
<1>3. ASSUME UNCHANGED decisions PROVE DecisionsInv'
  BY <1>3 DEF MemoryInv, DecisionsInv, CorrelatedFailuresCountOnce
<1>0. ASSUME UNCHANGED focuses PROVE AttentionInv'
  BY <1>0 DEF MemoryInv, AttentionInv, IsField, RequiredRolesCovered, AwakeFocuses
<1>7. ASSUME UNCHANGED triage PROVE TriageInv'
  BY <1>7 DEF MemoryInv, TriageInv, NoViewIsLost
<1>8. ASSUME UNCHANGED reflectionVars PROVE ReflectionInv'
  BY <1>8 DEF MemoryInv, ReflectionInv, reflectionVars
<1>9. ASSUME UNCHANGED plasticityVars PROVE IsGraph(evidence, links)'
  BY <1>9 DEF MemoryInv, plasticityVars
<1>4. ASSUME NEW cycle \in Cycles, RunCycle(cycle) PROVE MemoryInv'
  BY <1>1, <1>2, <1>3, <1>4, <1>8, <1>9, CycleStep
     DEF RunCycle, MemoryInv, unlearningVars, plasticityVars
<1>5. ASSUME NEW h \in Habits, NEW satisfied \in SatisfiedSets, Reactivate(h, satisfied)
      PROVE  MemoryInv'
  BY <1>0, <1>1, <1>3, <1>5, <1>7, <1>8, <1>9, ReactivationStep
     DEF Reactivate, MemoryInv, reactivateHabit, retroactionVars, plasticityVars
<1>6. CASE UNCHANGED vars
  BY <1>0, <1>1, <1>2, <1>3, <1>6, <1>7, <1>8, <1>9
     DEF vars, MemoryInv, unlearningVars, retroactionVars, plasticityVars
<1> QED BY <1>4, <1>5, <1>6, CompleteStep DEF Next

\* The invariant holds in every reachable state.
LEMMA Invariance == Spec => []MemoryInv
BY InitInv, NextInv, PTL DEF Spec

\* A step that records an outcome that is not positive leaves its challenge.
RecordedIsChallenged ==
    \A t \in traces' \ traces : \E i \in DOMAIN focuses' :
        /\ focuses'[i].role = "challenge" /\ focuses'[i].status # "released"
        /\ focuses'[i].target = <<"view", signals'.view>>

LEMMA NextChallenges == MemoryInv /\ [Next]_vars => RecordedIsChallenged
<1> SUFFICES ASSUME MemoryInv, [Next]_vars PROVE RecordedIsChallenged
  OBVIOUS
<1>1. ASSUME UNCHANGED traces PROVE RecordedIsChallenged
  BY <1>1 DEF RecordedIsChallenged
<1>2. ASSUME NEW view \in Explored, NEW completion \in Completions, Complete(view, completion)
      PROVE  RecordedIsChallenged
  <2> DEFINE c == About(view, completion)
  <2>1. c.delta = completion.delta /\ c.outcome = completion.outcome
    BY CompletionConstants DEF About
  <2> HIDE DEF c
  <2>2. applyRetroactiveLearning(view, c.outcome, c.trajectory.fingerprint, c.active, c.delta)
    BY <1>2 DEF Complete, completeAdaptiveMemoryEvolution, c
  <2>3. /\ advanceMemoryAttentionField(c.active, c.delta,
               buildChallengeAttention(view, c.outcome, c.trajectory.fingerprint),
               buildAttentionFeedback(view, c.outcome))
        /\ isPositiveVerdict(c.outcome.verdict) => UNCHANGED traces
        /\ signals'.view = view.id
    BY <2>2 DEF applyRetroactiveLearning
  <2>4. CASE isPositiveVerdict(c.outcome.verdict)
    BY <1>1, <2>3, <2>4
  <2>5. CASE ~isPositiveVerdict(c.outcome.verdict)
    <3>1. c.delta \in Int /\ c.outcome.confidence \in Int
      BY <2>1, CompletionConstants
    <3>2. IsFiniteSet(view.truths) /\ AttentionInv
      BY ExploredView DEF MemoryInv
    <3>3. ViewChallenged(view.id)'
      BY <2>3, <2>5, <3>1, <3>2, ChallengeStep
    <3> QED BY <2>3, <3>3 DEF ViewChallenged, RecordedIsChallenged
  <2> QED BY <2>4, <2>5
<1>3. ASSUME NEW cycle \in Cycles, RunCycle(cycle) PROVE RecordedIsChallenged
  BY <1>1, <1>3 DEF RunCycle
<1>4. ASSUME NEW h \in Habits, NEW satisfied \in SatisfiedSets, Reactivate(h, satisfied)
      PROVE  RecordedIsChallenged
  BY <1>1, <1>4 DEF Reactivate, retroactionVars
<1>5. CASE UNCHANGED vars
  BY <1>1, <1>5 DEF vars, retroactionVars
<1> QED BY <1>2, <1>3, <1>4, <1>5 DEF Next

\* Only an outcome moves what is learned by reflection and from evidence.
LEMMA NextLearns ==
    ASSUME MemoryInv, [Next]_vars
    PROVE  /\ [LearnsFromGrounded /\ NeglectCorrected]_reflectionVars
           /\ [RepeatedMovesNothing]_plasticityVars
<1>1. ASSUME NEW view \in Explored, NEW completion \in Completions, Complete(view, completion)
      PROVE  LearnsFromGrounded /\ NeglectCorrected /\ RepeatedMovesNothing
  <2> DEFINE c == About(view, completion)
  <2>1. c.outcome = completion.outcome
    BY CompletionConstants DEF About
  <2>2. IsTrajectory(c.trajectory)
    BY AboutTrajectory
  <2> HIDE DEF c
  <2>3. completeAdaptiveMemoryEvolution(view, c)
    BY <1>1 DEF Complete, c
  <2>4. applyReflectiveLearning(c.trajectory)
    BY <2>3 DEF completeAdaptiveMemoryEvolution
  <2>5. updatePlasticMemoryGraph(completion.outcome.linkObservations)
    BY <2>1, <2>3 DEF completeAdaptiveMemoryEvolution, applyRetroactiveLearning
  <2>6. AreObservations(completion.outcome.linkObservations)
    BY CompletionConstants
  <2>7. /\ IsGraph(evidence, links) /\ IsGraph(evidence, links)'
        /\ evidence \subseteq evidence' /\ DOMAIN links \subseteq DOMAIN links'
    BY <2>5, <2>6, ObservedGraph DEF MemoryInv
  <2>8. RepeatedMovesNothing
    BY <2>7, RepetitionStep
  <2>9. ReflectionInv
    BY DEF MemoryInv
  <2> QED BY <2>2, <2>4, <2>8, <2>9, LearningIsGrounded, LearningCorrects
<1>2. ASSUME NEW cycle \in Cycles, RunCycle(cycle) PROVE UNCHANGED <<reflectionVars, plasticityVars>>
  BY <1>2 DEF RunCycle, plasticityVars
<1>3. ASSUME NEW h \in Habits, NEW satisfied \in SatisfiedSets, Reactivate(h, satisfied)
      PROVE  UNCHANGED <<reflectionVars, plasticityVars>>
  BY <1>3 DEF Reactivate, retroactionVars, plasticityVars
<1>4. CASE UNCHANGED vars
  BY <1>4 DEF vars, retroactionVars, plasticityVars
<1> QED BY <1>1, <1>2, <1>3, <1>4 DEF Next

-----------------------------------------------------------------------------
(* Theorems                                                                *)

\* However outcomes challenge, promote and replace models, one is dominant and
\* every other model is kept as an alternative.
THEOREM Dominance == Spec => []OneDominantModel
<1>1. MemoryInv => OneDominantModel
  BY DEF MemoryInv, UnderstandingInv
<1> QED BY <1>1, Invariance, PTL

\* Whatever candidates, feedback, decay and pins compete for the budget, a required
\* role that has a focus has one awake.
THEOREM RolesCovered == Spec => []RequiredRolesCovered
<1>1. MemoryInv => RequiredRolesCovered
  BY DEF MemoryInv, AttentionInv
<1> QED BY <1>1, Invariance, PTL

\* However Views are merged and ranked, the focuses, truths and questions of one
\* that is merged away are those of one that is ranked, and one that is not
\* followed leaves a trace.
THEOREM NothingIsLost == Spec => []NoViewIsLost
<1>1. MemoryInv => NoViewIsLost
  BY DEF MemoryInv, TriageInv
<1> QED BY <1>1, Invariance, PTL

\* Every outcome that rejects a View or leaves it undecided leaves a focus that
\* challenges the View and is not released, a new one or one it joins.
THEOREM Challenge == Spec => RejectionLeavesChallenge
<1>1. MemoryInv /\ [Next]_vars => [RecordedIsChallenged]_retroactionVars
  BY NextChallenges
<1>2. Spec => [][RecordedIsChallenged]_retroactionVars
  BY <1>1, Invariance, PTL DEF Spec
<1> QED BY <1>2 DEF RejectionLeavesChallenge, RecordedIsChallenged

\* However the same finding is repeated, the confidence and the status of a link
\* move only for a cause the evidence did not have, or had weaker.
THEOREM Repetition == Spec => RepetitionMovesNoLink
<1>1. MemoryInv /\ [Next]_vars => [RepeatedMovesNothing]_plasticityVars
  BY NextLearns
<1>2. Spec => [][RepeatedMovesNothing]_plasticityVars
  BY <1>1, Invariance, PTL DEF Spec
<1> QED BY <1>2 DEF RepetitionMovesNoLink, RepeatedMovesNothing

\* Whatever trajectories are stored and forgotten, the outcomes a capsule counts
\* when it changes are those of grounded trajectories of its context.
THEOREM Grounding == Spec => CapsulesLearnFromGroundedOutcomes
<1>1. MemoryInv /\ [Next]_vars => [LearnsFromGrounded]_reflectionVars
  BY NextLearns
<1>2. Spec => [][LearnsFromGrounded]_reflectionVars
  BY <1>1, Invariance, PTL DEF Spec
<1> QED BY <1>2, PTL DEF CapsulesLearnFromGroundedOutcomes, LearnsFromGrounded

\* When the recent trajectories neglect contradiction with a severity of at least
\* PlainNeglect, a quarter, and the capsule gives challenge less than the 80 wanted,
\* the policy learned gives it a larger share than the capsule does, whatever else
\* their bias moves and the normalisation takes back.
THEOREM Correction == Spec => NeglectRaisesChallenge
<1>1. MemoryInv /\ [Next]_vars => [NeglectCorrected]_reflectionVars
  BY NextLearns
<1>2. Spec => [][NeglectCorrected]_reflectionVars
  BY <1>1, Invariance, PTL DEF Spec
<1> QED BY <1>2 DEF NeglectRaisesChallenge, NeglectCorrected

\* Suspensions and reactivations in any order leave every suspended habit an
\* active inhibition and an entry with the conditions that lift it.
THEOREM WayBack == Spec => []SuspendedHabitsHaveAWayBack
<1>1. MemoryInv => SuspendedHabitsHaveAWayBack
  BY DEF MemoryInv, UnlearningInv
<1> QED BY <1>1, Invariance, PTL

\* However often and in whatever words one failure is reported, it suspends no
\* habit: two of different causes do, or what the truth or a better strategy says.
THEOREM Independence == Spec => []CorrelatedFailuresCountOnce
<1>1. MemoryInv => CorrelatedFailuresCountOnce
  BY DEF MemoryInv, DecisionsInv
<1> QED BY <1>1, Invariance, PTL
=============================================================================
