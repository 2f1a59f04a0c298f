------------------------------ MODULE Evidence ------------------------------
(***************************************************************************)
(* What the learning engines share: numbers between 0 and 1, kept here in  *)
(* thousandths and rounded down, similarity of sets of words, and the      *)
(* pressure of evidence that counts once per independence key.             *)
(*                                                                         *)
(* A piece of evidence is a record with at least a weight and a key.       *)
(***************************************************************************)
EXTENDS Integers, FiniteSets, Sequences, FiniteSetsExt, Functions

Clamp(n) == IF n < 0 THEN 0 ELSE IF n > 1000 THEN 1000 ELSE n
Higher(m, n) == IF m < n THEN n ELSE m
Lower(m, n) == IF m < n THEN m ELSE n

\* The product of two numbers between 0 and 1.
Scale(m, n) == (m * n) \div 1000

Total(f) == FoldFunction(LAMBDA m, n : m + n, 0, f)
Average(f) == IF DOMAIN f = {} THEN 0 ELSE Total(f) \div Cardinality(DOMAIN f)

\* weightedJaccardSimilarity.
Similarity(S, T) ==
    IF S \cup T = {} THEN 1000
    ELSE (1000 * Cardinality(S \cap T)) \div Cardinality(S \cup T)

Keys(evidence) == {e.key : e \in evidence}

StrongestOf(evidence, key) == Max({e.weight : e \in {d \in evidence : d.key = key}})

\* Mutant: every piece of evidence counts, whatever its key.
PressureOfAll(evidence) ==
    1000 - FoldSet(LAMBDA e, rest : Scale(rest, 1000 - Clamp(e.weight)), 1000, evidence)

\* 1 minus the product of what the strongest evidence of each key leaves.
Pressure(evidence) ==
    1000 - FoldSet(LAMBDA key, rest : Scale(rest, 1000 - Clamp(StrongestOf(evidence, key))),
                   1000, Keys(evidence))

\* The members of a finite set in the strict order before, a set of pairs.
InOrder(I, before) ==
    [n \in 1..Cardinality(I) |->
        CHOOSE i \in I : Cardinality({j \in I : <<j, i>> \in before}) = n - 1]
ByPlace(I) == InOrder(I, {p \in I \X I : p[1] < p[2]})

\* The records of a sequence, the highest score first.
ByScore(s) ==
    LET before == {p \in (DOMAIN s) \X (DOMAIN s) :
                      \/ s[p[1]].score > s[p[2]].score
                      \/ s[p[1]].score = s[p[2]].score /\ p[1] < p[2]}
        order == InOrder(DOMAIN s, before)
    IN  [n \in DOMAIN order |-> s[order[n]]]

\* The elements of a sequence at the places I, in order.
AtPlaces(s, I) == [n \in 1..Cardinality(I) |-> s[ByPlace(I)[n]]]

\* The second member of the first rule whose condition holds.
FirstOf(rules) ==
    rules[CHOOSE i \in DOMAIN rules :
              rules[i][1] /\ \A j \in DOMAIN rules : rules[j][1] => i <= j][2]
=============================================================================
