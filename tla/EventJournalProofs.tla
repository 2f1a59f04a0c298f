-------------------------- MODULE EventJournalProofs --------------------------
(***************************************************************************)
(* Proofs about EventJournal for any writers, events, batch sizes and      *)
(* capacities, and any number of damaged lines and power failures.         *)
(***************************************************************************)
EXTENDS EventJournal, WellFoundedInduction, SequenceTheorems, TLAPS

-----------------------------------------------------------------------------
(* What an inspection returns                                              *)

\* A file is a function on the positions of its lines.
LEMMA FileFunction ==
    ASSUME NEW f \in Seq(Line)
    PROVE  Len(f) \in Nat /\ DOMAIN f = 1 .. Len(f) /\ f \in [1 .. Len(f) -> Line]
OBVIOUS

\* Whether a line passes depends on the lines up to it.
LEMMA PassesAgree ==
    ASSUME NEW f, NEW g, NEW i \in Nat \ {0}, \A j \in 1 .. i : g[j] = f[j], Passes(f, i)
    PROVE  Passes(g, i)
<1>1. Payloads(g, i - 1) = Payloads(f, i - 1)
  BY DEF Payloads
<1> QED BY <1>1 DEF Passes

\* The loop of inspect stops at one line only.
LEMMA ThroughUnique ==
    ASSUME NEW f \in Seq(Line), NEW n \in 0 .. Len(f),
           \A i \in 1 .. n : Passes(f, i), n < Len(f) => ~Passes(f, n + 1)
    PROVE  ValidThrough(f) = n
<1> DEFINE Stops(m) == (\A i \in 1 .. m : Passes(f, i)) /\ (m < Len(f) => ~Passes(f, m + 1))
<1>1. ASSUME NEW m \in 0 .. Len(f), Stops(m) PROVE m = n
  <2>1. CASE m < n
    BY <2>1, <1>1, FileFunction
  <2>2. CASE n < m
    BY <2>2, <1>1, FileFunction
  <2> QED BY <2>1, <2>2, FileFunction
<1>2. Stops(n)
  OBVIOUS
<1> HIDE DEF Stops
<1>3. n = CHOOSE m \in 0 .. Len(f) : Stops(m)
  BY <1>1, <1>2
<1> QED BY <1>3 DEF ValidThrough, Stops

\* And it stops.
LEMMA ThroughExists ==
    ASSUME NEW f \in Seq(Line)
    PROVE  /\ ValidThrough(f) \in 0 .. Len(f)
           /\ \A i \in 1 .. ValidThrough(f) : Passes(f, i)
           /\ ValidThrough(f) < Len(f) => ~Passes(f, ValidThrough(f) + 1)
<1> DEFINE bad == {i \in 1 .. Len(f) : ~Passes(f, i)}
<1>1. Len(f) \in Nat
  BY FileFunction
<1>2. ASSUME NEW n \in 0 .. Len(f),
             \A i \in 1 .. n : Passes(f, i), n < Len(f) => ~Passes(f, n + 1)
      PROVE  /\ ValidThrough(f) \in 0 .. Len(f)
             /\ \A i \in 1 .. ValidThrough(f) : Passes(f, i)
             /\ ValidThrough(f) < Len(f) => ~Passes(f, ValidThrough(f) + 1)
  <2>1. ValidThrough(f) = n
    BY <1>2, ThroughUnique
  <2> QED BY <2>1, <1>2
<1>3. CASE bad = {}
  <2>1. Len(f) \in 0 .. Len(f) /\ \A i \in 1 .. Len(f) : Passes(f, i)
    BY <1>1, <1>3
  <2> QED BY <2>1, <1>1, <1>2
<1>4. CASE bad # {}
  <2>1. PICK m \in bad : \A i \in bad : ~(i < m)
    <3> DEFINE less == {p \in Nat \X Nat : p[1] < p[2]}
    <3>1. IsWellFoundedOn(less, Nat)
      BY NatLessThanWellFounded DEF OpToRel
    <3>2. bad \subseteq Nat
      BY <1>1
    <3>3. \A i \in Nat, m \in Nat : i < m => <<i, m>> \in less
      OBVIOUS
    <3> HIDE DEF less, bad
    <3>4. PICK m \in bad : \A i \in bad : ~(<<i, m>> \in less)
      BY <1>4, <3>1, <3>2, WFMin
    <3> QED BY <3>2, <3>3, <3>4
  <2>2. m - 1 \in 0 .. Len(f) /\ (\A i \in 1 .. m - 1 : Passes(f, i)) /\ ~Passes(f, (m - 1) + 1)
    BY <1>1, <2>1
  <2> QED BY <2>2, <1>2
<1> QED BY <1>3, <1>4

\* The events of an inspection are a sequence as long as it is valid.
LEMMA ValidType ==
    ASSUME NEW f \in Seq(Line)
    PROVE  /\ ValidThrough(f) \in Nat /\ ValidThrough(f) <= Len(f)
           /\ Valid(f) \in Seq(Events)
           /\ Len(Valid(f)) = ValidThrough(f)
           /\ Valid(f) = [i \in 1 .. ValidThrough(f) |-> f[i].event]
<1>1. ValidThrough(f) \in Nat /\ ValidThrough(f) <= Len(f) /\ f \in [1 .. Len(f) -> Line]
  BY ThroughExists, FileFunction
<1>2. \A i \in 1 .. ValidThrough(f) : f[i].event \in Events
  BY <1>1, FileFunction DEF Line
<1>3. Valid(f) = [i \in 1 .. ValidThrough(f) |-> f[i].event]
  BY DEF Valid, Payloads
<1>4. Valid(f) \in [1 .. ValidThrough(f) -> Events]
  BY <1>2, <1>3
<1> QED BY <1>1, <1>3, <1>4

\* A file that keeps the first n valid lines, and has none to pass behind them,
\* keeps the first n events.
LEMMA PrefixOfValid ==
    ASSUME NEW f \in Seq(Line), NEW g \in Seq(Line), NEW n \in 0 .. Len(g), n <= ValidThrough(f),
           \A i \in 1 .. n : g[i] = f[i], n < Len(g) => ~Passes(g, n + 1)
    PROVE  ValidThrough(g) = n /\ Valid(g) = SubSeq(Valid(f), 1, n)
<1>1. ValidThrough(f) \in Nat /\ n \in Nat /\ \A i \in 1 .. ValidThrough(f) : Passes(f, i)
  BY ThroughExists, FileFunction
<1>2. \A i \in 1 .. n : Passes(g, i)
  BY <1>1, PassesAgree
<1>3. ValidThrough(g) = n
  BY <1>2, ThroughUnique
<1>4. Valid(g) \in Seq(Events) /\ Len(Valid(g)) = n /\ \A i \in 1 .. n : Valid(g)[i] = g[i].event
  BY <1>1, <1>3, ValidType
<1>5. \A i \in 1 .. n : Valid(f)[i] = f[i].event /\ Valid(f)[i] \in Events
  BY <1>1, ValidType
<1>6. /\ SubSeq(Valid(f), 1, n) \in Seq(Events) /\ Len(SubSeq(Valid(f), 1, n)) = n
      /\ \A i \in 1 .. n : SubSeq(Valid(f), 1, n)[i] = Valid(f)[i]
  BY <1>1, <1>5, ValidType
<1> QED BY <1>3, <1>4, <1>5, <1>6, SeqEqual

\* A file that says the same about every line up to the one that does not pass
\* has the same events.
LEMMA SameValid ==
    ASSUME NEW f \in Seq(Line), NEW g \in Seq(Line), ValidThrough(f) <= Len(g),
           \A i \in 1 .. ValidThrough(f) : g[i] = f[i],
           ValidThrough(f) < Len(g) => ~Passes(g, ValidThrough(f) + 1)
    PROVE  ValidThrough(g) = ValidThrough(f) /\ Valid(g) = Valid(f)
<1>1. ValidThrough(f) \in 0 .. Len(g)
  BY ValidType, FileFunction
<1>2. ValidThrough(g) = ValidThrough(f) /\ Valid(g) = SubSeq(Valid(f), 1, ValidThrough(f))
  BY <1>1, PrefixOfValid
<1>3. SubSeq(Valid(f), 1, ValidThrough(f)) = Valid(f)
  BY ValidType, SubSeqFull
<1> QED BY <1>2, <1>3

\* One more line that passes is one more event.
LEMMA ExtendValid ==
    ASSUME NEW f \in Seq(Line), NEW g \in Seq(Line), Len(g) = ValidThrough(f) + 1,
           \A i \in 1 .. ValidThrough(f) : g[i] = f[i], Passes(g, Len(g))
    PROVE  /\ ValidThrough(g) = ValidThrough(f) + 1
           /\ Valid(g) = Append(Valid(f), g[Len(g)].event)
<1>1. ValidThrough(f) \in Nat /\ Len(g) \in Nat /\ \A i \in 1 .. ValidThrough(f) : Passes(f, i)
  BY ThroughExists, FileFunction
<1>2. \A i \in 1 .. ValidThrough(f) : Passes(g, i)
  BY <1>1, PassesAgree
<1>3. Len(g) \in 0 .. Len(g) /\ ~(Len(g) < Len(g)) /\ \A i \in 1 .. Len(g) : Passes(g, i)
  BY <1>1, <1>2
<1>4. ValidThrough(g) = Len(g)
  BY <1>3, ThroughUnique
<1>5. g[Len(g)].event \in Events
  <2>1. g[Len(g)] \in Line
    BY <1>1, ElementOfSeq
  <2> QED BY <2>1 DEF Line
<1>6. /\ Valid(g) \in Seq(Events) /\ Len(Valid(g)) = Len(g)
      /\ \A i \in 1 .. Len(g) : Valid(g)[i] = g[i].event
  BY <1>4, ValidType
<1>7. /\ Valid(f) \in Seq(Events) /\ Len(Valid(f)) = ValidThrough(f)
      /\ \A i \in 1 .. ValidThrough(f) : Valid(f)[i] = f[i].event
  BY ValidType
<1> DEFINE more == Append(Valid(f), g[Len(g)].event)
<1>8. more \in Seq(Events) /\ Len(more) = Len(g) /\ \A i \in 1 .. Len(g) : more[i] = g[i].event
  BY <1>1, <1>5, <1>7, AppendProperties
<1> HIDE DEF more
<1>9. Valid(g) = more
  BY <1>6, <1>8, SeqEqual
<1> QED BY <1>4, <1>9 DEF more

-----------------------------------------------------------------------------
(* What a write, a cut and a damage do to the events of a file             *)

\* The three outcomes of an inspection.
LEMMA IssueCases ==
    ASSUME NEW f \in Seq(Line)
    PROVE  /\ Issue(f) = "none" <=> ValidThrough(f) = Len(f)
           /\ Issue(f) = "trailing" <=> Len(f) = ValidThrough(f) + 1 /\ f[Len(f)].form = "cut"
<1>1. ValidThrough(f) \in Nat /\ Len(f) \in Nat /\ ValidThrough(f) <= Len(f)
  BY ValidType, FileFunction
<1> QED BY <1>1 DEF Issue

\* The first bytes of a record behind a sound file: the file has a trailing
\* issue, and the events are those it had.
LEMMA StartedFile ==
    ASSUME NEW f \in Seq(Line), NEW l \in Line, l.form = "cut", ValidThrough(f) = Len(f)
    PROVE  /\ Append(f, l) \in Seq(Line) /\ Len(Append(f, l)) = Len(f) + 1
           /\ Append(f, l)[Len(f) + 1] = l
           /\ ValidThrough(Append(f, l)) = Len(f) /\ Valid(Append(f, l)) = Valid(f)
           /\ Issue(Append(f, l)) = "trailing"
<1> DEFINE g == Append(f, l)
<1>1. /\ g \in Seq(Line) /\ Len(g) = Len(f) + 1 /\ Len(f) \in Nat
      /\ g[Len(f) + 1] = l /\ \A i \in 1 .. Len(f) : g[i] = f[i]
  BY AppendProperties, FileFunction
<1> HIDE DEF g
<1>2. ~Passes(g, Len(f) + 1)
  BY <1>1 DEF Passes
<1>3. ValidThrough(g) = Len(f) /\ Valid(g) = Valid(f)
  BY <1>1, <1>2, SameValid
<1>4. Issue(g) = "trailing"
  BY <1>1, <1>3, IssueCases
<1> QED BY <1>1, <1>3, <1>4 DEF g

\* The rest of a record that continues the history: one more event.
LEMMA CompletedFile ==
    ASSUME NEW f \in Seq(Line), Len(f) = ValidThrough(f) + 1,
           f[Len(f)].sequence = Len(f), f[Len(f)].previous = Valid(f)
    PROVE  /\ [f EXCEPT ![Len(f)].form = "whole"] \in Seq(Line)
           /\ Len([f EXCEPT ![Len(f)].form = "whole"]) = Len(f)
           /\ ValidThrough([f EXCEPT ![Len(f)].form = "whole"]) = Len(f)
           /\ Valid([f EXCEPT ![Len(f)].form = "whole"]) = Append(Valid(f), f[Len(f)].event)
<1> DEFINE g == [f EXCEPT ![Len(f)].form = "whole"]
<1>1. ValidThrough(f) \in Nat /\ Len(f) \in 1 .. Len(f) /\ f \in [1 .. Len(f) -> Line]
  BY ValidType, FileFunction
<1>2. [f[Len(f)] EXCEPT !.form = "whole"] \in Line
  BY <1>1 DEF Line
<1>3. g = [f EXCEPT ![Len(f)] = [f[Len(f)] EXCEPT !.form = "whole"]]
  BY <1>1
<1>4. /\ g \in Seq(Line) /\ Len(g) = Len(f)
      /\ \A i \in 1 .. Len(f) : i # Len(f) => g[i] = f[i]
      /\ g[Len(f)] = [f[Len(f)] EXCEPT !.form = "whole"]
  BY <1>1, <1>2, <1>3, ExceptSeq
<1>5. /\ g[Len(f)].form = "whole" /\ g[Len(f)].sequence = f[Len(f)].sequence
      /\ g[Len(f)].previous = f[Len(f)].previous /\ g[Len(f)].event = f[Len(f)].event
  <2>1. f[Len(f)] \in Line
    BY <1>1
  <2> QED BY <1>4, <2>1 DEF Line
<1> HIDE DEF g
<1>6. \A i \in 1 .. ValidThrough(f) : g[i] = f[i]
  BY <1>1, <1>4
<1>7. Payloads(g, Len(f) - 1) = Valid(f)
  BY <1>1, <1>6 DEF Payloads, Valid
<1>8. Passes(g, Len(g))
  BY <1>4, <1>5, <1>7 DEF Passes
<1>9. ValidThrough(g) = Len(f) /\ Valid(g) = Append(Valid(f), g[Len(g)].event)
  BY <1>4, <1>6, <1>8, ExtendValid
<1> QED BY <1>4, <1>5, <1>9 DEF g

\* The first n lines of a file have the first events of it.
LEMMA ShortenedFile ==
    ASSUME NEW f \in Seq(Line), NEW n \in 0 .. Len(f)
    PROVE  /\ SubSeq(f, 1, n) \in Seq(Line) /\ Len(SubSeq(f, 1, n)) = n
           /\ \A i \in 1 .. n : SubSeq(f, 1, n)[i] = f[i]
           /\ ValidThrough(SubSeq(f, 1, n)) = IF n < ValidThrough(f) THEN n ELSE ValidThrough(f)
           /\ Valid(SubSeq(f, 1, n)) = SubSeq(Valid(f), 1, ValidThrough(SubSeq(f, 1, n)))
<1> DEFINE g == SubSeq(f, 1, n)
<1>1. Len(f) \in Nat /\ ValidThrough(f) \in Nat /\ n \in Nat /\ f \in [1 .. Len(f) -> Line]
  BY ValidType, FileFunction
<1>2. g \in Seq(Line) /\ Len(g) = n /\ \A i \in 1 .. n : g[i] = f[i]
  <2>1. \A i \in 1 .. n : f[i] \in Line
    BY <1>1
  <2> QED BY <1>1, <2>1, SubSeqProperties
<1> HIDE DEF g
<1>3. CASE n <= ValidThrough(f)
  <2>1. n \in 0 .. Len(g) /\ ~(n < Len(g))
    BY <1>1, <1>2
  <2>2. ValidThrough(g) = n /\ Valid(g) = SubSeq(Valid(f), 1, n)
    BY <1>2, <1>3, <2>1, PrefixOfValid
  <2> QED BY <1>1, <1>2, <1>3, <2>2 DEF g
<1>4. CASE ValidThrough(f) < n
  <2> DEFINE t == ValidThrough(f)
  <2>1. ~Passes(f, t + 1)
    BY <1>1, <1>4, ThroughExists
  <2>2. ~Passes(g, t + 1)
    <3>1. t + 1 \in Nat \ {0} /\ \A j \in 1 .. t + 1 : f[j] = g[j]
      BY <1>1, <1>2, <1>4
    <3> QED BY <2>1, <3>1, PassesAgree
  <2>3. t \in 0 .. Len(g) /\ t <= ValidThrough(f) /\ \A i \in 1 .. t : g[i] = f[i]
    BY <1>1, <1>2, <1>4
  <2>4. ValidThrough(g) = t /\ Valid(g) = SubSeq(Valid(f), 1, t)
    <3> HIDE DEF t
    <3> QED BY <1>2, <2>2, <2>3, PrefixOfValid
  <2> QED BY <1>1, <1>2, <1>4, <2>4 DEF g
<1> QED BY <1>1, <1>3, <1>4

\* One line made unreadable.
SpoilLine(f, i, x) == [f EXCEPT ![i].form = x]

\* It hides its event and those behind it.
LEMMA SpoiledFile ==
    ASSUME NEW f \in Seq(Line), NEW i \in 1 .. Len(f), NEW x \in {"cut", "altered"}
    PROVE  /\ SpoilLine(f, i, x) \in Seq(Line) /\ Len(SpoilLine(f, i, x)) = Len(f)
           /\ SpoilLine(f, i, x)[i].form = x
           /\ ValidThrough(SpoilLine(f, i, x))
                = IF i <= ValidThrough(f) THEN i - 1 ELSE ValidThrough(f)
           /\ Valid(SpoilLine(f, i, x)) = SubSeq(Valid(f), 1, ValidThrough(SpoilLine(f, i, x)))
<1> DEFINE g == SpoilLine(f, i, x)
<1>1. Len(f) \in Nat /\ ValidThrough(f) \in Nat /\ ValidThrough(f) <= Len(f) /\ f \in [1 .. Len(f) -> Line]
  BY ValidType, FileFunction
<1>2. [f[i] EXCEPT !.form = x] \in Line /\ [f[i] EXCEPT !.form = x].form = x
  BY <1>1 DEF Line
<1>3. g = [f EXCEPT ![i] = [f[i] EXCEPT !.form = x]]
  BY <1>1 DEF SpoilLine
<1>4. /\ g \in Seq(Line) /\ Len(g) = Len(f) /\ g[i].form = x
      /\ \A j \in 1 .. Len(f) : j # i => g[j] = f[j]
  BY <1>2, <1>3, ExceptSeq
<1>5. ~Passes(g, i)
  BY <1>4 DEF Passes
<1> HIDE DEF g
<1>6. CASE i <= ValidThrough(f)
  <2>1. i - 1 \in 0 .. Len(g) /\ i - 1 <= ValidThrough(f) /\ (i - 1) + 1 = i
        /\ \A j \in 1 .. i - 1 : g[j] = f[j]
    BY <1>1, <1>4, <1>6
  <2>2. ValidThrough(g) = i - 1 /\ Valid(g) = SubSeq(Valid(f), 1, i - 1)
    BY <1>4, <1>5, <2>1, PrefixOfValid
  <2> QED BY <1>4, <1>6, <2>2 DEF g
<1>7. CASE ~(i <= ValidThrough(f))
  <2> DEFINE t == ValidThrough(f)
  <2>1. t \in 0 .. Len(g) /\ t <= ValidThrough(f) /\ \A j \in 1 .. t : g[j] = f[j]
    BY <1>1, <1>4, <1>7
  <2>2. ~Passes(g, t + 1)
    <3>1. CASE i = t + 1
      BY <3>1, <1>5
    <3>2. CASE i # t + 1
      <4>1. t + 1 \in Nat \ {0} /\ (\A j \in 1 .. t + 1 : f[j] = g[j]) /\ t < Len(f)
        BY <1>1, <1>4, <1>7, <3>2
      <4>2. ~Passes(f, t + 1)
        BY <4>1, ThroughExists
      <4> QED BY <4>1, <4>2, PassesAgree
    <3> QED BY <3>1, <3>2
  <2>3. ValidThrough(g) = t /\ Valid(g) = SubSeq(Valid(f), 1, t)
    <3> HIDE DEF t
    <3> QED BY <1>4, <2>1, <2>2, PrefixOfValid
  <2> QED BY <1>4, <1>7, <2>3 DEF g
<1> QED BY <1>6, <1>7

-----------------------------------------------------------------------------
(* The inductive invariant                                                 *)

Inspections ==
    [through : Nat, hash : Seq(Events), lines : Nat, issue : {"none", "trailing", "fatal"},
     terminated : BOOLEAN]

Writing == {"separate", "start", "complete", "terminate", "sync", "return"}

\* The records of its batch a writer has written whole.
Written(w) == IF pc[w] = "terminate" THEN done[w] + 1 ELSE done[w]

\* The record it is writing, with some of its bytes missing.
Begun(w) == [Record(w, done[w] + 1) EXCEPT !.form = "cut"]

\* A writer past its inspection extends the history it has seen, record by
\* record, in a file that holds nothing else.
Extends(w) ==
    /\ Len(found[w].hash) = found[w].through
    /\ found[w].through + Len(batch[w]) <= Capacity
    /\ expected[w] \in {Unchecked, found[w].through}
    /\ Valid(file) = found[w].hash \o SubSeq(batch[w], 1, Written(w))
    /\ Len(file) = IF pc[w] = "complete" THEN ValidThrough(file) + 1 ELSE ValidThrough(file)
    /\ done[w] <= Len(batch[w])
    /\ pc[w] \in {"separate", "start", "complete", "terminate"} => done[w] < Len(batch[w])
    /\ pc[w] \in {"sync", "return"} => done[w] = Len(batch[w])
    /\ pc[w] = "start" => terminated
    /\ pc[w] = "complete" => file[Len(file)] = Begun(w)
    /\ pc[w] = "return" => durable = Len(file)

WriterInv(w) ==
    /\ pc[w] \notin Writing => done[w] = 0
    /\ pc[w] = "inspect" => Len(batch[w]) >= 1
    /\ pc[w] \in Writing => Extends(w)

\* The lock admits one call at a time.
OneCall ==
    /\ holders = {w \in Writers : pc[w] # "idle"}
    /\ \A v, w \in holders : v = w

\* What append has returned is flushed, and an inspection returns it.
DiskInv ==
    /\ acked <= durable
    /\ acked <= ValidThrough(file)
    /\ FailuresStayTrailing

JournalInv ==
    /\ TypeOK
    /\ found \in [Writers -> Inspections]
    /\ OneCall
    /\ DiskInv
    /\ \A w \in Writers : WriterInv(w)

DiskType ==
    /\ file \in Seq(Line) /\ Len(file) <= Capacity
    /\ terminated \in BOOLEAN
    /\ durable \in 0 .. Len(file)
    /\ acked \in Nat /\ damages \in Nat /\ losses \in Nat


\* A step inside the call of w preserves the invariant when it does so for the
\* disk and for w.
LEMMA OwnStep ==
    ASSUME JournalInv, NEW w \in Writers, pc[w] # "idle", NEW s \in Steps \ {"idle"},
           pc' = [pc EXCEPT ![w] = s], UNCHANGED <<holders, batch, expected>>,
           \/ UNCHANGED done
           \/ done' = [done EXCEPT ![w] = @ + 1],
           found' \in [Writers -> Inspections],
           DiskType', DiskInv', WriterInv(w)'
    PROVE  JournalInv'
<1>1. TypeOK' /\ pc'[w] = s /\ \A v \in Writers \ {w} : pc'[v] = pc[v] /\ done'[v] = done[v]
  <2>1. /\ pc \in [Writers -> Steps] /\ batch \in [Writers -> Seq(Events)] /\ holders \subseteq Writers
        /\ expected \in [Writers -> Nat \cup {Unchecked}] /\ done \in [Writers -> Nat]
    BY DEF JournalInv, TypeOK
  <2>2. pc' \in [Writers -> Steps] /\ pc'[w] = s /\ \A v \in Writers \ {w} : pc'[v] = pc[v]
    BY <2>1
  <2>3. done' \in [Writers -> Nat] /\ \A v \in Writers \ {w} : done'[v] = done[v]
    <3>1. CASE UNCHANGED done
      BY <2>1, <3>1
    <3>2. CASE done' = [done EXCEPT ![w] = @ + 1]
      <4>1. done[w] + 1 \in Nat
        BY <2>1
      <4> QED BY <2>1, <3>2, <4>1
    <3> QED BY <3>1, <3>2
  <2> QED BY <2>1, <2>2, <2>3 DEF TypeOK, DiskType
<1>2. OneCall'
  BY <1>1 DEF JournalInv, OneCall, TypeOK
<1>3. ASSUME NEW v \in Writers \ {w} PROVE WriterInv(v)'
  <2>1. pc[v] = "idle" /\ pc'[v] = "idle" /\ done'[v] = done[v]
    BY <1>1, <1>3 DEF JournalInv, OneCall
  <2>2. done'[v] = 0
    BY <2>1 DEF JournalInv, WriterInv, Writing
  <2> QED BY <2>1, <2>2 DEF WriterInv, Writing
<1> QED BY <1>1, <1>2, <1>3 DEF JournalInv

\* So does the end of the call, however it ends.
LEMMA ReturnStep ==
    ASSUME JournalInv, NEW w \in Writers, Return(w), DiskType', DiskInv'
    PROVE  JournalInv'
<1>1. found' \in [Writers -> Inspections]
  <2>1. Nothing \in Inspections
    BY DEF Nothing, Inspections
  <2> HIDE DEF Inspections, Nothing
  <2> QED BY <2>1 DEF JournalInv, Return
<1>2. /\ TypeOK' /\ pc'[w] = "idle" /\ done'[w] = 0
      /\ \A v \in Writers \ {w} : pc'[v] = pc[v] /\ done'[v] = done[v]
  BY DEF JournalInv, TypeOK, DiskType, Return, Leave, Steps
<1>3. OneCall'
  BY <1>2 DEF JournalInv, OneCall, TypeOK, Return, Leave
<1>4. ASSUME NEW v \in Writers PROVE WriterInv(v)'
  <2>1. pc'[v] = "idle" /\ done'[v] = 0
    <3>1. CASE v = w
      BY <3>1, <1>2
    <3>2. CASE v # w
      <4>1. pc[v] = "idle"
        BY <3>2 DEF JournalInv, OneCall, Return, Leave
      <4> QED BY <4>1, <3>2, <1>2 DEF JournalInv, WriterInv, Writing
    <3> QED BY <3>1, <3>2
  <2> QED BY <2>1 DEF WriterInv, Writing
<1> QED BY <1>2, <1>3, <1>4, <1>1 DEF JournalInv

\* A step that leaves the disk alone keeps what the disk promises.
LEMMA SameDisk ==
    ASSUME JournalInv, UNCHANGED <<disk, env>>
    PROVE  DiskType' /\ DiskInv'
BY DEF JournalInv, TypeOK, DiskType, DiskInv, FailuresStayTrailing, disk, env

\* A call that gets the lock.
LEMMA EnterStep ==
    ASSUME JournalInv, NEW w \in Writers, Enter(w), NEW s \in {"inspect", "examine"},
           pc' = [pc EXCEPT ![w] = s], UNCHANGED <<disk, env, found, done>>,
           batch' \in [Writers -> Seq(Events)], expected' \in [Writers -> Nat \cup {Unchecked}],
           s = "inspect" => Len(batch'[w]) >= 1
    PROVE  JournalInv'
<1>1. DiskType' /\ DiskInv'
  BY SameDisk
<1>2. /\ pc \in [Writers -> Steps] /\ done \in [Writers -> Nat] /\ s \in Steps
      /\ \A v \in Writers : pc[v] = "idle" /\ done[v] = 0
  BY DEF JournalInv, TypeOK, OneCall, WriterInv, Writing, Enter, Steps
<1>3. TypeOK'
  BY <1>1, <1>2 DEF TypeOK, DiskType, Enter
<1>4. OneCall'
  BY <1>2 DEF OneCall, Enter
<1>5. ASSUME NEW v \in Writers PROVE WriterInv(v)'
  BY <1>2 DEF WriterInv, Writing
<1> QED BY <1>1, <1>3, <1>4, <1>5 DEF JournalInv

\* The batches append accepts are sequences of events, not empty.
LEMMA BatchType ==
    ASSUME NEW b \in Batches
    PROVE  b \in Seq(Events) /\ Len(b) >= 1
<1>1. PICK n \in 1 .. MaxBatch : b \in [1 .. n -> Events]
  BY DEF Batches
<1> QED BY <1>1, JournalConstants

\* One more event behind two stretches of events.
LEMMA AppendToConcat ==
    ASSUME NEW S, NEW p \in Seq(S), NEW q \in Seq(S), NEW e \in S
    PROVE  Append(p \o q, e) = p \o (q \o << e >>)
<1> DEFINE one == << e >>
<1>1. one \in Seq(S) /\ p \o q \in Seq(S)
  BY ConcatProperties
<1>2. Append(p \o q, e) = (p \o q) \o one
  BY <1>1, AppendIsConcat
<1> HIDE DEF one
<1>3. (p \o q) \o one = p \o (q \o one)
  BY <1>1, ConcatAssociative
<1> QED BY <1>2, <1>3 DEF one

\* The beginning of a batch, one event longer.
LEMMA GrowBatch ==
    ASSUME NEW h \in Seq(Events), NEW b \in Seq(Events), NEW k \in Nat, k < Len(b)
    PROVE  /\ h \o SubSeq(b, 1, k) \in Seq(Events)
           /\ Len(h \o SubSeq(b, 1, k)) = Len(h) + k
           /\ Append(h \o SubSeq(b, 1, k), b[k + 1]) = h \o SubSeq(b, 1, k + 1)
<1>1. Len(b) \in Nat /\ Len(h) \in Nat /\ \A i \in 1 .. Len(b) : b[i] \in Events
  OBVIOUS
<1>2. SubSeq(b, 1, k) \in Seq(Events) /\ Len(SubSeq(b, 1, k)) = k
  <2>1. \A i \in 1 .. k : b[i] \in Events
    BY <1>1
  <2> QED BY <2>1, SubSeqProperties
<1>3. SubSeq(b, 1, k + 1) = SubSeq(b, 1, k) \o << b[k + 1] >>
  <2> DEFINE n == k + 1
  <2>1. 1 \in 1 .. Len(b) /\ n \in 1 .. Len(b) /\ n - 1 = k
    BY <1>1
  <2> HIDE DEF n
  <2>2. SubSeq(b, 1, n) = SubSeq(b, 1, n - 1) \o << b[n] >>
    BY <2>1, SubSeqRecursiveSecond
  <2>3. SubSeq(b, 1, n) = SubSeq(b, 1, k) \o << b[n] >>
    BY <2>1, <2>2
  <2> QED BY <2>3 DEF n
<1> DEFINE s == SubSeq(b, 1, k)
           e == b[k + 1]
<1>4. s \in Seq(Events) /\ Len(s) = k /\ e \in Events
  BY <1>1, <1>2
<1> HIDE DEF s, e
<1>5. h \o s \in Seq(Events) /\ Len(h \o s) = Len(h) + k
  BY <1>4, ConcatProperties
<1>6. Append(h \o s, e) = h \o (s \o << e >>)
  BY <1>4, AppendToConcat
<1> QED BY <1>3, <1>5, <1>6 DEF s, e

\* How far a writer past its inspection has got.
LEMMA Reached ==
    ASSUME JournalInv, NEW w \in Writers, pc[w] \in Writing
    PROVE  /\ Extends(w) /\ file \in Seq(Line) /\ batch[w] \in Seq(Events) /\ done[w] \in Nat
           /\ found[w].through \in Nat /\ found[w].hash \in Seq(Events)
           /\ Len(batch[w]) \in Nat /\ Len(file) \in Nat
           /\ ValidThrough(file) = found[w].through + Written(w)
<1>1. /\ Extends(w) /\ file \in Seq(Line) /\ batch[w] \in Seq(Events) /\ done[w] \in Nat
      /\ found[w].through \in Nat /\ found[w].hash \in Seq(Events)
      /\ Len(found[w].hash) = found[w].through
  BY DEF JournalInv, TypeOK, WriterInv, Extends, Inspections
<1>2. Len(batch[w]) \in Nat /\ Len(file) \in Nat
  BY <1>1
<1>3. Written(w) \in 0 .. Len(batch[w])
  BY <1>1, <1>2 DEF Extends, Written
<1>4. SubSeq(batch[w], 1, Written(w)) \in Seq(Events) /\ Len(SubSeq(batch[w], 1, Written(w))) = Written(w)
  <2> DEFINE b == batch[w]
             n == Written(w)
  <2> HIDE DEF b, n
  <2>1. b \in Seq(Events) /\ n \in 0 .. Len(b)
    BY <1>1, <1>3 DEF b, n
  <2>2. \A i \in 1 .. n : b[i] \in Events
    BY <2>1
  <2>3. SubSeq(b, 1, n) \in Seq(Events) /\ Len(SubSeq(b, 1, n)) = n
    BY <2>1, <2>2, SubSeqProperties
  <2> QED BY <2>3 DEF b, n
<1>5. Len(Valid(file)) = found[w].through + Written(w)
  <2>1. Valid(file) = found[w].hash \o SubSeq(batch[w], 1, Written(w))
    BY <1>1 DEF Extends
  <2> QED BY <1>1, <1>4, <2>1, ConcatProperties
<1> QED BY <1>1, <1>2, <1>5, ValidType

\* What inspect returns about a file.
LEMMA InspectionType ==
    ASSUME NEW f \in Seq(Line), NEW t \in BOOLEAN
    PROVE  /\ Inspection(f, t) \in Inspections
           /\ Inspection(f, t).through = ValidThrough(f) /\ Inspection(f, t).hash = Valid(f)
           /\ Inspection(f, t).lines = Len(f) /\ Inspection(f, t).issue = Issue(f)
<1>1. ValidThrough(f) \in Nat /\ Len(f) \in Nat /\ Valid(f) \in Seq(Events)
  BY ValidType, FileFunction
<1>2. Issue(f) \in {"none", "trailing", "fatal"}
  BY DEF Issue
<1> QED BY <1>1, <1>2 DEF Inspection, Inspections

-----------------------------------------------------------------------------
(* Every step preserves the invariant                                      *)

LEMMA InspectStep ==
    ASSUME JournalInv, NEW w \in Writers, Inspect(w)
    PROVE  JournalInv'
<1> DEFINE i == Inspection(file, terminated)
           s == IF terminated THEN "start" ELSE "separate"
<1>1. /\ file \in Seq(Line) /\ terminated \in BOOLEAN /\ found \in [Writers -> Inspections]
      /\ pc \in [Writers -> Steps] /\ batch[w] \in Seq(Events)
      /\ pc[w] = "inspect" /\ done[w] = 0 /\ Len(batch[w]) >= 1
  BY DEF JournalInv, TypeOK, WriterInv, Writing, Inspect, Goto
<1>2. /\ i.issue = "none" /\ expected[w] \in {Unchecked, i.through}
      /\ i.lines + Len(batch[w]) <= Capacity
      /\ pc' = [pc EXCEPT ![w] = s] /\ found' = [found EXCEPT ![w] = i]
      /\ UNCHANGED <<disk, env, batch, expected, done, holders>>
  BY DEF Inspect, Goto
<1>3. /\ i \in Inspections /\ i.through = ValidThrough(file) /\ i.hash = Valid(file)
      /\ i.lines = Len(file) /\ i.issue = Issue(file)
  BY <1>1, InspectionType
<1>4. s \in Steps \ {"idle"} /\ s \in {"start", "separate"} /\ (s = "start" => terminated)
  BY DEF Steps
<1> HIDE DEF i, s
<1>5. DiskType' /\ DiskInv'
  BY <1>2, SameDisk
<1>6. found' \in [Writers -> Inspections] /\ found'[w] = i /\ pc'[w] = s
  BY <1>1, <1>2, <1>3, <1>4
<1>7. /\ Len(file) = ValidThrough(file) /\ Len(Valid(file)) = ValidThrough(file)
      /\ Valid(file) = Valid(file) \o SubSeq(batch[w], 1, 0)
  <2>1. SubSeq(batch[w], 1, 0) = << >>
    BY SubSeqEmpty
  <2>2. Valid(file) \o << >> = Valid(file)
    BY <1>1, ValidType, ConcatEmptySeq
  <2> QED BY <1>1, <1>2, <1>3, <2>1, <2>2, IssueCases, ValidType
<1>8. Extends(w)'
  <2>1. Written(w)' = 0
    BY <1>1, <1>2, <1>4, <1>6 DEF Written
  <2>2. /\ UNCHANGED <<file, terminated, durable>>
        /\ done'[w] = 0 /\ batch'[w] = batch[w] /\ expected'[w] = expected[w]
    BY <1>1, <1>2 DEF disk
  <2>3. 0 < Len(batch[w]) /\ 0 <= Len(batch[w])
    BY <1>1
  <2> QED BY <1>2, <1>3, <1>4, <1>6, <1>7, <2>1, <2>2, <2>3 DEF Extends
<1>9. WriterInv(w)'
  BY <1>4, <1>6, <1>8 DEF WriterInv, Writing
<1> QED BY <1>1, <1>2, <1>4, <1>5, <1>6, <1>9, OwnStep

LEMMA SeparateStep ==
    ASSUME JournalInv, NEW w \in Writers, Separate(w)
    PROVE  JournalInv'
<1>1. /\ pc[w] = "separate" /\ pc' = [pc EXCEPT ![w] = "start"] /\ terminated' = TRUE
      /\ UNCHANGED <<file, durable, acked, damages, losses, found, batch, expected, done, holders>>
  BY DEF Separate, Goto, env, call
<1>2. pc'[w] = "start" /\ found \in [Writers -> Inspections] /\ pc[w] \in Writing
  BY <1>1 DEF JournalInv, TypeOK, Writing
<1>3. Extends(w)
  BY <1>2, Reached
<1>4. DiskType' /\ DiskInv'
  BY <1>1 DEF JournalInv, TypeOK, DiskType, DiskInv, FailuresStayTrailing
<1>5. Extends(w)'
  BY <1>1, <1>2, <1>3 DEF Extends, Written
<1>6. WriterInv(w)'
  BY <1>2, <1>5 DEF WriterInv, Writing
<1> QED BY <1>1, <1>2, <1>4, <1>6, OwnStep DEF Steps

\* The record a writer is about to write.
LEMMA RecordType ==
    ASSUME JournalInv, NEW w \in Writers, pc[w] \in {"start", "complete"}
    PROVE  /\ Begun(w) \in Line
           /\ Begun(w).form = "cut"
           /\ Begun(w).sequence = ValidThrough(file) + 1
           /\ Begun(w).previous = Valid(file)
           /\ Begun(w).event = batch[w][done[w] + 1]
           /\ batch[w][done[w] + 1] \in Events
<1>1. pc[w] \in Writing
  BY DEF Writing
<1>2. /\ Extends(w) /\ file \in Seq(Line) /\ batch[w] \in Seq(Events) /\ done[w] \in Nat
      /\ found[w].through \in Nat /\ Len(batch[w]) \in Nat
      /\ ValidThrough(file) = found[w].through + Written(w)
  BY <1>1, Reached
<1>3. /\ Written(w) = done[w] /\ done[w] < Len(batch[w])
      /\ Valid(file) = found[w].hash \o SubSeq(batch[w], 1, done[w])
  BY <1>2 DEF Extends, Written
<1>4. batch[w][done[w] + 1] \in Events
  BY <1>2, <1>3
<1>5. /\ Record(w, done[w] + 1).sequence = ValidThrough(file) + 1
      /\ Record(w, done[w] + 1).previous = Valid(file)
      /\ Record(w, done[w] + 1).event = batch[w][done[w] + 1]
      /\ Record(w, done[w] + 1) \in Line
  <2>1. (done[w] + 1) - 1 = done[w] /\ found[w].through + (done[w] + 1) = ValidThrough(file) + 1
    <3>1. \A t, d \in Nat : (d + 1) - 1 = d /\ t + (d + 1) = (t + d) + 1
      OBVIOUS
    <3>2. ValidThrough(file) = found[w].through + done[w]
      BY <1>2, <1>3
    <3>3. found[w].through \in Nat /\ done[w] \in Nat
      BY <1>2
    <3> QED BY <3>1, <3>2, <3>3
  <2>2. ValidThrough(file) + 1 \in Nat /\ Valid(file) \in Seq(Events)
    BY <1>2, ValidType
  <2>3. Record(w, done[w] + 1) =
          [sequence |-> ValidThrough(file) + 1, previous |-> Valid(file),
           event |-> batch[w][done[w] + 1], form |-> "whole"]
    BY <1>3, <2>1 DEF Record
  <2> QED BY <1>4, <2>2, <2>3 DEF Line
<1> DEFINE r == Record(w, done[w] + 1)
<1>6. r \in Line
  BY <1>5
<1> HIDE DEF r
<1>7. /\ [r EXCEPT !.form = "cut"] \in Line /\ [r EXCEPT !.form = "cut"].form = "cut"
      /\ [r EXCEPT !.form = "cut"].sequence = r.sequence
      /\ [r EXCEPT !.form = "cut"].previous = r.previous
      /\ [r EXCEPT !.form = "cut"].event = r.event
  BY <1>6 DEF Line
<1>8. Begun(w) = [r EXCEPT !.form = "cut"]
  BY DEF Begun, r
<1> QED BY <1>4, <1>5, <1>7, <1>8 DEF r

\* The first bytes of a record: a trailing issue, and no event more or less.
LEMMA StartEffect ==
    ASSUME JournalInv, NEW w \in Writers, StartRecord(w)
    PROVE  /\ file' \in Seq(Line) /\ Len(file') = Len(file) + 1
           /\ file'[Len(file')] = Begun(w)
           /\ ValidThrough(file') = Len(file) /\ ValidThrough(file) = Len(file)
           /\ Valid(file') = Valid(file) /\ Issue(file') = "trailing"
<1> DEFINE r == Begun(w)
<1>1. pc[w] = "start" /\ pc[w] \in Writing
  BY DEF StartRecord, Goto, Writing
<1>2. r \in Line /\ r.form = "cut"
  BY <1>1, RecordType
<1>3. Extends(w) /\ file \in Seq(Line)
  BY <1>1, Reached
<1>4. terminated /\ ValidThrough(file) = Len(file)
  BY <1>1, <1>3 DEF Extends
<1>5. file' = Append(file, r)
  BY <1>4 DEF StartRecord, Begun
<1> HIDE DEF r
<1> QED BY <1>2, <1>3, <1>4, <1>5, StartedFile DEF r

LEMMA StartStep ==
    ASSUME JournalInv, NEW w \in Writers, StartRecord(w)
    PROVE  JournalInv'
<1>1. /\ pc[w] = "start" /\ pc' = [pc EXCEPT ![w] = "complete"] /\ terminated' = FALSE
      /\ UNCHANGED <<durable, acked, damages, losses, found, batch, expected, done, holders>>
  BY DEF StartRecord, Goto, env, call
<1>2. /\ pc'[w] = "complete" /\ found \in [Writers -> Inspections] /\ pc[w] \in Writing
      /\ pc[w] \in {"start", "complete"}
  BY <1>1 DEF JournalInv, TypeOK, Writing
<1>3. /\ Extends(w) /\ file \in Seq(Line) /\ done[w] \in Nat /\ Len(file) \in Nat
      /\ found[w].through \in Nat /\ Len(batch[w]) \in Nat
      /\ ValidThrough(file) = found[w].through + Written(w)
  BY <1>2, Reached
<1>4. /\ file' \in Seq(Line) /\ Len(file') = Len(file) + 1
      /\ ValidThrough(file') = Len(file) /\ ValidThrough(file) = Len(file)
      /\ Valid(file') = Valid(file) /\ Issue(file') = "trailing"
  BY StartEffect
<1>5. DiskType'
  <2>1. Len(file') <= Capacity
    <3>1. /\ Len(file) = found[w].through + done[w] /\ done[w] < Len(batch[w])
          /\ found[w].through + Len(batch[w]) <= Capacity
      BY <1>1, <1>3, <1>4 DEF Extends, Written
    <3>2. \A t, d, b, c \in Nat : d < b /\ t + b <= c => t + d + 1 <= c
      OBVIOUS
    <3>3. found[w].through \in Nat /\ done[w] \in Nat /\ Len(batch[w]) \in Nat /\ Capacity \in Nat
      BY <1>3, JournalConstants
    <3> QED BY <1>4, <3>1, <3>2, <3>3
  <2>2. durable \in 0 .. Len(file) /\ acked \in Nat /\ damages \in Nat /\ losses \in Nat
    BY DEF JournalInv, TypeOK
  <2>3. durable' \in 0 .. Len(file')
    BY <1>1, <1>3, <1>4, <2>2
  <2>4. terminated' \in BOOLEAN /\ acked' \in Nat /\ damages' \in Nat /\ losses' \in Nat
    BY <1>1, <2>2
  <2> QED BY <1>4, <2>1, <2>3, <2>4 DEF DiskType
<1>6. DiskInv'
  BY <1>1, <1>4 DEF JournalInv, DiskInv, FailuresStayTrailing
<1>7. Extends(w)'
  <2>1. file'[Len(file')] = Begun(w)
    BY StartEffect
  <2>2. Begun(w)' = Begun(w)
    BY <1>1 DEF Begun, Record
  <2>3. file'[Len(file')] = Begun(w)'
    BY <2>1, <2>2
  <2>4. Written(w)' = Written(w) /\ Len(file') = ValidThrough(file') + 1
    BY <1>1, <1>2, <1>4 DEF Written
  <2>5. /\ Len(found[w].hash) = found[w].through
        /\ found[w].through + Len(batch[w]) <= Capacity
        /\ expected[w] \in {Unchecked, found[w].through}
        /\ Valid(file) = found[w].hash \o SubSeq(batch[w], 1, Written(w))
        /\ done[w] <= Len(batch[w]) /\ done[w] < Len(batch[w])
    BY <1>1, <1>3 DEF Extends
  <2>6. /\ Len(found'[w].hash) = found'[w].through
        /\ found'[w].through + Len(batch'[w]) <= Capacity
        /\ expected'[w] \in {Unchecked, found'[w].through}
        /\ Valid(file') = found'[w].hash \o SubSeq(batch'[w], 1, Written(w)')
        /\ done'[w] <= Len(batch'[w]) /\ done'[w] < Len(batch'[w])
    BY <1>1, <1>4, <2>4, <2>5
  <2> QED BY <1>2, <2>3, <2>4, <2>6 DEF Extends
<1>8. WriterInv(w)'
  BY <1>2, <1>7 DEF WriterInv, Writing
<1> QED BY <1>1, <1>2, <1>5, <1>6, <1>8, OwnStep DEF Steps

\* The rest of it: the next event of the batch is in the stream.
LEMMA CompleteEffect ==
    ASSUME JournalInv, NEW w \in Writers, CompleteRecord(w)
    PROVE  /\ file' \in Seq(Line) /\ Len(file') = Len(file)
           /\ ValidThrough(file') = Len(file) /\ ValidThrough(file) + 1 = Len(file)
           /\ Valid(file') = Append(Valid(file), batch[w][done[w] + 1])
           /\ batch[w][done[w] + 1] \in Events
<1> DEFINE r == Begun(w)
<1>1. pc[w] = "complete" /\ pc[w] \in Writing
  BY DEF CompleteRecord, Goto, Writing
<1>2. /\ r.sequence = ValidThrough(file) + 1 /\ r.previous = Valid(file)
      /\ r.event = batch[w][done[w] + 1] /\ batch[w][done[w] + 1] \in Events
  BY <1>1, RecordType
<1>3. Extends(w) /\ file \in Seq(Line)
  BY <1>1, Reached
<1>4. Len(file) = ValidThrough(file) + 1 /\ file[Len(file)] = r
  BY <1>1, <1>3 DEF Extends
<1>5. file' = [file EXCEPT ![Len(file)].form = "whole"]
  BY <1>4 DEF CompleteRecord, Begun
<1> HIDE DEF r
<1>6. file[Len(file)].sequence = Len(file) /\ file[Len(file)].previous = Valid(file)
      /\ file[Len(file)].event = batch[w][done[w] + 1]
  BY <1>2, <1>4
<1> DEFINE g == [file EXCEPT ![Len(file)].form = "whole"]
<1>7. g \in Seq(Line) /\ Len(g) = Len(file) /\ ValidThrough(g) = Len(file)
      /\ Valid(g) = Append(Valid(file), file[Len(file)].event)
  BY <1>3, <1>4, <1>6, CompletedFile
<1> HIDE DEF g
<1>8. file' = g
  BY <1>5 DEF g
<1> QED BY <1>2, <1>4, <1>6, <1>7, <1>8

LEMMA CompleteStep ==
    ASSUME JournalInv, NEW w \in Writers, CompleteRecord(w)
    PROVE  JournalInv'
<1>1. /\ pc[w] = "complete" /\ pc' = [pc EXCEPT ![w] = "terminate"]
      /\ UNCHANGED <<terminated, durable, acked, damages, losses, found, batch, expected, done, holders>>
  BY DEF CompleteRecord, Goto, env, call
<1>2. pc'[w] = "terminate" /\ found \in [Writers -> Inspections] /\ pc[w] \in Writing
  BY <1>1 DEF JournalInv, TypeOK, Writing
<1>3. /\ Extends(w) /\ file \in Seq(Line) /\ batch[w] \in Seq(Events) /\ done[w] \in Nat
      /\ found[w].hash \in Seq(Events) /\ Len(file) \in Nat
  BY <1>2, Reached
<1>4. /\ file' \in Seq(Line) /\ Len(file') = Len(file)
      /\ ValidThrough(file') = Len(file) /\ ValidThrough(file) + 1 = Len(file)
      /\ Valid(file') = Append(Valid(file), batch[w][done[w] + 1])
  BY CompleteEffect
<1>5. DiskType'
  BY <1>1, <1>4 DEF JournalInv, TypeOK, DiskType
<1>6. DiskInv'
  <2>1. Issue(file') = "none"
    BY <1>4, IssueCases
  <2>2. acked <= ValidThrough(file')
    BY <1>3, <1>4 DEF JournalInv, DiskInv, TypeOK
  <2> QED BY <1>1, <2>1, <2>2 DEF JournalInv, DiskInv, FailuresStayTrailing
<1>7. Extends(w)'
  <2>1. /\ Len(found[w].hash) = found[w].through
        /\ found[w].through + Len(batch[w]) <= Capacity
        /\ expected[w] \in {Unchecked, found[w].through}
        /\ Valid(file) = found[w].hash \o SubSeq(batch[w], 1, done[w])
        /\ done[w] <= Len(batch[w]) /\ done[w] < Len(batch[w])
    BY <1>1, <1>3 DEF Extends, Written
  <2>2. Valid(file') = found[w].hash \o SubSeq(batch[w], 1, done[w] + 1)
    <3>1. Append(found[w].hash \o SubSeq(batch[w], 1, done[w]), batch[w][done[w] + 1])
            = found[w].hash \o SubSeq(batch[w], 1, done[w] + 1)
      BY <1>3, <2>1, GrowBatch
    <3> QED BY <1>4, <2>1, <3>1
  <2>3. Written(w)' = done[w] + 1
    BY <1>1, <1>2 DEF Written
  <2>4. /\ Len(found'[w].hash) = found'[w].through
        /\ found'[w].through + Len(batch'[w]) <= Capacity
        /\ expected'[w] \in {Unchecked, found'[w].through}
        /\ Valid(file') = found'[w].hash \o SubSeq(batch'[w], 1, Written(w)')
        /\ done'[w] <= Len(batch'[w]) /\ done'[w] < Len(batch'[w])
        /\ Len(file') = ValidThrough(file')
    BY <1>1, <1>4, <2>1, <2>2, <2>3
  <2> QED BY <1>2, <2>4 DEF Extends
<1>8. WriterInv(w)'
  BY <1>2, <1>7 DEF WriterInv, Writing
<1> QED BY <1>1, <1>2, <1>5, <1>6, <1>8, OwnStep DEF Steps

LEMMA TerminateStep ==
    ASSUME JournalInv, NEW w \in Writers, TerminateRecord(w)
    PROVE  JournalInv'
<1> DEFINE s == IF done[w] + 1 < Len(batch[w]) THEN "start" ELSE "sync"
<1>1. /\ pc[w] = "terminate" /\ pc' = [pc EXCEPT ![w] = s] /\ terminated' = TRUE
      /\ done' = [done EXCEPT ![w] = @ + 1]
      /\ UNCHANGED <<file, durable, acked, damages, losses, found, batch, expected, holders>>
  BY DEF TerminateRecord, Goto, env
<1>2. /\ pc'[w] = s /\ found \in [Writers -> Inspections] /\ pc[w] \in Writing
      /\ done'[w] = done[w] + 1 /\ s \in Steps \ {"idle"} /\ s \in {"start", "sync"}
  BY <1>1 DEF JournalInv, TypeOK, Writing, Steps
<1>3. Extends(w) /\ done[w] \in Nat /\ Len(batch[w]) \in Nat
  BY <1>2, Reached
<1>4. DiskType' /\ DiskInv'
  BY <1>1 DEF JournalInv, TypeOK, DiskType, DiskInv, FailuresStayTrailing
<1>5. Extends(w)'
  <2>1. /\ Len(found[w].hash) = found[w].through
        /\ found[w].through + Len(batch[w]) <= Capacity
        /\ expected[w] \in {Unchecked, found[w].through}
        /\ Valid(file) = found[w].hash \o SubSeq(batch[w], 1, done[w] + 1)
        /\ done[w] < Len(batch[w]) /\ Len(file) = ValidThrough(file)
    BY <1>1, <1>3 DEF Extends, Written
  <2>2. Written(w)' = done[w] + 1
    BY <1>2 DEF Written
  <2>3. /\ done[w] + 1 <= Len(batch[w])
        /\ s = "start" => done[w] + 1 < Len(batch[w])
        /\ s = "sync" => done[w] + 1 = Len(batch[w])
    BY <1>3, <2>1
  <2> HIDE DEF s
  <2> QED BY <1>1, <1>2, <2>1, <2>2, <2>3 DEF Extends
<1>6. WriterInv(w)'
  BY <1>2, <1>5 DEF WriterInv, Writing
<1> HIDE DEF s
<1> QED BY <1>1, <1>2, <1>4, <1>6, OwnStep

LEMMA SyncStep ==
    ASSUME JournalInv, NEW w \in Writers, Sync(w)
    PROVE  JournalInv'
<1>1. /\ pc[w] = "sync" /\ pc' = [pc EXCEPT ![w] = "return"] /\ durable' = Len(file)
      /\ UNCHANGED <<file, terminated, acked, damages, losses, found, batch, expected, done, holders>>
  BY DEF Sync, Goto, env, call
<1>2. pc'[w] = "return" /\ found \in [Writers -> Inspections] /\ pc[w] \in Writing
  BY <1>1 DEF JournalInv, TypeOK, Writing
<1>3. Extends(w) /\ Len(file) \in Nat
  BY <1>2, Reached
<1>4. DiskType'
  BY <1>1, <1>3 DEF JournalInv, TypeOK, DiskType
<1>5. DiskInv'
  <2>1. acked \in Nat /\ durable \in 0 .. Len(file)
    BY DEF JournalInv, TypeOK
  <2> QED BY <1>1, <1>3, <2>1 DEF JournalInv, DiskInv, FailuresStayTrailing
<1>6. Extends(w)'
  BY <1>1, <1>2, <1>3 DEF Extends, Written
<1>7. WriterInv(w)'
  BY <1>2, <1>6 DEF WriterInv, Writing
<1> QED BY <1>1, <1>2, <1>4, <1>5, <1>7, OwnStep DEF Steps

LEMMA AcknowledgeStep ==
    ASSUME JournalInv, NEW w \in Writers, Acknowledge(w)
    PROVE  JournalInv' /\ acked <= acked' /\ acked' = ValidThrough(file)
<1>1. /\ pc[w] = "return" /\ acked' = found[w].through + Len(batch[w]) /\ Return(w)
      /\ UNCHANGED <<file, terminated, durable, damages, losses>> /\ pc[w] \in Writing
  BY DEF Acknowledge, env, Writing
<1>2. /\ Extends(w) /\ Len(file) \in Nat /\ Len(batch[w]) \in Nat /\ found[w].through \in Nat
      /\ ValidThrough(file) = found[w].through + Written(w)
  BY <1>1, Reached
<1>3. acked' = ValidThrough(file) /\ Len(file) = ValidThrough(file) /\ durable = Len(file)
  BY <1>1, <1>2 DEF Extends, Written
<1>4. acked' \in Nat
  BY <1>2, <1>3
<1>5. DiskType'
  BY <1>1, <1>4 DEF JournalInv, TypeOK, DiskType
<1>6. DiskInv' /\ acked <= acked'
  BY <1>1, <1>2, <1>3 DEF JournalInv, DiskInv, FailuresStayTrailing
<1> QED BY <1>1, <1>3, <1>5, <1>6, ReturnStep

\* A recovery takes the line no inspection returns, and nothing else.
LEMMA TruncateEffect ==
    ASSUME JournalInv, NEW w \in Writers, Truncate(w)
    PROVE  /\ file' \in Seq(Line) /\ Len(file') = ValidThrough(file) /\ Len(file') <= Len(file)
           /\ ValidThrough(file') = ValidThrough(file) /\ Valid(file') = Valid(file)
<1>1. file' = SubSeq(file, 1, ValidThrough(file)) /\ file \in Seq(Line)
  BY DEF Truncate, JournalInv, TypeOK
<1>2. ValidThrough(file) \in 0 .. Len(file) /\ Len(file) \in Nat /\ ValidThrough(file) <= Len(file)
      /\ Valid(file) \in Seq(Events) /\ Len(Valid(file)) = ValidThrough(file)
  BY <1>1, ValidType, FileFunction
<1> DEFINE n == ValidThrough(file)
           g == SubSeq(file, 1, n)
<1>3. /\ g \in Seq(Line) /\ Len(g) = n /\ ValidThrough(g) = n
      /\ Valid(g) = SubSeq(Valid(file), 1, ValidThrough(g))
  BY <1>1, <1>2, ShortenedFile
<1>4. SubSeq(Valid(file), 1, n) = Valid(file)
  BY <1>2, SubSeqFull
<1>5. file' = g
  BY <1>1
<1> HIDE DEF g
<1> QED BY <1>2, <1>3, <1>4, <1>5

LEMMA TruncateStep ==
    ASSUME JournalInv, NEW w \in Writers, Truncate(w)
    PROVE  JournalInv'
<1>1. /\ pc[w] = "examine" /\ pc' = [pc EXCEPT ![w] = "flush"] /\ terminated' = TRUE
      /\ durable' = IF durable < Len(file') THEN durable ELSE Len(file')
      /\ UNCHANGED <<acked, damages, losses, found, batch, expected, done, holders>>
  BY DEF Truncate, Goto, env, call
<1>2. /\ pc'[w] = "flush" /\ found \in [Writers -> Inspections] /\ done[w] = 0
      /\ durable \in Nat /\ acked \in Nat /\ Len(file) \in Nat /\ Len(file) <= Capacity
      /\ damages \in Nat /\ losses \in Nat
  <2>1. /\ pc \in [Writers -> Steps] /\ found \in [Writers -> Inspections] /\ WriterInv(w)
        /\ file \in Seq(Line) /\ durable \in 0 .. Len(file) /\ acked \in Nat
        /\ Len(file) <= Capacity /\ damages \in Nat /\ losses \in Nat
    BY DEF JournalInv, TypeOK
  <2>2. Len(file) \in Nat /\ durable \in Nat
    BY <2>1
  <2>3. done[w] = 0
    BY <1>1, <2>1 DEF WriterInv, Writing
  <2> QED BY <1>1, <2>1, <2>2, <2>3
<1>3. /\ file' \in Seq(Line) /\ Len(file') = ValidThrough(file) /\ Len(file') <= Len(file)
      /\ ValidThrough(file') = ValidThrough(file) /\ Len(file') \in Nat
  BY TruncateEffect, FileFunction
<1>4. DiskType'
  <2>1. durable' \in 0 .. Len(file') /\ Len(file') <= Capacity
    BY <1>1, <1>2, <1>3, JournalConstants
  <2> QED BY <1>1, <1>2, <1>3, <2>1 DEF DiskType
<1>5. DiskInv'
  <2>1. Issue(file') = "none"
    BY <1>3, IssueCases
  <2>2. acked <= durable' /\ acked <= ValidThrough(file')
    BY <1>1, <1>2, <1>3 DEF JournalInv, DiskInv
  <2> QED BY <1>1, <2>1, <2>2 DEF DiskInv, FailuresStayTrailing
<1>6. WriterInv(w)'
  BY <1>1, <1>2 DEF WriterInv, Writing
<1> QED BY <1>1, <1>2, <1>4, <1>5, <1>6, OwnStep DEF Steps

LEMMA FlushStep ==
    ASSUME JournalInv, NEW w \in Writers, Flush(w)
    PROVE  JournalInv'
<1>1. /\ durable' = Len(file) /\ Return(w)
      /\ UNCHANGED <<file, terminated, acked, damages, losses>>
  BY DEF Flush, env
<1>2. /\ Len(file) \in Nat /\ acked \in Nat /\ acked <= durable /\ durable \in 0 .. Len(file)
  BY DEF JournalInv, TypeOK, DiskInv
<1>3. DiskType'
  BY <1>1, <1>2 DEF JournalInv, TypeOK, DiskType
<1>4. DiskInv'
  BY <1>1, <1>2 DEF JournalInv, DiskInv, FailuresStayTrailing
<1> QED BY <1>1, <1>3, <1>4, ReturnStep

\* Calls that end without touching the file.
LEMMA EndStep ==
    ASSUME JournalInv, NEW w \in Writers, Refuse(w) \/ Decline(w) \/ Abandon(w)
    PROVE  JournalInv'
<1>1. Return(w) /\ UNCHANGED <<disk, env>>
  BY DEF Refuse, Decline, Abandon
<1> QED BY <1>1, SameDisk, ReturnStep

LEMMA CallStep ==
    ASSUME JournalInv, NEW w \in Writers, CallAppend(w) \/ CallRecover(w)
    PROVE  JournalInv'
<1>1. /\ batch \in [Writers -> Seq(Events)] /\ expected \in [Writers -> Nat \cup {Unchecked}]
  BY DEF JournalInv, TypeOK
<1>2. CASE CallAppend(w)
  <2>1. PICK b \in Batches : batch' = [batch EXCEPT ![w] = b]
    BY <1>2 DEF CallAppend
  <2>2. batch' \in [Writers -> Seq(Events)] /\ Len(batch'[w]) >= 1
    BY <1>1, <2>1, BatchType
  <2>3. expected' \in [Writers -> Nat \cup {Unchecked}]
    BY <1>1, <1>2, JournalConstants DEF CallAppend
  <2>4. Enter(w) /\ pc' = [pc EXCEPT ![w] = "inspect"] /\ UNCHANGED <<disk, env, found, done>>
    BY <1>2 DEF CallAppend, Goto
  <2> QED BY <2>2, <2>3, <2>4, EnterStep
<1>3. CASE CallRecover(w)
  <2>1. Enter(w) /\ pc' = [pc EXCEPT ![w] = "examine"] /\ UNCHANGED <<disk, env, found, done>>
        /\ UNCHANGED <<batch, expected>>
    BY <1>3 DEF CallRecover, Goto, call
  <2> QED BY <1>1, <2>1, EnterStep
<1> QED BY <1>2, <1>3

\* The beginning of a beginning is a beginning.
LEMMA PrefixOfPrefix ==
    ASSUME NEW S, NEW q \in Seq(S), NEW n \in 0 .. Len(q), NEW m \in 0 .. n
    PROVE  SubSeq(SubSeq(q, 1, n), 1, m) = SubSeq(q, 1, m)
<1>1. Len(q) \in Nat /\ \A i \in 1 .. Len(q) : q[i] \in S
  OBVIOUS
<1>2. ASSUME NEW k \in 0 .. Len(q)
      PROVE  /\ SubSeq(q, 1, k) \in Seq(S) /\ Len(SubSeq(q, 1, k)) = k
             /\ \A i \in 1 .. k : SubSeq(q, 1, k)[i] = q[i]
  <2>1. \A i \in 1 .. k : q[i] \in S
    BY <1>1
  <2> QED BY <1>1, <2>1, SubSeqProperties
<1> DEFINE p == SubSeq(q, 1, n)
<1>3. p \in Seq(S) /\ Len(p) = n /\ \A i \in 1 .. n : p[i] = q[i]
  BY <1>2
<1> HIDE DEF p
<1>4. \A i \in 1 .. m : p[i] \in S
  BY <1>3
<1>5. /\ SubSeq(p, 1, m) \in Seq(S) /\ Len(SubSeq(p, 1, m)) = m
      /\ \A i \in 1 .. m : SubSeq(p, 1, m)[i] = p[i]
  BY <1>3, <1>4, SubSeqProperties
<1>6. /\ SubSeq(q, 1, m) \in Seq(S) /\ Len(SubSeq(q, 1, m)) = m
      /\ \A i \in 1 .. m : SubSeq(q, 1, m)[i] = q[i]
  BY <1>1, <1>2
<1> DEFINE x == SubSeq(p, 1, m)
           y == SubSeq(q, 1, m)
<1>7. x \in Seq(S) /\ y \in Seq(S) /\ Len(x) = Len(y) /\ \A i \in 1 .. Len(x) : x[i] = y[i]
  BY <1>3, <1>5, <1>6
<1> HIDE DEF x, y
<1>8. x = y
  BY <1>7, SeqEqual
<1> QED BY <1>8 DEF x, y, p

\* An end cut off between two lines leaves no damage a recovery may not repair.
LEMMA ShortenedIssue ==
    ASSUME NEW f \in Seq(Line), NEW n \in 0 .. Len(f), Issue(f) \in {"none", "trailing"}
    PROVE  Issue(SubSeq(f, 1, n)) \in {"none", "trailing"}
<1> DEFINE g == SubSeq(f, 1, n)
<1>1. Len(f) \in Nat /\ ValidThrough(f) \in Nat /\ ValidThrough(f) <= Len(f)
  BY ValidType, FileFunction
<1>2. /\ g \in Seq(Line) /\ Len(g) = n /\ \A i \in 1 .. n : g[i] = f[i]
      /\ ValidThrough(g) = IF n < ValidThrough(f) THEN n ELSE ValidThrough(f)
  BY ShortenedFile
<1> HIDE DEF g
<1>3. CASE n <= ValidThrough(f)
  <2>1. ValidThrough(g) = Len(g)
    BY <1>1, <1>2, <1>3
  <2> QED BY <1>2, <2>1, IssueCases DEF g
<1>4. CASE ValidThrough(f) < n
  <2>1. Issue(f) = "trailing" /\ n = Len(f)
    BY <1>1, <1>4, IssueCases
  <2>2. Len(f) = ValidThrough(f) + 1 /\ f[Len(f)].form = "cut"
    BY <2>1, IssueCases
  <2>3. Len(g) = ValidThrough(g) + 1 /\ g[Len(g)].form = "cut"
    BY <1>1, <1>2, <1>4, <2>1, <2>2
  <2> QED BY <1>2, <2>3, IssueCases DEF g
<1> QED BY <1>1, <1>3, <1>4

\* Nor does an end cut off inside a line.
LEMMA CutFile ==
    ASSUME NEW f \in Seq(Line), NEW n \in 1 .. Len(f), NEW h,
           h = SpoilLine(SubSeq(f, 1, n), n, "cut")
    PROVE  /\ h \in Seq(Line) /\ Len(h) = n
           /\ ValidThrough(h) = IF n <= ValidThrough(f) THEN n - 1 ELSE ValidThrough(f)
           /\ Valid(h) = SubSeq(Valid(f), 1, ValidThrough(h))
           /\ Issue(f) \in {"none", "trailing"} => Issue(h) \in {"none", "trailing"}
<1>1. Len(f) \in Nat /\ ValidThrough(f) \in Nat /\ ValidThrough(f) <= Len(f) /\ n \in 0 .. Len(f)
      /\ Valid(f) \in Seq(Events) /\ Len(Valid(f)) = ValidThrough(f)
  BY ValidType, FileFunction
<1> DEFINE g == SubSeq(f, 1, n)
<1>2. /\ g \in Seq(Line) /\ Len(g) = n
      /\ ValidThrough(g) = IF n < ValidThrough(f) THEN n ELSE ValidThrough(f)
      /\ Valid(g) = SubSeq(Valid(f), 1, ValidThrough(g))
      /\ Issue(f) \in {"none", "trailing"} => Issue(g) \in {"none", "trailing"}
  BY <1>1, ShortenedFile, ShortenedIssue
<1>3. h = SpoilLine(g, n, "cut")
  OBVIOUS
<1> HIDE DEF g
<1>4. n \in 1 .. Len(g)
  BY <1>2
<1>5. /\ h \in Seq(Line) /\ Len(h) = n /\ h[n].form = "cut"
      /\ ValidThrough(h) = IF n <= ValidThrough(g) THEN n - 1 ELSE ValidThrough(g)
      /\ Valid(h) = SubSeq(Valid(g), 1, ValidThrough(h))
  <2>1. g \in Seq(Line) /\ n \in 1 .. Len(g)
    BY <1>2, <1>4
  <2>2. ASSUME NEW x \in {"cut", "altered"}
        PROVE  /\ SpoilLine(g, n, x) \in Seq(Line) /\ Len(SpoilLine(g, n, x)) = Len(g)
               /\ SpoilLine(g, n, x)[n].form = x
               /\ ValidThrough(SpoilLine(g, n, x))
                    = IF n <= ValidThrough(g) THEN n - 1 ELSE ValidThrough(g)
               /\ Valid(SpoilLine(g, n, x)) = SubSeq(Valid(g), 1, ValidThrough(SpoilLine(g, n, x)))
    BY <2>1, SpoiledFile
  <2> QED BY <1>2, <1>3, <2>2
<1>6. /\ ValidThrough(g) \in 0 .. Len(Valid(f)) /\ ValidThrough(h) \in 0 .. ValidThrough(g)
      /\ ValidThrough(h) = IF n <= ValidThrough(f) THEN n - 1 ELSE ValidThrough(f)
  BY <1>1, <1>2, <1>5
<1>7. Valid(h) = SubSeq(Valid(f), 1, ValidThrough(h))
  BY <1>1, <1>2, <1>5, <1>6, PrefixOfPrefix
<1>8. ASSUME Issue(f) \in {"none", "trailing"} PROVE Issue(h) \in {"none", "trailing"}
  <2>1. ValidThrough(f) = Len(f) \/ Len(f) = ValidThrough(f) + 1
    BY <1>8, IssueCases
  <2>2. Len(h) = ValidThrough(h) + 1
    BY <1>1, <1>2, <1>5, <1>6, <2>1
  <2>3. h[Len(h)].form = "cut"
    BY <1>2, <1>5
  <2> QED BY <1>5, <2>2, <2>3, IssueCases
<1> QED BY <1>2, <1>5, <1>6, <1>7, <1>8

\* A failure of the machine takes events from the end, none that is flushed.
LEMMA PowerLossEffect ==
    ASSUME JournalInv, PowerLoss
    PROVE  /\ file' \in Seq(Line) /\ Len(file') <= Len(file) /\ durable <= Len(file')
           /\ terminated' \in BOOLEAN
           /\ ValidThrough(file') <= ValidThrough(file) /\ acked <= ValidThrough(file')
           /\ Valid(file') = SubSeq(Valid(file), 1, ValidThrough(file'))
           /\ Issue(file) \in {"none", "trailing"} => Issue(file') \in {"none", "trailing"}
<1>1. /\ file \in Seq(Line) /\ Len(file) \in Nat /\ terminated \in BOOLEAN
      /\ durable \in 0 .. Len(file) /\ acked \in Nat
      /\ acked <= durable /\ acked <= ValidThrough(file) /\ ValidThrough(file) \in Nat
  BY ValidType DEF JournalInv, TypeOK, DiskInv
<1>2. PICK n \in durable .. Len(file) :
          /\ terminated' \in BOOLEAN
          /\ \/ file' = SubSeq(file, 1, n)
             \/ n \in durable + 1 .. Len(file) /\ file' = SpoilLine(SubSeq(file, 1, n), n, "cut")
  <2>1. PICK r \in Remains : file' = r.lines /\ terminated' = r.end
    BY DEF PowerLoss
  <2>2. \/ \E n \in durable .. Len(file) :
              r = [lines |-> SubSeq(file, 1, n), end |-> n < Len(file) \/ terminated]
        \/ \E n \in durable + 1 .. Len(file) : r = [lines |-> SubSeq(file, 1, n), end |-> FALSE]
        \/ \E n \in durable + 1 .. Len(file) :
              r = [lines |-> SpoilLine(SubSeq(file, 1, n), n, "cut"), end |-> FALSE]
    BY <2>1 DEF Remains, SpoilLine
  <2>3. CASE \E n \in durable .. Len(file) :
                 r = [lines |-> SubSeq(file, 1, n), end |-> n < Len(file) \/ terminated]
    <3>1. PICK n \in durable .. Len(file) :
              r = [lines |-> SubSeq(file, 1, n), end |-> n < Len(file) \/ terminated]
      BY <2>3
    <3>2. r.lines = SubSeq(file, 1, n) /\ r.end \in BOOLEAN
      BY <1>1, <3>1
    <3> QED BY <2>1, <3>2
  <2>4. CASE \E n \in durable + 1 .. Len(file) : r = [lines |-> SubSeq(file, 1, n), end |-> FALSE]
    <3>1. PICK n \in durable + 1 .. Len(file) : r = [lines |-> SubSeq(file, 1, n), end |-> FALSE]
      BY <2>4
    <3>2. n \in durable .. Len(file)
      BY <1>1
    <3> QED BY <2>1, <3>1, <3>2
  <2>5. CASE \E n \in durable + 1 .. Len(file) :
                 r = [lines |-> SpoilLine(SubSeq(file, 1, n), n, "cut"), end |-> FALSE]
    <3>1. PICK n \in durable + 1 .. Len(file) :
              r = [lines |-> SpoilLine(SubSeq(file, 1, n), n, "cut"), end |-> FALSE]
      BY <2>5
    <3>2. n \in durable .. Len(file)
      BY <1>1
    <3>3. r.lines = SpoilLine(SubSeq(file, 1, n), n, "cut") /\ r.end = FALSE
      BY <3>1
    <3>4. file' = SpoilLine(SubSeq(file, 1, n), n, "cut") /\ terminated' \in BOOLEAN
      BY <2>1, <3>3
    <3> QED BY <3>2, <3>4
  <2> QED BY <2>2, <2>3, <2>4, <2>5
<1>3. CASE file' = SubSeq(file, 1, n)
  <2> DEFINE g == SubSeq(file, 1, n)
  <2>1. n \in 0 .. Len(file)
    BY <1>1
  <2>2. /\ g \in Seq(Line) /\ Len(g) = n
        /\ ValidThrough(g) = IF n < ValidThrough(file) THEN n ELSE ValidThrough(file)
        /\ Valid(g) = SubSeq(Valid(file), 1, ValidThrough(g))
        /\ Issue(file) \in {"none", "trailing"} => Issue(g) \in {"none", "trailing"}
    BY <1>1, <2>1, ShortenedFile, ShortenedIssue
  <2>3. file' = g
    BY <1>3
  <2> HIDE DEF g
  <2>4. Len(g) <= Len(file) /\ durable <= Len(g)
        /\ ValidThrough(g) <= ValidThrough(file) /\ acked <= ValidThrough(g)
    BY <1>1, <1>2, <2>2
  <2> QED BY <1>2, <2>2, <2>3, <2>4
<1>4. CASE n \in durable + 1 .. Len(file) /\ file' = SpoilLine(SubSeq(file, 1, n), n, "cut")
  <2>1. n \in 1 .. Len(file)
    BY <1>1, <1>4
  <2> DEFINE g == file'
  <2>2. g = SpoilLine(SubSeq(file, 1, n), n, "cut")
    BY <1>4
  <2> HIDE DEF g
  <2>3. /\ g \in Seq(Line) /\ Len(g) = n
        /\ ValidThrough(g) = IF n <= ValidThrough(file) THEN n - 1 ELSE ValidThrough(file)
        /\ Valid(g) = SubSeq(Valid(file), 1, ValidThrough(g))
        /\ Issue(file) \in {"none", "trailing"} => Issue(g) \in {"none", "trailing"}
    BY <1>1, <2>1, <2>2, CutFile
  <2>4. Len(g) <= Len(file) /\ durable <= Len(g)
        /\ ValidThrough(g) <= ValidThrough(file) /\ acked <= ValidThrough(g)
    BY <1>1, <1>2, <1>4, <2>3
  <2> QED BY <1>2, <2>3, <2>4 DEF g
<1> QED BY <1>2, <1>3, <1>4

LEMMA PowerLossStep ==
    ASSUME JournalInv, PowerLoss
    PROVE  JournalInv'
<1>1. /\ losses' = losses + 1 /\ holders' = {}
      /\ pc' = [w \in Writers |-> "idle"] /\ found' = [w \in Writers |-> Nothing]
      /\ batch' = [w \in Writers |-> << >>] /\ expected' = [w \in Writers |-> Unchecked]
      /\ done' = [w \in Writers |-> 0] /\ UNCHANGED <<durable, acked, damages>>
  BY DEF PowerLoss
<1>2. /\ file' \in Seq(Line) /\ Len(file') <= Len(file) /\ durable <= Len(file')
      /\ terminated' \in BOOLEAN /\ acked <= ValidThrough(file')
      /\ Issue(file) \in {"none", "trailing"} => Issue(file') \in {"none", "trailing"}
  BY PowerLossEffect
<1>3. DiskType'
  <2>1. /\ file \in Seq(Line) /\ Len(file) <= Capacity /\ durable \in 0 .. Len(file)
        /\ acked \in Nat /\ damages \in Nat /\ losses \in Nat
    BY DEF JournalInv, TypeOK
  <2>2. Len(file) \in Nat /\ Len(file') \in Nat
    BY <1>2, <2>1, FileFunction
  <2>3. Len(file') <= Capacity /\ durable' \in 0 .. Len(file') /\ losses' \in Nat
    BY <1>1, <1>2, <2>1, <2>2, JournalConstants
  <2> QED BY <1>1, <1>2, <2>1, <2>3 DEF DiskType
<1>4. DiskInv'
  BY <1>1, <1>2 DEF JournalInv, DiskInv, FailuresStayTrailing
<1>5. TypeOK' /\ OneCall'
  BY <1>1, <1>3 DEF TypeOK, DiskType, OneCall, Steps
<1>6. found' \in [Writers -> Inspections]
  <2>1. Nothing \in Inspections
    BY DEF Nothing, Inspections
  <2> QED BY <1>1, <2>1
<1>7. \A w \in Writers : WriterInv(w)'
  BY <1>1 DEF WriterInv, Writing
<1> QED BY <1>4, <1>5, <1>6, <1>7 DEF JournalInv

\* Damage hides the events from the damaged line on, and voids no promise about
\* an earlier one.
LEMMA DamageEffect ==
    ASSUME JournalInv, Damage
    PROVE  /\ file' \in Seq(Line) /\ Len(file') = Len(file) /\ acked' \in Nat /\ acked' <= acked
           /\ ValidThrough(file') \in 0 .. ValidThrough(file)
           /\ Valid(file') = SubSeq(Valid(file), 1, ValidThrough(file'))
           /\ acked' = IF acked < ValidThrough(file') THEN acked ELSE ValidThrough(file')
<1>1. PICK i \in 1 .. Len(file), form \in {"cut", "altered"} :
          /\ file' = SpoilLine(file, i, form)
          /\ acked' = IF acked < i THEN acked ELSE i - 1
  BY DEF Damage, SpoilLine
<1>2. /\ file \in Seq(Line) /\ acked \in Nat /\ acked <= ValidThrough(file)
      /\ ValidThrough(file) \in Nat /\ Len(file) \in Nat
  BY ValidType DEF JournalInv, TypeOK, DiskInv
<1> DEFINE g == SpoilLine(file, i, form)
<1>3. /\ g \in Seq(Line) /\ Len(g) = Len(file)
      /\ ValidThrough(g) = IF i <= ValidThrough(file) THEN i - 1 ELSE ValidThrough(file)
      /\ Valid(g) = SubSeq(Valid(file), 1, ValidThrough(g))
  BY <1>2, SpoiledFile
<1>4. file' = g
  BY <1>1
<1> HIDE DEF g
<1>5. /\ ValidThrough(g) \in 0 .. ValidThrough(file) /\ acked' \in Nat /\ acked' <= acked
      /\ acked' = IF acked < ValidThrough(g) THEN acked ELSE ValidThrough(g)
  BY <1>1, <1>2, <1>3
<1> QED BY <1>3, <1>4, <1>5

LEMMA DamageStep ==
    ASSUME JournalInv, Damage
    PROVE  JournalInv'
<1>1. /\ damages' = damages + 1 /\ holders = {}
      /\ UNCHANGED <<terminated, durable, losses, found, batch, expected, done, pc, holders>>
  BY DEF Damage, call
<1>2. /\ file' \in Seq(Line) /\ Len(file') = Len(file) /\ acked' \in Nat /\ acked' <= acked
      /\ ValidThrough(file') \in 0 .. ValidThrough(file)
      /\ acked' = IF acked < ValidThrough(file') THEN acked ELSE ValidThrough(file')
  BY DamageEffect
<1>3. /\ file \in Seq(Line) /\ durable \in 0 .. Len(file) /\ acked \in Nat /\ damages \in Nat
      /\ acked <= durable /\ Len(file) \in Nat /\ ValidThrough(file) \in Nat
  BY ValidType DEF JournalInv, TypeOK, DiskInv
<1>4. damages' \in Nat /\ damages' # 0
  BY <1>1, <1>3
<1>5. DiskType'
  BY <1>1, <1>2, <1>4 DEF JournalInv, TypeOK, DiskType
<1>6. DiskInv'
  <2>1. acked' <= durable' /\ acked' <= ValidThrough(file')
    BY <1>1, <1>2, <1>3
  <2> QED BY <1>4, <2>1 DEF DiskInv, FailuresStayTrailing
<1>7. TypeOK' /\ OneCall'
  BY <1>1, <1>5 DEF JournalInv, TypeOK, DiskType, OneCall
<1>8. ASSUME NEW w \in Writers PROVE WriterInv(w)'
  <2>1. pc[w] = "idle" /\ done[w] = 0
    BY <1>1 DEF JournalInv, OneCall, WriterInv, Writing
  <2> QED BY <1>1, <2>1 DEF WriterInv, Writing
<1> QED BY <1>1, <1>6, <1>7, <1>8 DEF JournalInv

LEMMA StutterStep ==
    ASSUME JournalInv, UNCHANGED vars
    PROVE  JournalInv'
<1>1. UNCHANGED <<file, terminated, durable, acked, damages, losses, found, batch, expected,
                  done, pc, holders>>
  BY DEF vars, disk, env, call
<1>2. TypeOK' /\ OneCall' /\ DiskInv' /\ found' \in [Writers -> Inspections]
  BY <1>1 DEF JournalInv, TypeOK, OneCall, DiskInv, FailuresStayTrailing
<1>3. ASSUME NEW w \in Writers PROVE WriterInv(w)'
  <2>1. Begun(w)' = Begun(w)
    BY <1>1 DEF Begun, Record
  <2>2. WriterInv(w)
    BY DEF JournalInv
  <2> QED BY <1>1, <2>1, <2>2 DEF WriterInv, Extends, Written
<1> QED BY <1>2, <1>3 DEF JournalInv

LEMMA JournalInvStep ==
    ASSUME JournalInv, [Next]_vars
    PROVE  JournalInv'
<1>1. ASSUME NEW w \in Writers,
             \/ CallAppend(w) \/ Inspect(w) \/ Refuse(w)
             \/ Separate(w) \/ StartRecord(w) \/ CompleteRecord(w) \/ TerminateRecord(w)
             \/ Sync(w) \/ Acknowledge(w)
             \/ CallRecover(w) \/ Truncate(w) \/ Decline(w) \/ Flush(w)
             \/ Abandon(w)
      PROVE  JournalInv'
  <2>1. CASE CallAppend(w) \/ CallRecover(w) BY <2>1, CallStep
  <2>2. CASE Inspect(w) BY <2>2, InspectStep
  <2>3. CASE Separate(w) BY <2>3, SeparateStep
  <2>4. CASE StartRecord(w) BY <2>4, StartStep
  <2>5. CASE CompleteRecord(w) BY <2>5, CompleteStep
  <2>6. CASE TerminateRecord(w) BY <2>6, TerminateStep
  <2>7. CASE Sync(w) BY <2>7, SyncStep
  <2>8. CASE Acknowledge(w) BY <2>8, AcknowledgeStep
  <2>9. CASE Truncate(w) BY <2>9, TruncateStep
  <2>10. CASE Flush(w) BY <2>10, FlushStep
  <2>11. CASE Refuse(w) \/ Decline(w) \/ Abandon(w) BY <2>11, EndStep
  <2> QED BY <1>1, <2>1, <2>2, <2>3, <2>4, <2>5, <2>6, <2>7, <2>8, <2>9, <2>10, <2>11
<1>2. CASE PowerLoss BY <1>2, PowerLossStep
<1>3. CASE Damage BY <1>3, DamageStep
<1>4. CASE UNCHANGED vars BY <1>4, StutterStep
<1> QED BY <1>1, <1>2, <1>3, <1>4 DEF Next

\* The empty file.
LEMMA EmptyFile ==
    << >> \in Seq(Line) /\ ValidThrough(<< >>) = 0 /\ Valid(<< >>) = << >> /\ Issue(<< >>) = "none"
<1> DEFINE f == << >>
<1>1. f \in Seq(Line) /\ Len(f) = 0 /\ 0 \in 0 .. Len(f)
  OBVIOUS
<1> HIDE DEF f
<1>2. (\A i \in 1 .. 0 : Passes(f, i)) /\ ~(0 < Len(f))
  BY <1>1
<1>3. ValidThrough(f) = 0
  BY <1>1, <1>2, ThroughUnique
<1>4. Valid(f) \in Seq(Events) /\ Len(Valid(f)) = 0
  BY <1>1, <1>3, ValidType
<1>5. Valid(f) = << >>
  BY <1>4, EmptySeq
<1> QED BY <1>1, <1>3, <1>5, IssueCases DEF f

LEMMA JournalInvInit == Init => JournalInv
<1> SUFFICES ASSUME Init PROVE JournalInv
  OBVIOUS
<1>1. /\ holders = {} /\ file = << >> /\ terminated = TRUE /\ durable = 0 /\ acked = 0
      /\ damages = 0 /\ losses = 0 /\ pc = [w \in Writers |-> "idle"]
      /\ found = [w \in Writers |-> Nothing] /\ batch = [w \in Writers |-> << >>]
      /\ expected = [w \in Writers |-> Unchecked] /\ done = [w \in Writers |-> 0]
  BY DEF Init, MutexInit
<1>2. Len(file) = 0 /\ file \in Seq(Line) /\ ValidThrough(file) = 0 /\ Issue(file) = "none"
  BY <1>1, EmptyFile
<1>3. TypeOK
  BY <1>1, <1>2, JournalConstants DEF TypeOK, Steps
<1>4. OneCall /\ DiskInv
  BY <1>1, <1>2 DEF OneCall, DiskInv, FailuresStayTrailing
<1>5. found \in [Writers -> Inspections]
  <2>1. Nothing \in Inspections
    BY DEF Nothing, Inspections
  <2> QED BY <1>1, <2>1
<1>6. \A w \in Writers : WriterInv(w)
  BY <1>1 DEF WriterInv, Writing
<1> QED BY <1>3, <1>4, <1>5, <1>6 DEF JournalInv

-----------------------------------------------------------------------------
(* What follows for every behaviour                                        *)

\* The invariant of the journal holds in every reachable state.
THEOREM Inductive == Spec => []JournalInv
<1>1. JournalInv /\ [Next]_vars => JournalInv'
  BY JournalInvStep
<1> QED BY <1>1, JournalInvInit, PTL DEF Spec

\* The state has its shape; in particular the file never outgrows maxJournalBytes.
THEOREM TypeCorrect == Spec => []TypeOK
<1>1. JournalInv => TypeOK
  BY DEF JournalInv
<1> QED BY <1>1, Inductive, PTL

\* Wherever appends, recoveries and the machine fail, a file the medium has not
\* damaged has at most a last line that recoverTrailingCorruption may truncate.
THEOREM TrailingFailures == Spec => []FailuresStayTrailing
<1>1. JournalInv => FailuresStayTrailing
  BY DEF JournalInv, DiskInv
<1> QED BY <1>1, Inductive, PTL

\* An append that is about to return has committed its batch right behind the
\* sequence its caller expected.
THEOREM Commits == Spec => []NoStaleCommit
<1>1. ASSUME JournalInv, NEW w \in Writers, pc[w] = "return"
      PROVE  /\ expected[w] \in {Unchecked, found[w].through}
             /\ ValidThrough(file) = found[w].through + Len(batch[w])
             /\ Valid(file) = found[w].hash \o batch[w]
  <2>1. pc[w] \in Writing
    BY <1>1 DEF Writing
  <2>2. /\ Extends(w) /\ batch[w] \in Seq(Events)
        /\ ValidThrough(file) = found[w].through + Written(w)
    BY <1>1, <2>1, Reached
  <2>3. Written(w) = Len(batch[w]) /\ SubSeq(batch[w], 1, Len(batch[w])) = batch[w]
    BY <1>1, <2>2, SubSeqFull DEF Extends, Written
  <2> QED BY <2>2, <2>3 DEF Extends
<1>2. JournalInv => NoStaleCommit
  BY <1>1 DEF NoStaleCommit
<1> QED BY <1>2, Inductive, PTL

\* Steps that neither complete a record nor fail the machine or the medium
\* leave the events alone, and only a return moves what is acknowledged.
LEMMA EventsStay ==
    ASSUME JournalInv, [Next]_vars, ~PowerLoss, ~Damage,
           \A w \in Writers : ~CompleteRecord(w)
    PROVE  /\ Valid(file') = Valid(file)
           /\ acked' = acked \/ (acked <= acked' /\ acked' = ValidThrough(file))
<1>1. ASSUME NEW w \in Writers,
             \/ CallAppend(w) \/ Inspect(w) \/ Refuse(w) \/ Separate(w) \/ TerminateRecord(w)
             \/ Sync(w) \/ CallRecover(w) \/ Decline(w) \/ Flush(w) \/ Abandon(w)
      PROVE  UNCHANGED <<file, acked>>
  BY <1>1 DEF CallAppend, Inspect, Refuse, Separate, TerminateRecord, Sync, CallRecover, Decline,
              Flush, Abandon, disk
<1>2. ASSUME NEW w \in Writers, StartRecord(w) PROVE Valid(file') = Valid(file) /\ acked' = acked
  BY <1>2, StartEffect DEF StartRecord
<1>3. ASSUME NEW w \in Writers, Truncate(w) PROVE Valid(file') = Valid(file) /\ acked' = acked
  BY <1>3, TruncateEffect DEF Truncate
<1>4. ASSUME NEW w \in Writers, Acknowledge(w)
      PROVE  Valid(file') = Valid(file) /\ acked <= acked' /\ acked' = ValidThrough(file)
  BY <1>4, AcknowledgeStep DEF Acknowledge
<1>5. CASE UNCHANGED vars
  BY <1>5 DEF vars, disk
<1> QED BY <1>1, <1>2, <1>3, <1>4, <1>5 DEF Next

\* Every step is one of the log: a completed record extends it, a return
\* acknowledges it, a failure of the machine loses an end of it that was not
\* acknowledged, damage spoils it, and the rest cannot be seen.
LEMMA LogStep ==
    ASSUME JournalInv, [Next]_vars
    PROVE  [Log!LogNext]_<<Valid(file), acked>>
<1>1. /\ file \in Seq(Line) /\ acked \in Nat /\ acked <= ValidThrough(file)
      /\ ValidThrough(file) \in Nat /\ Len(Valid(file)) = ValidThrough(file)
  BY ValidType DEF JournalInv, TypeOK, DiskInv
<1>2. ASSUME NEW w \in Writers, CompleteRecord(w) PROVE Log!Extend
  <2>1. /\ Valid(file') = Append(Valid(file), batch[w][done[w] + 1])
        /\ batch[w][done[w] + 1] \in Events
    BY <1>2, CompleteEffect
  <2>2. UNCHANGED acked
    BY <1>2 DEF CompleteRecord
  <2> QED BY <2>1, <2>2 DEF Log!Extend
<1>3. CASE PowerLoss
  <2>1. /\ file' \in Seq(Line) /\ ValidThrough(file') <= ValidThrough(file)
        /\ acked <= ValidThrough(file')
        /\ Valid(file') = SubSeq(Valid(file), 1, ValidThrough(file'))
    BY <1>3, PowerLossEffect
  <2>2. ValidThrough(file') \in acked .. Len(Valid(file))
    BY <1>1, <2>1, ValidType
  <2>3. UNCHANGED acked
    BY <1>3 DEF PowerLoss
  <2> QED BY <2>1, <2>2, <2>3 DEF Log!LogNext, Log!Lose
<1>4. CASE Damage
  <2>1. /\ ValidThrough(file') \in 0 .. Len(Valid(file))
        /\ Valid(file') = SubSeq(Valid(file), 1, ValidThrough(file'))
        /\ acked' = IF acked < ValidThrough(file') THEN acked ELSE ValidThrough(file')
    BY <1>1, <1>4, DamageEffect
  <2> QED BY <2>1 DEF Log!LogNext, Log!Spoil
<1>5. CASE ~PowerLoss /\ ~Damage /\ \A w \in Writers : ~CompleteRecord(w)
  <2>1. /\ Valid(file') = Valid(file)
        /\ acked' = acked \/ (acked <= acked' /\ acked' = ValidThrough(file))
    BY <1>5, EventsStay
  <2>2. CASE acked' = acked
    BY <2>1, <2>2
  <2>3. CASE acked <= acked' /\ acked' = ValidThrough(file)
    <3>1. acked' \in acked .. Len(Valid(file))
      BY <1>1, <2>3
    <3> QED BY <2>1, <3>1 DEF Log!LogNext, Log!Acknowledge
  <2> QED BY <2>1, <2>2, <2>3
<1> QED BY <1>2, <1>3, <1>4, <1>5 DEF Log!LogNext

\* The journal implements the log its callers see.
THEOREM Refinement == Spec => ImplementsEventLog
<1>1. Init => Log!LogInit
  BY EmptyFile DEF Init, Log!LogInit
<1>2. JournalInv /\ [Next]_vars => [Log!LogNext]_<<Valid(file), acked>>
  BY LogStep
<1> QED BY <1>1, <1>2, Inductive, PTL DEF Spec, ImplementsEventLog, Log!LogSpec

\* No crash of a process, no failing call and no recovery takes an event out of
\* the stream.
THEOREM OnlyMachineLoses == Spec => OnlyTheMachineLosesEvents
<1>1. ASSUME JournalInv, [Next]_vars, UNCHANGED env
      PROVE  /\ Len(Valid(file)) <= Len(Valid(file'))
             /\ Valid(file) = SubSeq(Valid(file'), 1, Len(Valid(file)))
  <2>1. /\ file \in Seq(Line) /\ Valid(file) \in Seq(Events) /\ Len(Valid(file)) \in Nat
        /\ damages \in Nat /\ losses \in Nat
    BY <1>1, ValidType DEF JournalInv, TypeOK
  <2>2. damages' = damages /\ losses' = losses
    BY <1>1 DEF env
  <2>3. ~PowerLoss /\ ~Damage
    BY <2>1, <2>2 DEF PowerLoss, Damage
  <2>4. ASSUME NEW w \in Writers, CompleteRecord(w)
        PROVE  /\ Len(Valid(file)) <= Len(Valid(file'))
               /\ Valid(file) = SubSeq(Valid(file'), 1, Len(Valid(file)))
    <3> DEFINE q == Valid(file)
               e == batch[w][done[w] + 1]
               n == Len(q)
    <3>1. Valid(file') = Append(q, e) /\ e \in Events
      BY <1>1, <2>4, CompleteEffect
    <3>2. q \in Seq(Events) /\ n \in Nat
      BY <2>1
    <3> HIDE DEF q, e
    <3>3. /\ Append(q, e) \in Seq(Events) /\ Len(Append(q, e)) = n + 1
          /\ \A i \in 1 .. n : Append(q, e)[i] = q[i]
      BY <3>1, <3>2, AppendProperties
    <3>4. \A i \in 1 .. n : Append(q, e)[i] \in Events
      BY <3>2, <3>3
    <3>5. /\ SubSeq(Append(q, e), 1, n) \in Seq(Events) /\ Len(SubSeq(Append(q, e), 1, n)) = n
          /\ \A i \in 1 .. n : SubSeq(Append(q, e), 1, n)[i] = Append(q, e)[i]
      BY <3>2, <3>4, SubSeqProperties
    <3>6. SubSeq(Append(q, e), 1, n) = q
      BY <3>2, <3>3, <3>5, SeqEqual
    <3>7. n <= Len(Append(q, e))
      BY <3>2, <3>3
    <3> QED BY <3>1, <3>6, <3>7 DEF q
  <2>5. CASE \A w \in Writers : ~CompleteRecord(w)
    <3>1. Valid(file') = Valid(file)
      BY <1>1, <2>3, <2>5, EventsStay
    <3> QED BY <2>1, <3>1, SubSeqFull
  <2> QED BY <2>4, <2>5
<1>2. JournalInv /\ [Next]_vars =>
          [UNCHANGED env => /\ Len(Valid(file)) <= Len(Valid(file'))
                            /\ Valid(file) = SubSeq(Valid(file'), 1, Len(Valid(file)))]_vars
  BY <1>1
<1> QED BY <1>2, Inductive, PTL DEF Spec, OnlyTheMachineLosesEvents
=============================================================================
