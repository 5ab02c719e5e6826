--------------------------- MODULE CollectionProofs ---------------------------
(***************************************************************************)
(* Proofs about Collection, for any decks, notes and cards and any number  *)
(* of requests.                                                            *)
(***************************************************************************)
EXTENDS Collection, FiniteSetTheorems, SequenceTheorems, WellFoundedInduction, TLAPS

-----------------------------------------------------------------------------
(* Induction as a fact about sets of numbers.                              *)

\* A set of numbers that is not empty has a least element.
LEMMA LeastNumber ==
  ASSUME NEW T \in SUBSET Nat, T # {}
  PROVE  \E m \in T : \A k \in T : m =< k
<1>1. PICK n \in T : TRUE
  OBVIOUS
<1>. DEFINE U == {1..k : k \in T}
<1>2. U \subseteq FiniteSubsetsOf(Nat) /\ U # {}
  BY <1>1, FS_Interval DEF FiniteSubsetsOf
<1>3. IsWellFoundedOn(StrictSubsetOrdering(Nat), FiniteSubsetsOf(Nat))
  BY FS_StrictSubsetOrderingWellFounded
<1>4. PICK x \in U : \A y \in U : ~ (<<y, x>> \in StrictSubsetOrdering(Nat))
  BY <1>2, <1>3, WFMin
<1>5. PICK m \in T : x = 1..m
  BY <1>4
<1>6. ASSUME NEW k \in T
      PROVE  m =< k
  <2>1. SUFFICES ASSUME k < m PROVE FALSE
    OBVIOUS
  <2>2. 1..k \in U /\ 1..k \in SUBSET Nat /\ 1..m \in SUBSET Nat
    OBVIOUS
  <2>3. 1..k \subseteq 1..m /\ 1..k # 1..m
    BY <2>1
  <2>. QED BY <1>4, <1>5, <2>2, <2>3 DEF StrictSubsetOrdering
<1>. QED BY <1>6

\* A set that holds zero and with every number the next holds all of them.
LEMMA Induction ==
  ASSUME NEW S \in SUBSET Nat, 0 \in S, \A n \in S : n + 1 \in S
  PROVE  S = Nat
<1>1. SUFFICES ASSUME Nat \ S # {} PROVE FALSE
  OBVIOUS
<1>2. PICK m \in Nat \ S : \A k \in Nat \ S : m =< k
  BY <1>1, LeastNumber
<1>3. m - 1 \in Nat /\ ~ (m =< m - 1) /\ (m - 1) + 1 = m
  BY m # 0
<1>. QED BY <1>2, <1>3

-----------------------------------------------------------------------------
(* JoinFieldValues.                                                        *)

\* All parts of some values.
PartsOf(values) == UNION {{values[i][j] : j \in 1..Len(values[i])} : i \in 1..Len(values)}
PartsIn(parts) == {parts[k] : k \in 1..Len(parts)}

\* What is joined after each of the first n values.
Joins(f, values, n) ==
  f = [i \in 0..n |-> IF i = 0 THEN <<>> ELSE f[i - 1] \o values[i]]

\* The parts of a longer sequence.
LEMMA Concatenated ==
  ASSUME NEW S, NEW s \in Seq(S), NEW t \in Seq(S)
  PROVE  /\ s \o t \in Seq(S) /\ Len(s \o t) = Len(s) + Len(t)
         /\ PartsIn(s \o t) = PartsIn(s) \union PartsIn(t)
<1>1. /\ s \o t \in Seq(S) /\ Len(s \o t) = Len(s) + Len(t) /\ Len(s) \in Nat /\ Len(t) \in Nat
      /\ \A i \in 1..Len(s) : (s \o t)[i] = s[i]
      /\ \A i \in (Len(s) + 1)..(Len(s) + Len(t)) : (s \o t)[i] = t[i - Len(s)]
  BY ConcatProperties
<1>2. ASSUME NEW i \in 1..Len(t) PROVE t[i] \in PartsIn(s \o t)
  <2>1. Len(s) + i \in (Len(s) + 1)..(Len(s) + Len(t)) /\ (Len(s) + i) - Len(s) = i
    BY <1>1
  <2>2. Len(s) + i \in 1..Len(s \o t) /\ (s \o t)[Len(s) + i] = t[i]
    BY <1>1, <2>1
  <2> QED
    BY <2>2 DEF PartsIn
<1>3. ASSUME NEW i \in 1..Len(s) PROVE s[i] \in PartsIn(s \o t)
  BY <1>1 DEF PartsIn
<1>4. ASSUME NEW i \in 1..Len(s \o t) PROVE (s \o t)[i] \in PartsIn(s) \union PartsIn(t)
  <2>1. CASE i =< Len(s)
    BY <1>1, <2>1 DEF PartsIn
  <2>2. CASE ~ (i =< Len(s))
    <3>1. i \in (Len(s) + 1)..(Len(s) + Len(t)) /\ i - Len(s) \in 1..Len(t)
      BY <1>1, <2>2
    <3> QED
      BY <1>1, <3>1 DEF PartsIn
  <2> QED
    BY <2>1, <2>2
<1> QED
  BY <1>1, <1>2, <1>3, <1>4 DEF PartsIn

\* The function that JoinFieldValues defines exists.
LEMMA JoinDefined ==
  ASSUME NEW values, Len(values) \in Nat
  PROVE  \E f : Joins(f, values, Len(values)) /\ JoinFieldValues(values) = f[Len(values)]
<1> USE DEF Joins
<1> DEFINE Is(f, n) == Joins(f, values, n)
           T == {n \in Nat : \E f : Is(f, n)}
<1>1. 0 \in T
  <2>1. Is([i \in 0..0 |-> <<>>], 0)
    OBVIOUS
  <2> QED
    BY <2>1
<1>2. ASSUME NEW n \in T PROVE n + 1 \in T
  <2>1. PICK f : Is(f, n)
    OBVIOUS
  <2> DEFINE g == [i \in 0..(n + 1) |-> IF i =< n THEN f[i] ELSE f[n] \o values[n + 1]]
  <2>2. /\ n \in Nat /\ 0..(n + 1) = (0..n) \union {n + 1}
        /\ ~ (n + 1 =< n) /\ (n + 1) - 1 = n /\ n + 1 # 0
    OBVIOUS
  <2>3. (\A i \in 0..n : g[i] = f[i]) /\ g[n + 1] = f[n] \o values[n + 1]
    BY <2>2
  <2>4. \A i \in (0..n) \ {0} : i - 1 \in 0..n
    OBVIOUS
  <2>5. ASSUME NEW i \in 0..(n + 1)
        PROVE  g[i] = IF i = 0 THEN <<>> ELSE g[i - 1] \o values[i]
    <3>1. CASE i \in 0..n
      <4>1. f[i] = IF i = 0 THEN <<>> ELSE f[i - 1] \o values[i]
        BY <2>1, <3>1
      <4>2. g[i] = f[i] /\ (i # 0 => g[i - 1] = f[i - 1])
        BY <2>3, <2>4, <3>1
      <4> QED
        BY <4>1, <4>2
    <3>2. CASE i = n + 1
      <4>1. g[i - 1] = f[n] /\ i # 0
        BY <2>2, <2>3, <3>2
      <4> QED
        BY <2>3, <3>2, <4>1
    <3> QED
      BY <2>2, <3>1, <3>2
  <2>6. Is(g, n + 1)
    BY <2>5
  <2> HIDE DEF g, Is
  <2> QED
    BY <2>2, <2>6
<1>3. Len(values) \in T
  BY <1>1, <1>2, Induction
<1> HIDE DEF T
<1>4. \E f : Is(f, Len(values))
  BY <1>3 DEF T
<1> QED
  BY <1>4 DEF JoinFieldValues

\* JoinFieldValues keeps the parts of all values and nothing else, and their number is
\* that of the values if each value is one part.
LEMMA JoinFacts ==
  ASSUME NEW S, NEW values \in Seq(Seq(S))
  PROVE  /\ JoinFieldValues(values) \in Seq(S)
         /\ PartsIn(JoinFieldValues(values)) = PartsOf(values)
         /\ (\A k \in 1..Len(values) : Len(values[k]) = 1) => Len(JoinFieldValues(values)) = Len(values)
<1>0. Len(values) \in Nat /\ \A k \in 1..Len(values) : values[k] \in Seq(S)
  BY LenProperties, ElementOfSeq
<1>1. PICK f : Joins(f, values, Len(values)) /\ JoinFieldValues(values) = f[Len(values)]
  BY <1>0, JoinDefined
<1> DEFINE Good(n) == /\ f[n] \in Seq(S)
                      /\ PartsIn(f[n]) = UNION {PartsIn(values[k]) : k \in 1..n}
                      /\ (\A k \in 1..n : Len(values[k]) = 1) => Len(f[n]) = n
           T == {n \in Nat : n =< Len(values) => Good(n)}
<1>2. 0 \in T
  <2>1. f[0] = <<>>
    BY <1>0, <1>1 DEF Joins
  <2>2. PartsIn(<<>>) = {} /\ UNION {PartsIn(values[k]) : k \in 1..0} = {}
    BY DEF PartsIn
  <2>3. <<>> \in Seq(S) /\ Len(<<>>) = 0
    OBVIOUS
  <2> HIDE DEF T
  <2>4. Good(0)
    BY <2>1, <2>2, <2>3
  <2> QED
    BY <2>4 DEF T
<1>3. ASSUME NEW n \in T PROVE n + 1 \in T
  <2>1. n \in Nat /\ n + 1 \in Nat
    OBVIOUS
  <2>2. CASE ~ (n + 1 =< Len(values))
    BY <2>1, <2>2
  <2>3. CASE n + 1 =< Len(values)
    <3>1. n =< Len(values) /\ n + 1 \in 1..Len(values) /\ n + 1 # 0 /\ (n + 1) - 1 = n
      BY <1>0, <2>1, <2>3
    <3>2. Good(n)
      BY <3>1
    <3>3. f[n + 1] = f[n] \o values[n + 1]
      <4>1. \A i \in 0..Len(values) : f[i] = IF i = 0 THEN <<>> ELSE f[i - 1] \o values[i]
        BY <1>1 DEF Joins
      <4>2. n + 1 \in 0..Len(values)
        BY <1>0, <3>1
      <4> QED
        BY <3>1, <4>1, <4>2
    <3>4. values[n + 1] \in Seq(S) /\ f[n] \in Seq(S)
      BY <1>0, <3>1, <3>2
    <3>5. \A s, t \in Seq(S) : /\ s \o t \in Seq(S) /\ Len(s \o t) = Len(s) + Len(t)
                               /\ PartsIn(s \o t) = PartsIn(s) \union PartsIn(t)
      BY Concatenated
    <3>6. /\ f[n + 1] \in Seq(S) /\ Len(f[n + 1]) = Len(f[n]) + Len(values[n + 1])
          /\ PartsIn(f[n + 1]) = PartsIn(f[n]) \union PartsIn(values[n + 1])
      BY <3>3, <3>4, <3>5
    <3>7. 1..(n + 1) = (1..n) \union {n + 1}
      BY <2>1
    <3>8. PartsIn(f[n + 1]) = UNION {PartsIn(values[k]) : k \in 1..(n + 1)}
      BY <3>2, <3>6, <3>7
    <3>9. (\A k \in 1..(n + 1) : Len(values[k]) = 1) => Len(f[n + 1]) = n + 1
      BY <3>2, <3>6, <3>7
    <3> QED
      BY <2>1, <3>6, <3>8, <3>9
  <2> QED
    BY <2>2, <2>3
<1> HIDE DEF T
<1>4. Len(values) \in T
  <2>1. T \in SUBSET Nat
    BY DEF T
  <2>2. T = Nat
    BY <1>2, <1>3, <2>1, Induction
  <2> QED
    BY <1>0, <2>2
<1>5. Good(Len(values))
  BY <1>0, <1>4 DEF T
<1> QED
  BY <1>1, <1>5 DEF PartsOf, PartsIn

-----------------------------------------------------------------------------
(* The invariant.                                                          *)

Passed(q) == q.at \in {"backup", "write"}

\* A rename that has passed its checks has a proper name, free unless a race was seen.
Proper(q) == q.op = "rename" /\ Passed(q) =>
  q.new \in Names /\ (~raced => ~Taken(q.deck, q.new))
Checked == \A r \in Requests : Proper(req[r])

\* The parts of values are of note n; of as many of the last boxes as the note has fields.
OfNote(values, n) == \A i \in 1..Len(values) : \A j \in 1..Len(values[i]) : values[i][j].of = n
LastOf(values, n) ==
  \A i \in 1..Len(values) : i > Len(values) - Fields[n] =>
    \A j \in 1..Len(values[i]) : values[i][j].of = n

\* What the page holds, asks for and saves: the last note's boxes come last.
OwnForm == editing # 0 => LastOf(form, editing)
Own(q) ==
  /\ q.op = "open" /\ q.at = "answered" => Len(q.values) = Fields[q.note] /\ OfNote(q.values, q.note)
  /\ q.op = "save" => LastOf(q.values, q.note) /\ (Passed(q) => Len(q.values) = Fields[q.note])
  /\ q.op = "clean" => \A n \in DOMAIN q.plan : OfNote(q.plan[n], n)
OwnRequests == \A r \in Requests : Own(req[r])

\* Without separators every value is one part, which the cleaner leaves one part.
OnePart(values) == \A i \in 1..Len(values) : Len(values[i]) = 1 /\ values[i][1].form # "entity"
NoEntity(parts) == \A i \in 1..Len(parts) : parts[i].form # "entity"
Single(q) ==
  /\ q.op = "open" /\ q.at = "answered" => OnePart(q.values)
  /\ q.op = "save" => OnePart(q.values)
  /\ q.op = "clean" => \A n \in DOMAIN q.plan : OnePart(q.plan[n])
SingleParts == ~embeds =>
  /\ \A n \in Notes : NoEntity(flds[n])
  /\ OnePart(form)
  /\ \A r \in Requests : Single(req[r])

\* What a run is about to write is of those who wrote what was saved.
WritersOf(values) == {p.by : p \in PartsOf(values)}
Keeps(q) == q.op = "clean" =>
  \A n \in DOMAIN q.plan : saved[n].calm => WritersOf(q.plan[n]) = saved[n].by
PlanKeeps == \A r \in Requests : Keeps(req[r])

-----------------------------------------------------------------------------
(* Values.                                                                 *)

LEMMA ValueIsParts ==
  ASSUME NEW v \in Values
  PROVE  v \in Seq(Parts) /\ Len(v) \in Nat /\ Len(v) >= 1 /\ DOMAIN v = 1..Len(v)
<1>1. CASE \E p \in Parts : v = <<p>>
  BY <1>1
<1>2. CASE \E p, q \in Parts : v = <<p, q>>
  BY <1>2
<1> QED
  BY <1>1, <1>2 DEF Values

LEMMA ValuesAreSeqs ==
  ASSUME NEW values \in Seq(Values)
  PROVE  /\ values \in Seq(Seq(Parts)) /\ Len(values) \in Nat
         /\ \A i \in 1..Len(values) : values[i] \in Values /\ values[i] \in Seq(Parts)
<1>1. Values \subseteq Seq(Parts)
  BY ValueIsParts
<1>2. values \in Seq(Seq(Parts))
  BY <1>1, SeqMonotonic
<1>3. Len(values) \in Nat /\ \A i \in 1..Len(values) : values[i] \in Values
  BY LenProperties, ElementOfSeq
<1> QED
  BY <1>1, <1>2, <1>3

\* What CleanPart makes of a part.
LEMMA CleanPartFacts ==
  ASSUME NEW p \in Parts
  PROVE  /\ CleanPart(p) \in Values
         /\ \A j \in 1..Len(CleanPart(p)) : CleanPart(p)[j].of = p.of /\ CleanPart(p)[j].by = p.by
                                            /\ CleanPart(p)[j].form # "entity"
         /\ p.form # "entity" => Len(CleanPart(p)) = 1
<1> DEFINE c == [p EXCEPT !.form = "plain"]
<1>1. c \in Parts /\ c.of = p.of /\ c.by = p.by /\ c.form = "plain"
  BY DEF Parts, Forms
<1>2. CleanPart(p) = IF p.form = "entity" THEN <<c, c>> ELSE <<c>>
  BY DEF CleanPart
<1> HIDE DEF c
<1>3. CASE p.form = "entity"
  <2>1. CleanPart(p) = <<c, c>>
    BY <1>2, <1>3
  <2>2. Len(<<c, c>>) = 2 /\ \A j \in 1..2 : <<c, c>>[j] = c
    OBVIOUS
  <2>3. <<c, c>> \in Values
    BY <1>1 DEF Values
  <2> QED
    BY <1>1, <1>3, <2>1, <2>2, <2>3
<1>4. CASE p.form # "entity"
  <2>1. CleanPart(p) = <<c>>
    BY <1>2, <1>4
  <2>2. Len(<<c>>) = 1 /\ \A j \in 1..1 : <<c>>[j] = c
    OBVIOUS
  <2>3. <<c>> \in Values
    BY <1>1 DEF Values
  <2> QED
    BY <1>1, <1>4, <2>1, <2>2, <2>3
<1> QED
  BY <1>3, <1>4

\* The values of a note, as they are read and as they are cleaned.
LEMMA ReadFacts ==
  ASSUME NEW n \in Notes, flds[n] \in Seq(Parts)
  PROVE  /\ Len(flds[n]) \in Nat /\ DOMAIN flds[n] = 1..Len(flds[n])
         /\ \A i \in 1..Len(flds[n]) : flds[n][i] \in Parts
         /\ Split(n) \in Seq(Values) /\ Len(Split(n)) = Len(flds[n])
         /\ \A i \in 1..Len(flds[n]) : Split(n)[i] = <<flds[n][i]>>
         /\ CleanNote(n) \in Seq(Values) /\ Len(CleanNote(n)) = Len(flds[n])
         /\ \A i \in 1..Len(flds[n]) : CleanNote(n)[i] = CleanPart(flds[n][i])
<1>1. Len(flds[n]) \in Nat /\ DOMAIN flds[n] = 1..Len(flds[n])
  BY LenProperties
<1>2. \A i \in 1..Len(flds[n]) : flds[n][i] \in Parts
  BY ElementOfSeq
<1>3. \A i \in 1..Len(flds[n]) : <<flds[n][i]>> \in Values /\ CleanPart(flds[n][i]) \in Values
  BY <1>2, CleanPartFacts DEF Values
<1>4. /\ Split(n) = [i \in 1..Len(flds[n]) |-> <<flds[n][i]>>]
      /\ CleanNote(n) = [i \in 1..Len(flds[n]) |-> CleanPart(flds[n][i])]
  BY <1>1 DEF Split, CleanNote
<1>5. /\ Split(n) \in [1..Len(flds[n]) -> Values]
      /\ CleanNote(n) \in [1..Len(flds[n]) -> Values]
  BY <1>3, <1>4
<1>6. \A S : \A f \in [1..Len(flds[n]) -> S] : f \in Seq(S) /\ Len(f) = Len(flds[n])
  BY <1>1
<1> QED
  BY <1>1, <1>2, <1>4, <1>5, <1>6

\* The parts of a note's values belong to the note and were written by its writers.
LEMMA ReadParts ==
  ASSUME NEW n \in Notes, flds[n] \in Seq(Parts), \A i \in DOMAIN flds[n] : flds[n][i].of = n
  PROVE  /\ OfNote(Split(n), n) /\ OfNote(CleanNote(n), n)
         /\ WritersOf(CleanNote(n)) = Writers(flds[n])
<1>1. OfNote(Split(n), n)
  <2> SUFFICES ASSUME NEW i \in 1..Len(Split(n)), NEW j \in 1..Len(Split(n)[i])
               PROVE  Split(n)[i][j].of = n
    BY DEF OfNote
  <2>1. i \in 1..Len(flds[n]) /\ Split(n)[i] = <<flds[n][i]>> /\ i \in DOMAIN flds[n]
    BY ReadFacts
  <2>2. Split(n)[i][j] = flds[n][i]
    BY <2>1
  <2> QED
    BY <2>1, <2>2
<1>2. ASSUME NEW i \in 1..Len(flds[n])
      PROVE  /\ CleanNote(n)[i] \in Values /\ i \in DOMAIN flds[n]
             /\ \A j \in 1..Len(CleanNote(n)[i]) :
                  CleanNote(n)[i][j].of = n /\ CleanNote(n)[i][j].by = flds[n][i].by
  <2>1. flds[n][i] \in Parts /\ CleanNote(n)[i] = CleanPart(flds[n][i]) /\ flds[n][i].of = n
        /\ i \in DOMAIN flds[n]
    BY ReadFacts
  <2> QED
    BY <2>1, CleanPartFacts
<1>3. OfNote(CleanNote(n), n)
  BY <1>2, ReadFacts DEF OfNote
<1>4. ASSUME NEW p \in PartsOf(CleanNote(n)) PROVE p.by \in Writers(flds[n])
  <2>1. PICK i \in 1..Len(CleanNote(n)) : \E j \in 1..Len(CleanNote(n)[i]) : p = CleanNote(n)[i][j]
    BY DEF PartsOf
  <2>2. i \in 1..Len(flds[n])
    BY ReadFacts
  <2> QED
    BY <1>2, <2>1, <2>2 DEF Writers
<1>5. ASSUME NEW w \in Writers(flds[n]) PROVE \E p \in PartsOf(CleanNote(n)) : p.by = w
  <2>1. PICK i \in DOMAIN flds[n] : w = flds[n][i].by
    BY DEF Writers
  <2>2. i \in 1..Len(flds[n]) /\ i \in 1..Len(CleanNote(n))
    BY ReadFacts
  <2>3. 1 \in 1..Len(CleanNote(n)[i])
    BY <1>2, <2>2, ValueIsParts
  <2>4. CleanNote(n)[i][1] \in PartsOf(CleanNote(n)) /\ CleanNote(n)[i][1].by = w
    BY <1>2, <2>1, <2>2, <2>3 DEF PartsOf
  <2> QED
    BY <2>4
<1>6. WritersOf(CleanNote(n)) = Writers(flds[n])
  <2> HIDE DEF Writers, PartsOf
  <2> QED
    BY <1>4, <1>5 DEF WritersOf
<1> QED
  BY <1>1, <1>3, <1>6

\* Without an entity of the separator every value is one part.
LEMMA ReadSingle ==
  ASSUME NEW n \in Notes, flds[n] \in Seq(Parts),
         NoEntity(flds[n])
  PROVE  OnePart(Split(n)) /\ OnePart(CleanNote(n))
<1>0. \A i \in 1..Len(flds[n]) : flds[n][i].form # "entity"
  BY DEF NoEntity
<1>1. ASSUME NEW i \in 1..Len(flds[n])
      PROVE  Len(Split(n)[i]) = 1 /\ Split(n)[i][1].form # "entity"
  <2>1. Split(n)[i] = <<flds[n][i]>>
    BY ReadFacts
  <2> QED
    BY <1>0, <2>1
<1>2. ASSUME NEW i \in 1..Len(flds[n])
      PROVE  Len(CleanNote(n)[i]) = 1 /\ CleanNote(n)[i][1].form # "entity"
  <2>1. flds[n][i] \in Parts /\ CleanNote(n)[i] = CleanPart(flds[n][i])
    BY ReadFacts
  <2>2. Len(CleanPart(flds[n][i])) = 1
    BY <1>0, <2>1, CleanPartFacts
  <2>3. \A j \in 1..Len(CleanPart(flds[n][i])) : CleanPart(flds[n][i])[j].form # "entity"
    BY <2>1, CleanPartFacts
  <2> QED
    BY <2>1, <2>2, <2>3
<1> QED
  BY <1>1, <1>2, ReadFacts DEF OnePart

\* What the user may have typed into a box is of the box's note.
LEMMA TypedFacts ==
  ASSUME NEW n \in Notes, made + 1 \in 0..MaxRequests, NEW v \in Typed(n)
  PROVE  /\ v \in Values /\ \A j \in 1..Len(v) : v[j].of = n
         /\ embeds = FALSE => Len(v) = 1 /\ v[1].form # "entity"
<1> DEFINE Text(f) == [of |-> n, by |-> made + 1, form |-> f]
<1>1. \A f \in Forms : Text(f) \in Parts /\ Text(f).of = n /\ Text(f).form = f
  BY DEF Parts
<1>2. \/ v = <<Text("plain")>> \/ v = <<Text("markup")>>
      \/ embeds # FALSE /\ (v = <<Text("entity")>> \/ v = <<Text("plain"), Text("plain")>>)
  BY DEF Typed
<1>3. "plain" \in Forms /\ "markup" \in Forms /\ "entity" \in Forms
  BY DEF Forms
<1> HIDE DEF Text
<1>4. ASSUME NEW f \in Forms, v = <<Text(f)>>
      PROVE  /\ v \in Values /\ \A j \in 1..Len(v) : v[j].of = n
             /\ Len(v) = 1 /\ v[1].form = f
  BY <1>1, <1>4 DEF Values
<1>5. CASE v = <<Text("plain"), Text("plain")>>
  <2>1. v \in Values /\ \A j \in 1..Len(v) : v[j].of = n
    BY <1>1, <1>3, <1>5 DEF Values
  <2>2. embeds # FALSE
    <3>1. Len(v) = 2 /\ \A x : Len(<<x>>) = 1
      BY <1>5
    <3>2. v # <<Text("plain")>> /\ v # <<Text("markup")>>
      BY <3>1
    <3> QED
      BY <1>2, <3>2
  <2> QED
    BY <2>1, <2>2
<1>6. CASE v = <<Text("plain")>> \/ v = <<Text("markup")>>
  BY <1>3, <1>4, <1>6
<1>7. CASE v = <<Text("entity")>> /\ embeds # FALSE
  BY <1>3, <1>4, <1>7
<1> QED
  BY <1>2, <1>5, <1>6, <1>7

-----------------------------------------------------------------------------
(* What a request is.                                                      *)

Fits(q) == q \in {Idle} \union Renames \union Opens \union Saves \/ Cleaning(q)

\* Each request is of one of four kinds, or nothing.
LEMMA Kinds ==
  ASSUME NEW q, Fits(q)
  PROVE  /\ q.op = "rename" => q \in Renames
         /\ q.op = "open" => q \in Opens
         /\ q.op = "save" => q \in Saves
         /\ q.op = "clean" => Cleaning(q)
         /\ q = Idle \/ q.op \in {"rename", "open", "save", "clean"}
<1>1. CASE q = Idle
  BY <1>1 DEF Idle
<1>2. CASE q \in Renames
  BY <1>2 DEF Renames
<1>3. CASE q \in Opens
  BY <1>3 DEF Opens
<1>4. CASE q \in Saves
  BY <1>4 DEF Saves
<1>5. CASE Cleaning(q)
  <2>1. q.op = "clean"
    BY <1>5 DEF Cleaning
  <2> QED
    BY <1>5, <2>1
<1> QED
  BY <1>1, <1>2, <1>3, <1>4, <1>5 DEF Fits

\* The fields of each kind.
LEMMA KindFields ==
  ASSUME NEW q
  PROVE  /\ q \in Renames => q.op = "rename" /\ q.deck \in Decks /\ q.new \in Names \union {Invalid}
         /\ q \in Opens => q.op = "open" /\ q.note \in Notes /\ q.at \in {"read", "answered"}
         /\ q \in Opens /\ q.at = "answered" => q.values \in Seq(Values)
         /\ q \in Saves => q.op = "save" /\ q.note \in Notes /\ q.values \in Seq(Values)
         /\ Cleaning(q) => /\ q.op = "clean" /\ q.todo \in SUBSET Notes /\ DOMAIN q.plan \subseteq Notes
                           /\ \A n \in DOMAIN q.plan : q.plan[n] \in Seq(Values)
<1>1. q \in Renames => q.op = "rename" /\ q.deck \in Decks /\ q.new \in Names \union {Invalid}
  BY DEF Renames
<1>2. q \in Opens => q.op = "open" /\ q.note \in Notes /\ q.at \in {"read", "answered"}
  BY DEF Opens
<1>3. q \in Opens /\ q.at = "answered" => q.values \in Seq(Values)
  BY DEF Opens
<1>4. q \in Saves => q.op = "save" /\ q.note \in Notes /\ q.values \in Seq(Values)
  BY DEF Saves
<1>5. ASSUME Cleaning(q)
      PROVE  /\ q.op = "clean" /\ q.todo \in SUBSET Notes /\ DOMAIN q.plan \subseteq Notes
             /\ \A n \in DOMAIN q.plan : q.plan[n] \in Seq(Values)
  <2>1. q.op = "clean" /\ q.todo \in SUBSET Notes /\ DOMAIN q.plan \subseteq Notes
    BY <1>5 DEF Cleaning
  <2>2. q.plan \in [DOMAIN q.plan -> Seq(Values)]
    BY <1>5 DEF Cleaning
  <2> QED
    BY <2>1, <2>2
<1> QED
  BY <1>1, <1>2, <1>3, <1>4, <1>5

\* The other requests are what they were.
Others(r) ==
  /\ DOMAIN req' = Requests
  /\ \A q \in Requests : q # r => req'[q] = req[q]

LEMMA TypeKept ==
  ASSUME TypeRequests, NEW r \in Requests, Others(r), Fits(req'[r])
  PROVE  TypeRequests'
<1> SUFFICES ASSUME NEW q \in Requests PROVE Fits(req'[q])
  BY DEF TypeRequests, Others, Fits
<1>1. CASE q = r
  BY <1>1
<1>2. CASE q # r
  BY <1>2 DEF Others, TypeRequests, Fits
<1> QED
  BY <1>1, <1>2

\* A request that goes on is what it was but for its place.
GoesOn(q, at) == [q EXCEPT !.at = at]

LEMMA GoesOnFacts ==
  ASSUME NEW q, NEW at \in {"backup", "write"}
  PROVE  /\ q \in Renames =>
              /\ GoesOn(q, at) \in Renames /\ GoesOn(q, at).at = at
              /\ GoesOn(q, at).deck = q.deck /\ GoesOn(q, at).new = q.new
         /\ q \in Saves =>
              /\ GoesOn(q, at) \in Saves /\ GoesOn(q, at).at = at
              /\ GoesOn(q, at).note = q.note /\ GoesOn(q, at).values = q.values
         /\ Cleaning(q) =>
              /\ Cleaning(GoesOn(q, at)) /\ GoesOn(q, at).at = at /\ GoesOn(q, at).plan = q.plan
<1>1. ASSUME q \in Renames
      PROVE  /\ GoesOn(q, at) \in Renames /\ GoesOn(q, at).at = at
             /\ GoesOn(q, at).deck = q.deck /\ GoesOn(q, at).new = q.new
  BY <1>1 DEF Renames, GoesOn
<1>2. ASSUME q \in Saves
      PROVE  /\ GoesOn(q, at) \in Saves /\ GoesOn(q, at).at = at
             /\ GoesOn(q, at).note = q.note /\ GoesOn(q, at).values = q.values
  BY <1>2 DEF Saves, GoesOn
<1>3. ASSUME Cleaning(q)
      PROVE  Cleaning(GoesOn(q, at)) /\ GoesOn(q, at).at = at /\ GoesOn(q, at).plan = q.plan
  <2> DEFINE Shape(p) == [op : {"clean"}, at : {"reading", "backup", "write"}, todo : SUBSET Notes,
                          plan : [p -> Seq(Values)]]
             plan == q.plan
             new == GoesOn(q, at)
  <2>1. DOMAIN plan \subseteq Notes /\ q \in Shape(DOMAIN plan)
    BY <1>3 DEF Cleaning
  <2>2. \A p : q \in Shape(p) =>
          new \in Shape(p) /\ new.at = at /\ new.op = "clean" /\ new.plan = q.plan
    BY DEF GoesOn
  <2>3. new \in Shape(DOMAIN plan) /\ new.plan = plan /\ new.at = at /\ new.op = "clean"
    BY <2>1, <2>2
  <2>4. new \in Shape(DOMAIN new.plan) /\ DOMAIN new.plan \subseteq Notes
    BY <2>1, <2>3
  <2> HIDE DEF new
  <2>5. Cleaning(new)
    BY <2>3, <2>4 DEF Cleaning
  <2> QED
    BY <2>3, <2>5 DEF new
<1> QED
  BY <1>1, <1>2, <1>3

\* The three ways in which a request changes.
LEMMA Ends ==
  ASSUME TypeRequests, NEW r \in Requests, Finish(r)
  PROVE  Others(r) /\ req'[r] = Idle /\ made' = made
  BY DEF TypeRequests, Others, Finish

LEMMA Continues ==
  ASSUME TypeRequests, NEW r \in Requests, NEW at, Goto(r, at)
  PROVE  Others(r) /\ req'[r] = GoesOn(req[r], at) /\ made' = made
  BY DEF TypeRequests, Others, Goto, GoesOn

LEMMA Begins ==
  ASSUME TypeRequests, made \in 0..MaxRequests, NEW r \in Requests, NEW request, Make(r, request)
  PROVE  /\ Others(r) /\ req'[r] = request /\ made' = made + 1 /\ made + 1 \in 0..MaxRequests
         /\ req[r] = Idle
<1>1. Others(r) /\ req'[r] = request /\ made' = made + 1 /\ req[r] = Idle
  BY DEF TypeRequests, Others, Make
<1>2. made + 1 \in 0..MaxRequests
  BY CollectionAssumption DEF Make
<1> QED
  BY <1>1, <1>2

-----------------------------------------------------------------------------
(* What each operation does to its request.                                *)

Moves(r) == Others(r) /\ Fits(req'[r]) /\ made' \in 0..MaxRequests

LEMMA FitsNow == ASSUME TypeRequests, NEW r \in Requests PROVE Fits(req[r])
  BY DEF TypeRequests, Fits

LEMMA Stops ==
  ASSUME TypeOK, NEW r \in Requests, Finish(r)
  PROVE  Moves(r) /\ req'[r] = Idle
<1>1. Others(r) /\ req'[r] = Idle /\ made' = made
  BY Ends DEF TypeOK
<1> QED
  BY <1>1 DEF Moves, Fits, TypeOK

LEMMA RenameMoves ==
  ASSUME TypeOK, NEW r \in Requests, Rename(r)
  PROVE  Moves(r) /\ req'[r].op = "rename" /\ req'[r].at = "check"
<1>1. PICK d \in Decks, new \in Names \union {Invalid} :
        Make(r, [op |-> "rename", at |-> "check", deck |-> d, new |-> new])
  BY DEF Rename
<1> DEFINE q == [op |-> "rename", at |-> "check", deck |-> d, new |-> new]
<1>2. q \in Renames /\ q.op = "rename" /\ q.at = "check"
  BY DEF Renames
<1>3. Make(r, q)
  BY <1>1
<1> HIDE DEF q
<1>4. Others(r) /\ req'[r] = q /\ made' \in 0..MaxRequests
  BY <1>3, Begins DEF TypeOK
<1> QED
  BY <1>2, <1>4 DEF Moves, Fits

LEMMA RenameChecksMoves ==
  ASSUME TypeOK, NEW r \in Requests, RenameChecks(r)
  PROVE  /\ Moves(r)
         /\ \/ req'[r] = Idle
            \/ req'[r].op = "rename" /\ req'[r].new \in Names /\ ~Taken(req'[r].deck, req'[r].new)
<1>1. req[r] \in Renames /\ TypeRequests
  BY Kinds, FitsNow DEF TypeOK, RenameChecks, At
<1>2. CASE Finish(r)
  BY <1>2, Stops
<1>3. CASE /\ ~ (req[r].new = Invalid \/ Taken(req[r].deck, req[r].new))
           /\ Goto(r, "backup")
  <2>1. Others(r) /\ req'[r] = GoesOn(req[r], "backup") /\ made' = made
    BY <1>1, <1>3, Continues
  <2>2. /\ req'[r] \in Renames
        /\ req'[r].deck = req[r].deck /\ req'[r].new = req[r].new
    BY <1>1, <2>1, GoesOnFacts
  <2>3. req[r].new \in Names \union {Invalid} /\ req'[r].op = "rename"
    BY <1>1, <2>2, KindFields
  <2>4. Moves(r)
    BY <2>1, <2>2 DEF Moves, Fits, TypeOK
  <2>5. ~Taken(req'[r].deck, req'[r].new)
    BY <1>3, <2>2
  <2> QED
    BY <1>3, <2>2, <2>3, <2>4, <2>5
<1> QED
  BY <1>2, <1>3 DEF RenameChecks

LEMMA OpenMoves ==
  ASSUME TypeOK, NEW r \in Requests, Open(r)
  PROVE  Moves(r) /\ req'[r].op = "open" /\ req'[r].at = "read"
<1>1. PICK n \in Notes : Make(r, [op |-> "open", at |-> "read", note |-> n])
  BY DEF Open
<1> DEFINE q == [op |-> "open", at |-> "read", note |-> n]
<1>2. q \in Opens /\ q.op = "open" /\ q.at = "read"
  BY DEF Opens
<1>3. Make(r, q)
  BY <1>1
<1> HIDE DEF q
<1>4. Others(r) /\ req'[r] = q /\ made' \in 0..MaxRequests
  BY <1>3, Begins DEF TypeOK
<1> QED
  BY <1>2, <1>4 DEF Moves, Fits

\* GetNote answers with a value for each field of the note's model.
LEMMA OpenReadsMoves ==
  ASSUME TypeOK, NEW r \in Requests, OpenReads(r)
  PROVE  /\ Moves(r)
         /\ \/ req'[r] = Idle
            \/ \E n \in Notes :
                 /\ req'[r].op = "open" /\ req'[r].at = "answered" /\ req'[r].note = n
                 /\ req'[r].values = Split(n) /\ Len(Split(n)) = Fields[n]
<1>1. req[r] \in Opens /\ TypeRequests
  BY Kinds, FitsNow DEF TypeOK, OpenReads, At
<1>2. CASE Finish(r)
  BY <1>2, Stops
<1>3. CASE ~ Finish(r)
  <2> DEFINE n == req[r].note
             q == [op |-> "open", at |-> "answered", note |-> n, values |-> Split(n)]
  <2>1. n \in Notes
    BY <1>1, KindFields
  <2>2. MapFields(n, Split(n)) /\ req' = [req EXCEPT ![r] = q] /\ made' = made
    BY <1>3 DEF OpenReads
  <2>3. Split(n) \in Seq(Values)
    BY <2>1, ReadFacts DEF TypeOK, TypeData
  <2>4. q \in Opens
    BY <2>1, <2>3 DEF Opens
  <2>5. q.op = "open" /\ q.at = "answered" /\ q.note = n /\ q.values = Split(n)
    OBVIOUS
  <2> HIDE DEF q
  <2>6. Others(r) /\ req'[r] = q
    BY <1>1, <2>2 DEF TypeRequests, Others
  <2>7. Moves(r)
    BY <2>2, <2>4, <2>6 DEF Moves, Fits, TypeOK
  <2> QED
    BY <2>1, <2>2, <2>5, <2>6, <2>7 DEF MapFields
<1> QED
  BY <1>2, <1>3

\* The page sends what its boxes hold, and at most one of them has been typed into.
SentFrom(values) ==
  \/ values = form
  \/ \E i \in 1..Len(form) : \E v \in Typed(form[i][1].of) : values = [form EXCEPT ![i] = v]

LEMMA SentFacts ==
  ASSUME TypePage, made + 1 \in 0..MaxRequests, NEW values, SentFrom(values)
  PROVE  /\ values \in Seq(Values) /\ Len(values) = Len(form)
         /\ \A i \in 1..Len(form) :
              \/ values[i] = form[i]
              \/ \E n \in Notes : form[i][1].of = n /\ 1 \in 1..Len(form[i]) /\ values[i] \in Typed(n)
<1>1. form \in Seq(Values) /\ Len(form) \in Nat /\ \A i \in 1..Len(form) : form[i] \in Values
  BY ValuesAreSeqs DEF TypePage
<1>2. CASE values = form
  BY <1>1, <1>2
<1>3. CASE values # form
  <2>1. PICK i \in 1..Len(form) : \E v \in Typed(form[i][1].of) : values = [form EXCEPT ![i] = v]
    BY <1>3 DEF SentFrom
  <2>2. PICK v \in Typed(form[i][1].of) : values = [form EXCEPT ![i] = v]
    BY <2>1
  <2>3. form[i] \in Seq(Parts) /\ 1 \in 1..Len(form[i])
    BY <1>1, ValueIsParts
  <2>4. form[i][1] \in Parts
    BY <2>3, ElementOfSeq
  <2>5. form[i][1].of \in Notes
    BY <2>4 DEF Parts
  <2>6. v \in Values
    BY <2>2, <2>5, TypedFacts
  <2>7. /\ values \in Seq(Values) /\ Len(values) = Len(form)
        /\ \A j \in 1..Len(form) : values[j] = IF j = i THEN v ELSE form[j]
    BY <1>1, <2>2, <2>6, ExceptSeq
  <2> QED
    BY <2>2, <2>3, <2>5, <2>7
<1> QED
  BY <1>2, <1>3

LEMMA SaveMoves ==
  ASSUME TypeOK, NEW r \in Requests, Save(r)
  PROVE  /\ Moves(r) /\ editing \in Notes /\ editing # 0 /\ made + 1 \in 0..MaxRequests
         /\ req'[r].op = "save" /\ req'[r].at = "check" /\ req'[r].note = editing
         /\ SentFrom(req'[r].values)
<1>1. PICK values \in {form} \union
                      UNION {{[form EXCEPT ![i] = v] : v \in Typed(form[i][1].of)} : i \in DOMAIN form} :
        Make(r, [op |-> "save", at |-> "check", note |-> editing, values |-> values])
  BY DEF Save
<1>2. editing \in Notes /\ editing # 0
  BY DEF Save, TypeOK, TypePage
<1>3. SentFrom(values)
  <2>1. DOMAIN form = 1..Len(form)
    BY LenProperties DEF TypeOK, TypePage
  <2> HIDE DEF Typed
  <2> QED
    BY <2>1 DEF SentFrom
<1> DEFINE q == [op |-> "save", at |-> "check", note |-> editing, values |-> values]
<1>4. Make(r, q)
  BY <1>1
<1>5. q.op = "save" /\ q.at = "check" /\ q.note = editing /\ q.values = values
  OBVIOUS
<1>6. values \in Seq(Values) => q \in Saves
  BY <1>2 DEF Saves
<1> HIDE DEF q
<1>7. Others(r) /\ req'[r] = q /\ made' = made + 1 /\ made + 1 \in 0..MaxRequests
  BY <1>4, Begins DEF TypeOK
<1>8. values \in Seq(Values)
  BY <1>3, <1>7, SentFacts DEF TypeOK
<1>9. Moves(r)
  BY <1>6, <1>7, <1>8 DEF Moves, Fits
<1> QED
  BY <1>2, <1>3, <1>5, <1>7, <1>9

LEMMA SaveChecksMoves ==
  ASSUME TypeOK, NEW r \in Requests, SaveChecks(r)
  PROVE  /\ Moves(r)
         /\ \/ req'[r] = Idle
            \/ /\ req'[r].op = "save" /\ req'[r].note = req[r].note /\ req'[r].values = req[r].values
               /\ req[r].op = "save" /\ req[r].note \in Notes
               /\ Len(req[r].values) = Fields[req[r].note]
<1>1. req[r] \in Saves /\ TypeRequests
  BY Kinds, FitsNow DEF TypeOK, SaveChecks, At
<1>2. CASE Finish(r)
  BY <1>2, Stops
<1>3. CASE MapFields(req[r].note, req[r].values) /\ Goto(r, "backup")
  <2>1. Others(r) /\ req'[r] = GoesOn(req[r], "backup") /\ made' = made
    BY <1>1, <1>3, Continues
  <2>2. req'[r] \in Saves /\ req'[r].note = req[r].note /\ req'[r].values = req[r].values
    BY <1>1, <2>1, GoesOnFacts
  <2>3. req'[r].op = "save" /\ req[r].op = "save" /\ req[r].note \in Notes
    BY <1>1, <2>2, KindFields
  <2>4. Moves(r)
    BY <2>1, <2>2 DEF Moves, Fits, TypeOK
  <2> QED
    BY <1>3, <2>2, <2>3, <2>4 DEF MapFields
<1> QED
  BY <1>2, <1>3 DEF SaveChecks

LEMMA CleanMoves ==
  ASSUME TypeOK, NEW r \in Requests, Clean(r)
  PROVE  Moves(r) /\ req'[r].op = "clean" /\ req'[r].at = "reading" /\ DOMAIN req'[r].plan = {}
<1>1. PICK d \in Decks : Make(r, [op |-> "clean", at |-> "reading", todo |-> InDeck(d), plan |-> NoPlan])
  BY DEF Clean
<1> DEFINE q == [op |-> "clean", at |-> "reading", todo |-> InDeck(d), plan |-> NoPlan]
<1>2. InDeck(d) \in SUBSET Notes
  BY CollectionAssumption DEF InDeck
<1>3. DOMAIN NoPlan = {} /\ NoPlan \in [{} -> Seq(Values)]
  BY DEF NoPlan
<1>4. q \in [op : {"clean"}, at : {"reading", "backup", "write"}, todo : SUBSET Notes,
             plan : [{} -> Seq(Values)]]
  BY <1>2, <1>3
<1>5. q.op = "clean" /\ q.at = "reading" /\ q.plan = NoPlan
  OBVIOUS
<1>6. Make(r, q)
  BY <1>1
<1> HIDE DEF q
<1>7. Cleaning(q)
  BY <1>3, <1>4, <1>5 DEF Cleaning
<1>8. Others(r) /\ req'[r] = q /\ made' \in 0..MaxRequests
  BY <1>6, Begins DEF TypeOK
<1> QED
  BY <1>3, <1>5, <1>7, <1>8 DEF Moves, Fits

\* What a run has planned for a note is what the cleaner makes of the note.
LEMMA PlannedFacts ==
  ASSUME NEW plan, NEW n \in Notes
  PROVE  /\ DOMAIN Planned(plan, n) \subseteq DOMAIN plan \union {n}
         /\ \A m \in DOMAIN Planned(plan, n) :
              \/ m \in DOMAIN plan /\ Planned(plan, n)[m] = plan[m]
              \/ m = n /\ Planned(plan, n)[m] = CleanNote(n)
<1>1. CASE CleanNote(n) = Split(n)
  BY <1>1 DEF Planned
<1>2. CASE CleanNote(n) # Split(n)
  BY <1>2 DEF Planned
<1> QED
  BY <1>1, <1>2

LEMMA CleanReadsMoves ==
  ASSUME TypeOK, NEW r \in Requests, CleanReads(r)
  PROVE  /\ Moves(r)
         /\ \/ req'[r] = Idle
            \/ /\ req'[r].op = "clean" /\ req[r].op = "clean"
               /\ \E n \in Notes : req'[r].plan = Planned(req[r].plan, n)
<1>1. Cleaning(req[r]) /\ TypeRequests
  BY Kinds, FitsNow DEF TypeOK, CleanReads, At
<1>2. PICK n \in req[r].todo :
       IF MapFields(n, Split(n))
       THEN /\ req' = [req EXCEPT ![r] = [@ EXCEPT !.todo = req[r].todo \ {n},
                                                  !.plan = Planned(req[r].plan, n)]]
            /\ UNCHANGED made
       ELSE Finish(r)
  BY DEF CleanReads
<1>3. CASE Finish(r)
  BY <1>3, Stops
<1>4. CASE /\ req' = [req EXCEPT ![r] = [@ EXCEPT !.todo = req[r].todo \ {n},
                                                 !.plan = Planned(req[r].plan, n)]]
           /\ UNCHANGED made
  <2> DEFINE plan == Planned(req[r].plan, n)
             q == [req[r] EXCEPT !.todo = req[r].todo \ {n}, !.plan = plan]
  <2>1. n \in Notes /\ req[r].op = "clean" /\ req[r].todo \in SUBSET Notes /\ DOMAIN req[r].plan \subseteq Notes
        /\ \A m \in DOMAIN req[r].plan : req[r].plan[m] \in Seq(Values)
    BY <1>1, <1>2, KindFields
  <2>2. CleanNote(n) \in Seq(Values)
    BY <2>1, ReadFacts DEF TypeOK, TypeData
  <2>3. DOMAIN plan \subseteq Notes /\ \A m \in DOMAIN plan : plan[m] \in Seq(Values)
    BY <2>1, <2>2, PlannedFacts
  <2>4. plan \in [DOMAIN plan -> Seq(Values)]
    <3>1. plan = [m \in DOMAIN plan |-> plan[m]]
      <4>1. CASE CleanNote(n) = Split(n)
        <5>1. plan = req[r].plan
          BY <4>1 DEF Planned
        <5>2. req[r].plan \in [DOMAIN req[r].plan -> Seq(Values)]
          BY <1>1 DEF Cleaning
        <5> QED
          BY <5>1, <5>2
      <4>2. CASE CleanNote(n) # Split(n)
        BY <4>2 DEF Planned
      <4> QED
        BY <4>1, <4>2
    <3> HIDE DEF plan
    <3> QED
      BY <2>3, <3>1
  <2>5. req' = [req EXCEPT ![r] = q] /\ made' = made
    BY <1>4
  <2> HIDE DEF plan
  <2>6. /\ q \in [op : {"clean"}, at : {"reading", "backup", "write"}, todo : SUBSET Notes,
                  plan : [DOMAIN plan -> Seq(Values)]]
        /\ q.op = "clean" /\ q.plan = plan
    <3>1. req[r] \in [op : {"clean"}, at : {"reading", "backup", "write"}, todo : SUBSET Notes,
                      plan : [DOMAIN req[r].plan -> Seq(Values)]]
      BY <1>1 DEF Cleaning
    <3> DEFINE D == DOMAIN req[r].plan
    <3> HIDE DEF D
    <3>2. req[r] \in [op : {"clean"}, at : {"reading", "backup", "write"}, todo : SUBSET Notes,
                      plan : [D -> Seq(Values)]]
      BY <3>1 DEF D
    <3> QED
      BY <2>1, <2>4, <3>2
  <2> HIDE DEF q
  <2>7. Cleaning(q)
    BY <2>3, <2>6 DEF Cleaning
  <2>8. Others(r) /\ req'[r] = q
    BY <1>1, <2>5 DEF TypeRequests, Others
  <2>9. Moves(r)
    BY <2>5, <2>7, <2>8 DEF Moves, Fits, TypeOK
  <2> QED
    BY <2>1, <2>6, <2>8, <2>9 DEF plan
<1> QED
  BY <1>2, <1>3, <1>4

LEMMA CleanPlannedMoves ==
  ASSUME TypeOK, NEW r \in Requests, CleanPlanned(r)
  PROVE  Moves(r) /\ req'[r].op = "clean" /\ req[r].op = "clean" /\ req'[r].plan = req[r].plan
<1>1. Cleaning(req[r]) /\ TypeRequests
  BY Kinds, FitsNow DEF TypeOK, CleanPlanned, At
<1>2. Others(r) /\ req'[r] = GoesOn(req[r], "backup") /\ made' = made
  BY <1>1, Continues DEF CleanPlanned
<1>3. Cleaning(req'[r]) /\ req'[r].plan = req[r].plan
  BY <1>1, <1>2, GoesOnFacts
<1>4. req'[r].op = "clean" /\ req[r].op = "clean"
  BY <1>1, <1>3, KindFields
<1> QED
  BY <1>2, <1>3, <1>4 DEF Moves, Fits, TypeOK

LEMMA BackupMoves ==
  ASSUME TypeOK, NEW r \in Requests, Backup(r)
  PROVE  /\ Moves(r) /\ req[r].at = "backup"
         /\ \/ /\ req'[r].op = "rename" /\ req[r].op = "rename"
               /\ req'[r].deck = req[r].deck /\ req'[r].new = req[r].new
            \/ /\ req'[r].op = "save" /\ req[r].op = "save"
               /\ req'[r].note = req[r].note /\ req'[r].values = req[r].values
            \/ req'[r].op = "clean" /\ req[r].op = "clean" /\ req'[r].plan = req[r].plan
<1>1. TypeRequests /\ Fits(req[r]) /\ req[r] # Idle /\ req[r].at = "backup" /\ Goto(r, "write")
  BY FitsNow DEF TypeOK, Backup
<1>2. Others(r) /\ req'[r] = GoesOn(req[r], "write") /\ made' = made
  BY <1>1, Continues
<1>3. req[r].op \in {"rename", "open", "save", "clean"}
  BY <1>1, Kinds
<1>4. req[r].op # "open"
  BY <1>1, Kinds, KindFields
<1>5. ASSUME Fits(req'[r]) PROVE Moves(r)
  BY <1>2, <1>5 DEF Moves, TypeOK
<1>6. CASE req[r].op = "rename"
  <2>1. req[r] \in Renames
    BY <1>1, <1>6, Kinds
  <2>2. req'[r] \in Renames /\ req'[r].deck = req[r].deck /\ req'[r].new = req[r].new
    BY <1>2, <2>1, GoesOnFacts
  <2>3. req'[r].op = "rename" /\ Fits(req'[r])
    BY <2>2, KindFields DEF Fits
  <2> QED
    BY <1>1, <1>5, <1>6, <2>2, <2>3
<1>7. CASE req[r].op = "save"
  <2>1. req[r] \in Saves
    BY <1>1, <1>7, Kinds
  <2>2. req'[r] \in Saves /\ req'[r].note = req[r].note /\ req'[r].values = req[r].values
    BY <1>2, <2>1, GoesOnFacts
  <2>3. req'[r].op = "save" /\ Fits(req'[r])
    BY <2>2, KindFields DEF Fits
  <2> QED
    BY <1>1, <1>5, <1>7, <2>2, <2>3
<1>8. CASE req[r].op = "clean"
  <2>1. Cleaning(req[r])
    BY <1>1, <1>8, Kinds
  <2>2. Cleaning(req'[r]) /\ req'[r].plan = req[r].plan
    BY <1>2, <2>1, GoesOnFacts
  <2>3. req'[r].op = "clean" /\ Fits(req'[r])
    BY <2>2, KindFields DEF Fits
  <2> QED
    BY <1>1, <1>5, <1>8, <2>2, <2>3
<1> QED
  BY <1>3, <1>4, <1>6, <1>7, <1>8

\* What the writes store.
LEMMA SaveStores ==
  ASSUME TypeOK, NEW r \in Requests, SaveWrites(r)
  PROVE  /\ Moves(r) /\ req'[r] = Idle
         /\ req[r].op = "save" /\ req[r].at = "write" /\ req[r].note \in Notes
         /\ req[r].values \in Seq(Seq(Parts))
         /\ DOMAIN flds' = Notes
         /\ flds'[req[r].note] = JoinFieldValues(req[r].values)
         /\ \A n \in Notes : n # req[r].note => flds'[n] = flds[n]
         /\ DOMAIN saved' = Notes
         /\ saved'[req[r].note] = [by |-> Writers(JoinFieldValues(req[r].values)),
                                   calm |-> ~\E q \in Requests : Runs(q)]
         /\ \A n \in Notes : n # req[r].note => saved'[n] = saved[n]
<1>1. req[r].op = "save" /\ req[r].at = "write" /\ Finish(r)
  BY DEF SaveWrites, At
<1>2. req[r].note \in Notes /\ req[r].values \in Seq(Values)
  BY <1>1, FitsNow, Kinds, KindFields DEF TypeOK
<1>3. Moves(r) /\ req'[r] = Idle
  BY <1>1, Stops
<1>4. req[r].values \in Seq(Seq(Parts))
  BY <1>2, ValuesAreSeqs
<1>5. DOMAIN flds = Notes /\ DOMAIN saved = Notes
  BY DEF TypeOK, TypeData
<1> DEFINE n == req[r].note
           v == JoinFieldValues(req[r].values)
           s == [by |-> Writers(v), calm |-> ~\E q \in Requests : Runs(q)]
<1>6. flds' = [flds EXCEPT ![n] = v] /\ saved' = [saved EXCEPT ![n] = s]
  BY DEF SaveWrites
<1> HIDE DEF v, s
<1>7. /\ DOMAIN flds' = Notes /\ DOMAIN saved' = Notes /\ flds'[n] = v /\ saved'[n] = s
      /\ \A m \in Notes : m # n => flds'[m] = flds[m] /\ saved'[m] = saved[m]
  BY <1>2, <1>5, <1>6
<1> QED
  BY <1>1, <1>2, <1>3, <1>4, <1>7 DEF v, s

LEMMA CleanStores ==
  ASSUME TypeOK, NEW r \in Requests, CleanWrites(r)
  PROVE  /\ Moves(r) /\ req'[r] = Idle /\ req[r].op = "clean"
         /\ DOMAIN flds' = Notes
         /\ \A n \in Notes :
              IF n \in DOMAIN req[r].plan
              THEN /\ req[r].plan[n] \in Seq(Seq(Parts)) /\ Len(req[r].plan[n]) = Fields[n]
                   /\ flds'[n] = JoinFieldValues(req[r].plan[n])
              ELSE flds'[n] = flds[n]
<1>1. req[r].op = "clean" /\ Finish(r)
  BY DEF CleanWrites, At
<1>2. Moves(r) /\ req'[r] = Idle
  BY <1>1, Stops
<1>3. \A n \in DOMAIN req[r].plan : req[r].plan[n] \in Seq(Values)
  BY <1>1, FitsNow, Kinds, KindFields DEF TypeOK
<1>4. \A n \in DOMAIN req[r].plan : req[r].plan[n] \in Seq(Seq(Parts))
  BY <1>3, ValuesAreSeqs
<1>5. \A n \in DOMAIN req[r].plan : Len(req[r].plan[n]) = Fields[n]
  BY DEF CleanWrites, MapFields
<1>6. flds' = [n \in Notes |-> IF n \in DOMAIN req[r].plan THEN JoinFieldValues(req[r].plan[n])
                               ELSE flds[n]]
  BY DEF CleanWrites
<1> QED
  BY <1>1, <1>2, <1>4, <1>5, <1>6

-----------------------------------------------------------------------------
(* Type correctness: a rename that has passed its checks has a proper name. *)

LEMMA InitFields ==
  ASSUME Init, NEW n \in Notes
  PROVE  /\ flds[n] \in Seq(Parts) /\ Len(flds[n]) = Fields[n]
         /\ \A i \in 1..Len(flds[n]) :
              flds[n][i].of = n /\ flds[n][i].by = 0 /\ flds[n][i].form # "entity"
<1>1. PICK f \in [Notes -> {"plain", "markup"}] :
        flds = [m \in Notes |-> [i \in 1..Fields[m] |->
                 [of |-> m, by |-> 0, form |-> IF i = 1 THEN f[m] ELSE "plain"]]]
  BY DEF Init
<1> DEFINE p(i) == [of |-> n, by |-> 0, form |-> IF i = 1 THEN f[n] ELSE "plain"]
<1>2. Fields[n] \in Nat /\ f[n] \in {"plain", "markup"} /\ 0 \in 0..MaxRequests
  BY CollectionAssumption
<1>3. flds[n] = [i \in 1..Fields[n] |-> p(i)]
  BY <1>1
<1>4. \A i \in 1..Fields[n] :
        p(i) \in Parts /\ p(i).of = n /\ p(i).by = 0 /\ p(i).form # "entity"
  BY <1>2 DEF Parts, Forms
<1> HIDE DEF p
<1>5. flds[n] \in [1..Fields[n] -> Parts] /\ \A i \in 1..Fields[n] : flds[n][i] = p(i)
  BY <1>3, <1>4
<1>6. flds[n] \in Seq(Parts) /\ Len(flds[n]) = Fields[n]
  BY <1>2, <1>5
<1> QED
  BY <1>4, <1>5, <1>6

LEMMA InitTypes == Init => TypeOK /\ Checked
<1> SUFFICES ASSUME Init PROVE TypeOK /\ Checked
  OBVIOUS
<1>1. flds \in [Notes -> Seq(Parts)]
  <2>1. DOMAIN flds = Notes /\ flds = [n \in Notes |-> flds[n]]
    BY DEF Init
  <2> QED
    BY <2>1, InitFields
<1>2. name \in [Decks -> Names] /\ embeds \in BOOLEAN /\ raced \in BOOLEAN
  BY CollectionAssumption DEF Init
<1>3. tables \in [1..3 -> Outcomes]
  BY DEF Init, Outcomes
<1>4. saved \in [Notes -> [by : SUBSET (0..MaxRequests), calm : BOOLEAN]]
  <2>1. {0} \in SUBSET (0..MaxRequests)
    BY CollectionAssumption
  <2> QED
    BY <2>1 DEF Init
<1>5. TypePage
  BY DEF Init, TypePage
<1>6. made \in 0..MaxRequests
  BY CollectionAssumption DEF Init
<1>7. TypeRequests /\ \A r \in Requests : req[r] = Idle
  BY DEF Init, TypeRequests
<1>8. Checked
  BY <1>7 DEF Checked, Proper, Idle
<1> QED
  BY <1>1, <1>2, <1>3, <1>4, <1>5, <1>6, <1>7, <1>8 DEF TypeOK, TypeData

\* The steps that leave the names and the races as they are, but for the request.
LEMMA CheckedKept ==
  ASSUME Checked, NEW r \in Requests, Moves(r), UNCHANGED <<name, raced>>, Proper(req'[r])
  PROVE  Checked'
<1> SUFFICES ASSUME NEW q \in Requests PROVE Proper(req[q])'
  BY DEF Checked
<1>1. Proper(req'[q])
  <2>1. CASE q = r
    BY <2>1
  <2>2. CASE q # r
    BY <2>2 DEF Checked, Moves, Others
  <2> QED
    BY <2>1, <2>2
<1> QED
  BY <1>1 DEF Proper, Taken, Passed, Names

LEMMA ProperUnless ==
  ASSUME NEW q, q = Idle \/ q.op # "rename" \/ q.at = "check"
  PROVE  Proper(q)
  BY DEF Proper, Idle, Passed

LEMMA TypeStep == TypeOK /\ Checked /\ [Next]_vars => TypeOK' /\ Checked'
<1> SUFFICES ASSUME TypeOK, Checked, [Next]_vars PROVE TypeOK' /\ Checked'
  OBVIOUS
<1>1. ASSUME NEW r \in Requests, Moves(r) PROVE TypeRequests' /\ made' \in 0..MaxRequests
  BY <1>1, TypeKept DEF Moves, TypeOK
<1>2. UNCHANGED <<data, tables, embeds, ghost>> => TypeData'
  BY DEF TypeOK, TypeData, data, ghost
<1>3. UNCHANGED page => TypePage'
  BY DEF TypeOK, TypePage, page
<1>4. ASSUME NEW r \in Requests, Moves(r), Proper(req'[r]), UNCHANGED <<data, tables, embeds, page, ghost>>
      PROVE  TypeOK' /\ Checked'
  <2>1. Checked'
    BY <1>4, CheckedKept DEF data, ghost
  <2> QED
    BY <1>1, <1>2, <1>3, <1>4, <2>1 DEF TypeOK
<1>5. ASSUME NEW r \in Requests,
             Rename(r) \/ OpenReads(r) \/ Save(r) \/ SaveChecks(r) \/ Clean(r) \/ CleanReads(r) \/ CleanPlanned(r)
      PROVE  TypeOK' /\ Checked'
  <2>1. UNCHANGED <<data, tables, embeds, page, ghost>>
    BY <1>5 DEF Rename, OpenReads, Save, SaveChecks, Clean, CleanReads, CleanPlanned
  <2>2. Moves(r) /\ (req'[r] = Idle \/ req'[r].op # "rename" \/ req'[r].at = "check")
    BY <1>5, RenameMoves, OpenReadsMoves, SaveMoves, SaveChecksMoves, CleanMoves,
       CleanReadsMoves, CleanPlannedMoves
  <2>3. Proper(req'[r])
    BY <2>2, ProperUnless
  <2> QED
    BY <1>4, <2>1, <2>2, <2>3
<1>6. ASSUME NEW r \in Requests, RenameChecks(r) PROVE TypeOK' /\ Checked'
  <2>1. UNCHANGED <<data, tables, embeds, page, ghost>>
    BY <1>6 DEF RenameChecks
  <2>2. Moves(r) /\ Proper(req'[r])
    <3>1. CASE req'[r] = Idle
      BY <1>6, <3>1, RenameChecksMoves, ProperUnless
    <3>2. CASE req'[r] # Idle
      BY <1>6, <3>2, RenameChecksMoves DEF Proper
    <3> QED
      BY <3>1, <3>2
  <2> QED
    BY <1>4, <2>1, <2>2
<1>7. ASSUME NEW r \in Requests, Backup(r) PROVE TypeOK' /\ Checked'
  <2>1. UNCHANGED <<data, tables, embeds, page, ghost>>
    BY <1>7 DEF Backup
  <2>2. Moves(r) /\ Proper(req'[r])
    <3>1. Proper(req[r]) /\ req[r].at = "backup"
      BY <1>7, BackupMoves DEF Checked
    <3>2. CASE req'[r].op = "rename"
      BY <1>7, <3>1, <3>2, BackupMoves DEF Proper, Passed
    <3>3. CASE req'[r].op # "rename"
      BY <1>7, <3>3, BackupMoves, ProperUnless
    <3> QED
      BY <3>2, <3>3
  <2> QED
    BY <1>4, <2>1, <2>2
<1>8. ASSUME NEW r \in Requests, Fail(r) PROVE TypeOK' /\ Checked'
  <2>1. UNCHANGED <<data, tables, embeds, page, ghost>> /\ Finish(r)
    BY <1>8 DEF Fail
  <2>2. Moves(r) /\ Proper(req'[r])
    BY <2>1, Stops, ProperUnless
  <2> QED
    BY <1>4, <2>1, <2>2
<1>9. ASSUME NEW r \in Requests, RenameWrites(r) PROVE TypeOK' /\ Checked'
  <2>1. /\ req[r].op = "rename" /\ req[r].at = "write" /\ Finish(r)
        /\ name' = [name EXCEPT ![req[r].deck] = req[r].new]
        /\ raced' \in BOOLEAN /\ (raced => raced')
        /\ \A q \in Requests \ {r} : req[q] # Idle /\ req[q].op = "rename" /\ Passed(req[q]) => raced'
        /\ UNCHANGED <<flds, tables, embeds, page, saved>>
    BY <1>9 DEF RenameWrites, At, TypeOK, TypeData, Passed
  <2>2. Moves(r) /\ req'[r] = Idle
    BY <2>1, Stops
  <2>3. req[r].new \in Names
    BY <2>1 DEF Checked, Proper, Passed
  <2>4. TypeData' /\ TypePage'
    BY <1>3, <2>1, <2>3 DEF TypeOK, TypeData
  <2>5. ASSUME NEW q \in Requests PROVE Proper(req[q])'
    <3>1. CASE q = r
      BY <2>2, <3>1 DEF Proper, Idle
    <3>2. CASE q # r
      <4>1. req'[q] = req[q] /\ Proper(req[q])
        BY <2>2, <3>2 DEF Moves, Others, Checked
      <4>2. CASE req[q].op = "rename" /\ Passed(req[q])
        <5>1. raced' /\ req[q].new \in Names
          BY <2>1, <3>2, <4>1, <4>2 DEF Proper, Idle
        <5> QED
          BY <4>1, <5>1 DEF Proper, Names
      <4>3. CASE ~ (req[q].op = "rename" /\ Passed(req[q]))
        BY <4>1, <4>3 DEF Proper, Passed
      <4> QED
        BY <4>2, <4>3
    <3> QED
      BY <3>1, <3>2
  <2>6. Checked'
    BY <2>5 DEF Checked
  <2> QED
    BY <1>1, <2>2, <2>4, <2>6 DEF TypeOK
<1>10. ASSUME NEW r \in Requests, Open(r) PROVE TypeOK' /\ Checked'
  <2>1. form' = <<>> /\ UNCHANGED <<data, tables, embeds, editing, ghost>>
    BY <1>10 DEF Open
  <2>2. Moves(r) /\ Proper(req'[r])
    BY <1>10, OpenMoves, ProperUnless
  <2>3. Checked'
    BY <2>1, <2>2, CheckedKept DEF data, ghost
  <2>4. TypePage'
    BY <2>1 DEF TypeOK, TypePage
  <2> QED
    BY <1>1, <1>2, <2>1, <2>2, <2>3, <2>4 DEF TypeOK
<1>11. ASSUME NEW r \in Requests, OpenArrives(r) PROVE TypeOK' /\ Checked'
  <2>1. /\ req[r].op = "open" /\ req[r].at = "answered" /\ Finish(r)
        /\ editing' = req[r].note /\ form' = form \o req[r].values
        /\ UNCHANGED <<data, tables, embeds, ghost>>
    BY <1>11 DEF OpenArrives, At
  <2>2. Moves(r) /\ Proper(req'[r])
    BY <2>1, Stops, ProperUnless
  <2>3. Checked'
    BY <2>1, <2>2, CheckedKept DEF data, ghost
  <2>4. req[r].note \in Notes /\ req[r].values \in Seq(Values) /\ form \in Seq(Values)
    BY <2>1, FitsNow, Kinds, KindFields DEF TypeOK, TypePage
  <2>5. TypePage'
    BY <2>1, <2>4, ConcatProperties DEF TypePage
  <2> QED
    BY <1>1, <1>2, <2>1, <2>2, <2>3, <2>5 DEF TypeOK
<1>12. ASSUME NEW r \in Requests, SaveWrites(r) PROVE TypeOK' /\ Checked'
  <2> DEFINE n == req[r].note
             v == JoinFieldValues(req[r].values)
  <2>1. UNCHANGED <<name, tables, embeds, page, raced>>
    BY <1>12 DEF SaveWrites
  <2>2. Moves(r) /\ Proper(req'[r])
    BY <1>12, SaveStores, ProperUnless
  <2>3. v \in Seq(Parts)
    BY <1>12, SaveStores, JoinFacts
  <2>4. Writers(v) \in SUBSET (0..MaxRequests)
    <3>1. DOMAIN v = 1..Len(v)
      BY <2>3, LenProperties
    <3>2. \A i \in DOMAIN v : v[i] \in Parts
      BY <2>3, <3>1, ElementOfSeq
    <3> HIDE DEF v
    <3> QED
      BY <3>2 DEF Writers, Parts
  <2> HIDE DEF v
  <2>5. /\ flds' = [flds EXCEPT ![n] = v]
        /\ saved' = [saved EXCEPT ![n] = [by |-> Writers(v), calm |-> ~\E q \in Requests : Runs(q)]]
    BY <1>12 DEF SaveWrites, v
  <2>6. TypeData'
    BY <2>1, <2>3, <2>4, <2>5 DEF TypeOK, TypeData
  <2>7. Checked'
    BY <2>1, <2>2, CheckedKept
  <2> QED
    BY <1>1, <1>3, <2>1, <2>2, <2>6, <2>7 DEF TypeOK
<1>13. ASSUME NEW r \in Requests, CleanWrites(r) PROVE TypeOK' /\ Checked'
  <2>1. UNCHANGED <<name, tables, embeds, page, ghost>>
    BY <1>13 DEF CleanWrites
  <2>2. Moves(r) /\ Proper(req'[r])
    BY <1>13, CleanStores, ProperUnless
  <2>3. \A n \in Notes : flds'[n] \in Seq(Parts)
    BY <1>13, CleanStores, JoinFacts DEF TypeOK, TypeData
  <2>4. flds' \in [Notes -> Seq(Parts)]
    <3>1. flds' = [n \in Notes |-> flds'[n]]
      BY <1>13 DEF CleanWrites
    <3> QED
      BY <2>3, <3>1
  <2>5. TypeData'
    BY <2>1, <2>4 DEF TypeOK, TypeData, ghost
  <2>6. Checked'
    BY <2>1, <2>2, CheckedKept DEF ghost
  <2> QED
    BY <1>1, <1>3, <2>1, <2>2, <2>5, <2>6 DEF TypeOK
<1>14. CASE Hide
  <2>1. editing' = 0 /\ form' = <<>> /\ UNCHANGED <<data, tables, embeds, req, made, ghost>>
    BY <1>14 DEF Hide
  <2>2. TypeData' /\ TypePage'
    BY <1>2, <2>1 DEF TypePage
  <2> QED
    BY <2>1, <2>2 DEF TypeOK, TypeRequests, Checked, Proper, Taken, data, ghost
<1>15. CASE UNCHANGED vars
  BY <1>15 DEF vars, data, page, ghost, TypeOK, TypeData, TypePage, TypeRequests, Checked, Proper, Taken
<1> QED
  BY <1>5, <1>6, <1>7, <1>8, <1>9, <1>10, <1>11, <1>12, <1>13, <1>14, <1>15 DEF Next, Quiet

\* Every variable has its type, whatever the decks, notes and cards are and however
\* many requests are served at once: in particular no deck is given an empty name.
THEOREM TypeCorrect == Spec => []TypeOK
<1>1. Init => TypeOK /\ Checked
  BY InitTypes
<1>2. TypeOK /\ Checked /\ [Next]_vars => (TypeOK /\ Checked)'
  BY TypeStep
<1> QED
  BY <1>1, <1>2, PTL DEF Spec

-----------------------------------------------------------------------------
(* The names of decks.                                                     *)

LEMMA NamesStep == TypeOK /\ Checked /\ NamesDistinct /\ [Next]_vars => NamesDistinct'
<1> SUFFICES ASSUME TypeOK, Checked, NamesDistinct, [Next]_vars PROVE NamesDistinct'
  OBVIOUS
<1>1. ASSUME NEW r \in Requests, RenameWrites(r) PROVE NamesDistinct'
  <2> DEFINE d == req[r].deck
             new == req[r].new
  <2>1. req[r].op = "rename" /\ req[r].at = "write" /\ name' = [name EXCEPT ![d] = new] /\ (raced => raced')
    BY <1>1 DEF RenameWrites, At
  <2>2. d \in Decks /\ DOMAIN name = Decks
    BY <2>1, FitsNow, Kinds, KindFields DEF TypeOK, TypeData
  <2>3. ~raced => \A e \in Decks \ {d} : ~SameName(name[e], new)
    BY <2>1 DEF Checked, Proper, Passed, Taken
  <2> HIDE DEF new
  <2>4. name'[d] = new /\ \A e \in Decks \ {d} : name'[e] = name[e]
    BY <2>1, <2>2
  <2>5. \A a, b : SameName(a, b) => SameName(b, a)
    BY DEF SameName
  <2>6. SUFFICES ASSUME ~raced, NEW e \in Decks, NEW f \in Decks, SameName(name'[e], name'[f])
                 PROVE  e = f
    BY <2>1 DEF NamesDistinct, SameName
  <2>7. CASE e = d \/ f = d
    BY <2>3, <2>4, <2>5, <2>6, <2>7
  <2>8. CASE e # d /\ f # d
    BY <2>4, <2>6, <2>8 DEF NamesDistinct
  <2> QED
    BY <2>7, <2>8
<1>2. CASE UNCHANGED <<name, raced>>
  BY <1>2 DEF NamesDistinct, SameName
<1>3. ASSUME NEW r \in Requests,
             \/ Rename(r) \/ RenameChecks(r) \/ Open(r) \/ OpenReads(r) \/ OpenArrives(r)
             \/ Save(r) \/ SaveChecks(r) \/ SaveWrites(r)
             \/ Clean(r) \/ CleanReads(r) \/ CleanPlanned(r) \/ CleanWrites(r) \/ Backup(r) \/ Fail(r)
      PROVE  UNCHANGED <<name, raced>>
  BY <1>3 DEF Rename, RenameChecks, Open, OpenReads, OpenArrives, Save, SaveChecks, SaveWrites, Clean,
     CleanReads, CleanPlanned, CleanWrites, Backup, Fail, data, ghost
<1>4. Hide \/ UNCHANGED vars => UNCHANGED <<name, raced>>
  BY DEF Hide, vars, data, ghost
<1> QED
  BY <1>1, <1>2, <1>3, <1>4 DEF Next, Quiet

\* No two decks have the same name to NOCASE (but for the case of ASCII letters), unless a rename was written while
\* another had passed its check: RenameDeck's own check is enough if nothing comes
\* between it and the write (services.go:79, repositories.go:104).
THEOREM NamesStayDistinct == Spec => []NamesDistinct
<1>1. Init => TypeOK /\ Checked /\ NamesDistinct
  BY InitTypes, CollectionAssumption DEF Init, NamesDistinct
<1>2. TypeOK /\ Checked /\ NamesDistinct /\ [Next]_vars => (TypeOK /\ Checked /\ NamesDistinct)'
  BY TypeStep, NamesStep
<1> QED
  BY <1>1, <1>2, PTL DEF Spec

-----------------------------------------------------------------------------
(* Whose texts a note holds.                                               *)

\* What is stored of values that are all of one note is of that note.
LEMMA JoinOwn ==
  ASSUME NEW n, NEW values \in Seq(Seq(Parts)), OfNote(values, n)
  PROVE  \A i \in DOMAIN JoinFieldValues(values) : JoinFieldValues(values)[i].of = n
<1> DEFINE v == JoinFieldValues(values)
<1>1. v \in Seq(Parts) /\ PartsIn(v) = PartsOf(values)
  BY JoinFacts
<1>2. \A p \in PartsOf(values) : p.of = n
  BY DEF PartsOf, OfNote
<1> HIDE DEF v
<1>3. DOMAIN v = 1..Len(v)
  BY <1>1, LenProperties
<1>4. \A i \in DOMAIN v : v[i] \in PartsIn(v)
  BY <1>3 DEF PartsIn
<1>5. \A i \in DOMAIN v : v[i].of = n
  BY <1>1, <1>2, <1>4
<1> QED
  BY <1>5 DEF v

\* A box that is typed into stays its note's.
LEMMA SentOwn ==
  ASSUME TypePage, OwnForm, editing \in Notes, editing # 0, made + 1 \in 0..MaxRequests,
         NEW values, SentFrom(values)
  PROVE  LastOf(values, editing)
<1>1. SUFFICES ASSUME NEW i \in 1..Len(values), i > Len(values) - Fields[editing],
                      NEW j \in 1..Len(values[i])
               PROVE  values[i][j].of = editing
  BY DEF LastOf
<1>2. i \in 1..Len(form) /\ i > Len(form) - Fields[editing]
  BY <1>1, SentFacts
<1>3. \A k \in 1..Len(form[i]) : form[i][k].of = editing
  BY <1>2 DEF OwnForm, LastOf
<1>4. CASE values[i] = form[i]
  BY <1>3, <1>4
<1>5. ASSUME NEW n \in Notes, form[i][1].of = n, 1 \in 1..Len(form[i]), values[i] \in Typed(n)
      PROVE  values[i][j].of = editing
  <2>1. n = editing
    BY <1>3, <1>5
  <2> QED
    BY <1>5, <2>1, TypedFacts
<1> QED
  BY <1>2, <1>4, <1>5, SentFacts

\* The boxes of the note that is named last are the last ones.
LEMMA ArrivedOwn ==
  ASSUME TypePage, NEW values \in Seq(Values), NEW n \in Notes,
         Len(values) = Fields[n], OfNote(values, n)
  PROVE  LastOf(form \o values, n)
<1>1. form \in Seq(Values) /\ Len(form) \in Nat /\ Len(values) \in Nat
  BY LenProperties DEF TypePage
<1>2. /\ Len(form \o values) = Len(form) + Len(values)
      /\ \A i \in 1..Len(form) + Len(values) :
           (form \o values)[i] = IF i =< Len(form) THEN form[i] ELSE values[i - Len(form)]
  BY <1>1, ConcatProperties
<1>3. ASSUME NEW i \in 1..Len(form \o values), i > Len(form \o values) - Fields[n]
      PROVE  \E k \in 1..Len(values) : (form \o values)[i] = values[k]
  <2>1. i - Len(form) \in 1..Len(values) /\ ~ (i =< Len(form))
    BY <1>1, <1>2, <1>3
  <2> QED
    BY <1>2, <2>1
<1> QED
  BY <1>3 DEF LastOf, OfNote

OwnInv == OwnForm /\ OwnRequests /\ OwnFields

LEMMA OwnKept ==
  ASSUME OwnRequests, NEW r \in Requests, Moves(r), Own(req'[r])
  PROVE  OwnRequests'
<1> SUFFICES ASSUME NEW q \in Requests PROVE Own(req'[q])
  BY DEF OwnRequests, Own, Passed, OfNote, LastOf
<1>1. CASE q = r
  BY <1>1
<1>2. CASE q # r
  BY <1>2 DEF OwnRequests, Moves, Others
<1> QED
  BY <1>1, <1>2

LEMMA OwnSame == OwnRequests /\ UNCHANGED req => OwnRequests'
<1> SUFFICES ASSUME OwnRequests, UNCHANGED req, NEW q \in Requests PROVE Own(req'[q])
  BY DEF OwnRequests, Own, Passed, OfNote, LastOf
<1> QED
  BY DEF OwnRequests

LEMMA OwnUnless ==
  ASSUME NEW q, q = Idle \/ q.op = "rename" \/ (q.op = "open" /\ q.at = "read")
  PROVE  Own(q)
  BY DEF Own, Idle

LEMMA OwnStep == TypeOK /\ OwnInv /\ [Next]_vars => OwnInv'
<1> SUFFICES ASSUME TypeOK, OwnInv, [Next]_vars PROVE OwnInv'
  OBVIOUS
<1> USE DEF OwnInv
<1>1. ASSUME NEW r \in Requests, Moves(r), Own(req'[r]), UNCHANGED <<flds, page>>
      PROVE  OwnInv'
  BY <1>1, OwnKept DEF OwnForm, OwnFields, LastOf, page
<1>2. ASSUME NEW r \in Requests, Rename(r) \/ RenameChecks(r) \/ RenameWrites(r) \/ Fail(r)
      PROVE  OwnInv'
  <2>1. UNCHANGED <<flds, page>> /\ (RenameWrites(r) \/ Fail(r) => Finish(r))
    BY <1>2 DEF Rename, RenameChecks, RenameWrites, Fail, data
  <2>2. Moves(r) /\ (req'[r] = Idle \/ req'[r].op = "rename")
    BY <1>2, <2>1, RenameMoves, RenameChecksMoves, Stops
  <2> QED
    BY <1>1, <2>1, <2>2, OwnUnless
<1>3. ASSUME NEW r \in Requests, Open(r) PROVE OwnInv'
  <2>1. UNCHANGED <<flds, editing>> /\ form' = <<>>
    BY <1>3 DEF Open, data
  <2>2. OwnRequests'
    BY <1>3, OpenMoves, OwnKept, OwnUnless
  <2>3. OwnForm'
    BY <2>1 DEF OwnForm, LastOf
  <2> QED
    BY <2>1, <2>2, <2>3 DEF OwnFields
<1>4. ASSUME NEW r \in Requests, OpenReads(r) PROVE OwnInv'
  <2>1. UNCHANGED <<flds, page>>
    BY <1>4 DEF OpenReads, data
  <2>2. Moves(r) /\ Own(req'[r])
    <3>1. CASE req'[r] = Idle
      BY <1>4, <3>1, OpenReadsMoves, OwnUnless
    <3>2. CASE req'[r] # Idle
      <4>1. PICK n \in Notes :
              /\ req'[r].op = "open" /\ req'[r].at = "answered" /\ req'[r].note = n
              /\ req'[r].values = Split(n) /\ Len(Split(n)) = Fields[n]
        BY <1>4, <3>2, OpenReadsMoves
      <4>2. OfNote(Split(n), n)
        BY ReadParts DEF TypeOK, TypeData, OwnFields
      <4> QED
        BY <1>4, <4>1, <4>2, OpenReadsMoves DEF Own
    <3> QED
      BY <3>1, <3>2
  <2> QED
    BY <1>1, <2>1, <2>2
<1>5. ASSUME NEW r \in Requests, OpenArrives(r) PROVE OwnInv'
  <2>1. /\ req[r].op = "open" /\ req[r].at = "answered" /\ Finish(r) /\ UNCHANGED flds
        /\ editing' = req[r].note /\ form' = form \o req[r].values
    BY <1>5 DEF OpenArrives, At, data
  <2>2. OwnRequests'
    BY <2>1, Stops, OwnKept, OwnUnless
  <2>3. req[r].note \in Notes /\ req[r].values \in Seq(Values)
    BY <2>1, FitsNow, Kinds, KindFields DEF TypeOK
  <2>4. Len(req[r].values) = Fields[req[r].note] /\ OfNote(req[r].values, req[r].note)
    BY <2>1 DEF OwnRequests, Own
  <2>5. LastOf(form \o req[r].values, req[r].note)
    BY <2>3, <2>4, ArrivedOwn DEF TypeOK
  <2>6. OwnForm'
    BY <2>1, <2>5 DEF OwnForm, LastOf
  <2> QED
    BY <2>1, <2>2, <2>6 DEF OwnFields
<1>6. ASSUME NEW r \in Requests, Save(r) PROVE OwnInv'
  <2>1. UNCHANGED <<flds, page>>
    BY <1>6 DEF Save, data
  <2>2. /\ Moves(r) /\ editing \in Notes /\ editing # 0 /\ made + 1 \in 0..MaxRequests
        /\ req'[r].op = "save" /\ req'[r].at = "check" /\ req'[r].note = editing
        /\ SentFrom(req'[r].values)
    BY <1>6, SaveMoves
  <2>3. LastOf(req'[r].values, editing)
    BY <2>2, SentOwn DEF TypeOK
  <2>4. Own(req'[r])
    BY <2>2, <2>3 DEF Own, Passed
  <2> QED
    BY <1>1, <2>1, <2>2, <2>4
<1>7. ASSUME NEW r \in Requests, SaveChecks(r) PROVE OwnInv'
  <2>1. UNCHANGED <<flds, page>>
    BY <1>7 DEF SaveChecks, data
  <2>2. CASE req'[r] = Idle
    BY <1>1, <1>7, <2>1, <2>2, SaveChecksMoves, OwnUnless
  <2>3. CASE req'[r] # Idle
    <3>1. /\ Moves(r) /\ req'[r].op = "save" /\ req'[r].note = req[r].note
          /\ req'[r].values = req[r].values /\ req[r].op = "save"
          /\ Len(req[r].values) = Fields[req[r].note]
      BY <1>7, <2>3, SaveChecksMoves
    <3>2. LastOf(req[r].values, req[r].note)
      BY <3>1 DEF OwnRequests, Own
    <3>3. Own(req'[r])
      BY <3>1, <3>2 DEF Own
    <3> QED
      BY <1>1, <2>1, <3>1, <3>3
  <2> QED
    BY <2>2, <2>3
<1>8. ASSUME NEW r \in Requests, SaveWrites(r) PROVE OwnInv'
  <2> DEFINE n == req[r].note
             values == req[r].values
  <2>1. /\ Moves(r) /\ req'[r] = Idle /\ req[r].op = "save" /\ req[r].at = "write"
        /\ values \in Seq(Seq(Parts)) /\ flds'[n] = JoinFieldValues(values)
        /\ \A m \in Notes : m # n => flds'[m] = flds[m]
    BY <1>8, SaveStores
  <2>2. UNCHANGED page
    BY <1>8 DEF SaveWrites
  <2>3. LastOf(values, n) /\ Len(values) = Fields[n]
    BY <2>1 DEF OwnRequests, Own, Passed
  <2>4. Len(values) \in Nat
    BY <2>1, LenProperties
  <2>5. OfNote(values, n)
    BY <2>3, <2>4 DEF LastOf, OfNote
  <2>6. \A i \in DOMAIN flds'[n] : flds'[n][i].of = n
    BY <2>1, <2>5, JoinOwn
  <2>7. OwnFields'
    BY <2>1, <2>6 DEF OwnFields
  <2>8. OwnRequests'
    BY <2>1, OwnKept, OwnUnless
  <2> QED
    BY <2>2, <2>7, <2>8 DEF OwnForm, LastOf, page
<1>9. ASSUME NEW r \in Requests, Clean(r) PROVE OwnInv'
  <2>1. UNCHANGED <<flds, page>>
    BY <1>9 DEF Clean, data
  <2>2. Own(req'[r])
    BY <1>9, CleanMoves DEF Own
  <2> QED
    BY <1>1, <1>9, <2>1, <2>2, CleanMoves
<1>10. ASSUME NEW r \in Requests, CleanReads(r) PROVE OwnInv'
  <2>1. UNCHANGED <<flds, page>>
    BY <1>10 DEF CleanReads, data
  <2>2. CASE req'[r] = Idle
    BY <1>1, <1>10, <2>1, <2>2, CleanReadsMoves, OwnUnless
  <2>3. CASE req'[r] # Idle
    <3>1. Moves(r) /\ req'[r].op = "clean" /\ req[r].op = "clean"
      BY <1>10, <2>3, CleanReadsMoves
    <3>2. PICK n \in Notes : req'[r].plan = Planned(req[r].plan, n)
      BY <1>10, <2>3, CleanReadsMoves
    <3>3. OfNote(CleanNote(n), n)
      BY ReadParts DEF TypeOK, TypeData, OwnFields
    <3>4. \A m \in DOMAIN req[r].plan : OfNote(req[r].plan[m], m)
      BY <3>1 DEF OwnRequests, Own
    <3>5. \A m \in DOMAIN req'[r].plan : OfNote(req'[r].plan[m], m)
      BY <3>2, <3>3, <3>4, PlannedFacts
    <3>6. Own(req'[r])
      BY <3>1, <3>5 DEF Own
    <3> QED
      BY <1>1, <2>1, <3>1, <3>6
  <2> QED
    BY <2>2, <2>3
<1>11. ASSUME NEW r \in Requests, CleanPlanned(r) PROVE OwnInv'
  <2>1. UNCHANGED <<flds, page>>
    BY <1>11 DEF CleanPlanned, data
  <2>2. Moves(r) /\ req'[r].op = "clean" /\ req[r].op = "clean" /\ req'[r].plan = req[r].plan
    BY <1>11, CleanPlannedMoves
  <2>3. Own(req'[r])
    BY <2>2 DEF OwnRequests, Own
  <2> QED
    BY <1>1, <2>1, <2>2, <2>3
<1>12. ASSUME NEW r \in Requests, CleanWrites(r) PROVE OwnInv'
  <2>1. UNCHANGED page
    BY <1>12 DEF CleanWrites
  <2>2. Moves(r) /\ req'[r] = Idle /\ req[r].op = "clean"
    BY <1>12, CleanStores
  <2>3. \A n \in DOMAIN req[r].plan : OfNote(req[r].plan[n], n)
    BY <2>2 DEF OwnRequests, Own
  <2>4. ASSUME NEW n \in Notes PROVE \A i \in DOMAIN flds'[n] : flds'[n][i].of = n
    <3>1. CASE n \in DOMAIN req[r].plan
      <4>1. req[r].plan[n] \in Seq(Seq(Parts)) /\ flds'[n] = JoinFieldValues(req[r].plan[n])
        BY <1>12, <3>1, CleanStores
      <4> QED
        BY <2>3, <3>1, <4>1, JoinOwn
    <3>2. CASE n \notin DOMAIN req[r].plan
      BY <1>12, <3>2, CleanStores DEF OwnFields
    <3> QED
      BY <3>1, <3>2
  <2>5. OwnFields'
    BY <2>4 DEF OwnFields
  <2>6. OwnRequests'
    BY <2>2, OwnKept, OwnUnless
  <2> QED
    BY <2>1, <2>5, <2>6 DEF OwnForm, LastOf, page
<1>13. ASSUME NEW r \in Requests, Backup(r) PROVE OwnInv'
  <2>1. UNCHANGED <<flds, page>>
    BY <1>13 DEF Backup, data
  <2>2. Own(req[r]) /\ Moves(r) /\ req[r].at = "backup"
    BY <1>13, BackupMoves DEF OwnRequests
  <2>3. CASE req'[r].op = "rename"
    BY <1>1, <2>1, <2>2, <2>3, OwnUnless
  <2>4. CASE req'[r].op = "save"
    <3>1. req[r].op = "save" /\ req'[r].note = req[r].note /\ req'[r].values = req[r].values
      BY <1>13, <2>4, BackupMoves
    <3>2. Own(req'[r])
      BY <2>2, <2>4, <3>1 DEF Own, Passed
    <3> QED
      BY <1>1, <2>1, <2>2, <3>2
  <2>5. CASE req'[r].op = "clean"
    <3>1. req[r].op = "clean" /\ req'[r].plan = req[r].plan
      BY <1>13, <2>5, BackupMoves
    <3>2. Own(req'[r])
      BY <2>2, <2>5, <3>1 DEF Own
    <3> QED
      BY <1>1, <2>1, <2>2, <3>2
  <2> QED
    BY <1>13, <2>3, <2>4, <2>5, BackupMoves
<1>14. CASE Hide
  <2>1. editing' = 0 /\ UNCHANGED <<flds, req>>
    BY <1>14 DEF Hide, data
  <2>2. OwnForm'
    BY <2>1 DEF OwnForm
  <2>3. OwnRequests'
    BY <2>1, OwnSame
  <2>4. OwnFields'
    BY <2>1 DEF OwnFields
  <2> QED
    BY <2>2, <2>3, <2>4
<1>15. CASE UNCHANGED vars
  <2>1. UNCHANGED <<flds, req, editing, form>>
    BY <1>15 DEF vars, data, page
  <2>2. OwnForm'
    BY <2>1 DEF OwnForm, LastOf
  <2>3. OwnRequests'
    BY <2>1, OwnSame
  <2>4. OwnFields'
    BY <2>1 DEF OwnFields
  <2> QED
    BY <2>2, <2>3, <2>4
<1> QED
  BY <1>2, <1>3, <1>4, <1>5, <1>6, <1>7, <1>8, <1>9, <1>10, <1>11, <1>12, <1>13, <1>14, <1>15 DEF Next, Quiet

LEMMA OwnStart == Init => OwnInv
<1> SUFFICES ASSUME Init PROVE OwnInv
  OBVIOUS
<1>1. ASSUME NEW n \in Notes, NEW i \in DOMAIN flds[n] PROVE flds[n][i].of = n
  BY <1>1, InitFields, LenProperties
<1>2. \A r \in Requests : Own(req[r])
  BY OwnUnless DEF Init
<1> QED
  BY <1>1, <1>2 DEF Init, OwnInv, OwnForm, OwnRequests, OwnFields

\* What is typed into a box of one note is never stored in another, although openEditor
\* adds the boxes of whichever answers arrive: the boxes of the note that is saved come
\* last, so a mixture has more boxes than the note has fields, and MapFields refuses it.
THEOREM FieldsStayOwn == Spec => []OwnFields
<1>1. Init => TypeOK /\ Checked /\ OwnInv
  BY InitTypes, OwnStart
<1>2. TypeOK /\ Checked /\ OwnInv /\ [Next]_vars => (TypeOK /\ Checked /\ OwnInv)'
  BY TypeStep, OwnStep
<1>3. OwnInv => OwnFields
  BY DEF OwnInv
<1> QED
  BY <1>1, <1>2, <1>3, PTL DEF Spec

-----------------------------------------------------------------------------
(* The number of fields.                                                   *)

SingleInv == SingleParts /\ FieldsMatchModel

LEMMA SingleUnless ==
  ASSUME NEW q, q = Idle \/ q.op = "rename" \/ (q.op = "open" /\ q.at = "read")
  PROVE  Single(q)
  BY DEF Single, Idle

\* The form of what is stored of values that are one part each.
LEMMA JoinSingle ==
  ASSUME NEW values \in Seq(Seq(Parts)), OnePart(values)
  PROVE  NoEntity(JoinFieldValues(values)) /\ Len(JoinFieldValues(values)) = Len(values)
<1> DEFINE v == JoinFieldValues(values)
<1>1. v \in Seq(Parts) /\ PartsIn(v) = PartsOf(values) /\ Len(v) = Len(values)
  BY JoinFacts DEF OnePart
<1>2. \A p \in PartsOf(values) : p.form # "entity"
  <2>1. \A i \in 1..Len(values) : 1..Len(values[i]) = {1} /\ values[i][1].form # "entity"
    <3>1. \A i \in 1..Len(values) : Len(values[i]) = 1 /\ values[i][1].form # "entity"
      BY DEF OnePart
    <3>2. 1..1 = {1}
      OBVIOUS
    <3> QED
      BY <3>1, <3>2
  <2> QED
    BY <2>1 DEF PartsOf
<1> HIDE DEF v
<1>3. \A i \in 1..Len(v) : v[i].form # "entity"
  BY <1>1, <1>2 DEF PartsIn
<1> QED
  BY <1>1, <1>3 DEF v, NoEntity

LEMMA SentSingle ==
  ASSUME TypePage, OnePart(form), embeds = FALSE, made + 1 \in 0..MaxRequests,
         NEW values, SentFrom(values)
  PROVE  OnePart(values)
<1>1. SUFFICES ASSUME NEW i \in 1..Len(values)
               PROVE  Len(values[i]) = 1 /\ values[i][1].form # "entity"
  BY DEF OnePart
<1>2. i \in 1..Len(form)
  BY <1>1, SentFacts
<1>3. CASE values[i] = form[i]
  BY <1>2, <1>3 DEF OnePart
<1>4. ASSUME NEW n \in Notes, values[i] \in Typed(n)
      PROVE  Len(values[i]) = 1 /\ values[i][1].form # "entity"
  BY <1>4, TypedFacts
<1> QED
  BY <1>2, <1>3, <1>4, SentFacts

LEMMA ArrivedSingle ==
  ASSUME TypePage, OnePart(form), NEW values \in Seq(Values), OnePart(values)
  PROVE  OnePart(form \o values)
<1>1. form \in Seq(Values) /\ Len(form) \in Nat /\ Len(values) \in Nat
  BY LenProperties DEF TypePage
<1>2. /\ Len(form \o values) = Len(form) + Len(values)
      /\ \A i \in 1..Len(form) + Len(values) :
           (form \o values)[i] = IF i =< Len(form) THEN form[i] ELSE values[i - Len(form)]
  BY <1>1, ConcatProperties
<1>3. ASSUME NEW i \in 1..Len(form \o values)
      PROVE  \/ \E k \in 1..Len(form) : (form \o values)[i] = form[k]
             \/ \E k \in 1..Len(values) : (form \o values)[i] = values[k]
  <2>1. CASE i =< Len(form)
    BY <1>1, <1>2, <2>1
  <2>2. CASE ~ (i =< Len(form))
    <3>1. i - Len(form) \in 1..Len(values)
      BY <1>1, <1>2, <2>2
    <3> QED
      BY <1>2, <2>2, <3>1
  <2> QED
    BY <2>1, <2>2
<1> QED
  BY <1>3 DEF OnePart

\* Without separators: what is said of the notes, the page and the requests.
LEMMA SingleKept ==
  ASSUME SingleInv, embeds' = FALSE, embeds = FALSE, NEW r \in Requests, Moves(r), Single(req'[r]),
         OnePart(form'), \A n \in Notes : NoEntity(flds'[n]) /\ Len(flds'[n]) = Fields[n]
  PROVE  SingleInv'
<1>1. ASSUME NEW q \in Requests PROVE Single(req'[q])
  <2>1. CASE q = r
    BY <2>1
  <2>2. CASE q # r
    BY <2>2 DEF SingleInv, SingleParts, Moves, Others
  <2> QED
    BY <2>1, <2>2
<1> QED
  BY <1>1 DEF SingleInv, SingleParts, FieldsMatchModel, Single, OnePart, NoEntity

LEMMA SingleStep == TypeOK /\ OwnInv /\ SingleInv /\ [Next]_vars => SingleInv'
<1> SUFFICES ASSUME TypeOK, OwnInv, SingleInv, [Next]_vars PROVE SingleInv'
  OBVIOUS
<1>1. embeds' = embeds
  BY DEF Next, Rename, RenameChecks, RenameWrites, Open, OpenReads, OpenArrives, Save, SaveChecks,
     SaveWrites, Clean, CleanReads, CleanPlanned, CleanWrites, Backup, Fail, Hide, Quiet, vars
<1>2. SUFFICES ASSUME embeds = FALSE PROVE SingleInv'
  BY <1>1 DEF SingleInv, SingleParts, FieldsMatchModel, TypeOK, TypeData
<1>3. /\ embeds' = FALSE /\ OnePart(form)
      /\ \A n \in Notes : NoEntity(flds[n]) /\ Len(flds[n]) = Fields[n]
      /\ \A r \in Requests : Single(req[r])
  BY <1>1, <1>2 DEF SingleInv, SingleParts, FieldsMatchModel
<1>4. ASSUME NEW r \in Requests, Moves(r), Single(req'[r]), UNCHANGED <<flds, form>>
      PROVE  SingleInv'
  <2>1. OnePart(form') /\ \A n \in Notes : NoEntity(flds'[n]) /\ Len(flds'[n]) = Fields[n]
    BY <1>3, <1>4
  <2> QED
    BY <1>2, <1>3, <1>4, <2>1, SingleKept
<1>5. ASSUME NEW r \in Requests, Rename(r) \/ RenameChecks(r) \/ RenameWrites(r) \/ Fail(r)
      PROVE  SingleInv'
  <2>1. UNCHANGED <<flds, form>> /\ (RenameWrites(r) \/ Fail(r) => Finish(r))
    BY <1>5 DEF Rename, RenameChecks, RenameWrites, Fail, data, page
  <2>2. Moves(r) /\ (req'[r] = Idle \/ req'[r].op = "rename")
    BY <1>5, <2>1, RenameMoves, RenameChecksMoves, Stops
  <2> QED
    BY <1>4, <2>1, <2>2, SingleUnless
<1>6. ASSUME NEW r \in Requests, Open(r) PROVE SingleInv'
  <2>1. UNCHANGED flds /\ form' = <<>>
    BY <1>6 DEF Open, data
  <2>2. OnePart(form')
    BY <2>1 DEF OnePart
  <2>3. Moves(r) /\ Single(req'[r])
    BY <1>6, OpenMoves, SingleUnless
  <2>4. \A n \in Notes : NoEntity(flds'[n]) /\ Len(flds'[n]) = Fields[n]
    BY <1>3, <2>1
  <2> QED
    BY <1>2, <1>3, <2>2, <2>3, <2>4, SingleKept
<1>7. ASSUME NEW r \in Requests, OpenReads(r) PROVE SingleInv'
  <2>1. UNCHANGED <<flds, form>>
    BY <1>7 DEF OpenReads, data, page
  <2>2. CASE req'[r] = Idle
    BY <1>4, <1>7, <2>1, <2>2, OpenReadsMoves, SingleUnless
  <2>3. CASE req'[r] # Idle
    <3>1. PICK n \in Notes :
            req'[r].op = "open" /\ req'[r].at = "answered" /\ req'[r].values = Split(n)
      BY <1>7, <2>3, OpenReadsMoves
    <3>2. OnePart(Split(n))
      BY <1>3, ReadSingle DEF TypeOK, TypeData
    <3>3. Single(req'[r])
      BY <3>1, <3>2 DEF Single
    <3> QED
      BY <1>4, <1>7, <2>1, <3>3, OpenReadsMoves
  <2> QED
    BY <2>2, <2>3
<1>8. ASSUME NEW r \in Requests, OpenArrives(r) PROVE SingleInv'
  <2>1. /\ req[r].op = "open" /\ req[r].at = "answered" /\ Finish(r) /\ UNCHANGED flds
        /\ form' = form \o req[r].values
    BY <1>8 DEF OpenArrives, At, data
  <2>2. req[r].values \in Seq(Values)
    BY <2>1, FitsNow, Kinds, KindFields DEF TypeOK
  <2>3. OnePart(req[r].values)
    BY <1>3, <2>1 DEF Single
  <2>4. OnePart(form')
    BY <1>3, <2>1, <2>2, <2>3, ArrivedSingle DEF TypeOK
  <2>5. Moves(r) /\ Single(req'[r])
    BY <2>1, Stops, SingleUnless
  <2>6. \A n \in Notes : NoEntity(flds'[n]) /\ Len(flds'[n]) = Fields[n]
    BY <1>3, <2>1
  <2> QED
    BY <1>2, <1>3, <2>4, <2>5, <2>6, SingleKept
<1>9. ASSUME NEW r \in Requests, Save(r) PROVE SingleInv'
  <2>1. UNCHANGED <<flds, form>>
    BY <1>9 DEF Save, data, page
  <2>2. Moves(r) /\ made + 1 \in 0..MaxRequests /\ req'[r].op = "save" /\ SentFrom(req'[r].values)
    BY <1>9, SaveMoves
  <2>3. OnePart(req'[r].values)
    BY <1>2, <1>3, <2>2, SentSingle DEF TypeOK
  <2> QED
    BY <1>4, <2>1, <2>2, <2>3 DEF Single
<1>10. ASSUME NEW r \in Requests, SaveChecks(r) PROVE SingleInv'
  <2>1. UNCHANGED <<flds, form>>
    BY <1>10 DEF SaveChecks, data, page
  <2>2. CASE req'[r] = Idle
    BY <1>4, <1>10, <2>1, <2>2, SaveChecksMoves, SingleUnless
  <2>3. CASE req'[r] # Idle
    <3>1. Moves(r) /\ req'[r].op = "save" /\ req'[r].values = req[r].values /\ req[r].op = "save"
      BY <1>10, <2>3, SaveChecksMoves
    <3>2. Single(req'[r])
      BY <1>3, <3>1 DEF Single
    <3> QED
      BY <1>4, <2>1, <3>1, <3>2
  <2> QED
    BY <2>2, <2>3
<1>11. ASSUME NEW r \in Requests, Clean(r) PROVE SingleInv'
  <2>1. UNCHANGED <<flds, form>>
    BY <1>11 DEF Clean, data, page
  <2>2. Single(req'[r])
    BY <1>11, CleanMoves DEF Single
  <2> QED
    BY <1>4, <1>11, <2>1, <2>2, CleanMoves
<1>12. ASSUME NEW r \in Requests, CleanReads(r) PROVE SingleInv'
  <2>1. UNCHANGED <<flds, form>>
    BY <1>12 DEF CleanReads, data, page
  <2>2. CASE req'[r] = Idle
    BY <1>4, <1>12, <2>1, <2>2, CleanReadsMoves, SingleUnless
  <2>3. CASE req'[r] # Idle
    <3>1. Moves(r) /\ req'[r].op = "clean" /\ req[r].op = "clean"
      BY <1>12, <2>3, CleanReadsMoves
    <3>2. PICK n \in Notes : req'[r].plan = Planned(req[r].plan, n)
      BY <1>12, <2>3, CleanReadsMoves
    <3>3. OnePart(CleanNote(n))
      BY <1>3, ReadSingle DEF TypeOK, TypeData
    <3>4. \A m \in DOMAIN req[r].plan : OnePart(req[r].plan[m])
      BY <1>3, <3>1 DEF Single
    <3>5. \A m \in DOMAIN req'[r].plan : OnePart(req'[r].plan[m])
      BY <3>2, <3>3, <3>4, PlannedFacts
    <3>6. Single(req'[r])
      BY <3>1, <3>5 DEF Single
    <3> QED
      BY <1>4, <2>1, <3>1, <3>6
  <2> QED
    BY <2>2, <2>3
<1>13. ASSUME NEW r \in Requests, CleanPlanned(r) PROVE SingleInv'
  <2>1. UNCHANGED <<flds, form>>
    BY <1>13 DEF CleanPlanned, data, page
  <2>2. Moves(r) /\ req'[r].op = "clean" /\ req[r].op = "clean" /\ req'[r].plan = req[r].plan
    BY <1>13, CleanPlannedMoves
  <2>3. Single(req'[r])
    BY <1>3, <2>2 DEF Single
  <2> QED
    BY <1>4, <2>1, <2>2, <2>3
<1>14. ASSUME NEW r \in Requests, Backup(r) PROVE SingleInv'
  <2>1. UNCHANGED <<flds, form>>
    BY <1>14 DEF Backup, data, page
  <2>2. Moves(r) /\ Single(req[r])
    BY <1>3, <1>14, BackupMoves
  <2>3. CASE req'[r].op = "rename"
    BY <1>4, <2>1, <2>2, <2>3, SingleUnless
  <2>4. CASE req'[r].op = "save"
    <3>1. req[r].op = "save" /\ req'[r].values = req[r].values
      BY <1>14, <2>4, BackupMoves
    <3>2. Single(req'[r])
      BY <2>2, <2>4, <3>1 DEF Single
    <3> QED
      BY <1>4, <2>1, <2>2, <3>2
  <2>5. CASE req'[r].op = "clean"
    <3>1. req[r].op = "clean" /\ req'[r].plan = req[r].plan
      BY <1>14, <2>5, BackupMoves
    <3>2. Single(req'[r])
      BY <2>2, <2>5, <3>1 DEF Single
    <3> QED
      BY <1>4, <2>1, <2>2, <3>2
  <2> QED
    BY <1>14, <2>3, <2>4, <2>5, BackupMoves
<1>15. ASSUME NEW r \in Requests, SaveWrites(r) PROVE SingleInv'
  <2> DEFINE n == req[r].note
             values == req[r].values
  <2>1. /\ Moves(r) /\ req'[r] = Idle /\ req[r].op = "save" /\ req[r].at = "write"
        /\ values \in Seq(Seq(Parts)) /\ flds'[n] = JoinFieldValues(values)
        /\ \A m \in Notes : m # n => flds'[m] = flds[m]
    BY <1>15, SaveStores
  <2>2. form' = form
    BY <1>15 DEF SaveWrites, page
  <2>3. OnePart(values)
    BY <1>3, <2>1 DEF Single
  <2>4. Len(values) = Fields[n]
    BY <2>1 DEF OwnInv, OwnRequests, Own, Passed
  <2>5. NoEntity(flds'[n]) /\ Len(flds'[n]) = Fields[n]
    BY <2>1, <2>3, <2>4, JoinSingle
  <2>6. \A m \in Notes : NoEntity(flds'[m]) /\ Len(flds'[m]) = Fields[m]
    BY <1>3, <2>1, <2>5
  <2>7. OnePart(form') /\ Single(req'[r])
    BY <1>3, <2>1, <2>2, SingleUnless
  <2> QED
    BY <1>2, <1>3, <2>1, <2>6, <2>7, SingleKept
<1>16. ASSUME NEW r \in Requests, CleanWrites(r) PROVE SingleInv'
  <2>1. Moves(r) /\ req'[r] = Idle /\ req[r].op = "clean"
    BY <1>16, CleanStores
  <2>2. form' = form
    BY <1>16 DEF CleanWrites, page
  <2>3. ASSUME NEW n \in Notes PROVE NoEntity(flds'[n]) /\ Len(flds'[n]) = Fields[n]
    <3>1. CASE n \in DOMAIN req[r].plan
      <4>1. /\ req[r].plan[n] \in Seq(Seq(Parts)) /\ Len(req[r].plan[n]) = Fields[n]
            /\ flds'[n] = JoinFieldValues(req[r].plan[n])
        BY <1>16, <3>1, CleanStores
      <4>2. OnePart(req[r].plan[n])
        BY <1>3, <2>1, <3>1 DEF Single
      <4> QED
        BY <4>1, <4>2, JoinSingle
    <3>2. CASE n \notin DOMAIN req[r].plan
      BY <1>3, <1>16, <3>2, CleanStores
    <3> QED
      BY <3>1, <3>2
  <2>4. OnePart(form') /\ Single(req'[r])
    BY <1>3, <2>1, <2>2, SingleUnless
  <2> QED
    BY <1>2, <1>3, <2>1, <2>3, <2>4, SingleKept
<1>17. CASE Hide
  <2>1. form' = <<>> /\ UNCHANGED <<flds, req>>
    BY <1>17 DEF Hide, data
  <2>2. OnePart(form')
    BY <2>1 DEF OnePart
  <2> QED
    BY <1>3, <2>1, <2>2 DEF SingleInv, SingleParts, FieldsMatchModel, Single, OnePart, NoEntity
<1>18. CASE UNCHANGED vars
  BY <1>3, <1>18 DEF vars, data, page, SingleInv, SingleParts, FieldsMatchModel, Single, OnePart, NoEntity
<1> QED
  BY <1>5, <1>6, <1>7, <1>8, <1>9, <1>10, <1>11, <1>12, <1>13, <1>14, <1>15, <1>16, <1>17, <1>18 DEF Next, Quiet

LEMMA SingleStart == Init => SingleInv
<1> SUFFICES ASSUME Init PROVE SingleInv
  OBVIOUS
<1>1. \A n \in Notes : NoEntity(flds[n]) /\ Len(flds[n]) = Fields[n]
  BY InitFields DEF NoEntity
<1>2. \A r \in Requests : Single(req[r])
  BY SingleUnless DEF Init
<1>3. OnePart(form)
  BY DEF Init, OnePart
<1> QED
  BY <1>1, <1>2, <1>3 DEF SingleInv, SingleParts, FieldsMatchModel

\* As long as nobody types the separator, or an entity of it, every note keeps the number
\* of fields of its model: UpdateNote's count is then enough (services.go:144,
\* policies.go:40).
THEOREM FieldsStayCounted == Spec => []FieldsMatchModel
<1>1. Init => TypeOK /\ Checked /\ OwnInv /\ SingleInv
  BY InitTypes, OwnStart, SingleStart
<1>2. TypeOK /\ Checked /\ OwnInv /\ SingleInv /\ [Next]_vars => (TypeOK /\ Checked /\ OwnInv /\ SingleInv)'
  BY TypeStep, OwnStep, SingleStep
<1>3. SingleInv => FieldsMatchModel
  BY DEF SingleInv
<1> QED
  BY <1>1, <1>2, <1>3, PTL DEF Spec

-----------------------------------------------------------------------------
(* What was saved last.                                                    *)

SavedInv == SavedStays /\ PlanKeeps

LEMMA WritersInParts ==
  ASSUME NEW values \in Seq(Seq(Parts))
  PROVE  Writers(JoinFieldValues(values)) = WritersOf(values)
<1> DEFINE v == JoinFieldValues(values)
<1>1. v \in Seq(Parts) /\ PartsIn(v) = PartsOf(values)
  BY JoinFacts
<1> HIDE DEF v
<1>2. DOMAIN v = 1..Len(v)
  BY <1>1, LenProperties
<1>3. Writers(v) = {p.by : p \in PartsIn(v)}
  BY <1>2 DEF Writers, PartsIn
<1>4. Writers(v) = WritersOf(values)
  BY <1>1, <1>3 DEF WritersOf
<1> QED
  BY <1>4 DEF v

\* A request that is not a run keeps what was saved.
LEMMA KeepsUnless ==
  ASSUME NEW q, q = Idle \/ q.op # "clean" \/ DOMAIN q.plan = {}
  PROVE  Keeps(q)
  BY DEF Keeps, Idle

LEMMA SavedKept ==
  ASSUME SavedInv, NEW r \in Requests, Moves(r), Keeps(req'[r]), UNCHANGED <<flds, saved>>
  PROVE  SavedInv'
<1>1. ASSUME NEW q \in Requests PROVE Keeps(req'[q])
  <2>1. CASE q = r
    BY <2>1
  <2>2. CASE q # r
    BY <2>2 DEF SavedInv, PlanKeeps, Moves, Others
  <2> QED
    BY <2>1, <2>2
<1> QED
  BY <1>1 DEF SavedInv, SavedStays, PlanKeeps, Keeps

LEMMA SavedStep == TypeOK /\ OwnInv /\ SavedInv /\ [Next]_vars => SavedInv'
<1> SUFFICES ASSUME TypeOK, OwnInv, SavedInv, [Next]_vars PROVE SavedInv'
  OBVIOUS
<1>1. ASSUME NEW r \in Requests,
             \/ Rename(r) \/ RenameChecks(r) \/ RenameWrites(r) \/ Open(r) \/ OpenReads(r)
             \/ OpenArrives(r) \/ Save(r) \/ SaveChecks(r) \/ Clean(r) \/ Fail(r)
      PROVE  SavedInv'
  <2>1. /\ UNCHANGED <<flds, saved>>
        /\ RenameWrites(r) \/ OpenArrives(r) \/ Fail(r) => Finish(r)
    BY <1>1 DEF Rename, RenameChecks, RenameWrites, Open, OpenReads, OpenArrives, Save, SaveChecks,
       Clean, Fail, data, ghost
  <2>2. Moves(r) /\ (req'[r] = Idle \/ req'[r].op # "clean" \/ DOMAIN req'[r].plan = {})
    BY <1>1, <2>1, Stops, RenameMoves, RenameChecksMoves, OpenMoves, OpenReadsMoves, SaveMoves,
       SaveChecksMoves, CleanMoves
  <2> QED
    BY <2>1, <2>2, KeepsUnless, SavedKept
<1>2. ASSUME NEW r \in Requests, CleanReads(r) PROVE SavedInv'
  <2>1. UNCHANGED <<flds, saved>> /\ Moves(r)
    BY <1>2, CleanReadsMoves DEF CleanReads, data, ghost
  <2>2. CASE req'[r] = Idle
    BY <2>1, <2>2, KeepsUnless, SavedKept
  <2>3. CASE req'[r] # Idle
    <3>1. req'[r].op = "clean" /\ req[r].op = "clean"
      BY <1>2, <2>3, CleanReadsMoves
    <3>2. PICK n \in Notes : req'[r].plan = Planned(req[r].plan, n)
      BY <1>2, <2>3, CleanReadsMoves
    <3>3. WritersOf(CleanNote(n)) = Writers(flds[n])
      BY ReadParts DEF TypeOK, TypeData, OwnInv, OwnFields
    <3>4. saved[n].calm => WritersOf(CleanNote(n)) = saved[n].by
      BY <3>3 DEF SavedInv, SavedStays
    <3>5. \A m \in DOMAIN req[r].plan : saved[m].calm => WritersOf(req[r].plan[m]) = saved[m].by
      BY <3>1 DEF SavedInv, PlanKeeps, Keeps
    <3>6. \A m \in DOMAIN req'[r].plan : saved[m].calm => WritersOf(req'[r].plan[m]) = saved[m].by
      BY <3>2, <3>4, <3>5, PlannedFacts
    <3>7. Keeps(req'[r])
      BY <3>6 DEF Keeps
    <3> QED
      BY <2>1, <3>7, SavedKept
  <2> QED
    BY <2>2, <2>3
<1>3. ASSUME NEW r \in Requests, CleanPlanned(r) PROVE SavedInv'
  <2>1. UNCHANGED <<flds, saved>>
    BY <1>3 DEF CleanPlanned, data, ghost
  <2>2. Moves(r) /\ req'[r].op = "clean" /\ req[r].op = "clean" /\ req'[r].plan = req[r].plan
    BY <1>3, CleanPlannedMoves
  <2>3. Keeps(req'[r])
    BY <2>2 DEF SavedInv, PlanKeeps, Keeps
  <2> QED
    BY <2>1, <2>2, <2>3, SavedKept
<1>4. ASSUME NEW r \in Requests, Backup(r) PROVE SavedInv'
  <2>1. UNCHANGED <<flds, saved>> /\ Moves(r)
    BY <1>4, BackupMoves DEF Backup, data, ghost
  <2>2. CASE req'[r].op # "clean"
    BY <2>1, <2>2, KeepsUnless, SavedKept
  <2>3. CASE req'[r].op = "clean"
    <3>1. req[r].op = "clean" /\ req'[r].plan = req[r].plan
      BY <1>4, <2>3, BackupMoves
    <3>2. Keeps(req'[r])
      BY <2>3, <3>1 DEF SavedInv, PlanKeeps, Keeps
    <3> QED
      BY <2>1, <3>2, SavedKept
  <2> QED
    BY <2>2, <2>3
<1>5. ASSUME NEW r \in Requests, SaveWrites(r) PROVE SavedInv'
  <2> DEFINE n == req[r].note
             v == JoinFieldValues(req[r].values)
  <2>1. /\ Moves(r) /\ req'[r] = Idle /\ flds'[n] = v
        /\ saved'[n] = [by |-> Writers(v), calm |-> ~\E q \in Requests : Runs(q)]
        /\ \A m \in Notes : m # n => flds'[m] = flds[m] /\ saved'[m] = saved[m]
    BY <1>5, SaveStores
  <2> HIDE DEF v
  <2>2. SavedStays'
    <3>1. Writers(flds'[n]) = saved'[n].by
      BY <2>1
    <3>2. \A m \in Notes : m # n => (saved'[m].calm => Writers(flds'[m]) = saved'[m].by)
      BY <2>1 DEF SavedInv, SavedStays
    <3> QED
      BY <3>1, <3>2 DEF SavedStays, Writers
  <2>3. ASSUME NEW q \in Requests, req'[q].op = "clean", NEW m \in DOMAIN req'[q].plan, saved'[m].calm
        PROVE  WritersOf(req'[q].plan[m]) = saved'[m].by
    <3>1. q # r /\ req'[q] = req[q]
      BY <2>1, <2>3 DEF Idle, Moves, Others
    <3>2. req[q] # Idle
      BY <2>3, <3>1 DEF Idle
    <3>3. Runs(q)
      BY <2>3, <3>1, <3>2 DEF Runs
    <3>4. m # n
      <4>1. saved'[n].calm = ~\E p \in Requests : Runs(p)
        BY <2>1
      <4>2. ~ saved'[n].calm
        BY <3>3, <4>1
      <4> QED
        BY <2>3, <4>2
    <3>5. m \in Notes
      BY <2>3, <3>1, FitsNow, Kinds, KindFields DEF TypeOK
    <3> QED
      BY <2>1, <2>3, <3>1, <3>4, <3>5 DEF SavedInv, PlanKeeps, Keeps
  <2>4. PlanKeeps'
    BY <2>3 DEF PlanKeeps, Keeps
  <2> QED
    BY <2>2, <2>4 DEF SavedInv
<1>6. ASSUME NEW r \in Requests, CleanWrites(r) PROVE SavedInv'
  <2>1. saved' = saved
    BY <1>6 DEF CleanWrites, ghost
  <2>2. Moves(r) /\ req'[r] = Idle /\ req[r].op = "clean"
    BY <1>6, CleanStores
  <2>3. ASSUME NEW n \in Notes, saved[n].calm PROVE Writers(flds'[n]) = saved[n].by
    <3>1. CASE n \in DOMAIN req[r].plan
      <4>1. req[r].plan[n] \in Seq(Seq(Parts)) /\ flds'[n] = JoinFieldValues(req[r].plan[n])
        BY <1>6, <3>1, CleanStores
      <4>2. WritersOf(req[r].plan[n]) = saved[n].by
        BY <2>2, <2>3, <3>1 DEF SavedInv, PlanKeeps, Keeps
      <4> QED
        BY <4>1, <4>2, WritersInParts
    <3>2. CASE n \notin DOMAIN req[r].plan
      BY <1>6, <2>3, <3>2, CleanStores DEF SavedInv, SavedStays
    <3> QED
      BY <3>1, <3>2
  <2>4. SavedStays'
    BY <2>1, <2>3 DEF SavedStays, Writers
  <2>5. \A q \in Requests : Keeps(req'[q])
    <3>1. Keeps(req'[r])
      BY <2>2, KeepsUnless
    <3>2. \A q \in Requests : q # r => Keeps(req'[q])
      BY <2>2 DEF SavedInv, PlanKeeps, Moves, Others
    <3> QED
      BY <3>1, <3>2
  <2>6. PlanKeeps'
    BY <2>1, <2>5 DEF PlanKeeps, Keeps
  <2> QED
    BY <2>4, <2>6 DEF SavedInv
<1>7. CASE Hide
  BY <1>7 DEF Hide, data, ghost, SavedInv, SavedStays, PlanKeeps, Keeps
<1>8. CASE UNCHANGED vars
  BY <1>8 DEF vars, data, ghost, SavedInv, SavedStays, PlanKeeps, Keeps
<1> QED
  BY <1>1, <1>2, <1>3, <1>4, <1>5, <1>6, <1>7, <1>8 DEF Next, Quiet

LEMMA SavedStart == Init => SavedInv
<1> SUFFICES ASSUME Init PROVE SavedInv
  OBVIOUS
<1>1. ASSUME NEW n \in Notes PROVE Writers(flds[n]) = saved[n].by
  <2>1. Fields[n] \in Nat \ {0}
    BY CollectionAssumption
  <2>2. DOMAIN flds[n] = 1..Fields[n] /\ \A i \in DOMAIN flds[n] : flds[n][i].by = 0
    BY InitFields, LenProperties
  <2>3. 1 \in 1..Fields[n]
    BY <2>1
  <2>4. Writers(flds[n]) = {0}
    BY <2>2, <2>3 DEF Writers
  <2> QED
    BY <2>4 DEF Init
<1>2. SavedStays
  BY <1>1 DEF SavedStays
<1>3. PlanKeeps
  BY KeepsUnless DEF Init, PlanKeeps
<1> QED
  BY <1>2, <1>3 DEF SavedInv

\* Texts that were saved while no cleaner run was under way are in their note until the
\* next save: a run that begins later reads them before it plans anything, and a run
\* that another run overtakes writes texts of the same writers (services.go:135, 186).
THEOREM SavesStay == Spec => []SavedStays
<1>1. Init => TypeOK /\ Checked /\ OwnInv /\ SavedInv
  BY InitTypes, OwnStart, SavedStart
<1>2. TypeOK /\ Checked /\ OwnInv /\ SavedInv /\ [Next]_vars => (TypeOK /\ Checked /\ OwnInv /\ SavedInv)'
  BY TypeStep, OwnStep, SavedStep
<1>3. SavedInv => SavedStays
  BY DEF SavedInv
<1> QED
  BY <1>1, <1>2, <1>3, PTL DEF Spec
=============================================================================
