-------------------------- MODULE CommandLineProofs --------------------------
(***************************************************************************)
(* Proofs about CommandLine, for any input a person or a file may give.    *)
(***************************************************************************)
EXTENDS CommandLine, FiniteSetTheorems, SequenceTheorems, WellFoundedInduction, TLAPS

\* What Append needs to know of the lines an operation has read.
IsSequence(s) == \E S : s \in Seq(S)

Inv == TypeOK /\ IsSequence(took)

\* One more line makes lines that are not empty.
LEMMA AppendNotEmpty ==
  ASSUME NEW s, NEW e, IsSequence(s)
  PROVE  IsSequence(Append(s, e)) /\ Append(s, e) # <<>>
<1>1. PICK S : s \in Seq(S)
  BY DEF IsSequence
<1>2. s \in Seq(S \union {e}) /\ e \in S \union {e}
  BY <1>1
<1>3. Append(s, e) \in Seq(S \union {e}) /\ Append(s, e)[Len(s) + 1] = e /\ Len(Append(s, e)) = Len(s) + 1
  BY <1>2
<1>4. Len(s) \in Nat /\ Len(Append(s, e)) # 0
  BY <1>1, <1>3
<1>5. Append(s, e) # <<>>
  BY <1>4
<1> QED
  BY <1>3, <1>5 DEF IsSequence

\* No line at all is a sequence too.
LEMMA EmptySequence == IsSequence(<<>>)
<1>1. <<>> \in Seq({})
  OBVIOUS
<1> QED
  BY <1>1 DEF IsSequence

\* The line of the option is the first an operation has.
LEMMA OneLine == ASSUME NEW e PROVE IsSequence(<<e>>) /\ <<e>> # <<>>
<1>1. <<e>> \in Seq({e}) /\ <<e>> # <<>>
  OBVIOUS
<1> QED
  BY <1>1 DEF IsSequence

\* An option names an operation, never the absence of one.
LEMMA NamedOperation == \A o \in Options : Operation[o] # "none"
BY DEF Options, Operation

\* The program starts at the menu.
LEMMA InitInv == Init => Inv
<1> SUFFICES ASSUME Init PROVE Inv
  OBVIOUS
<1>1. 0 \in 0..NoteFields
  BY CommandLineAssumption
<1>2. pc = "menu" /\ op = "none" /\ took = <<>> /\ left = 0 /\ result = "running"
  BY DEF Init
<1>3. terminal \in BOOLEAN /\ forceApply \in BOOLEAN /\ interrupted \in BOOLEAN /\ astray \in BOOLEAN
  BY DEF Init
<1> QED
  BY <1>1, <1>2, <1>3, EmptySequence DEF Inv, TypeOK

-----------------------------------------------------------------------------
(* Each step of the program and of the world.                              *)

\* To end leaves nothing that the menu has to know of.
LEMMA EndInv ==
  ASSUME Inv, pc # "ended", NEW why \in {"exit", "eof", "interrupted", "broken"}, End(why)
  PROVE  Inv'
BY DEF Inv, TypeOK, End, setting

\* The way back to the menu, whatever was read.
LEMMA BackInv ==
  ASSUME Inv, pc # "ended", Back, setting' = setting, interrupted' = interrupted,
         result' = result, astray' \in BOOLEAN
  PROVE  Inv'
BY EmptySequence, CommandLineAssumption DEF Inv, TypeOK, Back, setting

\* An operation ends, whether it has read its lines or not.
LEMMA DoneInv ==
  ASSUME Inv, pc # "ended", NEW lines, Done(lines) \/ Astray, setting' = setting,
         interrupted' = interrupted, result' = result
  PROVE  Inv'
<1>1. Back /\ astray' \in BOOLEAN
  BY DEF Done, Astray, Inv, TypeOK
<1> QED
  BY <1>1, BackInv

\* An option starts its operation with its own line, ends the program or is refused.
LEMMA ChooseInv == ASSUME Inv, Choose PROVE Inv'
<1> DEFINE line == Head(buffer)
<1>1. pc = "option" /\ setting' = setting /\ interrupted' = interrupted
  BY DEF Choose, setting
<1>2. CASE line.text = "0"
  <2>1. pc' = "ended" /\ result' = "exit" /\ UNCHANGED <<op, took, left, astray>>
    BY <1>2 DEF Choose
  <2> QED
    BY <1>1, <2>1 DEF Inv, TypeOK, setting
<1>3. CASE line.text # "0" /\ line.text \in Options
  <2>1. /\ op' = Operation[line.text] /\ took' = <<As(line, "option")>>
        /\ pc' \in {"call", "input"}
        /\ UNCHANGED <<left, astray, result>>
    BY <1>3 DEF Choose
  <2>2. IsSequence(took') /\ took' # <<>>
    BY <2>1, OneLine
  <2>3. op' # "none" /\ op' \in {Operation[o] : o \in Options}
    BY <1>3, <2>1, NamedOperation
  <2> QED
    BY <1>1, <2>1, <2>2, <2>3 DEF Inv, TypeOK, setting
<1>4. CASE line.text # "0" /\ line.text \notin Options
  <2>1. Back /\ UNCHANGED <<astray, result>>
    BY <1>4 DEF Choose
  <2>2. astray' \in BOOLEAN
    BY <2>1 DEF Inv, TypeOK
  <2> QED
    BY <1>1, <2>1, <2>2, BackInv
<1> QED
  BY <1>2, <1>3, <1>4

\* A line is taken for a number or as it is, or ends the operation.
LEMMA InputInv == ASSUME Inv, Input PROVE Inv'
<1> DEFINE line == Head(buffer)
           role == Asks(op)[Len(took)]
           lines == Append(took, As(line, role))
<1>1. pc = "input" /\ setting' = setting /\ interrupted' = interrupted /\ result' = result
  BY DEF Input, setting
<1>2. CASE role = "line" \/ IsNumber(line.text)
  <2>1. took' = lines /\ UNCHANGED <<op, left, astray>>
    BY <1>2 DEF Input
  <2>2. pc' = "input" \/ pc' = AfterInput
    BY <1>2 DEF Input
  <2>3. pc' \in {"input", "begin", "call"} /\ (pc' = "begin" => op \in {"editNote", "apply"})
    BY <2>2 DEF AfterInput
  <2>4. IsSequence(took') /\ took' # <<>>
    BY <2>1, AppendNotEmpty DEF Inv
  <2> QED
    BY <1>1, <2>1, <2>3, <2>4 DEF Inv, TypeOK, setting
<1>3. CASE ~(role = "line" \/ IsNumber(line.text))
  <2>1. Astray \/ Done(lines)
    BY <1>3 DEF Input
  <2> QED
    BY <1>1, <2>1, DoneInv
<1> QED
  BY <1>2, <1>3

\* What an operation finds before it reads on ends it, or leads to its fields or the question.
LEMMA BeginInv == ASSUME Inv, Begin PROVE Inv'
<1>1. pc = "begin" /\ setting' = setting /\ interrupted' = interrupted /\ result' = result
  BY DEF Begin, setting
<1>2. op \in {"editNote", "apply"} /\ took # <<>>
  BY <1>1 DEF Inv, TypeOK
<1>3. CASE /\ pc' \in {"text", "call", "confirm"} /\ (pc' = "text" => op = "editNote")
           /\ left' = (IF op = "editNote" THEN NoteFields ELSE 0)
           /\ UNCHANGED <<op, took, astray>>
  <2>1. left' \in 0..NoteFields /\ (pc' = "text" => left' > 0)
    BY <1>3, CommandLineAssumption
  <2> QED
    BY <1>1, <1>2, <1>3, <2>1 DEF Inv, TypeOK, setting
<1>4. CASE Astray \/ Done(took)
  BY <1>1, <1>4, DoneInv
<1> QED
  BY <1>2, <1>3, <1>4 DEF Begin

\* A line of a field, or its end, after which the next field or none is awaited.
LEMMA TextInv == ASSUME Inv, Text PROVE Inv'
<1> DEFINE line == Head(buffer)
<1>1. pc = "text" /\ setting' = setting /\ interrupted' = interrupted /\ result' = result
  BY DEF Text, setting
<1>2. left \in 1..NoteFields /\ op # "none" /\ IsSequence(took)
  BY <1>1, CommandLineAssumption DEF Inv, TypeOK
<1>3. CASE line.text = ".end"
  <2>1. /\ took' = Append(took, As(line, "end")) /\ left' = left - 1
        /\ pc' = (IF left = 1 THEN "call" ELSE "text")
        /\ UNCHANGED <<op, astray>>
    BY <1>3 DEF Text
  <2>2. left' \in 0..NoteFields /\ (pc' = "text" => left' > 0) /\ pc' \in {"call", "text"}
    BY <1>2, <2>1, CommandLineAssumption
  <2>3. IsSequence(took') /\ took' # <<>>
    BY <1>2, <2>1, AppendNotEmpty
  <2> QED
    BY <1>1, <1>2, <2>1, <2>2, <2>3 DEF Inv, TypeOK, setting
<1>4. CASE line.text # ".end" /\ Decodes(line.text)
  <2>1. took' = Append(took, As(line, "text")) /\ UNCHANGED <<pc, op, left, astray>>
    BY <1>4 DEF Text
  <2>2. IsSequence(took') /\ took' # <<>>
    BY <1>2, <2>1, AppendNotEmpty
  <2> QED
    BY <1>1, <2>1, <2>2 DEF Inv, TypeOK, setting
<1>5. CASE line.text # ".end" /\ ~Decodes(line.text)
  <2>1. Astray
    BY <1>5 DEF Text
  <2> QED
    BY <1>1, <2>1, DoneInv
<1> QED
  BY <1>3, <1>4, <1>5

\* The answer to the question, or none.
LEMMA ConfirmInv == ASSUME Inv, Confirm PROVE Inv'
<1> DEFINE lines == Append(took, As(rest[1], "answer"))
<1>1. pc = "confirm" /\ setting' = setting /\ interrupted' = interrupted /\ result' = result
  BY DEF Confirm, setting
<1>2. CASE pc' = "call" /\ took' = lines /\ UNCHANGED <<op, left, astray>>
  <2>1. IsSequence(took') /\ took' # <<>>
    BY <1>2, AppendNotEmpty DEF Inv
  <2> QED
    BY <1>1, <1>2, <2>1 DEF Inv, TypeOK, setting
<1>3. CASE Done(lines)
  BY <1>1, <1>3, DoneInv
<1>4. CASE Back /\ UNCHANGED astray
  <2>1. astray' \in BOOLEAN
    BY <1>4 DEF Inv, TypeOK
  <2> QED
    BY <1>1, <1>4, <2>1, BackInv
<1> QED
  BY <1>2, <1>3, <1>4 DEF Confirm

\* Every step keeps the invariant.
LEMMA NextInv == Inv /\ [Next]_vars => Inv'
<1> SUFFICES ASSUME Inv, [Next]_vars PROVE Inv'
  OBVIOUS
<1>1. CASE MenuTop
  <2>1. CASE interrupted
    BY <1>1, <2>1, EndInv DEF MenuTop
  <2>2. CASE ~interrupted
    BY <1>1, <2>2 DEF MenuTop, Inv, TypeOK, setting
  <2> QED
    BY <2>1, <2>2
<1>2. CASE Fill
  BY <1>2 DEF Fill, Inv, TypeOK, setting
<1>3. CASE EndOfInput
  BY <1>3, EndInv DEF EndOfInput, Reading
<1>4. CASE Choose
  BY <1>4, ChooseInv
<1>5. CASE Input
  BY <1>5, InputInv
<1>6. CASE Begin
  BY <1>6, BeginInv
<1>7. CASE Text
  BY <1>7, TextInv
<1>8. CASE Confirm
  BY <1>8, ConfirmInv
<1>9. CASE Call
  <2>1. pc # "ended" /\ Done(took) /\ setting' = setting /\ UNCHANGED <<interrupted, result>>
    BY <1>9 DEF Call, setting
  <2> QED
    BY <2>1, DoneInv
<1>10. CASE Interrupt
  BY <1>10 DEF Interrupt, Inv, TypeOK, setting
<1>11. CASE OutputFails
  BY <1>11, EndInv DEF OutputFails
<1>12. CASE UNCHANGED vars
  BY <1>12 DEF vars, Inv, TypeOK, setting
<1> QED
  BY <1>1, <1>2, <1>3, <1>4, <1>5, <1>6, <1>7, <1>8, <1>9, <1>10, <1>11, <1>12 DEF Next, Step

\* Whatever is read, in whatever chunks, and wherever a read, a write or a signal ends
\* an operation: the menu never has one at hand, an operation that reads on has lines
\* of its own, no field is awaited that the note has not, and the program has ended
\* exactly when it has a reason to.
THEOREM TypeCorrect == Spec => []TypeOK
<1>1. Inv => TypeOK
  BY DEF Inv
<1> QED
  BY InitInv, NextInv, <1>1, PTL DEF Spec

-----------------------------------------------------------------------------
(* Induction as a fact about sets of numbers.                              *)

\* A set of numbers that is not empty has a least element.
LEMMA LeastNumber ==
  ASSUME NEW T \in SUBSET Nat, T # {}
  PROVE  \E m \in T : \A k \in T : m =< k
<1>1. PICK n \in T : TRUE
  OBVIOUS
<1>. DEFINE U == {1..k : k \in T}
<1>2. U \subseteq FiniteSubsetsOf(Nat) /\ U # {}
  BY <1>1, FS_Interval DEF FiniteSubsetsOf
<1>3. IsWellFoundedOn(StrictSubsetOrdering(Nat), FiniteSubsetsOf(Nat))
  BY FS_StrictSubsetOrderingWellFounded
<1>4. PICK x \in U : \A y \in U : ~ (<<y, x>> \in StrictSubsetOrdering(Nat))
  BY <1>2, <1>3, WFMin
<1>5. PICK m \in T : x = 1..m
  BY <1>4
<1>6. ASSUME NEW k \in T
      PROVE  m =< k
  <2>1. SUFFICES ASSUME k < m PROVE FALSE
    OBVIOUS
  <2>2. 1..k \in U /\ 1..k \in SUBSET Nat /\ 1..m \in SUBSET Nat
    OBVIOUS
  <2>3. 1..k \subseteq 1..m /\ 1..k # 1..m
    BY <2>1
  <2>. QED BY <1>4, <1>5, <2>2, <2>3 DEF StrictSubsetOrdering
<1>. QED BY <1>6

\* A set that holds zero and with every number the next holds all of them.
LEMMA Induction ==
  ASSUME NEW S \in SUBSET Nat, 0 \in S, \A n \in S : n + 1 \in S
  PROVE  S = Nat
<1>1. SUFFICES ASSUME Nat \ S # {} PROVE FALSE
  OBVIOUS
<1>2. PICK m \in Nat \ S : \A k \in Nat \ S : m =< k
  BY <1>1, LeastNumber
<1>3. m - 1 \in Nat /\ ~ (m =< m - 1) /\ (m - 1) + 1 = m
  BY m # 0
<1>. QED BY <1>2, <1>3

-----------------------------------------------------------------------------
(* Lines: where each task's lines are.                                     *)

\* What is joined after each of the first n tasks.
Joins(f, tasks, n) ==
  f = [i \in 0..n |-> IF i = 0 THEN <<>> ELSE f[i - 1] \o tasks[i]]

\* The function that Lines defines exists.
LEMMA JoinDefined ==
  ASSUME NEW tasks, Len(tasks) \in Nat
  PROVE  \E f : Joins(f, tasks, Len(tasks)) /\ Lines(tasks) = f[Len(tasks)]
<1> USE DEF Joins
<1> DEFINE Is(f, n) == Joins(f, tasks, n)
           T == {n \in Nat : \E f : Is(f, n)}
<1>1. 0 \in T
  <2>1. Is([i \in 0..0 |-> <<>>], 0)
    OBVIOUS
  <2> QED
    BY <2>1
<1>2. ASSUME NEW n \in T PROVE n + 1 \in T
  <2>1. PICK f : Is(f, n)
    OBVIOUS
  <2> DEFINE g == [i \in 0..(n + 1) |-> IF i =< n THEN f[i] ELSE f[n] \o tasks[n + 1]]
  <2>2. /\ n \in Nat /\ 0..(n + 1) = (0..n) \union {n + 1}
        /\ ~ (n + 1 =< n) /\ (n + 1) - 1 = n /\ n + 1 # 0
    OBVIOUS
  <2>3. (\A i \in 0..n : g[i] = f[i]) /\ g[n + 1] = f[n] \o tasks[n + 1]
    <3> DEFINE last == f[n] \o tasks[n + 1]
    <3> HIDE DEF last
    <3>1. g = [i \in 0..(n + 1) |-> IF i =< n THEN f[i] ELSE last]
      BY DEF last
    <3>2. n \in Nat /\ n + 1 \in 0..(n + 1) /\ \A i \in 0..n : i \in 0..(n + 1) /\ i =< n
      BY <2>2
    <3>3. (\A i \in 0..n : g[i] = f[i]) /\ g[n + 1] = last
      <4> HIDE DEF g
      <4> QED
        BY <2>2, <3>1, <3>2
    <3> QED
      BY <3>3 DEF last
  <2>4. \A i \in (0..n) \ {0} : i - 1 \in 0..n
    OBVIOUS
  <2>5. ASSUME NEW i \in 0..(n + 1)
        PROVE  g[i] = IF i = 0 THEN <<>> ELSE g[i - 1] \o tasks[i]
    <3>1. CASE i \in 0..n
      <4>1. f[i] = IF i = 0 THEN <<>> ELSE f[i - 1] \o tasks[i]
        BY <2>1, <3>1
      <4>2. g[i] = f[i] /\ (i # 0 => g[i - 1] = f[i - 1])
        BY <2>3, <2>4, <3>1
      <4> QED
        BY <4>1, <4>2
    <3>2. CASE i = n + 1
      <4>1. g[i - 1] = f[n] /\ i # 0
        BY <2>2, <2>3, <3>2
      <4> QED
        BY <2>3, <3>2, <4>1
    <3> QED
      BY <2>2, <3>1, <3>2
  <2>6. Is(g, n + 1)
    BY <2>5
  <2> HIDE DEF g, Is
  <2> QED
    BY <2>2, <2>6
<1>3. Len(tasks) \in T
  BY <1>1, <1>2, Induction
<1> HIDE DEF T
<1>4. \E f : Is(f, Len(tasks))
  BY <1>3 DEF T
<1> QED
  BY <1>4 DEF Lines

\* The lines of task i begin after the first off[i - 1] lines.
Placed(off, tasks, all) ==
  /\ off \in [0..Len(tasks) -> Nat] /\ off[0] = 0
  /\ \A i \in 1..Len(tasks) : off[i] = off[i - 1] + Len(tasks[i]) /\ off[i] =< Len(all)
  /\ \A i \in 1..Len(tasks) : \A j \in 1..Len(tasks[i]) : all[off[i - 1] + j] = tasks[i][j]

LEMMA LinesPlaced ==
  ASSUME NEW S, NEW tasks \in Seq(Seq(S))
  PROVE  /\ Lines(tasks) \in Seq(S)
         /\ \E off : Placed(off, tasks, Lines(tasks)) /\ Len(Lines(tasks)) = off[Len(tasks)]
<1> DEFINE N == Len(tasks)
<1>0. N \in Nat /\ \A k \in 1..N : tasks[k] \in Seq(S) /\ Len(tasks[k]) \in Nat
  BY LenProperties, ElementOfSeq
<1>1. PICK f : Joins(f, tasks, N) /\ Lines(tasks) = f[N]
  BY <1>0, JoinDefined
<1>2. /\ f[0] = <<>>
      /\ \A n \in Nat : n + 1 =< N => f[n + 1] = f[n] \o tasks[n + 1]
  <2>1. \A i \in 0..N : f[i] = IF i = 0 THEN <<>> ELSE f[i - 1] \o tasks[i]
    BY <1>1 DEF Joins
  <2>2. 0 \in 0..N /\ \A n \in Nat : n + 1 =< N => n + 1 \in 0..N /\ n + 1 # 0 /\ (n + 1) - 1 = n
    BY <1>0
  <2> QED
    BY <2>1, <2>2
<1> DEFINE Good(n) == /\ f[n] \in Seq(S) /\ Len(f[n]) \in Nat
                      /\ \A i \in 1..n : /\ Len(f[i]) = Len(f[i - 1]) + Len(tasks[i])
                                         /\ Len(f[i - 1]) \in Nat /\ Len(f[i]) =< Len(f[n])
                                         /\ \A j \in 1..Len(tasks[i]) :
                                              f[n][Len(f[i - 1]) + j] = tasks[i][j]
           T == {n \in Nat : n =< N => Good(n)}
<1>3. 0 \in T
  <2>1. <<>> \in Seq(S) /\ Len(<<>>) = 0 /\ 1..0 = {}
    OBVIOUS
  <2>2. Good(0)
    BY <1>2, <2>1
  <2> HIDE DEF Good
  <2> QED
    BY <2>2
<1>4. ASSUME NEW n \in T PROVE n + 1 \in T
  <2> HIDE DEF Good
  <2>1. n \in Nat /\ n + 1 \in Nat
    OBVIOUS
  <2>2. CASE ~ (n + 1 =< N)
    BY <2>1, <2>2
  <2>3. CASE n + 1 =< N
    <3> DEFINE s == f[n]
               t == tasks[n + 1]
    <3>0. n + 1 \in 1..N /\ (n + 1) - 1 = n /\ n =< N
      BY <1>0, <2>1, <2>3
    <3>1. Good(n)
      BY <3>0
    <3>2. f[n + 1] = s \o t /\ s \in Seq(S) /\ t \in Seq(S) /\ Len(s) \in Nat /\ Len(t) \in Nat
      BY <1>0, <1>2, <2>1, <2>3, <3>0, <3>1 DEF Good
    <3>3. /\ s \o t \in Seq(S) /\ Len(s \o t) = Len(s) + Len(t)
          /\ \A i \in 1..Len(s) + Len(t) :
               (s \o t)[i] = IF i =< Len(s) THEN s[i] ELSE t[i - Len(s)]
      <4> HIDE DEF s, t
      <4> QED
        BY <3>2, ConcatProperties
    <3>4. ASSUME NEW i \in 1..n
          PROVE  /\ Len(f[i]) = Len(f[i - 1]) + Len(tasks[i])
                 /\ Len(f[i - 1]) \in Nat /\ Len(f[i]) =< Len(f[n + 1])
                 /\ \A j \in 1..Len(tasks[i]) : f[n + 1][Len(f[i - 1]) + j] = tasks[i][j]
      <4> DEFINE a == Len(f[i - 1])
                 b == Len(tasks[i])
                 c == Len(f[i])
                 d == Len(s)
                 e == Len(t)
      <4>1. /\ c = a + b /\ a \in Nat /\ c =< d
            /\ \A j \in 1..b : s[a + j] = tasks[i][j]
        BY <3>1 DEF Good
      <4>2. i \in 1..N
        BY <1>0, <2>1, <3>0
      <4>3. b \in Nat /\ d \in Nat /\ e \in Nat
        BY <1>0, <3>2, <4>2
      <4>4. Len(f[n + 1]) = d + e
        BY <3>2, <3>3
      <4>5. \A k \in 1..d + e : f[n + 1][k] = IF k =< d THEN s[k] ELSE t[k - d]
        BY <3>2, <3>3
      <4>6. c = Len(f[i]) /\ a = Len(f[i - 1]) /\ b = Len(tasks[i])
        OBVIOUS
      <4> HIDE DEF a, b, c, d, e
      <4>7. \A j \in 1..b : a + j \in 1..d + e /\ a + j =< d
        BY <4>1, <4>3
      <4>8. c =< d + e
        BY <4>1, <4>3
      <4>9. \A j \in 1..b : f[n + 1][a + j] = tasks[i][j]
        BY <4>1, <4>5, <4>7
      <4> QED
        BY <4>1, <4>4, <4>6, <4>8, <4>9
    <3>5. /\ Len(f[n + 1]) = Len(f[n]) + Len(tasks[n + 1]) /\ Len(f[n + 1]) \in Nat
          /\ \A j \in 1..Len(tasks[n + 1]) : f[n + 1][Len(f[n]) + j] = tasks[n + 1][j]
      <4> DEFINE d == Len(s)
                 e == Len(t)
      <4>1. d \in Nat /\ e \in Nat /\ Len(f[n + 1]) = d + e
        BY <3>2, <3>3
      <4>2. \A k \in 1..d + e : f[n + 1][k] = IF k =< d THEN s[k] ELSE t[k - d]
        BY <3>2, <3>3
      <4>3. d = Len(f[n]) /\ e = Len(tasks[n + 1]) /\ t = tasks[n + 1]
        OBVIOUS
      <4> HIDE DEF d, e, s, t
      <4>4. \A j \in 1..e : d + j \in 1..d + e /\ ~ (d + j =< d) /\ (d + j) - d = j
        BY <4>1
      <4>5. \A j \in 1..e : f[n + 1][d + j] = t[j]
        BY <4>2, <4>4
      <4>6. d + e \in Nat
        BY <4>1
      <4> QED
        BY <4>1, <4>3, <4>5, <4>6
    <3>6. 1..(n + 1) = (1..n) \union {n + 1}
      BY <2>1
    <3>7. Good(n + 1)
      <4> HIDE DEF s, t
      <4>1. f[n + 1] \in Seq(S) /\ Len(f[n + 1]) \in Nat
        BY <3>2, <3>3, <3>5
      <4>2. Len(f[n]) \in Nat
        BY <3>1 DEF Good
      <4>3. ASSUME NEW i \in 1..(n + 1)
            PROVE  /\ Len(f[i]) = Len(f[i - 1]) + Len(tasks[i])
                   /\ Len(f[i - 1]) \in Nat /\ Len(f[i]) =< Len(f[n + 1])
                   /\ \A j \in 1..Len(tasks[i]) : f[n + 1][Len(f[i - 1]) + j] = tasks[i][j]
        <5>1. CASE i \in 1..n
          BY <3>4, <5>1
        <5>2. CASE i = n + 1
          <6>1. i - 1 = n
            BY <3>0, <5>2
          <6>2. Len(f[n + 1]) =< Len(f[n + 1])
            <7> DEFINE a == Len(f[n + 1])
            <7>1. a \in Nat
              BY <4>1
            <7> HIDE DEF a
            <7>2. a =< a
              BY <7>1
            <7> QED
              BY <7>2 DEF a
          <6> QED
            BY <3>5, <4>2, <5>2, <6>1, <6>2
        <5> QED
          BY <3>6, <5>1, <5>2
      <4> QED
        BY <4>1, <4>3 DEF Good
    <3> QED
      BY <2>1, <3>7
  <2> QED
    BY <2>2, <2>3
<1> HIDE DEF T
<1>5. N \in T
  <2>1. T \in SUBSET Nat
    BY DEF T
  <2>2. T = Nat
    BY <1>3, <1>4, <2>1, Induction
  <2> QED
    BY <1>0, <2>2
<1>6. Good(N)
  <2> HIDE DEF Good
  <2>1. N =< N => Good(N)
    BY <1>5 DEF T
  <2> QED
    BY <1>0, <2>1
<1> DEFINE off == [i \in 0..N |-> Len(f[i])]
<1>7. Placed(off, tasks, Lines(tasks)) /\ Len(Lines(tasks)) = off[N]
  <2>1. \A i \in 1..N : i \in 0..N /\ i - 1 \in 0..N
    BY <1>0
  <2>2. Len(f[0]) = 0
    BY <1>2
  <2>3. ASSUME NEW i \in 0..N PROVE Len(f[i]) \in Nat
    <3>1. CASE i = 0
      BY <2>2, <3>1
    <3>2. CASE i \in 1..N
      BY <1>0, <1>6, <3>2
    <3> QED
      BY <3>1, <3>2
  <2>4. off \in [0..N -> Nat] /\ off[0] = 0 /\ off[N] = Len(f[N])
    BY <1>0, <2>2, <2>3
  <2>5. \A i \in 1..N : off[i] = Len(f[i]) /\ off[i - 1] = Len(f[i - 1])
    BY <2>1
  <2> HIDE DEF off
  <2> QED
    BY <1>1, <1>6, <2>4, <2>5 DEF Placed
<1> HIDE DEF off
<1> QED
  BY <1>1, <1>6, <1>7

-----------------------------------------------------------------------------
(* What is still to read.                                                  *)

\* A line of a script.
Seen == Texts \union Options \union Number \union {"", "bad", ".end", "y", "n", "0"}
Roles == {"option", "number", "line", "text", "end", "answer"}
MeantLine == [text : Seen, role : Roles]

LEMMA LineIsMeant ==
  \A t \in Seen : \A r \in Roles : /\ Meant(t, r) \in MeantLine
                                 /\ Meant(t, r).text = t /\ Meant(t, r).role = r
BY DEF Meant, MeantLine

\* The buffer and the rest hold the lines after the first pos ones, each once and in order.
AheadOf(b, r, pos, all) ==
  /\ b \in Seq(MeantLine) /\ r \in Seq(MeantLine) /\ pos \in Nat
  /\ Len(all) = pos + Len(b) + Len(r)
  /\ \A i \in 1..Len(b) : b[i] = all[pos + i]
  /\ \A i \in 1..Len(r) : r[i] = all[pos + Len(b) + i]

\* A line that the menu's reader hands out.
LEMMA HeadTaken ==
  ASSUME NEW b, NEW r, NEW pos, NEW all, AheadOf(b, r, pos, all), b # <<>>
  PROVE  /\ AheadOf(Tail(b), r, pos + 1, all) /\ Head(b) = all[pos + 1]
         /\ pos + 1 =< Len(all) /\ Len(Tail(b)) = Len(b) - 1
<1> DEFINE n == Len(b)
           m == Len(r)
           p == pos + 1
<1>1. b \in Seq(MeantLine) /\ r \in Seq(MeantLine) /\ pos \in Nat /\ n \in Nat /\ m \in Nat
  BY LenProperties DEF AheadOf
<1>2. /\ Len(all) = pos + n + m /\ (\A i \in 1..n : b[i] = all[pos + i])
      /\ \A i \in 1..m : r[i] = all[pos + n + i]
  BY DEF AheadOf
<1>3. /\ Tail(b) \in Seq(MeantLine) /\ Len(Tail(b)) = n - 1
      /\ \A i \in 1..Len(Tail(b)) : Tail(b)[i] = b[i + 1]
  BY <1>1, HeadTailProperties
<1>4. Head(b) = b[1] /\ n # 0
  BY <1>1, HeadTailProperties, EmptySeq
<1> HIDE DEF n, m
<1>5. 1 \in 1..n /\ p \in Nat /\ p =< Len(all) /\ Len(all) = p + (n - 1) + m
  BY <1>1, <1>2, <1>4
<1>6. \A i \in 1..(n - 1) : i + 1 \in 1..n /\ pos + (i + 1) = p + i
  BY <1>1
<1>7. \A i \in 1..m : pos + n + i = p + (n - 1) + i
  BY <1>1
<1>8. \A i \in 1..(n - 1) : Tail(b)[i] = all[p + i]
  BY <1>2, <1>3, <1>6
<1>9. \A i \in 1..m : r[i] = all[p + (n - 1) + i]
  BY <1>2, <1>7
<1>10. AheadOf(Tail(b), r, p, all)
  BY <1>1, <1>3, <1>5, <1>8, <1>9 DEF AheadOf, m
<1> QED
  BY <1>2, <1>3, <1>4, <1>5, <1>10 DEF n

\* What one read of the input returns.
LEMMA ChunkRead ==
  ASSUME NEW r, NEW pos, NEW all, AheadOf(<<>>, r, pos, all), NEW n \in 1..Len(r)
  PROVE  /\ AheadOf(SubSeq(r, 1, n), SubSeq(r, n + 1, Len(r)), pos, all)
         /\ Len(SubSeq(r, 1, n)) = n
<1> DEFINE m == Len(r)
           x == SubSeq(r, 1, n)
           y == SubSeq(r, n + 1, m)
<1>1. r \in Seq(MeantLine) /\ pos \in Nat /\ m \in Nat
  BY LenProperties DEF AheadOf
<1>2. Len(all) = pos + 0 + m /\ \A i \in 1..m : r[i] = all[pos + 0 + i]
  BY DEF AheadOf
<1>3. n \in Nat /\ n + 1 \in 1..(m + 1) /\ n =< m /\ n # 0
  BY <1>1
<1>4. x \in Seq(MeantLine) /\ Len(x) = n /\ \A i \in 1..n : x[i] = r[i]
  BY <1>1, <1>3, SubSeqProperties
<1>5. y \in Seq(MeantLine) /\ Len(y) = m - n /\ \A i \in 1..(m - n) : y[i] = r[n + i]
  BY <1>1, <1>3, SubSeqProperties
<1> HIDE DEF m, x, y
<1>6. /\ Len(all) = pos + n + (m - n)
      /\ \A i \in 1..n : i \in 1..m /\ pos + 0 + i = pos + i
      /\ \A i \in 1..(m - n) : n + i \in 1..m /\ pos + 0 + (n + i) = pos + n + i
  BY <1>1, <1>2, <1>3
<1>7. (\A i \in 1..n : x[i] = all[pos + i]) /\ \A i \in 1..(m - n) : y[i] = all[pos + n + i]
  BY <1>2, <1>4, <1>5, <1>6
<1>8. AheadOf(x, y, pos, all)
  BY <1>1, <1>4, <1>5, <1>6, <1>7 DEF AheadOf
<1> QED
  BY <1>4, <1>8 DEF x, y, m

\* A line that the question's reader takes from a terminal.
LEMMA AnswerTaken ==
  ASSUME NEW r, NEW pos, NEW all, AheadOf(<<>>, r, pos, all), 1 \in 1..Len(r)
  PROVE  AheadOf(<<>>, SubSeq(r, 1 + 1, Len(r)), pos + 1, all) /\ r[1] = all[pos + 1]
<1> DEFINE x == SubSeq(r, 1, 1)
           y == SubSeq(r, 1 + 1, Len(r))
<1>1. AheadOf(x, y, pos, all) /\ Len(x) = 1
  BY ChunkRead
<1> HIDE DEF x, y
<1>2. x # <<>>
  BY <1>1
<1>3. AheadOf(Tail(x), y, pos + 1, all) /\ Len(Tail(x)) = Len(x) - 1
  BY <1>1, <1>2, HeadTaken
<1>4. Tail(x) = <<>>
  <2>1. Tail(x) \in Seq(MeantLine)
    BY <1>3 DEF AheadOf
  <2>2. Len(Tail(x)) = 0
    BY <1>1, <1>3
  <2> HIDE DEF x
  <2> QED
    BY <2>1, <2>2, EmptySeq
<1>5. r[1] = all[pos + 0 + 1] /\ pos \in Nat
  BY DEF AheadOf
<1>6. pos + 0 + 1 = pos + 1
  BY <1>5
<1> QED
  BY <1>3, <1>4, <1>5, <1>6 DEF y

-----------------------------------------------------------------------------
(* The lines of a task and what each of them is for.                       *)

\* What is read after the lines that an operation asks for at once.
More(o, force) ==
  IF o = "editNote" THEN 2 * NoteFields ELSE IF o = "apply" /\ ~force THEN 1 ELSE 0

\* A task has the lines its operation asks for and no other, in the same order.
Shaped(task, force) ==
  LET o == Operation[task[1].text] IN
  /\ task \in Seq(MeantLine)
  /\ task[1].text \in Options /\ task[1].role = "option"
  /\ Len(Asks(o)) \in Nat /\ Len(task) = 1 + Len(Asks(o)) + More(o, force)
  /\ \A i \in 1..Len(Asks(o)) : task[i + 1].role = Asks(o)[i]
  /\ o \in {"editNote", "apply"} => Len(Asks(o)) = 1
  /\ o = "editNote" =>
       \A i \in 1..NoteFields :
         /\ task[2 * i + 1].role = "text" /\ task[2 * i + 1].text # ".end"
         /\ task[2 * i + 2].role = "end" /\ task[2 * i + 2].text = ".end"
  /\ o = "apply" /\ ~force => task[3].role = "answer"

LEMMA OperationNames ==
  /\ Operation["1"] = "listDecks" /\ Operation["2"] = "renameDeck" /\ Operation["3"] = "listNotes"
  /\ Operation["4"] = "editNote" /\ Operation["6"] = "dryRun" /\ Operation["7"] = "apply"
BY DEF Operation, Options

\* One line and those after it.
LEMMA LineThen ==
  ASSUME NEW S, NEW x \in S, NEW t \in Seq(S)
  PROVE  /\ <<x>> \o t \in Seq(S) /\ Len(<<x>> \o t) = 1 + Len(t) /\ (<<x>> \o t)[1] = x
         /\ \A i \in 1..Len(t) : (<<x>> \o t)[i + 1] = t[i]
<1> DEFINE s == <<x>>
           n == Len(t)
<1>1. s \in Seq(S) /\ Len(s) = 1 /\ s[1] = x /\ n \in Nat
  BY LenProperties
<1> HIDE DEF s
<1>2. /\ s \o t \in Seq(S) /\ Len(s \o t) = Len(s) + Len(t)
      /\ \A i \in 1..Len(s) + Len(t) : (s \o t)[i] = IF i =< Len(s) THEN s[i] ELSE t[i - Len(s)]
  BY <1>1, ConcatProperties
<1>3. \A i \in 1..1 + n : (s \o t)[i] = IF i =< 1 THEN s[i] ELSE t[i - 1]
  BY <1>1, <1>2
<1>4. Len(s \o t) = 1 + n
  BY <1>1, <1>2
<1> HIDE DEF n
<1>5. 1 \in 1..1 + n /\ \A i \in 1..n : i + 1 \in 1..1 + n /\ ~ (i + 1 =< 1) /\ (i + 1) - 1 = i
  BY <1>1
<1>6. (s \o t)[1] = x /\ \A i \in 1..n : (s \o t)[i + 1] = t[i]
  <2> DEFINE u == s \o t
  <2>1. \A i \in 1..1 + n : u[i] = IF i =< 1 THEN s[i] ELSE t[i - 1]
    BY <1>3
  <2> HIDE DEF u
  <2>2. u[1] = x
    BY <1>1, <1>5, <2>1
  <2>3. ASSUME NEW i \in 1..n PROVE u[i + 1] = t[i]
    <3>1. u[i + 1] = IF i + 1 =< 1 THEN s[i + 1] ELSE t[(i + 1) - 1]
      BY <1>5, <2>1
    <3> QED
      BY <1>5, <3>1
  <2> QED
    BY <2>2, <2>3 DEF u
<1> QED
  BY <1>2, <1>4, <1>6 DEF s, n

\* What each operation of a script asks for.
LEMMA AsksOf ==
  /\ Len(Asks("listDecks")) = 0
  /\ Len(Asks("renameDeck")) = 2 /\ Asks("renameDeck")[1] = "number" /\ Asks("renameDeck")[2] = "line"
  /\ Len(Asks("listNotes")) = 6 /\ Asks("listNotes")[6] = "line"
  /\ \A i \in 1..5 : Asks("listNotes")[i] = "number"
  /\ \A o \in {"editNote", "dryRun", "apply"} : Len(Asks(o)) = 1 /\ Asks(o)[1] = "number"
<1>1. /\ Asks("listDecks") = <<>> /\ Asks("renameDeck") = <<"number", "line">>
      /\ Asks("listNotes") = <<"number">> \o Page
      /\ \A o \in {"editNote", "dryRun", "apply"} : Asks(o) = <<"number">>
  BY DEF Asks
<1>2. /\ Page \in Seq({"number", "line"}) /\ Len(Page) = 5 /\ Page[5] = "line"
      /\ \A i \in 1..4 : Page[i] = "number"
  BY DEF Page
<1> DEFINE S == {"number", "line"}
           x == "number"
           all == <<x>> \o Page
<1>3. x \in S /\ Page \in Seq(S)
  BY <1>2
<1>4. Len(all) = 1 + Len(Page) /\ all[1] = x /\ \A i \in 1..Len(Page) : all[i + 1] = Page[i]
  <2> HIDE DEF S, x
  <2> QED
    BY <1>3, LineThen
<1> HIDE DEF all
<1>5. Len(all) = 6 /\ all[1] = x /\ \A i \in 1..5 : all[i + 1] = Page[i]
  BY <1>2, <1>4
<1>6. all[5 + 1] = "line" /\ all[1 + 1] = x /\ all[2 + 1] = x /\ all[3 + 1] = x /\ all[4 + 1] = x
  BY <1>2, <1>5
<1>7. all[6] = "line" /\ \A i \in 1..5 : all[i] = "number"
  BY <1>5, <1>6
<1>8. Asks("listNotes") = all
  BY <1>1 DEF all
<1> QED
  BY <1>1, <1>5, <1>7, <1>8

\* A task that is shaped, given as its option and the lines after it.
LEMMA ShapedFrom ==
  ASSUME NEW force, NEW x \in MeantLine, NEW t \in Seq(MeantLine), NEW o,
         x.role = "option", x.text \in Options, o = Operation[x.text],
         Len(Asks(o)) \in Nat, Len(t) = Len(Asks(o)) + More(o, force),
         \A i \in 1..Len(Asks(o)) : t[i].role = Asks(o)[i],
         o \in {"editNote", "apply"} => Len(Asks(o)) = 1,
         o = "editNote" =>
           \A i \in 1..NoteFields :
             /\ t[2 * i].role = "text" /\ t[2 * i].text # ".end"
             /\ t[2 * i + 1].role = "end" /\ t[2 * i + 1].text = ".end",
         o = "apply" /\ ~force => t[2].role = "answer"
  PROVE  Shaped(<<x>> \o t, force)
<1> DEFINE task == <<x>> \o t
           n == Len(t)
           a == Len(Asks(o))
           m == More(o, force)
<1>1. /\ task \in Seq(MeantLine) /\ Len(task) = 1 + n /\ task[1] = x
      /\ \A i \in 1..n : task[i + 1] = t[i]
  BY LineThen
<1>2. a \in Nat /\ m \in Nat /\ n = a + m
  BY CommandLineAssumption DEF More
<1> HIDE DEF task, n, a, m
<1>3. Len(task) = 1 + a + m /\ \A i \in 1..a : i \in 1..n
  BY <1>1, <1>2
<1>4. \A i \in 1..a : task[i + 1].role = Asks(o)[i]
  BY <1>1, <1>3 DEF a
<1>5. ASSUME o = "editNote", NEW i \in 1..NoteFields
      PROVE  /\ task[2 * i + 1].role = "text" /\ task[2 * i + 1].text # ".end"
             /\ task[2 * i + 2].role = "end" /\ task[2 * i + 2].text = ".end"
  <2>1. a = 1 /\ m = 2 * NoteFields
    BY <1>5 DEF a, m, More
  <2>2. i \in Nat /\ 2 * i \in 1..n /\ 2 * i + 1 \in 1..n /\ (2 * i + 1) + 1 = 2 * i + 2
    BY <1>2, <2>1, CommandLineAssumption
  <2>3. task[2 * i + 1] = t[2 * i] /\ task[(2 * i + 1) + 1] = t[2 * i + 1]
    BY <1>1, <2>2
  <2>4. task[2 * i + 2] = t[2 * i + 1]
    BY <2>2, <2>3
  <2>5. /\ t[2 * i].role = "text" /\ t[2 * i].text # ".end"
        /\ t[2 * i + 1].role = "end" /\ t[2 * i + 1].text = ".end"
    BY <1>5
  <2> QED
    BY <2>3, <2>4, <2>5
<1>6. ASSUME o = "apply", ~force PROVE task[3].role = "answer"
  <2>1. a = 1 /\ m = 1
    BY <1>6 DEF a, m, More
  <2>2. 2 \in 1..n /\ 2 + 1 = 3
    BY <1>2, <2>1
  <2>3. task[2 + 1] = t[2]
    BY <1>1, <2>2
  <2> QED
    BY <1>6, <2>2, <2>3
<1>7. o = Operation[task[1].text] /\ task[1].text \in Options /\ task[1].role = "option"
  BY <1>1
<1>8. Len(Asks(o)) \in Nat /\ Len(task) = 1 + Len(Asks(o)) + More(o, force)
  BY <1>2, <1>3 DEF a, m
<1>9. \A i \in 1..Len(Asks(o)) : task[i + 1].role = Asks(o)[i]
  BY <1>4 DEF a
<1>10. o = "editNote" =>
         \A i \in 1..NoteFields :
           /\ task[2 * i + 1].role = "text" /\ task[2 * i + 1].text # ".end"
           /\ task[2 * i + 2].role = "end" /\ task[2 * i + 2].text = ".end"
  BY <1>5
<1>11. Shaped(task, force)
  BY <1>1, <1>6, <1>7, <1>8, <1>9, <1>10 DEF Shaped
<1> QED
  BY <1>11 DEF task

\* A line for each field and the line that ends it.
LEMMA FieldLines ==
  ASSUME NEW n \in Nat, NEW f \in FieldTexts(n)
  PROVE  /\ f \in Seq(MeantLine) /\ Len(f) = 2 * n
         /\ \A i \in 1..n :
              /\ f[2 * i - 1].role = "text" /\ f[2 * i - 1].text # ".end"
              /\ f[2 * i].role = "end" /\ f[2 * i].text = ".end"
<1>1. PICK t \in [1..n -> Texts \union {"bad"}] :
        f = [i \in 1..2 * n |-> IF i % 2 = 1 THEN Meant(t[(i + 1) \div 2], "text")
                                ELSE Meant(".end", "end")]
  BY DEF FieldTexts
<1> DEFINE L(i) == IF i % 2 = 1 THEN Meant(t[(i + 1) \div 2], "text") ELSE Meant(".end", "end")
<1>2. ASSUME NEW i \in 1..2 * n PROVE L(i) \in MeantLine
  <2>1. CASE i % 2 = 1
    <3>1. (i + 1) \div 2 \in 1..n
      BY <2>1
    <3>2. t[(i + 1) \div 2] \in Seen /\ "text" \in Roles
      BY <3>1 DEF Seen, Roles
    <3> HIDE DEF L
    <3>3. L(i) = Meant(t[(i + 1) \div 2], "text")
      BY <2>1 DEF L
    <3> QED
      BY <3>2, <3>3, LineIsMeant
  <2>2. CASE i % 2 # 1
    <3>1. ".end" \in Seen /\ "end" \in Roles
      BY DEF Seen, Roles
    <3> QED
      BY <2>2, <3>1, LineIsMeant
  <2> QED
    BY <2>1, <2>2
<1>3. 2 * n \in Nat
  OBVIOUS
<1>4. f \in [1..2 * n -> MeantLine]
  <2> HIDE DEF L
  <2>1. f = [i \in 1..2 * n |-> L(i)]
    BY <1>1 DEF L
  <2> QED
    BY <1>2, <2>1
<1>5. f \in Seq(MeantLine) /\ Len(f) = 2 * n
  <2> DEFINE m == 2 * n
  <2>1. m \in Nat /\ f \in [1..m -> MeantLine]
    BY <1>3, <1>4
  <2> HIDE DEF m
  <2>2. f \in Seq(MeantLine) /\ Len(f) = m
    BY <2>1
  <2> QED
    BY <2>2 DEF m
<1>6. ASSUME NEW i \in 1..n
      PROVE  /\ f[2 * i - 1].role = "text" /\ f[2 * i - 1].text # ".end"
             /\ f[2 * i].role = "end" /\ f[2 * i].text = ".end"
  <2>1. /\ 2 * i - 1 \in 1..2 * n /\ 2 * i \in 1..2 * n /\ (2 * i - 1) % 2 = 1 /\ (2 * i) % 2 # 1
        /\ ((2 * i - 1) + 1) \div 2 = i
    OBVIOUS
  <2>2. f[2 * i - 1] = L(2 * i - 1) /\ f[2 * i] = L(2 * i)
    BY <1>1, <2>1
  <2>3. f[2 * i - 1] = Meant(t[i], "text") /\ f[2 * i] = Meant(".end", "end")
    BY <2>1, <2>2
  <2>4. t[i] \in Texts \union {"bad"} /\ t[i] # ".end"
    BY CommandLineAssumption
  <2> QED
    BY <2>3, <2>4 DEF Meant
<1> QED
  BY <1>5, <1>6

\* Two lines, one after the other.
LEMMA TwoLines ==
  ASSUME NEW S, NEW a \in S, NEW b \in S
  PROVE  <<a>> \o <<b>> = <<a, b>>
<1> DEFINE u == <<a>> \o <<b>>
           v == <<a, b>>
<1>1. u \in Seq(S) /\ v \in Seq(S) /\ Len(u) = 2 /\ Len(v) = 2
  OBVIOUS
<1>2. u[1] = v[1] /\ u[2] = v[2]
  OBVIOUS
<1> HIDE DEF u, v
<1>3. \A i \in 1..Len(u) : u[i] = v[i]
  BY <1>1, <1>2
<1>4. u = v
  BY <1>1, <1>3, SeqEqual
<1> QED
  BY <1>4 DEF u, v

\* Every task a script may hold is shaped like that.
LEMMA TasksShaped ==
  ASSUME NEW force \in BOOLEAN, NEW task \in Tasks(force)
  PROVE  Shaped(task, force)
<1> DEFINE M(v, r) == Meant(v, r)
<1>1. /\ Number \subseteq Seen /\ Texts \subseteq Seen /\ Options \subseteq Seen
      /\ {"y", "n", "1", ""} \subseteq Seen
      /\ {"option", "number", "line", "answer"} \subseteq Roles
  BY DEF Seen, Roles, Number
<1>2. {"1", "2", "3", "4", "6", "7"} \subseteq Options
  BY DEF Options
<1>3. \A v \in Options : /\ M(v, "option") \in MeantLine /\ M(v, "option").text = v
                         /\ M(v, "option").role = "option" /\ Option(v) = <<M(v, "option")>>
  <2>1. \A v \in Options : Option(v) = <<M(v, "option")>>
    BY DEF Option
  <2> HIDE DEF M
  <2>2. \A v \in Options : v \in Seen /\ "option" \in Roles
    BY <1>1
  <2> QED
    BY <2>1, <2>2, LineIsMeant DEF M
<1>4. \A v \in Seen : \A r \in {"number", "line", "answer"} :
        M(v, r) \in MeantLine /\ M(v, r).role = r
  <2> HIDE DEF M
  <2>1. \A r \in {"number", "line", "answer"} : r \in Roles
    BY <1>1
  <2> QED
    BY <2>1, LineIsMeant DEF M
<1> HIDE DEF M
<1>5. CASE task = Option("1")
  <2> DEFINE t == <<>>
             x == M("1", "option")
  <2>1. t \in Seq(MeantLine) /\ Len(t) = 0 /\ 1..0 = {}
    OBVIOUS
  <2>2. x \in MeantLine /\ x.role = "option" /\ x.text = "1" /\ x.text \in Options
    BY <1>2, <1>3
  <2>3. Operation[x.text] = "listDecks" /\ Len(Asks("listDecks")) = 0
    BY <2>2, OperationNames, AsksOf
  <2>4. More("listDecks", force) = 0
    BY DEF More
  <2> HIDE DEF t, x
  <2>5. Shaped(<<x>> \o t, force)
    <3>1. /\ Len(Asks("listDecks")) \in Nat
          /\ Len(t) = Len(Asks("listDecks")) + More("listDecks", force)
          /\ \A i \in 1..Len(Asks("listDecks")) : t[i].role = Asks("listDecks")[i]
      BY <2>1, <2>3, <2>4
    <3> QED
      BY <2>1, <2>2, <2>3, <3>1, ShapedFrom
  <2>6. task = <<x>>
    BY <1>2, <1>3, <1>5 DEF x
  <2>7. <<x>> \o t = <<x>>
    BY <2>2 DEF t
  <2> QED
    BY <2>5, <2>6, <2>7
<1>6. ASSUME NEW n \in Number, NEW v \in Texts,
             task = RenameTask(n, v)
      PROVE  Shaped(task, force)
  <2> DEFINE a == M(n, "number")
             b == M(v, "line")
             t == <<a, b>>
             x == M("2", "option")
  <2>1. a \in MeantLine /\ b \in MeantLine /\ a.role = "number" /\ b.role = "line"
    BY <1>1, <1>4
  <2>2. x \in MeantLine /\ x.role = "option" /\ x.text = "2" /\ x.text \in Options
    BY <1>2, <1>3
  <2>3. Operation[x.text] = "renameDeck" /\ More("renameDeck", force) = 0
    BY <2>2, OperationNames DEF More
  <2>4. task = <<x>> \o t
    BY <1>2, <1>3, <1>6 DEF M, RenameTask
  <2> HIDE DEF a, b, x
  <2>5. t \in Seq(MeantLine) /\ Len(t) = 2 /\ t[1].role = "number" /\ t[2].role = "line"
    BY <2>1
  <2> HIDE DEF t
  <2>6. \A i \in 1..2 : t[i].role = Asks("renameDeck")[i]
    BY <2>5, AsksOf
  <2>7. Shaped(<<x>> \o t, force)
    BY <2>2, <2>3, <2>5, <2>6, AsksOf, ShapedFrom
  <2> QED
    BY <2>4, <2>7
<1>7. ASSUME NEW n \in Number, NEW m \in Number, NEW v \in Texts,
             task = ListTask(n, m, v)
      PROVE  Shaped(task, force)
  <2> DEFINE a == M(n, "number")
             b == M("1", "number")
             c == M("", "number")
             d == M(m, "number")
             e == M(v, "line")
             t == <<a, b, c, d, c, e>>
             x == M("3", "option")
  <2>1. /\ a \in MeantLine /\ b \in MeantLine /\ c \in MeantLine /\ d \in MeantLine /\ e \in MeantLine
        /\ a.role = "number" /\ b.role = "number" /\ c.role = "number" /\ d.role = "number"
        /\ e.role = "line"
    BY <1>1, <1>4
  <2>2. x \in MeantLine /\ x.role = "option" /\ x.text = "3" /\ x.text \in Options
    BY <1>2, <1>3
  <2>3. Operation[x.text] = "listNotes" /\ More("listNotes", force) = 0
    BY <2>2, OperationNames DEF More
  <2>4. task = <<x>> \o t
    BY <1>2, <1>3, <1>7 DEF M, ListTask
  <2> HIDE DEF a, b, c, d, e, x
  <2>5. /\ t \in Seq(MeantLine) /\ Len(t) = 6 /\ t[6].role = "line"
        /\ \A i \in 1..5 : t[i].role = "number"
    BY <2>1
  <2> HIDE DEF t
  <2>6. \A i \in 1..6 : t[i].role = Asks("listNotes")[i]
    BY <2>5, AsksOf
  <2>7. Shaped(<<x>> \o t, force)
    <3>1. /\ Len(Asks("listNotes")) \in Nat
          /\ Len(t) = Len(Asks("listNotes")) + More("listNotes", force)
          /\ \A i \in 1..Len(Asks("listNotes")) : t[i].role = Asks("listNotes")[i]
      <4> DEFINE k == Len(Asks("listNotes"))
      <4>1. k = 6
        BY AsksOf
      <4> HIDE DEF k
      <4>2. k \in Nat /\ Len(t) = k + More("listNotes", force)
        BY <2>3, <2>5, <4>1
      <4>3. \A i \in 1..k : t[i].role = Asks("listNotes")[i]
        BY <2>6, <4>1
      <4> QED
        BY <4>2, <4>3 DEF k
    <3> QED
      BY <2>2, <2>3, <2>5, <3>1, ShapedFrom
  <2> QED
    BY <2>4, <2>7
<1>8. ASSUME NEW n \in Number, NEW f \in FieldTexts(NoteFields),
             task = EditTask(n, f)
      PROVE  Shaped(task, force)
  <2> DEFINE a == M(n, "number")
             x == M("4", "option")
             t == <<a>> \o f
  <2>1. a \in MeantLine /\ a.role = "number"
    BY <1>1, <1>4
  <2>2. x \in MeantLine /\ x.role = "option" /\ x.text = "4" /\ x.text \in Options
    BY <1>2, <1>3
  <2>3. Operation[x.text] = "editNote" /\ More("editNote", force) = 2 * NoteFields
    BY <2>2, OperationNames DEF More
  <2>4. /\ f \in Seq(MeantLine) /\ Len(f) = 2 * NoteFields
        /\ \A i \in 1..NoteFields :
             /\ f[2 * i - 1].role = "text" /\ f[2 * i - 1].text # ".end"
             /\ f[2 * i].role = "end" /\ f[2 * i].text = ".end"
    BY CommandLineAssumption, FieldLines
  <2>5. task = (<<x>> \o <<a>>) \o f
    BY <1>2, <1>3, <1>8 DEF M, EditTask
  <2> HIDE DEF a, x
  <2>6. task = <<x>> \o t
    <3>1. <<x>> \in Seq(MeantLine) /\ <<a>> \in Seq(MeantLine)
      BY <2>1, <2>2
    <3> QED
      BY <2>4, <2>5, <3>1, ConcatAssociative
  <2>7. /\ t \in Seq(MeantLine) /\ Len(t) = 1 + 2 * NoteFields /\ t[1].role = "number"
        /\ \A i \in 1..2 * NoteFields : t[i + 1] = f[i]
    BY <2>1, <2>4, LineThen
  <2> HIDE DEF t
  <2>8. \A i \in 1..1 : t[i].role = Asks("editNote")[i]
    BY <2>7, AsksOf
  <2>9. ASSUME NEW i \in 1..NoteFields
        PROVE  /\ t[2 * i].role = "text" /\ t[2 * i].text # ".end"
               /\ t[2 * i + 1].role = "end" /\ t[2 * i + 1].text = ".end"
    <3>1. /\ 2 * i - 1 \in 1..2 * NoteFields /\ 2 * i \in 1..2 * NoteFields
          /\ (2 * i - 1) + 1 = 2 * i
      BY CommandLineAssumption
    <3>2. t[(2 * i - 1) + 1] = f[2 * i - 1] /\ t[2 * i + 1] = f[2 * i]
      BY <2>7, <3>1
    <3> QED
      BY <2>4, <3>1, <3>2
  <2>10. Shaped(<<x>> \o t, force)
    <3>1. Len(Asks("editNote")) = 1
      BY AsksOf
    <3>2. Len(t) = Len(Asks("editNote")) + More("editNote", force)
      BY <2>3, <2>7, <3>1
    <3> QED
      BY <2>2, <2>3, <2>7, <2>8, <2>9, <3>1, <3>2, ShapedFrom
  <2> QED
    BY <2>6, <2>10
<1>9. ASSUME NEW o \in {"6", "7"}, o = "7" => force, NEW n \in Number,
             task = CleanTask(o, n)
      PROVE  Shaped(task, force)
  <2> DEFINE a == M(n, "number")
             x == M(o, "option")
             t == <<a>>
             p == Operation[o]
  <2>1. a \in MeantLine /\ a.role = "number"
    BY <1>1, <1>4
  <2>2. x \in MeantLine /\ x.role = "option" /\ x.text = o /\ x.text \in Options
    BY <1>2, <1>3
  <2>3. p = Operation[x.text] /\ p \in {"dryRun", "apply"} /\ (p = "apply" => force)
    BY <1>9, <2>2, OperationNames
  <2>4. task = <<x>> \o t
    BY <1>2, <1>3, <1>9 DEF M, CleanTask
  <2> HIDE DEF a, x, p
  <2>5. t \in Seq(MeantLine) /\ Len(t) = 1 /\ t[1].role = "number"
    BY <2>1
  <2>6. Len(Asks(p)) = 1 /\ Asks(p)[1] = "number" /\ More(p, force) = 0
    BY <2>3, AsksOf DEF More
  <2> HIDE DEF t
  <2>7. \A i \in 1..1 : t[i].role = Asks(p)[i]
    BY <2>5, <2>6
  <2>8. Shaped(<<x>> \o t, force)
    BY <2>2, <2>3, <2>5, <2>6, <2>7, ShapedFrom
  <2> QED
    BY <2>4, <2>8
<1>10. ASSUME ~force, NEW n \in Number, NEW v \in {"y", "n"},
              task = AskedTask(n, v)
       PROVE  Shaped(task, force)
  <2> DEFINE a == M(n, "number")
             b == M(v, "answer")
             t == <<a, b>>
             x == M("7", "option")
  <2>1. a \in MeantLine /\ b \in MeantLine /\ a.role = "number" /\ b.role = "answer"
    BY <1>1, <1>4
  <2>2. x \in MeantLine /\ x.role = "option" /\ x.text = "7" /\ x.text \in Options
    BY <1>2, <1>3
  <2>3. Operation[x.text] = "apply" /\ More("apply", force) = 1
    BY <1>10, <2>2, OperationNames DEF More
  <2>4. task = <<x>> \o t
    <3>1. task = (<<x>> \o <<a>>) \o <<b>>
      BY <1>2, <1>3, <1>10 DEF M, AskedTask, CleanTask
    <3> HIDE DEF a, b, x
    <3>2. <<x>> \in Seq(MeantLine) /\ <<a>> \in Seq(MeantLine) /\ <<b>> \in Seq(MeantLine)
      BY <2>1, <2>2
    <3>3. task = <<x>> \o (<<a>> \o <<b>>)
      BY <3>1, <3>2, ConcatAssociative
    <3>4. <<a>> \o <<b>> = <<a, b>>
      BY <2>1, TwoLines
    <3> QED
      BY <3>3, <3>4
  <2> HIDE DEF a, b, x
  <2>5. t \in Seq(MeantLine) /\ Len(t) = 2 /\ t[1].role = "number" /\ t[2].role = "answer"
    BY <2>1
  <2> HIDE DEF t
  <2>6. Len(Asks("apply")) = 1 /\ Asks("apply")[1] = "number"
    BY AsksOf
  <2>7. \A i \in 1..1 : t[i].role = Asks("apply")[i]
    BY <2>5, <2>6
  <2>8. Shaped(<<x>> \o t, force)
    <3>1. /\ Len(Asks("apply")) \in Nat
          /\ Len(t) = Len(Asks("apply")) + More("apply", force)
          /\ \A i \in 1..Len(Asks("apply")) : t[i].role = Asks("apply")[i]
      <4> DEFINE k == Len(Asks("apply"))
      <4>1. k = 1
        BY <2>6
      <4> HIDE DEF k
      <4>2. k \in Nat /\ Len(t) = k + More("apply", force)
        BY <2>3, <2>5, <4>1
      <4>3. \A i \in 1..k : t[i].role = Asks("apply")[i]
        BY <2>7, <4>1
      <4> QED
        BY <4>2, <4>3 DEF k
    <3> QED
      BY <2>2, <2>3, <2>5, <2>6, <3>1, ShapedFrom
  <2> QED
    BY <2>4, <2>8
<1> QED
  BY <1>5, <1>6, <1>7, <1>8, <1>9, <1>10 DEF Tasks

-----------------------------------------------------------------------------
(* What has been taken so far.                                             *)

Taken == [line : MeantLine, as : Roles]
\* The lines of a task in the roles they were written for.
RolesOf(task) == [i \in 1..Len(task) |-> As(task[i], task[i].role)]
\* s holds the first elements of g.
FirstOf(s, g) == Len(s) \in 0..Len(g) /\ s = [i \in 1..Len(s) |-> g[i]]

\* A function on the first n numbers is a sequence of that length.
LEMMA Listed ==
  ASSUME NEW S, NEW n \in Nat, NEW g \in [1..n -> S]
  PROVE  g \in Seq(S) /\ Len(g) = n
OBVIOUS

LEMMA RolesFacts ==
  ASSUME NEW task \in Seq(MeantLine)
  PROVE  /\ RolesOf(task) \in Seq(Taken) /\ Len(RolesOf(task)) = Len(task)
         /\ \A i \in 1..Len(task) : RolesOf(task)[i] = As(task[i], task[i].role)
<1> DEFINE n == Len(task)
           g == RolesOf(task)
<1>1. n \in Nat /\ \A i \in 1..n : task[i] \in MeantLine
  BY LenProperties, ElementOfSeq
<1>2. ASSUME NEW x \in MeantLine PROVE As(x, x.role) \in Taken
  BY DEF As, Taken, MeantLine
<1>3. g = [i \in 1..n |-> As(task[i], task[i].role)]
  BY DEF RolesOf
<1> HIDE DEF n, g
<1>4. \A i \in 1..n : As(task[i], task[i].role) \in Taken
  BY <1>1, <1>2
<1>5. g \in [1..n -> Taken] /\ \A i \in 1..n : g[i] = As(task[i], task[i].role)
  BY <1>3, <1>4
<1>6. g \in Seq(Taken) /\ Len(g) = n
  BY <1>1, <1>5, Listed
<1> QED
  BY <1>5, <1>6 DEF n, g

\* The first elements are a sequence of their own.
LEMMA FirstListed ==
  ASSUME NEW S, NEW g \in Seq(S), NEW s, FirstOf(s, g)
  PROVE  /\ s \in Seq(S) /\ Len(s) \in Nat /\ Len(s) =< Len(g)
         /\ \A i \in 1..Len(s) : s[i] = g[i]
<1> DEFINE n == Len(s)
           m == Len(g)
<1>1. m \in Nat /\ (\A i \in 1..m : g[i] \in S) /\ n \in 0..m
  BY LenProperties, ElementOfSeq DEF FirstOf
<1>2. s = [i \in 1..n |-> g[i]]
  BY DEF FirstOf
<1> HIDE DEF n, m
<1>3. n \in Nat /\ n =< m /\ \A i \in 1..n : g[i] \in S
  BY <1>1
<1>4. s \in [1..n -> S] /\ \A i \in 1..n : s[i] = g[i]
  BY <1>2, <1>3
<1>5. s \in Seq(S)
  BY <1>3, <1>4, Listed
<1> QED
  BY <1>3, <1>4, <1>5 DEF n, m

LEMMA OneMore ==
  ASSUME NEW S, NEW g \in Seq(S), NEW s, FirstOf(s, g), Len(s) + 1 =< Len(g)
  PROVE  /\ FirstOf(Append(s, g[Len(s) + 1]), g)
         /\ Len(Append(s, g[Len(s) + 1])) = Len(s) + 1
<1> DEFINE n == Len(s)
           m == Len(g)
           e == g[n + 1]
           u == Append(s, e)
<1>1. s \in Seq(S) /\ n \in Nat /\ \A i \in 1..n : s[i] = g[i]
  BY FirstListed
<1>2. m \in Nat /\ n + 1 =< m
  BY LenProperties
<1>3. e \in S
  <2> HIDE DEF n
  <2>1. n + 1 \in 1..Len(g)
    BY <1>1, <1>2
  <2> QED
    BY <2>1, ElementOfSeq
<1>4. /\ u \in Seq(S) /\ Len(u) = n + 1 /\ \A i \in 1..n : u[i] = s[i]
      /\ u[n + 1] = e
  <2> HIDE DEF e
  <2>1. /\ Append(s, e) \in Seq(S) /\ Len(Append(s, e)) = Len(s) + 1
        /\ (\A i \in 1..Len(s) : Append(s, e)[i] = s[i]) /\ Append(s, e)[Len(s) + 1] = e
    BY <1>1, <1>3, AppendProperties
  <2> QED
    BY <2>1
<1>5. e = g[n + 1]
  OBVIOUS
<1> HIDE DEF n, m, e, u
<1>6. n + 1 \in 0..m /\ 1..n + 1 = (1..n) \union {n + 1} /\ n + 1 \in Nat
  BY <1>1, <1>2
<1>7. \A i \in 1..n + 1 : u[i] = g[i]
  BY <1>1, <1>4, <1>5, <1>6
<1>8. u = [i \in 1..n + 1 |-> g[i]]
  <2>1. u \in [1..n + 1 -> S]
    BY <1>4, LenProperties
  <2> QED
    BY <1>7, <2>1
<1>9. FirstOf(u, g)
  BY <1>4, <1>6, <1>8 DEF FirstOf, m
<1> QED
  BY <1>4, <1>9 DEF u, e, n

LEMMA NothingYet ==
  ASSUME NEW S, NEW g \in Seq(S)
  PROVE  FirstOf(<<>>, g)
<1>1. Len(g) \in Nat /\ Len(<<>>) = 0 /\ 0 \in 0..Len(g)
  BY LenProperties
<1>2. <<>> = [i \in 1..0 |-> g[i]]
  OBVIOUS
<1> QED
  BY <1>1, <1>2 DEF FirstOf

LEMMA AllOfThem ==
  ASSUME NEW S, NEW g \in Seq(S), NEW s, FirstOf(s, g), Len(s) = Len(g)
  PROVE  s = g
<1>1. s \in Seq(S) /\ \A i \in 1..Len(s) : s[i] = g[i]
  BY FirstListed
<1> QED
  BY <1>1, SeqEqual

LEMMA FirstIsPrefix ==
  ASSUME NEW S, NEW g \in Seq(S), NEW s, FirstOf(s, g)
  PROVE  IsPrefix(s, g)
<1> DEFINE n == Len(s)
           u == SubSeq(s, 1, n)
           v == SubSeq(g, 1, n)
<1>1. s \in Seq(S) /\ n \in Nat /\ n =< Len(g) /\ \A i \in 1..n : s[i] = g[i]
  BY FirstListed
<1>2. \A i \in 1..n : s[i] \in S /\ g[i] \in S
  BY <1>1, ElementOfSeq
<1>3. n \in Int /\ 1 \in Int /\ Len(g) \in Nat
  BY <1>1, LenProperties
<1> HIDE DEF n
<1>4. /\ u \in Seq(S) /\ Len(u) = (IF 1 =< n THEN n - 1 + 1 ELSE 0)
      /\ \A i \in 1..n - 1 + 1 : u[i] = s[1 + i - 1]
  BY <1>2, <1>3, SubSeqProperties
<1>5. /\ v \in Seq(S) /\ Len(v) = (IF 1 =< n THEN n - 1 + 1 ELSE 0)
      /\ \A i \in 1..n - 1 + 1 : v[i] = g[1 + i - 1]
  BY <1>2, <1>3, SubSeqProperties
<1>6. n - 1 + 1 = n /\ (~ (1 =< n) => n = 0) /\ \A i \in 1..n : 1 + i - 1 = i
  BY <1>1
<1> HIDE DEF u, v
<1>7. Len(u) = n /\ Len(v) = n /\ \A i \in 1..n : u[i] = s[i] /\ v[i] = g[i]
  BY <1>4, <1>5, <1>6
<1>8. u = v
  BY <1>1, <1>4, <1>5, <1>7, SeqEqual
<1> QED
  BY <1>1, <1>8 DEF IsPrefix, n, u, v

-----------------------------------------------------------------------------
(* Where the program is in its script.                                     *)

\* The tasks of the script are those of an author who knows the settings.
ScriptOK ==
  /\ script \in Seq(Seq(MeantLine))
  /\ \A t \in 1..Len(script) : Shaped(script[t], forceApply)

\* all holds the lines of the tasks, task after task, and after them nothing or the exit.
Laid(off, all) ==
  /\ Placed(off, script, all)
  /\ \/ Len(all) = off[Len(script)]
     \/ Len(all) = off[Len(script)] + 1 /\ all[off[Len(script)] + 1].text = "0"

\* Where an operation is that has taken n lines of its task, at place p with f fields left.
At(task, n, o, p, f) ==
  /\ o = Operation[task[1].text]
  /\ n \in 1..Len(task)
  /\ p = "input" => n =< Len(Asks(o))
  /\ p \in {"begin", "confirm"} => n = 2
  /\ p = "text" => o = "editNote" /\ n - 2 * (NoteFields - f) \in {2, 3}
  /\ p = "confirm" => o = "apply"
  /\ p = "call" => n = Len(task)

\* The operation at hand is that of the next task and has its first lines.
AtHand ==
  op # "none" =>
    /\ Len(handled) + 1 =< Len(script)
    /\ FirstOf(took, RolesOf(script[Len(handled) + 1]))
    /\ At(script[Len(handled) + 1], Len(took), op, pc, left)

\* What is still to read follows what has been taken, and a terminal hands out no more than
\* the line that is being waited for.
Ahead(off, all) ==
  /\ Len(took) \in Nat
  /\ AheadOf(buffer, rest, off[Len(handled)] + Len(took), all)
  /\ terminal => buffer = <<>> \/ (Reading /\ Len(buffer) = 1)

Follows(off, all) ==
  /\ Laid(off, all)
  /\ FirstOf(handled, Intended)
  /\ pc # "ended" => AtHand /\ Ahead(off, all)
  /\ pc = "confirm" => ~forceApply
  /\ result \in {"exit", "eof"} => Len(handled) = Len(script)

Undisturbed == (terminal \/ forceApply) /\ ~astray
OnTrack == Inv /\ ScriptOK /\ (Undisturbed => \E off, all : Follows(off, all))

-----------------------------------------------------------------------------
(* The script.                                                             *)

\* Intended has a sequence of taken lines for each task.
LEMMA IntendedFacts ==
  ASSUME ScriptOK
  PROVE  /\ Intended \in Seq(Seq(Taken)) /\ Len(Intended) = Len(script) /\ Len(script) \in Nat
         /\ \A t \in 1..Len(script) : Intended[t] = RolesOf(script[t])
<1> DEFINE n == Len(script)
<1>1. n \in Nat /\ \A t \in 1..n : script[t] \in Seq(MeantLine)
  BY LenProperties, ElementOfSeq DEF ScriptOK
<1>2. \A t \in 1..n : RolesOf(script[t]) \in Seq(Taken)
  BY <1>1, RolesFacts
<1>3. Intended = [t \in 1..n |-> RolesOf(script[t])]
  BY DEF Intended, RolesOf
<1> HIDE DEF n
<1>4. Intended \in [1..n -> Seq(Taken)] /\ \A t \in 1..n : Intended[t] = RolesOf(script[t])
  BY <1>2, <1>3
<1>5. Intended \in Seq(Seq(Taken)) /\ Len(Intended) = n
  BY <1>1, <1>4, Listed
<1> QED
  BY <1>1, <1>4, <1>5 DEF n

\* What the next task is and where its lines are.
LEMMA NextTask ==
  ASSUME NEW off, NEW all, ScriptOK, Laid(off, all), FirstOf(handled, Intended),
         Len(handled) + 1 =< Len(script), NEW task, task = script[Len(handled) + 1]
  PROVE  /\ Len(handled) \in Nat /\ off[Len(handled)] \in Nat
         /\ Shaped(task, forceApply) /\ task \in Seq(MeantLine) /\ Len(task) \in Nat
         /\ RolesOf(task) \in Seq(Taken) /\ Len(RolesOf(task)) = Len(task)
         /\ Intended[Len(handled) + 1] = RolesOf(task)
         /\ off[Len(handled) + 1] = off[Len(handled)] + Len(task)
         /\ off[Len(handled) + 1] =< Len(all)
         /\ \A j \in 1..Len(task) : all[off[Len(handled)] + j] = task[j]
<1> DEFINE k == Len(handled)
           n == Len(script)
<1>1. n \in Nat /\ k \in Nat /\ k + 1 =< n
  BY IntendedFacts, FirstListed
<1>2. Placed(off, script, all)
  BY DEF Laid
<1>3. task = script[k + 1]
  OBVIOUS
<1>4. /\ off \in [0..n -> Nat]
      /\ \A i \in 1..n : off[i] = off[i - 1] + Len(script[i]) /\ off[i] =< Len(all)
      /\ \A i \in 1..n : \A j \in 1..Len(script[i]) : all[off[i - 1] + j] = script[i][j]
  BY <1>2 DEF Placed
<1>5. \A i \in 1..n : script[i] \in Seq(MeantLine) /\ Shaped(script[i], forceApply)
  BY <1>1, ElementOfSeq DEF ScriptOK
<1>6. \A i \in 1..n : Intended[i] = RolesOf(script[i])
  BY IntendedFacts
<1> HIDE DEF k, n
<1>7. k + 1 \in 1..n /\ k \in 0..n /\ (k + 1) - 1 = k
  BY <1>1
<1>8. task \in Seq(MeantLine) /\ Shaped(task, forceApply) /\ Intended[k + 1] = RolesOf(task)
  BY <1>3, <1>5, <1>6, <1>7
<1>9. Len(task) \in Nat /\ RolesOf(task) \in Seq(Taken) /\ Len(RolesOf(task)) = Len(task)
  BY <1>8, LenProperties, RolesFacts
<1>10. off[k] \in Nat /\ off[k + 1] = off[k] + Len(task) /\ off[k + 1] =< Len(all)
  BY <1>3, <1>4, <1>7
<1>11. \A j \in 1..Len(task) : all[off[k] + j] = task[j]
  BY <1>3, <1>4, <1>7
<1> QED
  BY <1>1, <1>8, <1>9, <1>10, <1>11 DEF k

\* A line after the last task leaves the tasks where they are.
LEMMA ExitAfter ==
  ASSUME NEW tasks, NEW off, NEW all \in Seq(MeantLine), NEW x \in MeantLine,
         \A i \in 1..Len(tasks) : Len(tasks[i]) \in Nat, Placed(off, tasks, all), Len(tasks) \in Nat
  PROVE  /\ all \o <<x>> \in Seq(MeantLine) /\ Placed(off, tasks, all \o <<x>>)
         /\ Len(all \o <<x>>) = Len(all) + 1 /\ (all \o <<x>>)[Len(all) + 1] = x
<1> DEFINE n == Len(tasks)
           m == Len(all)
           e == <<x>>
           u == all \o e
<1>1. e \in Seq(MeantLine) /\ Len(e) = 1 /\ e[1] = x /\ m \in Nat
  BY LenProperties
<1> HIDE DEF e
<1>2. /\ u \in Seq(MeantLine) /\ Len(u) = m + Len(e)
      /\ \A i \in 1..m + Len(e) : u[i] = IF i =< m THEN all[i] ELSE e[i - m]
  BY <1>1, ConcatProperties
<1> HIDE DEF m, u
<1>3. Len(u) = m + 1 /\ \A i \in 1..m + 1 : u[i] = IF i =< m THEN all[i] ELSE e[i - m]
  BY <1>1, <1>2
<1>4. u[m + 1] = x /\ \A i \in 1..m : u[i] = all[i]
  BY <1>1, <1>3
<1>5. /\ off \in [0..n -> Nat] /\ off[0] = 0
      /\ \A i \in 1..n : off[i] = off[i - 1] + Len(tasks[i]) /\ off[i] =< m
      /\ \A i \in 1..n : \A j \in 1..Len(tasks[i]) : all[off[i - 1] + j] = tasks[i][j]
  BY DEF Placed, m
<1>6. ASSUME NEW i \in 1..n
      PROVE  /\ off[i] =< Len(u)
             /\ \A j \in 1..Len(tasks[i]) : u[off[i - 1] + j] = tasks[i][j]
  <2> DEFINE a == off[i - 1]
             b == Len(tasks[i])
  <2>1. i - 1 \in 0..n /\ i \in 0..n
    OBVIOUS
  <2>2. a \in Nat /\ off[i] \in Nat /\ b \in Nat /\ off[i] = a + b /\ off[i] =< m
    BY <1>5, <2>1
  <2>3. \A j \in 1..b : all[a + j] = tasks[i][j]
    BY <1>5
  <2> HIDE DEF a, b
  <2>4. off[i] =< m + 1 /\ \A j \in 1..b : a + j \in 1..m
    BY <1>1, <2>2
  <2>5. \A j \in 1..b : u[a + j] = tasks[i][j]
    BY <1>4, <2>3, <2>4
  <2> QED
    BY <1>3, <2>4, <2>5 DEF a, b
<1>7. Placed(off, tasks, u)
  BY <1>5, <1>6 DEF Placed
<1> QED
  BY <1>2, <1>3, <1>4, <1>7 DEF u, m, e

LEMMA InitOnTrack == Init => OnTrack
<1> SUFFICES ASSUME Init PROVE OnTrack
  OBVIOUS
<1>1. Inv
  BY InitInv
<1>2. PICK k \in 0..MaxTasks : script \in [1..k -> Tasks(forceApply)]
  BY DEF Init, Scripts
<1>3. k \in Nat /\ forceApply \in BOOLEAN
  BY <1>2, CommandLineAssumption DEF Init
<1>4. /\ Len(script) = k
      /\ \A t \in 1..k : Shaped(script[t], forceApply) /\ script[t] \in Seq(MeantLine)
  <2>1. Len(script) = k
    BY <1>2, <1>3, Listed
  <2>2. ASSUME NEW t \in 1..k PROVE Shaped(script[t], forceApply)
    <3>1. script[t] \in Tasks(forceApply)
      BY <1>2
    <3> QED
      BY <1>3, <3>1, TasksShaped
  <2>3. \A t \in 1..k : script[t] \in Seq(MeantLine)
    BY <2>2 DEF Shaped
  <2> QED
    BY <2>1, <2>2, <2>3
<1>5. script \in [1..k -> Seq(MeantLine)]
  BY <1>2, <1>4
<1>6. script \in Seq(Seq(MeantLine))
  BY <1>3, <1>5, Listed
<1>7. ScriptOK
  BY <1>4, <1>6 DEF ScriptOK
<1> DEFINE all == Lines(script)
<1>8. /\ all \in Seq(MeantLine)
      /\ \E off : Placed(off, script, all) /\ Len(all) = off[Len(script)]
  BY <1>6, LinesPlaced
<1> HIDE DEF all
<1>9. PICK off : Placed(off, script, all) /\ Len(all) = off[Len(script)]
  BY <1>8
<1>10. Laid(off, rest) /\ rest \in Seq(MeantLine)
  <2>1. rest = all \/ rest = all \o Option("0")
    BY DEF Init, all
  <2>2. CASE rest = all
    BY <1>8, <1>9, <2>2 DEF Laid
  <2>3. CASE rest = all \o Option("0")
    <3> DEFINE x == Meant("0", "option")
    <3>1. x \in MeantLine /\ x.text = "0"
      <4>1. "0" \in Seen /\ "option" \in Roles
        BY DEF Seen, Roles
      <4> QED
        BY <4>1, LineIsMeant
    <3>2. rest = all \o <<x>>
      BY <2>3 DEF Option
    <3> HIDE DEF x
    <3>3. \A i \in 1..Len(script) : Len(script[i]) \in Nat
      BY <1>4, LenProperties
    <3>4. /\ rest \in Seq(MeantLine) /\ Placed(off, script, rest)
          /\ Len(rest) = Len(all) + 1 /\ rest[Len(all) + 1] = x
      <4> DEFINE u == all \o <<x>>
      <4>1. Len(script) \in Nat /\ Placed(off, script, all) /\ all \in Seq(MeantLine) /\ x \in MeantLine
        BY <1>3, <1>4, <1>8, <1>9, <3>1
      <4>2. /\ u \in Seq(MeantLine) /\ Placed(off, script, u)
            /\ Len(u) = Len(all) + 1 /\ u[Len(all) + 1] = x
        BY <3>3, <4>1, ExitAfter
      <4>3. rest = u
        BY <3>2
      <4> HIDE DEF u
      <4> QED
        BY <4>2, <4>3
    <3> QED
      BY <1>9, <3>1, <3>4 DEF Laid
  <2> QED
    BY <2>1, <2>2, <2>3
<1>11. FirstOf(handled, Intended)
  <2>1. handled = <<>>
    BY DEF Init
  <2> QED
    BY <1>7, <2>1, IntendedFacts, NothingYet
<1>12. /\ pc = "menu" /\ op = "none" /\ result = "running" /\ took = <<>> /\ handled = <<>>
       /\ buffer = <<>>
  BY DEF Init
<1>13. Ahead(off, rest)
  <2>1. Len(handled) = 0 /\ Len(took) = 0 /\ Len(buffer) = 0 /\ buffer \in Seq(MeantLine)
    BY <1>12
  <2>2. off[0] = 0 /\ Len(rest) \in Nat
    BY <1>9, <1>10, LenProperties DEF Placed
  <2>3. off[Len(handled)] + Len(took) = 0
    BY <2>1, <2>2
  <2>4. Len(rest) = 0 + 0 + Len(rest) /\ \A i \in 1..Len(rest) : 0 + 0 + i = i
    <3> DEFINE m == Len(rest)
    <3>1. m \in Nat
      BY <2>2
    <3> HIDE DEF m
    <3>2. m = 0 + 0 + m /\ \A i \in 1..m : 0 + 0 + i = i
      BY <3>1
    <3> QED
      BY <3>2 DEF m
  <2>5. AheadOf(buffer, rest, 0, rest)
    BY <1>10, <2>1, <2>4 DEF AheadOf
  <2> QED
    BY <1>12, <2>1, <2>3, <2>5 DEF Ahead
<1>14. AtHand
  BY <1>12 DEF AtHand
<1>15. Follows(off, rest)
  BY <1>10, <1>11, <1>12, <1>13, <1>14 DEF Follows
<1> QED
  BY <1>1, <1>7, <1>15 DEF OnTrack

-----------------------------------------------------------------------------
(* What a step may do to the place in the script.                          *)

\* No step touches the settings or the script.
LEMMA ScriptStays ==
  ASSUME NEW off, NEW all, setting' = setting
  PROVE  /\ Laid(off, all)' = Laid(off, all) /\ ScriptOK' = ScriptOK /\ Intended' = Intended
         /\ terminal' = terminal /\ forceApply' = forceApply /\ script' = script
<1>1. terminal' = terminal /\ forceApply' = forceApply /\ script' = script
  BY DEF setting
<1> QED
  BY <1>1 DEF Laid, ScriptOK, Intended

\* The operation at hand is that of the next task.
LEMMA Here ==
  ASSUME NEW off, NEW all, ScriptOK, Follows(off, all), pc # "ended", op # "none",
         NEW task, task = script[Len(handled) + 1]
  PROVE  /\ Len(handled) \in Nat /\ off[Len(handled)] \in Nat
         /\ Len(handled) + 1 =< Len(script)
         /\ Shaped(task, forceApply) /\ task \in Seq(MeantLine) /\ Len(task) \in Nat
         /\ RolesOf(task) \in Seq(Taken) /\ Len(RolesOf(task)) = Len(task)
         /\ Intended[Len(handled) + 1] = RolesOf(task)
         /\ off[Len(handled) + 1] = off[Len(handled)] + Len(task)
         /\ off[Len(handled) + 1] =< Len(all)
         /\ \A j \in 1..Len(task) : all[off[Len(handled)] + j] = task[j]
         /\ FirstOf(took, RolesOf(task)) /\ At(task, Len(took), op, pc, left)
         /\ Len(took) \in Nat
         /\ AheadOf(buffer, rest, off[Len(handled)] + Len(took), all)
<1>1. /\ Len(handled) + 1 =< Len(script)
      /\ FirstOf(took, RolesOf(task)) /\ At(task, Len(took), op, pc, left)
  BY DEF Follows, AtHand
<1>2. Laid(off, all) /\ FirstOf(handled, Intended)
  BY DEF Follows
<1>3. Len(took) \in Nat /\ AheadOf(buffer, rest, off[Len(handled)] + Len(took), all)
  BY DEF Follows, Ahead
<1> QED
  BY <1>1, <1>2, <1>3, NextTask

\* The next line of the task is the first of the buffer.
LEMMA LineTaken ==
  ASSUME NEW off, NEW all, ScriptOK, Follows(off, all), pc # "ended", op # "none",
         NEW task, task = script[Len(handled) + 1], buffer # <<>>, Len(took) + 1 =< Len(task)
  PROVE  /\ Head(buffer) = task[Len(took) + 1]
         /\ AheadOf(Tail(buffer), rest, off[Len(handled)] + (Len(took) + 1), all)
         /\ terminal => Tail(buffer) = <<>>
<1> DEFINE a == off[Len(handled)]
           n == Len(took)
           m == Len(task)
<1>1. a \in Nat /\ n \in Nat /\ m \in Nat /\ n + 1 =< m
  BY Here
<1>2. AheadOf(buffer, rest, a + n, all) /\ \A j \in 1..m : all[a + j] = task[j]
  BY Here
<1> HIDE DEF a, n, m
<1>3. /\ AheadOf(Tail(buffer), rest, (a + n) + 1, all) /\ Head(buffer) = all[(a + n) + 1]
      /\ Len(Tail(buffer)) = Len(buffer) - 1
  BY <1>2, HeadTaken
<1>4. (a + n) + 1 = a + (n + 1) /\ n + 1 \in 1..m
  BY <1>1
<1>5. Head(buffer) = task[n + 1]
  BY <1>2, <1>3, <1>4
<1>6. ASSUME terminal PROVE Tail(buffer) = <<>>
  <2>1. Len(buffer) = 1
    BY <1>6 DEF Follows, Ahead
  <2>2. Len(Tail(buffer)) = 0 /\ Tail(buffer) \in Seq(MeantLine)
    BY <1>3, <2>1 DEF AheadOf
  <2> QED
    BY <2>2, EmptySeq
<1> QED
  BY <1>3, <1>4, <1>5, <1>6 DEF a, n

\* A line taken in the role it was written for.
LEMMA TookLine ==
  ASSUME NEW task \in Seq(MeantLine), NEW s, FirstOf(s, RolesOf(task)), Len(s) + 1 =< Len(task),
         NEW line, line = task[Len(s) + 1]
  PROVE  /\ FirstOf(Append(s, As(line, line.role)), RolesOf(task))
         /\ Len(Append(s, As(line, line.role))) = Len(s) + 1
<1>1. /\ RolesOf(task) \in Seq(Taken) /\ Len(RolesOf(task)) = Len(task)
      /\ \A i \in 1..Len(task) : RolesOf(task)[i] = As(task[i], task[i].role)
  BY RolesFacts
<1>2. Len(s) \in Nat
  BY <1>1, FirstListed
<1>3. Len(s) + 1 \in 1..Len(task)
  <2> DEFINE n == Len(s)
             m == Len(task)
  <2>1. n \in Nat /\ m \in Nat /\ n + 1 =< m
    BY <1>2, LenProperties
  <2> HIDE DEF n, m
  <2>2. n + 1 \in 1..m
    BY <2>1
  <2> QED
    BY <2>2 DEF n, m
<1>4. RolesOf(task)[Len(s) + 1] = As(line, line.role)
  BY <1>1, <1>3
<1>5. /\ FirstOf(Append(s, RolesOf(task)[Len(s) + 1]), RolesOf(task))
      /\ Len(Append(s, RolesOf(task)[Len(s) + 1])) = Len(s) + 1
  BY <1>1, OneMore
<1> QED
  BY <1>4, <1>5

\* An operation has read all lines of its task: the next one is expected.
LEMMA DoneFollows ==
  ASSUME NEW off, NEW all, Inv, ScriptOK, Follows(off, all), pc # "ended", op # "none",
         NEW task, task = script[Len(handled) + 1],
         NEW lines, Done(lines), setting' = setting, result' = result,
         FirstOf(lines, RolesOf(task)), Len(lines) = Len(task),
         AheadOf(buffer', rest', off[Len(handled)] + Len(lines), all), terminal => buffer' = <<>>
  PROVE  Follows(off, all)'
<1> DEFINE k == Len(handled)
<1>1. /\ k \in Nat /\ off[k] \in Nat /\ k + 1 =< Len(script) /\ RolesOf(task) \in Seq(Taken)
      /\ Len(RolesOf(task)) = Len(task) /\ Intended[k + 1] = RolesOf(task)
      /\ off[k + 1] = off[k] + Len(task) /\ Len(task) \in Nat
  BY Here
<1>2. /\ Laid(off, all)' = Laid(off, all) /\ Intended' = Intended /\ terminal' = terminal
      /\ script' = script
  BY ScriptStays
<1>3. lines = Intended[k + 1]
  BY <1>1, AllOfThem
<1>4. /\ pc' = "menu" /\ op' = "none" /\ took' = <<>> /\ handled' = Append(handled, lines)
      /\ result' = "running"
  BY DEF Done, Back, Inv, TypeOK
<1>5. FirstOf(handled', Intended) /\ Len(handled') = k + 1
  <2>1. /\ Intended \in Seq(Seq(Taken)) /\ Len(Intended) = Len(script) /\ FirstOf(handled, Intended)
    BY IntendedFacts DEF Follows
  <2>2. /\ FirstOf(Append(handled, Intended[Len(handled) + 1]), Intended)
        /\ Len(Append(handled, Intended[Len(handled) + 1])) = Len(handled) + 1
    BY <1>1, <2>1, OneMore
  <2> QED
    BY <1>3, <1>4, <2>2
<1>6. Len(took') = 0
  BY <1>4
<1>7. off[Len(handled')] + Len(took') = off[k] + Len(lines)
  <2>1. off[Len(handled')] = off[k] + Len(lines) /\ off[k] + Len(lines) \in Nat
    BY <1>1, <1>5
  <2> HIDE DEF k
  <2>2. \A x \in Nat : x + 0 = x
    OBVIOUS
  <2> QED
    BY <1>6, <2>1, <2>2
<1>8. Ahead(off, all)'
  BY <1>2, <1>6, <1>7 DEF Ahead
<1>9. AtHand'
  BY <1>4 DEF AtHand
<1>10. Laid(off, all)' /\ FirstOf(handled', Intended')
  BY <1>2, <1>5 DEF Follows
<1> QED
  BY <1>4, <1>8, <1>9, <1>10 DEF Follows

\* An operation has more lines of its task than before, or goes on to another place.
LEMMA OnFollows ==
  ASSUME NEW off, NEW all, Inv, ScriptOK, Follows(off, all), pc # "ended", op # "none",
         NEW task, task = script[Len(handled) + 1],
         pc' # "ended", pc' = "confirm" => ~forceApply,
         setting' = setting, result' = result, handled' = handled, Len(took') \in Nat,
         FirstOf(took', RolesOf(task)), At(task, Len(took'), op', pc', left'),
         AheadOf(buffer', rest', off[Len(handled)] + Len(took'), all), terminal => buffer' = <<>>
  PROVE  Follows(off, all)'
<1>1. /\ Laid(off, all)' = Laid(off, all) /\ Intended' = Intended /\ terminal' = terminal
      /\ script' = script /\ forceApply' = forceApply
  BY ScriptStays
<1>2. result' = "running"
  BY DEF Inv, TypeOK
<1>3. Ahead(off, all)'
  BY <1>1 DEF Ahead
<1>4. AtHand'
  <2>1. Len(handled) + 1 =< Len(script)
    BY Here
  <2>2. task = script'[Len(handled') + 1]
    BY <1>1
  <2> QED
    BY <1>1, <2>1, <2>2 DEF AtHand
<1>5. Laid(off, all)' /\ FirstOf(handled', Intended')
  BY <1>1 DEF Follows
<1> QED
  BY <1>1, <1>2, <1>3, <1>4, <1>5 DEF Follows

\* The program ends: where it was expected to, or for a reason that cuts the script short.
LEMMA EndFollows ==
  ASSUME NEW off, NEW all, Follows(off, all), setting' = setting, pc' = "ended", handled' = handled,
         result' \in {"exit", "eof"} => Len(handled) = Len(script)
  PROVE  Follows(off, all)'
<1>1. /\ Laid(off, all)' = Laid(off, all) /\ Intended' = Intended /\ script' = script
  BY ScriptStays
<1>2. Laid(off, all)' /\ FirstOf(handled', Intended')
  BY <1>1 DEF Follows
<1> QED
  BY <1>1, <1>2 DEF Follows

\* How many lines a task has.
LEMMA TaskSize ==
  ASSUME NEW force, NEW task, Shaped(task, force), NEW o, o = Operation[task[1].text]
  PROVE  /\ Len(task) \in Nat /\ Len(Asks(o)) \in Nat /\ 1 + Len(Asks(o)) =< Len(task)
         /\ o = "editNote" => Len(Asks(o)) = 1 /\ Len(task) = 2 + 2 * NoteFields
         /\ o = "apply" => Len(Asks(o)) = 1 /\ Len(task) = IF force THEN 2 ELSE 3
         /\ o \notin {"editNote", "apply"} => Len(task) = 1 + Len(Asks(o))
<1> DEFINE a == Len(Asks(o))
           m == More(o, force)
           n == Len(task)
<1>1. a \in Nat /\ n = 1 + a + m /\ (o \in {"editNote", "apply"} => a = 1)
  BY DEF Shaped
<1>2. /\ m \in Nat /\ (o = "editNote" => m = 2 * NoteFields)
      /\ o = "apply" => m = (IF force THEN 0 ELSE 1)
      /\ o \notin {"editNote", "apply"} => m = 0
  BY CommandLineAssumption DEF More
<1> HIDE DEF a, m, n
<1>3. n \in Nat /\ 1 + a =< n
  BY <1>1, <1>2
<1>4. o = "editNote" => a = 1 /\ n = 2 + 2 * NoteFields
  BY <1>1, <1>2, CommandLineAssumption
<1>5. o = "apply" => a = 1 /\ n = IF force THEN 2 ELSE 3
  <2>1. CASE force
    BY <1>1, <1>2, <2>1
  <2>2. CASE ~force
    BY <1>1, <1>2, <2>2
  <2> QED
    BY <2>1, <2>2
<1>6. o \notin {"editNote", "apply"} => n = 1 + a
  BY <1>1, <1>2
<1> QED
  BY <1>1, <1>3, <1>4, <1>5, <1>6 DEF a, n

\* What an operation asks for is a sequence.
LEMMA AsksListed == \A o : Asks(o) \in Seq({"number", "line"})
<1> DEFINE S == {"number", "line"}
           x == "number"
<1>1. x \in S /\ Page \in Seq(S)
  BY DEF Page
<1>2. <<x>> \o Page \in Seq(S)
  <2> HIDE DEF S, x
  <2> QED
    BY <1>1, LineThen
<1>3. /\ <<>> \in Seq(S) /\ <<"line">> \in Seq(S) /\ <<"number", "line">> \in Seq(S)
      /\ <<"number">> \in Seq(S)
  OBVIOUS
<1>4. ASSUME NEW o
      PROVE  Asks(o) \in {<<>>, <<"line">>, <<"number", "line">>, <<x>> \o Page, Page, <<"number">>}
  BY DEF Asks
<1> QED
  BY <1>1, <1>2, <1>3, <1>4

\* An operation that awaits a line has one more in its task.
LEMMA MoreToRead ==
  ASSUME NEW off, NEW all, Inv, ScriptOK, Follows(off, all), op # "none",
         pc \in {"input", "text", "confirm"}, NEW task, task = script[Len(handled) + 1]
  PROVE  Len(took) + 1 =< Len(task)
<1> DEFINE n == Len(took)
           m == Len(task)
           a == Len(Asks(op))
<1>1. Shaped(task, forceApply) /\ At(task, n, op, pc, left) /\ n \in Nat
  BY Here
<1>2. /\ m \in Nat /\ a \in Nat /\ 1 + a =< m
      /\ op = "editNote" => m = 2 + 2 * NoteFields
      /\ op = "apply" => m = IF forceApply THEN 2 ELSE 3
  BY <1>1, TaskSize DEF At
<1> HIDE DEF m, a, n
<1>3. CASE pc = "input"
  <2>1. n =< a
    BY <1>1, <1>3 DEF At, a
  <2> QED
    BY <1>1, <1>2, <2>1 DEF n, m
<1>4. CASE pc = "text"
  <2>1. op = "editNote" /\ n - 2 * (NoteFields - left) \in {2, 3} /\ left \in 1..NoteFields
    BY <1>1, <1>4, CommandLineAssumption DEF At, Inv, TypeOK
  <2>2. n + 1 =< 2 + 2 * NoteFields
    BY <1>1, <2>1, CommandLineAssumption
  <2> QED
    BY <1>2, <2>1, <2>2 DEF n, m
<1>5. CASE pc = "confirm"
  <2>1. op = "apply" /\ n = 2 /\ ~forceApply
    BY <1>1, <1>5 DEF At, Follows
  <2>2. m = 3
    BY <1>2, <2>1
  <2>3. n + 1 =< m
    BY <2>1, <2>2
  <2> QED
    BY <2>3 DEF n, m
<1> QED
  BY <1>3, <1>4, <1>5

\* As long as a line is awaited there is one, unless all tasks have been done.
LEMMA NotAtTheEnd ==
  ASSUME NEW off, NEW all, Inv, ScriptOK, Follows(off, all), Reading \/ pc = "confirm",
         buffer = <<>>, rest = <<>>
  PROVE  Len(handled) = Len(script) /\ op = "none"
<1> DEFINE k == Len(handled)
           N == Len(script)
           task == script[k + 1]
           n == Len(took)
<1>1. FirstOf(handled, Intended) /\ pc # "ended" /\ Ahead(off, all)
  BY DEF Follows, Reading
<1>2. k \in Nat /\ N \in Nat /\ k =< N
  BY <1>1, IntendedFacts, FirstListed
<1>3. n \in Nat /\ Len(all) = off[k] + n + 0 + 0
  <2>1. Len(buffer) = 0 /\ Len(rest) = 0
    OBVIOUS
  <2> QED
    BY <1>1, <2>1 DEF Ahead, AheadOf
<1>4. SUFFICES ASSUME k # N \/ op # "none" PROVE FALSE
  BY Zenon
<1>5. k + 1 =< N
  <2>1. CASE op # "none"
    BY <1>1, <2>1 DEF Follows, AtHand
  <2>2. CASE k # N
    <3> HIDE DEF k, N
    <3> QED
      BY <1>2, <2>2
  <2> QED
    BY <1>4, <2>1, <2>2
<1>6. /\ off[k] \in Nat /\ Shaped(task, forceApply) /\ Len(task) \in Nat
      /\ off[k + 1] = off[k] + Len(task) /\ off[k + 1] =< Len(all)
  BY <1>1, <1>5, NextTask DEF Follows
<1>7. n + 1 =< Len(task)
  <2>1. CASE op = "none"
    <3>1. n = 0
      <4>1. pc = "option" /\ took = <<>>
        BY <2>1 DEF Reading, Inv, TypeOK
      <4> QED
        BY <4>1
    <3>2. /\ Len(task) \in Nat /\ Len(Asks(Operation[task[1].text])) \in Nat
          /\ 1 + Len(Asks(Operation[task[1].text])) =< Len(task)
      BY <1>6, TaskSize
    <3> DEFINE a == Len(Asks(Operation[task[1].text]))
               m == Len(task)
    <3>3. m \in Nat /\ a \in Nat /\ 1 + a =< m
      BY <3>2
    <3> HIDE DEF a, m, n
    <3>4. n + 1 =< m
      BY <3>1, <3>3
    <3> QED
      BY <3>4 DEF m
  <2>2. CASE op # "none"
    <3>1. pc \in {"input", "text", "confirm"}
      BY <2>2 DEF Reading, Inv, TypeOK
    <3> QED
      BY <2>2, <3>1, MoreToRead
  <2> QED
    BY <2>1, <2>2
<1> DEFINE x == off[k]
           m == Len(task)
           z == Len(all)
<1>8. x \in Nat /\ m \in Nat /\ n \in Nat /\ z = x + n + 0 + 0 /\ x + m =< z /\ n + 1 =< m
  BY <1>3, <1>6, <1>7
<1> HIDE DEF x, m, z, n
<1> QED
  BY <1>8

-----------------------------------------------------------------------------
(* Each step keeps the place in the script.                                *)

LEMMA MenuTopFollows ==
  ASSUME NEW off, NEW all, Inv, ScriptOK, Follows(off, all), MenuTop
  PROVE  Follows(off, all)'
<1>1. pc = "menu" /\ op = "none"
  BY DEF MenuTop, Inv, TypeOK
<1>2. CASE interrupted
  <2>1. setting' = setting /\ pc' = "ended" /\ handled' = handled /\ result' = "interrupted"
    BY <1>2 DEF MenuTop, End, setting
  <2> QED
    BY <2>1, EndFollows
<1>3. CASE ~interrupted
  <2>1. /\ pc' = "option"
        /\ UNCHANGED <<setting, rest, buffer, op, took, left, interrupted, astray, handled, result>>
    BY <1>3 DEF MenuTop
  <2>2. /\ Laid(off, all)' = Laid(off, all) /\ Intended' = Intended /\ script' = script
        /\ terminal' = terminal
    BY <2>1, ScriptStays
  <2>3. Laid(off, all) /\ FirstOf(handled, Intended) /\ Ahead(off, all) /\ result = "running"
    BY <1>1 DEF Follows, Inv, TypeOK
  <2>4. Ahead(off, all)'
    BY <1>1, <2>1, <2>2, <2>3 DEF Ahead, Reading
  <2>5. AtHand'
    BY <1>1, <2>1 DEF AtHand
  <2>6. result' = "running" /\ pc' = "option" /\ FirstOf(handled', Intended')
    BY <2>1, <2>2, <2>3
  <2>7. Laid(off, all)'
    BY <2>2, <2>3
  <2> QED
    BY <2>4, <2>5, <2>6, <2>7 DEF Follows
<1> QED
  BY <1>2, <1>3

LEMMA FillFollows ==
  ASSUME NEW off, NEW all, Inv, ScriptOK, Follows(off, all), Fill
  PROVE  Follows(off, all)'
<1>1. /\ Reading /\ buffer = <<>>
      /\ UNCHANGED <<setting, pc, op, took, left, interrupted, astray, handled, result>>
  BY DEF Fill
<1>2. PICK n \in Chunk : /\ buffer' = SubSeq(rest, 1, n)
                         /\ rest' = SubSeq(rest, n + 1, Len(rest))
  BY DEF Fill
<1>3. n \in 1..Len(rest) /\ (terminal => n = 1)
  BY <1>2 DEF Chunk
<1>4. pc # "ended" /\ pc # "confirm" /\ Ahead(off, all) /\ AtHand /\ result = "running"
  BY <1>1 DEF Reading, Follows, Inv, TypeOK
<1>5. /\ Laid(off, all)' = Laid(off, all) /\ Intended' = Intended /\ script' = script
      /\ terminal' = terminal
  BY <1>1, ScriptStays
<1>6. AheadOf(buffer', rest', off[Len(handled)] + Len(took), all) /\ Len(buffer') = n
  <2> DEFINE p == off[Len(handled)] + Len(took)
  <2>1. AheadOf(<<>>, rest, p, all)
    BY <1>1, <1>4 DEF Ahead
  <2> HIDE DEF p
  <2>2. /\ AheadOf(SubSeq(rest, 1, n), SubSeq(rest, n + 1, Len(rest)), p, all)
        /\ Len(SubSeq(rest, 1, n)) = n
    BY <1>3, <2>1, ChunkRead
  <2> QED
    BY <1>2, <2>2 DEF p
<1>7. Reading'
  BY <1>1 DEF Reading
<1>8. Ahead(off, all)'
  BY <1>1, <1>3, <1>4, <1>5, <1>6, <1>7 DEF Ahead
<1>9. AtHand'
  BY <1>1, <1>4, <1>5 DEF AtHand
<1>10. Laid(off, all)' /\ FirstOf(handled', Intended')
  BY <1>1, <1>5 DEF Follows
<1>11. result' = "running" /\ pc' # "confirm"
  BY <1>1, <1>4
<1> QED
  BY <1>8, <1>9, <1>10, <1>11 DEF Follows

LEMMA EndOfInputFollows ==
  ASSUME NEW off, NEW all, Inv, ScriptOK, Follows(off, all), EndOfInput
  PROVE  Follows(off, all)'
<1>1. Reading /\ buffer = <<>> /\ rest = <<>> /\ End("eof")
  BY DEF EndOfInput
<1>2. setting' = setting /\ pc' = "ended" /\ handled' = handled
  BY <1>1 DEF End, setting
<1>3. Len(handled) = Len(script)
  BY <1>1, NotAtTheEnd
<1> QED
  BY <1>2, <1>3, EndFollows

LEMMA ChooseFollows ==
  ASSUME NEW off, NEW all, Inv, ScriptOK, Follows(off, all), Choose
  PROVE  Follows(off, all)'
<1> DEFINE line == Head(buffer)
           k == Len(handled)
           N == Len(script)
           task == script[k + 1]
<1>1. /\ pc = "option" /\ op = "none" /\ took = <<>> /\ buffer # <<>> /\ buffer' = Tail(buffer)
      /\ setting' = setting /\ rest' = rest /\ result = "running"
  BY DEF Choose, Inv, TypeOK, setting
<1>2. FirstOf(handled, Intended) /\ Ahead(off, all) /\ Laid(off, all)
  BY <1>1 DEF Follows
<1>3. k \in Nat /\ N \in Nat /\ k =< N
  BY <1>2, IntendedFacts, FirstListed
<1>4. off[k] \in Nat
  <2>1. off \in [0..N -> Nat]
    BY <1>2 DEF Laid, Placed
  <2> HIDE DEF k, N
  <2> QED
    BY <1>3, <2>1
<1>5. AheadOf(buffer, rest, off[k], all)
  <2>1. Len(took) = 0
    BY <1>1
  <2>2. off[k] + 0 = off[k]
    BY <1>4
  <2> QED
    BY <1>2, <2>1, <2>2 DEF Ahead
<1>6. /\ AheadOf(Tail(buffer), rest, off[k] + 1, all) /\ line = all[off[k] + 1]
      /\ off[k] + 1 =< Len(all) /\ Len(Tail(buffer)) = Len(buffer) - 1
  BY <1>1, <1>5, HeadTaken
<1>7. ASSUME terminal PROVE Tail(buffer) = <<>>
  <2>1. Len(buffer) = 1
    BY <1>1, <1>2, <1>7 DEF Ahead
  <2>2. Len(Tail(buffer)) = 0 /\ Tail(buffer) \in Seq(MeantLine)
    BY <1>6, <2>1 DEF AheadOf
  <2> QED
    BY <2>2, EmptySeq
<1>8. /\ Laid(off, all)' = Laid(off, all) /\ Intended' = Intended /\ script' = script
      /\ terminal' = terminal
  BY <1>1, ScriptStays
<1>9. CASE k = N
  <2>1. Len(all) = off[N] + 1 /\ all[off[N] + 1].text = "0"
    <3> DEFINE x == off[N]
               z == Len(all)
    <3>1. x \in Nat /\ x + 1 =< z /\ (z = x \/ (z = x + 1 /\ all[x + 1].text = "0"))
      BY <1>2, <1>4, <1>6, <1>9 DEF Laid
    <3> HIDE DEF x, z
    <3>2. z = x + 1 /\ all[x + 1].text = "0"
      BY <3>1
    <3> QED
      BY <3>2 DEF x, z
  <2>2. line.text = "0"
    BY <1>6, <1>9, <2>1
  <2>3. pc' = "ended" /\ handled' = handled
    BY <2>2 DEF Choose
  <2> QED
    BY <1>1, <1>9, <2>3, EndFollows
<1>10. CASE k # N
  <2>1. k + 1 =< N
    <3> HIDE DEF k, N
    <3> QED
      BY <1>3, <1>10
  <2>2. /\ Shaped(task, forceApply) /\ task \in Seq(MeantLine) /\ Len(task) \in Nat
        /\ RolesOf(task) \in Seq(Taken) /\ Len(RolesOf(task)) = Len(task)
        /\ \A j \in 1..Len(task) : all[off[k] + j] = task[j]
    BY <1>2, <2>1, NextTask
  <2> DEFINE o == Operation[task[1].text]
             m == Len(task)
             a == Len(Asks(o))
  <2>3. m \in Nat /\ a \in Nat /\ 1 + a =< m /\ (o \in {"editNote", "apply"} => a = 1)
        /\ (o \notin {"editNote", "apply"} => m = 1 + a)
    BY <2>2, TaskSize
  <2>4. 1 \in 1..m
    <3> HIDE DEF m, a, o
    <3> QED
      BY <2>3
  <2>5. line = task[1]
    BY <1>6, <2>2, <2>4
  <2>6. line.text \in Options /\ line.role = "option" /\ o = Operation[line.text]
    BY <2>2, <2>5 DEF Shaped
  <2>7. line.text # "0"
    BY <2>6 DEF Options
  <2>8. /\ op' = o /\ took' = <<As(line, "option")>>
        /\ pc' = (IF Asks(o) = <<>> THEN "call" ELSE "input")
        /\ UNCHANGED <<left, astray, handled, result>>
    <3>1. /\ op' = Operation[line.text] /\ took' = <<As(line, "option")>>
          /\ pc' = (IF Asks(op') = <<>> THEN "call" ELSE "input")
          /\ UNCHANGED <<left, astray, handled, result>>
      BY <2>6, <2>7 DEF Choose
    <3> QED
      BY <2>6, <3>1
  <2>9. FirstOf(took', RolesOf(task)) /\ Len(took') = 1
    <3>1. FirstOf(<<>>, RolesOf(task)) /\ Len(<<>>) = 0
      BY <2>2, NothingYet
    <3>2. Len(<<>>) + 1 =< Len(task) /\ line = task[Len(<<>>) + 1]
      BY <2>4, <2>5, <3>1
    <3>3. /\ FirstOf(Append(<<>>, As(line, line.role)), RolesOf(task))
          /\ Len(Append(<<>>, As(line, line.role))) = Len(<<>>) + 1
      BY <2>2, <3>1, <3>2, TookLine
    <3>4. took' = Append(<<>>, As(line, line.role))
      BY <2>6, <2>8
    <3> QED
      BY <3>1, <3>3, <3>4
  <2>10. a = 0 <=> Asks(o) = <<>>
    <3>1. Asks(o) \in Seq({"number", "line"})
      BY AsksListed
    <3> QED
      BY <3>1, EmptySeq
  <2>11. At(task, 1, op', pc', left')
    <3>1. CASE Asks(o) = <<>>
      <4>1. pc' = "call" /\ a = 0 /\ op' = o
        BY <2>8, <2>10, <3>1
      <4>2. m = 1
        <5> HIDE DEF m, a, o
        <5> QED
          BY <2>3, <4>1
      <4> QED
        BY <2>4, <4>1, <4>2 DEF At
    <3>2. CASE Asks(o) # <<>>
      <4>1. pc' = "input" /\ a # 0 /\ op' = o
        BY <2>8, <2>10, <3>2
      <4>2. 1 =< a
        <5> HIDE DEF m, a, o
        <5> QED
          BY <2>3, <4>1
      <4> QED
        BY <2>4, <4>1, <4>2 DEF At
    <3> QED
      BY <3>1, <3>2
  <2>12. AtHand'
    BY <1>8, <2>1, <2>8, <2>9, <2>11 DEF AtHand
  <2>13. Ahead(off, all)'
    BY <1>1, <1>6, <1>7, <1>8, <2>8, <2>9 DEF Ahead
  <2>14. Laid(off, all)' /\ FirstOf(handled', Intended') /\ result' = "running" /\ pc' # "confirm"
    BY <1>1, <1>2, <1>8, <2>8
  <2> QED
    BY <2>12, <2>13, <2>14 DEF Follows
<1> QED
  BY <1>9, <1>10

LEMMA InputFollows ==
  ASSUME NEW off, NEW all, Inv, ScriptOK, Follows(off, all), Input, ~astray'
  PROVE  Follows(off, all)'
<1> DEFINE line == Head(buffer)
           role == Asks(op)[Len(took)]
           lines == Append(took, As(line, role))
           task == script[Len(handled) + 1]
           n == Len(took)
           m == Len(task)
           a == Len(Asks(op))
           p == off[Len(handled)]
<1>1. /\ pc = "input" /\ op # "none" /\ buffer # <<>> /\ buffer' = Tail(buffer)
      /\ setting' = setting /\ rest' = rest /\ result' = result
  BY DEF Input, Inv, TypeOK, setting
<1>2. /\ Shaped(task, forceApply) /\ task \in Seq(MeantLine) /\ FirstOf(took, RolesOf(task))
      /\ At(task, n, op, pc, left) /\ n \in Nat
  BY <1>1, Here
<1>3. n + 1 =< m
  BY <1>1, MoreToRead
<1>4. line = task[n + 1] /\ AheadOf(buffer', rest', p + (n + 1), all) /\ (terminal => buffer' = <<>>)
  BY <1>1, <1>3, LineTaken
<1>5. /\ m \in Nat /\ a \in Nat /\ 1 + a =< m
      /\ op = "editNote" => a = 1 /\ m = 2 + 2 * NoteFields
      /\ op = "apply" => a = 1 /\ m = (IF forceApply THEN 2 ELSE 3)
      /\ op \notin {"editNote", "apply"} => m = 1 + a
  BY <1>2, TaskSize DEF At
<1>6. 1 =< n /\ n =< a /\ op = Operation[task[1].text]
  BY <1>1, <1>2 DEF At
<1>7. role = line.role
  <2>1. \A i \in 1..a : task[i + 1].role = Asks(op)[i]
    BY <1>2, <1>6 DEF Shaped
  <2>2. n \in 1..a
    <3> HIDE DEF n, a
    <3> QED
      BY <1>2, <1>5, <1>6
  <2> QED
    BY <1>4, <2>1, <2>2
<1>8. FirstOf(lines, RolesOf(task)) /\ Len(lines) = n + 1
  <2>1. /\ FirstOf(Append(took, As(line, line.role)), RolesOf(task))
        /\ Len(Append(took, As(line, line.role))) = Len(took) + 1
    BY <1>2, <1>3, <1>4, TookLine
  <2> QED
    BY <1>7, <2>1
<1>9. n + 1 \in 1..m /\ n + 1 \in Nat
  <2> HIDE DEF n, m
  <2> QED
    BY <1>2, <1>3, <1>5
<1>10. CASE role = "line" \/ IsNumber(line.text)
  <2>1. /\ took' = lines /\ pc' = (IF n < a THEN "input" ELSE AfterInput)
        /\ UNCHANGED <<op, left, astray, handled>>
    BY <1>10 DEF Input
  <2>2. AfterInput = IF op \in {"editNote", "apply"} THEN "begin" ELSE "call"
    BY DEF AfterInput
  <2>3. At(task, n + 1, op', pc', left')
    <3>1. CASE n < a
      <4>1. n + 1 =< a
        <5> HIDE DEF n, a
        <5> QED
          BY <1>2, <1>5, <3>1
      <4> QED
        BY <1>6, <1>9, <2>1, <3>1, <4>1 DEF At
    <3>2. CASE ~(n < a) /\ op \in {"editNote", "apply"}
      <4>1. n + 1 = 2
        <5> HIDE DEF n, a
        <5> QED
          BY <1>2, <1>5, <1>6, <3>2
      <4>2. pc' = "begin"
        BY <2>1, <2>2, <3>2
      <4> QED
        BY <1>6, <1>9, <2>1, <4>1, <4>2 DEF At
    <3>3. CASE ~(n < a) /\ op \notin {"editNote", "apply"}
      <4>1. n + 1 = m
        <5> HIDE DEF n, a, m
        <5> QED
          BY <1>2, <1>5, <1>6, <3>3
      <4>2. pc' = "call"
        BY <2>1, <2>2, <3>3
      <4> QED
        BY <1>6, <1>9, <2>1, <4>1, <4>2 DEF At
    <3> QED
      BY <3>1, <3>2, <3>3
  <2>4. pc' # "ended" /\ pc' # "confirm"
    BY <2>1, <2>2
  <2>5. /\ Len(took') \in Nat /\ FirstOf(took', RolesOf(task)) /\ At(task, Len(took'), op', pc', left')
        /\ AheadOf(buffer', rest', off[Len(handled)] + Len(took'), all)
    BY <1>4, <1>8, <1>9, <2>1, <2>3
  <2>6. handled' = handled
    BY <2>1
  <2>7. pc # "ended" /\ op # "none"
    BY <1>1
  <2> HIDE DEF task
  <2>8. task = script[Len(handled) + 1]
    BY DEF task
  <2> QED
    BY <1>1, <1>4, <2>4, <2>5, <2>6, <2>7, <2>8, OnFollows
<1>11. CASE ~(role = "line" \/ IsNumber(line.text))
  <2>1. ~ReadsOn /\ Done(lines)
    BY <1>11 DEF Input, Astray
  <2>2. ~ (n < a) /\ op # "editNote" /\ (op = "apply" => forceApply)
    BY <2>1 DEF ReadsOn
  <2>3. n + 1 = m
    <3> HIDE DEF n, a, m
    <3>1. n = a
      BY <1>2, <1>5, <1>6, <2>2
    <3>2. CASE op = "apply"
      BY <1>5, <2>2, <3>1, <3>2
    <3>3. CASE op # "apply"
      BY <1>5, <2>2, <3>1, <3>3
    <3> QED
      BY <3>2, <3>3
  <2>4. /\ FirstOf(lines, RolesOf(task)) /\ Len(lines) = Len(task)
        /\ AheadOf(buffer', rest', off[Len(handled)] + Len(lines), all)
    BY <1>4, <1>8, <2>3
  <2>5. pc # "ended" /\ op # "none" /\ task = script[Len(handled) + 1]
    BY <1>1
  <2> HIDE DEF task, lines
  <2> QED
    BY <1>1, <1>4, <2>1, <2>4, <2>5, DoneFollows
<1> QED
  BY <1>10, <1>11

LEMMA BeginFollows ==
  ASSUME NEW off, NEW all, Inv, ScriptOK, Follows(off, all), Begin, ~astray'
  PROVE  Follows(off, all)'
<1> DEFINE task == script[Len(handled) + 1]
           n == Len(took)
           m == Len(task)
<1>1. /\ pc = "begin" /\ op \in {"editNote", "apply"} /\ op # "none" /\ pc # "ended"
      /\ setting' = setting /\ result' = result /\ buffer' = buffer /\ rest' = rest
  BY DEF Begin, Inv, TypeOK, setting
<1>2. /\ Shaped(task, forceApply) /\ FirstOf(took, RolesOf(task)) /\ At(task, n, op, pc, left)
      /\ AheadOf(buffer, rest, off[Len(handled)] + n, all) /\ n \in Nat
  BY <1>1, Here
<1>3. n = 2 /\ op = Operation[task[1].text] /\ n \in 1..m
  BY <1>1, <1>2 DEF At
<1>4. op = "apply" => m = (IF forceApply THEN 2 ELSE 3)
  BY <1>2, <1>3, TaskSize
<1>5. terminal => buffer' = <<>>
  BY <1>1 DEF Follows, Ahead, Reading
<1>6. AheadOf(buffer', rest', off[Len(handled)] + n, all)
  BY <1>1, <1>2
<1>7. ReadsOn \/ (op = "apply" /\ forceApply)
  BY <1>1 DEF ReadsOn
<1>8. CASE /\ pc' = (CASE op = "editNote" -> "text"
                       [] op = "apply" -> IF forceApply THEN "call" ELSE "confirm")
           /\ left' = (IF op = "editNote" THEN NoteFields ELSE 0)
           /\ UNCHANGED <<op, took, astray, handled>>
  <2>1. /\ op = "editNote" => pc' = "text" /\ left' = NoteFields
        /\ op = "apply" => pc' = IF forceApply THEN "call" ELSE "confirm"
    BY <1>8
  <2>2. At(task, n, op', pc', left')
    <3>1. CASE op = "editNote"
      <4>1. n - 2 * (NoteFields - left') = 2
        BY <1>3, <2>1, <3>1, CommandLineAssumption
      <4>2. pc' = "text" /\ op' = op
        BY <1>8, <2>1, <3>1
      <4> QED
        BY <1>3, <3>1, <4>1, <4>2 DEF At
    <3>2. CASE op = "apply" /\ forceApply
      <4>1. pc' = "call" /\ op' = op /\ n = m
        BY <1>3, <1>4, <1>8, <2>1, <3>2
      <4> QED
        BY <1>3, <4>1 DEF At
    <3>3. CASE op = "apply" /\ ~forceApply
      <4>1. pc' = "confirm" /\ op' = op
        BY <1>8, <2>1, <3>3
      <4> QED
        BY <1>3, <3>3, <4>1 DEF At
    <3> QED
      BY <1>1, <3>1, <3>2, <3>3
  <2>3. pc' # "ended" /\ (pc' = "confirm" => ~forceApply)
    BY <1>1, <2>1
  <2>4. /\ Len(took') \in Nat /\ FirstOf(took', RolesOf(task)) /\ At(task, Len(took'), op', pc', left')
        /\ AheadOf(buffer', rest', off[Len(handled)] + Len(took'), all) /\ handled' = handled
    BY <1>2, <1>6, <1>8, <2>2
  <2> HIDE DEF task
  <2>5. task = script[Len(handled) + 1]
    BY DEF task
  <2> QED
    BY <1>1, <1>5, <2>3, <2>4, <2>5, OnFollows
<1>9. CASE IF ReadsOn THEN Astray ELSE Done(took)
  <2>1. ~ReadsOn /\ Done(took)
    BY <1>9 DEF Astray
  <2>2. n = m
    BY <1>3, <1>4, <1>7, <2>1
  <2>3. /\ FirstOf(took, RolesOf(task)) /\ Len(took) = Len(task) /\ task = script[Len(handled) + 1]
        /\ AheadOf(buffer', rest', off[Len(handled)] + Len(took), all)
    BY <1>2, <1>6, <2>2
  <2> HIDE DEF task
  <2> QED
    BY <1>1, <1>5, <2>1, <2>3, DoneFollows
<1> QED
  BY <1>8, <1>9 DEF Begin

\* An operation that has read its fields up to the text of one, or up to its end.
LEMMA AtText ==
  ASSUME NEW task, NEW n, n \in 1..Len(task), NEW f, NEW d, d = n - 2 * (NoteFields - f),
         d \in {2, 3}, "editNote" = Operation[task[1].text]
  PROVE  At(task, n, "editNote", "text", f)
BY DEF At

LEMMA TextFollows ==
  ASSUME NEW off, NEW all, Inv, ScriptOK, Follows(off, all), Text, ~astray'
  PROVE  Follows(off, all)'
<1> DEFINE line == Head(buffer)
           task == script[Len(handled) + 1]
           n == Len(took)
           m == Len(task)
           F == NoteFields
           p == off[Len(handled)]
<1>1. /\ pc = "text" /\ op # "none" /\ pc # "ended" /\ buffer # <<>> /\ buffer' = Tail(buffer)
      /\ setting' = setting /\ rest' = rest /\ result' = result
  BY DEF Text, Inv, TypeOK, setting
<1>2. /\ Shaped(task, forceApply) /\ task \in Seq(MeantLine) /\ FirstOf(took, RolesOf(task))
      /\ At(task, n, op, pc, left) /\ n \in Nat
  BY <1>1, Here
<1>3. /\ op = "editNote" /\ op = Operation[task[1].text] /\ n - 2 * (F - left) \in {2, 3}
      /\ left \in 1..F
  BY <1>1, <1>2, CommandLineAssumption DEF At, Inv, TypeOK
<1>4. n + 1 =< m /\ m = 2 + 2 * F
  BY <1>1, <1>2, <1>3, MoreToRead, TaskSize
<1>5. line = task[n + 1] /\ AheadOf(buffer', rest', p + (n + 1), all) /\ (terminal => buffer' = <<>>)
  BY <1>1, <1>4, LineTaken
<1>6. /\ FirstOf(Append(took, As(line, line.role)), RolesOf(task))
      /\ Len(Append(took, As(line, line.role))) = n + 1
  BY <1>2, <1>4, <1>5, TookLine
<1> DEFINE i == F - left + 1
<1>7. /\ i \in 1..F /\ n + 1 \in 1..m /\ n + 1 \in Nat
      /\ n = 2 * i \/ n = 2 * i + 1
  <2> HIDE DEF n, m
  <2> QED
    BY <1>2, <1>3, <1>4, CommandLineAssumption
<1>8. /\ task[2 * i + 1].role = "text" /\ task[2 * i + 1].text # ".end"
      /\ task[2 * i + 2].role = "end" /\ task[2 * i + 2].text = ".end"
  <2>1. \A j \in 1..F : /\ task[2 * j + 1].role = "text" /\ task[2 * j + 1].text # ".end"
                        /\ task[2 * j + 2].role = "end" /\ task[2 * j + 2].text = ".end"
    BY <1>2, <1>3 DEF Shaped
  <2> HIDE DEF i
  <2> QED
    BY <1>7, <2>1
<1>9. CASE line.text = ".end"
  <2>1. /\ took' = Append(took, As(line, "end")) /\ left' = left - 1
        /\ pc' = (IF left = 1 THEN "call" ELSE "text")
        /\ UNCHANGED <<op, astray, handled>>
    BY <1>9 DEF Text
  <2>2. n = 2 * i + 1
    BY <1>5, <1>7, <1>8, <1>9
  <2>3. n + 1 = 2 * i + 2
    <3> HIDE DEF i
    <3> QED
      BY <1>7, <2>2
  <2>4. line.role = "end"
    BY <1>5, <1>8, <2>3
  <2>5. At(task, n + 1, op', pc', left')
    <3>1. CASE left = 1
      <4>1. n + 1 = m /\ pc' = "call" /\ op' = op
        <5>1. n + 1 = 2 * (F - left + 1) + 2
          BY <2>3
        <5> HIDE DEF n, m
        <5> QED
          BY <1>3, <1>4, <2>1, <3>1, <5>1, CommandLineAssumption
      <4> QED
        BY <1>3, <1>7, <4>1 DEF At
    <3>2. CASE left # 1
      <4>1. (n + 1) - 2 * (F - left') \in {2, 3}
        <5>1. n + 1 = 2 * (F - left + 1) + 2
          BY <2>3
        <5>2. left \in Int /\ left' = left - 1 /\ F \in Int /\ n \in Int
          BY <1>2, <1>3, <2>1, CommandLineAssumption
        <5> DEFINE l == left'
        <5>3. l = left - 1
          BY <5>2
        <5> HIDE DEF n, m, l, F
        <5>4. (n + 1) - 2 * (F - l) = 2
          BY <5>1, <5>2, <5>3
        <5> QED
          BY <5>4 DEF l
      <4>2. pc' = "text" /\ op' = op
        BY <2>1, <3>2
      <4> QED
        <5> HIDE DEF n, m, task
        <5>1. op' = Operation[task[1].text] /\ op' = "editNote" /\ n + 1 \in 1..Len(task)
          BY <1>3, <1>7, <4>2 DEF m
        <5> DEFINE q == n + 1
        <5>2. q \in 1..Len(task) /\ q - 2 * (NoteFields - left') \in {2, 3}
          BY <4>1, <5>1
        <5> DEFINE l == left'
                   d == q - 2 * (NoteFields - l)
        <5>3. d = q - 2 * (NoteFields - l) /\ d \in {2, 3}
          BY <5>2
        <5> HIDE DEF q, l, d
        <5>4. At(task, q, "editNote", "text", l) /\ op' = "editNote" /\ pc' = "text"
          BY <4>2, <5>1, <5>2, <5>3, AtText
        <5> QED
          BY <5>4 DEF q, l
    <3> QED
      BY <3>1, <3>2
  <2>6. pc' # "ended" /\ pc' # "confirm" /\ handled' = handled
    BY <2>1
  <2>7. /\ Len(took') \in Nat /\ FirstOf(took', RolesOf(task)) /\ At(task, Len(took'), op', pc', left')
        /\ AheadOf(buffer', rest', off[Len(handled)] + Len(took'), all)
    BY <1>5, <1>6, <1>7, <2>1, <2>4, <2>5
  <2> HIDE DEF task
  <2>8. task = script[Len(handled) + 1]
    BY DEF task
  <2> QED
    BY <1>1, <1>5, <2>6, <2>7, <2>8, OnFollows
<1>10. CASE line.text # ".end"
  <2>1. Decodes(line.text)
    BY <1>10 DEF Text, Astray
  <2>2. took' = Append(took, As(line, "text")) /\ UNCHANGED <<pc, op, left, astray, handled>>
    BY <1>10, <2>1 DEF Text
  <2>3. n = 2 * i
    <3>1. n = 2 * i + 1 => n + 1 = 2 * i + 2
      <4> HIDE DEF i
      <4> QED
        BY <1>7
    <3> QED
      BY <1>5, <1>7, <1>8, <1>10, <3>1
  <2>4. line.role = "text"
    BY <1>5, <1>8, <2>3
  <2>5. At(task, n + 1, op', pc', left')
    <3>1. (n + 1) - 2 * (F - left') \in {2, 3}
      <4>1. n = 2 * (F - left + 1) /\ left' = left
        BY <2>2, <2>3
      <4>2. left \in Int /\ F \in Int
        BY <1>3, CommandLineAssumption
      <4> HIDE DEF n, m, F
      <4>3. (n + 1) - 2 * (F - left) = 3
        BY <4>1, <4>2
      <4> QED
        BY <4>1, <4>3
    <3>2. pc' = "text" /\ op' = op
      BY <1>1, <2>2
    <3> HIDE DEF n, m, task
    <3>3. op' = Operation[task[1].text] /\ op' = "editNote" /\ n + 1 \in 1..Len(task)
      BY <1>3, <1>7, <3>2 DEF m
    <3> DEFINE q == n + 1
    <3>4. q \in 1..Len(task) /\ q - 2 * (NoteFields - left') \in {2, 3}
      BY <3>1, <3>3
    <3> DEFINE l == left'
           d == q - 2 * (NoteFields - l)
    <3>5. d = q - 2 * (NoteFields - l) /\ d \in {2, 3}
      BY <3>4
    <3> HIDE DEF q, l, d
    <3>6. At(task, q, "editNote", "text", l) /\ op' = "editNote" /\ pc' = "text"
      BY <1>1, <2>2, <3>3, <3>4, <3>5, AtText
    <3> QED
      BY <3>6 DEF q, l
  <2>6. pc' # "ended" /\ pc' # "confirm" /\ handled' = handled
    BY <1>1, <2>2
  <2>7. /\ Len(took') \in Nat /\ FirstOf(took', RolesOf(task)) /\ At(task, Len(took'), op', pc', left')
        /\ AheadOf(buffer', rest', off[Len(handled)] + Len(took'), all)
    BY <1>5, <1>6, <1>7, <2>2, <2>4, <2>5
  <2> HIDE DEF task
  <2>8. task = script[Len(handled) + 1]
    BY DEF task
  <2> QED
    BY <1>1, <1>5, <2>6, <2>7, <2>8, OnFollows
<1> QED
  BY <1>9, <1>10

\* On a terminal the question's reader takes its answer and no other line.
LEMMA ConfirmFollows ==
  ASSUME NEW off, NEW all, Inv, ScriptOK, Follows(off, all), Confirm, terminal \/ forceApply
  PROVE  Follows(off, all)'
<1> DEFINE task == script[Len(handled) + 1]
           m == Len(task)
           p == off[Len(handled)]
           lines == Append(took, As(rest[1], "answer"))
<1>1. /\ pc = "confirm" /\ op # "none" /\ pc # "ended"
      /\ setting' = setting /\ result' = result /\ buffer' = buffer
  BY DEF Confirm, Inv, TypeOK, setting
<1>2. ~forceApply /\ terminal /\ buffer = <<>>
  BY <1>1 DEF Follows, Ahead, Reading
<1>3. /\ Shaped(task, forceApply) /\ task \in Seq(MeantLine) /\ FirstOf(took, RolesOf(task))
      /\ At(task, Len(took), op, pc, left) /\ m \in Nat /\ p \in Nat
      /\ \A j \in 1..m : all[p + j] = task[j]
      /\ AheadOf(buffer, rest, p + Len(took), all)
  BY <1>1, Here
<1>4. op = "apply" /\ op = Operation[task[1].text] /\ Len(took) = 2
  BY <1>1, <1>3 DEF At
<1>5. m = 3 /\ task[3].role = "answer"
  <2>1. m = 3
    BY <1>2, <1>3, <1>4, TaskSize
  <2>2. task[3].role = "answer"
    BY <1>2, <1>3, <1>4 DEF Shaped
  <2> QED
    BY <2>1, <2>2
<1>6. rest # <<>>
  BY <1>1, <1>2, NotAtTheEnd
<1>7. PICK n \in Chunk : /\ rest' = SubSeq(rest, n + 1, Len(rest))
                         /\ IF rest[1].text = "y"
                              THEN pc' = "call" /\ took' = lines /\ UNCHANGED <<op, left, astray, handled>>
                              ELSE Done(lines)
  BY <1>6 DEF Confirm
<1>8. n = 1 /\ 1 \in 1..Len(rest)
  BY <1>2, <1>7 DEF Chunk
<1>9. AheadOf(buffer', rest', p + 3, all) /\ rest[1] = task[3]
  <2>1. AheadOf(<<>>, rest, p + 2, all)
    BY <1>2, <1>3, <1>4
  <2>2. AheadOf(<<>>, SubSeq(rest, 1 + 1, Len(rest)), (p + 2) + 1, all) /\ rest[1] = all[(p + 2) + 1]
    BY <1>8, <2>1, AnswerTaken
  <2>3. (p + 2) + 1 = p + 3
    BY <1>3
  <2>4. 3 \in 1..m
    BY <1>5
  <2>5. all[p + 3] = task[3]
    BY <1>3, <2>4
  <2>6. buffer' = <<>> /\ rest' = SubSeq(rest, 1 + 1, Len(rest))
    BY <1>1, <1>2, <1>7, <1>8
  <2> QED
    BY <2>2, <2>3, <2>5, <2>6
<1>10. FirstOf(lines, RolesOf(task)) /\ Len(lines) = 3
  <2>1. Len(took) + 1 =< Len(task) /\ rest[1] = task[Len(took) + 1]
    BY <1>4, <1>5, <1>9
  <2>2. /\ FirstOf(Append(took, As(rest[1], rest[1].role)), RolesOf(task))
        /\ Len(Append(took, As(rest[1], rest[1].role))) = Len(took) + 1
    BY <1>3, <2>1, TookLine
  <2> QED
    BY <1>4, <1>5, <1>9, <2>2
<1>11. CASE rest[1].text = "y"
  <2>1. pc' = "call" /\ took' = lines /\ UNCHANGED <<op, left, astray, handled>>
    BY <1>7, <1>11
  <2>2. At(task, 3, op', pc', left')
    BY <1>4, <1>5, <2>1 DEF At
  <2>3. /\ Len(took') \in Nat /\ FirstOf(took', RolesOf(task)) /\ At(task, Len(took'), op', pc', left')
        /\ AheadOf(buffer', rest', off[Len(handled)] + Len(took'), all)
        /\ pc' # "ended" /\ pc' # "confirm" /\ handled' = handled /\ (terminal => buffer' = <<>>)
    BY <1>1, <1>2, <1>9, <1>10, <2>1, <2>2
  <2> HIDE DEF task
  <2>4. task = script[Len(handled) + 1]
    BY DEF task
  <2> QED
    BY <1>1, <2>3, <2>4, OnFollows
<1>12. CASE rest[1].text # "y"
  <2>1. Done(lines)
    BY <1>7, <1>12
  <2>2. /\ FirstOf(lines, RolesOf(task)) /\ Len(lines) = Len(task)
        /\ AheadOf(buffer', rest', off[Len(handled)] + Len(lines), all)
        /\ (terminal => buffer' = <<>>) /\ task = script[Len(handled) + 1]
    BY <1>1, <1>2, <1>5, <1>9, <1>10
  <2> HIDE DEF task, lines
  <2> QED
    BY <1>1, <2>1, <2>2, DoneFollows
<1> QED
  BY <1>11, <1>12

LEMMA CallFollows ==
  ASSUME NEW off, NEW all, Inv, ScriptOK, Follows(off, all), Call
  PROVE  Follows(off, all)'
<1> DEFINE task == script[Len(handled) + 1]
<1>1. /\ pc = "call" /\ op # "none" /\ pc # "ended" /\ Done(took)
      /\ setting' = setting /\ result' = result /\ buffer' = buffer /\ rest' = rest
  BY DEF Call, Inv, TypeOK, setting
<1>2. /\ FirstOf(took, RolesOf(task)) /\ At(task, Len(took), op, pc, left)
      /\ AheadOf(buffer, rest, off[Len(handled)] + Len(took), all)
  BY <1>1, Here
<1>3. Len(took) = Len(task) /\ (terminal => buffer' = <<>>) /\ task = script[Len(handled) + 1]
  BY <1>1, <1>2 DEF At, Follows, Ahead, Reading
<1>4. AheadOf(buffer', rest', off[Len(handled)] + Len(took), all)
  BY <1>1, <1>2
<1> HIDE DEF task
<1> QED
  BY <1>1, <1>2, <1>3, <1>4, DoneFollows

-----------------------------------------------------------------------------
(* Every line is taken for what it was written for.                        *)

LEMMA NextOnTrack == OnTrack /\ [Next]_vars => OnTrack'
<1> SUFFICES ASSUME OnTrack, [Next]_vars PROVE OnTrack'
  OBVIOUS
<1>1. Inv /\ ScriptOK /\ Inv'
  BY NextInv DEF OnTrack
<1>2. setting' = setting
  BY DEF Next, Step, MenuTop, End, Fill, EndOfInput, Choose, Input, Begin, Text, Confirm, Call,
         Interrupt, OutputFails, vars
<1>3. ScriptOK' /\ terminal' = terminal /\ forceApply' = forceApply
  BY <1>1, <1>2, ScriptStays
<1>4. astray => astray'
  BY DEF Next, Step, MenuTop, End, Fill, EndOfInput, Choose, Input, Begin, Text, Confirm, Call,
         Interrupt, OutputFails, vars, Done, Astray, Back
<1>5. SUFFICES ASSUME Undisturbed' PROVE (\E off, all : Follows(off, all))'
  BY <1>1, <1>3 DEF OnTrack
<1>6. Undisturbed /\ ~astray'
  BY <1>3, <1>4, <1>5 DEF Undisturbed
<1>7. PICK off, all : Follows(off, all)
  BY <1>6 DEF OnTrack
<1>8. Follows(off, all)'
  <2>1. CASE MenuTop
    BY <1>1, <1>7, <2>1, MenuTopFollows
  <2>2. CASE Fill
    BY <1>1, <1>7, <2>2, FillFollows
  <2>3. CASE EndOfInput
    BY <1>1, <1>7, <2>3, EndOfInputFollows
  <2>4. CASE Choose
    BY <1>1, <1>7, <2>4, ChooseFollows
  <2>5. CASE Input
    BY <1>1, <1>6, <1>7, <2>5, InputFollows
  <2>6. CASE Begin
    BY <1>1, <1>6, <1>7, <2>6, BeginFollows
  <2>7. CASE Text
    BY <1>1, <1>6, <1>7, <2>7, TextFollows
  <2>8. CASE Confirm
    <3>1. terminal \/ forceApply
      BY <1>6 DEF Undisturbed
    <3> QED
      BY <1>1, <1>7, <2>8, <3>1, ConfirmFollows
  <2>9. CASE Call
    BY <1>1, <1>7, <2>9, CallFollows
  <2>10. CASE Interrupt \/ UNCHANGED vars
    <3>1. UNCHANGED <<setting, rest, buffer, pc, op, took, left, astray, handled, result>>
      BY <2>10 DEF Interrupt, vars
    <3>2. /\ Laid(off, all)' = Laid(off, all) /\ Intended' = Intended /\ terminal' = terminal
          /\ forceApply' = forceApply /\ script' = script
      BY <3>1, ScriptStays
    <3> QED
      BY <1>7, <3>1, <3>2 DEF Follows, AtHand, Ahead, Reading
  <2>11. CASE OutputFails
    <3>1. setting' = setting /\ pc' = "ended" /\ handled' = handled /\ result' = "broken"
      BY <2>11 DEF OutputFails, End, setting
    <3> QED
      BY <1>7, <3>1, EndFollows
  <2> QED
    BY <2>1, <2>2, <2>3, <2>4, <2>5, <2>6, <2>7, <2>8, <2>9, <2>10, <2>11 DEF Next, Step
<1> QED
  BY <1>8

\* Any number of tasks of any text, read in chunks of any size: as long as no operation
\* stops before its last line, and the question is asked of a terminal or not at all, the
\* operations carried out are those of the script, in its order, with every line taken
\* for what it was written for, and none is missing when the input ends or the program
\* is left.
THEOREM LinesAreTakenAsMeant == Spec => []AsMeant
<1>1. OnTrack => AsMeant
  <2> SUFFICES ASSUME OnTrack, Undisturbed
               PROVE  /\ IsPrefix(handled, Intended)
                      /\ result \in {"exit", "eof"} => handled = Intended
    BY DEF AsMeant, Undisturbed
  <2>1. PICK off, all : Follows(off, all)
    BY DEF OnTrack
  <2>2. /\ FirstOf(handled, Intended)
        /\ result \in {"exit", "eof"} => Len(handled) = Len(script)
    BY <2>1 DEF Follows
  <2>3. Intended \in Seq(Seq(Taken)) /\ Len(Intended) = Len(script)
    BY IntendedFacts DEF OnTrack
  <2>4. IsPrefix(handled, Intended)
    BY <2>2, <2>3, FirstIsPrefix
  <2>5. result \in {"exit", "eof"} => handled = Intended
    BY <2>2, <2>3, AllOfThem
  <2> QED
    BY <2>4, <2>5
<1> QED
  BY InitOnTrack, NextOnTrack, <1>1, PTL DEF Spec
=============================================================================
