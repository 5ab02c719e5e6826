----------------------------- MODULE PageProofs -----------------------------
(***************************************************************************)
(* Proofs about what the page shows.                                       *)
(*                                                                         *)
(* The log console and the hub behind it (LogHub): for any number of       *)
(* goroutines that log, connections and polls, and any capacity of the     *)
(* buffer and of the channels.                                             *)
(*                                                                         *)
(* The listings of decks and notes (Browsing): for any collection, any     *)
(* page size and any number of requests under way.                         *)
(***************************************************************************)
EXTENDS LogHub, Browsing, FiniteSetTheorems, SequenceTheorems, TLAPS

-----------------------------------------------------------------------------
(* Numbers.  The induction theorems of the library cannot be used here; a  *)
(* set of numbers that has no least one is empty all the same, since the   *)
(* finite sets are well-ordered enough.                                    *)

\* A nonempty set of numbers has a least one.
LEMMA LeastNumber ==
  ASSUME NEW T \in SUBSET Nat, T # {}
  PROVE  \E m \in T : \A k \in T : m =< k
<1>1. PICK n \in T : TRUE
  OBVIOUS
<1>. DEFINE U == {1..k : k \in T}
<1>2. U \subseteq FiniteSubsetsOf(Nat) /\ U # {}
  BY <1>1, FS_Interval DEF FiniteSubsetsOf
<1>3. IsWellFoundedOn(StrictSubsetOrdering(Nat), FiniteSubsetsOf(Nat))
  BY FS_StrictSubsetOrderingWellFounded
<1>4. PICK x \in U : \A y \in U : ~ (<<y, x>> \in StrictSubsetOrdering(Nat))
  BY <1>2, <1>3, WFMin
<1>5. PICK m \in T : x = 1..m
  BY <1>4
<1>6. ASSUME NEW k \in T
      PROVE  m =< k
  <2>1. SUFFICES ASSUME k < m PROVE FALSE
    OBVIOUS
  <2>2. 1..k \in U /\ 1..k \in SUBSET Nat /\ 1..m \in SUBSET Nat
    OBVIOUS
  <2>3. 1..k \subseteq 1..m /\ 1..k # 1..m
    BY <2>1
  <2>. QED BY <1>4, <1>5, <2>2, <2>3 DEF StrictSubsetOrdering
<1>. QED BY <1>6

\* The largest of a bounded set of numbers is its maximum.
LEMMA Largest ==
  ASSUME NEW T \in SUBSET Nat, T # {}, NEW n \in Nat, \A t \in T : t =< n
  PROVE  Max(T) \in T /\ \A t \in T : t =< Max(T)
<1>. DEFINE U == {n - t : t \in T}
<1>1. U \in SUBSET Nat /\ U # {}
  <2>1. \A t \in T : n - t \in Nat
    OBVIOUS
  <2>. QED BY <2>1
<1>2. PICK m \in U : \A k \in U : m =< k
  BY <1>1, LeastNumber
<1>3. PICK x \in T : m = n - x
  BY <1>2
<1>4. \A t \in T : n - x =< n - t
  BY <1>2, <1>3
<1>5. \A t \in T : x >= t
  BY <1>3, <1>4
<1>6. Max(T) \in T /\ \A t \in T : Max(T) >= t
  BY <1>3, <1>5 DEF Max
<1>. QED BY <1>6

\* A set that holds zero and with every number the next holds all of them.
LEMMA Induction ==
  ASSUME NEW S \in SUBSET Nat, 0 \in S, \A n \in S : n + 1 \in S
  PROVE  S = Nat
<1>1. SUFFICES ASSUME Nat \ S # {} PROVE FALSE
  OBVIOUS
<1>2. PICK m \in Nat \ S : \A k \in Nat \ S : m =< k
  BY <1>1, LeastNumber
<1>3. m - 1 \in Nat /\ ~ (m =< m - 1) /\ (m - 1) + 1 = m
  BY m # 0
<1>. QED BY <1>2, <1>3

-----------------------------------------------------------------------------
(* Picked.                                                                  *)

\* What Picked has collected after each of the first n events.
Collects(f, events, S, n) ==
  f = [i \in 0..n |-> IF i = 0 THEN <<>>
                      ELSE IF events[i] \in S THEN Append(f[i - 1], events[i]) ELSE f[i - 1]]

\* The function that Picked defines exists.
LEMMA PickedDefined ==
  ASSUME NEW events, NEW S, Len(events) \in Nat
  PROVE  \E out : Collects(out, events, S, Len(events)) /\ Picked(events, S) = out[Len(events)]
<1>. USE DEF Collects
<1>. DEFINE Is(f, n) == Collects(f, events, S, n)
            T == {n \in Nat : \E f : Is(f, n)}
<1>1. 0 \in T
  <2>1. Is([i \in 0..0 |-> <<>>], 0)
    OBVIOUS
  <2>. QED BY <2>1
<1>2. ASSUME NEW n \in T
      PROVE  n + 1 \in T
  <2>1. PICK f : Is(f, n)
    OBVIOUS
  <2>. DEFINE g == [i \in 0..(n + 1) |->
                      IF i =< n THEN f[i]
                      ELSE IF events[i] \in S THEN Append(f[n], events[i]) ELSE f[n]]
  <2>2. n \in Nat /\ 0..(n + 1) = (0..n) \union {n + 1} /\ ~ (n + 1 =< n) /\ (n + 1) - 1 = n /\ n + 1 # 0
    OBVIOUS
  <2>3. \A i \in 0..n : g[i] = f[i]
    BY <2>2
  <2>4. \A i \in (0..n) \ {0} : i - 1 \in 0..n
    OBVIOUS
  <2>5. ASSUME NEW i \in 0..(n + 1)
        PROVE  g[i] = IF i = 0 THEN <<>>
                      ELSE IF events[i] \in S THEN Append(g[i - 1], events[i]) ELSE g[i - 1]
    <3>1. CASE i \in 0..n
      <4>1. f[i] = IF i = 0 THEN <<>>
                   ELSE IF events[i] \in S THEN Append(f[i - 1], events[i]) ELSE f[i - 1]
        BY <2>1, <3>1
      <4>2. g[i] = f[i] /\ (i # 0 => g[i - 1] = f[i - 1])
        BY <2>3, <2>4, <3>1
      <4>. QED BY <4>1, <4>2
    <3>2. CASE i = n + 1
      <4>1. g[i] = IF events[i] \in S THEN Append(f[n], events[i]) ELSE f[n]
        BY <2>2, <3>2
      <4>2. g[i - 1] = f[n] /\ i # 0
        BY <2>2, <2>3, <3>2
      <4>. QED BY <4>1, <4>2
    <3>. QED BY <2>2, <3>1, <3>2
  <2>6. Is(g, n + 1)
    BY <2>5
  <2>. HIDE DEF g, Is
  <2>. QED BY <2>2, <2>6
<1>3. Len(events) \in T
  BY <1>1, <1>2, Induction
<1>. HIDE DEF T
<1>4. \E f : Is(f, Len(events))
  BY <1>3 DEF T
<1>. QED BY <1>4 DEF Picked

\* The elements of a sequence.
LEMMA ElementsIn ==
  ASSUME NEW S, NEW s \in Seq(S)
  PROVE  ToSet(s) \subseteq S
BY DEF ToSet

\* The elements of a longer sequence.
LEMMA AppendedSet ==
  ASSUME NEW S, NEW s \in Seq(S), NEW e \in S
  PROVE  ToSet(Append(s, e)) = ToSet(s) \union {e}
<1>1. /\ Append(s, e) \in Seq(S) /\ Len(Append(s, e)) = Len(s) + 1 /\ Len(s) \in Nat
      /\ Append(s, e)[Len(s) + 1] = e /\ \A i \in 1..Len(s) : Append(s, e)[i] = s[i]
  OBVIOUS
<1>2. 1..(Len(s) + 1) = (1..Len(s)) \union {Len(s) + 1}
  BY <1>1
<1>3. ToSet(s) = {s[i] : i \in 1..Len(s)} /\ ToSet(Append(s, e)) = {Append(s, e)[i] : i \in 1..(Len(s) + 1)}
  BY <1>1 DEF ToSet
<1>. QED BY <1>1, <1>2, <1>3

\* Nothing is lost by taking the head off a sequence.
LEMMA HeadAndTail ==
  ASSUME NEW S, NEW s \in Seq(S), s # <<>>
  PROVE  Head(s) \in S /\ ToSet(s) \subseteq {Head(s)} \union ToSet(Tail(s))
<1>1. /\ Len(s) \in Nat /\ Len(s) >= 1 /\ Tail(s) \in Seq(S) /\ Len(Tail(s)) = Len(s) - 1
      /\ Head(s) = s[1] /\ \A i \in 1..(Len(s) - 1) : Tail(s)[i] = s[i + 1]
  OBVIOUS
<1>2. ASSUME NEW i \in 1..Len(s), i # 1
      PROVE  s[i] \in ToSet(Tail(s))
  <2>1. i - 1 \in 1..(Len(s) - 1) /\ (i - 1) + 1 = i
    BY <1>1, <1>2
  <2>2. DOMAIN Tail(s) = 1..(Len(s) - 1)
    BY <1>1
  <2>. QED BY <1>1, <2>1, <2>2 DEF ToSet
<1>3. Head(s) \in S
  BY <1>1
<1>. QED BY <1>1, <1>2, <1>3 DEF ToSet

\* Of the events of a sequence Picked collects those of a set, and no others.
THEOREM PickedCollects ==
  ASSUME NEW S, NEW events \in Seq(S), NEW W
  PROVE  /\ Picked(events, W) \in Seq(S)
         /\ ToSet(Picked(events, W)) = {e \in ToSet(events) : e \in W}
<1>0. Len(events) \in Nat
  OBVIOUS
<1>1. PICK out : Collects(out, events, W, Len(events)) /\ Picked(events, W) = out[Len(events)]
  BY <1>0, PickedDefined
<1>. DEFINE Collected(n) == {events[i] : i \in {j \in 1..n : events[j] \in W}}
            Good(n) == out[n] \in Seq(S) /\ ToSet(out[n]) = Collected(n)
            T == {n \in Nat : n =< Len(events) => Good(n)}
<1>2. 0 \in T
  <2>1. out[0] = <<>> /\ out[0] \in Seq(S)
    BY <1>1 DEF Collects
  <2>2. Collected(0) = {} /\ ToSet(<<>>) = {}
    BY DEF ToSet
  <2>3. Good(0)
    BY <2>1, <2>2
  <2>. HIDE DEF Good
  <2>. QED BY <2>3
<1>3. ASSUME NEW n \in T
      PROVE  n + 1 \in T
  <2>1. SUFFICES ASSUME n + 1 =< Len(events) PROVE Good(n + 1)
    OBVIOUS
  <2>2. n \in Nat /\ n + 1 \in 0..Len(events) /\ n + 1 # 0 /\ (n + 1) - 1 = n /\ n + 1 \in 1..Len(events)
    BY <2>1
  <2>3. Good(n)
    BY <2>1, <2>2
  <2>4. out[n + 1] = IF events[n + 1] \in W THEN Append(out[n], events[n + 1]) ELSE out[n]
    BY <1>1, <2>2 DEF Collects
  <2>5. events[n + 1] \in S /\ 1..(n + 1) = (1..n) \union {n + 1}
    BY <2>2
  <2>6. CASE events[n + 1] \in W
    <3>1. Collected(n + 1) = Collected(n) \union {events[n + 1]}
      BY <2>5, <2>6
    <3>2. ToSet(Append(out[n], events[n + 1])) = ToSet(out[n]) \union {events[n + 1]}
      BY <2>3, <2>5, AppendedSet
    <3>3. out[n + 1] = Append(out[n], events[n + 1]) /\ Append(out[n], events[n + 1]) \in Seq(S)
      BY <2>3, <2>4, <2>5, <2>6
    <3>. QED BY <2>3, <3>1, <3>2, <3>3
  <2>7. CASE ~ (events[n + 1] \in W)
    <3>1. Collected(n + 1) = Collected(n)
      BY <2>5, <2>7
    <3>. QED BY <2>3, <2>4, <2>7, <3>1
  <2>. QED BY <2>6, <2>7
<1>4. Len(events) \in T
  <2>1. T \in SUBSET Nat
    OBVIOUS
  <2>. HIDE DEF T
  <2>. QED BY <1>0, <1>2, <1>3, <2>1, Induction
<1>5. Good(Len(events))
  BY <1>4
<1>6. Collected(Len(events)) = {e \in ToSet(events) : e \in W}
  BY DEF ToSet
<1>. QED BY <1>1, <1>5, <1>6

-----------------------------------------------------------------------------
(* The buffer.                                                             *)

\* An element is in the end of a sequence if few came later.
LEMMA LastOnes ==
  ASSUME NEW s \in Seq(Events), NEW n \in Nat \ {0}
  PROVE  /\ Latest(s, n) \in Seq(Events) /\ Len(Latest(s, n)) = IF Len(s) > n THEN n ELSE Len(s)
         /\ ToSet(Latest(s, n)) = {s[i] : i \in {j \in 1..Len(s) : j > Len(s) - n}}
<1>0. Len(s) \in Nat
  OBVIOUS
<1>1. CASE Len(s) > n
  <2>. DEFINE end == SubSeq(s, Len(s) - n + 1, Len(s))
  <2>1. Len(s) - n + 1 \in 1..Len(s) /\ Len(s) \in 1..Len(s)
    BY <1>0, <1>1
  <2>2. end \in Seq(Events) /\ Len(end) = n /\ \A i \in 1..n : end[i] = s[Len(s) - n + i]
    BY <1>0, <2>1
  <2>3. DOMAIN end = 1..n
    BY <2>2
  <2>4. \A i \in 1..n : Len(s) - n + i \in 1..Len(s) /\ Len(s) - n + i > Len(s) - n
    BY <1>0, <1>1
  <2>5. \A j \in 1..Len(s) : j > Len(s) - n =>
           j - (Len(s) - n) \in 1..n /\ Len(s) - n + (j - (Len(s) - n)) = j
    BY <1>0
  <2>6. Latest(s, n) = end
    BY <1>1 DEF Latest
  <2>. HIDE DEF end
  <2>7. ToSet(end) = {end[i] : i \in 1..n}
    BY <2>3 DEF ToSet
  <2>8. ToSet(end) \subseteq {s[i] : i \in {j \in 1..Len(s) : j > Len(s) - n}}
    <3>1. \A i \in 1..n : end[i] = s[Len(s) - n + i] /\ Len(s) - n + i \in {j \in 1..Len(s) : j > Len(s) - n}
      BY <2>2, <2>4
    <3>. QED BY <2>7, <3>1
  <2>9. ASSUME NEW j \in 1..Len(s), j > Len(s) - n
        PROVE  s[j] \in ToSet(end)
    <3>. DEFINE i == j - (Len(s) - n)
    <3>1. i \in 1..n /\ Len(s) - n + i = j
      BY <2>5, <2>9
    <3>. HIDE DEF i
    <3>2. end[i] = s[j]
      BY <2>2, <3>1
    <3>. QED BY <2>7, <3>1, <3>2
  <2>. QED BY <1>1, <2>2, <2>6, <2>8, <2>9
<1>2. CASE ~ (Len(s) > n)
  <2>1. \A j \in 1..Len(s) : j > Len(s) - n
    BY <1>0, <1>2
  <2>. QED BY <1>0, <1>2, <2>1 DEF Latest, ToSet
<1>. QED BY <1>1, <1>2

\* The buffer is the end of the log.
LEMMA BufferOfLog ==
  ASSUME TypeHub
  PROVE  Buffer \in Seq(Events) /\ ToSet(Buffer) \subseteq ToSet(log)
<1>1. Buffer = Latest(log, BufCap) /\ log \in Seq(Events) /\ BufCap \in Nat \ {0}
  BY LogAssumption DEF Buffer, TypeHub
<1>2. ToSet(log) = {log[i] : i \in 1..Len(log)}
  BY <1>1 DEF ToSet
<1>. QED BY <1>1, <1>2, LastOnes

\* Publishing puts the event into the buffer, and no other comes back.
LEMMA BufferGrows ==
  ASSUME TypeHub, NEW e \in Events, log' = Append(log, e)
  PROVE  ToSet(Buffer)' \subseteq ToSet(Buffer) \union {e}
<1>1. /\ Buffer = Latest(log, BufCap) /\ Buffer' = Latest(log', BufCap)
      /\ log \in Seq(Events) /\ log' \in Seq(Events) /\ BufCap \in Nat \ {0}
  BY LogAssumption DEF Buffer, TypeHub
<1>2. /\ Len(log') = Len(log) + 1 /\ Len(log) \in Nat
      /\ log'[Len(log) + 1] = e /\ \A i \in 1..Len(log) : log'[i] = log[i]
  BY <1>1
<1>3. /\ ToSet(Buffer)' = {log'[i] : i \in {j \in 1..Len(log') : j > Len(log') - BufCap}}
      /\ ToSet(Buffer) = {log[i] : i \in {j \in 1..Len(log) : j > Len(log) - BufCap}}
  BY <1>1, LastOnes
<1>4. ASSUME NEW x \in ToSet(Buffer)'
      PROVE  x \in ToSet(Buffer) \union {e}
  <2>1. PICK i \in 1..Len(log') : x = log'[i] /\ i > Len(log') - BufCap
    BY <1>3, <1>4
  <2>2. i = Len(log) + 1 \/ (i \in 1..Len(log) /\ i > Len(log) - BufCap)
    BY <1>1, <1>2, <2>1
  <2>. QED BY <1>2, <1>3, <2>1, <2>2
<1>. QED BY <1>4

-----------------------------------------------------------------------------
(* The inductive invariant.                                                *)

\* A connection that has not begun to stream has written nothing; those to come have
\* not begun at all; and of a broken connection the page has received nothing more.
Unbegun ==
  \A c \in Conns : /\ at[c] \in {"none", "asked", "subscribed"} => written[c] = <<>>
                   /\ c > cur => at[c] = "none"
Broken == ~up => got = 0
Page == TypeOK /\ Unbegun /\ Broken

\* Without a stream, what the page and its polls know comes from the log, and a poll
\* asks from where the page was, or from before.
Heard ==
  ~delivers =>
    /\ lastLogID \in {0} \union ToSet(log)
    /\ \A p \in Polls : /\ poll[p].at = "asked" => poll[p].since =< lastLogID
                        /\ poll[p].at = "answered" => ToSet(poll[p].items) \subseteq ToSet(log)
\* The events of the buffer that were published before any larger id.
Timely == {e \in ToSet(Buffer) : OnTime(e)}
\* An answer has no holes: what it leaves out below its events the page has seen, or the
\* hub has no more, or it was published late.
Answers ==
  ~delivers =>
    \A p \in Polls : poll[p].at = "answered" =>
      \A e \in Timely : \A x \in ToSet(poll[p].items) :
        e =< x => e \in ToSet(poll[p].items) \/ e =< lastLogID
\* What the console has had: its lines, those cut, and what it dropped.
Had == ToSet(logBody) \union cut \union muted
AllHad == ~delivers => \A e \in Timely : e =< lastLogID => e \in Had
\* Only a full console cuts lines.
CutWhenFull == cut # {} => Len(logBody) = ConsoleCap

IInv == Page /\ NoGap /\ Heard /\ Answers /\ AllHad /\ CutWhenFull

-----------------------------------------------------------------------------
(* Type correctness.                                                       *)

\* The hub's variables keep their types.
LEMMA HubTyped ==
  ASSUME TypeOK, [Next]_vars
  PROVE  TypeHub'
<1>. USE DEF TypeOK, TypeHub
<1>0. MaxEvents \in Nat
  BY LogAssumption
<1>1. CASE UNCHANGED hub
  BY <1>1 DEF hub
<1>2. CASE \E g \in Loggers : Number(g)
  BY <1>0, <1>2 DEF Number
<1>3. CASE \E g \in Loggers : Publish(g)
  <2>1. PICK g \in Loggers : Publish(g)
    BY <1>3
  <2>2. entry[g] \in Events
    BY <1>0, <2>1 DEF Publish, Events
  <2>. QED BY <1>0, <2>1, <2>2 DEF Publish
<1>. QED BY <1>1, <1>2, <1>3 DEF Next, Subscribe, Replay, Forward, Hangup, Connect, Break, NoData, Toggle, Receive, Ask, Answer,
        Fill, PollFails, Quiet, vars

\* What Since gives are events.
LEMMA SinceTyped ==
  ASSUME TypeHub, NEW id
  PROVE  /\ Since(id) \in Seq(Events)
         /\ ToSet(Since(id)) = {e \in ToSet(Buffer) : e > id}
<1>. DEFINE W == {e \in Events : e > id}
<1>1. Buffer \in Seq(Events) /\ Since(id) = Picked(Buffer, W)
  BY BufferOfLog DEF Since, Newer
<1>2. ToSet(Buffer) \subseteq Events
  BY <1>1, ElementsIn
<1>3. \A e \in ToSet(Buffer) : e \in W <=> e > id
  BY <1>2
<1>. HIDE DEF W
<1>4. Picked(Buffer, W) \in Seq(Events) /\ ToSet(Picked(Buffer, W)) = {e \in ToSet(Buffer) : e \in W}
  BY <1>1, PickedCollects
<1>. QED BY <1>1, <1>3, <1>4

\* The connections' variables keep their types.
LEMMA ConnsTyped ==
  ASSUME TypeOK, [Next]_vars
  PROVE  TypeConns'
<1>. USE DEF TypeOK, TypeConns
<1>0. MaxEvents \in Nat /\ MaxConns \in Nat /\ QueueCap \in Nat \ {0}
  BY LogAssumption
<1>1. CASE UNCHANGED conn
  BY <1>1 DEF conn
<1>2. CASE \E g \in Loggers : Publish(g)
  <2>1. PICK g \in Loggers : Publish(g)
    BY <1>2
  <2>2. entry[g] \in Events
    BY <1>0, <2>1 DEF Publish, TypeHub, Events
  <2>3. \A c \in Conns : queue'[c] \in Seq(Events) /\ Len(queue'[c]) =< QueueCap
    BY <1>0, <2>1, <2>2 DEF Publish
  <2>4. queue' \in [Conns -> Seq(Events)]
    BY <2>1, <2>3 DEF Publish
  <2>5. overflown' \in [Conns -> BOOLEAN]
    BY <2>1 DEF Publish
  <2>. QED BY <2>1, <2>3, <2>4, <2>5 DEF Publish
<1>3. CASE \E c \in Conns : Subscribe(c)
  BY <1>3 DEF Subscribe, Served
<1>4. CASE \E c \in Conns : Replay(c)
  <2>1. PICK c \in Conns : Replay(c)
    BY <1>4
  <2>2. Missed(c) \in Seq(Events)
    BY SinceTyped DEF Missed
  <2>. QED BY <2>1, <2>2 DEF Replay, Served
<1>5. CASE \E c \in Conns : Forward(c)
  <2>1. PICK c \in Conns : Forward(c)
    BY <1>5
  <2>2. /\ Head(queue[c]) \in Events /\ Tail(queue[c]) \in Seq(Events)
        /\ Len(Tail(queue[c])) =< QueueCap /\ Append(written[c], Head(queue[c])) \in Seq(Events)
    BY <1>0, <2>1 DEF Forward
  <2>. QED BY <2>1, <2>2 DEF Forward
<1>6. CASE \E c \in Conns : Hangup(c)
  BY <1>0, <1>6 DEF Hangup
<1>7. CASE Connect
  BY <1>0, <1>7 DEF Connect, Served, TypePage
<1>. QED BY <1>1, <1>2, <1>3, <1>4, <1>5, <1>6, <1>7 DEF Next, Number, Break, NoData, Toggle, Receive, Ask, Answer,
        Fill, PollFails, Quiet, vars

\* What has and has not begun.
LEMMA UnbegunKept ==
  ASSUME Page, [Next]_vars
  PROVE  Unbegun' /\ Broken'
<1>. USE DEF Page, Unbegun, Broken
<1>0. MaxConns \in Nat /\ cur \in Nat /\ at \in [Conns -> {"none", "ended"} \union Served]
      /\ written \in [Conns -> Seq(Events)] /\ Conns \subseteq Nat
  <2>1. cur \in 0..MaxConns /\ MaxConns \in Nat
    BY LogAssumption DEF TypeOK, TypePage
  <2>2. at \in [Conns -> {"none", "ended"} \union Served] /\ written \in [Conns -> Seq(Events)]
    BY DEF TypeOK, TypeConns
  <2>. QED BY <2>1, <2>2 DEF Conns
<1>1. CASE UNCHANGED <<at, written, cur, up, got>>
  BY <1>1
<1>2. CASE \E c \in Conns : Subscribe(c) \/ Replay(c) \/ Forward(c) \/ Hangup(c)
  <2>1. UNCHANGED <<cur, up, got>>
    BY <1>2 DEF Subscribe, Replay, Forward, Hangup, stream
  <2>. QED BY <1>0, <1>2, <2>1 DEF Subscribe, Replay, Forward, Hangup, Served
<1>3. CASE Connect
  BY <1>0, <1>3 DEF Connect
<1>4. CASE Break
  BY <1>4 DEF Break, conn
<1>5. CASE Receive
  BY <1>5 DEF Receive, conn
<1>. QED BY <1>1, <1>2, <1>3, <1>4, <1>5 DEF Next, Number, Publish, NoData, Toggle, Ask, Answer, Fill, PollFails, Quiet, vars, conn, stream

\* A sequence that is put behind another.
LEMMA JoinedSet ==
  ASSUME NEW S, NEW s \in Seq(S), NEW t \in Seq(S)
  PROVE  /\ s \o t \in Seq(S) /\ Len(s \o t) = Len(s) + Len(t)
         /\ ToSet(s \o t) = ToSet(s) \union ToSet(t)
<1>1. /\ Len(s) \in Nat /\ Len(t) \in Nat /\ s \o t \in Seq(S) /\ Len(s \o t) = Len(s) + Len(t)
      /\ \A i \in 1..Len(s) : (s \o t)[i] = s[i]
      /\ \A i \in 1..Len(t) : (s \o t)[Len(s) + i] = t[i]
      /\ DOMAIN s = 1..Len(s) /\ DOMAIN t = 1..Len(t) /\ DOMAIN (s \o t) = 1..(Len(s) + Len(t))
  OBVIOUS
<1>2. ASSUME NEW i \in 1..(Len(s) + Len(t))
      PROVE  (s \o t)[i] \in ToSet(s) \union ToSet(t)
  <2>1. CASE i =< Len(s)
    <3>1. i \in 1..Len(s)
      BY <1>1, <2>1
    <3>. QED BY <1>1, <3>1 DEF ToSet
  <2>2. CASE ~ (i =< Len(s))
    <3>. DEFINE k == i - Len(s)
    <3>1. k \in 1..Len(t) /\ Len(s) + k = i
      BY <1>1, <2>2
    <3>. HIDE DEF k
    <3>. QED BY <1>1, <3>1 DEF ToSet
  <2>. QED BY <2>1, <2>2
<1>3. \A i \in 1..Len(s) : i \in 1..(Len(s) + Len(t))
  BY <1>1
<1>4. \A i \in 1..Len(t) : Len(s) + i \in 1..(Len(s) + Len(t))
  BY <1>1
<1>5. ToSet(s \o t) \subseteq ToSet(s) \union ToSet(t)
  BY <1>1, <1>2 DEF ToSet
<1>6. ToSet(s) \subseteq ToSet(s \o t)
  BY <1>1, <1>3 DEF ToSet
<1>7. ToSet(t) \subseteq ToSet(s \o t)
  BY <1>1, <1>4 DEF ToSet
<1>. QED BY <1>1, <1>5, <1>6, <1>7

\* A page that receives an event, or fills in the answer of a poll, has seen it, and it keeps
\* track of what it shows, drops and cuts.
LEMMA AppendTyped ==
  ASSUME TypeOK, NEW items \in Seq(Events), AppendLog(items)
  PROVE  /\ lastLogID' \in {lastLogID} \union ToSet(items) /\ lastLogID =< lastLogID'
         /\ \A e \in ToSet(items) : e =< lastLogID'
         /\ lastLogID' \in 0..MaxEvents
         /\ logBody' \in Seq(Events) /\ Len(logBody') =< ConsoleCap
         /\ levelFilters' \subseteq Filters /\ muted' \subseteq Events /\ cut' \subseteq Events
         /\ Had \union ToSet(items) \subseteq Had'
         /\ CutWhenFull => CutWhenFull'
<1>. DEFINE T == {lastLogID} \union ToSet(items)
            W == {e \in Events : ~Hidden(e)}
            shown == Picked(items, W)
            lines == logBody \o shown
<1>0. ToSet(items) \subseteq Events
  BY ElementsIn
<1>1. MaxEvents \in Nat /\ T \in SUBSET (0..MaxEvents) /\ lastLogID \in 0..MaxEvents
  BY <1>0, LogAssumption DEF TypeOK, TypePage, Events
<1>2. T \in SUBSET Nat /\ T # {} /\ \A t \in T : t =< MaxEvents
  BY <1>1
<1>3. Max(T) \in T /\ \A t \in T : t =< Max(T)
  BY <1>1, <1>2, Largest
<1>4. /\ lastLogID' = Max(T) /\ logBody' = Latest(lines, ConsoleCap)
      /\ cut' = cut \union (ToSet(lines) \ ToSet(logBody'))
      /\ muted' = muted \union {e \in ToSet(items) : Hidden(e)}
      /\ levelFilters' = levelFilters
  BY DEF AppendLog
<1>5. /\ logBody \in Seq(Events) /\ Len(logBody) =< ConsoleCap /\ Len(logBody) \in Nat
      /\ levelFilters \subseteq Filters /\ muted \subseteq Events /\ cut \subseteq Events
      /\ ConsoleCap \in Nat \ {0}
  BY LogAssumption DEF TypeOK, TypePage
<1>6. shown \in Seq(Events) /\ ToSet(shown) = {e \in ToSet(items) : e \in W}
  BY PickedCollects
<1>7. ToSet(shown) = {e \in ToSet(items) : ~Hidden(e)}
  BY <1>0, <1>6
<1>. HIDE DEF T, W, shown
<1>8. /\ lines \in Seq(Events) /\ Len(lines) = Len(logBody) + Len(shown) /\ Len(shown) \in Nat
      /\ ToSet(lines) = ToSet(logBody) \union ToSet(shown)
  BY <1>5, <1>6, JoinedSet
<1>. HIDE DEF lines
<1>9. logBody' \in Seq(Events) /\ Len(logBody') = IF Len(lines) > ConsoleCap THEN ConsoleCap ELSE Len(lines)
  BY <1>4, <1>5, <1>8, LastOnes
<1>10. Len(logBody') =< ConsoleCap
  BY <1>5, <1>8, <1>9
<1>11. ToSet(lines) \subseteq Events
  BY <1>8, ElementsIn
<1>12. muted' \subseteq Events /\ cut' \subseteq Events
  BY <1>0, <1>4, <1>5, <1>11
<1>13. Had \union ToSet(items) \subseteq Had'
  BY <1>4, <1>7, <1>8 DEF Had
<1>14. ASSUME CutWhenFull PROVE CutWhenFull'
  <2>1. CASE cut # {}
    <3>1. Len(logBody) = ConsoleCap
      BY <1>14, <2>1 DEF CutWhenFull
    <3>. QED BY <1>5, <1>8, <1>9, <3>1 DEF CutWhenFull
  <2>2. CASE cut = {} /\ Len(lines) > ConsoleCap
    BY <1>9, <2>2 DEF CutWhenFull
  <2>3. CASE cut = {} /\ ~ (Len(lines) > ConsoleCap)
    <3>1. logBody' = lines
      BY <1>4, <2>3 DEF Latest
    <3>. QED BY <1>4, <2>3, <3>1 DEF CutWhenFull
  <2>. QED BY <2>1, <2>2, <2>3
<1>15. lastLogID' \in {lastLogID} \union ToSet(items) /\ lastLogID =< lastLogID' /\ lastLogID' \in 0..MaxEvents
  BY <1>1, <1>3, <1>4 DEF T
<1>16. \A e \in ToSet(items) : e =< lastLogID'
  BY <1>3, <1>4 DEF T
<1>. QED BY <1>4, <1>5, <1>9, <1>10, <1>12, <1>13, <1>14, <1>15, <1>16

\* The page's variables keep their types; what it has received of a connection was
\* written to it.
LEMMA PageTyped ==
  ASSUME Page, [Next]_vars
  PROVE  TypePage'
<1>. USE DEF TypeOK, TypePage
<1>0. /\ MaxEvents \in Nat /\ MaxConns \in Nat /\ TypeOK
      /\ cur \in 0..MaxConns /\ (up => cur \in Conns)
      /\ written \in [Conns -> Seq(Events)]
  BY LogAssumption DEF Page, TypeConns, Conns
<1>1. CASE UNCHANGED <<stream, written, console, polling, poll>>
  BY <1>0, <1>1 DEF stream, console
<1>2. CASE \E c \in Conns : Replay(c) \/ Forward(c) \/ Hangup(c)
  <2>1. UNCHANGED <<stream, console, polling, poll>>
    BY <1>2 DEF Replay, Forward, Hangup
  <2>2. up => got =< Len(written'[cur])
    <3>1. PICK c \in Conns : Replay(c) \/ Forward(c) \/ Hangup(c)
      BY <1>2
    <3>2. CASE Replay(c)
      <4>1. written[c] = <<>> /\ Missed(c) \in Seq(Events)
        BY <1>0, <3>2, SinceTyped DEF Replay, Page, Unbegun, Missed
      <4>. QED BY <1>0, <3>2, <4>1 DEF Replay
    <3>3. CASE Forward(c)
      <4>1. queue[c] \in Seq(Events) /\ queue[c] # <<>>
        BY <1>0, <3>3 DEF Forward, TypeConns
      <4>2. Len(Append(written[c], Head(queue[c]))) = Len(written[c]) + 1
        BY <1>0, <4>1
      <4>. QED BY <1>0, <3>3, <4>2 DEF Forward
    <3>4. CASE Hangup(c)
      BY <1>0, <3>4 DEF Hangup
    <3>. QED BY <3>1, <3>2, <3>3, <3>4
  <2>. QED BY <1>0, <2>1, <2>2 DEF stream, console
<1>3. CASE Connect
  <2>1. cur + 1 \in Conns /\ got = 0
    BY <1>0, <1>3 DEF Connect, Conns, Page, Broken
  <2>. QED BY <1>0, <1>3, <2>1 DEF Connect, console
<1>4. CASE Break \/ NoData
  <2>1. CASE Break
    BY <1>0, <2>1 DEF Break, console
  <2>2. CASE NoData
    BY <1>0, <2>2 DEF NoData, conn, stream, console
  <2>. QED BY <1>4, <2>1, <2>2
<1>5. CASE Receive
  <2>1. written[cur][got + 1] \in Events /\ got + 1 =< Len(written[cur]) /\ UNCHANGED written
    BY <1>0, <1>5 DEF Receive, conn
  <2>2. AppendLog(<<written[cur][got + 1]>>) /\ <<written[cur][got + 1]>> \in Seq(Events)
    BY <1>5, <2>1 DEF Receive
  <2>3. /\ lastLogID' \in 0..MaxEvents /\ logBody' \in Seq(Events) /\ Len(logBody') =< ConsoleCap
        /\ levelFilters' \subseteq Filters /\ muted' \subseteq Events /\ cut' \subseteq Events
    BY <1>0, <2>2, AppendTyped
  <2>4. lastEventID' \in 0..MaxEvents /\ got' \in Nat /\ (up' => got' =< Len(written'[cur']))
    BY <1>0, <1>5, <2>1 DEF Receive, Events, conn
  <2>5. UNCHANGED <<delivers, cur, up, polling, poll, written>>
    BY <1>5, <2>1 DEF Receive
  <2>. QED BY <1>0, <2>3, <2>4, <2>5
<1>6. CASE \E p \in Polls : Ask(p)
  <2>1. <<>> \in Seq(Events)
    OBVIOUS
  <2>. QED BY <1>0, <1>6, <2>1 DEF Ask, conn, stream, console
<1>7. CASE \E p \in Polls : Answer(p)
  <2>1. PICK p \in Polls : Answer(p)
    BY <1>7
  <2>2. Since(poll[p].since) \in Seq(Events)
    BY <1>0, SinceTyped
  <2>. QED BY <1>0, <2>1, <2>2 DEF Answer, conn, stream, console
<1>8. CASE \E p \in Polls : Fill(p)
  <2>1. PICK p \in Polls : Fill(p)
    BY <1>8
  <2>2. poll[p].items \in Seq(Events)
    BY <1>0, <2>1
  <2>3. AppendLog(poll[p].items)
    BY <2>1 DEF Fill
  <2>4. /\ lastLogID' \in 0..MaxEvents /\ logBody' \in Seq(Events) /\ Len(logBody') =< ConsoleCap
        /\ levelFilters' \subseteq Filters /\ muted' \subseteq Events /\ cut' \subseteq Events
    BY <1>0, <2>2, <2>3, AppendTyped
  <2>5. <<>> \in Seq(Events)
    OBVIOUS
  <2>. QED BY <1>0, <2>1, <2>4, <2>5 DEF Fill, NoPoll, conn, stream
<1>9. CASE \E p \in Polls : PollFails(p)
  <2>1. <<>> \in Seq(Events)
    OBVIOUS
  <2>. QED BY <1>0, <1>9, <2>1 DEF PollFails, NoPoll, conn, stream, console
<1>10. CASE Toggle
  <2>1. levelFilters' \subseteq Filters
    BY <1>0, <1>10 DEF Toggle
  <2>. QED BY <1>0, <1>10, <2>1 DEF Toggle, conn, stream
<1>. QED BY <1>1, <1>2, <1>3, <1>4, <1>5, <1>6, <1>7, <1>8, <1>9, <1>10 DEF Next, Number, Publish, Subscribe, Quiet, vars, conn

-----------------------------------------------------------------------------
(* The stream.                                                             *)

\* What an event that is published adds to the listing since an id.
LEMMA SinceGrows ==
  ASSUME TypeHub, TypeHub', NEW e \in Events, log' = Append(log, e), NEW id
  PROVE  ToSet(Since(id)') \subseteq ToSet(Since(id)) \union {e}
<1>. DEFINE W == {x \in Events : x > id}
<1>1. Since(id) = Picked(Buffer, W) /\ Since(id)' = Picked(Buffer', W)
  BY DEF Since, Newer
<1>. HIDE DEF W
<1>2. Buffer \in Seq(Events)
  BY BufferOfLog
<1>3. Buffer' \in Seq(Events)
  <2>1. Buffer' = Latest(log', BufCap) /\ log' \in Seq(Events) /\ BufCap \in Nat \ {0}
    BY LogAssumption DEF Buffer, TypeHub
  <2>. QED BY <2>1, LastOnes
<1>4. ToSet(Picked(Buffer, W)) = {x \in ToSet(Buffer) : x \in W}
  BY <1>2, PickedCollects
<1>5. ToSet(Picked(Buffer', W)) = {x \in ToSet(Buffer') : x \in W}
  BY <1>3, PickedCollects
<1>6. ToSet(Buffer') \subseteq ToSet(Buffer) \union {e}
  BY BufferGrows
<1>. QED BY <1>1, <1>4, <1>5, <1>6

\* What is published is put into every channel or is an overflow; what leaves a
\* channel is written.
LEMMA NoGapKept ==
  ASSUME TypeOK, TypeOK', NoGap, [Next]_vars
  PROVE  NoGap'
<1>. SUFFICES ASSUME NEW c \in Conns, at'[c] = "streaming", since'[c] > 0, ~overflown'[c],
                     NEW x \in ToSet(Since(since[c])')
              PROVE  x \in ToSet(written'[c]) \union ToSet(queue'[c])
  BY DEF NoGap
<1>0. /\ at \in [Conns -> {"none", "ended"} \union Served] /\ since \in [Conns -> 0..MaxEvents]
      /\ queue \in [Conns -> Seq(Events)] /\ written \in [Conns -> Seq(Events)]
      /\ overflown \in [Conns -> BOOLEAN] /\ QueueCap \in Nat /\ TypeHub /\ TypeHub'
      /\ Len(queue[c]) =< QueueCap
  BY LogAssumption DEF TypeOK, TypeConns
<1>1. ASSUME log' = log, at[c] = "streaming", since'[c] = since[c], overflown'[c] = overflown[c],
             ToSet(written[c]) \union ToSet(queue[c]) \subseteq ToSet(written'[c]) \union ToSet(queue'[c])
      PROVE  x \in ToSet(written'[c]) \union ToSet(queue'[c])
  <2>1. Since(since[c])' = Since(since[c])
    BY <1>1 DEF Since, Buffer
  <2>. QED BY <1>1, <2>1 DEF NoGap
<1>2. CASE \E g \in Loggers : Publish(g)
  <2>1. PICK g \in Loggers : Publish(g)
    BY <1>2
  <2>2. entry[g] \in Events
    BY <2>1, LogAssumption DEF Publish, TypeOK, TypeHub, Events
  <2>3. UNCHANGED <<at, since, written>> /\ log' = Append(log, entry[g])
    BY <2>1 DEF Publish
  <2>4. c \in Subscribers /\ ~overflown[c] /\ Len(queue[c]) < QueueCap /\ queue'[c] = Append(queue[c], entry[g])
    <3>1. c \in Subscribers
      BY <2>3 DEF Subscribers
    <3>2. overflown'[c] <=> overflown[c] \/ (c \in Subscribers /\ Len(queue[c]) = QueueCap)
      BY <2>1 DEF Publish
    <3>3. ~overflown[c] /\ Len(queue[c]) # QueueCap
      BY <3>1, <3>2
    <3>4. Len(queue[c]) \in Nat
      BY <1>0
    <3>5. Len(queue[c]) < QueueCap
      BY <1>0, <3>3, <3>4
    <3>. QED BY <2>1, <3>1, <3>3, <3>5 DEF Publish
  <2>5. PICK id : id = since[c] /\ since'[c] = id
    BY <2>3
  <2>6. x \in ToSet(Since(id)) \union {entry[g]}
    <3>1. ToSet(Since(id)') \subseteq ToSet(Since(id)) \union {entry[g]}
      BY <1>0, <2>2, <2>3, SinceGrows
    <3>. QED BY <2>5, <3>1 DEF Since
  <2>7. ToSet(Since(id)) \subseteq ToSet(written[c]) \union ToSet(queue[c])
    BY <2>3, <2>4, <2>5 DEF NoGap
  <2>8. ToSet(queue'[c]) = ToSet(queue[c]) \union {entry[g]}
    BY <1>0, <2>2, <2>4, AppendedSet
  <2>. QED BY <2>3, <2>6, <2>7, <2>8
<1>3. CASE \E v \in Conns : Replay(v)
  <2>1. PICK v \in Conns : Replay(v)
    BY <1>3
  <2>2. UNCHANGED <<log, since, queue, overflown>>
    BY <2>1 DEF Replay, hub
  <2>3. CASE v = c
    <3>1. written'[c] = Since(since[c])
      BY <1>0, <2>1, <2>2, <2>3 DEF Replay, Missed
    <3>2. Since(since[c])' = Since(since[c])
      BY <2>2 DEF Since, Buffer
    <3>. QED BY <3>1, <3>2
  <2>4. CASE v # c
    <3>1. at[c] = "streaming" /\ written'[c] = written[c]
      BY <1>0, <2>1, <2>4 DEF Replay
    <3>. QED BY <1>1, <2>2, <3>1
  <2>. QED BY <2>3, <2>4
<1>4. CASE \E v \in Conns : Forward(v)
  <2>1. PICK v \in Conns : Forward(v)
    BY <1>4
  <2>2. UNCHANGED <<log, at, since, overflown>>
    BY <2>1 DEF Forward, hub
  <2>3. CASE v = c
    <3>1. queue[c] # <<>> /\ written'[c] = Append(written[c], Head(queue[c])) /\ queue'[c] = Tail(queue[c])
      BY <1>0, <2>1, <2>3 DEF Forward
    <3>2. ToSet(queue[c]) \subseteq {Head(queue[c])} \union ToSet(Tail(queue[c])) /\ Head(queue[c]) \in Events
      BY <1>0, <3>1, HeadAndTail
    <3>3. ToSet(written'[c]) = ToSet(written[c]) \union {Head(queue[c])}
      BY <1>0, <3>1, <3>2, AppendedSet
    <3>. QED BY <1>1, <2>2, <3>1, <3>2, <3>3
  <2>4. CASE v # c
    BY <1>0, <1>1, <2>1, <2>2, <2>4 DEF Forward
  <2>. QED BY <2>3, <2>4
<1>5. CASE \E v \in Conns : Subscribe(v)
  <2>1. UNCHANGED <<log, since, queue, written, overflown>>
    BY <1>5 DEF Subscribe, hub
  <2>2. at[c] = "streaming"
    BY <1>0, <1>5 DEF Subscribe
  <2>. QED BY <1>1, <2>1, <2>2
<1>6. CASE \E v \in Conns : Hangup(v)
  <2>1. PICK v \in Conns : Hangup(v)
    BY <1>6
  <2>2. v # c /\ log' = log
    BY <1>0, <2>1 DEF Hangup, hub
  <2>. QED BY <1>0, <1>1, <2>1, <2>2 DEF Hangup
<1>7. CASE Connect
  <2>1. UNCHANGED <<log, queue, written, overflown>>
    BY <1>7 DEF Connect, hub
  <2>2. c # cur + 1
    BY <1>0, <1>7 DEF Connect
  <2>. QED BY <1>0, <1>1, <1>7, <2>1, <2>2 DEF Connect
<1>8. CASE UNCHANGED <<log, at, since, written, queue, overflown>>
  BY <1>1, <1>8
<1>. QED BY <1>2, <1>3, <1>4, <1>5, <1>6, <1>7, <1>8 DEF Next, Number, Break, NoData, Toggle, Receive, Ask, Answer, Fill,
        PollFails, Quiet, vars, conn, hub

-----------------------------------------------------------------------------
(* The polls.                                                              *)

\* What changes when the page learns of an event.
learned == <<lastLogID, logBody, muted, cut>>

\* An event published before any larger id is newer than what was published; and what was
\* published on time stays so.
LEMMA PublishedOnTime ==
  ASSUME TypeHub, NEW e \in Events, log' = Append(log, e)
  PROVE  /\ Timely' \subseteq Timely \union {e}
         /\ e \in Timely' => \A x \in ToSet(log) : x < e
<1>1. /\ Len(log') = Len(log) + 1 /\ Len(log) \in Nat /\ log'[Len(log) + 1] = e
      /\ \A i \in 1..Len(log) : log'[i] = log[i] /\ i \in 1..Len(log') /\ i < Len(log) + 1
      /\ DOMAIN log = 1..Len(log) /\ DOMAIN log' = 1..Len(log') /\ Len(log) + 1 \in 1..Len(log')
  BY DEF TypeHub
<1>2. ASSUME e \in Timely' PROVE \A x \in ToSet(log) : x < e
  <2>1. \A i, j \in DOMAIN log' : i < j /\ log'[j] = e => log'[i] < e
    BY <1>2 DEF Timely, OnTime
  <2>2. \A i \in 1..Len(log) : log[i] < e
    BY <1>1, <2>1
  <2>. QED BY <1>1, <2>2 DEF ToSet
<1>3. ASSUME NEW x \in Timely', x # e PROVE x \in Timely
  <2>1. x \in ToSet(Buffer)
    BY <1>3, BufferGrows DEF Timely
  <2>2. \A i, j \in DOMAIN log' : i < j /\ log'[j] = x => log'[i] < x
    BY <1>3 DEF Timely, OnTime
  <2>3. \A i, j \in DOMAIN log : i < j /\ log[j] = x => log[i] < x
    BY <1>1, <2>2
  <2>. QED BY <2>1, <2>3 DEF Timely, OnTime
<1>. QED BY <1>2, <1>3

\* Only an answer of a poll tells the page anything.
LEMMA PageLearns ==
  ASSUME TypeOK, [Next]_vars, ~delivers'
  PROVE  /\ ~delivers
         /\ (\A p \in Polls : ~Fill(p)) => UNCHANGED learned
<1>. USE DEF learned, console
<1>1. delivers' = delivers
  BY DEF Next, Number, Publish, Subscribe, Replay, Forward, Hangup, Connect, Break, NoData, Toggle, Receive, Ask, Answer, Fill,
     PollFails, Quiet, vars, stream
<1>2. ~Receive
  BY <1>1 DEF Receive
<1>. QED BY <1>1, <1>2 DEF Next, Number, Publish, Subscribe, Replay, Forward, Hangup, Connect, Break, NoData, Toggle, Ask, Answer,
        PollFails, Quiet, vars

\* What the page and its polls know comes from the log.
LEMMA HeardKept ==
  ASSUME TypeOK, Heard, [Next]_vars
  PROVE  Heard'
<1>. SUFFICES ASSUME ~delivers'
              PROVE  /\ lastLogID' \in {0} \union ToSet(log')
                     /\ \A p \in Polls :
                          /\ poll'[p].at = "asked" => poll'[p].since =< lastLogID'
                          /\ poll'[p].at = "answered" => ToSet(poll'[p].items) \subseteq ToSet(log')
  BY DEF Heard
<1>0. ~delivers /\ ((\A p \in Polls : ~Fill(p)) => UNCHANGED learned)
  BY PageLearns
<1>1. /\ lastLogID \in {0} \union ToSet(log) /\ lastLogID \in Nat
      /\ \A p \in Polls : /\ poll[p].at = "asked" => poll[p].since =< lastLogID
                          /\ poll[p].at = "answered" => ToSet(poll[p].items) \subseteq ToSet(log)
  BY <1>0, LogAssumption DEF Heard, TypeOK, TypePage
<1>2. CASE UNCHANGED <<log, learned, poll>>
  BY <1>1, <1>2 DEF learned
<1>3. CASE \E g \in Loggers : Publish(g)
  <2>1. PICK g \in Loggers : Publish(g)
    BY <1>3
  <2>2. entry[g] \in Events /\ UNCHANGED <<learned, poll>> /\ log' = Append(log, entry[g])
    BY <2>1, LogAssumption DEF Publish, TypeOK, TypeHub, Events, console, learned
  <2>3. ToSet(log') = ToSet(log) \union {entry[g]}
    BY <2>2, AppendedSet DEF TypeOK, TypeHub
  <2>. QED BY <1>1, <2>2, <2>3 DEF learned
<1>4. CASE \E p \in Polls : Ask(p)
  <2>1. PICK p \in Polls : Ask(p)
    BY <1>4
  <2>2. UNCHANGED <<log, learned>> /\ poll' = [poll EXCEPT ![p] = [at |-> "asked", since |-> lastLogID, items |-> <<>>]]
    BY <2>1 DEF Ask, hub, console, learned
  <2>3. \A q \in Polls : poll'[q] = poll[q] \/ poll'[q] = [at |-> "asked", since |-> lastLogID, items |-> <<>>]
    BY <2>2 DEF TypeOK, TypePage
  <2>. QED BY <1>1, <2>2, <2>3 DEF learned
<1>5. CASE \E p \in Polls : Answer(p)
  <2>1. PICK p \in Polls : Answer(p)
    BY <1>5
  <2>. DEFINE answer == [at |-> "answered", since |-> 0, items |-> Since(poll[p].since)]
  <2>2. UNCHANGED <<log, learned>> /\ poll' = [poll EXCEPT ![p] = answer]
    BY <2>1 DEF Answer, hub, console, learned
  <2>3. ToSet(Since(poll[p].since)) \subseteq ToSet(log)
    BY SinceTyped, BufferOfLog DEF TypeOK
  <2>4. answer.at = "answered" /\ ToSet(answer.items) \subseteq ToSet(log)
    BY <2>3
  <2>. HIDE DEF answer
  <2>5. \A q \in Polls : poll'[q] = poll[q] \/ poll'[q] = answer
    BY <2>2 DEF TypeOK, TypePage
  <2>. QED BY <1>1, <2>2, <2>4, <2>5 DEF learned
<1>6. CASE \E p \in Polls : Fill(p)
  <2>1. PICK p \in Polls : Fill(p)
    BY <1>6
  <2>2. /\ log' = log /\ AppendLog(poll[p].items) /\ poll[p].at = "answered"
        /\ poll' = [poll EXCEPT ![p] = NoPoll]
    BY <2>1 DEF Fill, hub
  <2>3. ToSet(poll[p].items) \subseteq ToSet(log) /\ poll[p].items \in Seq(Events)
    BY <1>1, <2>2 DEF TypeOK, TypePage
  <2>4. lastLogID' \in {lastLogID} \union ToSet(poll[p].items) /\ lastLogID =< lastLogID' /\ lastLogID' \in 0..MaxEvents
    BY <2>2, <2>3, AppendTyped
  <2>5. \A q \in Polls : poll'[q] = poll[q] \/ poll'[q] = NoPoll
    BY <2>2 DEF TypeOK, TypePage
  <2>6. \A q \in Polls : poll[q].since \in Nat
    BY LogAssumption DEF TypeOK, TypePage
  <2>7. \A q \in Polls : poll[q].since =< lastLogID => poll[q].since =< lastLogID'
    BY <1>1, <2>4, <2>6, LogAssumption
  <2>. QED BY <1>1, <2>2, <2>3, <2>4, <2>5, <2>7 DEF NoPoll
<1>7. CASE \E p \in Polls : PollFails(p)
  <2>1. PICK p \in Polls : PollFails(p)
    BY <1>7
  <2>2. UNCHANGED <<log, learned>> /\ poll' = [poll EXCEPT ![p] = NoPoll]
    BY <2>1 DEF PollFails, hub, console, learned
  <2>3. \A q \in Polls : poll'[q] = poll[q] \/ poll'[q] = NoPoll
    BY <2>2 DEF TypeOK, TypePage
  <2>. QED BY <1>1, <2>2, <2>3 DEF learned, NoPoll
<1>8. ~Receive
  BY <1>0 DEF Receive
<1>. QED BY <1>2, <1>3, <1>4, <1>5, <1>6, <1>7, <1>8 DEF Next, Number, Subscribe, Replay, Forward, Hangup, Connect, Break,
        NoData, Toggle, Quiet, vars, hub, console, learned

\* The page learns of an event once it knows of every one before: an answer has no
\* holes, and what was left out of it the page had seen.
LEMMA AllHadKept ==
  ASSUME TypeOK, TypeOK', Heard, Answers, AllHad, [Next]_vars
  PROVE  Answers' /\ AllHad'
<1>. DEFINE Holeless(items, known, buffer) ==
       \A e \in buffer : \A x \in items : e =< x => e \in items \/ e =< known
<1>. SUFFICES ASSUME ~delivers'
              PROVE  /\ \A p \in Polls : poll'[p].at = "answered" =>
                          Holeless(ToSet(poll'[p].items), lastLogID', Timely')
                     /\ \A e \in Timely' : e =< lastLogID' => e \in Had'
  BY DEF Answers, AllHad
<1>0. ~delivers /\ ((\A p \in Polls : ~Fill(p)) => UNCHANGED learned) /\ ~Receive
  BY PageLearns DEF Receive
<1>2. /\ \A p \in Polls : poll[p].at = "answered" => Holeless(ToSet(poll[p].items), lastLogID, Timely)
      /\ \A e \in Timely : e =< lastLogID => e \in Had
  BY <1>0 DEF Answers, AllHad
<1>3. /\ Buffer \in Seq(Events) /\ Timely \subseteq Nat /\ lastLogID \in Nat /\ lastLogID' \in Nat
      /\ \A p \in Polls : poll[p].items \in Seq(Events) /\ ToSet(poll[p].items) \subseteq Events
      /\ Events \subseteq Nat
  <2>1. Buffer \in Seq(Events) /\ Events \subseteq Nat
    BY BufferOfLog, LogAssumption DEF TypeOK, Events
  <2>2. \A p \in Polls : poll[p].items \in Seq(Events)
    BY DEF TypeOK, TypePage
  <2>3. lastLogID \in Nat /\ lastLogID' \in Nat
    BY LogAssumption DEF TypeOK, TypePage
  <2>4. ToSet(Buffer) \subseteq Events /\ \A p \in Polls : ToSet(poll[p].items) \subseteq Events
    BY <2>1, <2>2, ElementsIn
  <2>. QED BY <2>1, <2>2, <2>3, <2>4 DEF Timely
<1>. HIDE DEF Holeless
<1>4. CASE UNCHANGED <<log, learned, poll>>
  BY <1>2, <1>4 DEF learned, Had, Timely, OnTime, Buffer
<1>5. CASE \E g \in Loggers : Publish(g)
  <2>1. PICK g \in Loggers : Publish(g)
    BY <1>5
  <2>2. entry[g] \in Events /\ UNCHANGED <<learned, poll>> /\ log' = Append(log, entry[g])
    BY <2>1, LogAssumption DEF Publish, TypeOK, TypeHub, Events, console, learned
  <2>4. /\ Timely' \subseteq Timely \union {entry[g]}
        /\ entry[g] \in Timely' => \A x \in ToSet(log) : x < entry[g]
    BY <2>2, PublishedOnTime DEF TypeOK
  <2>5. entry[g] \in Timely' => \A x \in {0} \union ToSet(log) : ~ (entry[g] =< x)
    <3>1. entry[g] \in Nat /\ entry[g] > 0
      BY <2>2, LogAssumption DEF Events
    <3>2. ToSet(log) \subseteq Nat
      BY LogAssumption DEF TypeOK, TypeHub, ToSet, Events
    <3>. QED BY <2>4, <3>1, <3>2
  <2>6. entry[g] \in Timely' => ~ (entry[g] =< lastLogID)
    BY <1>0, <2>5 DEF Heard
  <2>7. ASSUME NEW p \in Polls, poll[p].at = "answered"
        PROVE  Holeless(ToSet(poll[p].items), lastLogID, Timely')
    <3>1. ToSet(poll[p].items) \subseteq ToSet(log)
      BY <1>0, <2>7 DEF Heard
    <3>2. Holeless(ToSet(poll[p].items), lastLogID, Timely)
      BY <1>2, <2>7
    <3>. QED BY <2>4, <2>5, <3>1, <3>2 DEF Holeless
  <2>. QED BY <1>2, <2>2, <2>4, <2>6, <2>7 DEF learned, Had
<1>6. CASE \E p \in Polls : Ask(p) \/ PollFails(p)
  <2>1. PICK p \in Polls : Ask(p) \/ PollFails(p)
    BY <1>6
  <2>2. UNCHANGED <<log, learned>>
    BY <2>1 DEF Ask, PollFails, hub, console, learned
  <2>3. \A q \in Polls : poll'[q] = poll[q] \/ poll'[q].at # "answered"
    <3>. DEFINE asks == [at |-> "asked", since |-> lastLogID, items |-> <<>>]
    <3>1. PICK one \in {asks, NoPoll} : poll' = [poll EXCEPT ![p] = one]
      BY <2>1 DEF Ask, PollFails
    <3>3. asks.at # "answered" /\ NoPoll.at # "answered"
      BY DEF NoPoll
    <3>. HIDE DEF asks
    <3>2. poll = [q \in Polls |-> poll[q]]
      BY DEF TypeOK, TypePage
    <3>. QED BY <3>1, <3>2, <3>3
  <2>. QED BY <1>2, <2>2, <2>3 DEF learned, Had, Timely, OnTime, Buffer
<1>7. CASE \E p \in Polls : Answer(p)
  <2>1. PICK p \in Polls : Answer(p)
    BY <1>7
  <2>. DEFINE answer == [at |-> "answered", since |-> 0, items |-> Since(poll[p].since)]
  <2>2. UNCHANGED <<log, learned>> /\ poll' = [poll EXCEPT ![p] = answer] /\ poll[p].at = "asked"
    BY <2>1 DEF Answer, hub, console, learned
  <2>3. ToSet(answer.items) = {e \in ToSet(Buffer) : e > poll[p].since} /\ Timely \subseteq ToSet(Buffer)
    BY SinceTyped DEF TypeOK, Timely
  <2>4. poll[p].since =< lastLogID /\ poll[p].since \in Nat
    <3>1. poll[p].since =< lastLogID
      BY <1>0, <2>2 DEF Heard
    <3>2. poll[p].since \in Nat
      BY LogAssumption DEF TypeOK, TypePage
    <3>. QED BY <3>1, <3>2
  <2>5. \A e \in Timely : e > poll[p].since \/ e =< lastLogID
    <3>1. \A e, n, m \in Nat : n =< m => e > n \/ e =< m
      OBVIOUS
    <3>2. Timely \subseteq Nat /\ lastLogID \in Nat
      BY <1>3
    <3>. HIDE DEF Timely
    <3>3. ASSUME NEW e \in Timely
          PROVE  e > poll[p].since \/ e =< lastLogID
      BY <2>4, <3>1, <3>2
    <3>. QED BY <3>3
  <2>6. Holeless(ToSet(answer.items), lastLogID, Timely)
    BY <2>3, <2>5 DEF Holeless
  <2>. HIDE DEF answer
  <2>7. \A q \in Polls : poll'[q] = poll[q] \/ poll'[q] = answer
    BY <2>2 DEF TypeOK, TypePage
  <2>. QED BY <1>2, <2>2, <2>6, <2>7 DEF learned, Had, Timely, OnTime, Buffer
<1>8. CASE \E p \in Polls : Fill(p)
  <2>1. PICK p \in Polls : Fill(p)
    BY <1>8
  <2>. DEFINE items == ToSet(poll[p].items)
  <2>2. /\ UNCHANGED log /\ AppendLog(poll[p].items) /\ poll[p].at = "answered"
        /\ poll' = [poll EXCEPT ![p] = NoPoll]
    BY <2>1 DEF Fill, hub
  <2>3. poll[p].items \in Seq(Events)
    BY <1>3
  <2>4. lastLogID' \in {lastLogID} \union items /\ lastLogID =< lastLogID' /\ Had \union items \subseteq Had'
    BY <2>2, <2>3, AppendTyped
  <2>5. Holeless(items, lastLogID, Timely)
    BY <1>2, <2>2
  <2>. HIDE DEF items
  <2>6. ASSUME NEW e \in Timely, e =< lastLogID'
        PROVE  e \in Had'
    <3>1. CASE e =< lastLogID
      BY <1>2, <2>4, <3>1
    <3>2. CASE ~ (e =< lastLogID)
      <4>1. lastLogID' \in items
        BY <2>4, <2>6, <3>2
      <4>. QED BY <2>4, <2>5, <2>6, <3>2, <4>1 DEF Holeless
    <3>. QED BY <3>1, <3>2
  <2>7. ASSUME NEW q \in Polls, poll'[q].at = "answered"
        PROVE  Holeless(ToSet(poll'[q].items), lastLogID', Timely)
    <3>1. poll'[q] = poll[q]
      BY <2>2, <2>7 DEF NoPoll, TypeOK, TypePage
    <3>2. Holeless(ToSet(poll[q].items), lastLogID, Timely)
      BY <1>2, <2>7, <3>1
    <3>3. \A e \in Timely : e =< lastLogID => e =< lastLogID'
      BY <1>3, <2>4
    <3>. QED BY <3>1, <3>2, <3>3 DEF Holeless
  <2>8. Timely' = Timely
    BY <2>2 DEF Timely, OnTime, Buffer
  <2>. QED BY <2>6, <2>7, <2>8
<1>. QED BY <1>0, <1>4, <1>5, <1>6, <1>7, <1>8 DEF Next, Number, Subscribe, Replay, Forward, Hangup, Connect, Break,
        NoData, Toggle, Quiet, vars, hub, console, learned

\* Only a full console cuts lines.
LEMMA CutWhenFullKept ==
  ASSUME TypeOK, CutWhenFull, [Next]_vars
  PROVE  CutWhenFull'
<1>1. CASE UNCHANGED <<logBody, cut>>
  BY <1>1 DEF CutWhenFull
<1>2. CASE Receive
  <2>1. AppendLog(<<written[cur][got + 1]>>) /\ <<written[cur][got + 1]>> \in Seq(Events)
    <3>1. up /\ got < Len(written[cur]) /\ got \in Nat /\ cur \in Conns /\ written[cur] \in Seq(Events)
      BY <1>2, LogAssumption DEF Receive, TypeOK, TypePage, TypeConns, Conns
    <3>2. written[cur][got + 1] \in Events
      BY <3>1
    <3>. QED BY <1>2, <3>2 DEF Receive
  <2>. QED BY <2>1, AppendTyped
<1>3. CASE \E p \in Polls : Fill(p)
  <2>1. PICK p \in Polls : Fill(p)
    BY <1>3
  <2>2. AppendLog(poll[p].items) /\ poll[p].items \in Seq(Events)
    BY <2>1 DEF Fill, TypeOK, TypePage
  <2>. QED BY <2>2, AppendTyped
<1>. QED BY <1>1, <1>2, <1>3 DEF Next, Number, Publish, Subscribe, Replay, Forward, Hangup, Connect, Break,
        NoData, Toggle, Ask, Answer, PollFails, Quiet, vars, console

-----------------------------------------------------------------------------
(* The theorems.                                                           *)

\* The invariant holds initially, and every step keeps it.
LEMMA Invariant == Spec => []IInv
<1>1. Init => IInv
  <2>. SUFFICES ASSUME Init PROVE IInv
    OBVIOUS
  <2>1. <<>> \in Seq(Events) /\ MaxEvents \in Nat /\ MaxConns \in Nat /\ QueueCap \in Nat /\ Len(<<>>) = 0
    BY LogAssumption
  <2>2. TypeHub /\ TypeConns
    BY <2>1 DEF Init, TypeHub, TypeConns
  <2>3. TypePage
    <3>1. NoPoll \in [at : {"idle", "asked", "answered"}, since : 0..MaxEvents, items : Seq(Events)]
      BY <2>1 DEF NoPoll
    <3>2. poll \in [Polls -> [at : {"idle", "asked", "answered"}, since : 0..MaxEvents, items : Seq(Events)]]
      BY <3>1 DEF Init
    <3>3. /\ delivers \in BOOLEAN /\ cur \in 0..MaxConns /\ up = FALSE /\ lastEventID \in 0..MaxEvents
          /\ lastLogID \in 0..MaxEvents /\ got \in Nat /\ polling \in BOOLEAN
          /\ logBody \in Seq(Events) /\ Len(logBody) =< ConsoleCap
          /\ levelFilters \subseteq Filters /\ muted \subseteq Events /\ cut \subseteq Events
      <4>1. /\ delivers \in BOOLEAN /\ cur = 0 /\ up = FALSE /\ lastEventID = 0
            /\ lastLogID = 0 /\ got = 0 /\ logBody = <<>> /\ levelFilters = Filters
            /\ muted = {} /\ cut = {} /\ polling = FALSE
        BY DEF Init
      <4>2. 0 \in 0..MaxConns /\ 0 \in 0..MaxEvents /\ ConsoleCap \in Nat /\ 0 =< ConsoleCap
        BY <2>1, LogAssumption
      <4>. QED BY <2>1, <4>1, <4>2
    <3>. QED BY <3>2, <3>3 DEF TypePage
  <2>4. Unbegun /\ Broken /\ NoGap /\ Heard
    BY DEF Init, Unbegun, Broken, NoGap, Heard, NoPoll
  <2>5. Answers
    BY DEF Init, Answers, NoPoll
  <2>6. ToSet(Buffer) = {}
    <3>1. ToSet(Buffer) \subseteq ToSet(log) /\ log = <<>>
      BY <2>2, BufferOfLog DEF Init
    <3>. QED BY <3>1 DEF ToSet
  <2>7. AllHad /\ CutWhenFull
    BY <2>6 DEF Init, AllHad, Timely, CutWhenFull
  <2>. QED BY <2>2, <2>3, <2>4, <2>5, <2>7 DEF IInv, Page, TypeOK
<1>2. IInv /\ [Next]_vars => IInv'
  <2>. SUFFICES ASSUME IInv, [Next]_vars PROVE IInv'
    OBVIOUS
  <2>1. TypeOK'
    BY HubTyped, ConnsTyped, PageTyped DEF IInv, Page, TypeOK
  <2>2. Page' /\ NoGap' /\ Heard'
    BY <2>1, UnbegunKept, NoGapKept, HeardKept DEF IInv, Page
  <2>3. Answers' /\ AllHad' /\ CutWhenFull'
    BY <2>1, AllHadKept, CutWhenFullKept DEF IInv, Page
  <2>. QED BY <2>2, <2>3 DEF IInv
<1>. QED BY <1>1, <1>2, PTL DEF Spec

\* Every variable has its type; no channel holds more than its capacity, and the page
\* has received nothing of a connection that was not written to it.
THEOREM TypeCorrect == Spec => []TypeOK
<1>1. IInv => TypeOK
  BY DEF IInv, Page
<1>. QED BY <1>1, Invariant, PTL

\* Between the replay for a page that reconnects and the live events nothing is lost,
\* but for the events that overflow the channel.
THEOREM ReplayLeavesNoGap == Spec => []NoGap
<1>1. IInv => NoGap
  BY DEF IInv
<1>. QED BY <1>1, Invariant, PTL

\* Of the events that the hub still has and that were published before any larger id, a console that
\* polls has dealt with every one up to the largest it has seen, although its polls overlap,
\* are answered late or fail, and whatever levels are switched off when.
THEOREM PollsSkipNothing == Spec => []NoneSkipped
<1>1. IInv => NoneSkipped
  <2>. SUFFICES ASSUME IInv, ~delivers, NEW e \in ToSet(Buffer), e <= lastLogID, OnTime(e) PROVE Dealt(e)
    BY DEF NoneSkipped
  <2>1. e \in Had /\ CutWhenFull
    BY DEF IInv, AllHad, Timely
  <2>. QED BY <2>1 DEF Had, CutWhenFull, Dealt
<1>. QED BY <1>1, Invariant, PTL

-----------------------------------------------------------------------------
(* The listings.  First their rows: the ids in order.                      *)

\* A function on 1..n is a sequence of n elements.
LEMMA RowsOf ==
  ASSUME NEW S, NEW n \in Nat, NEW g \in [1..n -> S]
  PROVE  g \in Seq(S) /\ Len(g) = n
OBVIOUS

Ascending(rows) == \A i, j \in DOMAIN rows : i < j => rows[i] < rows[j]

\* The ids of a finite set can be put in order: the smallest, then the others in order.
LEMMA OrderExists ==
  ASSUME NEW ids \in SUBSET Nat, IsFiniteSet(ids)
  PROVE  \E rows \in [1..Cardinality(ids) -> ids] : Ascending(rows)
<1>. DEFINE Ordered(T) == \E rows \in [1..Cardinality(T) -> T] : Ascending(rows)
            S == {n \in Nat : \A T \in SUBSET Nat : IsFiniteSet(T) /\ Cardinality(T) = n => Ordered(T)}
<1>1. 0 \in S
  <2>1. ASSUME NEW T \in SUBSET Nat, IsFiniteSet(T), Cardinality(T) = 0
        PROVE  Ordered(T)
    <3>1. 1..0 = {} /\ [x \in {} |-> x] \in [{} -> T]
      OBVIOUS
    <3>2. Ascending([x \in {} |-> x])
      BY DEF Ascending
    <3>. QED BY <2>1, <3>1, <3>2
  <2>. QED BY <2>1
<1>2. ASSUME NEW n \in S
      PROVE  n + 1 \in S
  <2>1. ASSUME NEW T \in SUBSET Nat, IsFiniteSet(T), Cardinality(T) = n + 1
        PROVE  Ordered(T)
    <3>1. n \in Nat /\ T # {}
      BY <2>1, FS_EmptySet
    <3>2. PICK m \in T : \A k \in T : m =< k
      BY <3>1, LeastNumber
    <3>. DEFINE U == T \ {m}
    <3>3. IsFiniteSet(U) /\ Cardinality(U) = n /\ U \in SUBSET Nat
      <4>1. IsFiniteSet(U) /\ Cardinality(U) = Cardinality(T) - 1
        BY ONLY <2>1, <3>2, FS_RemoveElement
      <4>2. (n + 1) - 1 = n
        BY <3>1
      <4>. QED BY <2>1, <4>1, <4>2
    <3>4. PICK f \in [1..n -> U] : Ascending(f)
      BY <3>3
    <3>. DEFINE g == [i \in 1..(n + 1) |-> IF i = 1 THEN m ELSE f[i - 1]]
    <3>5. \A i \in 1..(n + 1) : i # 1 => i - 1 \in 1..n
      BY <3>1
    <3>6. g \in [1..(n + 1) -> T]
      BY <3>4, <3>5
    <3>7. ASSUME NEW i \in DOMAIN g, NEW j \in DOMAIN g, i < j
          PROVE  g[i] < g[j]
      <4>1. j - 1 \in 1..n /\ f[j - 1] \in U /\ g[j] = f[j - 1] /\ i \in Int /\ j \in Int
        BY <3>1, <3>4, <3>5, <3>7
      <4>2. CASE i = 1
        <5>1. g[i] = m /\ m \in Nat /\ f[j - 1] \in Nat /\ m # f[j - 1] /\ m =< f[j - 1]
          BY <3>2, <4>1, <4>2
        <5>. QED BY <4>1, <5>1
      <4>3. CASE i # 1
        <5>1. i - 1 \in DOMAIN f /\ j - 1 \in DOMAIN f /\ i - 1 < j - 1
          BY <3>1, <3>5, <4>1, <4>3, <3>7
        <5>2. f[i - 1] < f[j - 1] /\ g[i] = f[i - 1]
          BY <3>4, <5>1, <4>3 DEF Ascending
        <5>. QED BY <4>1, <5>2
      <4>. QED BY <4>2, <4>3
    <3>8. Ascending(g)
      BY <3>7 DEF Ascending
    <3>. QED BY <2>1, <3>6, <3>8
  <2>. QED BY <2>1
<1>3. S = Nat
  <2>1. S \in SUBSET Nat
    OBVIOUS
  <2>. HIDE DEF S
  <2>. QED BY <2>1, <1>1, <1>2, Induction
<1>4. Cardinality(ids) \in S
  BY <1>3, FS_CardinalityType
<1>. QED BY <1>4

\* A listing's rows: as many as there are ids, in ascending order.
LEMMA OrderByIdRows ==
  ASSUME NEW ids \in SUBSET Nat, IsFiniteSet(ids)
  PROVE  /\ OrderById(ids) \in Seq(ids) /\ Len(OrderById(ids)) = Cardinality(ids)
         /\ Cardinality(ids) \in Nat /\ OrderById(ids) \in [1..Cardinality(ids) -> ids]
         /\ Ascending(OrderById(ids))
<1>1. \E rows \in [1..Cardinality(ids) -> ids] : \A i, j \in DOMAIN rows : i < j => rows[i] < rows[j]
  BY OrderExists DEF Ascending
<1>2. OrderById(ids) \in [1..Cardinality(ids) -> ids] /\ Ascending(OrderById(ids))
  BY <1>1 DEF OrderById, Ascending
<1>3. Cardinality(ids) \in Nat
  BY FS_CardinalityType
<1>. QED BY <1>2, <1>3, RowsOf

\* In the rows of a listing, which are ordered by id, every id has its row and no id has two.
THEOREM EachOnce ==
  ASSUME NEW ids \in SUBSET Nat, IsFiniteSet(ids)
  PROVE  /\ \A x \in ids : \E i \in DOMAIN OrderById(ids) : OrderById(ids)[i] = x
         /\ \A i, j \in DOMAIN OrderById(ids) : OrderById(ids)[i] = OrderById(ids)[j] => i = j
<1>. DEFINE n == Cardinality(ids)
            rows == OrderById(ids)
<1>1. n \in Nat /\ rows \in [1..n -> ids] /\ Ascending(rows)
  BY OrderByIdRows
<1>. HIDE DEF n, rows
<1>2. ASSUME NEW i \in 1..n, NEW j \in 1..n, rows[i] = rows[j]
      PROVE  i = j
  <2>0. rows[i] \in Nat /\ DOMAIN rows = 1..n
    BY <1>1
  <2>1. ~(rows[i] < rows[j]) /\ ~(rows[j] < rows[i])
    BY <1>2, <2>0
  <2>2. ~(i < j) /\ ~(j < i)
    BY <1>1, <2>0, <2>1 DEF Ascending
  <2>. QED BY <1>1, <2>2
<1>3. rows \in Injection(1..n, ids)
  BY <1>1, <1>2 DEF Injection, IsInjective
<1>4. Cardinality(1..n) = n
  BY <1>1, FS_Interval
<1>5. rows \in Surjection(1..n, ids)
  BY <1>3, <1>4, FS_Injection DEF n
<1>6. \A x \in ids : \E i \in 1..n : rows[i] = x
  BY <1>5 DEF Surjection
<1>. QED BY <1>1, <1>2, <1>6 DEF rows

\* The smaller and the larger of two numbers.
LEMMA OfTwo ==
  ASSUME NEW a \in Int, NEW b \in Int
  PROVE  /\ Min({a, b}) = IF a =< b THEN a ELSE b
         /\ Max({a, b}) = IF a >= b THEN a ELSE b
<1>1. \E x \in {a, b} : \A y \in {a, b} : x =< y
  OBVIOUS
<1>2. Min({a, b}) \in {a, b} /\ \A y \in {a, b} : Min({a, b}) =< y
  BY <1>1 DEF Min
<1>3. \E x \in {a, b} : \A y \in {a, b} : x >= y
  OBVIOUS
<1>4. Max({a, b}) \in {a, b} /\ \A y \in {a, b} : Max({a, b}) >= y
  BY <1>3 DEF Max
<1>. QED BY <1>2, <1>4

\* The page that the server reads: the offset that was asked for, and no more rows than
\* were asked for, nor than it gives at most.
LEMMA Clamped ==
  ASSUME NEW l \in Nat \ {0}, NEW o \in Nat, NEW d \in Nat
  PROVE  /\ Clamp(l, o, d).offset = o /\ Clamp(l, o, d).limit \in Nat \ {0}
         /\ l =< MaxPageLimit => Clamp(l, o, d).limit = l
<1>. DEFINE p == Clamp(l, o, d)
<1>1. p.offset = Max({0, o}) /\ p.limit = Min({MaxPageLimit, Positive(l, Positive(d, DefaultLimit))})
  BY DEF Clamp
<1>2. Positive(l, Positive(d, DefaultLimit)) = l
  BY DEF Positive
<1>3. Max({0, o}) = o
  BY OfTwo
<1>4. Min({MaxPageLimit, l}) = IF MaxPageLimit =< l THEN MaxPageLimit ELSE l
  BY OfTwo, BrowsingAssumption
<1>. HIDE DEF p
<1>5. p.offset = o /\ p.limit = IF MaxPageLimit =< l THEN MaxPageLimit ELSE l
  BY <1>1, <1>2, <1>3, <1>4
<1>6. p.limit \in Nat \ {0} /\ (l =< MaxPageLimit => p.limit = l)
  BY <1>5, BrowsingAssumption
<1>. QED BY <1>5, <1>6 DEF p

\* A page holds rows of its listing, and continues what comes before it.
LEMMA PageOfRows ==
  ASSUME NEW S, NEW rows \in Seq(S), NEW o \in Nat, NEW l \in Nat \ {0}
  PROVE  /\ SubSeq(rows, o + 1, Min({o + l, Len(rows)})) \in Seq(S)
         /\ o =< Len(rows) =>
              /\ Len(SubSeq(rows, o + 1, Min({o + l, Len(rows)}))) = Min({o + l, Len(rows)}) - o
              /\ SubSeq(rows, 1, o) \o SubSeq(rows, o + 1, Min({o + l, Len(rows)}))
                   = SubSeq(rows, 1, Min({o + l, Len(rows)}))
<1>. DEFINE n == Len(rows)
            e == Min({o + l, n})
<1>1. n \in Nat /\ \A i \in 1..n : rows[i] \in S
  BY LenProperties, ElementOfSeq
<1>2. e = IF o + l =< n THEN o + l ELSE n
  BY <1>1, OfTwo
<1>. HIDE DEF e
<1>3. e \in Nat /\ e =< n /\ (o =< n => o =< e)
  BY <1>1, <1>2
<1>4. \A i \in (o + 1)..e : rows[i] \in S
  BY <1>1, <1>3
<1>5. SubSeq(rows, o + 1, e) \in Seq(S) /\ Len(SubSeq(rows, o + 1, e)) = IF o + 1 =< e THEN e - (o + 1) + 1 ELSE 0
  BY <1>3, <1>4, SubSeqProperties
<1>6. ASSUME o =< n
      PROVE  SubSeq(rows, 1, o) \o SubSeq(rows, o + 1, e) = SubSeq(rows, 1, e)
  <2>1. 1 \in 1..(n + 1) /\ o \in (1 - 1)..n /\ e \in o..n
    BY <1>1, <1>3, <1>6
  <2>. QED BY <2>1, ConcatAdjacentSubSeq
<1>7. ASSUME o =< n
      PROVE  Len(SubSeq(rows, o + 1, e)) = e - o
  BY <1>3, <1>5, <1>7
<1>. QED BY <1>5, <1>6, <1>7 DEF e

-----------------------------------------------------------------------------
(* Requests under way.                                                     *)

Among(s, p) == \E i \in DOMAIN s : s[i].pane = p

\* The last request of listing p, if there is one, is a.
LastIs(s, p, a) ==
  \A i \in DOMAIN s :
    s[i].pane = p /\ (\A j \in DOMAIN s : s[j].pane = p => j =< i) => s[i] = a

\* A request that is made.
LEMMA Asked ==
  ASSUME NEW S, NEW s \in Seq(S), NEW q \in S
  PROVE  /\ Append(s, q) \in Seq(S) /\ Among(Append(s, q), q.pane)
         /\ LastIs(Append(s, q), q.pane, q)
         /\ \A p, a : q.pane # p /\ LastIs(s, p, a) => LastIs(Append(s, q), p, a)
         /\ \A p : q.pane # p => (Among(Append(s, q), p) <=> Among(s, p))
<1>. DEFINE n == Len(s)
            t == Append(s, q)
<1>1. n \in Nat /\ DOMAIN s = 1..n
  BY LenProperties
<1>2. t \in Seq(S) /\ DOMAIN t = 1..(n + 1) /\ t[n + 1] = q /\ \A i \in 1..n : t[i] = s[i]
  BY AppendProperties, LenProperties
<1>. HIDE DEF n, t
<1>3. n + 1 \in DOMAIN t /\ DOMAIN s \subseteq DOMAIN t /\ DOMAIN t = DOMAIN s \union {n + 1}
  BY <1>1, <1>2
<1>4. Among(t, q.pane)
  BY <1>2, <1>3 DEF Among
<1>5. LastIs(t, q.pane, q)
  <2>1. ASSUME NEW i \in DOMAIN t, \A j \in DOMAIN t : t[j].pane = q.pane => j =< i
        PROVE  t[i] = q
    <3>1. n + 1 =< i
      BY <1>2, <1>3, <2>1
    <3>2. i = n + 1
      BY <1>1, <1>2, <3>1
    <3>. QED BY <1>2, <3>2
  <2>. QED BY <2>1 DEF LastIs
<1>6. ASSUME NEW p, NEW a, q.pane # p, LastIs(s, p, a)
      PROVE  LastIs(t, p, a)
  <2>1. ASSUME NEW i \in DOMAIN t, t[i].pane = p, \A j \in DOMAIN t : t[j].pane = p => j =< i
        PROVE  t[i] = a
    <3>1. i \in DOMAIN s /\ s[i] = t[i]
      BY <1>1, <1>2, <1>3, <1>6, <2>1
    <3>2. \A j \in DOMAIN s : s[j].pane = p => j =< i
      BY <1>1, <1>2, <1>3, <2>1
    <3>. QED BY <3>1, <3>2, <1>6, <2>1 DEF LastIs
  <2>. QED BY <2>1 DEF LastIs
<1>7. ASSUME NEW p, q.pane # p
      PROVE  Among(t, p) <=> Among(s, p)
  BY <1>1, <1>2, <1>3, <1>7 DEF Among
<1>. QED BY <1>2, <1>4, <1>5, <1>6, <1>7 DEF t

\* The requests that are left keep their order.
LEMMA Removed ==
  ASSUME NEW S, NEW s \in Seq(S), NEW i \in DOMAIN s
  PROVE  /\ RemoveAt(s, i) \in Seq(S) /\ Len(s) \in Nat \ {0} /\ i \in 1..Len(s)
         /\ DOMAIN s = 1..Len(s) /\ DOMAIN RemoveAt(s, i) = 1..(Len(s) - 1)
         /\ \A k \in 1..(Len(s) - 1) : RemoveAt(s, i)[k] = IF k < i THEN s[k] ELSE s[k + 1]
<1>. DEFINE n == Len(s)
            a == SubSeq(s, 1, i - 1)
            b == SubSeq(s, i + 1, n)
<1>1. n \in Nat /\ DOMAIN s = 1..n /\ i \in 1..n /\ \A k \in 1..n : s[k] \in S
  BY LenProperties, ElementOfSeq
<1>2. i - 1 \in Int /\ i + 1 \in Int /\ n \in Int /\ 1 \in Int /\ (\A k \in 1..(i - 1) : s[k] \in S)
      /\ (\A k \in (i + 1)..n : s[k] \in S)
  BY <1>1
<1>3. a \in Seq(S) /\ Len(a) = (IF 1 =< i - 1 THEN ((i - 1) - 1) + 1 ELSE 0)
      /\ \A k \in 1..(((i - 1) - 1) + 1) : a[k] = s[(1 + k) - 1]
  BY <1>2, SubSeqProperties
<1>4. b \in Seq(S) /\ Len(b) = (IF i + 1 =< n THEN (n - (i + 1)) + 1 ELSE 0)
      /\ \A k \in 1..((n - (i + 1)) + 1) : b[k] = s[((i + 1) + k) - 1]
  BY <1>2, SubSeqProperties
<1>5. a \o b \in Seq(S) /\ Len(a \o b) = Len(a) + Len(b)
      /\ \A k \in 1..(Len(a) + Len(b)) : (a \o b)[k] = IF k =< Len(a) THEN a[k] ELSE b[k - Len(a)]
  BY <1>3, <1>4, ConcatProperties
<1>6. RemoveAt(s, i) = a \o b
  BY DEF RemoveAt
<1>. HIDE DEF n, a, b
<1>7. Len(a) = i - 1 /\ Len(b) = n - i
  BY <1>1, <1>3, <1>4
<1>8. Len(a) + Len(b) = n - 1
  BY <1>1, <1>7
<1>9. ASSUME NEW k \in 1..(n - 1)
      PROVE  (a \o b)[k] = IF k < i THEN s[k] ELSE s[k + 1]
  <2>1. k \in 1..(Len(a) + Len(b)) /\ k \in Int /\ i \in Int /\ n \in Int
    BY <1>1, <1>8
  <2>2. CASE k < i
    <3>1. k =< Len(a) /\ k \in 1..(((i - 1) - 1) + 1) /\ (1 + k) - 1 = k
      BY <1>1, <1>7, <2>1, <2>2
    <3>. QED BY <1>3, <1>5, <2>1, <2>2, <3>1
  <2>3. CASE ~(k < i)
    <3>1. ~(k =< Len(a)) /\ k - Len(a) \in 1..((n - (i + 1)) + 1) /\ ((i + 1) + (k - Len(a))) - 1 = k + 1
      <4>1. k \in 1..(n - 1) /\ i \in 1..n /\ n \in Nat /\ ~(k < i)
        BY <1>1, <2>3
      <4>2. ~(k =< i - 1) /\ k - (i - 1) \in 1..((n - (i + 1)) + 1)
        BY ONLY <4>1
      <4>3. ((i + 1) + (k - (i - 1))) - 1 = k + 1
        BY ONLY <4>1
      <4>. QED BY <1>7, <4>2, <4>3
    <3>2. (a \o b)[k] = b[k - Len(a)]
      BY <1>5, <2>1, <3>1
    <3>. QED BY <1>4, <2>3, <3>1, <3>2
  <2>. QED BY <2>2, <2>3
<1>10. DOMAIN (a \o b) = 1..(n - 1)
  BY <1>5, <1>8, LenProperties
<1>11. ASSUME NEW k \in 1..(n - 1)
       PROVE  RemoveAt(s, i)[k] = IF k < i THEN s[k] ELSE s[k + 1]
  BY <1>6, <1>9
<1>13. n \in Nat \ {0}
  BY <1>1
<1>12. RemoveAt(s, i) \in Seq(S) /\ DOMAIN RemoveAt(s, i) = 1..(n - 1)
  BY <1>5, <1>6, <1>10
<1>. QED BY <1>1, <1>11, <1>12, <1>13 DEF n

\* Request i is the last one for its listing.
LastOf(s, i) == \A j \in DOMAIN s : s[j].pane = s[i].pane => j =< i

\* A request whose answer arrives, or that fails.
LEMMA AnsweredOne ==
  ASSUME NEW S, NEW s \in Seq(S), NEW i \in DOMAIN s, NEW p
  PROVE  /\ \A k \in DOMAIN RemoveAt(s, i) : \E j \in DOMAIN s : RemoveAt(s, i)[k] = s[j]
         /\ s[i].pane # p => (Among(RemoveAt(s, i), p) <=> Among(s, p))
         /\ s[i].pane = p /\ ~LastOf(s, i) => Among(RemoveAt(s, i), p)
         /\ \A a : LastIs(s, p, a) /\ ~(s[i].pane = p /\ LastOf(s, i)) => LastIs(RemoveAt(s, i), p, a)
         /\ \A a : LastIs(s, p, a) /\ s[i].pane = p /\ LastOf(s, i) => s[i] = a
<1>. DEFINE n == Len(s)
            t == RemoveAt(s, i)
            Old(k) == IF k < i THEN k ELSE k + 1
            New(k) == IF k < i THEN k ELSE k - 1
<1>1. /\ t \in Seq(S) /\ n \in Nat \ {0} /\ i \in 1..n /\ DOMAIN s = 1..n /\ DOMAIN t = 1..(n - 1)
      /\ \A k \in 1..(n - 1) : t[k] = IF k < i THEN s[k] ELSE s[k + 1]
  BY Removed
<1>. HIDE DEF n, t
<1>2. \A k \in DOMAIN t : Old(k) \in DOMAIN s /\ t[k] = s[Old(k)] /\ Old(k) # i
  BY <1>1
<1>3. \A k \in DOMAIN s : k # i => New(k) \in DOMAIN t /\ Old(New(k)) = k
  BY <1>1
<1>4. \A k, m \in DOMAIN t : Old(k) =< Old(m) => k =< m
  BY <1>1
<1>. DEFINE old == [k \in DOMAIN t |-> Old(k)]
            new == [k \in DOMAIN s |-> New(k)]
<1>5. /\ \A k \in DOMAIN t : old[k] \in DOMAIN s /\ t[k] = s[old[k]] /\ old[k] # i
      /\ \A k \in DOMAIN s : k # i => new[k] \in DOMAIN t /\ old[new[k]] = k
      /\ \A k, m \in DOMAIN t : old[k] =< old[m] => k =< m
  BY <1>2, <1>3, <1>4
<1>. HIDE DEF Old, New, old, new
<1>6. \A k \in DOMAIN s : k # i => t[new[k]] = s[k]
  BY <1>5
<1>7. s[i].pane # p => (Among(t, p) <=> Among(s, p))
  <2>1. Among(t, p) => Among(s, p)
    BY <1>5 DEF Among
  <2>2. s[i].pane # p /\ Among(s, p) => Among(t, p)
    BY <1>5, <1>6 DEF Among
  <2>. QED BY <2>1, <2>2
<1>8. s[i].pane = p /\ ~LastOf(s, i) => \E m \in DOMAIN s : m # i /\ i < m /\ s[m].pane = p
  <2>1. s[i].pane = p /\ ~LastOf(s, i) => \E m \in DOMAIN s : s[m].pane = p /\ ~(m =< i)
    BY DEF LastOf
  <2>2. \A m \in DOMAIN s : ~(m =< i) => m # i /\ i < m
    BY <1>1
  <2>. QED BY <2>1, <2>2
<1>9. s[i].pane = p /\ ~LastOf(s, i) => Among(t, p)
  BY <1>5, <1>6, <1>8 DEF Among
<1>10. ASSUME NEW a, ~(s[i].pane = p /\ LastOf(s, i)), LastIs(s, p, a)
       PROVE  LastIs(t, p, a)
  <2>1. ASSUME NEW k \in DOMAIN t, t[k].pane = p, \A j \in DOMAIN t : t[j].pane = p => j =< k
        PROVE  t[k] = a
    <3>1. old[k] \in DOMAIN s /\ s[old[k]].pane = p /\ t[k] = s[old[k]] /\ old[k] # i
      BY <1>5, <2>1
    <3>2. ASSUME NEW j \in DOMAIN s, s[j].pane = p, j # i
          PROVE  j =< old[k]
      <4>1. new[j] \in DOMAIN t /\ t[new[j]].pane = p /\ old[new[j]] = j
        BY <1>5, <1>6, <3>2
      <4>2. new[j] =< k
        BY <2>1, <4>1
      <4>3. k =< new[j] => k = new[j]
        BY <1>1, <4>1, <4>2
      <4>4. old[k] =< j => k = new[j]
        BY <1>5, <4>1, <4>3
      <4>5. j \in Int /\ old[k] \in Int
        BY <1>1, <3>1
      <4>. QED BY <4>1, <4>4, <4>5
    <3>3. ASSUME s[i].pane = p
          PROVE  i =< old[k]
      <4>1. PICK m \in DOMAIN s : m # i /\ i < m /\ s[m].pane = p
        BY <1>8, <1>10, <3>3
      <4>2. m =< old[k] /\ m \in Int /\ i \in Int /\ old[k] \in Int
        BY <1>1, <3>1, <3>2, <4>1
      <4>. QED BY <4>1, <4>2
    <3>4. \A j \in DOMAIN s : s[j].pane = p => j =< old[k]
      BY <3>2, <3>3
    <3>. QED BY <1>10, <3>1, <3>4 DEF LastIs
  <2>. QED BY <2>1 DEF LastIs
<1>11. ASSUME NEW a, LastIs(s, p, a), s[i].pane = p, LastOf(s, i)
       PROVE  s[i] = a
  BY <1>11 DEF LastIs, LastOf
<1>. QED BY <1>5, <1>7, <1>9, <1>10, <1>11 DEF t

DecksRequests == [pane : {"decks"}, search : BOOLEAN, offset : Nat]
NotesRequests ==
  {q \in [pane : {"notes"}, kind : {"deck", "global", "find"}, deck : Decks \union {0},
          filter : BOOLEAN, offset : Nat] : q.kind = "deck" <=> q.deck # 0}
RenameRequests == [pane : {"rename"}, deck : Decks]
Requests == DecksRequests \union NotesRequests \union [pane : {"config", "save"}] \union RenameRequests

LEMMA RequestTypes ==
  /\ \A q \in Requests : TypeRequest(q) /\ q.pane \in {"decks", "notes", "config", "save", "rename"}
  /\ \A q \in Requests : q.pane = "decks" => q \in DecksRequests
  /\ \A q \in Requests : q.pane = "notes" => q \in NotesRequests
  /\ \A q \in Requests : q.pane = "rename" => q \in RenameRequests
<1>1. ASSUME NEW q \in DecksRequests
      PROVE  TypeRequest(q) /\ q.pane = "decks"
  BY <1>1 DEF DecksRequests, TypeRequest
<1>2. ASSUME NEW q \in NotesRequests
      PROVE  TypeRequest(q) /\ q.pane = "notes"
  BY <1>2 DEF NotesRequests, TypeRequest
<1>3. ASSUME NEW q \in RenameRequests
      PROVE  TypeRequest(q) /\ q.pane = "rename"
  BY <1>3 DEF RenameRequests, TypeRequest
<1>4. ASSUME NEW q \in [pane : {"config", "save"}]
      PROVE  TypeRequest(q) /\ q.pane \in {"config", "save"}
  BY <1>4 DEF TypeRequest
<1>5. "decks" # "notes" /\ "decks" # "rename" /\ "notes" # "rename"
      /\ \A p \in {"config", "save"} : p # "decks" /\ p # "notes" /\ p # "rename"
  OBVIOUS
<1>. QED BY <1>1, <1>2, <1>3, <1>4, <1>5 DEF Requests

LEMMA DecksRequestIs ==
  ASSUME NEW search \in BOOLEAN, NEW o \in Nat
  PROVE  /\ DecksRequest(search, o) \in DecksRequests /\ DecksRequest(search, o) \in Requests
         /\ DecksRequest(search, o).pane = "decks"
         /\ DecksRequest(search, o).search = search /\ DecksRequest(search, o).offset = o
         /\ \A x \in Nat : [DecksRequest(search, o) EXCEPT !.offset = x] = DecksRequest(search, x)
  BY DEF DecksRequest, DecksRequests, Requests

LEMMA NotesRequestIs ==
  ASSUME NEW kind \in {"deck", "global", "find"}, NEW d \in Decks \union {0},
         NEW filtered \in BOOLEAN, NEW o \in Nat, kind = "deck" <=> d # 0
  PROVE  /\ NotesRequest(kind, d, filtered, o) \in NotesRequests
         /\ NotesRequest(kind, d, filtered, o) \in Requests
         /\ NotesRequest(kind, d, filtered, o).pane = "notes"
         /\ NotesRequest(kind, d, filtered, o).kind = kind
         /\ NotesRequest(kind, d, filtered, o).deck = d
         /\ NotesRequest(kind, d, filtered, o).filter = filtered
         /\ NotesRequest(kind, d, filtered, o).offset = o
<1>. DEFINE q == NotesRequest(kind, d, filtered, o)
<1>1. /\ q \in [pane : {"notes"}, kind : {"deck", "global", "find"}, deck : Decks \union {0},
                filter : BOOLEAN, offset : Nat]
      /\ q.pane = "notes" /\ q.kind = kind /\ q.deck = d /\ q.filter = filtered /\ q.offset = o
  BY DEF NotesRequest
<1>. HIDE DEF q
<1>2. q \in NotesRequests
  BY <1>1 DEF NotesRequests
<1>. QED BY <1>1, <1>2 DEF q, Requests

\* Another page of a listing of notes.
LEMMA NotesRequestTurned ==
  ASSUME NEW q \in NotesRequests, NEW x \in Nat
  PROVE  /\ [q EXCEPT !.offset = x] \in NotesRequests
         /\ [q EXCEPT !.offset = x].kind = q.kind /\ [q EXCEPT !.offset = x].deck = q.deck
         /\ [q EXCEPT !.offset = x].filter = q.filter /\ [q EXCEPT !.offset = x].offset = x
  BY DEF NotesRequests

LEMMA NotesRequestFields ==
  ASSUME NEW q \in NotesRequests
  PROVE  /\ q.pane = "notes" /\ q.kind \in {"deck", "global", "find"} /\ q.deck \in Decks \union {0}
         /\ q.filter \in BOOLEAN /\ q.offset \in Nat /\ (q.kind = "deck" <=> q.deck # 0)
         /\ q \in Requests /\ q # Nothing
<1>1. Nothing.pane = "none"
  BY DEF Nothing
<1>2. q.pane = "notes"
  BY DEF NotesRequests
<1>. QED BY <1>1, <1>2 DEF NotesRequests, Requests

LEMMA DecksRequestFields ==
  ASSUME NEW q \in DecksRequests
  PROVE  q.pane = "decks" /\ q.search \in BOOLEAN /\ q.offset \in Nat /\ q \in Requests /\ q # Nothing
<1>1. Nothing.pane = "none"
  BY DEF Nothing
<1>2. q.pane = "decks"
  BY DEF DecksRequests
<1>. QED BY <1>1, <1>2 DEF DecksRequests, Requests

\* No deck has the id 0.
LEMMA DecksAssumed ==
  /\ Decks \in SUBSET Nat /\ 0 \notin Decks /\ IsFiniteSet(Decks) /\ Cardinality(Decks) \in Nat
  /\ \A d : InDeck(d) \in SUBSET Nat /\ IsFiniteSet(InDeck(d)) /\ InDeck(d) \subseteq Notes
  /\ Notes \in SUBSET Nat /\ IsFiniteSet(Notes)
<1>1. /\ Decks \in SUBSET Nat /\ 0 \notin Decks /\ IsFiniteSet(Decks)
      /\ Notes \in SUBSET Nat /\ IsFiniteSet(Notes)
  BY BrowsingAssumption
<1>2. ASSUME NEW d
      PROVE  InDeck(d) \in SUBSET Nat /\ IsFiniteSet(InDeck(d)) /\ InDeck(d) \subseteq Notes
  <2>1. InDeck(d) \subseteq Notes
    BY BrowsingAssumption DEF InDeck
  <2>. QED BY <2>1, <1>1, FS_Subset
<1>3. Cardinality(Decks) \in Nat
  BY <1>1, FS_CardinalityType
<1>. QED BY <1>1, <1>2, <1>3

-----------------------------------------------------------------------------
(* Types, and what the page keeps besides.                                 *)

TypedDecks ==
  /\ limit \in Nat \ {0} /\ clicks \in 0..MaxClicks
  /\ allDecks \in Seq(Decks) /\ decksTotal \in 0..Cardinality(Decks)
  /\ deckOffset \in Nat /\ decksSearchMode \in BOOLEAN /\ (decksSearchMode => deckOffset = 0)
  /\ decksPane \in [of : Requests \union {Nothing}, offset : Nat, ok : BOOLEAN, next : BOOLEAN]
TypedNotes ==
  /\ currentDeck \in Decks \union {0} /\ currentDeckName \in Decks \union {0}
  /\ (currentDeck = 0 <=> currentDeckName = 0)
  /\ notesOffset \in Nat /\ notesMode \in {"deck", "global", "find"}
  /\ currentNotesCount \in Nat /\ filter \in BOOLEAN
  /\ notesPane \in [of : Requests \union {Nothing}, label : {"none", "deck", "global", "find"},
                    deck : Decks \union {0}, offset : Nat, ok : BOOLEAN]
\* A note's id is looked up without pages; d is the deck that is open.
TypedRequest(q, d) ==
  /\ q \in Requests
  /\ q.pane = "notes" /\ q.kind = "find" => q.offset = 0
  /\ q.pane = "rename" => d # 0
TypedPending ==
  pending \in Seq(Requests) /\ \A i \in DOMAIN pending : TypedRequest(pending[i], currentDeck)
\* Unless it is named, what was asked for of the decks is where the page is in their listing.
DecksHere == DecksRequest(decksSearchMode, deckOffset)
TypedGhost ==
  /\ asked \in [Panes -> Requests \union {Nothing}]
  /\ asked["decks"] \in DecksRequests
  /\ ~strayed["decks"] => asked["decks"] = DecksHere
  /\ asked["notes"] \in NotesRequests \union {Nothing}
  /\ latest \in [Panes -> {"awaited", "answered", "overtaken"}]
  /\ strayed \in [Panes -> BOOLEAN] /\ misnamed \in BOOLEAN
TypedWalk ==
  /\ walk = [p \in Panes |-> walk[p]]
  /\ \A p \in Panes : walk[p].end \in BOOLEAN
Typed == TypedDecks /\ TypedNotes /\ TypedPending /\ TypedGhost

\* Before a listing of notes was asked for there is none.
NoneYet ==
  asked["notes"] = Nothing =>
    /\ currentDeck = 0 /\ currentNotesCount = 0 /\ notesOffset = 0
    /\ ~Among(pending, "notes") /\ ~notesPane.ok

\* The page is where the listing of notes is that was asked for last, but for a find, of which the
\* page knows nothing before its answer.
NotesPlace ==
  asked["notes"] # Nothing =>
    /\ asked["notes"].kind # "find" => asked["notes"].offset = notesOffset
    /\ asked["notes"].kind = "deck" => asked["notes"].deck = currentDeck /\ notesMode # "global"
    /\ asked["notes"].kind = "global" => notesMode = "global"
NotesPlaced == NoneYet /\ (~strayed["notes"] => NotesPlace)

\* A click of the decks' listing: the page asks for the page at o, the user for w.
DecksClicked(search, o, w) ==
  /\ decksSearchMode' = search /\ deckOffset' = o /\ (search => o = 0)
  /\ pending' = Append(pending, DecksRequest(search, o))
  /\ latest' = [latest EXCEPT !["decks"] = "awaited"]
  /\ asked' = [asked EXCEPT !["decks"] = w]
  /\ strayed' \in [Panes -> BOOLEAN] /\ strayed'["notes"] = strayed["notes"]
  /\ ~strayed'["decks"] => w = DecksRequest(search, o)
  /\ clicks < MaxClicks /\ clicks' = clicks + 1
  /\ UNCHANGED <<limit, allDecks, decksTotal, decksPane, notesState, filter, misnamed, walk>>

\* The request that FetchDecksPage makes.
LEMMA FetchIs ==
  ASSUME NEW others, NEW search \in BOOLEAN, NEW o \in Nat,
         decksSearchMode' = search, deckOffset' = o, FetchDecksPage(others)
  PROVE  /\ pending' = Append(others, DecksRequest(search, o))
         /\ latest' = [latest EXCEPT !["decks"] = "awaited"]
<1>. DEFINE q == DecksRequest(search, o)
<1>1. Request(others, q)
  BY DEF FetchDecksPage
<1>2. q.pane = "decks"
  BY DecksRequestIs
<1>. HIDE DEF q
<1>3. pending' = Append(others, q) /\ latest' = [latest EXCEPT !["decks"] = "awaited"]
  BY <1>1, <1>2 DEF Request
<1>. QED BY <1>3 DEF q

LEMMA RefreshesDecks ==
  ASSUME Typed, RefreshDecks
  PROVE  \E search \in BOOLEAN, o \in Nat, w \in DecksRequests : DecksClicked(search, o, w)
<1>1. PICK search \in BOOLEAN : LoadDecks(pending, search) /\ AskAnew("decks", DecksRequest(search, 0))
  BY DEF RefreshDecks
<1>. DEFINE w == DecksRequest(search, 0)
<1>2. w \in DecksRequests
  BY DecksRequestIs
<1>3. decksSearchMode' = search /\ deckOffset' = 0 /\ FetchDecksPage(pending)
  BY <1>1 DEF LoadDecks
<1>4. pending' = Append(pending, w) /\ latest' = [latest EXCEPT !["decks"] = "awaited"]
  BY <1>3, FetchIs
<1>5. asked' = [asked EXCEPT !["decks"] = w] /\ strayed' = [strayed EXCEPT !["decks"] = FALSE]
  BY <1>1 DEF AskAnew
<1>6. strayed' \in [Panes -> BOOLEAN] /\ strayed'["notes"] = strayed["notes"]
  BY <1>5 DEF Typed, TypedGhost, Panes
<1>7. /\ clicks < MaxClicks /\ clicks' = clicks + 1
      /\ UNCHANGED <<limit, allDecks, decksTotal, decksPane, notesState, filter, misnamed, walk>>
  BY DEF RefreshDecks, Click
<1>8. DecksClicked(search, 0, w)
  BY <1>3, <1>4, <1>5, <1>6, <1>7 DEF DecksClicked
<1>. QED BY <1>2, <1>8

\* A page before, or after.
LEMMA TurnsDecks ==
  ASSUME Typed, Click, ~decksSearchMode, NEW o \in Nat, NEW x \in Nat,
         deckOffset' = o, decksSearchMode' = decksSearchMode, FetchDecksPage(pending),
         AskOn("decks", [asked.decks EXCEPT !.offset = x], FALSE),
         asked["decks"].offset = deckOffset => x = o,
         UNCHANGED <<allDecks, decksTotal, decksPane, notesState, filter, misnamed, walk>>
  PROVE  \E search \in BOOLEAN, p \in Nat, w \in DecksRequests : DecksClicked(search, p, w)
<1>. DEFINE w == [asked.decks EXCEPT !.offset = x]
<1>1. /\ asked["decks"] \in DecksRequests /\ asked.decks = asked["decks"]
      /\ decksSearchMode = FALSE /\ deckOffset \in Nat /\ strayed \in [Panes -> BOOLEAN] /\ "decks" \in Panes
      /\ ~strayed["decks"] => asked["decks"] = DecksRequest(FALSE, deckOffset)
  BY DEF Typed, TypedDecks, TypedGhost, Panes, DecksHere
<1>2. w \in DecksRequests
  BY <1>1 DEF DecksRequests
<1>3. ~strayed["decks"] => w = DecksRequest(FALSE, o)
  <2>1. DecksRequest(FALSE, deckOffset).offset = deckOffset
        /\ [DecksRequest(FALSE, deckOffset) EXCEPT !.offset = o] = DecksRequest(FALSE, o)
    BY <1>1, DecksRequestIs
  <2>. QED BY <1>1, <2>1
<1>4. pending' = Append(pending, DecksRequest(FALSE, o)) /\ latest' = [latest EXCEPT !["decks"] = "awaited"]
  BY <1>1, FetchIs
<1>. HIDE DEF w
<1>5. AskOn("decks", w, FALSE)
  BY DEF w
<1>6. asked' = [asked EXCEPT !["decks"] = w] /\ strayed' = [strayed EXCEPT !["decks"] = @ \/ FALSE]
  BY <1>5 DEF AskOn
<1>7. /\ strayed' \in [Panes -> BOOLEAN] /\ strayed'["notes"] = strayed["notes"]
      /\ strayed'["decks"] = strayed["decks"]
  BY <1>1, <1>6 DEF Panes
<1>8. clicks < MaxClicks /\ clicks' = clicks + 1 /\ limit' = limit
  BY DEF Click
<1>9. DecksClicked(FALSE, o, w)
  BY <1>1, <1>3, <1>4, <1>6, <1>7, <1>8 DEF DecksClicked
<1>. QED BY <1>2, <1>9

LEMMA DecksClicks ==
  ASSUME Typed, RefreshDecks \/ DecksPrev \/ DecksNext
  PROVE  \E search \in BOOLEAN, o \in Nat, w \in DecksRequests : DecksClicked(search, o, w)
<1>1. /\ limit \in Nat /\ deckOffset \in Nat /\ decksSearchMode \in BOOLEAN
      /\ asked["decks"] \in DecksRequests /\ asked.decks = asked["decks"]
      /\ decksSearchMode => deckOffset = 0
  BY DEF Typed, TypedDecks, TypedGhost
<1>. DEFINE a == asked["decks"].offset
<1>2. a \in Nat
  BY <1>1, DecksRequestFields
<1>3. CASE DecksPrev
  <2>. DEFINE o == Max({0, deckOffset - limit})
              x == Max({0, a - limit})
  <2>1. o \in Nat /\ x \in Nat /\ (a = deckOffset => x = o)
    <3>0. deckOffset - limit \in Int /\ a - limit \in Int /\ 0 \in Int
      BY <1>1, <1>2
    <3>. HIDE DEF a
    <3>1. o = (IF 0 >= deckOffset - limit THEN 0 ELSE deckOffset - limit)
          /\ x = (IF 0 >= a - limit THEN 0 ELSE a - limit)
      BY <3>0, OfTwo
    <3>. QED BY <3>0, <3>1
  <2>2. /\ Click /\ ~decksSearchMode /\ deckOffset' = o /\ decksSearchMode' = decksSearchMode
        /\ FetchDecksPage(pending)
        /\ UNCHANGED <<allDecks, decksTotal, decksPane, notesState, filter, misnamed, walk>>
    BY <1>1, <1>3 DEF DecksPrev
  <2>3. AskOn("decks", [asked.decks EXCEPT !.offset = x], FALSE)
    BY <1>1, <1>3 DEF DecksPrev
  <2>. HIDE DEF o, x
  <2>. QED BY <2>1, <2>2, <2>3, TurnsDecks
<1>4. CASE DecksNext
  <2>. DEFINE o == deckOffset + limit
              x == a + limit
  <2>1. o \in Nat /\ x \in Nat /\ (a = deckOffset => x = o)
    BY <1>1, <1>2
  <2>2. /\ Click /\ ~decksSearchMode /\ deckOffset' = o /\ decksSearchMode' = decksSearchMode
        /\ FetchDecksPage(pending)
        /\ UNCHANGED <<allDecks, decksTotal, decksPane, notesState, filter, misnamed, walk>>
    BY <1>4 DEF DecksNext
  <2>3. AskOn("decks", [asked.decks EXCEPT !.offset = x], FALSE)
    BY <1>1, <1>4 DEF DecksNext
  <2>. HIDE DEF o, x
  <2>. QED BY <2>1, <2>2, <2>3, TurnsDecks
<1>. QED BY <1>3, <1>4, RefreshesDecks

\* A click of the notes' listing: q is the request that is made, if one is, w what the user
\* asks for.
NotesClicked(q, w) ==
  /\ pending' = (IF q = Nothing THEN pending ELSE Append(pending, q))
  /\ latest' = (IF q = Nothing THEN latest ELSE [latest EXCEPT !["notes"] = "awaited"])
  /\ asked' = [asked EXCEPT !["notes"] = w]
  /\ strayed' \in [Panes -> BOOLEAN] /\ strayed'["decks"] = strayed["decks"]
  /\ clicks < MaxClicks /\ clicks' = clicks + 1
  /\ UNCHANGED <<limit, decksState, currentNotesCount, notesPane, filter, walk>>
  /\ notesOffset' \in Nat /\ notesMode' \in {"deck", "global", "find"}
  /\ \/ UNCHANGED <<currentDeck, currentDeckName, misnamed>>
     \/ currentDeck' \in Decks /\ currentDeckName' = currentDeck' /\ misnamed' = FALSE /\ q # Nothing
  /\ q # Nothing /\ q.kind = "find" => q.offset = 0
  /\ w = Nothing => asked["notes"] = Nothing /\ q = Nothing /\ notesOffset' = 0
  /\ ~strayed'["notes"] =>
       NotesPlace' /\ IF q = Nothing THEN w = asked["notes"] /\ ~strayed["notes"] ELSE q = w

\* The request that loadNotesByDeck makes, if it makes one.
DeckNotes == IF currentDeck' = 0 THEN Nothing ELSE NotesRequest("deck", currentDeck', filter, notesOffset')

LEMMA LoadedIs ==
  ASSUME NEW others, LoadNotesByDeck(others), currentDeck' \in Decks \union {0}, notesOffset' \in Nat,
         filter \in BOOLEAN
  PROVE  /\ pending' = IF DeckNotes = Nothing THEN others ELSE Append(others, DeckNotes)
         /\ latest' = IF DeckNotes = Nothing THEN latest ELSE [latest EXCEPT !["notes"] = "awaited"]
         /\ notesMode' = IF DeckNotes = Nothing THEN notesMode ELSE "deck"
         /\ DeckNotes = Nothing <=> currentDeck' = 0
         /\ DeckNotes # Nothing =>
              /\ DeckNotes \in NotesRequests /\ DeckNotes.kind = "deck" /\ DeckNotes.deck = currentDeck'
              /\ DeckNotes.filter = filter /\ DeckNotes.offset = notesOffset'
<1>1. CASE currentDeck' = 0
  BY <1>1 DEF DeckNotes, LoadNotesByDeck
<1>2. CASE currentDeck' # 0
  <2>. DEFINE d == currentDeck'
              o == notesOffset'
              q == NotesRequest("deck", d, filter, o)
  <2>1. /\ q \in NotesRequests /\ q.pane = "notes" /\ q.kind = "deck" /\ q.deck = d /\ q.filter = filter
        /\ q.offset = o
    <3>1. d \in Decks \union {0} /\ d # 0 /\ o \in Nat
      BY <1>2
    <3>. HIDE DEF d, o
    <3>. QED BY <3>1, NotesRequestIs
  <2>2. Request(others, q) /\ notesMode' = "deck" /\ DeckNotes = q
    BY <1>2 DEF LoadNotesByDeck, DeckNotes
  <2>. HIDE DEF q
  <2>3. q # Nothing
    BY <2>1, NotesRequestFields
  <2>4. pending' = Append(others, q) /\ latest' = [latest EXCEPT !["notes"] = "awaited"]
    BY <2>1, <2>2 DEF Request
  <2>. QED BY <1>2, <2>1, <2>2, <2>3, <2>4
<1>. QED BY <1>1, <1>2

LEMMA OpensDeck ==
  ASSUME Typed, OpenDeck
  PROVE  \E q, w \in NotesRequests \union {Nothing} : NotesClicked(q, w)
<1>. USE DEF Typed, TypedDecks, TypedNotes, TypedGhost
<1>1. PICK d \in Decks :
        /\ currentDeck' = d /\ currentDeckName' = d
        /\ AskAnew("notes", NotesRequest("deck", d, filter, 0))
  <2>1. \A d \in Range(allDecks) : d \in Decks
    BY ElementOfSeq, LenProperties DEF Range
  <2>. QED BY <2>1 DEF OpenDeck
<1>2. d \in Decks \union {0} /\ d # 0
  BY <1>1, DecksAssumed
<1>3. /\ notesOffset' = 0 /\ misnamed' = FALSE /\ clicks < MaxClicks /\ clicks' = clicks + 1
      /\ UNCHANGED <<limit, decksState, currentNotesCount, notesPane, filter, walk>>
      /\ LoadNotesByDeck(pending)
  BY DEF OpenDeck, Click
<1>. DEFINE q == DeckNotes
<1>4. /\ pending' = Append(pending, q) /\ latest' = [latest EXCEPT !["notes"] = "awaited"]
      /\ notesMode' = "deck" /\ q # Nothing
      /\ q \in NotesRequests /\ q.kind = "deck" /\ q.deck = d /\ q.offset = 0
  <2>1. currentDeck' \in Decks \union {0} /\ notesOffset' \in Nat /\ currentDeck' # 0
    BY <1>1, <1>2, <1>3
  <2>. QED BY <1>1, <1>3, <2>1, LoadedIs
<1>5. q = NotesRequest("deck", d, filter, 0)
  BY <1>1, <1>2, <1>3 DEF DeckNotes
<1>. HIDE DEF q
<1>6. asked' = [asked EXCEPT !["notes"] = q] /\ strayed' = [strayed EXCEPT !["notes"] = FALSE]
  BY <1>1, <1>5 DEF AskAnew
<1>7. strayed' \in [Panes -> BOOLEAN] /\ strayed'["decks"] = strayed["decks"] /\ asked'["notes"] = q
  BY <1>6 DEF Panes
<1>8. NotesPlace'
  BY <1>1, <1>3, <1>4, <1>7 DEF NotesPlace
<1>9. NotesClicked(q, q)
  BY <1>1, <1>3, <1>4, <1>6, <1>7, <1>8 DEF NotesClicked
<1>. QED BY <1>4, <1>9

\* A button that asks for nothing.
LEMMA AsksNothing ==
  ASSUME Typed, NotesPlaced, AskNothing, Click, notesOffset' = 0,
         UNCHANGED <<decksState, currentDeck, currentDeckName, notesMode, currentNotesCount, notesPane, filter,
                     pending, latest, misnamed, walk>>
  PROVE  NotesClicked(Nothing, asked["notes"])
<1>. DEFINE a == asked["notes"]
<1>1. /\ a \in NotesRequests \union {Nothing} /\ strayed \in [Panes -> BOOLEAN]
      /\ asked \in [Panes -> Requests \union {Nothing}] /\ notesMode \in {"deck", "global", "find"}
  BY DEF Typed, TypedNotes, TypedGhost
<1>2. /\ asked' = asked
      /\ strayed' = [strayed EXCEPT !["notes"] = @ \/ (a # Nothing /\ a.offset > 0)]
  BY DEF AskNothing
<1>3. /\ strayed' \in [Panes -> BOOLEAN] /\ strayed'["decks"] = strayed["decks"]
      /\ strayed'["notes"] = (strayed["notes"] \/ (a # Nothing /\ a.offset > 0))
  BY <1>1, <1>2 DEF Panes
<1>4. ASSUME ~strayed'["notes"]
      PROVE  NotesPlace' /\ ~strayed["notes"]
  <2>1. ~strayed["notes"] /\ NotesPlace /\ (a # Nothing => ~(a.offset > 0))
    BY <1>3, <1>4 DEF NotesPlaced
  <2>2. a # Nothing => a.offset = 0
    BY <1>1, <2>1, NotesRequestFields
  <2>. QED BY <1>2, <2>1, <2>2 DEF NotesPlace
<1>5. asked' = [asked EXCEPT !["notes"] = a]
  BY <1>1, <1>2
<1>6. clicks < MaxClicks /\ clicks' = clicks + 1 /\ limit' = limit
  BY DEF Click
<1>. QED BY <1>1, <1>3, <1>4, <1>5, <1>6 DEF NotesClicked

LEMMA AppliesFilter ==
  ASSUME Typed, NotesPlaced, ApplyFilter
  PROVE  \E q, w \in NotesRequests \union {Nothing} : NotesClicked(q, w)
<1>. USE DEF Typed, TypedNotes, TypedGhost
<1>1. /\ Click /\ notesOffset' = 0 /\ clicks < MaxClicks /\ clicks' = clicks + 1
      /\ UNCHANGED <<limit, decksState, currentDeck, currentDeckName, currentNotesCount, notesPane, filter,
                     misnamed, walk>>
      /\ LoadNotesByDeck(pending)
      /\ IF currentDeck = 0 THEN AskNothing ELSE AskAnew("notes", NotesRequest("deck", currentDeck, filter, 0))
  BY DEF ApplyFilter, Click
<1>2. CASE currentDeck = 0
  <2>1. AskNothing /\ UNCHANGED <<notesMode, pending, latest>>
    BY <1>1, <1>2 DEF LoadNotesByDeck
  <2>2. NotesClicked(Nothing, asked["notes"])
    BY <1>1, <2>1, AsksNothing
  <2>. QED BY <2>2
<1>3. CASE currentDeck # 0
  <2>. DEFINE q == DeckNotes
  <2>1. /\ pending' = Append(pending, q) /\ latest' = [latest EXCEPT !["notes"] = "awaited"]
        /\ notesMode' = "deck" /\ q # Nothing
        /\ q \in NotesRequests /\ q.kind = "deck" /\ q.deck = currentDeck /\ q.offset = 0
    <3>1. currentDeck' \in Decks \union {0} /\ notesOffset' \in Nat /\ currentDeck' # 0 /\ currentDeck' = currentDeck
      BY <1>1, <1>3
    <3>. QED BY <1>1, <3>1, LoadedIs
  <2>2. q = NotesRequest("deck", currentDeck, filter, 0)
    BY <1>1, <1>3 DEF DeckNotes
  <2>. HIDE DEF q
  <2>3. asked' = [asked EXCEPT !["notes"] = q] /\ strayed' = [strayed EXCEPT !["notes"] = FALSE]
    BY <1>1, <1>3, <2>2 DEF AskAnew
  <2>4. strayed' \in [Panes -> BOOLEAN] /\ strayed'["decks"] = strayed["decks"] /\ asked'["notes"] = q
    BY <2>3 DEF Panes
  <2>5. NotesPlace'
    BY <1>1, <2>1, <2>4 DEF NotesPlace
  <2>6. NotesClicked(q, q)
    BY <1>1, <2>1, <2>3, <2>4, <2>5 DEF NotesClicked
  <2>. QED BY <2>1, <2>6
<1>. QED BY <1>2, <1>3

\* The two requests that name no deck.
LEMMA OfNoDeck ==
  ASSUME NEW kind \in {"global", "find"}, NEW text \in BOOLEAN, NEW o \in Nat
  PROVE  /\ NotesRequest(kind, 0, text, o) \in NotesRequests
         /\ NotesRequest(kind, 0, text, o) # Nothing
         /\ NotesRequest(kind, 0, text, o).pane = "notes"
         /\ NotesRequest(kind, 0, text, o).kind = kind
         /\ NotesRequest(kind, 0, text, o).offset = o
         /\ NotesRequest(kind, 0, text, o).deck = 0
         /\ NotesRequest(kind, 0, text, o).filter = text
<1>. DEFINE q == NotesRequest(kind, 0, text, o)
<1>1. kind \in {"deck", "global", "find"} /\ 0 \in Decks \union {0}
  OBVIOUS
<1>2. q \in NotesRequests /\ q.pane = "notes" /\ q.kind = kind /\ q.offset = o /\ q.deck = 0 /\ q.filter = text
  <2>1. /\ q \in [pane : {"notes"}, kind : {"deck", "global", "find"}, deck : Decks \union {0},
                  filter : BOOLEAN, offset : Nat]
        /\ q.pane = "notes" /\ q.kind = kind /\ q.offset = o /\ q.deck = 0 /\ q.filter = text
    BY <1>1 DEF NotesRequest
  <2>. HIDE DEF q
  <2>2. q.kind # "deck"
    BY <2>1
  <2>. QED BY <2>1, <2>2 DEF NotesRequests
<1>. HIDE DEF q
<1>3. q # Nothing
  BY <1>2, NotesRequestFields
<1>. QED BY <1>2, <1>3 DEF q

\* The request that a global search makes.
LEMMA SearchIs ==
  ASSUME NEW text \in BOOLEAN, SearchGlobally(FALSE, text), notesOffset' \in Nat
  PROVE  /\ pending' = Append(pending, NotesRequest("global", 0, text, notesOffset'))
         /\ latest' = [latest EXCEPT !["notes"] = "awaited"] /\ notesMode' = "global"
<1>. DEFINE o == notesOffset'
            q == NotesRequest("global", 0, text, o)
<1>1. q.pane = "notes"
  <2>1. o \in Nat
    OBVIOUS
  <2>. HIDE DEF o
  <2>. QED BY <2>1, OfNoDeck
<1>2. Request(pending, q) /\ notesMode' = "global"
  BY DEF SearchGlobally
<1>. HIDE DEF q
<1>3. pending' = Append(pending, q) /\ latest' = [latest EXCEPT !["notes"] = "awaited"]
  BY <1>1, <1>2 DEF Request
<1>. QED BY <1>2, <1>3 DEF q

LEMMA SearchesGlobally ==
  ASSUME Typed, NotesPlaced, GlobalSearch
  PROVE  \E q, w \in NotesRequests \union {Nothing} : NotesClicked(q, w)
<1>. USE DEF Typed, TypedNotes, TypedGhost
<1>1. PICK empty \in BOOLEAN, text \in BOOLEAN :
        /\ SearchGlobally(empty, text)
        /\ IF empty THEN AskNothing ELSE AskAnew("notes", NotesRequest("global", 0, text, 0))
  BY DEF GlobalSearch
<1>2. /\ Click /\ notesOffset' = 0 /\ clicks < MaxClicks /\ clicks' = clicks + 1
      /\ UNCHANGED <<limit, decksState, currentDeck, currentDeckName, currentNotesCount, notesPane, filter,
                     misnamed, walk>>
  BY DEF GlobalSearch, Click
<1>3. CASE empty
  <2>1. AskNothing /\ UNCHANGED <<notesMode, pending, latest>>
    BY <1>1, <1>3 DEF SearchGlobally
  <2>2. NotesClicked(Nothing, asked["notes"])
    BY <1>2, <2>1, AsksNothing
  <2>. QED BY <2>2
<1>4. CASE ~empty
  <2>. DEFINE q == NotesRequest("global", 0, text, 0)
  <2>1. q \in NotesRequests /\ q # Nothing /\ q.kind = "global" /\ q.offset = 0
    BY OfNoDeck
  <2>2. /\ pending' = Append(pending, q) /\ latest' = [latest EXCEPT !["notes"] = "awaited"]
        /\ notesMode' = "global"
    <3>1. SearchGlobally(FALSE, text) /\ notesOffset' \in Nat
      BY <1>1, <1>2, <1>4
    <3>. QED BY <1>2, <3>1, SearchIs
  <2>. HIDE DEF q
  <2>3. asked' = [asked EXCEPT !["notes"] = q] /\ strayed' = [strayed EXCEPT !["notes"] = FALSE]
    BY <1>1, <1>4 DEF AskAnew, q
  <2>4. strayed' \in [Panes -> BOOLEAN] /\ strayed'["decks"] = strayed["decks"] /\ asked'["notes"] = q
    BY <2>3 DEF Panes
  <2>5. NotesPlace'
    BY <1>2, <2>1, <2>2, <2>4 DEF NotesPlace
  <2>6. NotesClicked(q, q)
    BY <1>2, <2>1, <2>2, <2>3, <2>4, <2>5 DEF NotesClicked
  <2>. QED BY <2>1, <2>6
<1>. QED BY <1>3, <1>4

LEMMA Finds ==
  ASSUME Typed, Find
  PROVE  \E q, w \in NotesRequests \union {Nothing} : NotesClicked(q, w)
<1>. USE DEF Typed, TypedNotes, TypedGhost
<1>. DEFINE q == NotesRequest("find", 0, FALSE, 0)
<1>1. q \in NotesRequests /\ q # Nothing /\ q.pane = "notes" /\ q.kind = "find" /\ q.offset = 0
  BY OfNoDeck
<1>2. /\ Request(pending, q) /\ AskAnew("notes", q)
      /\ clicks < MaxClicks /\ clicks' = clicks + 1
      /\ UNCHANGED <<limit, decksState, currentDeck, currentDeckName, notesOffset, notesMode,
                     currentNotesCount, notesPane, filter, misnamed, walk>>
  BY DEF Find, Click, notesState
<1>. HIDE DEF q
<1>3. pending' = Append(pending, q) /\ latest' = [latest EXCEPT !["notes"] = "awaited"]
  BY <1>1, <1>2 DEF Request
<1>4. asked' = [asked EXCEPT !["notes"] = q] /\ strayed' = [strayed EXCEPT !["notes"] = FALSE]
  BY <1>2 DEF AskAnew
<1>5. strayed' \in [Panes -> BOOLEAN] /\ strayed'["decks"] = strayed["decks"] /\ asked'["notes"] = q
  BY <1>4 DEF Panes
<1>6. NotesPlace'
  BY <1>1, <1>5 DEF NotesPlace
<1>7. NotesClicked(q, q)
  BY <1>1, <1>2, <1>3, <1>4, <1>5, <1>6 DEF NotesClicked
<1>. QED BY <1>1, <1>7

\* A page before, or after, the listing of notes that was asked for last.
LEMMA TurnedIs ==
  ASSUME Typed, NEW by \in Int, asked["notes"] # Nothing
  PROVE  /\ Turned(by) \in NotesRequests
         /\ Turned(by).kind = asked["notes"].kind /\ Turned(by).deck = asked["notes"].deck
         /\ Turned(by).filter = asked["notes"].filter
         /\ Turned(by).offset = Max({0, asked["notes"].offset + by})
<1>. DEFINE a == asked["notes"]
            x == Max({0, a.offset + by})
<1>1. a \in NotesRequests /\ a.offset \in Nat
  BY NotesRequestFields DEF Typed, TypedGhost
<1>2. x \in Nat
  <2>1. a.offset + by \in Int /\ 0 \in Int
    BY <1>1
  <2>2. x = IF 0 >= a.offset + by THEN 0 ELSE a.offset + by
    BY <2>1, OfTwo
  <2>. QED BY <2>1, <2>2
<1>3. Turned(by) = [a EXCEPT !.offset = x]
  BY DEF Turned
<1>. HIDE DEF a, x
<1>4. /\ [a EXCEPT !.offset = x] \in NotesRequests
      /\ [a EXCEPT !.offset = x].kind = a.kind /\ [a EXCEPT !.offset = x].deck = a.deck
      /\ [a EXCEPT !.offset = x].filter = a.filter /\ [a EXCEPT !.offset = x].offset = x
  BY <1>1, <1>2, NotesRequestTurned
<1>. QED BY <1>3, <1>4 DEF a, x

\* Two requests for notes that agree in everything.
LEMMA SameRequest ==
  ASSUME NEW q \in NotesRequests, NEW w \in NotesRequests,
         q.kind = w.kind, q.deck = w.deck, q.filter = w.filter, q.offset = w.offset
  PROVE  q = w
<1>1. \A v \in NotesRequests :
        v = [pane |-> "notes", kind |-> v.kind, deck |-> v.deck, filter |-> v.filter, offset |-> v.offset]
  BY DEF NotesRequests
<1>. QED BY <1>1

\* Prev and Next, when the page asks for a page of a deck.
LEMMA TurnsDeck ==
  ASSUME Typed, NotesPlaced, NEW by \in Int, NEW strays \in BOOLEAN, Click, asked["notes"] # Nothing,
         notesOffset' = Max({0, notesOffset + by}),
         LoadNotesByDeck(pending), AskOn("notes", Turned(by), strays),
         NotTheDecks /\ ~strayed["notes"] => strays,
         UNCHANGED <<decksState, currentDeck, currentDeckName, currentNotesCount, notesPane, filter, misnamed, walk>>
  PROVE  \E q, w \in NotesRequests \union {Nothing} : NotesClicked(q, w)
<1>. USE DEF Typed, TypedNotes, TypedGhost
<1>. DEFINE a == asked["notes"]
            q == DeckNotes
            w == Turned(by)
<1>0. notesOffset' \in Nat
  <2>1. notesOffset + by \in Int /\ 0 \in Int
    OBVIOUS
  <2>2. notesOffset' = IF 0 >= notesOffset + by THEN 0 ELSE notesOffset + by
    BY <2>1, OfTwo
  <2>. QED BY <2>1, <2>2
<1>1. /\ pending' = (IF q = Nothing THEN pending ELSE Append(pending, q))
      /\ latest' = (IF q = Nothing THEN latest ELSE [latest EXCEPT !["notes"] = "awaited"])
      /\ notesMode' = (IF q = Nothing THEN notesMode ELSE "deck")
      /\ q = Nothing <=> currentDeck = 0
      /\ q # Nothing => /\ q \in NotesRequests /\ q.kind = "deck" /\ q.deck = currentDeck
                        /\ q.filter = filter /\ q.offset = notesOffset'
  <2>1. currentDeck' \in Decks \union {0} /\ currentDeck' = currentDeck
    OBVIOUS
  <2>. QED BY <1>0, <2>1, LoadedIs
<1>2. /\ w \in NotesRequests /\ w # Nothing /\ w.kind = a.kind /\ w.deck = a.deck /\ w.filter = a.filter
      /\ w.offset = Max({0, a.offset + by})
  BY TurnedIs, NotesRequestFields
<1>3. a \in NotesRequests /\ (a.kind = "deck" <=> a.deck # 0)
  BY NotesRequestFields
<1>4. AskOn("notes", w, strays)
  OBVIOUS
<1>. HIDE DEF q, w
<1>5. asked' = [asked EXCEPT !["notes"] = w] /\ strayed' = [strayed EXCEPT !["notes"] = @ \/ strays]
  BY <1>4 DEF AskOn
<1>6. /\ strayed' \in [Panes -> BOOLEAN] /\ strayed'["decks"] = strayed["decks"] /\ asked'["notes"] = w
      /\ strayed'["notes"] = (strayed["notes"] \/ strays)
  BY <1>5 DEF Panes
<1>7. ASSUME ~strayed'["notes"]
      PROVE  NotesPlace' /\ q = w /\ q # Nothing
  <2>1. a.kind = "deck" /\ a.filter = filter /\ NotesPlace
    <3>1. ~strayed["notes"] /\ ~NotTheDecks
      BY <1>6, <1>7
    <3>. QED BY <3>1 DEF NotesPlaced, NotTheDecks
  <2>2. a.deck = currentDeck /\ a.offset = notesOffset /\ currentDeck # 0
    BY <1>3, <2>1 DEF NotesPlace
  <2>3. w.offset = notesOffset'
    BY <1>2, <2>2
  <2>4. q = w
    BY <1>1, <1>2, <2>1, <2>2, <2>3, SameRequest
  <2>5. NotesPlace'
    BY <1>1, <1>2, <1>6, <2>1, <2>2, <2>3 DEF NotesPlace
  <2>. QED BY <1>2, <2>4, <2>5
<1>8. clicks < MaxClicks /\ clicks' = clicks + 1 /\ limit' = limit
  BY DEF Click
<1>9. q \in NotesRequests \union {Nothing} /\ w \in NotesRequests \union {Nothing}
      /\ notesMode' \in {"deck", "global", "find"} /\ (q # Nothing => q.kind # "find")
  BY <1>1, <1>2
<1>10. NotesClicked(q, w)
  <2>1. ~strayed'["notes"] =>
          NotesPlace' /\ IF q = Nothing THEN w = asked["notes"] /\ ~strayed["notes"] ELSE q = w
    BY <1>7
  <2>. QED BY <1>0, <1>1, <1>2, <1>5, <1>6, <1>8, <1>9, <2>1 DEF NotesClicked
<1>. QED BY <1>9, <1>10

\* Next, when the page asks for a page of a global search.
LEMMA TurnsSearch ==
  ASSUME Typed, NotesPlaced, Click, asked["notes"] # Nothing, NextIsGlobal, notesOffset' = notesOffset + limit,
         NEW empty \in BOOLEAN, NEW text \in BOOLEAN, NEW strays \in BOOLEAN, SearchGlobally(empty, text),
         AskOn("notes", Turned(limit), strays),
         strays = IF asked["notes"].kind = "global" THEN empty \/ text # asked["notes"].filter ELSE NotTheDecks,
         UNCHANGED <<decksState, currentDeck, currentDeckName, currentNotesCount, notesPane, filter, misnamed, walk>>
  PROVE  \E q, w \in NotesRequests \union {Nothing} : NotesClicked(q, w)
<1>. USE DEF Typed, TypedDecks, TypedNotes, TypedGhost
<1>. DEFINE a == asked["notes"]
            o == notesOffset'
            g == NotesRequest("global", 0, text, o)
            q == IF empty THEN Nothing ELSE g
            w == Turned(limit)
<1>0. o \in Nat /\ limit \in Int /\ limit \in Nat
  OBVIOUS
<1>1. g \in NotesRequests /\ g # Nothing /\ g.kind = "global" /\ g.offset = o /\ g.deck = 0 /\ g.filter = text
  <2>. HIDE DEF o
  <2>. QED BY <1>0, OfNoDeck
<1>2. /\ w \in NotesRequests /\ w # Nothing /\ w.kind = a.kind /\ w.deck = a.deck /\ w.filter = a.filter
      /\ w.offset = Max({0, a.offset + limit})
  BY <1>0, TurnedIs, NotesRequestFields
<1>3. a \in NotesRequests /\ (a.kind = "deck" <=> a.deck # 0) /\ a.offset \in Nat
      /\ a.kind \in {"deck", "global", "find"}
  BY NotesRequestFields
<1>4. IF empty THEN UNCHANGED <<notesMode, pending, latest>>
      ELSE /\ pending' = Append(pending, g) /\ latest' = [latest EXCEPT !["notes"] = "awaited"]
           /\ notesMode' = "global"
  <2>1. CASE empty
    BY <2>1 DEF SearchGlobally
  <2>2. CASE ~empty
    <3>1. SearchGlobally(FALSE, text)
      BY <2>2
    <3>. QED BY <1>0, <2>2, <3>1, SearchIs
  <2>. QED BY <2>1, <2>2
<1>5. AskOn("notes", w, strays)
  OBVIOUS
<1>. HIDE DEF g, w, o
<1>6. asked' = [asked EXCEPT !["notes"] = w] /\ strayed' = [strayed EXCEPT !["notes"] = @ \/ strays]
  BY <1>5 DEF AskOn
<1>7. /\ strayed' \in [Panes -> BOOLEAN] /\ strayed'["decks"] = strayed["decks"] /\ asked'["notes"] = w
      /\ strayed'["notes"] = (strayed["notes"] \/ strays)
  BY <1>6 DEF Panes
<1>8. /\ pending' = (IF q = Nothing THEN pending ELSE Append(pending, q))
      /\ latest' = (IF q = Nothing THEN latest ELSE [latest EXCEPT !["notes"] = "awaited"])
      /\ q = Nothing <=> empty
  BY <1>1, <1>4
<1>9. ASSUME ~strayed'["notes"]
      PROVE  NotesPlace' /\ q = w /\ q # Nothing
  <2>1. NotesPlace /\ ~strays
    BY <1>7, <1>9 DEF NotesPlaced
  <2>2. a.kind = "global"
    <3>1. a.kind # "deck"
      BY <2>1 DEF NotesPlace, NextIsGlobal
    <3>2. a.kind # "find"
      BY <2>1 DEF NotTheDecks
    <3>. QED BY <1>3, <3>1, <3>2
  <2>3. ~empty /\ text = a.filter /\ a.offset = notesOffset
    BY <2>1, <2>2 DEF NotesPlace
  <2>4. w.offset = o
    <3>1. 0 \in Int /\ a.offset + limit \in Int /\ a.offset + limit \in Nat
      BY <1>0, <1>3
    <3>2. Max({0, a.offset + limit}) = IF 0 >= a.offset + limit THEN 0 ELSE a.offset + limit
      BY <3>1, OfTwo
    <3>. QED BY <1>2, <2>3, <3>1, <3>2 DEF o
  <2>5. q = w
    BY <1>1, <1>2, <1>3, <2>2, <2>3, <2>4, SameRequest
  <2>6. NotesPlace'
    BY <1>2, <1>4, <1>7, <2>2, <2>3, <2>4 DEF NotesPlace, o
  <2>. QED BY <1>2, <2>5, <2>6
<1>10. clicks < MaxClicks /\ clicks' = clicks + 1 /\ limit' = limit
  BY DEF Click
<1>11. /\ q \in NotesRequests \union {Nothing} /\ w \in NotesRequests \union {Nothing}
       /\ notesMode' \in {"deck", "global", "find"} /\ (q # Nothing => q.kind # "find") /\ notesOffset' \in Nat
  BY <1>0, <1>1, <1>2, <1>4 DEF o
<1>. HIDE DEF q
<1>12. NotesClicked(q, w)
  <2>1. ~strayed'["notes"] =>
          NotesPlace' /\ IF q = Nothing THEN w = asked["notes"] /\ ~strayed["notes"] ELSE q = w
    BY <1>9
  <2>. QED BY <1>2, <1>6, <1>7, <1>8, <1>10, <1>11, <2>1 DEF NotesClicked
<1>. QED BY <1>11, <1>12

LEMMA Turns ==
  ASSUME Typed, NotesPlaced, NotesPrev \/ NotesNext
  PROVE  \E q, w \in NotesRequests \union {Nothing} : NotesClicked(q, w)
<1>1. limit \in Nat /\ limit > 0 /\ notesOffset \in Nat /\ -limit \in Int /\ limit \in Int
      /\ currentNotesCount \in Nat /\ NotTheDecks \in BOOLEAN
  BY DEF Typed, TypedDecks, TypedNotes, NotTheDecks
<1>2. CASE NotesPrev
  <2>1. asked["notes"] # Nothing
    BY <1>1, <1>2 DEF NotesPrev, NotesPlaced, NoneYet
  <2>2. notesOffset' = Max({0, notesOffset + -limit})
    <3>1. notesOffset - limit = notesOffset + -limit
      BY <1>1
    <3>. QED BY <1>2, <3>1 DEF NotesPrev
  <2>3. /\ Click /\ LoadNotesByDeck(pending) /\ AskOn("notes", Turned(-limit), NotTheDecks)
        /\ UNCHANGED <<decksState, currentDeck, currentDeckName, currentNotesCount, notesPane, filter, misnamed, walk>>
    BY <1>2 DEF NotesPrev
  <2>. QED BY <1>1, <2>1, <2>2, <2>3, TurnsDeck
<1>3. CASE NotesNext
  <2>1. asked["notes"] # Nothing
    BY <1>1, <1>3 DEF NotesNext, NotesPlaced, NoneYet
  <2>. DEFINE Strays(empty, text) ==
         IF asked["notes"].kind = "global" THEN empty \/ text # asked["notes"].filter ELSE NotTheDecks
  <2>2. /\ Click /\ notesOffset' = notesOffset + limit
        /\ UNCHANGED <<decksState, currentDeck, currentDeckName, currentNotesCount, notesPane, filter, misnamed, walk>>
    BY <1>3 DEF NotesNext
  <2>3. PICK empty, text \in IF NextIsGlobal THEN BOOLEAN ELSE {FALSE} :
          /\ IF NextIsGlobal THEN SearchGlobally(empty, text) ELSE LoadNotesByDeck(pending)
          /\ AskOn("notes", Turned(limit), Strays(empty, text))
    BY <1>3 DEF NotesNext
  <2>4. Strays(empty, text) \in BOOLEAN
    BY <1>1
  <2>5. CASE NextIsGlobal
    <3>. DEFINE strays == Strays(empty, text)
    <3>1. strays \in BOOLEAN /\ SearchGlobally(empty, text) /\ AskOn("notes", Turned(limit), strays)
          /\ empty \in BOOLEAN /\ text \in BOOLEAN
      BY <2>3, <2>4, <2>5
    <3>2. strays = IF asked["notes"].kind = "global" THEN empty \/ text # asked["notes"].filter ELSE NotTheDecks
      OBVIOUS
    <3>. HIDE DEF strays
    <3>. QED BY <2>1, <2>2, <2>5, <3>1, <3>2, TurnsSearch
  <2>6. CASE ~NextIsGlobal
    <3>. DEFINE strays == Strays(empty, text)
    <3>1. strays \in BOOLEAN /\ LoadNotesByDeck(pending) /\ AskOn("notes", Turned(limit), strays)
      BY <2>3, <2>4, <2>6
    <3>2. NotTheDecks /\ ~strayed["notes"] => strays
      <4>1. ~strayed["notes"] => asked["notes"].kind # "global"
        BY <2>1, <2>6 DEF NotesPlaced, NotesPlace, NextIsGlobal
      <4>. QED BY <4>1
    <3>3. notesOffset' = Max({0, notesOffset + limit})
      <4>1. 0 \in Int /\ notesOffset + limit \in Int /\ notesOffset + limit > 0
        BY <1>1
      <4>2. Max({0, notesOffset + limit}) = IF 0 >= notesOffset + limit THEN 0 ELSE notesOffset + limit
        BY <4>1, OfTwo
      <4>. QED BY <2>2, <4>1, <4>2
    <3>. HIDE DEF strays
    <3>. QED BY <1>1, <2>1, <2>2, <3>1, <3>2, <3>3, TurnsDeck
  <2>. QED BY <2>5, <2>6
<1>. QED BY <1>2, <1>3

LEMMA NotesClicks ==
  ASSUME Typed, NotesPlaced,
         OpenDeck \/ ApplyFilter \/ GlobalSearch \/ Find \/ NotesPrev \/ NotesNext
  PROVE  \E q, w \in NotesRequests \union {Nothing} : NotesClicked(q, w)
BY OpensDeck, AppliesFilter, SearchesGlobally, Finds, Turns

\* The requests that are left, and one more, are well-typed.
LEMMA FewerTyped ==
  ASSUME NEW s \in Seq(Requests), NEW d, NEW i \in DOMAIN s, \A k \in DOMAIN s : TypedRequest(s[k], d)
  PROVE  /\ RemoveAt(s, i) \in Seq(Requests)
         /\ \A k \in DOMAIN RemoveAt(s, i) : TypedRequest(RemoveAt(s, i)[k], d)
<1>. DEFINE t == RemoveAt(s, i)
<1>1. t \in Seq(Requests)
  BY Removed
<1>2. \A k \in DOMAIN t : \E j \in DOMAIN s : t[k] = s[j]
  BY AnsweredOne
<1>. HIDE DEF t
<1>3. \A k \in DOMAIN t : TypedRequest(t[k], d)
  BY <1>2
<1>. QED BY <1>1, <1>3 DEF t

LEMMA MoreTyped ==
  ASSUME NEW s \in Seq(Requests), NEW d, NEW e, NEW q, TypedRequest(q, e), d # 0 => e # 0,
         \A k \in DOMAIN s : TypedRequest(s[k], d)
  PROVE  /\ Append(s, q) \in Seq(Requests)
         /\ \A k \in DOMAIN Append(s, q) : TypedRequest(Append(s, q)[k], e)
<1>. DEFINE n == Len(s)
            t == Append(s, q)
<1>1. q \in Requests
  BY DEF TypedRequest
<1>2. n \in Nat /\ DOMAIN s = 1..n /\ t \in Seq(Requests) /\ DOMAIN t = 1..(n + 1) /\ t[n + 1] = q
      /\ \A k \in 1..n : t[k] = s[k]
  BY <1>1, LenProperties, AppendProperties
<1>. HIDE DEF n, t
<1>3. \A k \in DOMAIN s : TypedRequest(s[k], e)
  BY DEF TypedRequest
<1>4. ASSUME NEW k \in DOMAIN t
      PROVE  TypedRequest(t[k], e)
  <2>1. k = n + 1 \/ k \in DOMAIN s
    BY <1>2
  <2>. QED BY <1>2, <1>3, <2>1
<1>. QED BY <1>2, <1>4 DEF t

\* What the server lists.
LEMMA ListsDecks ==
  ASSUME limit \in Nat \ {0}, NEW o \in Nat
  PROVE  /\ ListDecks(o) \in Seq(Decks)
         /\ limit =< MaxPageLimit =>
              ListDecks(o) = SubSeq(OrderById(Decks), o + 1, Min({o + limit, Len(OrderById(Decks))}))
<1>. DEFINE p == Clamp(limit, o, 0)
            rows == OrderById(Decks)
<1>1. p.offset = o /\ p.limit \in Nat \ {0} /\ (limit =< MaxPageLimit => p.limit = limit)
  BY Clamped
<1>2. rows \in Seq(Decks)
  BY OrderByIdRows, DecksAssumed
<1>3. ListDecks(o) = SubSeq(rows, p.offset + 1, Min({p.offset + p.limit, Len(rows)}))
  BY DEF ListDecks, Cut
<1>. HIDE DEF p, rows
<1>4. SubSeq(rows, p.offset + 1, Min({p.offset + p.limit, Len(rows)})) \in Seq(Decks)
  BY <1>1, <1>2, PageOfRows
<1>5. limit =< MaxPageLimit => ListDecks(o) = SubSeq(rows, o + 1, Min({o + limit, Len(rows)}))
  BY <1>1, <1>3
<1>. QED BY <1>3, <1>4, <1>5 DEF rows

LEMMA MatchingIs ==
  ASSUME NEW q \in NotesRequests, NEW matching \in Matching(q)
  PROVE  /\ matching \in SUBSET Nat /\ IsFiniteSet(matching)
         /\ q.kind = "deck" /\ ~q.filter => matching = InDeck(q.deck)
<1>1. q.kind \in {"deck", "global", "find"} /\ q.filter \in BOOLEAN
  BY NotesRequestFields
<1>2. matching \in SUBSET Notes
  <2>1. CASE q.kind = "deck"
    BY <2>1, <1>1, DecksAssumed DEF Matching
  <2>2. CASE q.kind = "global"
    BY <2>2 DEF Matching
  <2>3. CASE q.kind = "find"
    BY <2>3 DEF Matching
  <2>. QED BY <1>1, <2>1, <2>2, <2>3
<1>3. matching \in SUBSET Nat /\ IsFiniteSet(matching)
  BY <1>2, DecksAssumed, FS_Subset
<1>4. q.kind = "deck" /\ ~q.filter => matching = InDeck(q.deck)
  BY DEF Matching
<1>. QED BY <1>3, <1>4

LEMMA ListsNotes ==
  ASSUME limit \in Nat \ {0}, NEW q \in NotesRequests, NEW matching \in Matching(q)
  PROVE  /\ ListNotes(q, matching) \in Seq(matching) /\ Len(ListNotes(q, matching)) \in Nat
         /\ limit =< MaxPageLimit /\ q.kind # "find" =>
              ListNotes(q, matching)
                = SubSeq(OrderById(matching), q.offset + 1, Min({q.offset + limit, Len(OrderById(matching))}))
<1>. DEFINE o == q.offset
            p == Clamp(limit, o, limit)
            rows == OrderById(matching)
<1>0. o \in Nat
  BY NotesRequestFields
<1>1. p.offset = o /\ p.limit \in Nat \ {0} /\ (limit =< MaxPageLimit => p.limit = limit)
  <2>. HIDE DEF o
  <2>. QED BY <1>0, Clamped
<1>2. rows \in Seq(matching)
  BY OrderByIdRows, MatchingIs
<1>3. ListNotes(q, matching) =
        IF q.kind = "find" THEN rows
        ELSE SubSeq(rows, p.offset + 1, Min({p.offset + p.limit, Len(rows)}))
  BY DEF ListNotes, Cut
<1>. HIDE DEF p, rows, o
<1>4. SubSeq(rows, p.offset + 1, Min({p.offset + p.limit, Len(rows)})) \in Seq(matching)
  BY <1>0, <1>1, <1>2, PageOfRows
<1>5. ListNotes(q, matching) \in Seq(matching)
  BY <1>2, <1>3, <1>4
<1>6. Len(ListNotes(q, matching)) \in Nat
  BY <1>5, LenProperties
<1>7. limit =< MaxPageLimit /\ q.kind # "find" =>
        ListNotes(q, matching) = SubSeq(rows, o + 1, Min({o + limit, Len(rows)}))
  BY <1>1, <1>3
<1>. QED BY <1>5, <1>6, <1>7 DEF rows, o

-----------------------------------------------------------------------------
(* Types are kept.                                                         *)

LEMMA DecksClickTyped ==
  ASSUME Typed, NEW search \in BOOLEAN, NEW o \in Nat, NEW w \in DecksRequests, DecksClicked(search, o, w)
  PROVE  Typed'
<1>. DEFINE q == DecksRequest(search, o)
<1>1. q \in Requests /\ q.pane = "decks" /\ w \in Requests
  BY DecksRequestIs, DecksRequestFields
<1>2. /\ decksSearchMode' = search /\ deckOffset' = o /\ (search => o = 0)
      /\ pending' = Append(pending, q)
      /\ latest' = [latest EXCEPT !["decks"] = "awaited"]
      /\ asked' = [asked EXCEPT !["decks"] = w]
      /\ strayed' \in [Panes -> BOOLEAN] /\ (~strayed'["decks"] => w = q)
      /\ clicks < MaxClicks /\ clicks' = clicks + 1
      /\ UNCHANGED <<limit, allDecks, decksTotal, decksPane, notesState, filter, misnamed, walk>>
  BY DEF DecksClicked
<1>3. TypedRequest(q, currentDeck)
  BY <1>1 DEF TypedRequest
<1>. HIDE DEF q
<1>4. TypedDecks'
  BY <1>2, BrowsingAssumption DEF Typed, TypedDecks
<1>5. TypedNotes'
  BY <1>2 DEF Typed, TypedNotes, notesState
<1>6. TypedPending'
  <2>1. Append(pending, q) \in Seq(Requests)
        /\ \A k \in DOMAIN Append(pending, q) : TypedRequest(Append(pending, q)[k], currentDeck)
    BY <1>3, MoreTyped DEF Typed, TypedPending
  <2>. QED BY <1>2, <2>1 DEF TypedPending, notesState
<1>7. TypedGhost'
  <2>1. asked' \in [Panes -> Requests \union {Nothing}] /\ asked'["decks"] = w
        /\ asked'["notes"] = asked["notes"]
    BY <1>1, <1>2 DEF Typed, TypedGhost, Panes
  <2>2. latest' \in [Panes -> {"awaited", "answered", "overtaken"}]
    BY <1>2 DEF Typed, TypedGhost
  <2>3. DecksHere' = q
    BY <1>2 DEF DecksHere, q
  <2>. QED BY <1>2, <2>1, <2>2, <2>3 DEF Typed, TypedGhost
<1>. QED BY <1>4, <1>5, <1>6, <1>7 DEF Typed

LEMMA NotesClickTyped ==
  ASSUME Typed, NEW q \in NotesRequests \union {Nothing}, NEW w \in NotesRequests \union {Nothing},
         NotesClicked(q, w)
  PROVE  Typed'
<1>1. /\ pending' = (IF q = Nothing THEN pending ELSE Append(pending, q))
      /\ asked' = [asked EXCEPT !["notes"] = w]
      /\ latest' = (IF q = Nothing THEN latest ELSE [latest EXCEPT !["notes"] = "awaited"])
      /\ strayed' \in [Panes -> BOOLEAN] /\ strayed'["decks"] = strayed["decks"]
      /\ clicks < MaxClicks /\ clicks' = clicks + 1
      /\ UNCHANGED <<limit, decksState, currentNotesCount, notesPane, filter, walk>>
      /\ notesOffset' \in Nat /\ notesMode' \in {"deck", "global", "find"}
      /\ \/ UNCHANGED <<currentDeck, currentDeckName, misnamed>>
         \/ currentDeck' \in Decks /\ currentDeckName' = currentDeck' /\ misnamed' = FALSE /\ q # Nothing
      /\ q # Nothing /\ q.kind = "find" => q.offset = 0
  BY DEF NotesClicked
<1>2. TypedDecks'
  BY <1>1, BrowsingAssumption DEF Typed, TypedDecks, decksState
<1>3. TypedNotes'
  BY <1>1, DecksAssumed DEF Typed, TypedNotes
<1>4. currentDeck # 0 => currentDeck' # 0
  BY <1>1, DecksAssumed
<1>5. TypedPending'
  <2>1. CASE q = Nothing
    BY <1>1, <1>4, <2>1 DEF Typed, TypedPending, TypedRequest
  <2>2. CASE q # Nothing
    <3>1. TypedRequest(q, currentDeck')
      <4>1. q \in Requests /\ q.pane = "notes"
        BY <2>2, NotesRequestFields
      <4>. QED BY <1>1, <2>2, <4>1 DEF TypedRequest
    <3>. DEFINE e == currentDeck'
    <3>2. TypedRequest(q, e) /\ (currentDeck # 0 => e # 0)
      BY <1>4, <3>1
    <3>. HIDE DEF e
    <3>3. Append(pending, q) \in Seq(Requests)
          /\ \A k \in DOMAIN Append(pending, q) : TypedRequest(Append(pending, q)[k], e)
      BY <3>2, MoreTyped DEF Typed, TypedPending
    <3>. QED BY <1>1, <2>2, <3>3 DEF TypedPending, e
  <2>. QED BY <2>1, <2>2
<1>6. TypedGhost'
  <2>1. asked' \in [Panes -> Requests \union {Nothing}] /\ asked'["notes"] = w
        /\ asked'["decks"] = asked["decks"]
    BY <1>1, NotesRequestFields DEF Typed, TypedGhost, Panes
  <2>2. latest' \in [Panes -> {"awaited", "answered", "overtaken"}]
    BY <1>1 DEF Typed, TypedGhost
  <2>3. misnamed' \in BOOLEAN
    BY <1>1 DEF Typed, TypedGhost
  <2>4. DecksHere' = DecksHere
    BY <1>1 DEF DecksHere, decksState
  <2>. QED BY <1>1, <2>1, <2>2, <2>3, <2>4 DEF Typed, TypedGhost
<1>. QED BY <1>2, <1>3, <1>5, <1>6 DEF Typed

LEMMA OtherClickTyped ==
  ASSUME Typed, Type \/ SaveNote \/ RenameDeck
  PROVE  Typed'
<1>1. clicks < MaxClicks /\ clicks' = clicks + 1 /\ limit' = limit
      /\ UNCHANGED <<decksState, notesState, ghost>> /\ filter' \in BOOLEAN
  BY DEF Type, SaveNote, RenameDeck, Click, Typed, TypedNotes
<1>2. TypedDecks'
  BY <1>1, BrowsingAssumption DEF Typed, TypedDecks, decksState
<1>3. TypedNotes'
  BY <1>1 DEF Typed, TypedNotes, notesState
<1>4. TypedGhost'
  BY <1>1 DEF Typed, TypedGhost, DecksHere, ghost, decksState
<1>5. TypedPending'
  <2>1. CASE Type
    BY <2>1, <1>1 DEF Type, Typed, TypedPending, notesState
  <2>2. CASE SaveNote \/ RenameDeck
    <3>1. PICK q : pending' = Append(pending, q) /\ TypedRequest(q, currentDeck)
      <4>1. CASE SaveNote
        <5>. DEFINE q == [pane |-> "save"]
        <5>1. q \in [pane : {"config", "save"}] /\ q.pane = "save" /\ pending' = Append(pending, q)
          BY <4>1 DEF SaveNote
        <5>. HIDE DEF q
        <5>2. TypedRequest(q, currentDeck)
          BY <5>1 DEF TypedRequest, Requests
        <5>. QED BY <5>1, <5>2
      <4>2. CASE RenameDeck
        <5>. DEFINE q == [pane |-> "rename", deck |-> currentDeck]
        <5>1. currentDeck # 0 /\ pending' = Append(pending, q)
          BY <4>2 DEF RenameDeck
        <5>2. q \in RenameRequests /\ q.pane = "rename"
          BY <5>1 DEF RenameRequests, Typed, TypedNotes
        <5>. HIDE DEF q
        <5>3. TypedRequest(q, currentDeck)
          BY <5>1, <5>2 DEF TypedRequest, Requests
        <5>. QED BY <5>1, <5>3
      <4>. QED BY <2>2, <4>1, <4>2
    <3>2. Append(pending, q) \in Seq(Requests)
          /\ \A k \in DOMAIN Append(pending, q) : TypedRequest(Append(pending, q)[k], currentDeck)
      BY <3>1, MoreTyped DEF Typed, TypedPending
    <3>. QED BY <1>1, <3>1, <3>2 DEF TypedPending, notesState
  <2>. QED BY <2>1, <2>2
<1>. QED BY <1>2, <1>3, <1>4, <1>5 DEF Typed

\* A request that has been answered, or has failed.
LEMMA AnsweredIs ==
  ASSUME Typed, NEW i \in DOMAIN pending, Answered(i)
  PROVE  /\ pending' = RemoveAt(pending, i) /\ latest' \in [Panes -> {"awaited", "answered", "overtaken"}]
         /\ \A p \in Panes : p # pending[i].pane => latest'[p] = latest[p]
         /\ \A p \in Panes : p = pending[i].pane =>
              /\ latest'[p] = "awaited" => latest[p] = "awaited" /\ ~LastOf(pending, i)
              /\ latest'[p] = "answered" => latest[p] = "awaited" /\ LastOf(pending, i)
<1>. DEFINE p == pending[i].pane
            last == \A j \in DOMAIN pending : pending[j].pane = p => j <= i
            next == IF latest[p] # "awaited" THEN "overtaken" ELSE IF last THEN "answered" ELSE "awaited"
<1>1. /\ pending' = RemoveAt(pending, i)
      /\ latest' = IF p \in Panes THEN [latest EXCEPT ![p] = next] ELSE latest
  BY DEF Answered
<1>2. last <=> LastOf(pending, i)
  BY DEF LastOf
<1>3. latest \in [Panes -> {"awaited", "answered", "overtaken"}] /\ next \in {"awaited", "answered", "overtaken"}
  BY DEF Typed, TypedGhost
<1>. HIDE DEF last
<1>4. /\ next = "awaited" => latest[p] = "awaited" /\ ~LastOf(pending, i)
      /\ next = "answered" => latest[p] = "awaited" /\ LastOf(pending, i)
  BY <1>2
<1>. HIDE DEF next, p
<1>5. /\ latest' \in [Panes -> {"awaited", "answered", "overtaken"}]
      /\ \A r \in Panes : r # p => latest'[r] = latest[r]
      /\ p \in Panes => latest'[p] = next
  BY <1>1, <1>3
<1>. QED BY <1>1, <1>4, <1>5 DEF p

LEMMA DecksAnswer ==
  ASSUME Typed, NEW i \in DOMAIN pending, DecksArrive(i)
  PROVE  /\ pending[i] \in DecksRequests /\ Answered(i)
         /\ allDecks' \in Seq(Decks) /\ decksTotal' \in 0..Cardinality(Decks)
         /\ ~pending[i].search => allDecks' = ListDecks(pending[i].offset) /\ decksTotal' = Cardinality(Decks)
         /\ decksPane' = [of |-> pending[i], offset |-> deckOffset, ok |-> TRUE,
                          next |-> ~decksSearchMode /\ deckOffset + Len(allDecks') < decksTotal']
         /\ walk' = [walk EXCEPT !["decks"] =
              IF decksSearchMode \/ pending[i].search \/ deckOffset # pending[i].offset THEN NoWalk
              ELSE Extend(walk.decks, pending[i], allDecks', ~decksPane'.next, {decksTotal'})]
         /\ UNCHANGED <<limit, clicks, deckOffset, decksSearchMode, notesState, filter, asked, strayed, misnamed>>
<1>. DEFINE q == pending[i]
<1>1. q \in Requests /\ q.pane = "decks"
  BY ElementOfSeq, LenProperties DEF Typed, TypedPending, DecksArrive
<1>2. q \in DecksRequests
  BY <1>1, RequestTypes
<1>3. q.search \in BOOLEAN /\ q.offset \in Nat
  BY <1>2, DecksRequestFields
<1>4. PICK found \in IF q.search THEN SUBSET Decks ELSE {Decks} :
        /\ allDecks' = (IF q.search THEN OrderById(found) ELSE ListDecks(q.offset))
        /\ decksTotal' = Cardinality(found)
  BY DEF DecksArrive
<1>5. found \in SUBSET Decks /\ (~q.search => found = Decks)
  BY <1>4
<1>6. found \in SUBSET Nat /\ IsFiniteSet(found) /\ Cardinality(found) =< Cardinality(Decks)
  BY <1>5, DecksAssumed, FS_Subset
<1>7. allDecks' \in Seq(Decks)
  <2>1. OrderById(found) \in Seq(found)
    BY <1>6, OrderByIdRows
  <2>2. OrderById(found) \in Seq(Decks)
    BY <1>5, <2>1, SeqMonotonic
  <2>3. ListDecks(q.offset) \in Seq(Decks)
    <3>. DEFINE o == q.offset
    <3>1. o \in Nat
      BY <1>3
    <3>. HIDE DEF o
    <3>2. ListDecks(o) \in Seq(Decks)
      BY <3>1, ListsDecks DEF Typed, TypedDecks
    <3>. QED BY <3>2 DEF o
  <2>. QED BY <1>4, <2>2, <2>3
<1>8. decksTotal' \in 0..Cardinality(Decks)
  <2>1. Cardinality(found) \in Nat
    BY <1>6, FS_CardinalityType
  <2>. QED BY <1>4, <1>6, <2>1, DecksAssumed
<1>9. ~q.search => allDecks' = ListDecks(q.offset) /\ decksTotal' = Cardinality(Decks)
  BY <1>4, <1>5
<1>10. /\ decksPane' = [of |-> q, offset |-> deckOffset, ok |-> TRUE,
                        next |-> ~decksSearchMode /\ deckOffset + Len(allDecks') < decksTotal']
       /\ walk' = [walk EXCEPT !["decks"] =
            IF decksSearchMode \/ q.search \/ deckOffset # q.offset THEN NoWalk
            ELSE Extend(@, q, allDecks', ~decksPane'.next, {decksTotal'})]
       /\ Answered(i)
       /\ UNCHANGED <<limit, clicks, deckOffset, decksSearchMode, notesState, filter, asked, strayed, misnamed>>
  BY DEF DecksArrive
<1>11. walk' = [walk EXCEPT !["decks"] =
         IF decksSearchMode \/ q.search \/ deckOffset # q.offset THEN NoWalk
         ELSE Extend(walk.decks, q, allDecks', ~decksPane'.next, {decksTotal'})]
  BY <1>10
<1>. QED BY <1>2, <1>7, <1>8, <1>9, <1>10, <1>11

LEMMA DecksAnswerTyped ==
  ASSUME Typed, NEW i \in DOMAIN pending, DecksArrive(i)
  PROVE  Typed'
<1>1. /\ pending[i] \in Requests /\ Answered(i)
      /\ allDecks' \in Seq(Decks) /\ decksTotal' \in 0..Cardinality(Decks)
      /\ decksPane' = [of |-> pending[i], offset |-> deckOffset, ok |-> TRUE,
                       next |-> ~decksSearchMode /\ deckOffset + Len(allDecks') < decksTotal']
      /\ UNCHANGED <<limit, clicks, deckOffset, decksSearchMode, notesState, filter, asked, strayed, misnamed>>
  BY DecksAnswer, DecksRequestFields
<1>0. pending' = RemoveAt(pending, i) /\ latest' \in [Panes -> {"awaited", "answered", "overtaken"}]
  BY <1>1, AnsweredIs
<1>2. decksPane' \in [of : Requests \union {Nothing}, offset : Nat, ok : BOOLEAN, next : BOOLEAN]
  <2>. DEFINE next == ~decksSearchMode /\ deckOffset + Len(allDecks') < decksTotal'
  <2>1. next \in BOOLEAN
    OBVIOUS
  <2>2. decksPane' = [of |-> pending[i], offset |-> deckOffset, ok |-> TRUE, next |-> next]
    BY <1>1
  <2>. HIDE DEF next
  <2>3. deckOffset \in Nat
    BY DEF Typed, TypedDecks
  <2>. QED BY <1>1, <2>1, <2>2, <2>3
<1>3. TypedDecks'
  BY <1>1, <1>2 DEF Typed, TypedDecks
<1>4. TypedNotes'
  BY <1>1 DEF Typed, TypedNotes, notesState
<1>5. TypedPending'
  BY <1>0, <1>1, FewerTyped DEF Typed, TypedPending, notesState
<1>6. TypedGhost'
  BY <1>0, <1>1 DEF Typed, TypedGhost, DecksHere
<1>. QED BY <1>3, <1>4, <1>5, <1>6 DEF Typed

LEMMA NotesAnswer ==
  ASSUME Typed, NEW i \in DOMAIN pending, NotesArrive(i)
  PROVE  /\ pending[i] \in NotesRequests /\ Answered(i)
         /\ IF pending[i].kind = "find" THEN notesMode' = "find" /\ notesOffset' = 0
            ELSE UNCHANGED <<notesMode, notesOffset>>
         /\ currentNotesCount' \in Nat
         /\ notesPane' = [of |-> pending[i], label |-> pending[i].kind,
                          deck |-> IF pending[i].kind = "deck" THEN currentDeckName ELSE 0,
                          offset |-> notesOffset', ok |-> TRUE]
         /\ strayed' = [strayed EXCEPT !["notes"] = @ \/ LateFind(pending[i])]
         /\ \E pages : walk' = [walk EXCEPT !["notes"] = pages] /\
              \/ pages = NoWalk
              \/ /\ pending[i].kind = "deck" /\ ~pending[i].filter
                 /\ \E total \in CountNotes(InDeck(pending[i].deck)) :
                      LET rows == ListNotes(pending[i], InDeck(pending[i].deck))
                      IN  pages = Extend(walk.notes, pending[i], rows, Len(rows) < limit, total)
         /\ UNCHANGED <<limit, clicks, decksState, currentDeck, currentDeckName, filter, asked, misnamed>>
<1>. DEFINE q == pending[i]
<1>1. q \in Requests /\ q.pane = "notes"
  BY ElementOfSeq, LenProperties DEF Typed, TypedPending, NotesArrive
<1>2. q \in NotesRequests
  BY <1>1, RequestTypes
<1>. DEFINE Pages(rows, total) ==
              IF q.kind = "deck" /\ ~q.filter THEN Extend(walk.notes, q, rows, Len(rows) < limit, total)
              ELSE NoWalk
<1>3. PICK matching \in Matching(q) :
        /\ Render(q, ListNotes(q, matching), q.kind, IF q.kind = "deck" THEN currentDeckName ELSE 0, notesOffset')
        /\ \E total \in CountNotes(matching) :
             walk' = [walk EXCEPT !["notes"] = Pages(ListNotes(q, matching), total)]
  BY DEF NotesArrive
<1>4. /\ IF q.kind = "find" THEN notesMode' = "find" /\ notesOffset' = 0
         ELSE UNCHANGED <<notesMode, notesOffset>>
      /\ Answered(i) /\ strayed' = [strayed EXCEPT !["notes"] = @ \/ LateFind(q)]
      /\ UNCHANGED <<limit, clicks, decksState, currentDeck, currentDeckName, filter, asked, misnamed>>
  BY DEF NotesArrive, Found
<1>5. Len(ListNotes(q, matching)) \in Nat /\ (q.kind = "deck" /\ ~q.filter => matching = InDeck(q.deck))
  <2>. HIDE DEF q
  <2>. QED BY <1>2, <1>3, ListsNotes, MatchingIs DEF Typed, TypedDecks
<1>6. /\ currentNotesCount' \in Nat
      /\ notesPane' = [of |-> q, label |-> q.kind, deck |-> IF q.kind = "deck" THEN currentDeckName ELSE 0,
                       offset |-> notesOffset', ok |-> TRUE]
  BY <1>3, <1>5 DEF Render
<1>7. PICK total \in CountNotes(matching) :
        walk' = [walk EXCEPT !["notes"] = Pages(ListNotes(q, matching), total)]
  BY <1>3
<1>8. \E pages : walk' = [walk EXCEPT !["notes"] = pages] /\
        \/ pages = NoWalk
        \/ /\ q.kind = "deck" /\ ~q.filter
           /\ \E all \in CountNotes(InDeck(q.deck)) :
                pages = Extend(walk.notes, q, ListNotes(q, InDeck(q.deck)),
                               Len(ListNotes(q, InDeck(q.deck))) < limit, all)
  <2>1. CASE q.kind = "deck" /\ ~q.filter
    <3>1. matching = InDeck(q.deck)
      BY <1>5, <2>1
    <3>2. Pages(ListNotes(q, matching), total)
            = Extend(walk.notes, q, ListNotes(q, InDeck(q.deck)), Len(ListNotes(q, InDeck(q.deck))) < limit, total)
      BY <2>1, <3>1
    <3>. QED BY <1>7, <2>1, <3>1, <3>2
  <2>2. CASE ~(q.kind = "deck" /\ ~q.filter)
    <3>1. Pages(ListNotes(q, matching), total) = NoWalk
      BY <2>2
    <3>. QED BY <1>7, <3>1
  <2>. QED BY <2>1, <2>2
<1>. QED BY <1>2, <1>4, <1>6, <1>8

LEMMA NotesAnswerTyped ==
  ASSUME Typed, NEW i \in DOMAIN pending, NotesArrive(i)
  PROVE  Typed'
<1>1. /\ pending[i] \in NotesRequests /\ Answered(i)
      /\ IF pending[i].kind = "find" THEN notesMode' = "find" /\ notesOffset' = 0
         ELSE UNCHANGED <<notesMode, notesOffset>>
      /\ currentNotesCount' \in Nat
      /\ notesPane' = [of |-> pending[i], label |-> pending[i].kind,
                       deck |-> IF pending[i].kind = "deck" THEN currentDeckName ELSE 0,
                       offset |-> notesOffset', ok |-> TRUE]
      /\ strayed' = [strayed EXCEPT !["notes"] = @ \/ LateFind(pending[i])]
      /\ UNCHANGED <<limit, clicks, decksState, currentDeck, currentDeckName, filter, asked, misnamed>>
  BY NotesAnswer
<1>0. pending' = RemoveAt(pending, i) /\ latest' \in [Panes -> {"awaited", "answered", "overtaken"}]
  BY <1>1, AnsweredIs
<1>2. pending[i] \in Requests /\ pending[i].kind \in {"deck", "global", "find"}
  BY <1>1, NotesRequestFields
<1>3. notesMode' \in {"deck", "global", "find"} /\ notesOffset' \in Nat
  BY <1>1 DEF Typed, TypedNotes
<1>4. notesPane' \in [of : Requests \union {Nothing}, label : {"none", "deck", "global", "find"},
                      deck : Decks \union {0}, offset : Nat, ok : BOOLEAN]
  BY <1>1, <1>2, <1>3 DEF Typed, TypedNotes
<1>5. TypedDecks'
  BY <1>1 DEF Typed, TypedDecks, decksState
<1>6. TypedNotes'
  BY <1>1, <1>3, <1>4 DEF Typed, TypedNotes
<1>7. TypedPending'
  BY <1>0, <1>1, FewerTyped DEF Typed, TypedPending
<1>8. TypedGhost'
  <2>1. strayed' \in [Panes -> BOOLEAN] /\ strayed'["decks"] = strayed["decks"]
    BY <1>1 DEF Typed, TypedGhost, Panes, LateFind
  <2>. QED BY <1>0, <1>1, <2>1 DEF Typed, TypedGhost, DecksHere, decksState
<1>. QED BY <1>5, <1>6, <1>7, <1>8 DEF Typed

LEMMA FailureTyped ==
  ASSUME Typed, NEW i \in DOMAIN pending, Failed(i)
  PROVE  Typed'
<1>. DEFINE q == pending[i]
<1>1. /\ decksPane' = (IF q.pane = "decks" THEN [decksPane EXCEPT !.ok = FALSE] ELSE decksPane)
      /\ notesPane' = (IF q.pane = "notes" THEN [notesPane EXCEPT !.ok = FALSE] ELSE notesPane)
      /\ Answered(i)
      /\ UNCHANGED <<limit, clicks, allDecks, decksTotal, deckOffset, decksSearchMode, currentDeck,
                     currentDeckName, notesOffset, notesMode, currentNotesCount, filter, asked, strayed,
                     misnamed>>
  BY DEF Failed
<1>0. pending' = RemoveAt(pending, i) /\ latest' \in [Panes -> {"awaited", "answered", "overtaken"}]
  BY <1>1, AnsweredIs
<1>. HIDE DEF q
<1>2. TypedDecks'
  <2>1. decksPane' \in [of : Requests \union {Nothing}, offset : Nat, ok : BOOLEAN, next : BOOLEAN]
    BY <1>1 DEF Typed, TypedDecks
  <2>. QED BY <1>1, <2>1 DEF Typed, TypedDecks
<1>3. TypedNotes'
  <2>1. notesPane' \in [of : Requests \union {Nothing}, label : {"none", "deck", "global", "find"},
                        deck : Decks \union {0}, offset : Nat, ok : BOOLEAN]
    BY <1>1 DEF Typed, TypedNotes
  <2>. QED BY <1>1, <2>1 DEF Typed, TypedNotes
<1>4. TypedPending'
  BY <1>0, <1>1, FewerTyped DEF Typed, TypedPending
<1>5. TypedGhost'
  BY <1>0, <1>1 DEF Typed, TypedGhost, DecksHere
<1>. QED BY <1>2, <1>3, <1>4, <1>5 DEF Typed

\* The configuration's answer: the decks are listed from their start.
LEMMA ConfiguredIs ==
  ASSUME Typed, NEW i \in DOMAIN pending, Configured(i)
  PROVE  /\ pending[i].pane = "config" /\ decksSearchMode' = FALSE /\ deckOffset' = 0
         /\ pending' = Append(RemoveAt(pending, i), DecksRequest(FALSE, 0))
         /\ latest' = [latest EXCEPT !["decks"] = "awaited"]
         /\ strayed' = [strayed EXCEPT !["decks"] = asked["decks"] # DecksRequest(FALSE, 0)]
         /\ UNCHANGED <<limit, clicks, allDecks, decksTotal, decksPane, notesState, filter, asked, misnamed, walk>>
<1>1. /\ pending[i].pane = "config" /\ LoadDecks(RemoveAt(pending, i), FALSE)
      /\ strayed' = [strayed EXCEPT !["decks"] = asked["decks"] # DecksRequest(FALSE, 0)]
      /\ UNCHANGED <<limit, clicks, allDecks, decksTotal, decksPane, notesState, filter, asked, misnamed, walk>>
  BY DEF Configured
<1>2. decksSearchMode' = FALSE /\ deckOffset' = 0 /\ FetchDecksPage(RemoveAt(pending, i))
  BY <1>1 DEF LoadDecks
<1>3. /\ pending' = Append(RemoveAt(pending, i), DecksRequest(FALSE, 0))
      /\ latest' = [latest EXCEPT !["decks"] = "awaited"]
  BY <1>2, FetchIs
<1>. QED BY <1>1, <1>2, <1>3

\* A request for decks that follows on an answer.
LEMMA DecksNextTyped ==
  ASSUME Typed, NEW i \in DOMAIN pending, NEW search \in BOOLEAN,
         pending' = Append(RemoveAt(pending, i), DecksRequest(search, 0)), UNCHANGED currentDeck
  PROVE  TypedPending'
<1>. DEFINE rest == RemoveAt(pending, i)
            q == DecksRequest(search, 0)
<1>1. rest \in Seq(Requests) /\ \A k \in DOMAIN rest : TypedRequest(rest[k], currentDeck)
  BY FewerTyped DEF Typed, TypedPending
<1>2. TypedRequest(q, currentDeck)
  BY DecksRequestIs DEF TypedRequest
<1>3. pending' = Append(rest, q) /\ currentDeck' = currentDeck
  OBVIOUS
<1>. HIDE DEF rest, q
<1>4. Append(rest, q) \in Seq(Requests)
      /\ \A k \in DOMAIN Append(rest, q) : TypedRequest(Append(rest, q)[k], currentDeck)
  BY <1>1, <1>2, MoreTyped
<1>. QED BY <1>3, <1>4 DEF TypedPending

LEMMA ConfiguredTyped ==
  ASSUME Typed, NEW i \in DOMAIN pending, Configured(i)
  PROVE  Typed'
<1>1. /\ decksSearchMode' = FALSE /\ deckOffset' = 0
      /\ pending' = Append(RemoveAt(pending, i), DecksRequest(FALSE, 0))
      /\ latest' = [latest EXCEPT !["decks"] = "awaited"]
      /\ strayed' = [strayed EXCEPT !["decks"] = asked["decks"] # DecksRequest(FALSE, 0)]
      /\ UNCHANGED <<limit, clicks, allDecks, decksTotal, decksPane, notesState, filter, asked, misnamed, walk>>
  BY ConfiguredIs
<1>2. TypedDecks'
  BY <1>1 DEF Typed, TypedDecks
<1>3. TypedNotes'
  BY <1>1 DEF Typed, TypedNotes, notesState
<1>4. TypedPending'
  BY <1>1, DecksNextTyped DEF notesState
<1>5. TypedGhost'
  <2>1. latest' \in [Panes -> {"awaited", "answered", "overtaken"}] /\ strayed' \in [Panes -> BOOLEAN]
        /\ (strayed'["decks"] <=> asked["decks"] # DecksRequest(FALSE, 0))
    BY <1>1 DEF Typed, TypedGhost, Panes
  <2>2. DecksHere' = DecksRequest(FALSE, 0)
    BY <1>1 DEF DecksHere
  <2>. QED BY <1>1, <2>1, <2>2 DEF Typed, TypedGhost
<1>. QED BY <1>2, <1>3, <1>4, <1>5 DEF Typed

\* A save that succeeds asks for the open deck again, when one is open.
LEMMA SavedIs ==
  ASSUME Typed, NotesPlaced, NEW i \in DOMAIN pending, Saved(i)
  PROVE  \E again \in NotesRequests \union {Nothing} :
           /\ again = Nothing <=> currentDeck = 0
           /\ again # Nothing => again.kind = "deck" /\ again.deck = currentDeck /\ again.offset = notesOffset
           /\ pending[i].pane = "save"
           /\ pending' = (IF again = Nothing THEN RemoveAt(pending, i) ELSE Append(RemoveAt(pending, i), again))
           /\ latest' = (IF again = Nothing THEN latest ELSE [latest EXCEPT !["notes"] = "awaited"])
           /\ notesMode' = (IF again = Nothing THEN notesMode ELSE "deck")
           /\ strayed' \in [Panes -> BOOLEAN] /\ strayed'["decks"] = strayed["decks"]
           /\ ~strayed'["notes"] => ~strayed["notes"] /\ (again # Nothing => again = asked["notes"])
           /\ UNCHANGED <<limit, clicks, decksState, currentDeck, currentDeckName, notesOffset,
                          currentNotesCount, notesPane, filter, asked, misnamed, walk>>
<1>. USE DEF Typed, TypedNotes, TypedGhost
<1>. DEFINE again == DeckNotes
            a == asked["notes"]
<1>1. /\ pending[i].pane = "save" /\ LoadNotesByDeck(RemoveAt(pending, i))
      /\ strayed' = [strayed EXCEPT !["notes"] = @ \/ (currentDeck # 0 /\ NotTheDecks)]
      /\ UNCHANGED <<limit, clicks, decksState, currentDeck, currentDeckName, notesOffset,
                     currentNotesCount, notesPane, filter, asked, misnamed, walk>>
  BY DEF Saved
<1>2. /\ pending' = (IF again = Nothing THEN RemoveAt(pending, i) ELSE Append(RemoveAt(pending, i), again))
      /\ latest' = (IF again = Nothing THEN latest ELSE [latest EXCEPT !["notes"] = "awaited"])
      /\ notesMode' = (IF again = Nothing THEN notesMode ELSE "deck")
      /\ again = Nothing <=> currentDeck = 0
      /\ again # Nothing => /\ again \in NotesRequests /\ again.kind = "deck" /\ again.deck = currentDeck
                            /\ again.filter = filter /\ again.offset = notesOffset
  <2>1. currentDeck' \in Decks \union {0} /\ notesOffset' \in Nat /\ currentDeck' = currentDeck
        /\ notesOffset' = notesOffset
    BY <1>1
  <2>. DEFINE rest == RemoveAt(pending, i)
  <2>2. LoadNotesByDeck(rest)
    BY <1>1
  <2>. HIDE DEF rest
  <2>3. /\ pending' = (IF again = Nothing THEN rest ELSE Append(rest, again))
        /\ latest' = (IF again = Nothing THEN latest ELSE [latest EXCEPT !["notes"] = "awaited"])
        /\ notesMode' = (IF again = Nothing THEN notesMode ELSE "deck")
        /\ again = Nothing <=> currentDeck = 0
        /\ again # Nothing => /\ again \in NotesRequests /\ again.kind = "deck" /\ again.deck = currentDeck
                              /\ again.filter = filter /\ again.offset = notesOffset
    BY <2>1, <2>2, LoadedIs
  <2>. QED BY <2>3 DEF rest
<1>. HIDE DEF again
<1>3. /\ strayed' \in [Panes -> BOOLEAN] /\ strayed'["decks"] = strayed["decks"]
      /\ strayed'["notes"] = (strayed["notes"] \/ (currentDeck # 0 /\ NotTheDecks))
  <2>1. NotTheDecks \in BOOLEAN
    BY DEF NotTheDecks
  <2>. QED BY <1>1, <2>1 DEF Panes
<1>4. ASSUME ~strayed'["notes"], again # Nothing
      PROVE  again = a
  <2>1. a # Nothing /\ ~strayed["notes"] /\ ~NotTheDecks
    BY <1>2, <1>3, <1>4 DEF NotesPlaced, NoneYet
  <2>2. a \in NotesRequests /\ a.kind = "deck" /\ a.filter = filter /\ a.deck = currentDeck /\ a.offset = notesOffset
    BY <2>1 DEF NotTheDecks, NotesPlaced, NotesPlace
  <2>. QED BY <1>2, <1>4, <2>2, SameRequest
<1>. QED BY <1>1, <1>2, <1>3, <1>4

LEMMA SavedTyped ==
  ASSUME Typed, NotesPlaced, NEW i \in DOMAIN pending, Saved(i)
  PROVE  Typed'
<1>1. PICK again \in NotesRequests \union {Nothing} :
        /\ again # Nothing => again.kind = "deck" /\ again.deck = currentDeck /\ again.offset = notesOffset
        /\ pending' = (IF again = Nothing THEN RemoveAt(pending, i) ELSE Append(RemoveAt(pending, i), again))
        /\ latest' = (IF again = Nothing THEN latest ELSE [latest EXCEPT !["notes"] = "awaited"])
        /\ notesMode' = (IF again = Nothing THEN notesMode ELSE "deck")
        /\ strayed' \in [Panes -> BOOLEAN] /\ strayed'["decks"] = strayed["decks"]
        /\ UNCHANGED <<limit, clicks, decksState, currentDeck, currentDeckName, notesOffset,
                       currentNotesCount, notesPane, filter, asked, misnamed, walk>>
  BY SavedIs
<1>2. TypedDecks'
  BY <1>1 DEF Typed, TypedDecks, decksState
<1>3. TypedNotes'
  BY <1>1 DEF Typed, TypedNotes
<1>4. TypedPending'
  <2>. DEFINE rest == RemoveAt(pending, i)
  <2>1. rest \in Seq(Requests) /\ \A k \in DOMAIN rest : TypedRequest(rest[k], currentDeck)
    BY FewerTyped DEF Typed, TypedPending
  <2>2. CASE again = Nothing
    BY <1>1, <2>1, <2>2 DEF TypedPending
  <2>3. CASE again # Nothing
    <3>1. TypedRequest(again, currentDeck)
      BY <1>1, <2>3, NotesRequestFields DEF TypedRequest
    <3>2. pending' = Append(rest, again) /\ currentDeck' = currentDeck
      BY <1>1, <2>3
    <3>. HIDE DEF rest
    <3>3. Append(rest, again) \in Seq(Requests)
          /\ \A k \in DOMAIN Append(rest, again) : TypedRequest(Append(rest, again)[k], currentDeck)
      BY <2>1, <3>1, MoreTyped
    <3>. QED BY <3>2, <3>3 DEF TypedPending
  <2>. QED BY <2>2, <2>3
<1>5. TypedGhost'
  <2>1. latest' \in [Panes -> {"awaited", "answered", "overtaken"}]
    BY <1>1 DEF Typed, TypedGhost
  <2>. QED BY <1>1, <2>1 DEF Typed, TypedGhost, DecksHere, decksState
<1>. QED BY <1>2, <1>3, <1>4, <1>5 DEF Typed

LEMMA RenamedIs ==
  ASSUME Typed, NEW i \in DOMAIN pending, Renamed(i)
  PROVE  /\ pending[i].pane = "rename" /\ pending[i].deck \in Decks /\ currentDeck # 0
         /\ currentDeckName' = pending[i].deck
         /\ misnamed' = (misnamed \/ pending[i].deck # currentDeck)
         /\ decksSearchMode' = decksSearchMode /\ deckOffset' = 0
         /\ pending' = Append(RemoveAt(pending, i), DecksRequest(decksSearchMode, 0))
         /\ latest' = [latest EXCEPT !["decks"] = "awaited"]
         /\ \E w \in DecksRequests : asked' = [asked EXCEPT !["decks"] = w]
                                     /\ (~strayed["decks"] => w = DecksRequest(decksSearchMode, 0))
         /\ UNCHANGED <<limit, clicks, allDecks, decksTotal, decksPane, currentDeck, notesOffset,
                        notesMode, currentNotesCount, notesPane, filter, strayed, walk>>
<1>1. pending[i].pane = "rename" /\ pending[i] \in Requests /\ TypedRequest(pending[i], currentDeck)
  BY ElementOfSeq, LenProperties DEF Typed, TypedPending, Renamed
<1>2. pending[i].deck \in Decks /\ currentDeck # 0
  <2>1. pending[i] \in RenameRequests
    BY <1>1, RequestTypes
  <2>. QED BY <1>1, <2>1 DEF RenameRequests, TypedRequest
<1>3. /\ currentDeckName' = pending[i].deck
      /\ misnamed' = (misnamed \/ pending[i].deck # currentDeck)
      /\ LoadDecks(RemoveAt(pending, i), decksSearchMode)
      /\ asked' = [asked EXCEPT !.decks.offset = 0]
      /\ UNCHANGED <<limit, clicks, allDecks, decksTotal, decksPane, currentDeck, notesOffset,
                     notesMode, currentNotesCount, notesPane, filter, strayed, walk>>
  BY DEF Renamed
<1>4. decksSearchMode' = decksSearchMode /\ deckOffset' = 0 /\ FetchDecksPage(RemoveAt(pending, i))
  BY <1>3 DEF LoadDecks
<1>5. /\ pending' = Append(RemoveAt(pending, i), DecksRequest(decksSearchMode, 0))
      /\ latest' = [latest EXCEPT !["decks"] = "awaited"]
  BY <1>4, FetchIs DEF Typed, TypedDecks
<1>. DEFINE w == [asked["decks"] EXCEPT !.offset = 0]
<1>6. asked' = [asked EXCEPT !["decks"] = w]
  BY <1>3
<1>7. w \in DecksRequests
  BY DEF Typed, TypedGhost, DecksRequests
<1>8. ~strayed["decks"] => w = DecksRequest(decksSearchMode, 0)
  <2>1. [DecksRequest(decksSearchMode, deckOffset) EXCEPT !.offset = 0] = DecksRequest(decksSearchMode, 0)
    BY DecksRequestIs DEF Typed, TypedDecks
  <2>. QED BY <2>1 DEF Typed, TypedGhost, DecksHere
<1>. HIDE DEF w
<1>. QED BY <1>1, <1>2, <1>3, <1>4, <1>5, <1>6, <1>7, <1>8

LEMMA RenamedTyped ==
  ASSUME Typed, NEW i \in DOMAIN pending, Renamed(i)
  PROVE  Typed'
<1>. DEFINE q == DecksRequest(decksSearchMode, 0)
<1>1. /\ pending[i].pane = "rename" /\ pending[i].deck \in Decks /\ currentDeck # 0
      /\ currentDeckName' = pending[i].deck
      /\ misnamed' = (misnamed \/ pending[i].deck # currentDeck)
      /\ decksSearchMode' = decksSearchMode /\ deckOffset' = 0
      /\ pending' = Append(RemoveAt(pending, i), q)
      /\ latest' = [latest EXCEPT !["decks"] = "awaited"]
      /\ UNCHANGED <<limit, clicks, allDecks, decksTotal, decksPane, currentDeck, notesOffset,
                     notesMode, currentNotesCount, notesPane, filter, strayed, walk>>
  BY RenamedIs
<1>2. PICK w \in DecksRequests : asked' = [asked EXCEPT !["decks"] = w] /\ (~strayed["decks"] => w = q)
  BY RenamedIs
<1>3. TypedDecks'
  BY <1>1 DEF Typed, TypedDecks
<1>4. TypedNotes'
  BY <1>1, DecksAssumed DEF Typed, TypedNotes
<1>5. TypedPending'
  BY <1>1, DecksNextTyped DEF Typed, TypedDecks
<1>6. TypedGhost'
  <2>. HIDE DEF q
  <2>1. asked' \in [Panes -> Requests \union {Nothing}] /\ asked'["decks"] = w
        /\ asked'["notes"] = asked["notes"]
    BY <1>2, DecksRequestFields DEF Typed, TypedGhost, Panes
  <2>2. latest' \in [Panes -> {"awaited", "answered", "overtaken"}] /\ misnamed' \in BOOLEAN
    BY <1>1 DEF Typed, TypedGhost
  <2>3. DecksHere' = q
    BY <1>1 DEF DecksHere, q
  <2>. QED BY <1>1, <1>2, <2>1, <2>2, <2>3 DEF Typed, TypedGhost
<1>. QED BY <1>3, <1>4, <1>5, <1>6 DEF Typed

-----------------------------------------------------------------------------
(* The decks that are shown are those of the page's last request, when it  *)
(* has been answered; until then it is the last one under way.             *)

DecksInStep ==
  /\ latest["decks"] = "awaited" => Among(pending, "decks") /\ LastIs(pending, "decks", DecksHere)
  /\ latest["decks"] = "answered" /\ decksPane.ok =>
       decksPane.of = DecksHere /\ decksPane.offset = deckOffset

\* Steps of which the decks' listing takes no notice.
DecksUntouched ==
  /\ latest'["decks"] = latest["decks"]
  /\ UNCHANGED <<decksPane, decksSearchMode, deckOffset>>
  /\ Among(pending, "decks") => Among(pending', "decks")
  /\ \A a : LastIs(pending, "decks", a) => LastIs(pending', "decks", a)

LEMMA DecksStay ==
  ASSUME DecksInStep, DecksUntouched
  PROVE  DecksInStep'
<1>1. DecksInStep' <=>
        /\ latest'["decks"] = "awaited" => Among(pending', "decks") /\ LastIs(pending', "decks", DecksHere')
        /\ latest'["decks"] = "answered" /\ decksPane'.ok =>
             decksPane'.of = DecksHere' /\ decksPane'.offset = deckOffset'
  BY DEF DecksInStep, LastIs, Among
<1>2. DecksHere' = DecksHere
  BY DEF DecksUntouched, DecksHere
<1>. QED BY <1>1, <1>2 DEF DecksInStep, DecksUntouched

\* What a request for something else does to those for a listing: nothing.
LEMMA OthersKeep ==
  ASSUME NEW S, NEW s \in Seq(S), NEW p, NEW q \in S, q.pane # p
  PROVE  /\ Among(s, p) <=> Among(Append(s, q), p)
         /\ \A a : LastIs(s, p, a) => LastIs(Append(s, q), p, a)
BY Asked

LEMMA OthersGone ==
  ASSUME NEW S, NEW s \in Seq(S), NEW p, NEW i \in DOMAIN s, s[i].pane # p
  PROVE  /\ Among(s, p) <=> Among(RemoveAt(s, i), p)
         /\ \A a : LastIs(s, p, a) => LastIs(RemoveAt(s, i), p, a)
BY AnsweredOne

\* An answer to something else, and a request for something else that follows on it.
LEMMA OthersFollow ==
  ASSUME NEW S, NEW s \in Seq(S), NEW p, NEW i \in DOMAIN s, s[i].pane # p, NEW q \in S, q.pane # p
  PROVE  /\ Among(s, p) <=> Among(Append(RemoveAt(s, i), q), p)
         /\ \A a : LastIs(s, p, a) => LastIs(Append(RemoveAt(s, i), q), p, a)
<1>. DEFINE t == RemoveAt(s, i)
<1>1. t \in Seq(S)
  BY Removed
<1>2. (Among(s, p) <=> Among(t, p)) /\ \A a : LastIs(s, p, a) => LastIs(t, p, a)
  BY OthersGone
<1>. HIDE DEF t
<1>3. (Among(t, p) <=> Among(Append(t, q), p)) /\ \A a : LastIs(t, p, a) => LastIs(Append(t, q), p, a)
  BY <1>1, OthersKeep
<1>4. (Among(s, p) <=> Among(Append(t, q), p)) /\ \A a : LastIs(s, p, a) => LastIs(Append(t, q), p, a)
  BY <1>2, <1>3
<1>. QED BY <1>4 DEF t

\* The decks are asked for, of the page where the listing is then.
LEMMA DecksAsked ==
  ASSUME NEW s \in Seq(Requests), NEW search \in BOOLEAN, NEW o \in Nat,
         decksSearchMode' = search, deckOffset' = o, pending' = Append(s, DecksRequest(search, o)),
         latest'["decks"] = "awaited"
  PROVE  DecksInStep'
<1>. DEFINE q == DecksRequest(search, o)
<1>1. q \in Requests /\ q.pane = "decks"
  BY DecksRequestIs
<1>2. pending' = Append(s, q) /\ DecksHere' = q
  BY DEF DecksHere
<1>. HIDE DEF q
<1>3. Among(Append(s, q), "decks") /\ LastIs(Append(s, q), "decks", q)
  <2>1. Among(Append(s, q), q.pane) /\ LastIs(Append(s, q), q.pane, q)
    BY <1>1, Asked
  <2>. QED BY <1>1, <2>1
<1>4. Among(pending', "decks") /\ LastIs(pending', "decks", DecksHere')
  BY <1>2, <1>3
<1>. QED BY <1>4 DEF DecksInStep, Among, LastIs

LEMMA DecksKeptByNotes ==
  ASSUME Typed, DecksInStep, NEW q \in NotesRequests \union {Nothing}, NEW w, NotesClicked(q, w)
  PROVE  DecksInStep'
<1>1. /\ pending' = (IF q = Nothing THEN pending ELSE Append(pending, q))
      /\ latest'["decks"] = latest["decks"] /\ UNCHANGED <<decksPane, decksSearchMode, deckOffset>>
  BY DEF NotesClicked, decksState, Typed, TypedGhost, Panes
<1>2. CASE q = Nothing
  BY <1>1, <1>2, DecksStay DEF DecksUntouched
<1>3. CASE q # Nothing
  <2>1. q \in Requests /\ q.pane # "decks"
    BY <1>3, NotesRequestFields
  <2>2. /\ Among(pending, "decks") <=> Among(Append(pending, q), "decks")
        /\ \A a : LastIs(pending, "decks", a) => LastIs(Append(pending, q), "decks", a)
    BY <2>1, OthersKeep DEF Typed, TypedPending
  <2>. QED BY <1>1, <1>3, <2>2, DecksStay DEF DecksUntouched
<1>. QED BY <1>2, <1>3

LEMMA DecksKeptByOthers ==
  ASSUME Typed, DecksInStep, Type \/ SaveNote \/ RenameDeck
  PROVE  DecksInStep'
<1>1. latest' = latest /\ UNCHANGED <<decksPane, decksSearchMode, deckOffset>>
  BY DEF Type, SaveNote, RenameDeck, ghost, decksState
<1>2. CASE Type
  BY <1>1, <1>2, DecksStay DEF Type, DecksUntouched
<1>3. CASE SaveNote \/ RenameDeck
  <2>1. PICK q \in Requests : pending' = Append(pending, q) /\ q.pane # "decks"
    BY <1>3 DEF SaveNote, RenameDeck, Requests, RenameRequests, Typed, TypedNotes
  <2>2. /\ Among(pending, "decks") <=> Among(Append(pending, q), "decks")
        /\ \A a : LastIs(pending, "decks", a) => LastIs(Append(pending, q), "decks", a)
    BY <2>1, OthersKeep DEF Typed, TypedPending
  <2>. QED BY <1>1, <2>1, <2>2, DecksStay DEF DecksUntouched
<1>. QED BY <1>2, <1>3

LEMMA DecksKeptByClick ==
  ASSUME Typed, NEW search \in BOOLEAN, NEW o \in Nat, NEW w, DecksClicked(search, o, w)
  PROVE  DecksInStep'
<1>1. /\ decksSearchMode' = search /\ deckOffset' = o /\ pending' = Append(pending, DecksRequest(search, o))
      /\ latest'["decks"] = "awaited" /\ pending \in Seq(Requests)
  BY DEF DecksClicked, Typed, TypedPending, TypedGhost, Panes
<1>. QED BY <1>1, DecksAsked

LEMMA DecksKeptByAnswer ==
  ASSUME Typed, DecksInStep, NEW i \in DOMAIN pending, DecksArrive(i)
  PROVE  DecksInStep'
<1>. DEFINE t == RemoveAt(pending, i)
<1>1. /\ pending[i] \in DecksRequests /\ Answered(i)
      /\ decksPane' = [of |-> pending[i], offset |-> deckOffset, ok |-> TRUE,
                       next |-> ~decksSearchMode /\ deckOffset + Len(allDecks') < decksTotal']
      /\ UNCHANGED <<decksSearchMode, deckOffset>>
  BY DecksAnswer
<1>2. pending[i].pane = "decks" /\ decksPane'.of = pending[i] /\ decksPane'.offset = deckOffset
  BY <1>1, DecksRequestFields
<1>3. /\ pending' = t
      /\ latest'["decks"] = "awaited" => latest["decks"] = "awaited" /\ ~LastOf(pending, i)
      /\ latest'["decks"] = "answered" => latest["decks"] = "awaited" /\ LastOf(pending, i)
  BY <1>1, <1>2, AnsweredIs DEF Panes
<1>4. DecksHere' = DecksHere
  BY <1>1 DEF DecksHere
<1>5. pending \in Seq(Requests)
  BY DEF Typed, TypedPending
<1>. HIDE DEF t
<1>6. ASSUME latest'["decks"] = "awaited"
      PROVE  Among(t, "decks") /\ LastIs(t, "decks", DecksHere)
  <2>1. LastIs(pending, "decks", DecksHere) /\ ~LastOf(pending, i)
    BY <1>3, <1>6 DEF DecksInStep
  <2>. QED BY <1>2, <1>5, <2>1, AnsweredOne DEF t
<1>7. ASSUME latest'["decks"] = "answered"
      PROVE  pending[i] = DecksHere
  <2>1. LastIs(pending, "decks", DecksHere) /\ LastOf(pending, i)
    BY <1>3, <1>7 DEF DecksInStep
  <2>. QED BY <1>2, <1>5, <2>1, AnsweredOne
<1>8. DecksInStep' <=>
        /\ latest'["decks"] = "awaited" => Among(pending', "decks") /\ LastIs(pending', "decks", DecksHere')
        /\ latest'["decks"] = "answered" /\ decksPane'.ok =>
             decksPane'.of = DecksHere' /\ decksPane'.offset = deckOffset'
  BY DEF DecksInStep, LastIs, Among
<1>. QED BY <1>1, <1>2, <1>3, <1>4, <1>6, <1>7, <1>8

LEMMA DecksKeptByFailure ==
  ASSUME Typed, DecksInStep, NEW i \in DOMAIN pending, Failed(i)
  PROVE  DecksInStep'
<1>. DEFINE t == RemoveAt(pending, i)
<1>1. /\ decksPane' = (IF pending[i].pane = "decks" THEN [decksPane EXCEPT !.ok = FALSE] ELSE decksPane)
      /\ Answered(i) /\ UNCHANGED <<decksSearchMode, deckOffset>> /\ pending \in Seq(Requests)
  BY DEF Failed, Typed, TypedPending
<1>2. CASE pending[i].pane = "decks"
  <2>1. ~decksPane'.ok
    BY <1>1, <1>2 DEF Typed, TypedDecks
  <2>2. pending' = t /\ (latest'["decks"] = "awaited" => latest["decks"] = "awaited" /\ ~LastOf(pending, i))
    BY <1>1, <1>2, AnsweredIs DEF Panes
  <2>3. ASSUME latest'["decks"] = "awaited"
        PROVE  Among(t, "decks") /\ LastIs(t, "decks", DecksHere)
    <3>1. LastIs(pending, "decks", DecksHere) /\ ~LastOf(pending, i)
      BY <2>2, <2>3 DEF DecksInStep
    <3>. QED BY <1>1, <1>2, <3>1, AnsweredOne
  <2>4. DecksHere' = DecksHere
    BY <1>1 DEF DecksHere
  <2>. HIDE DEF t
  <2>5. DecksInStep' <=>
          /\ latest'["decks"] = "awaited" => Among(pending', "decks") /\ LastIs(pending', "decks", DecksHere')
          /\ latest'["decks"] = "answered" /\ decksPane'.ok =>
               decksPane'.of = DecksHere' /\ decksPane'.offset = deckOffset'
    BY DEF DecksInStep, LastIs, Among
  <2>. QED BY <2>1, <2>2, <2>3, <2>4, <2>5
<1>3. CASE pending[i].pane # "decks"
  <2>1. latest'["decks"] = latest["decks"] /\ decksPane' = decksPane /\ pending' = t
    BY <1>1, <1>3, AnsweredIs DEF Panes
  <2>2. /\ Among(pending, "decks") <=> Among(t, "decks")
        /\ \A a : LastIs(pending, "decks", a) => LastIs(t, "decks", a)
    BY <1>1, <1>3, OthersGone
  <2>. QED BY <1>1, <2>1, <2>2, DecksStay DEF DecksUntouched
<1>. QED BY <1>2, <1>3

LEMMA DecksKeptByNotesAnswer ==
  ASSUME Typed, DecksInStep, NEW i \in DOMAIN pending, NotesArrive(i)
  PROVE  DecksInStep'
<1>1. /\ pending[i].pane = "notes" /\ Answered(i) /\ pending \in Seq(Requests)
      /\ UNCHANGED <<decksPane, decksSearchMode, deckOffset>>
  BY NotesAnswer, NotesRequestFields DEF decksState, Typed, TypedPending
<1>2. latest'["decks"] = latest["decks"] /\ pending' = RemoveAt(pending, i)
  BY <1>1, AnsweredIs DEF Panes
<1>3. /\ Among(pending, "decks") <=> Among(RemoveAt(pending, i), "decks")
      /\ \A a : LastIs(pending, "decks", a) => LastIs(RemoveAt(pending, i), "decks", a)
  BY <1>1, OthersGone
<1>. QED BY <1>1, <1>2, <1>3, DecksStay DEF DecksUntouched

LEMMA DecksKeptBySave ==
  ASSUME Typed, NotesPlaced, DecksInStep, NEW i \in DOMAIN pending, Saved(i)
  PROVE  DecksInStep'
<1>. DEFINE t == RemoveAt(pending, i)
<1>1. PICK again \in NotesRequests \union {Nothing} :
        /\ pending[i].pane = "save"
        /\ pending' = (IF again = Nothing THEN t ELSE Append(t, again))
        /\ latest' = (IF again = Nothing THEN latest ELSE [latest EXCEPT !["notes"] = "awaited"])
        /\ UNCHANGED decksState
  BY SavedIs
<1>2. /\ latest'["decks"] = latest["decks"] /\ UNCHANGED <<decksPane, decksSearchMode, deckOffset>>
      /\ pending \in Seq(Requests)
  BY <1>1 DEF Typed, TypedGhost, TypedPending, Panes, decksState
<1>3. CASE again = Nothing
  <2>1. /\ Among(pending, "decks") <=> Among(t, "decks")
        /\ \A a : LastIs(pending, "decks", a) => LastIs(t, "decks", a)
    BY <1>1, <1>2, OthersGone
  <2>. QED BY <1>1, <1>2, <1>3, <2>1, DecksStay DEF DecksUntouched
<1>4. CASE again # Nothing
  <2>1. again \in Requests /\ again.pane # "decks"
    BY <1>4, NotesRequestFields
  <2>2. /\ Among(pending, "decks") <=> Among(Append(t, again), "decks")
        /\ \A a : LastIs(pending, "decks", a) => LastIs(Append(t, again), "decks", a)
    BY <1>1, <1>2, <2>1, OthersFollow
  <2>. QED BY <1>1, <1>2, <1>4, <2>2, DecksStay DEF DecksUntouched
<1>. QED BY <1>3, <1>4

LEMMA DecksKeptByReload ==
  ASSUME Typed, NEW i \in DOMAIN pending, Renamed(i) \/ Configured(i)
  PROVE  DecksInStep'
<1>. DEFINE s == RemoveAt(pending, i)
<1>1. s \in Seq(Requests)
  BY Removed DEF Typed, TypedPending
<1>2. PICK search \in BOOLEAN :
        /\ decksSearchMode' = search /\ deckOffset' = 0 /\ pending' = Append(s, DecksRequest(search, 0))
        /\ latest' = [latest EXCEPT !["decks"] = "awaited"]
  BY RenamedIs, ConfiguredIs DEF Typed, TypedDecks
<1>3. latest'["decks"] = "awaited"
  BY <1>2 DEF Typed, TypedGhost, Panes
<1>. HIDE DEF s
<1>. QED BY <1>1, <1>2, <1>3, DecksAsked

-----------------------------------------------------------------------------
(* The notes that are shown are those that were asked for last, when their *)
(* answer was the last one.                                                *)

NotesAsAsked ==
  /\ latest["notes"] = "awaited" => Among(pending, "notes") /\ LastIs(pending, "notes", asked["notes"])
  /\ latest["notes"] = "answered" /\ notesPane.ok =>
       /\ notesPane.of = asked["notes"] /\ notesPane.offset = asked["notes"].offset
       /\ notesPane.label = asked["notes"].kind
       /\ ~misnamed => notesPane.deck = asked["notes"].deck
NamedRight == ~misnamed => currentDeckName = currentDeck
NotesInStep ==
  /\ NotesPlaced /\ NamedRight
  /\ ~strayed["notes"] => NotesAsAsked

\* Steps of which the notes' listing takes no notice, but for the name of its deck.
NotesUntouched ==
  /\ asked'["notes"] = asked["notes"] /\ strayed'["notes"] = strayed["notes"]
  /\ latest'["notes"] = latest["notes"]
  /\ UNCHANGED <<notesPane, notesOffset, notesMode, currentDeck, currentNotesCount>>
  /\ Among(pending, "notes") <=> Among(pending', "notes")
  /\ \A a : LastIs(pending, "notes", a) => LastIs(pending', "notes", a)

\* NotesAsAsked of the next state.
LEMMA NotesAsAskedNext ==
  NotesAsAsked' <=>
    /\ latest'["notes"] = "awaited" => Among(pending', "notes") /\ LastIs(pending', "notes", asked'["notes"])
    /\ latest'["notes"] = "answered" /\ notesPane'.ok =>
         /\ notesPane'.of = asked'["notes"] /\ notesPane'.offset = asked'["notes"].offset
         /\ notesPane'.label = asked'["notes"].kind
         /\ ~misnamed' => notesPane'.deck = asked'["notes"].deck
BY DEF NotesAsAsked, Among, LastIs

LEMMA NotesStay ==
  ASSUME NotesInStep, NotesUntouched, NamedRight', misnamed => misnamed'
  PROVE  NotesInStep'
<1>1. NoneYet'
  BY DEF NotesInStep, NotesPlaced, NoneYet, NotesUntouched, Among
<1>2. ASSUME ~strayed'["notes"]
      PROVE  NotesPlace' /\ NotesAsAsked'
  <2>1. NotesPlace /\ NotesAsAsked
    BY <1>2 DEF NotesInStep, NotesPlaced, NotesUntouched
  <2>2. NotesPlace'
    BY <2>1 DEF NotesUntouched, NotesPlace
  <2>3. /\ latest'["notes"] = "awaited" => Among(pending', "notes") /\ LastIs(pending', "notes", asked'["notes"])
        /\ latest'["notes"] = "answered" /\ notesPane'.ok =>
             /\ notesPane'.of = asked'["notes"] /\ notesPane'.offset = asked'["notes"].offset
             /\ notesPane'.label = asked'["notes"].kind
             /\ ~misnamed' => notesPane'.deck = asked'["notes"].deck
    BY <2>1 DEF NotesUntouched, NotesAsAsked
  <2>. QED BY <2>2, <2>3, NotesAsAskedNext
<1>. QED BY <1>1, <1>2 DEF NotesInStep, NotesPlaced

LEMMA NotesKeptByDecks ==
  ASSUME Typed, NotesInStep, NEW search \in BOOLEAN, NEW o \in Nat, NEW w, DecksClicked(search, o, w)
  PROVE  NotesInStep'
<1>. DEFINE q == DecksRequest(search, o)
<1>1. q \in Requests /\ q.pane # "notes"
  BY DecksRequestIs
<1>2. /\ pending' = Append(pending, q) /\ UNCHANGED <<notesState, misnamed>>
      /\ asked'["notes"] = asked["notes"] /\ strayed'["notes"] = strayed["notes"]
      /\ latest'["notes"] = latest["notes"]
  BY DEF DecksClicked, Typed, TypedGhost, Panes
<1>. HIDE DEF q
<1>3. /\ Among(pending, "notes") <=> Among(Append(pending, q), "notes")
      /\ \A a : LastIs(pending, "notes", a) => LastIs(Append(pending, q), "notes", a)
  BY <1>1, OthersKeep DEF Typed, TypedPending
<1>4. NotesUntouched
  BY <1>2, <1>3 DEF NotesUntouched, notesState
<1>5. NamedRight' /\ misnamed' = misnamed
  BY <1>2 DEF NotesInStep, NamedRight, notesState
<1>. QED BY <1>4, <1>5, NotesStay

LEMMA NotesKeptByOthers ==
  ASSUME Typed, NotesInStep, Type \/ SaveNote \/ RenameDeck
  PROVE  NotesInStep'
<1>1. UNCHANGED <<notesState, misnamed>> /\ asked' = asked /\ strayed' = strayed /\ latest' = latest
  BY DEF Type, SaveNote, RenameDeck, ghost
<1>2. NamedRight' /\ misnamed' = misnamed
  BY <1>1 DEF NotesInStep, NamedRight, notesState
<1>3. CASE Type
  <2>1. pending' = pending
    BY <1>3 DEF Type
  <2>2. NotesUntouched
    BY <1>1, <2>1 DEF NotesUntouched, notesState
  <2>. QED BY <1>2, <2>2, NotesStay
<1>4. CASE SaveNote \/ RenameDeck
  <2>1. PICK q \in Requests : pending' = Append(pending, q) /\ q.pane # "notes"
    BY <1>4 DEF SaveNote, RenameDeck, Requests, RenameRequests, Typed, TypedNotes
  <2>2. /\ Among(pending, "notes") <=> Among(Append(pending, q), "notes")
        /\ \A a : LastIs(pending, "notes", a) => LastIs(Append(pending, q), "notes", a)
    BY <2>1, OthersKeep DEF Typed, TypedPending
  <2>3. NotesUntouched
    BY <1>1, <2>1, <2>2 DEF NotesUntouched, notesState
  <2>. QED BY <1>2, <2>3, NotesStay
<1>. QED BY <1>3, <1>4

\* Notes are asked for, after the requests s.
LEMMA NotesAsked ==
  ASSUME NEW s \in Seq(Requests), NEW q \in NotesRequests, pending' = Append(s, q),
         latest'["notes"] = "awaited", asked'["notes"] # Nothing,
         ~strayed'["notes"] => NotesPlace' /\ asked'["notes"] = q, NamedRight'
  PROVE  NotesInStep'
<1>1. q \in Requests /\ q.pane = "notes"
  BY NotesRequestFields
<1>2. Among(Append(s, q), q.pane) /\ LastIs(Append(s, q), q.pane, q)
  BY <1>1, Asked
<1>3. Among(pending', "notes") /\ LastIs(pending', "notes", q)
  BY <1>1, <1>2
<1>4. NoneYet'
  BY DEF NoneYet
<1>5. ~strayed'["notes"] => NotesAsAsked'
  BY <1>3, NotesAsAskedNext
<1>. QED BY <1>4, <1>5 DEF NotesInStep, NotesPlaced

LEMMA NotesKeptByClick ==
  ASSUME Typed, NotesInStep, NEW q \in NotesRequests \union {Nothing},
         NEW w \in NotesRequests \union {Nothing}, NotesClicked(q, w)
  PROVE  NotesInStep'
<1>1. /\ pending' = (IF q = Nothing THEN pending ELSE Append(pending, q))
      /\ latest' = (IF q = Nothing THEN latest ELSE [latest EXCEPT !["notes"] = "awaited"])
      /\ asked'["notes"] = w
      /\ UNCHANGED <<currentNotesCount, notesPane>>
      /\ \/ UNCHANGED <<currentDeck, currentDeckName, misnamed>>
         \/ currentDeck' \in Decks /\ currentDeckName' = currentDeck' /\ misnamed' = FALSE /\ q # Nothing
      /\ w = Nothing => asked["notes"] = Nothing /\ q = Nothing /\ notesOffset' = 0
      /\ ~strayed'["notes"] =>
           NotesPlace' /\ IF q = Nothing THEN w = asked["notes"] /\ ~strayed["notes"] ELSE q = w
  BY DEF NotesClicked, Typed, TypedGhost, Panes
<1>2. NamedRight'
  BY <1>1 DEF NotesInStep, NamedRight
<1>3. CASE q = Nothing
  <2>1. pending' = pending /\ latest' = latest /\ UNCHANGED <<currentDeck, currentDeckName, misnamed>>
    BY <1>1, <1>3
  <2>2. w = Nothing => /\ currentDeck = 0 /\ currentNotesCount = 0
                       /\ ~Among(pending, "notes") /\ ~notesPane.ok
    BY <1>1 DEF NotesInStep, NotesPlaced, NoneYet
  <2>3. NoneYet'
    BY <1>1, <2>1, <2>2 DEF NoneYet, Among
  <2>4. ASSUME ~strayed'["notes"]
        PROVE  NotesPlace' /\ NotesAsAsked'
    <3>1. NotesPlace' /\ asked'["notes"] = asked["notes"] /\ NotesAsAsked
      BY <1>1, <1>3, <2>4 DEF NotesInStep
    <3>2. NotesAsAsked'
      BY <1>1, <2>1, <3>1, NotesAsAskedNext DEF NotesAsAsked
    <3>. QED BY <3>1, <3>2
  <2>. QED BY <1>2, <2>3, <2>4 DEF NotesInStep, NotesPlaced
<1>4. CASE q # Nothing
  <2>1. /\ q \in NotesRequests /\ pending' = Append(pending, q) /\ latest'["notes"] = "awaited"
        /\ asked'["notes"] # Nothing /\ pending \in Seq(Requests)
        /\ ~strayed'["notes"] => NotesPlace' /\ asked'["notes"] = q
    BY <1>1, <1>4 DEF Typed, TypedPending, TypedGhost, Panes
  <2>. QED BY <1>2, <2>1, NotesAsked
<1>. QED BY <1>3, <1>4

LEMMA NotesKeptByDecksAnswer ==
  ASSUME Typed, NotesInStep, NEW i \in DOMAIN pending, DecksArrive(i)
  PROVE  NotesInStep'
<1>1. /\ pending[i].pane # "notes" /\ Answered(i) /\ pending \in Seq(Requests)
      /\ UNCHANGED <<notesState, asked, strayed, misnamed>>
  BY DecksAnswer, DecksRequestFields DEF Typed, TypedPending
<1>2. latest'["notes"] = latest["notes"] /\ pending' = RemoveAt(pending, i)
  BY <1>1, AnsweredIs DEF Panes
<1>3. /\ Among(pending, "notes") <=> Among(RemoveAt(pending, i), "notes")
      /\ \A a : LastIs(pending, "notes", a) => LastIs(RemoveAt(pending, i), "notes", a)
  BY <1>1, OthersGone
<1>4. NotesUntouched
  BY <1>1, <1>2, <1>3 DEF NotesUntouched, notesState
<1>5. NamedRight' /\ misnamed' = misnamed
  BY <1>1 DEF NotesInStep, NamedRight, notesState
<1>. QED BY <1>4, <1>5, NotesStay

LEMMA NotesKeptByAnswer ==
  ASSUME Typed, NotesInStep, NEW i \in DOMAIN pending, NotesArrive(i)
  PROVE  NotesInStep'
<1>. DEFINE q == pending[i]
            t == RemoveAt(pending, i)
            a == asked["notes"]
<1>1. /\ q \in NotesRequests /\ Answered(i)
      /\ IF q.kind = "find" THEN notesMode' = "find" /\ notesOffset' = 0
         ELSE UNCHANGED <<notesMode, notesOffset>>
      /\ notesPane' = [of |-> q, label |-> q.kind, deck |-> IF q.kind = "deck" THEN currentDeckName ELSE 0,
                       offset |-> notesOffset', ok |-> TRUE]
      /\ strayed' = [strayed EXCEPT !["notes"] = @ \/ LateFind(q)]
      /\ UNCHANGED <<currentDeck, currentDeckName, asked, misnamed>>
      /\ pending \in Seq(Requests)
  BY NotesAnswer DEF Typed, TypedPending
<1>2. /\ notesPane'.of = q /\ notesPane'.label = q.kind /\ notesPane'.offset = notesOffset'
      /\ notesPane'.deck = (IF q.kind = "deck" THEN currentDeckName ELSE 0)
  BY <1>1
<1>3. q.pane = "notes" /\ (q.kind = "deck" <=> q.deck # 0)
  BY <1>1, NotesRequestFields
<1>4. /\ pending' = t
      /\ latest'["notes"] = "awaited" => latest["notes"] = "awaited" /\ ~LastOf(pending, i)
      /\ latest'["notes"] = "answered" => latest["notes"] = "awaited" /\ LastOf(pending, i)
  BY <1>1, <1>3, AnsweredIs DEF Panes
<1>5. a # Nothing
  <2>1. Among(pending, "notes")
    BY <1>3 DEF Among
  <2>. QED BY <2>1 DEF NotesInStep, NotesPlaced, NoneYet
<1>6. NoneYet' /\ NamedRight'
  BY <1>1, <1>5 DEF NoneYet, NotesInStep, NamedRight
<1>7. ASSUME ~strayed'["notes"]
      PROVE  NotesPlace' /\ NotesAsAsked'
  <2>1. ~strayed["notes"] /\ ~LateFind(q)
    BY <1>1, <1>7 DEF Typed, TypedGhost, Panes
  <2>2. NotesAsAsked /\ NotesPlace
    BY <2>1 DEF NotesInStep, NotesPlaced
  <2>3. NotesPlace'
    <3>1. asked'["notes"] = a
      BY <1>1
    <3>2. CASE q.kind = "find"
      <4>1. a = q \/ (a.kind # "global" /\ ~(a.offset > 0))
        BY <2>1, <3>2 DEF LateFind
      <4>2. a \in NotesRequests /\ a.offset \in Nat
        BY <1>5, NotesRequestFields DEF Typed, TypedGhost
      <4>3. a.kind = "find" \/ (a.kind # "global" /\ a.offset = 0)
        BY <3>2, <4>1, <4>2
      <4>. QED BY <1>1, <1>5, <2>2, <3>1, <3>2, <4>3 DEF NotesPlace
    <3>3. CASE q.kind # "find"
      BY <1>1, <2>2, <3>1, <3>3 DEF NotesPlace
    <3>. QED BY <3>2, <3>3
  <2>4. ASSUME latest'["notes"] = "awaited"
        PROVE  Among(t, "notes") /\ LastIs(t, "notes", a)
    <3>1. LastIs(pending, "notes", a) /\ ~LastOf(pending, i)
      BY <1>4, <2>2, <2>4 DEF NotesAsAsked
    <3>. HIDE DEF a
    <3>. QED BY <1>1, <1>3, <3>1, AnsweredOne
  <2>5. ASSUME latest'["notes"] = "answered"
        PROVE  /\ notesPane'.of = a /\ notesPane'.offset = a.offset /\ notesPane'.label = a.kind
               /\ ~misnamed => notesPane'.deck = a.deck
    <3>1. q = a
      <4>1. LastIs(pending, "notes", a) /\ LastOf(pending, i)
        BY <1>4, <2>2, <2>5 DEF NotesAsAsked
      <4>. HIDE DEF a
      <4>. QED BY <1>1, <1>3, <4>1, AnsweredOne
    <3>2. notesPane'.offset = a.offset
      <4>1. CASE q.kind = "find"
        <5>1. q.offset = 0
          BY <1>3, <4>1 DEF Typed, TypedPending, TypedRequest
        <5>. QED BY <1>1, <1>2, <3>1, <4>1, <5>1
      <4>2. CASE q.kind # "find"
        BY <1>1, <1>2, <1>5, <2>2, <3>1, <4>2 DEF NotesPlace
      <4>. QED BY <4>1, <4>2
    <3>3. ASSUME ~misnamed
          PROVE  notesPane'.deck = a.deck
      <4>1. currentDeckName = currentDeck
        BY <3>3 DEF NotesInStep, NamedRight
      <4>2. CASE q.kind = "deck"
        <5>1. a.deck = currentDeck
          BY <1>5, <2>2, <3>1, <4>2 DEF NotesPlace
        <5>. QED BY <1>2, <4>1, <4>2, <5>1
      <4>3. CASE q.kind # "deck"
        BY <1>2, <1>3, <3>1, <4>3
      <4>. QED BY <4>2, <4>3
    <3>. QED BY <1>2, <3>1, <3>2, <3>3
  <2>6. NotesAsAsked'
    <3>1. asked'["notes"] = a /\ pending' = t /\ misnamed' = misnamed
      BY <1>1, <1>4
    <3>. HIDE DEF a, t
    <3>. QED BY <2>4, <2>5, <3>1, NotesAsAskedNext
  <2>. QED BY <2>3, <2>6
<1>. QED BY <1>6, <1>7 DEF NotesInStep, NotesPlaced

LEMMA NotesKeptByFailure ==
  ASSUME Typed, NotesInStep, NEW i \in DOMAIN pending, Failed(i)
  PROVE  NotesInStep'
<1>. DEFINE t == RemoveAt(pending, i)
            a == asked["notes"]
<1>1. /\ notesPane' = (IF pending[i].pane = "notes" THEN [notesPane EXCEPT !.ok = FALSE] ELSE notesPane)
      /\ Answered(i) /\ pending \in Seq(Requests)
      /\ UNCHANGED <<currentDeck, currentDeckName, notesOffset, notesMode, currentNotesCount, asked, strayed,
                     misnamed>>
  BY DEF Failed, Typed, TypedPending
<1>2. NamedRight' /\ pending' = t
  BY <1>1, AnsweredIs DEF NotesInStep, NamedRight
<1>3. CASE pending[i].pane = "notes"
  <2>1. ~notesPane'.ok
    BY <1>1, <1>3 DEF Typed, TypedNotes
  <2>2. a # Nothing
    <3>1. Among(pending, "notes")
      BY <1>3 DEF Among
    <3>. QED BY <3>1 DEF NotesInStep, NotesPlaced, NoneYet
  <2>3. NoneYet'
    BY <1>1, <2>2 DEF NoneYet
  <2>4. ASSUME ~strayed'["notes"]
        PROVE  NotesPlace' /\ NotesAsAsked'
    <3>1. NotesAsAsked /\ NotesPlace
      BY <1>1, <2>4 DEF NotesInStep, NotesPlaced
    <3>2. NotesPlace'
      BY <1>1, <3>1 DEF NotesPlace
    <3>3. ASSUME latest'["notes"] = "awaited"
          PROVE  Among(t, "notes") /\ LastIs(t, "notes", a)
      <4>1. LastIs(pending, "notes", a) /\ ~LastOf(pending, i)
        BY <1>1, <1>3, <3>1, <3>3, AnsweredIs DEF NotesAsAsked, Panes
      <4>. HIDE DEF a
      <4>. QED BY <1>1, <1>3, <4>1, AnsweredOne
    <3>4. NotesAsAsked'
      <4>1. asked'["notes"] = a
        BY <1>1
      <4>. HIDE DEF a, t
      <4>. QED BY <1>2, <2>1, <3>3, <4>1, NotesAsAskedNext
    <3>. QED BY <3>2, <3>4
  <2>. QED BY <1>2, <2>3, <2>4 DEF NotesInStep, NotesPlaced
<1>4. CASE pending[i].pane # "notes"
  <2>1. latest'["notes"] = latest["notes"] /\ notesPane' = notesPane
    BY <1>1, <1>4, AnsweredIs DEF Panes
  <2>2. /\ Among(pending, "notes") <=> Among(t, "notes")
        /\ \A b : LastIs(pending, "notes", b) => LastIs(t, "notes", b)
    BY <1>1, <1>4, OthersGone
  <2>3. NotesUntouched
    BY <1>1, <1>2, <2>1, <2>2 DEF NotesUntouched
  <2>. QED BY <1>1, <1>2, <2>3, NotesStay
<1>. QED BY <1>3, <1>4

LEMMA NotesKeptBySave ==
  ASSUME Typed, NotesInStep, NEW i \in DOMAIN pending, Saved(i)
  PROVE  NotesInStep'
<1>. DEFINE t == RemoveAt(pending, i)
            a == asked["notes"]
<1>1. PICK again \in NotesRequests \union {Nothing} :
        /\ again = Nothing <=> currentDeck = 0
        /\ again # Nothing => again.kind = "deck" /\ again.deck = currentDeck /\ again.offset = notesOffset
        /\ pending[i].pane = "save"
        /\ pending' = (IF again = Nothing THEN t ELSE Append(t, again))
        /\ latest' = (IF again = Nothing THEN latest ELSE [latest EXCEPT !["notes"] = "awaited"])
        /\ notesMode' = (IF again = Nothing THEN notesMode ELSE "deck")
        /\ ~strayed'["notes"] => ~strayed["notes"] /\ (again # Nothing => again = a)
        /\ UNCHANGED <<currentDeck, currentDeckName, notesOffset, currentNotesCount, notesPane, asked, misnamed>>
  BY SavedIs DEF NotesInStep
<1>2. NamedRight'
  BY <1>1 DEF NotesInStep, NamedRight
<1>3. pending \in Seq(Requests) /\ t \in Seq(Requests)
  BY Removed DEF Typed, TypedPending
<1>4. /\ Among(pending, "notes") <=> Among(t, "notes")
      /\ \A b : LastIs(pending, "notes", b) => LastIs(t, "notes", b)
  BY <1>1, <1>3, OthersGone
<1>. HIDE DEF t
<1>5. CASE again = Nothing
  <2>1. pending' = t /\ latest' = latest /\ notesMode' = notesMode /\ (~strayed'["notes"] => ~strayed["notes"])
    BY <1>1, <1>5
  <2>2. NoneYet'
    BY <1>1, <1>4, <2>1 DEF NotesInStep, NotesPlaced, NoneYet, Among
  <2>3. ASSUME ~strayed'["notes"]
        PROVE  NotesPlace' /\ NotesAsAsked'
    <3>1. NotesPlace /\ NotesAsAsked
      BY <2>1, <2>3 DEF NotesInStep, NotesPlaced
    <3>2. NotesPlace'
      BY <1>1, <2>1, <3>1 DEF NotesPlace
    <3>3. NotesAsAsked'
      BY <1>1, <1>4, <2>1, <3>1, NotesAsAskedNext DEF NotesAsAsked
    <3>. QED BY <3>2, <3>3
  <2>. QED BY <1>2, <2>2, <2>3 DEF NotesInStep, NotesPlaced
<1>6. CASE again # Nothing
  <2>1. again \in NotesRequests /\ pending' = Append(t, again) /\ asked'["notes"] = a
    BY <1>1, <1>6
  <2>2. latest'["notes"] = "awaited"
    BY <1>1, <1>6 DEF Typed, TypedGhost, Panes
  <2>3. a # Nothing
    BY <1>1, <1>6 DEF NotesInStep, NotesPlaced, NoneYet
  <2>4. ASSUME ~strayed'["notes"]
        PROVE  NotesPlace' /\ asked'["notes"] = again
    <3>1. again = a /\ notesMode' = "deck"
      BY <1>1, <1>6, <2>4
    <3>. QED BY <1>1, <1>6, <2>1, <3>1 DEF NotesPlace
  <2>. QED BY <1>2, <1>3, <2>1, <2>2, <2>3, <2>4, NotesAsked
<1>. QED BY <1>5, <1>6

LEMMA NotesKeptByReload ==
  ASSUME Typed, NotesInStep, NEW i \in DOMAIN pending, Renamed(i) \/ Configured(i)
  PROVE  NotesInStep'
<1>1. PICK search \in BOOLEAN :
        /\ pending[i].pane # "notes" /\ pending' = Append(RemoveAt(pending, i), DecksRequest(search, 0))
        /\ latest' = [latest EXCEPT !["decks"] = "awaited"]
  BY RenamedIs, ConfiguredIs DEF Typed, TypedDecks
<1>2. /\ asked'["notes"] = asked["notes"] /\ strayed'["notes"] = strayed["notes"]
      /\ UNCHANGED <<currentDeck, notesOffset, notesMode, currentNotesCount, notesPane>>
      /\ (misnamed => misnamed') /\ NamedRight'
  <2>1. CASE Renamed(i)
    <3>1. /\ currentDeckName' = pending[i].deck
          /\ misnamed' = (misnamed \/ pending[i].deck # currentDeck)
          /\ UNCHANGED <<currentDeck, notesOffset, notesMode, currentNotesCount, notesPane, strayed>>
      BY <2>1, RenamedIs
    <3>2. PICK w : asked' = [asked EXCEPT !["decks"] = w]
      BY <2>1, RenamedIs
    <3>3. asked'["notes"] = asked["notes"]
      BY <3>2 DEF Typed, TypedGhost, Panes
    <3>4. NamedRight'
      BY <3>1 DEF NamedRight
    <3>. QED BY <3>1, <3>3, <3>4
  <2>2. CASE Configured(i)
    <3>1. /\ asked' = asked /\ misnamed' = misnamed /\ UNCHANGED notesState
          /\ strayed' = [strayed EXCEPT !["decks"] = asked["decks"] # DecksRequest(FALSE, 0)]
      BY <2>2, ConfiguredIs
    <3>2. strayed'["notes"] = strayed["notes"]
      BY <3>1 DEF Typed, TypedGhost, Panes
    <3>. QED BY <3>1, <3>2 DEF notesState, NotesInStep, NamedRight
  <2>. QED BY <2>1, <2>2
<1>. DEFINE q == DecksRequest(search, 0)
<1>3. q \in Requests /\ q.pane # "notes" /\ pending' = Append(RemoveAt(pending, i), q)
  BY <1>1, DecksRequestIs
<1>. HIDE DEF q
<1>4. pending \in Seq(Requests) /\ latest'["notes"] = latest["notes"]
  BY <1>1 DEF Typed, TypedPending, TypedGhost, Panes
<1>5. /\ Among(pending, "notes") <=> Among(pending', "notes")
      /\ \A b : LastIs(pending, "notes", b) => LastIs(pending', "notes", b)
  BY <1>1, <1>3, <1>4, OthersFollow
<1>6. NotesUntouched
  BY <1>2, <1>4, <1>5 DEF NotesUntouched
<1>. QED BY <1>2, <1>6, NotesStay

-----------------------------------------------------------------------------
(* Paging.  The pages that were shown one after the other are the rows up  *)
(* to the end of the last page; Next is off when no row is left.           *)

Progress(w, rows, l) ==
  /\ w.of.offset \in Nat /\ w.of.offset =< Len(rows)
  /\ w.seen = SubSeq(rows, 1, Min({w.of.offset + l, Len(rows)}))
  /\ IF w.end THEN Len(rows) =< w.of.offset + l ELSE w.of.offset + l =< Len(rows)
  /\ w.total \subseteq {Len(rows)}

DecksWalked ==
  walk["decks"] = NoWalk \/
    /\ walk["decks"].of \in DecksRequests
    /\ Progress(walk["decks"], OrderById(Decks), limit)
NotesWalked ==
  walk["notes"] = NoWalk \/
    /\ walk["notes"].of \in NotesRequests /\ walk["notes"].of.kind = "deck"
    /\ Progress(walk["notes"], OrderById(InDeck(walk["notes"].of.deck)), limit)
Walked == limit =< MaxPageLimit => DecksWalked /\ NotesWalked

LEMMA NoWalkIs == NoWalk.of = Nothing /\ NoWalk.end = FALSE /\ NoWalk.end \in BOOLEAN
BY DEF NoWalk

LEMMA ExtendIs ==
  ASSUME NEW w, NEW q, NEW page, NEW last \in BOOLEAN, NEW total
  PROVE  /\ Extend(w, q, page, last, total).end \in BOOLEAN
         /\ \/ Extend(w, q, page, last, total) = NoWalk
            \/ \E before :
                 /\ Extend(w, q, page, last, total)
                      = [of |-> q, seen |-> before \o page, end |-> last, total |-> total]
                 /\ \/ q.offset = 0 /\ before = << >>
                    \/ /\ w.of # Nothing /\ [w.of EXCEPT !.offset = @ + limit] = q /\ ~w.end
                       /\ before = w.seen
<1>. DEFINE v == Extend(w, q, page, last, total)
            Seen(before) == [of |-> q, seen |-> before \o page, end |-> last, total |-> total]
<1>1. CASE q.offset = 0
  <2>1. v = Seen(<< >>)
    BY <1>1 DEF Extend
  <2>2. Seen(<< >>).end \in BOOLEAN
    OBVIOUS
  <2>. QED BY <1>1, <2>1, <2>2
<1>2. CASE q.offset # 0 /\ w.of # Nothing /\ [w.of EXCEPT !.offset = @ + limit] = q /\ ~w.end
  <2>1. v = Seen(w.seen)
    BY <1>2 DEF Extend
  <2>2. Seen(w.seen).end \in BOOLEAN
    OBVIOUS
  <2>. QED BY <1>2, <2>1, <2>2
<1>3. CASE ~(q.offset = 0) /\ ~(w.of # Nothing /\ [w.of EXCEPT !.offset = @ + limit] = q /\ ~w.end)
  <2>1. v = NoWalk
    BY <1>3 DEF Extend
  <2>. QED BY <2>1, NoWalkIs
<1>. QED BY <1>1, <1>2, <1>3

\* Request q is for the page after those of the walk.
GoesOn(w, q) == w.of # Nothing /\ [w.of EXCEPT !.offset = @ + limit] = q /\ ~w.end

\* The answer to q has its page of the rows, says rightly whether it is the last, and
\* what it says of the number of rows is right.
IsPage(rows, w, q, page, last, total) ==
  /\ q.offset \in Nat /\ page = SubSeq(rows, q.offset + 1, Min({q.offset + limit, Len(rows)}))
  /\ GoesOn(w, q) => Progress(w, rows, limit) /\ q.offset = w.of.offset + limit
  /\ q.offset =< Len(rows) =>
       IF last THEN Len(rows) =< q.offset + limit ELSE q.offset + limit =< Len(rows)
  /\ total \subseteq {Len(rows)}

\* One page more.
LEMMA Extended ==
  ASSUME NEW S, NEW rows \in Seq(S), limit \in Nat \ {0}, NEW w, NEW q, NEW page, NEW last,
         NEW total, IsPage(rows, w, q, page, last, total)
  PROVE  \/ Extend(w, q, page, last, total) = NoWalk
         \/ /\ Extend(w, q, page, last, total).of = q
            /\ Progress(Extend(w, q, page, last, total), rows, limit)
<1>. DEFINE v == Extend(w, q, page, last, total)
            o == q.offset
            n == Len(rows)
            e == Min({o + limit, n})
<1>1. /\ n \in Nat /\ o \in Nat /\ page = SubSeq(rows, o + 1, e)
      /\ GoesOn(w, q) => Progress(w, rows, limit) /\ o = w.of.offset + limit
      /\ o =< n => IF last THEN n =< o + limit ELSE o + limit =< n
      /\ total \subseteq {n}
  BY LenProperties DEF IsPage
<1>2. SUFFICES ASSUME v # NoWalk
               PROVE  v.of = q /\ Progress(v, rows, limit)
  OBVIOUS
<1>3. PICK before :
        /\ v = [of |-> q, seen |-> before \o page, end |-> last, total |-> total]
        /\ (o = 0 /\ before = << >>) \/ (GoesOn(w, q) /\ before = w.seen)
  <2>1. CASE o = 0
    <3>1. v = [of |-> q, seen |-> << >> \o page, end |-> last, total |-> total]
      BY <2>1 DEF Extend
    <3>. QED BY <2>1, <3>1
  <2>2. CASE o # 0 /\ GoesOn(w, q)
    <3>1. v = [of |-> q, seen |-> w.seen \o page, end |-> last, total |-> total]
      BY <2>2 DEF Extend, GoesOn
    <3>. QED BY <2>2, <3>1
  <2>3. CASE o # 0 /\ ~GoesOn(w, q)
    BY <1>2, <2>3 DEF Extend, GoesOn
  <2>. QED BY <2>1, <2>2, <2>3
<1>4. v.of = q /\ v.seen = before \o page /\ v.end = last /\ v.total = total
  <2>. HIDE DEF v
  <2>. QED BY <1>3
<1>. HIDE DEF v
<1>5. o =< n /\ before = SubSeq(rows, 1, o)
  <2>1. CASE o = 0 /\ before = << >>
    BY <1>1, <2>1, SubSeqEmpty
  <2>2. CASE GoesOn(w, q) /\ before = w.seen
    <3>1. Progress(w, rows, limit) /\ o = w.of.offset + limit /\ ~w.end /\ before = w.seen
      BY <1>1, <2>2 DEF GoesOn
    <3>2. o =< n /\ before = SubSeq(rows, 1, Min({o, n}))
      BY <3>1 DEF Progress
    <3>3. Min({o, n}) = o
      <4>1. o =< n /\ o \in Int /\ n \in Int
        BY <1>1, <3>2
      <4>. HIDE DEF o, n
      <4>. QED BY <4>1, OfTwo
    <3>. QED BY <3>2, <3>3
  <2>. QED BY <1>3, <2>1, <2>2
<1>6. before \o page = SubSeq(rows, 1, e)
  <2>1. page = SubSeq(rows, o + 1, e)
    BY <1>1
  <2>2. o \in Nat /\ o =< Len(rows)
    BY <1>1, <1>5
  <2>. HIDE DEF o
  <2>3. SubSeq(rows, 1, o) \o SubSeq(rows, o + 1, Min({o + limit, Len(rows)}))
          = SubSeq(rows, 1, Min({o + limit, Len(rows)}))
    BY <2>2, PageOfRows
  <2>. QED BY <1>5, <2>1, <2>3
<1>7. IF last THEN n =< o + limit ELSE o + limit =< n
  BY <1>1, <1>5
<1>8. v.of.offset = o /\ v.of.offset \in Nat
  BY <1>1, <1>4
<1>. QED BY <1>1, <1>4, <1>5, <1>6, <1>7, <1>8 DEF Progress

\* The length of a page, when there are rows before it or none are needed.
LEMMA PageLength ==
  ASSUME NEW S, NEW rows \in Seq(S), NEW o \in Nat, NEW l \in Nat \ {0}, o =< Len(rows),
         NEW page, page = SubSeq(rows, o + 1, Min({o + l, Len(rows)}))
  PROVE  /\ Len(page) \in Nat
         /\ o + Len(page) < Len(rows) => o + l =< Len(rows)
         /\ ~(o + Len(page) < Len(rows)) => Len(rows) =< o + l
         /\ Len(page) < l => Len(rows) =< o + l
         /\ ~(Len(page) < l) => o + l =< Len(rows)
<1>. DEFINE n == Len(rows)
            e == Min({o + l, n})
            k == Len(page)
<1>1. n \in Nat /\ o =< n
  BY LenProperties
<1>2. k = e - o
  BY PageOfRows
<1>3. e = IF o + l =< n THEN o + l ELSE n
  BY <1>1, OfTwo
<1>. HIDE DEF n, e, k
<1>4. k \in Nat /\ (o + k < n => o + l =< n) /\ (~(o + k < n) => n =< o + l)
      /\ (k < l => n =< o + l) /\ (~(k < l) => o + l =< n)
  BY <1>1, <1>2, <1>3
<1>. QED BY <1>4 DEF n, k

LEMMA WalkStays ==
  ASSUME TypedWalk, Walked, UNCHANGED <<walk, limit>>
  PROVE  TypedWalk' /\ Walked'
<1>1. TypedWalk'
  BY DEF TypedWalk
<1>2. Walked'
  BY DEF Walked, DecksWalked, NotesWalked
<1>. QED BY <1>1, <1>2

\* Another walk through one of the listings.
LEMMA WalksOn ==
  ASSUME TypedWalk, NEW p \in Panes, NEW w, walk' = [walk EXCEPT ![p] = w], w.end \in BOOLEAN
  PROVE  TypedWalk' /\ walk'[p] = w /\ \A r \in Panes : r # p => walk'[r] = walk[r]
<1>1. walk'[p] = w /\ \A r \in Panes : r # p => walk'[r] = walk[r]
  BY DEF TypedWalk
<1>2. walk' = [r \in Panes |-> walk'[r]]
  BY DEF TypedWalk
<1>3. \A r \in Panes : walk'[r].end \in BOOLEAN
  BY <1>1 DEF TypedWalk
<1>. QED BY <1>1, <1>2, <1>3 DEF TypedWalk

LEMMA WalkFails ==
  ASSUME TypedWalk, Walked, NEW i \in DOMAIN pending, Failed(i)
  PROVE  TypedWalk' /\ Walked'
<1>1. /\ walk' = (IF pending[i].pane \in Panes THEN [walk EXCEPT ![pending[i].pane] = NoWalk] ELSE walk)
      /\ limit' = limit
  BY DEF Failed
<1>2. CASE pending[i].pane \notin Panes
  BY <1>1, <1>2, WalkStays
<1>3. CASE pending[i].pane \in Panes
  <2>1. TypedWalk' /\ walk'[pending[i].pane] = NoWalk
        /\ \A r \in Panes : r # pending[i].pane => walk'[r] = walk[r]
    BY <1>1, <1>3, NoWalkIs, WalksOn
  <2>2. /\ walk'["decks"] = walk["decks"] \/ walk'["decks"] = NoWalk
        /\ walk'["notes"] = walk["notes"] \/ walk'["notes"] = NoWalk
    <3>1. "decks" \in Panes /\ "notes" \in Panes
      BY DEF Panes
    <3>. QED BY <2>1, <3>1
  <2>3. DecksWalked => DecksWalked'
    <3>1. CASE walk'["decks"] = walk["decks"]
      BY <1>1, <3>1 DEF DecksWalked
    <3>2. CASE walk'["decks"] = NoWalk
      BY <3>2 DEF DecksWalked
    <3>. QED BY <2>2, <3>1, <3>2
  <2>4. NotesWalked => NotesWalked'
    <3>1. CASE walk'["notes"] = walk["notes"]
      BY <1>1, <3>1 DEF NotesWalked
    <3>2. CASE walk'["notes"] = NoWalk
      BY <3>2 DEF NotesWalked
    <3>. QED BY <2>2, <3>1, <3>2
  <2>. QED BY <1>1, <2>1, <2>3, <2>4 DEF Walked
<1>. QED BY <1>2, <1>3

LEMMA DecksWalkOn ==
  ASSUME Typed, TypedWalk, Walked, NEW i \in DOMAIN pending, DecksArrive(i)
  PROVE  TypedWalk' /\ Walked'
<1>. DEFINE q == pending[i]
            next == ~decksSearchMode /\ deckOffset + Len(allDecks') < decksTotal'
            last == ~next
            v == Extend(walk.decks, q, allDecks', last, {decksTotal'})
            w == IF decksSearchMode \/ q.search \/ deckOffset # q.offset THEN NoWalk ELSE v
            rows == OrderById(Decks)
<1>1. /\ q \in DecksRequests /\ limit' = limit
      /\ ~q.search => allDecks' = ListDecks(q.offset) /\ decksTotal' = Cardinality(Decks)
      /\ decksPane' = [of |-> q, offset |-> deckOffset, ok |-> TRUE, next |-> next]
      /\ walk' = [walk EXCEPT !["decks"] =
           IF decksSearchMode \/ q.search \/ deckOffset # q.offset THEN NoWalk
           ELSE Extend(walk.decks, q, allDecks', ~decksPane'.next, {decksTotal'})]
  BY DecksAnswer
<1>2. walk' = [walk EXCEPT !["decks"] = w]
  <2>1. decksPane'.next = next
    <3>. HIDE DEF next
    <3>. QED BY <1>1
  <2>. QED BY <1>1, <2>1
<1>3. last \in BOOLEAN
  OBVIOUS
<1>4. w.end \in BOOLEAN
  <2>. HIDE DEF last
  <2>1. v.end \in BOOLEAN
    BY <1>3, ExtendIs
  <2>. HIDE DEF v
  <2>. QED BY <2>1, NoWalkIs
<1>5. TypedWalk' /\ walk'["decks"] = w /\ walk'["notes"] = walk["notes"]
  <2>. HIDE DEF w
  <2>1. "decks" \in Panes /\ "notes" \in Panes /\ "decks" # "notes"
    BY DEF Panes
  <2>. QED BY <1>2, <1>4, <2>1, WalksOn
<1>6. ASSUME limit =< MaxPageLimit, ~decksSearchMode, ~q.search, deckOffset = q.offset
      PROVE  v = NoWalk \/ (v.of = q /\ Progress(v, rows, limit))
  <2>1. q.offset \in Nat /\ limit \in Nat \ {0}
    BY <1>1, DecksRequestFields DEF Typed, TypedDecks
  <2>2. rows \in Seq(Decks) /\ Len(rows) = Cardinality(Decks)
    BY OrderByIdRows, DecksAssumed
  <2>3. allDecks' = SubSeq(rows, q.offset + 1, Min({q.offset + limit, Len(rows)}))
    <3>. DEFINE o == q.offset
    <3>1. o \in Nat /\ allDecks' = ListDecks(o)
      BY <1>1, <1>6, <2>1
    <3>. HIDE DEF o
    <3>2. ListDecks(o) = SubSeq(rows, o + 1, Min({o + limit, Len(rows)}))
      BY <1>6, <2>1, <3>1, ListsDecks
    <3>. QED BY <3>1, <3>2 DEF o
  <2>4. GoesOn(walk.decks, q) =>
          Progress(walk.decks, rows, limit) /\ q.offset = walk.decks.of.offset + limit
    <3>1. SUFFICES ASSUME walk.decks.of # Nothing, [walk.decks.of EXCEPT !.offset = @ + limit] = q
                   PROVE  Progress(walk.decks, rows, limit) /\ q.offset = walk.decks.of.offset + limit
      BY DEF GoesOn
    <3>2. walk.decks.of \in DecksRequests /\ Progress(walk.decks, rows, limit)
      BY <1>6, <3>1, NoWalkIs DEF Walked, DecksWalked
    <3>3. [walk.decks.of EXCEPT !.offset = @ + limit].offset = walk.decks.of.offset + limit
      BY <3>2 DEF DecksRequests
    <3>. QED BY <3>1, <3>2, <3>3
  <2>5. q.offset =< Len(rows) =>
          IF last THEN Len(rows) =< q.offset + limit ELSE q.offset + limit =< Len(rows)
    <3>. DEFINE o == q.offset
                n == Len(rows)
                k == Len(allDecks')
    <3>1. SUFFICES ASSUME o =< n
                   PROVE  IF last THEN n =< o + limit ELSE o + limit =< n
      OBVIOUS
    <3>2. (o + k < n => o + limit =< n) /\ (~(o + k < n) => n =< o + limit)
      <4>1. o \in Nat /\ o =< Len(rows) /\ allDecks' = SubSeq(rows, o + 1, Min({o + limit, Len(rows)}))
        BY <2>1, <2>3, <3>1
      <4>. HIDE DEF o, rows
      <4>. QED BY <2>1, <2>2, <4>1, PageLength
    <3>3. next <=> o + k < n
      BY <1>1, <1>6, <2>2
    <3>. HIDE DEF o, n, k, next
    <3>. QED BY <3>2, <3>3
  <2>6. {decksTotal'} \subseteq {Len(rows)}
    BY <1>1, <1>6, <2>2
  <2>. HIDE DEF q, rows, last
  <2>7. IsPage(rows, walk.decks, q, allDecks', last, {decksTotal'})
    BY <2>1, <2>3, <2>4, <2>5, <2>6 DEF IsPage
  <2>. QED BY <2>1, <2>2, <2>7, Extended
<1>7. ASSUME limit =< MaxPageLimit
      PROVE  w = NoWalk \/ (w.of = q /\ Progress(w, rows, limit))
  <2>. HIDE DEF v
  <2>. QED BY <1>6, <1>7
<1>8. DecksWalked' \/ ~(limit =< MaxPageLimit)
  <2>. HIDE DEF w, q, rows
  <2>1. CASE w = NoWalk
    BY <1>5, <2>1 DEF DecksWalked
  <2>2. CASE w.of = q /\ Progress(w, rows, limit)
    <3>1. walk'["decks"].of \in DecksRequests /\ Progress(walk'["decks"], rows, limit')
      BY <1>1, <1>5, <2>2
    <3>. QED BY <3>1 DEF DecksWalked, rows
  <2>. QED BY <1>7, <2>1, <2>2
<1>9. NotesWalked => NotesWalked'
  BY <1>1, <1>5 DEF NotesWalked
<1>. QED BY <1>1, <1>5, <1>8, <1>9 DEF Walked

LEMMA NotesWalkOn ==
  ASSUME Typed, TypedWalk, Walked, NEW i \in DOMAIN pending, NotesArrive(i)
  PROVE  TypedWalk' /\ Walked'
<1>. DEFINE q == pending[i]
            rows == OrderById(InDeck(q.deck))
            page == ListNotes(q, InDeck(q.deck))
            last == Len(page) < limit
            Next1(total) == Extend(walk.notes, q, page, last, total)
<1>1. q \in NotesRequests /\ UNCHANGED <<limit, decksState>>
  BY NotesAnswer
<1>2. PICK w : walk' = [walk EXCEPT !["notes"] = w] /\
        \/ w = NoWalk
        \/ /\ q.kind = "deck" /\ ~q.filter
           /\ \E total \in CountNotes(InDeck(q.deck)) : w = Next1(total)
  BY NotesAnswer
<1>3. w.end \in BOOLEAN
  <2>1. last \in BOOLEAN
    OBVIOUS
  <2>. HIDE DEF last
  <2>2. \A total : Next1(total).end \in BOOLEAN
    BY <2>1, ExtendIs
  <2>. HIDE DEF Next1
  <2>. QED BY <1>2, <2>2, NoWalkIs
<1>4. TypedWalk' /\ walk'["notes"] = w /\ walk'["decks"] = walk["decks"]
  <2>1. "decks" \in Panes /\ "notes" \in Panes /\ "decks" # "notes"
    BY DEF Panes
  <2>2. walk' = [walk EXCEPT !["notes"] = w]
    BY <1>2
  <2>. QED BY <2>2, <1>3, <2>1, WalksOn
<1>5. ASSUME limit =< MaxPageLimit, NEW total \in CountNotes(InDeck(q.deck)), q.kind = "deck", ~q.filter
      PROVE  Next1(total) = NoWalk \/ (Next1(total).of = q /\ Progress(Next1(total), rows, limit))
  <2>1. q.offset \in Nat /\ limit \in Nat \ {0}
    BY <1>1, NotesRequestFields DEF Typed, TypedDecks
  <2>2. rows \in Seq(InDeck(q.deck)) /\ Len(rows) = Cardinality(InDeck(q.deck))
    BY OrderByIdRows, DecksAssumed
  <2>3. page = SubSeq(rows, q.offset + 1, Min({q.offset + limit, Len(rows)}))
    <3>. DEFINE matching == InDeck(q.deck)
    <3>1. matching \in Matching(q) /\ q.kind # "find"
      BY <1>5 DEF Matching
    <3>. HIDE DEF matching, q
    <3>2. ListNotes(q, matching)
            = SubSeq(OrderById(matching), q.offset + 1, Min({q.offset + limit, Len(OrderById(matching))}))
      BY <1>1, <1>5, <2>1, <3>1, ListsNotes
    <3>. QED BY <3>2 DEF matching
  <2>4. GoesOn(walk.notes, q) =>
          Progress(walk.notes, rows, limit) /\ q.offset = walk.notes.of.offset + limit
    <3>1. SUFFICES ASSUME walk.notes.of # Nothing, [walk.notes.of EXCEPT !.offset = @ + limit] = q
                   PROVE  Progress(walk.notes, rows, limit) /\ q.offset = walk.notes.of.offset + limit
      BY DEF GoesOn
    <3>2. walk.notes.of \in NotesRequests
          /\ Progress(walk.notes, OrderById(InDeck(walk.notes.of.deck)), limit)
      BY <1>5, <3>1, NoWalkIs DEF Walked, NotesWalked
    <3>3. [walk.notes.of EXCEPT !.offset = @ + limit].offset = walk.notes.of.offset + limit
          /\ [walk.notes.of EXCEPT !.offset = @ + limit].deck = walk.notes.of.deck
      BY <3>2 DEF NotesRequests
    <3>4. q.deck = walk.notes.of.deck
      BY <3>1, <3>3
    <3>. QED BY <3>1, <3>2, <3>3, <3>4
  <2>5. q.offset =< Len(rows) =>
          IF last THEN Len(rows) =< q.offset + limit ELSE q.offset + limit =< Len(rows)
    <3>. DEFINE o == q.offset
                n == Len(rows)
                k == Len(page)
    <3>1. SUFFICES ASSUME o =< n
                   PROVE  IF last THEN n =< o + limit ELSE o + limit =< n
      OBVIOUS
    <3>2. (k < limit => n =< o + limit) /\ (~(k < limit) => o + limit =< n)
      <4>1. o \in Nat /\ o =< Len(rows) /\ page = SubSeq(rows, o + 1, Min({o + limit, Len(rows)}))
        BY <2>1, <2>3, <3>1
      <4>. HIDE DEF o, rows, page
      <4>. QED BY <2>1, <2>2, <4>1, PageLength
    <3>3. last <=> k < limit
      OBVIOUS
    <3>. HIDE DEF o, n, k, last
    <3>. QED BY <3>2, <3>3
  <2>6. total \subseteq {Len(rows)}
    BY <2>2 DEF CountNotes
  <2>. HIDE DEF q, rows, last, page
  <2>7. IsPage(rows, walk.notes, q, page, last, total)
    BY <2>1, <2>3, <2>4, <2>5, <2>6 DEF IsPage
  <2>. QED BY <2>1, <2>2, <2>7, Extended
<1>6. ASSUME limit =< MaxPageLimit
      PROVE  w = NoWalk \/ (w.of = q /\ q.kind = "deck" /\ Progress(w, rows, limit))
  <2>. HIDE DEF Next1, rows
  <2>. QED BY <1>2, <1>5, <1>6
<1>7. NotesWalked' \/ ~(limit =< MaxPageLimit)
  <2>. HIDE DEF q
  <2>. QED BY <1>1, <1>4, <1>6 DEF NotesWalked
<1>8. DecksWalked => DecksWalked'
  BY <1>1, <1>4 DEF DecksWalked
<1>. QED BY <1>1, <1>4, <1>7, <1>8 DEF Walked

-----------------------------------------------------------------------------
(* The inductive invariant of the listings, and their theorems.            *)

BrowsingInv == Typed /\ TypedWalk /\ DecksInStep /\ NotesInStep /\ Walked

LEMMA InitBrowsingInv == BrowsingInit => BrowsingInv
<1>. SUFFICES ASSUME BrowsingInit
              PROVE  BrowsingInv
  OBVIOUS
<1>. DEFINE q == DecksRequest(FALSE, 0)
            c == [pane |-> "config"]
<1>1. q \in DecksRequests /\ q \in Requests /\ c \in Requests /\ c.pane = "config"
  BY DecksRequestIs DEF Requests
<1>2. limit \in Nat \ {0}
  <2>1. PICK n \in PageSizes : limit = Positive(n, DefaultLimit)
    BY DEF BrowsingInit
  <2>. QED BY <2>1, BrowsingAssumption DEF Positive
<1>3. /\ pending = <<c>> /\ clicks = 0 /\ misnamed = FALSE
      /\ asked = [decks |-> q, notes |-> Nothing] /\ latest = [p \in Panes |-> "answered"]
      /\ strayed = [p \in Panes |-> FALSE] /\ walk = [p \in Panes |-> NoWalk]
      /\ allDecks = << >> /\ decksTotal = 0 /\ deckOffset = 0 /\ decksSearchMode = FALSE
      /\ currentDeck = 0 /\ currentDeckName = 0 /\ currentNotesCount = 0
      /\ notesOffset = 0 /\ notesMode = "deck" /\ filter = FALSE
      /\ decksPane = [of |-> Nothing, offset |-> 0, ok |-> FALSE, next |-> TRUE]
      /\ notesPane = [of |-> Nothing, label |-> "none", deck |-> 0, offset |-> 0, ok |-> FALSE]
  BY DEF BrowsingInit
<1>. HIDE DEF q, c
<1>4. "decks" \in Panes /\ "notes" \in Panes
  BY DEF Panes
<1>5. TypedDecks
  <2>1. allDecks \in Seq(Decks) /\ decksTotal \in 0..Cardinality(Decks) /\ clicks \in 0..MaxClicks
    BY <1>3, DecksAssumed, BrowsingAssumption
  <2>2. decksPane \in [of : Requests \union {Nothing}, offset : Nat, ok : BOOLEAN, next : BOOLEAN]
    BY <1>3
  <2>. QED BY <1>2, <1>3, <2>1, <2>2 DEF TypedDecks
<1>6. TypedNotes
  BY <1>3 DEF TypedNotes
<1>7. Len(pending) = 1 /\ DOMAIN pending = {1} /\ pending[1] = c /\ pending \in Seq(Requests)
  BY <1>1, <1>3
<1>8. TypedPending
  BY <1>1, <1>7 DEF TypedPending, TypedRequest
<1>9. asked["decks"] = q /\ asked["notes"] = Nothing /\ latest["decks"] = "answered"
      /\ latest["notes"] = "answered"
  BY <1>3, <1>4
<1>10. TypedGhost
  <2>1. asked = [p \in Panes |-> IF p = "decks" THEN q ELSE Nothing]
    BY <1>3 DEF Panes
  <2>2. asked \in [Panes -> Requests \union {Nothing}]
    BY <1>1, <2>1
  <2>3. asked["decks"] = DecksHere
    BY <1>3, <1>9 DEF q, DecksHere
  <2>4. latest \in [Panes -> {"awaited", "answered", "overtaken"}] /\ strayed \in [Panes -> BOOLEAN]
    BY <1>3
  <2>. QED BY <1>1, <1>3, <1>9, <2>2, <2>3, <2>4 DEF TypedGhost
<1>11. walk["decks"] = NoWalk /\ walk["notes"] = NoWalk /\ TypedWalk
  <2>1. \A p \in Panes : walk[p] = NoWalk
    BY <1>3
  <2>2. walk = [p \in Panes |-> walk[p]]
    BY <1>3
  <2>. QED BY <1>4, <2>1, <2>2, NoWalkIs DEF TypedWalk
<1>12. DecksInStep
  <2>1. ~decksPane.ok /\ latest["decks"] # "awaited"
    BY <1>3, <1>9
  <2>. QED BY <2>1 DEF DecksInStep
<1>13. ~Among(pending, "notes")
  BY <1>1, <1>7 DEF Among
<1>14. NotesInStep
  <2>1. ~notesPane.ok /\ latest["notes"] # "awaited"
    BY <1>3, <1>9
  <2>2. NotesPlaced
    BY <1>3, <1>9, <1>13, <2>1 DEF NotesPlaced, NoneYet, NotesPlace
  <2>3. NamedRight /\ NotesAsAsked
    BY <1>3, <2>1 DEF NamedRight, NotesAsAsked
  <2>. QED BY <2>2, <2>3 DEF NotesInStep
<1>. QED BY <1>5, <1>6, <1>8, <1>10, <1>11, <1>12, <1>14 DEF BrowsingInv, Typed, Walked, DecksWalked, NotesWalked

LEMMA ClickBrowsingInv ==
  ASSUME BrowsingInv,
         \/ RefreshDecks \/ DecksPrev \/ DecksNext
         \/ OpenDeck \/ ApplyFilter \/ GlobalSearch \/ Find \/ NotesPrev \/ NotesNext
         \/ Type \/ SaveNote \/ RenameDeck
  PROVE  BrowsingInv'
<1>1. Typed /\ TypedWalk /\ DecksInStep /\ NotesInStep /\ Walked /\ NotesPlaced
  BY DEF BrowsingInv, NotesInStep
<1>2. CASE RefreshDecks \/ DecksPrev \/ DecksNext
  <2>1. PICK search \in BOOLEAN, o \in Nat, w \in DecksRequests : DecksClicked(search, o, w)
    BY <1>1, <1>2, DecksClicks
  <2>2. Typed'
    BY <1>1, <2>1, DecksClickTyped
  <2>3. DecksInStep'
    BY <1>1, <2>1, DecksKeptByClick
  <2>4. NotesInStep'
    BY <1>1, <2>1, NotesKeptByDecks
  <2>5. UNCHANGED <<walk, limit>>
    BY <2>1 DEF DecksClicked
  <2>6. TypedWalk' /\ Walked'
    BY <1>1, <2>5, WalkStays
  <2>. QED BY <2>2, <2>3, <2>4, <2>6 DEF BrowsingInv
<1>3. CASE OpenDeck \/ ApplyFilter \/ GlobalSearch \/ Find \/ NotesPrev \/ NotesNext
  <2>1. PICK q, w \in NotesRequests \union {Nothing} : NotesClicked(q, w)
    BY <1>1, <1>3, NotesClicks
  <2>2. Typed'
    BY <1>1, <2>1, NotesClickTyped
  <2>3. DecksInStep'
    BY <1>1, <2>1, DecksKeptByNotes
  <2>4. NotesInStep'
    BY <1>1, <2>1, NotesKeptByClick
  <2>5. UNCHANGED <<walk, limit>>
    BY <2>1 DEF NotesClicked
  <2>6. TypedWalk' /\ Walked'
    BY <1>1, <2>5, WalkStays
  <2>. QED BY <2>2, <2>3, <2>4, <2>6 DEF BrowsingInv
<1>4. CASE Type \/ SaveNote \/ RenameDeck
  <2>1. Typed' /\ DecksInStep' /\ NotesInStep'
    BY <1>1, <1>4, OtherClickTyped, DecksKeptByOthers, NotesKeptByOthers
  <2>2. UNCHANGED <<walk, limit>>
    BY <1>4 DEF Type, SaveNote, RenameDeck, Click, ghost
  <2>3. TypedWalk' /\ Walked'
    BY <1>1, <2>2, WalkStays
  <2>. QED BY <2>1, <2>3 DEF BrowsingInv
<1>. QED BY <1>2, <1>3, <1>4

LEMMA AnswerBrowsingInv ==
  ASSUME BrowsingInv, NEW i \in DOMAIN pending,
         \/ DecksArrive(i) \/ NotesArrive(i) \/ Failed(i)
         \/ Configured(i) \/ Saved(i) \/ Renamed(i)
  PROVE  BrowsingInv'
<1>1. Typed /\ TypedWalk /\ DecksInStep /\ NotesInStep /\ Walked /\ NotesPlaced
  BY DEF BrowsingInv, NotesInStep
<1>2. CASE DecksArrive(i)
  <2>1. Typed' /\ DecksInStep' /\ NotesInStep'
    BY <1>1, <1>2, DecksAnswerTyped, DecksKeptByAnswer, NotesKeptByDecksAnswer
  <2>2. TypedWalk' /\ Walked'
    BY <1>1, <1>2, DecksWalkOn
  <2>. QED BY <2>1, <2>2 DEF BrowsingInv
<1>3. CASE NotesArrive(i)
  <2>1. Typed' /\ DecksInStep' /\ NotesInStep'
    BY <1>1, <1>3, NotesAnswerTyped, DecksKeptByNotesAnswer, NotesKeptByAnswer
  <2>2. TypedWalk' /\ Walked'
    BY <1>1, <1>3, NotesWalkOn
  <2>. QED BY <2>1, <2>2 DEF BrowsingInv
<1>4. CASE Failed(i)
  <2>1. Typed' /\ DecksInStep' /\ NotesInStep'
    BY <1>1, <1>4, FailureTyped, DecksKeptByFailure, NotesKeptByFailure
  <2>2. TypedWalk' /\ Walked'
    BY <1>1, <1>4, WalkFails
  <2>. QED BY <2>1, <2>2 DEF BrowsingInv
<1>5. CASE Saved(i)
  <2>1. Typed' /\ DecksInStep' /\ NotesInStep'
    BY <1>1, <1>5, SavedTyped, DecksKeptBySave, NotesKeptBySave
  <2>2. UNCHANGED <<walk, limit>>
    BY <1>5 DEF Saved
  <2>3. TypedWalk' /\ Walked'
    BY <1>1, <2>2, WalkStays
  <2>. QED BY <2>1, <2>3 DEF BrowsingInv
<1>6. CASE Renamed(i)
  <2>1. Typed' /\ DecksInStep' /\ NotesInStep'
    BY <1>1, <1>6, RenamedTyped, DecksKeptByReload, NotesKeptByReload
  <2>2. UNCHANGED <<walk, limit>>
    BY <1>6 DEF Renamed
  <2>3. TypedWalk' /\ Walked'
    BY <1>1, <2>2, WalkStays
  <2>. QED BY <2>1, <2>3 DEF BrowsingInv
<1>7. CASE Configured(i)
  <2>1. Typed' /\ DecksInStep' /\ NotesInStep'
    BY <1>1, <1>7, ConfiguredTyped, DecksKeptByReload, NotesKeptByReload
  <2>2. UNCHANGED <<walk, limit>>
    BY <1>7 DEF Configured
  <2>3. TypedWalk' /\ Walked'
    BY <1>1, <2>2, WalkStays
  <2>. QED BY <2>1, <2>3 DEF BrowsingInv
<1>. QED BY <1>2, <1>3, <1>4, <1>5, <1>6, <1>7

LEMMA UnchangedBrowsingInv ==
  ASSUME BrowsingInv, UNCHANGED browsingVars
  PROVE  BrowsingInv'
<1>1. UNCHANGED <<limit, filter, pending, clicks>> /\ UNCHANGED decksState /\ UNCHANGED notesState
      /\ UNCHANGED ghost
  BY DEF browsingVars
<1>2. Typed /\ TypedWalk /\ DecksInStep /\ NotesInStep /\ Walked
  BY DEF BrowsingInv
<1>3. Typed'
  <2>1. TypedDecks' /\ TypedNotes'
    BY <1>1, <1>2 DEF Typed, TypedDecks, TypedNotes, decksState, notesState
  <2>2. TypedPending' /\ TypedGhost'
    BY <1>1, <1>2 DEF Typed, TypedPending, TypedGhost, DecksHere, decksState, notesState, ghost, TypedRequest
  <2>. QED BY <2>1, <2>2 DEF Typed
<1>4. DecksInStep'
  <2>1. DecksUntouched
    BY <1>1 DEF DecksUntouched, decksState, ghost, Among, LastIs
  <2>. QED BY <1>2, <2>1, DecksStay
<1>5. NotesInStep'
  <2>1. NotesUntouched
    BY <1>1 DEF NotesUntouched, notesState, ghost, Among, LastIs
  <2>2. NamedRight' /\ (misnamed => misnamed')
    BY <1>1, <1>2 DEF NotesInStep, NamedRight, notesState, ghost
  <2>. QED BY <1>2, <2>1, <2>2, NotesStay
<1>6. TypedWalk' /\ Walked'
  <2>1. UNCHANGED <<walk, limit>>
    BY <1>1 DEF ghost
  <2>. QED BY <1>2, <2>1, WalkStays
<1>. QED BY <1>3, <1>4, <1>5, <1>6 DEF BrowsingInv

LEMMA BrowsingInvariant == BrowsingSpec => []BrowsingInv
<1>1. BrowsingInv /\ [BrowsingNext]_browsingVars => BrowsingInv'
  <2>. SUFFICES ASSUME BrowsingInv, [BrowsingNext]_browsingVars
                PROVE  BrowsingInv'
    OBVIOUS
  <2>1. CASE UNCHANGED browsingVars
    BY <2>1, UnchangedBrowsingInv
  <2>2. CASE \/ RefreshDecks \/ DecksPrev \/ DecksNext
             \/ OpenDeck \/ ApplyFilter \/ GlobalSearch \/ Find \/ NotesPrev \/ NotesNext
             \/ Type \/ SaveNote \/ RenameDeck
    BY <2>2, ClickBrowsingInv
  <2>3. CASE \E i \in DOMAIN pending :
               \/ DecksArrive(i) \/ NotesArrive(i) \/ Failed(i)
               \/ Configured(i) \/ Saved(i) \/ Renamed(i)
    BY <2>3, AnswerBrowsingInv
  <2>4. CASE Idle
    <3>1. UNCHANGED browsingVars
      BY <2>4 DEF Idle
    <3>. QED BY <3>1, UnchangedBrowsingInv
  <2>. QED BY <2>1, <2>2, <2>3, <2>4 DEF BrowsingNext
<1>. QED BY <1>1, InitBrowsingInv, PTL DEF BrowsingSpec

-----------------------------------------------------------------------------
\* The page's variables have their types: the offsets of both listings are numbers
\* of rows however often Prev is clicked, a search of decks is not paged, and the page has
\* a name for the current deck exactly when a deck is open.
THEOREM BrowsingTypeCorrect == BrowsingSpec => []BrowsingTypeOK
<1>1. BrowsingInv => BrowsingTypeOK
  <2>. SUFFICES ASSUME BrowsingInv
                PROVE  BrowsingTypeOK
    OBVIOUS
  <2>1. TypedDecks /\ TypedNotes /\ TypedPending /\ TypedGhost /\ TypedWalk
    BY DEF BrowsingInv, Typed
  <2>2. TypeDecks
    BY <2>1 DEF TypedDecks, TypeDecks
  <2>3. TypeNotes
    BY <2>1 DEF TypedNotes, TypeNotes
  <2>4. \A i \in DOMAIN pending : TypeRequest(pending[i])
    BY <2>1, RequestTypes DEF TypedPending, TypedRequest
  <2>5. /\ \A p \in Panes : latest[p] \in {"awaited", "answered", "overtaken"} /\ walk[p].end \in BOOLEAN
        /\ strayed \in [Panes -> BOOLEAN]
    BY <2>1 DEF TypedGhost, TypedWalk
  <2>6. clicks \in 0..MaxClicks /\ (decksSearchMode => deckOffset = 0)
    BY <2>1 DEF TypedDecks
  <2>7. misnamed \in BOOLEAN /\ (currentDeck = 0 <=> currentDeckName = 0)
    BY <2>1 DEF TypedGhost, TypedNotes
  <2>. QED BY <2>2, <2>3, <2>4, <2>5, <2>6, <2>7 DEF BrowsingTypeOK
<1>. QED BY <1>1, BrowsingInvariant, PTL

\* With nothing under way each listing shows what the user asked for last, under its own
\* label and offset: whatever was clicked before and failed, and however fast.
\* What makes the page lose track is excluded as in the property.
THEOREM ListingsAsAsked == BrowsingSpec => []ShownAsAsked
<1>1. BrowsingInv => ShownAsAsked
  <2>. SUFFICES ASSUME BrowsingInv
                PROVE  ShownAsAsked
    OBVIOUS
  <2>1. Typed /\ DecksInStep /\ NotesInStep
    BY DEF BrowsingInv
  <2>2. \A p : Waiting(p) <=> Among(pending, p)
    BY DEF Waiting, Among
  <2>3. ASSUME decksPane.ok, Settled("decks")
        PROVE  decksPane.of = asked.decks /\ decksPane.offset = asked.decks.offset
    <3>1. ~Among(pending, "decks") /\ ~strayed["decks"] /\ latest["decks"] \in {"awaited", "answered"}
      BY <2>1, <2>2, <2>3 DEF Settled, Typed, TypedGhost, Panes
    <3>2. decksPane.of = DecksHere /\ decksPane.offset = deckOffset /\ asked["decks"] = DecksHere
      BY <2>1, <2>3, <3>1 DEF DecksInStep, Typed, TypedGhost
    <3>3. DecksHere.offset = deckOffset
      BY DEF DecksHere, DecksRequest
    <3>. QED BY <3>2, <3>3
  <2>4. ASSUME notesPane.ok, Settled("notes")
        PROVE  /\ notesPane.of = asked.notes /\ notesPane.offset = asked.notes.offset
               /\ notesPane.label = asked.notes.kind
               /\ ~misnamed => notesPane.deck = asked.notes.deck
    <3>1. ~Among(pending, "notes") /\ ~strayed["notes"] /\ latest["notes"] \in {"awaited", "answered"}
      BY <2>1, <2>2, <2>4 DEF Settled, Typed, TypedGhost, Panes
    <3>2. NotesAsAsked /\ latest["notes"] = "answered"
      BY <2>1, <3>1 DEF NotesInStep, NotesAsAsked
    <3>. QED BY <2>4, <3>2 DEF NotesAsAsked
  <2>. QED BY <2>3, <2>4 DEF ShownAsAsked
<1>. QED BY <1>1, BrowsingInvariant, PTL

\* The pages seen up to the last one are all the rows.
LEMMA WholeWalk ==
  ASSUME NEW S, NEW rows \in Seq(S), NEW w, NEW l \in Nat, Progress(w, rows, l), w.end
  PROVE  w.seen = rows /\ w.total \subseteq {Len(w.seen)}
<1>. DEFINE o == w.of.offset
            n == Len(rows)
<1>1. n \in Nat /\ o \in Nat /\ n =< o + l /\ w.seen = SubSeq(rows, 1, Min({o + l, n}))
      /\ w.total \subseteq {n}
  BY LenProperties DEF Progress
<1>. HIDE DEF o
<1>2. Min({o + l, n}) = n
  <2>1. o + l \in Int /\ n \in Int
    BY <1>1
  <2>. HIDE DEF n
  <2>2. Min({o + l, n}) = IF o + l =< n THEN o + l ELSE n
    BY <2>1, OfTwo
  <2>. QED BY <1>1, <2>1, <2>2
<1>3. w.seen = rows
  BY <1>1, <1>2, SubSeqFull
<1>. QED BY <1>1, <1>3

\* Whoever pages through the decks, or through the notes of a deck, until Next is off has
\* seen every one of them once, in order, and was told their number if it was counted: for
\* every page size up to the server's limit, with any clicks and answers in between.
THEOREM EveryRowPaged == BrowsingSpec => []PagingComplete
<1>1. BrowsingInv => PagingComplete
  <2>. SUFFICES ASSUME BrowsingInv, limit =< MaxPageLimit
                PROVE  /\ walk.decks.end => walk.decks.seen = OrderById(Decks)
                       /\ walk.notes.end => walk.notes.seen = OrderById(InDeck(walk.notes.of.deck))
                       /\ \A p \in Panes : walk[p].end => walk[p].total \subseteq {Len(walk[p].seen)}
    BY DEF PagingComplete
  <2>1. DecksWalked /\ NotesWalked /\ limit \in Nat
    BY DEF BrowsingInv, Walked, Typed, TypedDecks
  <2>2. walk["decks"].end =>
          /\ walk["decks"].seen = OrderById(Decks)
          /\ walk["decks"].total \subseteq {Len(walk["decks"].seen)}
    <3>1. SUFFICES ASSUME walk["decks"].end
                   PROVE  /\ walk["decks"].seen = OrderById(Decks)
                          /\ walk["decks"].total \subseteq {Len(walk["decks"].seen)}
      BY Zenon
    <3>2. Progress(walk["decks"], OrderById(Decks), limit)
      BY <2>1, <3>1, NoWalkIs DEF DecksWalked
    <3>3. OrderById(Decks) \in Seq(Decks)
      BY OrderByIdRows, DecksAssumed
    <3>. QED BY <2>1, <3>1, <3>2, <3>3, WholeWalk
  <2>3. walk["notes"].end =>
          /\ walk["notes"].seen = OrderById(InDeck(walk["notes"].of.deck))
          /\ walk["notes"].total \subseteq {Len(walk["notes"].seen)}
    <3>1. SUFFICES ASSUME walk["notes"].end
                   PROVE  /\ walk["notes"].seen = OrderById(InDeck(walk["notes"].of.deck))
                          /\ walk["notes"].total \subseteq {Len(walk["notes"].seen)}
      BY Zenon
    <3>. DEFINE ids == InDeck(walk["notes"].of.deck)
    <3>2. Progress(walk["notes"], OrderById(ids), limit)
      BY <2>1, <3>1, NoWalkIs DEF NotesWalked
    <3>3. OrderById(ids) \in Seq(ids)
      BY OrderByIdRows, DecksAssumed
    <3>. HIDE DEF ids
    <3>4. walk["notes"].seen = OrderById(ids) /\ walk["notes"].total \subseteq {Len(walk["notes"].seen)}
      BY <2>1, <3>1, <3>2, <3>3, WholeWalk
    <3>. QED BY <3>4 DEF ids
  <2>4. \A p \in Panes : walk[p].end => walk[p].total \subseteq {Len(walk[p].seen)}
    BY <2>2, <2>3 DEF Panes
  <2>. QED BY <2>2, <2>3, <2>4
<1>. QED BY <1>1, BrowsingInvariant, PTL
=============================================================================
