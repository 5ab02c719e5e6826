-------------------------- MODULE OperationProofs --------------------------
(***************************************************************************)
(* Proofs about OperationStore, for any capacity, any number of operations *)
(* and any set of them watched by pages.                                   *)
(***************************************************************************)
EXTENDS OperationStore, FiniteSetTheorems, TLAPS

-----------------------------------------------------------------------------
(* What evicting the excess leaves.                                        *)

\* Eviction takes finished operations only, and changes none that stay.
LEMMA StoreKeeps ==
  ASSUME NEW f, Store(f)
  PROVE  /\ DOMAIN op' \subseteq DOMAIN f
         /\ \A i \in DOMAIN op' : op'[i] = f[i]
         /\ \A i \in DOMAIN f : f[i].status = "running" => i \in DOMAIN op'
<1>1. PICK gone \in SUBSET Finished(f) : op' = Restrict(f, DOMAIN f \ gone)
  BY DEF Store
<1>2. op' = [i \in DOMAIN f \ gone |-> f[i]]
  BY <1>1 DEF Restrict
<1> QED
  BY <1>2 DEF Finished

\* Of a finite store, eviction removes no more than the excess.
LEMMA StoreCount ==
  ASSUME NEW f, NEW gone \in SUBSET Finished(f), IsFiniteSet(DOMAIN f), Evicts(f, gone)
  PROVE  LET kept == DOMAIN f \ gone
         IN  /\ Cardinality(kept) \in Nat
             /\ Cardinality(kept) <= Capacity \/ gone = Finished(f)
             /\ gone # {} => Cardinality(kept) >= Capacity
<1> DEFINE kept == DOMAIN f \ gone
<1>1. Finished(f) \subseteq DOMAIN f /\ gone \subseteq DOMAIN f
  BY DEF Finished
<1>2. IsFiniteSet(Finished(f)) /\ IsFiniteSet(gone) /\ IsFiniteSet(kept)
  BY <1>1, FS_Subset
<1>3. /\ Cardinality(DOMAIN f) \in Nat
      /\ Cardinality(Finished(f)) \in Nat
      /\ Cardinality(gone) \in Nat
      /\ Cardinality(kept) \in Nat
  BY <1>2, FS_CardinalityType
<1>4. Cardinality(kept) = Cardinality(DOMAIN f) - Cardinality(gone)
  <2>1. DOMAIN f \cap gone = gone
    BY <1>1
  <2> QED
    BY <2>1, FS_Difference
<1>5. Cardinality(gone) = Cardinality(Finished(f)) => gone = Finished(f)
  BY <1>2, FS_Subset
<1>6. Cardinality(gone) = 0 <=> gone = {}
  BY <1>2, FS_EmptySet
<1>7. Capacity \in Nat
  BY StoreAssumption
<1> QED
  BY <1>3, <1>4, <1>5, <1>6, <1>7 DEF Evicts, Excess

\* What is left of a finite store fits, or is all running.
LEMMA StoreBounded ==
  ASSUME NEW f, IsFiniteSet(DOMAIN f), Store(f)
  PROVE  Bounded'
<1>1. PICK gone \in SUBSET Finished(f) :
        Evicts(f, gone) /\ op' = Restrict(f, DOMAIN f \ gone)
  BY DEF Store
<1>2. DOMAIN op' = DOMAIN f \ gone /\ \A i \in DOMAIN op' : op'[i] = f[i]
  BY <1>1 DEF Restrict
<1>3. gone = Finished(f) => Finished(op') = {}
  BY <1>2 DEF Finished
<1> QED
  BY <1>1, <1>2, <1>3, StoreCount DEF Bounded, Finished

\* Whatever is evicted leaves Capacity others that are running or newer.
LEMMA StoreEvictsOldest ==
  ASSUME NEW f, IsFiniteSet(DOMAIN f), DOMAIN f \subseteq Nat, Store(f),
         NEW i \in DOMAIN f \ DOMAIN op'
  PROVE  Cardinality({j \in DOMAIN op' : op'[j].status = "running" \/ j > i}) >= Capacity
<1>1. PICK gone \in SUBSET Finished(f) :
        Evicts(f, gone) /\ op' = Restrict(f, DOMAIN f \ gone)
  BY DEF Store
<1>2. DOMAIN op' = DOMAIN f \ gone /\ \A j \in DOMAIN op' : op'[j] = f[j]
  BY <1>1 DEF Restrict
<1>3. i \in gone
  BY <1>2
<1>4. \A j \in DOMAIN op' : op'[j].status = "running" \/ j > i
  BY <1>1, <1>2, <1>3 DEF Evicts, Finished
<1>5. {j \in DOMAIN op' : op'[j].status = "running" \/ j > i} = DOMAIN op'
  BY <1>4
<1>6. Cardinality(DOMAIN op') >= Capacity
  BY <1>1, <1>2, <1>3, StoreCount
<1> QED
  BY <1>5, <1>6

-----------------------------------------------------------------------------
(* The steps that write the store.                                         *)

\* The store before eviction, when operation i gets the given state.
LEMMA WithFacts ==
  ASSUME NEW i, NEW state
  PROVE  /\ DOMAIN With(i, state) = DOMAIN op \union {i}
         /\ With(i, state)[i] = state
         /\ \A j \in DOMAIN op : j # i => With(i, state)[j] = op[j]
  BY DEF With

\* A typed store is finite, whatever is added to it.
LEMMA FiniteStore ==
  ASSUME TypeOK, NEW i
  PROVE  IsFiniteSet(DOMAIN op) /\ IsFiniteSet(DOMAIN op \union {i})
<1>1. next \in Nat /\ next - 1 \in Int
  BY StoreAssumption DEF TypeOK, TypeStore
<1>2. IsFiniteSet(1..(next - 1))
  BY <1>1, FS_Interval
<1>3. DOMAIN op \in SUBSET (1..(next - 1))
  BY DEF TypeOK, TypeStore
<1>4. IsFiniteSet(DOMAIN op)
  BY <1>2, <1>3, FS_Subset
<1> QED
  BY <1>4, FS_AddElement

LEMMA FiniteWith ==
  ASSUME TypeOK, NEW i, NEW state
  PROVE  IsFiniteSet(DOMAIN With(i, state))
<1>1. DOMAIN With(i, state) = DOMAIN op \union {i}
  BY WithFacts
<1>2. IsFiniteSet(DOMAIN op \union {i})
  BY FiniteStore
<1> QED
  BY <1>1, <1>2

-----------------------------------------------------------------------------
(* Types.                                                                  *)

LEMMA TypeRunStep == TypeOK /\ [Next]_vars => TypeRun'
<1> SUFFICES ASSUME TypeOK, [Next]_vars PROVE TypeRun'
  OBVIOUS
<1>0. next \in Nat /\ next >= 1 /\ MaxOps \in Nat
  BY StoreAssumption DEF TypeOK, TypeStore
<1>1. CASE Accept
  <2>1. next <= MaxOps /\ next' = next + 1 /\ run' = [run EXCEPT ![next] = "active"]
    BY <1>1 DEF Accept, Goto
  <2>2. next \in Ids /\ \A i \in Ids : i \in Nat /\ (i >= next' <=> i >= next /\ i # next)
    BY <1>0, <2>1 DEF Ids
  <2> QED
    BY <2>1, <2>2 DEF TypeOK, TypeRun, Active
<1> USE StoreAssumption DEF TypeOK, TypeStore, TypeRun, Ids, Active, Terminal, Goto
<1>2. ASSUME NEW i \in Ids, Goroutine(i) PROVE TypeRun'
  BY <1>2 DEF Goroutine, Report, RunFinishes, RunBreaks, RecordSuccess, RecordFailure
<1>3. ASSUME NEW i \in Watched, StartPolling(i) \/ Poll(i) \/ GiveUp(i) PROVE TypeRun'
  BY <1>3 DEF StartPolling, Poll, GiveUp
<1>4. CASE UNCHANGED vars
  BY <1>4 DEF vars
<1> QED
  BY <1>1, <1>2, <1>3, <1>4 DEF Next, Ended

LEMMA Earlier ==
  ASSUME NEW m \in Nat, NEW n \in Nat, m <= n, NEW j \in 1..(m - 1)
  PROVE  j \in 1..(n - 1)
  OBVIOUS

\* What the store holds after a write: an operation of before, or the one written.
LEMMA WriteType ==
  ASSUME TypeStore, next' \in Nat, next <= next', next' <= MaxOps + 1,
         NEW i \in 1..(next' - 1), NEW state \in States,
         op' = With(i, state) \/ Store(With(i, state))
  PROVE  TypeStore'
<1>1. /\ DOMAIN op' \subseteq DOMAIN With(i, state)
      /\ \A j \in DOMAIN op' : op'[j] = With(i, state)[j]
  BY StoreKeeps
<1>2. DOMAIN op' \subseteq DOMAIN op \union {i}
  BY <1>1, WithFacts
<1>3. \A j \in DOMAIN op' : op'[j] = state \/ (j \in DOMAIN op /\ op'[j] = op[j])
  BY <1>1, <1>2 DEF With
<1>4. next \in Nat /\ next >= 1 /\ DOMAIN op \subseteq 1..(next - 1)
  BY StoreAssumption DEF TypeStore
<1>5. DOMAIN op' \in SUBSET (1..(next' - 1))
  <2>1. \A j \in 1..(next - 1) : j \in 1..(next' - 1)
    BY <1>4, Earlier
  <2> QED
    BY <1>2, <1>4, <2>1
<1>6. \A j \in DOMAIN op' : op'[j] \in States
  BY <1>3 DEF TypeStore
<1>7. next' \in 1..(MaxOps + 1)
  BY <1>4, StoreAssumption
<1> QED
  BY <1>5, <1>6, <1>7 DEF TypeStore

LEMMA TypeStoreStep == TypeOK /\ [Next]_vars => TypeStore'
<1> SUFFICES ASSUME TypeOK, [Next]_vars PROVE TypeStore'
  OBVIOUS
<1>1. TypeStore /\ next \in Nat /\ next >= 1 /\ next <= MaxOps + 1 /\ MaxOps \in Nat
  BY StoreAssumption DEF TypeOK, TypeStore
<1>2. \A i \in DOMAIN op : i \in 1..(next - 1) /\ op[i] \in States /\ op[i].errors + 1 \in Nat
  BY <1>1 DEF TypeStore, States
<1>3. CASE Accept
  <2>1. next <= MaxOps /\ next' = next + 1
    BY <1>3 DEF Accept
  <2>a. next' \in Nat /\ next <= next' /\ next' <= MaxOps + 1 /\ next \in 1..(next' - 1)
    BY <1>1, <2>1
  <2>2. [status |-> "running", stage |-> "", errors |-> 0] \in States
    BY DEF States, Stages
  <2> QED
    BY <1>1, <1>3, <2>a, <2>2, WriteType DEF Accept
<1>4. ASSUME NEW i \in Ids, Goroutine(i) PROVE TypeStore'
  <2>1. next' = next
    BY <1>4 DEF Goroutine, Report, RunFinishes, RunBreaks, RecordSuccess, RecordFailure
  <2>2. CASE UNCHANGED op
    BY <1>1, <2>1, <2>2 DEF TypeStore
  <2>3. ASSUME NEW state \in States, i \in DOMAIN op,
               op' = With(i, state) \/ Store(With(i, state))
        PROVE  TypeStore'
    BY <1>1, <1>2, <2>1, <2>3, WriteType
  <2>4. ASSUME NEW stage \in Stages, NEW errors \in Nat, Progress(i, stage, errors)
        PROVE  TypeStore'
    <3>1. i \in DOMAIN op =>
            [status |-> op[i].status, stage |-> stage, errors |-> errors] \in States
      BY <1>2 DEF States
    <3> QED
      BY <2>2, <2>3, <2>4, <3>1 DEF Progress
  <2>5. CASE Fail(i)
    <3>1. i \in DOMAIN op =>
            [status |-> "failed", stage |-> "failed", errors |-> op[i].errors + 1] \in States
      BY <1>2 DEF States, Stages, Terminal
    <3> QED
      BY <2>2, <2>3, <2>5, <3>1 DEF Fail
  <2>6. CASE Succeed(i)
    <3>1. [status |-> "succeeded", stage |-> "finished", errors |-> 0] \in States
      BY DEF States, Stages, Terminal
    <3> QED
      BY <2>2, <2>3, <2>6, <3>1 DEF Succeed
  <2> QED
    BY <1>4, <2>2, <2>4, <2>5, <2>6
    DEF Goroutine, Report, RunFinishes, RunBreaks, RecordSuccess, RecordFailure, Stages
<1>5. ASSUME NEW i \in Watched, StartPolling(i) \/ Poll(i) \/ GiveUp(i) PROVE TypeStore'
  BY <1>1, <1>5 DEF StartPolling, Poll, GiveUp, TypeStore
<1>6. CASE UNCHANGED vars
  BY <1>1, <1>6 DEF vars, TypeStore
<1> QED
  BY <1>3, <1>4, <1>5, <1>6 DEF Next, Ended

LEMMA TypeViewStep == TypeOK /\ [Next]_vars => TypeView'
<1> SUFFICES ASSUME TypeOK, [Next]_vars PROVE TypeView'
  OBVIOUS
<1>1. TypeView
  BY DEF TypeOK
<1>2. CASE Accept
  BY <1>1, <1>2 DEF Accept, TypeView
<1>3. ASSUME NEW i \in Ids, Goroutine(i) PROVE TypeView'
  BY <1>1, <1>3 DEF Goroutine, Report, RunFinishes, RunBreaks, RecordSuccess, RecordFailure, TypeView
<1>4. ASSUME NEW i \in Watched, StartPolling(i) \/ GiveUp(i) PROVE TypeView'
  BY <1>1, <1>4 DEF StartPolling, GiveUp, TypeView
<1>5. ASSUME NEW i \in Watched, Poll(i) PROVE TypeView'
  <2>1. Answer(i) \in {"running", "not found"} \union Terminal
    BY DEF Answer, TypeOK, TypeStore, States
  <2> QED
    BY <1>1, <1>5, <2>1 DEF Poll, TypeView
<1>6. CASE UNCHANGED vars
  BY <1>1, <1>6 DEF vars, TypeView
<1> QED
  BY <1>2, <1>3, <1>4, <1>5, <1>6 DEF Next, Ended

\* Every variable always has its type.
THEOREM TypeCorrect == Spec => []TypeOK
<1>1. Init => TypeOK
  BY StoreAssumption DEF Init, TypeOK, TypeStore, TypeRun, TypeView, Ids
<1>2. TypeOK /\ [Next]_vars => TypeOK'
  BY TypeStoreStep, TypeRunStep, TypeViewStep DEF TypeOK
<1> QED
  BY <1>1, <1>2, PTL DEF Spec

-----------------------------------------------------------------------------
(* The store tells the truth.                                              *)

\* A write sets one operation's state, and what it evicts is not running.
LEMMA WriteFacts ==
  ASSUME NEW i, NEW state, op' = With(i, state) \/ Store(With(i, state))
  PROVE  /\ \A j \in DOMAIN op' : j # i => j \in DOMAIN op /\ op'[j] = op[j]
         /\ \A j \in DOMAIN op : j # i /\ op[j].status = "running" => j \in DOMAIN op'
         /\ i \in DOMAIN op' => op'[i] = state
         /\ state.status = "running" => i \in DOMAIN op'
<1>1. /\ DOMAIN op' \subseteq DOMAIN With(i, state)
      /\ \A j \in DOMAIN op' : op'[j] = With(i, state)[j]
      /\ \A j \in DOMAIN With(i, state) : With(i, state)[j].status = "running" => j \in DOMAIN op'
  BY StoreKeeps
<1> QED
  BY <1>1 DEF With

\* A write that agrees with where the operation's goroutine is keeps the store
\* truthful.
LEMMA TruthfulWrite ==
  ASSUME Truthful, NEW i \in Ids, NEW state,
         op' = With(i, state) \/ Store(With(i, state)),
         \A j \in Ids : j # i => run'[j] = run[j],
         run'[i] \in Active => state.status = "running",
         run'[i] \in Terminal => state.status = run'[i]
  PROVE  Truthful'
<1>1. /\ \A j \in DOMAIN op' : j # i => j \in DOMAIN op /\ op'[j] = op[j]
      /\ \A j \in DOMAIN op : j # i /\ op[j].status = "running" => j \in DOMAIN op'
      /\ i \in DOMAIN op' => op'[i] = state
      /\ state.status = "running" => i \in DOMAIN op'
  BY WriteFacts
<1> QED
  BY <1>1 DEF Truthful

LEMMA TruthfulStep == TypeOK /\ Truthful /\ [Next]_vars => Truthful'
<1> SUFFICES ASSUME TypeOK, Truthful, [Next]_vars PROVE Truthful'
  OBVIOUS
<1>1. DOMAIN run = Ids
  BY DEF TypeOK, TypeRun
<1>2. CASE Accept
  <2>1. next \in Nat /\ next >= 1 /\ MaxOps \in Nat
    BY StoreAssumption DEF TypeOK, TypeStore
  <2>2. next <= MaxOps /\ run' = [run EXCEPT ![next] = "active"]
    BY <1>2 DEF Accept, Goto
  <2>3. next \in Ids
    BY <2>1, <2>2 DEF Ids
  <2>4. run'[next] = "active" /\ \A j \in Ids : j # next => run'[j] = run[j]
    BY <1>1, <2>2, <2>3
  <2> QED
    BY <1>2, <2>3, <2>4, TruthfulWrite DEF Accept, Terminal
<1>3. ASSUME NEW i \in Ids, Goroutine(i) PROVE Truthful'
  <2>1. \A j \in Ids : j # i => run'[j] = run[j]
    BY <1>1, <1>3 DEF Goroutine, Report, RunFinishes, RunBreaks, RecordSuccess, RecordFailure, Goto
  <2>2. CASE run'[i] \in Active /\ run[i] \in Active /\ UNCHANGED op
    BY <2>1, <2>2 DEF Truthful, Active, Terminal
  <2>3. ASSUME NEW stage, NEW errors, Progress(i, stage, errors),
               run'[i] \in Active, run[i] \in Active
        PROVE  Truthful'
    <3>1. op[i].status = "running" /\ i \in DOMAIN op
      BY <2>3 DEF Truthful
    <3>2. run'[i] \notin Terminal
      BY <2>3 DEF Active, Terminal
    <3>3. op' = With(i, [status |-> "running", stage |-> stage, errors |-> errors])
      BY <2>3, <3>1 DEF Progress
    <3> QED
      BY <2>1, <3>2, <3>3, TruthfulWrite
  <2>4. CASE Report(i) \/ RunFinishes(i) \/ RunBreaks(i)
    <3>1. run'[i] \in Active /\ run[i] \in Active
      BY <1>1, <2>4 DEF Report, RunFinishes, RunBreaks, Goto, Active
    <3> QED
      BY <2>2, <2>3, <2>4, <3>1 DEF Report, RunFinishes, RunBreaks
  <2>5. CASE RecordSuccess(i)
    <3>1. run'[i] = "succeeded" /\ run[i] \in Active
      BY <1>1, <2>5 DEF RecordSuccess, Goto, Active
    <3>2. Store(With(i, [status |-> "succeeded", stage |-> "finished", errors |-> 0]))
      BY <2>5, <3>1 DEF RecordSuccess, Succeed, Truthful
    <3> QED
      BY <2>1, <3>1, <3>2, TruthfulWrite DEF Active
  <2>6. CASE RecordFailure(i)
    <3>1. run'[i] = "failed" /\ run[i] \in Active
      BY <1>1, <2>6 DEF RecordFailure, Goto, Active
    <3>2. Store(With(i, [status |-> "failed", stage |-> "failed", errors |-> op[i].errors + 1]))
      BY <2>6, <3>1 DEF RecordFailure, Fail, Truthful
    <3> QED
      BY <2>1, <3>1, <3>2, TruthfulWrite DEF Active
  <2> QED
    BY <1>3, <2>4, <2>5, <2>6 DEF Goroutine
<1>4. ASSUME NEW i \in Watched, StartPolling(i) \/ Poll(i) \/ GiveUp(i) PROVE Truthful'
  BY <1>4 DEF StartPolling, Poll, GiveUp, Truthful
<1>5. CASE UNCHANGED vars
  BY <1>5 DEF vars, Truthful
<1> QED
  BY <1>2, <1>3, <1>4, <1>5 DEF Next, Ended

\* Whatever comes and goes, an operation at work is in the store and running,
\* and one that ended is shown with the result it had, or not at all.
THEOREM StoreIsTruthful == Spec => []Truthful
<1>1. Init => Truthful
  BY DEF Init, Truthful, Active, Terminal
<1> QED
  BY <1>1, TypeCorrect, TruthfulStep, PTL DEF Spec

-----------------------------------------------------------------------------
(* What is evicted.                                                        *)

\* Which steps write the store, and what the store holds before they evict.
LEMMA Writers ==
  ASSUME TypeOK, [Next]_vars
  PROVE  \/ DOMAIN op' = DOMAIN op /\ \A i \in DOMAIN op : op'[i].status = op[i].status
         \/ \E i \in 1..next : \E state : Store(With(i, state))
<1>1. ASSUME NEW i, NEW stage, NEW errors, Progress(i, stage, errors)
      PROVE  DOMAIN op' = DOMAIN op /\ \A j \in DOMAIN op : op'[j].status = op[j].status
  BY <1>1 DEF Progress, With
<1>2. next \in 1..next /\ \A i \in DOMAIN op : i \in 1..next
  BY StoreAssumption DEF TypeOK, TypeStore
<1>3. ASSUME NEW i \in Ids, Goroutine(i)
      PROVE  \/ DOMAIN op' = DOMAIN op /\ \A j \in DOMAIN op : op'[j].status = op[j].status
             \/ \E j \in 1..next : \E state : Store(With(j, state))
  <2>1. CASE Report(i) \/ RunFinishes(i) \/ RunBreaks(i)
    BY <1>1, <2>1 DEF Report, RunFinishes, RunBreaks
  <2>2. CASE RecordSuccess(i) \/ RecordFailure(i)
    BY <1>2, <2>2 DEF RecordSuccess, RecordFailure, Succeed, Fail
  <2> QED
    BY <1>3, <2>1, <2>2 DEF Goroutine
<1>4. CASE Accept
  BY <1>2, <1>4 DEF Accept
<1>5. CASE UNCHANGED op
  BY <1>5
<1> QED
  BY <1>3, <1>4, <1>5 DEF Next, StartPolling, Poll, GiveUp, Ended, vars

\* The store never holds a finished operation beyond its capacity.
THEOREM StoreIsBounded == Spec => []Bounded
<1>1. Init => Bounded
  BY DEF Init, Bounded, Finished
<1>2. TypeOK /\ Bounded /\ [Next]_vars => Bounded'
  <2> SUFFICES ASSUME TypeOK, Bounded, [Next]_vars PROVE Bounded'
    OBVIOUS
  <2>1. CASE DOMAIN op' = DOMAIN op /\ \A i \in DOMAIN op : op'[i].status = op[i].status
    BY <2>1 DEF Bounded, Finished
  <2>2. ASSUME NEW i \in 1..next, NEW state, Store(With(i, state)) PROVE Bounded'
    <3>1. IsFiniteSet(DOMAIN With(i, state))
      BY FiniteWith
    <3> QED
      BY <2>2, <3>1, StoreBounded
  <2> QED
    BY <2>1, <2>2, Writers
<1> QED
  BY <1>1, <1>2, TypeCorrect, PTL DEF Spec

\* An operation leaves the store only when Capacity others that are running or
\* newer stay.
THEOREM EvictionIsFair == Spec => EvictedForNewer
<1>1. TypeOK /\ [Next]_vars =>
        \A i \in DOMAIN op \ DOMAIN op' :
          Cardinality({j \in DOMAIN op' : op'[j].status = "running" \/ j > i}) >= Capacity
  <2> SUFFICES ASSUME TypeOK, [Next]_vars, NEW i \in DOMAIN op \ DOMAIN op'
               PROVE  Cardinality({j \in DOMAIN op' : op'[j].status = "running" \/ j > i}) >= Capacity
    OBVIOUS
  <2>1. PICK k \in 1..next : \E state : Store(With(k, state))
    BY Writers
  <2>2. PICK state : Store(With(k, state))
    BY <2>1
  <2>3. DOMAIN With(k, state) = DOMAIN op \union {k} /\ IsFiniteSet(DOMAIN With(k, state))
    BY WithFacts, FiniteWith
  <2>4. DOMAIN With(k, state) \subseteq Nat
    BY <2>3 DEF TypeOK, TypeStore
  <2>5. i \in DOMAIN With(k, state) \ DOMAIN op'
    BY <2>3
  <2> QED
    BY <2>2, <2>3, <2>4, <2>5, StoreEvictsOldest
<1> QED
  BY <1>1, TypeCorrect, PTL DEF Spec, EvictedForNewer

-----------------------------------------------------------------------------
(* What the pages are told.                                                *)

\* An operation that ended stays ended, and does not come back once evicted.
LEMMA EndedStays ==
  ASSUME TypeOK, [Next]_vars, NEW i \in Ids, run[i] \in Terminal
  PROVE  run'[i] = run[i] /\ (i \notin DOMAIN op => i \notin DOMAIN op')
<1>1. DOMAIN run = Ids /\ run[i] # "none" /\ run[i] \notin Active
  BY DEF TypeOK, TypeRun, Active, Terminal
<1>2. CASE Accept
  <2>1. i # next
    BY <1>1 DEF TypeOK, TypeStore, TypeRun, Ids
  <2>2. run'[i] = run[i]
    BY <1>1, <1>2, <2>1 DEF Accept, Goto
  <2> QED
    BY <1>2, <2>1, <2>2, WriteFacts DEF Accept
<1>3. ASSUME NEW k \in Ids, Goroutine(k)
      PROVE  run'[i] = run[i] /\ (i \notin DOMAIN op => i \notin DOMAIN op')
  <2>1. k # i /\ run'[i] = run[i]
    BY <1>1, <1>3 DEF Goroutine, Report, RunFinishes, RunBreaks, RecordSuccess, RecordFailure,
       Goto, Active
  <2>2. ASSUME NEW state, op' = With(k, state) \/ Store(With(k, state)) \/ UNCHANGED op
        PROVE  i \notin DOMAIN op => i \notin DOMAIN op'
    BY <2>1, <2>2, WriteFacts
  <2> QED
    BY <1>3, <2>1, <2>2 DEF Goroutine, Report, RunFinishes, RunBreaks, RecordSuccess,
       RecordFailure, Progress, Succeed, Fail
<1>4. CASE UNCHANGED <<op, run>>
  BY <1>4
<1> QED
  BY <1>2, <1>3, <1>4 DEF Next, StartPolling, Poll, GiveUp, Ended, vars

\* A page polls an operation that was accepted.
Polled == \A i \in Watched : view[i] # "none" => run[i] # "none"

LEMMA PolledStep == TypeOK /\ Polled /\ [Next]_vars => Polled'
<1> SUFFICES ASSUME TypeOK, Polled, [Next]_vars, NEW i \in Watched, view'[i] # "none"
             PROVE  run'[i] # "none"
  BY DEF Polled
<1>1. i \in Ids /\ DOMAIN view = Watched /\ DOMAIN run = Ids
  BY StoreAssumption DEF Ids, TypeOK, TypeView, TypeRun
<1>2. CASE Accept
  BY <1>1, <1>2 DEF Accept, Goto, Polled
<1>3. ASSUME NEW k \in Ids, Goroutine(k) PROVE run'[i] # "none"
  BY <1>1, <1>3 DEF Goroutine, Report, RunFinishes, RunBreaks, RecordSuccess, RecordFailure,
     Goto, Polled
<1>4. ASSUME NEW k \in Watched, StartPolling(k) \/ Poll(k) \/ GiveUp(k) PROVE run'[i] # "none"
  BY <1>1, <1>4 DEF StartPolling, Poll, GiveUp, Polled
<1>5. CASE UNCHANGED vars
  BY <1>5 DEF vars, Polled
<1> QED
  BY <1>2, <1>3, <1>4, <1>5 DEF Next, Ended

\* A page that polled to the end knows the result, or that it is gone.
THEOREM PagesAreTold == Spec => []PagesKnow
<1>1. Init => PagesKnow
  BY DEF Init, PagesKnow, Terminal
<1>2. TypeOK /\ Truthful /\ Polled /\ PagesKnow /\ [Next]_vars => PagesKnow'
  <2> SUFFICES ASSUME TypeOK, Truthful, Polled, PagesKnow, [Next]_vars, NEW i \in Watched
               PROVE  /\ view'[i] \in Terminal => run'[i] = view'[i]
                      /\ view'[i] = "not found" => run'[i] \in Terminal /\ i \notin DOMAIN op'
    BY DEF PagesKnow
  <2>1. i \in Ids /\ DOMAIN view = Watched
    BY StoreAssumption DEF Ids, TypeOK, TypeView
  <2>2. CASE view'[i] = view[i]
    BY <2>1, <2>2, EndedStays DEF PagesKnow, Terminal
  <2>3. CASE view'[i] # view[i]
    <3>1. UNCHANGED <<op, run>>
      BY <2>3 DEF Next, Accept, Goroutine, Report, RunFinishes, RunBreaks, RecordSuccess,
         RecordFailure, StartPolling, Poll, GiveUp, Ended, vars
    <3>2. \/ view'[i] \in {"polling", "gave up"}
          \/ view[i] # "none" /\ view'[i] = Answer(i)
      BY <2>1, <2>3 DEF Next, Accept, Goroutine, Report, RunFinishes, RunBreaks, RecordSuccess,
         RecordFailure, StartPolling, Poll, GiveUp, Ended, vars
    <3> QED
      BY <2>1, <3>1, <3>2 DEF Polled, Answer, Truthful, Terminal, Active, TypeOK, TypeRun, TypeStore, States
  <2> QED
    BY <2>2, <2>3
<1> QED
  <2>1. Init => Polled
    BY DEF Init, Polled
  <2> QED
    BY <1>1, <1>2, <2>1, PolledStep, TypeCorrect, StoreIsTruthful, PTL DEF Spec
=============================================================================
