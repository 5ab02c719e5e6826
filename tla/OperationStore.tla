--------------------------- MODULE OperationStore ---------------------------
(***************************************************************************)
(* The in-memory history of cleaner operations (httpapi/operations.go),    *)
(* the goroutines of handleCleanerRun that write it, and the page that     *)
(* polls it.  The store holds at most Capacity operations and evicts the   *)
(* oldest finished ones, never a running one.                              *)
(*                                                                         *)
(* Operation ids are numbered in the order of their creation, which is the *)
(* order of the store's list: a correlation id is never used twice, so     *)
(* create's branch for an id it has already is out of reach.               *)
(***************************************************************************)
EXTENDS Naturals, FiniteSets, Functions

CONSTANTS
  Capacity,  \* defaultOperationStoreCapacity, 256 in the code
  MaxOps,    \* bound on the operations ever started
  Watched    \* the operations a page polls

ASSUME StoreAssumption ==
  Capacity \in Nat \ {0} /\ MaxOps \in Nat /\ Watched \subseteq 1..MaxOps

VARIABLES
  next,  \* the next operation's id
  op,    \* the store: id |-> operationState
  run,   \* where each operation's goroutine is, or how it ended
  view   \* what the page polling each operation knows

vars == <<next, op, run, view>>

Ids == 1..MaxOps
Active == {"active", "finished", "broken"}
Terminal == {"succeeded", "failed"}
Stages == {"", "working", "finished", "failed"}

Init ==
  /\ next = 1
  /\ op = [i \in {} |-> [status |-> "running", stage |-> "", errors |-> 0]]
  /\ run = [i \in Ids |-> "none"]
  /\ view = [i \in Watched |-> "none"]

-----------------------------------------------------------------------------
(* The store.                                                              *)

AnyStatus(f) == DOMAIN f
Finished(f) == {i \in DOMAIN f : f[i].status # "running"}

Excess(f) ==
  IF Cardinality(DOMAIN f) > Capacity THEN Cardinality(DOMAIN f) - Capacity ELSE 0

\* evictExcess: while there are too many operations and one is finished, the
\* first finished one of the list goes.
NewestGo(f, victims) ==
  /\ \A v \in victims, u \in Finished(f) \ victims : v > u
  /\ Cardinality(victims) =
       IF Excess(f) < Cardinality(Finished(f)) THEN Excess(f) ELSE Cardinality(Finished(f))
Evicts(f, victims) ==
  /\ \A v \in victims, u \in Finished(f) \ victims : v < u
  /\ Cardinality(victims) =
       IF Excess(f) < Cardinality(Finished(f)) THEN Excess(f) ELSE Cardinality(Finished(f))

Store(f) ==
  \E victims \in SUBSET Finished(f) :
    Evicts(f, victims) /\ op' = Restrict(f, DOMAIN f \ victims)

With(i, state) == [j \in DOMAIN op \union {i} |-> IF j = i THEN state ELSE op[j]]

\* progress: an operation the store does not have is ignored.
Progress(i, stage, errors) ==
  IF i \in DOMAIN op
  THEN op' = With(i, [status |-> op[i].status, stage |-> stage, errors |-> errors])
  ELSE UNCHANGED op

\* fail, succeed.
FailSilent(i) == UNCHANGED op
Fail(i) ==
  IF i \in DOMAIN op
  THEN Store(With(i, [status |-> "failed", stage |-> "failed", errors |-> op[i].errors + 1]))
  ELSE UNCHANGED op

Succeed(i) ==
  IF i \in DOMAIN op
  THEN Store(With(i, [status |-> "succeeded", stage |-> "finished", errors |-> 0]))
  ELSE UNCHANGED op

-----------------------------------------------------------------------------
(* handleCleanerRun and its goroutine.                                      *)

Goto(i, label) == run' = [run EXCEPT ![i] = label]

Accept ==
  /\ next <= MaxOps
  /\ Store(With(next, [status |-> "running", stage |-> "", errors |-> 0]))
  /\ Goto(next, "active")
  /\ next' = next + 1
  /\ UNCHANGED view

\* RunCleaner calls the progress callback; working stands for its stages before
\* the last.
Report(i) ==
  /\ run[i] = "active"
  /\ Progress(i, "working", 0)
  /\ UNCHANGED <<next, run, view>>

RunFinishes(i) ==
  /\ run[i] = "active"
  /\ Progress(i, "finished", 0)
  /\ Goto(i, "finished")
  /\ UNCHANGED <<next, view>>

\* RunCleaner fails: it has reported stage failed, counting an error of the
\* pipeline or not, or has reported nothing (an unknown template, a panic).
RunBreaks(i) ==
  /\ run[i] = "active"
  /\ (\E errors \in {0, 1} : Progress(i, "failed", errors)) \/ UNCHANGED op
  /\ Goto(i, "broken")
  /\ UNCHANGED <<next, view>>

RecordSuccess(i) ==
  /\ run[i] = "finished"
  /\ Succeed(i)
  /\ Goto(i, "succeeded")
  /\ UNCHANGED <<next, view>>

\* Also from the deferred recover, after a panic.
RecordFailure(i) ==
  /\ run[i] = "broken"
  /\ Fail(i)
  /\ Goto(i, "failed")
  /\ UNCHANGED <<next, view>>

-----------------------------------------------------------------------------
(* The page: pollOperation in web/index.html and handleOperationByID.       *)

StartPolling(i) ==
  /\ run[i] # "none" /\ view[i] = "none"
  /\ view' = [view EXCEPT ![i] = "polling"]
  /\ UNCHANGED <<next, op, run>>

\* 404 ends the loop, as a terminal status does.
Answer(i) == IF i \in DOMAIN op THEN op[i].status ELSE "not found"
Poll(i) ==
  /\ view[i] \in {"polling", "running"}
  /\ view' = [view EXCEPT ![i] = Answer(i)]
  /\ UNCHANGED <<next, op, run>>

\* The page gives up after half an hour, or its request fails.
GiveUp(i) ==
  /\ view[i] \in {"polling", "running"}
  /\ view' = [view EXCEPT ![i] = "gave up"]
  /\ UNCHANGED <<next, op, run>>

Ended == next > MaxOps /\ (\A i \in Ids : run[i] \in Terminal) /\ UNCHANGED vars

Goroutine(i) ==
  Report(i) \/ RunFinishes(i) \/ RunBreaks(i) \/ RecordSuccess(i) \/ RecordFailure(i)

Next ==
  \/ Accept
  \/ \E i \in Ids : Goroutine(i)
  \/ \E i \in Watched : StartPolling(i) \/ Poll(i) \/ GiveUp(i)
  \/ Ended

Spec == Init /\ [][Next]_vars

\* RunCleaner returns (CleanerRun's Termination), its goroutine goes on to
\* record that, and the page's timer fires.
Fairness ==
  /\ \A i \in Ids :
       /\ WF_vars(RunFinishes(i) \/ RunBreaks(i))
       /\ WF_vars(RecordSuccess(i) \/ RecordFailure(i))
  /\ \A i \in Watched : WF_vars(Poll(i))
FairSpec == Spec /\ Fairness

-----------------------------------------------------------------------------
(* Properties.                                                             *)

States == [status : {"running"} \union Terminal, stage : Stages, errors : Nat]

TypeStore ==
  /\ next \in 1..(MaxOps + 1)
  /\ DOMAIN op \in SUBSET (1..(next - 1))
  /\ \A i \in DOMAIN op : op[i] \in States
TypeRun ==
  /\ run \in [Ids -> {"none"} \union Active \union Terminal]
  /\ \A i \in Ids : run[i] = "none" <=> i >= next
TypeView ==
  view \in [Watched -> {"none", "polling", "running", "not found", "gave up"} \union Terminal]

\* Every variable has its type (operationStore, operationState), and the ids
\* handed out are those below next.
TypeOK == TypeStore /\ TypeRun /\ TypeView

\* The store tells the truth: an operation whose goroutine is at work is there
\* and is running, however many others come and go; one whose goroutine has
\* ended is there with that result, or was evicted.
Truthful ==
  \A i \in Ids :
    /\ run[i] \in Active => i \in DOMAIN op /\ op[i].status = "running"
    /\ run[i] \in Terminal /\ i \in DOMAIN op => op[i].status = run[i]

\* The store outgrows its capacity only by operations that are running.
Bounded == Cardinality(DOMAIN op) <= Capacity \/ Finished(op) = {}

\* An operation is evicted only to make room for Capacity others that are
\* running or newer.
EvictedForNewer ==
  [][\A i \in DOMAIN op \ DOMAIN op' :
       Cardinality({j \in DOMAIN op' : op'[j].status = "running" \/ j > i}) >= Capacity]_vars

\* A page that polls an operation to its end was told the result that the
\* operation had, or that the store does not have it any more.
PagesKnow ==
  \A i \in Watched :
    /\ view[i] \in Terminal => run[i] = view[i]
    /\ view[i] = "not found" => run[i] \in Terminal /\ i \notin DOMAIN op

\* A page that polls stops polling.
PollingEnds == \A i \in Watched : view[i] = "polling" ~> view[i] \notin {"polling", "running"}
=============================================================================
