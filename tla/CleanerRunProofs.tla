-------------------------- MODULE CleanerRunProofs --------------------------
(***************************************************************************)
(* Proofs about CleanerRun, for any number of notes and workers, any       *)
(* buffer and any batch size: types, errors, the ids between the channels, *)
(* the writer, and that the goroutines implement CleanerContract.          *)
(***************************************************************************)
EXTENDS CleanerRun, SequenceTheorems, FiniteSetTheorems, TLAPS

Result == [id : Notes, changed : BOOLEAN]

-----------------------------------------------------------------------------
(* Types.                                                                  *)

\* No step changes what the call was asked to do.
LEMMA InputFixed == [Next]_vars => UNCHANGED input
  BY DEF vars, Next, Answer, FeederStep, WorkerStep, MainStep, Write, StartPipeline,
     StartFails, Decline, Handoff, CloseJobs, CloseResults, Transform, Send, ReportSend,
     ReportCancel, Exit, Collect, JudgeFailure, JudgeSuccess, Backup, BackupFails,
     BeginBatch, WriteNote, CommitBatch, BatchFails, BatchesDone, Finish, ReportFails,
     CancelParent, Kill, Terminated

\* The steps of the calling goroutine and of the environment leave the pool
\* alone, and only the collector and the error check touch the channels.
LEMMA PoolFrame ==
  MainStep \/ CancelParent \/ Kill \/ Terminated \/ UNCHANGED vars => UNCHANGED pool
  BY DEF vars, MainStep, Write, Collect, JudgeFailure, JudgeSuccess, Backup, BackupFails,
     BeginBatch, WriteNote, CommitBatch, BatchFails, BatchesDone, Finish, ReportFails,
     CancelParent, Kill, Terminated

LEMMA ControlTypeStep == TypeOK /\ [Next]_vars => TypeControl'
<1> SUFFICES ASSUME TypeOK, [Next]_vars PROVE TypeControl'
  OBVIOUS
<1> USE DEF TypeControl, TypeOK
<1>1. CASE Answer
  BY <1>1 DEF Answer, StartPipeline, StartFails, Decline, Final, Returned, Errors
<1>2. CASE FeederStep
  BY <1>2, CleanerAssumption DEF FeederStep, Handoff, MoreIds, CloseJobs, CloseResults
<1>3. ASSUME NEW w \in Workers, WorkerStep(w) PROVE TypeControl'
  BY <1>3 DEF WorkerStep, Transform, Send, ReportSend, ReportCancel, Exit
<1>4. CASE Collect \/ JudgeFailure \/ JudgeSuccess
  BY <1>4 DEF Collect, JudgeFailure, JudgeSuccess, AfterCollect, Return, TypeResults, WriteSteps,
     Final, Returned
<1>5. CASE Backup \/ BackupFails \/ Finish \/ ReportFails
  BY <1>5 DEF Backup, BackupFails, Finish, ReportFails, Return, WriteSteps, Final, Returned, Errors
<1>6. CASE Write
  BY <1>6 DEF Write, BeginBatch, WriteNote, CommitBatch, BatchFails, BatchesDone, Return,
     WriteSteps, Final, Returned, Errors
<1>7. CASE CancelParent \/ Kill \/ Terminated \/ UNCHANGED vars
  BY <1>7 DEF CancelParent, Kill, Terminated, vars, Final
<1> QED
  BY <1>1, <1>2, <1>3, <1>4, <1>5, <1>6, <1>7 DEF Next, MainStep

Holding ==
  \A w \in Workers :
    /\ wpc[w] \in {"read", "send"} => note[w] \in Notes
    /\ wpc[w] \in {"report", "cancel"} => verdict[w] \in Errors

LEMMA PoolTypeStep == TypeOK /\ [Next]_vars => TypePool' /\ Holding'
<1> SUFFICES ASSUME TypeOK, [Next]_vars PROVE TypePool' /\ Holding'
  OBVIOUS
<1> USE DEF TypePool, TypeOK, pool, Holding
<1>1. CASE Answer
  BY <1>1 DEF Answer, StartPipeline, StartFails, Decline
<1>2. CASE CloseJobs \/ CloseResults
  BY <1>2 DEF CloseJobs, CloseResults
<1>3. ASSUME NEW w \in Workers, Handoff(w) PROVE TypePool' /\ Holding'
  BY <1>3, CleanerAssumption DEF Handoff, MoreIds, TypeControl, Notes
<1>4. ASSUME NEW w \in Workers, Transform(w) PROVE TypePool' /\ Holding'
  BY <1>4 DEF Transform, Outcomes, Errors
<1>5. ASSUME NEW w \in Workers, Send(w) \/ ReportSend(w) PROVE TypePool' /\ Holding'
  BY <1>5 DEF Send, ReportSend
<1>6. ASSUME NEW w \in Workers, ReportCancel(w) \/ Exit(w) PROVE TypePool' /\ Holding'
  BY <1>6 DEF ReportCancel, Exit
<1>7. CASE MainStep \/ CancelParent \/ Kill \/ Terminated \/ UNCHANGED vars
  BY <1>7, PoolFrame
<1> QED
  BY <1>1, <1>2, <1>3, <1>4, <1>5, <1>6, <1>7 DEF Next, FeederStep, WorkerStep

LEMMA ResultsTypeStep == TypeOK /\ [Next]_vars => TypeResults'
<1> SUFFICES ASSUME TypeOK, [Next]_vars PROVE TypeResults'
  OBVIOUS
<1> USE DEF TypeResults, TypeOK, channels
<1>1. CASE Answer \/ FeederStep
  BY <1>1 DEF Answer, StartPipeline, StartFails, Decline, FeederStep, Handoff, CloseJobs,
     CloseResults
<1>2. ASSUME NEW w \in Workers, WorkerStep(w) PROVE TypeResults'
  <2>1. CASE Send(w)
    BY <2>1 DEF Send
  <2>2. CASE ReportSend(w)
    BY <2>2 DEF ReportSend, FirstError
  <2>3. CASE Transform(w) \/ ReportCancel(w) \/ Exit(w)
    BY <2>3 DEF Transform, ReportCancel, Exit
  <2> QED
    BY <1>2, <2>1, <2>2, <2>3 DEF WorkerStep
<1>3. CASE Collect
  <2>1. results \in Seq(Result) /\ results # <<>> /\ results' = Tail(results)
    BY <1>3 DEF Collect, Result
  <2>2. Head(results) \in Result /\ results' \in Seq(Result)
    BY <2>1, HeadTailProperties
  <2>3. \A changed \in BOOLEAN : Tally(changed) \in Summaries
    BY DEF Tally, Summaries, One
  <2>4. summary' \in Summaries
    BY <1>3, <2>2, <2>3 DEF Collect, Result
  <2>5. toWrite' \in Seq(Notes)
    BY <1>3, <2>2 DEF Collect, Result
  <2> QED
    BY <1>3, <2>2, <2>4, <2>5 DEF Collect, Result
<1>4. CASE JudgeFailure
  BY <1>4 DEF JudgeFailure, Summaries
<1>5. CASE JudgeSuccess \/ Backup \/ BackupFails \/ Finish \/ ReportFails
  BY <1>5 DEF JudgeSuccess, Backup, BackupFails, Finish, ReportFails
<1>6. CASE Write
  BY <1>6 DEF Write, BeginBatch, WriteNote, CommitBatch, BatchFails, BatchesDone
<1>7. CASE CancelParent \/ Kill \/ Terminated \/ UNCHANGED vars
  BY <1>7 DEF CancelParent, Kill, Terminated, vars
<1> QED
  BY <1>1, <1>2, <1>3, <1>4, <1>5, <1>6, <1>7 DEF Next, MainStep

\* The notes of a batch are entries of toWrite.
LEMMA BatchInPlan ==
  ASSUME TypeOK
  PROVE  /\ committed + BatchLen \in Nat
         /\ committed + BatchLen <= Len(toWrite)
         /\ BatchNotes \subseteq Notes
  BY CleanerAssumption DEF TypeOK, TypeResults, TypeWriter, BatchLen, BatchNotes

LEMMA WriterTypeStep == TypeOK /\ [Next]_vars => TypeWriter'
<1> SUFFICES ASSUME TypeOK, [Next]_vars PROVE TypeWriter'
  OBVIOUS
<1> USE DEF TypeWriter, TypeOK, writer
<1>1. CASE Answer \/ FeederStep
  BY <1>1 DEF Answer, StartPipeline, StartFails, Decline, FeederStep, Handoff, CloseJobs,
     CloseResults
<1>2. ASSUME NEW w \in Workers, WorkerStep(w) PROVE TypeWriter'
  BY <1>2 DEF WorkerStep, Transform, Send, ReportSend, ReportCancel, Exit
<1>3. CASE Collect \/ JudgeFailure \/ JudgeSuccess \/ Backup \/ BackupFails \/ Finish \/ ReportFails
  BY <1>3 DEF Collect, JudgeFailure, JudgeSuccess, Backup, BackupFails, Finish, ReportFails
<1>4. CASE CommitBatch
  BY <1>4, BatchInPlan DEF CommitBatch
<1>5. CASE BeginBatch \/ WriteNote \/ BatchFails \/ BatchesDone
  BY <1>5 DEF BeginBatch, WriteNote, BatchFails, BatchesDone
<1>6. CASE CancelParent \/ Kill \/ Terminated \/ UNCHANGED vars
  BY <1>6 DEF CancelParent, Kill, Terminated, vars
<1> QED
  BY <1>1, <1>2, <1>3, <1>4, <1>5, <1>6 DEF Next, MainStep, Write

LEMMA TypeStep == TypeOK /\ [Next]_vars => TypeOK'
<1> SUFFICES ASSUME TypeOK, [Next]_vars PROVE TypeOK'
  OBVIOUS
<1>1. TypeInput'
  BY InputFixed DEF TypeInput, TypeOK, input
<1> QED
  BY <1>1, ControlTypeStep, PoolTypeStep, ResultsTypeStep, WriterTypeStep DEF TypeOK, Holding

\* RunCleaner's variables always have their types.
THEOREM TypeCorrect == Spec => []TypeOK
<1>1. Init => TypeOK
  <2> SUFFICES ASSUME Init PROVE TypeOK
    OBVIOUS
  <2>1. TypeInput /\ TypePool /\ next \in 1..(NoteCount + 1)
    BY CleanerAssumption DEF Init, TypeInput, TypePool
  <2>2. TypeControl
    BY <2>1 DEF Init, TypeControl
  <2>3. results \in Seq([id : Notes, changed : BOOLEAN]) /\ toWrite \in Seq(Notes)
    BY DEF Init
  <2>4. summary \in Summaries /\ TypeWriter
    BY DEF Init, Summaries, TypeWriter
  <2> QED
    BY <2>1, <2>2, <2>3, <2>4 DEF Init, TypeOK, TypeResults
<1> QED
  BY <1>1, TypeStep, PTL DEF Spec

-----------------------------------------------------------------------------
(* Errors.  The argument: reportErr fills errCh before it cancels ctxRun   *)
(* and before its worker is done, and the collector looks at errCh only    *)
(* after all workers are done.                                             *)

ErrorInv ==
  /\ main = "start" => feeder = "idle" /\ \A w \in Workers : wpc[w] = "unborn"
  /\ feeder = "closed" => WorkersDone
  /\ main \notin {"start", "collect", "killed"} =>
       \/ feeder = "closed"
       \/ feeder = "idle" /\ \A w \in Workers : wpc[w] = "unborn"
  /\ main = "collect" => \A w \in Workers : wpc[w] \in {"cancel", "dead"} => errCh # "none"
  /\ main \in WriteSteps \union {"report"} \union Succeeded =>
       feeder = "closed" /\ \A w \in Workers : wpc[w] = "exited"

RootInv ==
  /\ main = "start" => ~runCancelled
  /\ main = "collect" /\ runCancelled => errCh # "none"
  /\ errCh = "canceled" => parentCancelled
  /\ main = "collect" =>
       \A w \in Workers : wpc[w] = "report" /\ verdict[w] = "canceled"
                            => parentCancelled \/ errCh # "none"
  /\ failure = "canceled" => parentCancelled

\* Once the results channel is closed, or the pipeline was never started, no
\* worker has anything left to do.
LEMMA PoolAtRest ==
  ASSUME ErrorInv, main \notin {"start", "collect", "killed"}
  PROVE  ~(\E w \in Workers : WorkerStep(w)) /\ ~FeederStep
  BY DEF ErrorInv, WorkersDone, WorkerStep, FeederStep, Transform, Send, ReportSend,
     ReportCancel, Exit, Handoff, CloseJobs, CloseResults

LEMMA ErrorStep == TypeOK /\ ErrorInv /\ [Next]_vars => ErrorInv'
<1> SUFFICES ASSUME TypeOK, ErrorInv, [Next]_vars PROVE ErrorInv'
  OBVIOUS
<1> USE DEF ErrorInv, WorkersDone, WriteSteps, Succeeded, pool, channels
<1>1. CASE Answer
  BY <1>1 DEF Answer, StartPipeline, StartFails, Decline
<1>2. CASE FeederStep
  <2>1. main \in {"start", "collect"}
    BY <1>2, PoolAtRest DEF FeederStep
  <2>2. ASSUME NEW w \in Workers, Handoff(w) PROVE ErrorInv'
    BY <2>1, <2>2 DEF Handoff, TypeOK, TypePool
  <2>3. CASE CloseJobs \/ CloseResults
    BY <2>1, <2>3 DEF CloseJobs, CloseResults
  <2> QED
    BY <1>2, <2>2, <2>3 DEF FeederStep
<1>3. ASSUME NEW w \in Workers, WorkerStep(w) PROVE ErrorInv'
  <2>1. main \in {"start", "collect"}
    BY <1>3, PoolAtRest DEF WorkerStep
  <2>2. CASE Transform(w)
    BY <2>1, <2>2 DEF Transform, TypeOK, TypePool
  <2>3. CASE Send(w)
    BY <2>1, <2>3 DEF Send, TypeOK, TypePool
  <2>4. CASE ReportSend(w)
    BY <2>1, <2>4 DEF ReportSend, FirstError, Errors, TypeOK, TypePool
  <2>5. CASE ReportCancel(w)
    BY <2>1, <2>5 DEF ReportCancel, TypeOK, TypePool
  <2>6. CASE Exit(w)
    BY <2>1, <2>6 DEF Exit, TypeOK, TypePool
  <2> QED
    BY <1>3, <2>2, <2>3, <2>4, <2>5, <2>6 DEF WorkerStep
<1>4. CASE Collect \/ JudgeFailure \/ JudgeSuccess
  BY <1>4 DEF Collect, JudgeFailure, JudgeSuccess, Collected, AfterCollect, Return
<1>5. CASE Backup \/ BackupFails \/ Finish \/ ReportFails
  BY <1>5 DEF Backup, BackupFails, Finish, ReportFails, Return
<1>6. CASE Write
  BY <1>6 DEF Write, BeginBatch, WriteNote, CommitBatch, BatchFails, BatchesDone, Return
<1>7. CASE CancelParent \/ Kill \/ Terminated \/ UNCHANGED vars
  BY <1>7 DEF CancelParent, Kill, Terminated, vars
<1> QED
  BY <1>1, <1>2, <1>3, <1>4, <1>5, <1>6, <1>7 DEF Next, MainStep

LEMMA RootStep == TypeOK /\ ErrorInv /\ RootInv /\ [Next]_vars => RootInv'
<1> SUFFICES ASSUME TypeOK, ErrorInv, RootInv, [Next]_vars PROVE RootInv'
  OBVIOUS
<1> USE DEF RootInv, WriteSteps, pool, channels
<1>1. CASE Answer
  BY <1>1 DEF Answer, StartPipeline, StartFails, Decline
<1>2. CASE FeederStep
  BY <1>2 DEF FeederStep, Handoff, CloseJobs, CloseResults, TypeOK, TypePool
<1>3. ASSUME NEW w \in Workers, WorkerStep(w) PROVE RootInv'
  <2>1. CASE Transform(w)
    BY <2>1 DEF Transform, CtxRunDone, TypeOK, TypePool
  <2>2. CASE Send(w)
    BY <2>2 DEF Send, TypeOK, TypePool
  <2>3. CASE ReportSend(w)
    <3>1. main \in {"start", "collect"}
      BY <1>3, PoolAtRest DEF WorkerStep
    <3>2. errCh' # "none" /\ (errCh' = "canceled" => parentCancelled)
      BY <2>3, <3>1 DEF ReportSend, FirstError, TypeOK, Errors, ErrorInv
    <3> QED
      BY <2>3, <3>2 DEF ReportSend
  <2>4. CASE ReportCancel(w)
    <3>1. main = "collect" => errCh # "none"
      BY <2>4 DEF ReportCancel, ErrorInv
    <3>2. main # "start"
      BY <2>4 DEF ReportCancel, ErrorInv
    <3> QED
      BY <2>4, <3>1, <3>2 DEF ReportCancel, TypeOK, TypePool
  <2>5. CASE Exit(w)
    BY <2>5 DEF Exit, TypeOK, TypePool
  <2> QED
    BY <1>3, <2>1, <2>2, <2>3, <2>4, <2>5 DEF WorkerStep
<1>4. CASE Collect \/ JudgeFailure \/ JudgeSuccess
  BY <1>4 DEF Collect, JudgeFailure, JudgeSuccess, Collected, AfterCollect, Return
<1>5. CASE Backup \/ BackupFails \/ Finish \/ ReportFails
  BY <1>5 DEF Backup, BackupFails, Finish, ReportFails, Return
<1>6. CASE Write
  BY <1>6 DEF Write, BeginBatch, WriteNote, CommitBatch, BatchFails, BatchesDone, Return
<1>7. CASE CancelParent \/ Kill \/ Terminated \/ UNCHANGED vars
  BY <1>7 DEF CancelParent, Kill, Terminated, vars
<1> QED
  BY <1>1, <1>2, <1>3, <1>4, <1>5, <1>6, <1>7 DEF Next, MainStep

LEMMA ErrorsInvariant == Spec => [](TypeOK /\ ErrorInv /\ RootInv)
<1>1. Init => ErrorInv /\ RootInv
  BY DEF Init, ErrorInv, RootInv, WriteSteps, Succeeded
<1> QED
  BY <1>1, TypeCorrect, TypeStep, ErrorStep, RootStep, PTL DEF Spec

\* Fail-fast: a worker's error is never lost between the channels; RunCleaner
\* neither writes nor succeeds after one.
THEOREM ErrorsAreNeverLost == Spec => []ErrorNeverLost
<1>1. ErrorInv => ErrorNeverLost
  BY DEF ErrorInv, ErrorNeverLost
<1> QED
  BY <1>1, ErrorsInvariant, PTL

\* RunCleaner blames a cancelled context only when its caller cancelled it.
THEOREM RootCauseIsReported == Spec => []RootCause
<1>1. RootInv => RootCause
  BY DEF RootInv, RootCause
<1> QED
  BY <1>1, ErrorsInvariant, PTL
-----------------------------------------------------------------------------
(* Ids, and what became of them.  Three invariants: an id is in one place  *)
(* only (IdInv), what the places say about it is right and no dirty id     *)
(* below next is missing (DirtyInv), and the database holds the committed  *)
(* prefix of the plan (WriterInv).                                         *)


Holds(w) == wpc[w] \in {"read", "send"}
Took(w)  == wpc[w] \in {"read", "send", "report", "cancel", "dead"}
InResults(n) == \E i \in 1..Len(results) : results[i].id = n
Planned(n)   == \E i \in 1..Len(toWrite) : toWrite[i] = n

IdInv ==
  /\ \A w \in Workers : Holds(w) =>
       note[w] < next /\ ~InResults(note[w]) /\ ~Planned(note[w])
  /\ \A v, w \in Workers : Holds(v) /\ Holds(w) /\ v # w => note[v] # note[w]
  /\ \A i \in 1..Len(results) : results[i].id < next /\ ~Planned(results[i].id)
  /\ \A i, j \in 1..Len(results) : results[i].id = results[j].id => i = j
  /\ \A i \in 1..Len(toWrite) : toWrite[i] < next
  /\ \A i, j \in 1..Len(toWrite) : toWrite[i] = toWrite[j] => i = j

\* Where the collector leaves to is reached with empty channels only.
Judged == main \in WriteSteps \union {"report"} \union Succeeded

DirtyInv ==
  /\ main = "start" => results = <<>> /\ next = 1
  /\ \A w \in Workers : wpc[w] = "send" => (verdict[w] = "changed" <=> note[w] \in dirty)
  /\ \A i \in 1..Len(results) : results[i].changed <=> results[i].id \in dirty
  /\ \A i \in 1..Len(toWrite) : toWrite[i] \in dirty
  /\ \A n \in dirty : n < next =>
       InResults(n) \/ Planned(n) \/ \E w \in Workers : Took(w) /\ note[w] = n
  /\ feeder \in {"waiting", "closed"} => next > NoteCount \/ CtxRunDone
  /\ Judged => results = <<>> /\ (parentCancelled \/ \A n \in dirty : Planned(n))

WriterInv ==
  /\ committed <= Len(toWrite)
  /\ stored = {toWrite[i] : i \in 1..committed}
  /\ main \in {"start", "collect", "backup"} => committed = 0 /\ ~backedUp
  /\ main \in WriteSteps => ~dryRun
  /\ main \in {"begin", "write"} => backedUp
  /\ main = "write" => committed < Len(toWrite)
  /\ main = "report" => IF dryRun THEN ~backedUp ELSE backedUp /\ committed = Len(toWrite)
  /\ dryRun => ~backedUp
  /\ ~backedUp => committed = 0
  /\ written > 0 => main = "write"

-----------------------------------------------------------------------------

\* Appending to a sequence and taking its head, index by index.
LEMMA AppendFacts ==
  ASSUME NEW S, NEW s \in Seq(S), NEW e \in S
  PROVE  /\ Append(s, e) \in Seq(S)
         /\ Len(Append(s, e)) = Len(s) + 1
         /\ \A i \in 1..Len(s) : Append(s, e)[i] = s[i]
         /\ Append(s, e)[Len(s) + 1] = e
  OBVIOUS

LEMMA TailFacts ==
  ASSUME NEW S, NEW s \in Seq(S), s # <<>>
  PROVE  /\ Len(s) \in Nat \ {0}
         /\ Head(s) = s[1] /\ Head(s) \in S
         /\ Len(Tail(s)) = Len(s) - 1
         /\ \A i \in 1..Len(Tail(s)) : Tail(s)[i] = s[i + 1] /\ i + 1 \in 2..Len(s)
         /\ \A j \in 2..Len(s) : j - 1 \in 1..Len(Tail(s)) /\ s[j] = Tail(s)[j - 1]
<1>1. Len(s) \in Nat \ {0}
  BY EmptySeq, LenProperties
<1> QED
  BY <1>1, HeadTailProperties

LEMMA ResultType ==
  ASSUME TypeOK
  PROVE  /\ results \in Seq(Result)
         /\ \A i \in 1..Len(results) : results[i].id \in Notes /\ results[i].changed \in BOOLEAN
<1>1. results \in Seq(Result)
  BY DEF TypeOK, TypeResults, Result
<1>2. \A i \in 1..Len(results) : results[i] \in Result
  BY <1>1, ElementOfSeq
<1> QED
  BY <1>1, <1>2 DEF Result

\* Steps that leave ids where they are.
LEMMA IdFrame ==
  ASSUME IdInv, UNCHANGED <<next, results, toWrite, note>>,
         \A w \in Workers : Holds(w)' => Holds(w)
  PROVE  IdInv'
  BY DEF IdInv, InResults, Planned

LEMMA IdStep == TypeOK /\ IdInv /\ [Next]_vars => IdInv'
<1> SUFFICES ASSUME TypeOK, IdInv, [Next]_vars PROVE IdInv'
  OBVIOUS
<1> USE DEF pool, channels
<1>1. CASE Answer
  BY <1>1, IdFrame DEF Answer, StartPipeline, StartFails, Decline, Holds
<1>2. ASSUME NEW w \in Workers, Handoff(w) PROVE IdInv'
  <2>1. next \in Nat /\ next' = next + 1 /\ UNCHANGED <<results, toWrite>>
    BY <1>2, CleanerAssumption DEF Handoff, TypeOK, TypeControl
  <2>2. /\ Holds(w)' /\ note'[w] = next
        /\ \A v \in Workers : v # w => note'[v] = note[v] /\ (Holds(v)' <=> Holds(v))
    BY <1>2 DEF Handoff, TypeOK, TypePool, Holds
  <2>3. /\ \A i \in 1..Len(results) : results[i].id \in Nat /\ results[i].id < next
        /\ \A i \in 1..Len(toWrite) : toWrite[i] \in Nat /\ toWrite[i] < next
        /\ \A v \in Workers : note[v] \in Nat
    <3>1. \A i \in 1..Len(results) : results[i].id \in Nat
      BY ResultType, CleanerAssumption DEF Notes
    <3>2. \A i \in 1..Len(toWrite) : toWrite[i] \in Nat
      BY CleanerAssumption DEF TypeOK, TypeResults, Notes
    <3>3. \A v \in Workers : note[v] \in Nat
      BY CleanerAssumption DEF TypeOK, TypePool
    <3> QED
      BY <3>1, <3>2, <3>3 DEF IdInv
  <2> QED
    BY <2>1, <2>2, <2>3 DEF IdInv, InResults, Planned
<1>3. CASE CloseJobs \/ CloseResults
  BY <1>3, IdFrame DEF CloseJobs, CloseResults, Holds
<1>4. ASSUME NEW w \in Workers, Transform(w) PROVE IdInv'
  BY <1>4, IdFrame DEF Transform, Holds, TypeOK, TypePool
<1>5. ASSUME NEW w \in Workers, Send(w) PROVE IdInv'
  <2> DEFINE r == [id |-> note[w], changed |-> verdict[w] = "changed"]
  <2>1. results \in Seq(Result) /\ r \in Result /\ results' = Append(results, r) /\ r.id = note[w]
    BY <1>5 DEF Send, TypeOK, TypeResults, Result
  <2>2. /\ Len(results') = Len(results) + 1 /\ Len(results) \in Nat
        /\ \A i \in 1..Len(results) : results'[i] = results[i]
        /\ results'[Len(results) + 1].id = note[w]
    BY <2>1, AppendFacts, LenProperties
  <2>3. /\ Holds(w) /\ ~Holds(w)' /\ UNCHANGED <<note, next, toWrite>>
        /\ \A v \in Workers : v # w => (Holds(v)' <=> Holds(v))
    BY <1>5 DEF Send, TypeOK, TypePool, Holds
  <2>4. \A n : (InResults(n)' <=> InResults(n) \/ n = note[w]) /\ (Planned(n)' <=> Planned(n))
    <3>1. \A n : Planned(n)' <=> Planned(n)
      BY <2>3 DEF Planned
    <3>2. \A n : InResults(n)' <=> InResults(n) \/ n = note[w]
      BY <2>2 DEF InResults
    <3> QED
      BY <3>1, <3>2
  <2>5. \A v \in Workers : Holds(v)' =>
          note'[v] < next' /\ ~InResults(note[v])' /\ ~Planned(note[v])'
    BY <2>3, <2>4 DEF IdInv
  <2>6. \A i \in 1..Len(results') : results'[i].id < next' /\ ~Planned(results'[i].id)
    BY <2>2, <2>3 DEF IdInv
  <2>7. \A i, j \in 1..Len(results') : results'[i].id = results'[j].id => i = j
    BY <2>2, <2>3 DEF IdInv, InResults
  <2> QED
    BY <2>3, <2>4, <2>5, <2>6, <2>7 DEF IdInv
<1>6. ASSUME NEW w \in Workers, ReportSend(w) \/ ReportCancel(w) \/ Exit(w) PROVE IdInv'
  BY <1>6, IdFrame DEF ReportSend, ReportCancel, Exit, Holds, TypeOK, TypePool
<1>7. CASE Collect
  <2>1. results \in Seq(Result) /\ results # <<>> /\ results' = Tail(results)
    BY <1>7 DEF Collect, TypeOK, TypeResults, Result
  <2>2. /\ Len(results) \in Nat \ {0} /\ Head(results) = results[1] /\ Head(results).id \in Notes
        /\ \A i \in 1..Len(results') : results'[i] = results[i + 1] /\ i + 1 \in 2..Len(results)
    <3>1. Head(results) \in Result => Head(results).id \in Notes
      BY DEF Result
    <3> QED
      BY <2>1, <3>1, TailFacts
  <2>3. UNCHANGED <<note, next>> /\ \A w \in Workers : Holds(w)' <=> Holds(w)
    BY <1>7 DEF Collect, Holds
  <2>4. CASE toWrite' = toWrite
    <3>1. \A n : (InResults(n)' => InResults(n)) /\ (Planned(n)' <=> Planned(n))
      BY <2>2, <2>4 DEF InResults, Planned
    <3>2. \A i, j \in 1..Len(results') : results'[i].id = results'[j].id => i = j
      BY <2>2 DEF IdInv
    <3>3. \A i \in 1..Len(results') : results'[i].id < next' /\ ~Planned(results'[i].id)
      BY <2>2, <2>3 DEF IdInv
    <3> QED
      BY <2>3, <2>4, <3>1, <3>2, <3>3 DEF IdInv
  <2>5. CASE toWrite' = Append(toWrite, results[1].id)
    <3>1. /\ Len(toWrite') = Len(toWrite) + 1 /\ Len(toWrite) \in Nat
          /\ \A i \in 1..Len(toWrite) : toWrite'[i] = toWrite[i]
          /\ toWrite'[Len(toWrite) + 1] = results[1].id
      BY <2>2, <2>5, AppendFacts, LenProperties DEF TypeOK, TypeResults
    <3>2. \A n : Planned(n)' <=> Planned(n) \/ n = results[1].id
      BY <3>1 DEF Planned
    <3>3. \A n : InResults(n)' => InResults(n)
      BY <2>2 DEF InResults
    <3>4. 1 \in 1..Len(results) /\ \A i \in 1..Len(results') : results'[i].id # results[1].id
      BY <2>2 DEF IdInv
    <3>5. InResults(results[1].id) /\ ~Planned(results[1].id) /\ results[1].id < next
      BY <3>4 DEF InResults, IdInv
    <3>6. \A w \in Workers : Holds(w)' =>
            note'[w] < next' /\ ~InResults(note[w])' /\ ~Planned(note[w])'
      BY <2>3, <3>2, <3>3, <3>5 DEF IdInv
    <3>7. \A i \in 1..Len(results') : results'[i].id < next' /\ ~Planned(results[i].id)'
      BY <2>2, <2>3, <3>2, <3>4 DEF IdInv
    <3>8. \A i, j \in 1..Len(results') : results'[i].id = results'[j].id => i = j
      BY <2>2 DEF IdInv
    <3>9. \A i \in 1..Len(toWrite') : toWrite'[i] < next'
      BY <2>3, <3>1, <3>5 DEF IdInv
    <3>10. \A i, j \in 1..Len(toWrite') : toWrite'[i] = toWrite'[j] => i = j
      BY <3>1, <3>5 DEF IdInv, Planned
    <3> QED
      BY <2>3, <3>6, <3>7, <3>8, <3>9, <3>10 DEF IdInv
  <2> QED
    BY <1>7, <2>2, <2>4, <2>5 DEF Collect
<1>8. CASE JudgeFailure \/ JudgeSuccess \/ Backup \/ BackupFails \/ Write \/ Finish \/ ReportFails
  BY <1>8, IdFrame DEF JudgeFailure, JudgeSuccess, Backup, BackupFails, Write, BeginBatch, WriteNote,
     CommitBatch, BatchFails, BatchesDone, Finish, ReportFails, Holds
<1>9. CASE CancelParent \/ Kill \/ Terminated \/ UNCHANGED vars
  BY <1>9, IdFrame DEF CancelParent, Kill, Terminated, vars, Holds
<1> QED
  BY <1>1, <1>2, <1>3, <1>4, <1>5, <1>6, <1>7, <1>8, <1>9
     DEF Next, FeederStep, WorkerStep, MainStep

\* Steps that move no id, no verdict, and do not judge.
LEMMA DirtyFrame ==
  ASSUME DirtyInv,
         UNCHANGED <<dirty, next, results, toWrite, note, verdict>>,
         \A w \in Workers : (wpc[w] = "send")' => wpc[w] = "send",
         \A w \in Workers : Took(w) => Took(w)',
         main' = "start" => main = "start",
         Judged' => Judged,
         feeder' \in {"waiting", "closed"} => feeder \in {"waiting", "closed"},
         CtxRunDone => CtxRunDone',
         parentCancelled => parentCancelled'
  PROVE  DirtyInv'
  BY DEF DirtyInv, InResults, Planned

LEMMA DirtyStep == TypeOK /\ ErrorInv /\ RootInv /\ DirtyInv /\ [Next]_vars => DirtyInv'
<1> SUFFICES ASSUME TypeOK, ErrorInv, RootInv, DirtyInv, [Next]_vars PROVE DirtyInv'
  OBVIOUS
<1>0. dirty' = dirty
  BY InputFixed DEF input
<1> USE DEF pool, channels
<1>1. CASE Answer
  <2>1. CASE StartPipeline
    BY <1>0, <2>1, CleanerAssumption DEF StartPipeline, DirtyInv, Judged, WriteSteps, Succeeded,
       InResults, Planned, TypeOK, TypeInput, Notes, TypePool
  <2>2. CASE StartFails \/ Decline
    BY <1>0, <2>2, DirtyFrame DEF StartFails, Decline, Judged, WriteSteps, Succeeded, Took, CtxRunDone
  <2> QED
    BY <1>1, <2>1, <2>2 DEF Answer
<1>2. ASSUME NEW w \in Workers, Handoff(w) PROVE DirtyInv'
  <2>1. main # "start" /\ ~Judged
    BY <1>2 DEF Handoff, ErrorInv, Judged
  <2>2. /\ next \in Nat /\ next' = next + 1 /\ note'[w] = next /\ Took(w)' /\ wpc'[w] = "read"
        /\ \A v \in Workers : v # w => note'[v] = note[v] /\ wpc'[v] = wpc[v]
        /\ ~Took(w)
        /\ UNCHANGED <<results, toWrite, verdict, main, feeder>>
    BY <1>2, CleanerAssumption DEF Handoff, TypeOK, TypeControl, TypePool, Took
  <2>3. \A n : InResults(n) => InResults(n)'
    BY <2>2 DEF InResults
  <2>4. \A n : Planned(n) => Planned(n)'
    BY <2>2 DEF Planned
  <2>5. \A n \in dirty : n < next' =>
          InResults(n)' \/ Planned(n)' \/ \E v \in Workers : Took(v)' /\ note'[v] = n
    <3> SUFFICES ASSUME NEW n \in dirty, n < next'
                 PROVE InResults(n)' \/ Planned(n)' \/ \E v \in Workers : Took(v)' /\ note'[v] = n
      OBVIOUS
    <3>1. n \in Nat
      BY CleanerAssumption DEF TypeOK, TypeInput, Notes
    <3>2. CASE n = next
      BY <2>2, <3>2
    <3>3. CASE n < next
      BY <2>2, <2>3, <2>4, <3>3 DEF DirtyInv, Took
    <3> QED
      BY <2>2, <3>1, <3>2, <3>3
  <2>6. feeder \notin {"waiting", "closed"}
    BY <1>2 DEF Handoff
  <2> QED
    BY <1>0, <2>1, <2>2, <2>5, <2>6 DEF DirtyInv, Judged
<1>3. CASE CloseJobs \/ CloseResults
  BY <1>0, <1>3, CleanerAssumption DEF CloseJobs, CloseResults, FeederStops, MoreIds, DirtyInv, Judged, InResults, Planned, Took,
     CtxRunDone, TypeOK, TypeControl
<1>4. ASSUME NEW w \in Workers, Transform(w) PROVE DirtyInv'
  <2>1. \A v \in Workers : wpc'[v] = "send" => (verdict'[v] = "changed" <=> note'[v] \in dirty')
    BY <1>0, <1>4 DEF Transform, DirtyInv, TypeOK, TypePool
  <2>2. \A v \in Workers : Took(v)' <=> Took(v)
    BY <1>4 DEF Transform, Took, TypeOK, TypePool
  <2> QED
    BY <1>0, <1>4, <2>1, <2>2 DEF Transform, DirtyInv, Judged, InResults, Planned, CtxRunDone
<1>5. ASSUME NEW w \in Workers, Send(w) PROVE DirtyInv'
  <2> DEFINE r == [id |-> note[w], changed |-> verdict[w] = "changed"]
  <2>1. results \in Seq(Result) /\ r \in Result /\ results' = Append(results, r)
    BY <1>5 DEF Send, TypeOK, TypeResults, Result
  <2>2. r.id = note[w] /\ (r.changed <=> note[w] \in dirty)
    BY <1>5 DEF Send, DirtyInv
  <2>3. /\ Len(results') = Len(results) + 1 /\ Len(results) \in Nat
        /\ \A i \in 1..Len(results) : results'[i] = results[i]
        /\ results'[Len(results) + 1] = r
    BY <2>1, AppendFacts, LenProperties
  <2>4. /\ wpc[w] = "send" /\ UNCHANGED <<note, next, toWrite, verdict, main, feeder>>
        /\ wpc'[w] = "idle"
        /\ \A v \in Workers : v # w => wpc'[v] = wpc[v]
        /\ CtxRunDone' = CtxRunDone
    BY <1>5 DEF Send, TypeOK, TypePool, CtxRunDone
  <2>5. main # "start" /\ ~Judged
    BY <2>4 DEF ErrorInv, Judged
  <2>6. InResults(note[w])' /\ \A n : InResults(n) => InResults(n)'
    BY <2>2, <2>3, <2>4 DEF InResults
  <2>7. \A i \in 1..Len(results') : results'[i].changed <=> results'[i].id \in dirty
    BY <2>2, <2>3 DEF DirtyInv
  <2>8. \A n \in dirty : n < next =>
          InResults(n)' \/ Planned(n)' \/ \E v \in Workers : Took(v)' /\ note'[v] = n
    BY <2>4, <2>6 DEF DirtyInv, Took, Planned
  <2> QED
    BY <1>0, <2>4, <2>5, <2>7, <2>8 DEF DirtyInv, Judged
<1>6. ASSUME NEW w \in Workers, ReportSend(w) \/ ReportCancel(w) PROVE DirtyInv'
  BY <1>0, <1>6, DirtyFrame DEF ReportSend, ReportCancel, Took, Judged, CtxRunDone, TypeOK, TypePool
<1>7. ASSUME NEW w \in Workers, Exit(w) PROVE DirtyInv'
  BY <1>0, <1>7, DirtyFrame DEF Exit, Took, Judged, CtxRunDone, TypeOK, TypePool
<1>8. CASE Collect
  <2>1. results \in Seq(Result) /\ results # <<>> /\ results' = Tail(results)
    BY <1>8 DEF Collect, TypeOK, TypeResults, Result
  <2>2. /\ Len(results) \in Nat \ {0} /\ Head(results) = results[1] /\ Head(results) \in Result
        /\ \A i \in 1..Len(results') : results'[i] = results[i + 1] /\ i + 1 \in 2..Len(results)
        /\ \A j \in 2..Len(results) : j - 1 \in 1..Len(results') /\ results[j] = results'[j - 1]
    BY <2>1, TailFacts
  <2>3. /\ main = "collect" /\ UNCHANGED <<note, next, verdict, wpc, main, feeder>>
        /\ CtxRunDone' = CtxRunDone
        /\ toWrite' = IF results[1].changed THEN Append(toWrite, results[1].id) ELSE toWrite
    BY <1>8, <2>2 DEF Collect, CtxRunDone
  <2>4. results[1].id \in Notes /\ (results[1].changed <=> results[1].id \in dirty)
    BY <2>2, ResultType DEF DirtyInv
  <2>5. /\ \A n : Planned(n) => Planned(n)'
        /\ \A m \in dirty : m = results[1].id => Planned(m)'
        /\ \A i \in 1..Len(toWrite') : toWrite'[i] \in dirty
    <3>1. CASE results[1].changed
      <4>1. /\ Len(toWrite') = Len(toWrite) + 1 /\ Len(toWrite) \in Nat
            /\ \A i \in 1..Len(toWrite) : toWrite'[i] = toWrite[i]
            /\ toWrite'[Len(toWrite) + 1] = results[1].id
        BY <2>3, <2>4, <3>1, AppendFacts, LenProperties DEF TypeOK, TypeResults
      <4>2. \A i \in 1..Len(toWrite') : toWrite'[i] \in dirty
        BY <2>4, <3>1, <4>1 DEF DirtyInv
      <4>3. \A n : Planned(n) => Planned(n)'
        BY <4>1 DEF Planned
      <4>4. Len(toWrite) + 1 \in 1..Len(toWrite') /\ UNCHANGED dirty
        BY <4>1, <1>0
      <4>5. \E i \in 1..Len(toWrite') : toWrite'[i] = results[1].id
        BY <4>1, <4>4
      <4>6. \A m \in dirty : m = results[1].id => Planned(m)'
        BY <4>5 DEF Planned
      <4> QED
        BY <4>2, <4>3, <4>6
    <3>2. CASE ~results[1].changed
      BY <2>3, <2>4, <3>2 DEF DirtyInv, Planned
    <3> QED
      BY <3>1, <3>2
  <2>6. \A n : InResults(n) => n = results[1].id \/ InResults(n)'
    BY <2>2 DEF InResults
  <2>7. \A i \in 1..Len(results') : results'[i].changed <=> results'[i].id \in dirty
    BY <2>2 DEF DirtyInv
  <2>8. \A n \in dirty : n < next =>
          InResults(n)' \/ Planned(n)' \/ \E v \in Workers : Took(v)' /\ note'[v] = n
    BY <2>3, <2>5, <2>6 DEF DirtyInv, Took
  <2>9. ~Judged
    BY <2>3 DEF Judged, WriteSteps, Succeeded
  <2> QED
    BY <1>0, <2>3, <2>5, <2>7, <2>8, <2>9 DEF DirtyInv, Judged
<1>9. CASE JudgeSuccess
  <2>1. main = "collect" /\ results = <<>> /\ feeder = "closed" /\ errCh = "none" /\ ~runCancelled
    BY <1>9 DEF JudgeSuccess, Collected, RootInv
  <2>2. ~\E w \in Workers : Took(w)
    BY <2>1 DEF ErrorInv, WorkersDone, Took
  <2>3. ~\E n : InResults(n)
    BY <2>1 DEF InResults
  <2>4. next > NoteCount \/ parentCancelled
    BY <2>1 DEF DirtyInv, CtxRunDone
  <2>5. ASSUME ~parentCancelled, NEW n \in dirty PROVE Planned(n)
    BY <2>2, <2>3, <2>4, <2>5, CleanerAssumption DEF DirtyInv, TypeOK, TypeInput, TypeControl, Notes
  <2>6. UNCHANGED <<next, results, toWrite, note, verdict, wpc, feeder, parentCancelled, runCancelled>>
    BY <1>9 DEF JudgeSuccess
  <2>7. main' # "start"
    BY <1>9 DEF JudgeSuccess, AfterCollect
  <2> QED
    BY <1>0, <2>1, <2>5, <2>6, <2>7 DEF DirtyInv, InResults, Planned, Took, CtxRunDone, Judged
<1>10. CASE JudgeFailure
  BY <1>0, <1>10, DirtyFrame DEF JudgeFailure, Return, Took, Judged, WriteSteps, Succeeded, CtxRunDone
<1>11. CASE Backup \/ BackupFails \/ Write
  BY <1>0, <1>11, DirtyFrame DEF Backup, BackupFails, Return, Write, BeginBatch, WriteNote, CommitBatch,
     BatchFails, BatchesDone, Took, Judged, WriteSteps, Succeeded, CtxRunDone
<1>12. CASE Finish \/ ReportFails \/ CancelParent \/ Kill
  BY <1>0, <1>12, DirtyFrame DEF Finish, ReportFails, CancelParent, Kill, Return, Took, Judged,
     WriteSteps, Succeeded, Final, Returned, CtxRunDone
<1>13. CASE Terminated \/ UNCHANGED vars
  BY <1>0, <1>13, DirtyFrame DEF Terminated, vars, Took, Judged, CtxRunDone
<1> QED
  BY <1>1, <1>2, <1>3, <1>4, <1>5, <1>6, <1>7, <1>8, <1>9, <1>10, <1>11, <1>12, <1>13
     DEF Next, FeederStep, WorkerStep, MainStep

-----------------------------------------------------------------------------
(* The writer and the database.                                            *)

\* The batch is a new and nonempty part of the plan, and full or the rest of it.
LEMMA BatchFacts ==
  ASSUME TypeOK, IdInv, WriterInv, committed < Len(toWrite)
  PROVE  /\ BatchNotes # {}
         /\ BatchNotes \subseteq {toWrite[i] : i \in 1..Len(toWrite)} \ stored
         /\ Cardinality(BatchNotes) <= BatchSize
         /\ \/ Cardinality(BatchNotes) = BatchSize
            \/ BatchNotes = {toWrite[i] : i \in 1..Len(toWrite)} \ stored
         /\ stored \union BatchNotes = {toWrite[i] : i \in 1..(committed + BatchLen)}
<1>1. /\ committed \in Nat /\ Len(toWrite) \in Nat /\ BatchLen \in Nat
      /\ 1 <= BatchLen /\ BatchLen <= BatchSize /\ committed + BatchLen <= Len(toWrite)
  BY CleanerAssumption DEF TypeOK, TypeWriter, TypeResults, BatchLen
<1>2. toWrite[committed + 1] \in BatchNotes
  BY <1>1 DEF BatchNotes
<1>3. \A i \in (committed + 1)..(committed + BatchLen), j \in 1..committed : toWrite[i] # toWrite[j]
  <2>1. \A i, j \in 1..Len(toWrite) : toWrite[i] = toWrite[j] => i = j
    BY DEF IdInv
  <2> TAKE i \in (committed + 1)..(committed + BatchLen), j \in 1..committed
  <2>2. i \in 1..Len(toWrite) /\ j \in 1..Len(toWrite) /\ i # j
    BY <1>1
  <2> QED
    BY <2>1, <2>2
<1>4. BatchNotes \subseteq {toWrite[i] : i \in 1..Len(toWrite)} \ stored
  BY <1>1, <1>3 DEF BatchNotes, WriterInv
<1>5. stored \union BatchNotes = {toWrite[i] : i \in 1..(committed + BatchLen)}
  BY <1>1 DEF BatchNotes, WriterInv
<1>6. Cardinality(BatchNotes) = BatchLen
  <2> DEFINE I == (committed + 1)..(committed + BatchLen)
             f == [i \in I |-> toWrite[i]]
  <2>1. f \in Surjection(I, BatchNotes)
    BY DEF Surjection, BatchNotes
  <2>2. \A i, j \in I : f[i] = f[j] => i = j
    <3>1. I \subseteq 1..Len(toWrite)
      BY <1>1
    <3> QED
      BY <3>1 DEF IdInv
  <2>3. IsFiniteSet(I) /\ Cardinality(I) = BatchLen
    BY <1>1, FS_Interval
  <2> HIDE DEF I, f
  <2>4. f \in Injection(I, BatchNotes)
    BY <2>1, <2>2 DEF Surjection, Injection, IsInjective
  <2>5. f \in Bijection(I, BatchNotes)
    BY <2>1, <2>4 DEF Bijection
  <2>6. ExistsBijection(I, BatchNotes)
    BY <2>5 DEF ExistsBijection
  <2> QED
    BY <2>3, <2>6, FS_Bijection
<1>7. BatchLen = BatchSize \/ committed + BatchLen = Len(toWrite)
  BY <1>1, CleanerAssumption DEF BatchLen
<1>8. committed + BatchLen = Len(toWrite) =>
        BatchNotes = {toWrite[i] : i \in 1..Len(toWrite)} \ stored
  BY <1>4, <1>5
<1> QED
  BY <1>1, <1>2, <1>4, <1>5, <1>6, <1>7, <1>8

LEMMA WriterStep ==
  TypeOK /\ ErrorInv /\ IdInv /\ WriterInv /\ [Next]_vars => WriterInv'
<1> SUFFICES ASSUME TypeOK, ErrorInv, IdInv, WriterInv, [Next]_vars PROVE WriterInv'
  OBVIOUS
<1>0. dryRun' = dryRun
  BY InputFixed DEF input
<1> USE DEF channels, writer, WriteSteps
<1>1. CASE Answer
  BY <1>0, <1>1 DEF Answer, StartPipeline, StartFails, Decline, WriterInv
<1>2. CASE FeederStep
  BY <1>0, <1>2 DEF FeederStep, Handoff, CloseJobs, CloseResults, WriterInv
<1>3. ASSUME NEW w \in Workers, WorkerStep(w) PROVE WriterInv'
  BY <1>0, <1>3 DEF WorkerStep, Transform, Send, ReportSend, ReportCancel, Exit, WriterInv
<1>4. CASE Collect
  <2>1. Len(toWrite') \in Nat
    BY TypeStep DEF TypeOK, TypeResults
  <2>2. /\ committed = 0 /\ stored = {} /\ ~backedUp /\ ~(written > 0) /\ main = "collect"
        /\ UNCHANGED <<committed, stored, backedUp, written, main>>
    BY <1>4 DEF Collect, WriterInv
  <2>3. {toWrite'[i] : i \in 1..committed'} = {} /\ committed' <= Len(toWrite')
    BY <2>1, <2>2
  <2> QED
    BY <2>2, <2>3 DEF WriterInv
<1>5. CASE JudgeFailure \/ JudgeSuccess
  BY <1>0, <1>5 DEF JudgeFailure, JudgeSuccess, Collected, AfterCollect, Return, WriterInv
<1>6. CASE Backup \/ BackupFails
  BY <1>0, <1>6 DEF Backup, BackupFails, Return, WriterInv
<1>7. CASE BeginBatch \/ WriteNote \/ BatchFails \/ BatchesDone
  BY <1>0, <1>7 DEF BeginBatch, WriteNote, BatchFails, BatchesDone, Return, WriterInv
<1>8. CASE CommitBatch
  <2>1. stored \union BatchNotes = {toWrite[i] : i \in 1..(committed + BatchLen)}
    BY <1>8, BatchFacts DEF CommitBatch, WriterInv
  <2>2. committed + BatchLen <= Len(toWrite)
    BY BatchInPlan
  <2>3. /\ main' = "begin" /\ written' = 0 /\ backedUp' /\ ~dryRun'
        /\ committed' = committed + BatchLen /\ UNCHANGED toWrite
    BY <1>0, <1>8 DEF CommitBatch, WriterInv
  <2>4. stored' = {toWrite'[i] : i \in 1..committed'}
    BY <1>8, <2>1, <2>3 DEF CommitBatch
  <2> QED
    BY <2>2, <2>3, <2>4 DEF WriterInv
<1>9. CASE Finish \/ ReportFails
  BY <1>0, <1>9 DEF Finish, ReportFails, Return, WriterInv
<1>10. CASE CancelParent \/ Kill \/ Terminated \/ UNCHANGED vars
  BY <1>0, <1>10 DEF CancelParent, Kill, Terminated, vars, WriterInv
<1> QED
  BY <1>1, <1>2, <1>3, <1>4, <1>5, <1>6, <1>7, <1>8, <1>9, <1>10 DEF Next, MainStep, Write

Inv == TypeOK /\ ErrorInv /\ RootInv /\ IdInv /\ DirtyInv /\ WriterInv

LEMMA Invariance == Spec => []Inv
<1>1. Init => IdInv /\ DirtyInv /\ WriterInv
  BY CleanerAssumption DEF Init, IdInv, DirtyInv, WriterInv, Judged, WriteSteps, Succeeded, Holds,
     Took, InResults, Planned, Notes
<1>2. Inv /\ [Next]_vars => IdInv' /\ DirtyInv' /\ WriterInv'
  BY IdStep, DirtyStep, WriterStep DEF Inv
<1> QED
  BY <1>1, <1>2, ErrorsInvariant, PTL DEF Spec, Inv

\* The cleaner touches the database only on an apply run, only after a backup,
\* and only for notes the template changes.
THEOREM WritesAreGuarded == Spec => []GuardedWrites
<1>1. Inv => GuardedWrites
  <2> SUFFICES ASSUME Inv, written > 0 \/ stored # {} PROVE ~dryRun /\ backedUp /\ stored \union BatchNotes \subseteq dirty
    BY DEF GuardedWrites
  <2>1. backedUp /\ ~dryRun
    BY DEF Inv, WriterInv, TypeOK, TypeWriter
  <2>2. committed + BatchLen \in Nat /\ committed + BatchLen <= Len(toWrite) /\ committed \in Nat
    BY BatchInPlan DEF Inv, TypeOK, TypeWriter
  <2>3. stored \subseteq dirty
    BY <2>2 DEF Inv, WriterInv, DirtyInv
  <2>4. BatchNotes \subseteq dirty
    BY <2>2 DEF Inv, DirtyInv, BatchNotes
  <2> QED
    BY <2>1, <2>3, <2>4
<1> QED
  BY <1>1, Invariance, PTL

-----------------------------------------------------------------------------
(* Every id handed out is counted once.                                    *)

\* The workers that took an id and have not passed it on.
Busy == {w \in Workers : Took(w)}

CountInv ==
  /\ IsFiniteSet(Busy)
  /\ next - 1 = summary.processed + Len(results) + Cardinality(Busy)
  /\ summary.processed = summary.changed + summary.skipped
  /\ summary.changed = Len(toWrite)

\* Steps that hand on nothing and count nothing.
LEMMA CountFrame ==
  ASSUME CountInv, UNCHANGED <<next, results, toWrite>>,
         \A w \in Workers : Took(w)' <=> Took(w),
         /\ summary'.processed = summary.processed /\ summary'.changed = summary.changed
         /\ summary'.skipped = summary.skipped
  PROVE  CountInv'
<1>1. Busy' = Busy
  BY DEF Busy
<1> QED
  BY <1>1 DEF CountInv

\* What is counted is a number.
LEMMA Numbers ==
  ASSUME TypeOK, CountInv
  PROVE  /\ next \in Nat /\ Len(results) \in Nat /\ Len(toWrite) \in Nat
         /\ summary.processed \in Nat /\ summary.changed \in Nat /\ summary.skipped \in Nat
         /\ Cardinality(Busy) \in Nat
<1>1. summary \in Summaries /\ next \in Nat
  BY CleanerAssumption DEF TypeOK, TypeResults, TypeControl
<1>2. Len(results) \in Nat /\ Len(toWrite) \in Nat
  BY LenProperties DEF TypeOK, TypeResults
<1>3. Cardinality(Busy) \in Nat
  BY FS_CardinalityType DEF CountInv
<1> QED
  BY <1>1, <1>2, <1>3 DEF Summaries

LEMMA CountStep == TypeOK /\ ErrorInv /\ CountInv /\ [Next]_vars => CountInv'
<1> SUFFICES ASSUME TypeOK, ErrorInv, CountInv, [Next]_vars PROVE CountInv'
  OBVIOUS
<1> DEFINE p == summary.processed
           c == summary.changed
           k == summary.skipped
           l == Len(results)
           m == Len(toWrite)
           b == Cardinality(Busy)
<1>0. /\ next \in Nat /\ p \in Nat /\ c \in Nat /\ k \in Nat /\ l \in Nat /\ m \in Nat /\ b \in Nat
      /\ next - 1 = p + l + b /\ p = c + k /\ c = m
  BY Numbers DEF CountInv
<1> HIDE DEF p, c, k, l, m, b
<1> USE DEF pool, channels
<1>1. CASE Answer
  BY <1>1, CountFrame DEF Answer, StartPipeline, StartFails, Decline, ErrorInv, Took
<1>2. ASSUME NEW w \in Workers, Handoff(w) PROVE CountInv'
  <2>1. /\ w \notin Busy /\ Busy' = Busy \union {w} /\ next' = next + 1
        /\ UNCHANGED <<summary, results, toWrite>>
    BY <1>2 DEF Handoff, Busy, Took, TypeOK, TypePool
  <2>2. IsFiniteSet(Busy') /\ Cardinality(Busy') = Cardinality(Busy) + 1
    BY <2>1, FS_AddElement DEF CountInv
  <2>3. (next + 1) - 1 = p + l + (b + 1)
    BY <1>0
  <2> QED
    BY <1>0, <2>1, <2>2, <2>3 DEF CountInv, p, c, k, l, m, b
<1>3. CASE CloseJobs \/ CloseResults
  BY <1>3, CountFrame DEF CloseJobs, CloseResults, Took
<1>4. ASSUME NEW w \in Workers, Transform(w) PROVE CountInv'
  BY <1>4, CountFrame DEF Transform, Took, TypeOK, TypePool
<1>5. ASSUME NEW w \in Workers, Send(w) PROVE CountInv'
  <2> DEFINE r == [id |-> note[w], changed |-> verdict[w] = "changed"]
  <2>1. results \in Seq(Result) /\ r \in Result /\ results' = Append(results, r)
    BY <1>5 DEF Send, TypeOK, TypeResults, Result
  <2>2. Len(results') = Len(results) + 1
    BY <2>1, AppendFacts
  <2>3. /\ w \in Busy /\ Busy' = Busy \ {w} /\ UNCHANGED <<next, summary, toWrite>>
    BY <1>5 DEF Send, Busy, Took, TypeOK, TypePool
  <2>4. IsFiniteSet(Busy') /\ Cardinality(Busy') = Cardinality(Busy) - 1
    BY <2>3, FS_RemoveElement DEF CountInv
  <2>5. next - 1 = p + (l + 1) + (b - 1)
    BY <1>0
  <2> QED
    BY <1>0, <2>2, <2>3, <2>4, <2>5 DEF CountInv, p, c, k, l, m, b
<1>6. ASSUME NEW w \in Workers, ReportSend(w) \/ ReportCancel(w) \/ Exit(w) PROVE CountInv'
  BY <1>6, CountFrame DEF ReportSend, ReportCancel, Exit, Took, TypeOK, TypePool
<1>7. CASE Collect
  <2>1. results \in Seq(Result) /\ results # <<>> /\ results' = Tail(results)
    BY <1>7 DEF Collect, TypeOK, TypeResults, Result
  <2>2. Head(results) \in Result /\ Len(results') = Len(results) - 1
    BY <2>1, TailFacts
  <2>3. PICK changed \in BOOLEAN, id \in Notes :
          /\ summary' = Tally(changed)
          /\ toWrite' = IF changed THEN Append(toWrite, id) ELSE toWrite
    BY <1>7, <2>2 DEF Collect, Result
  <2>4. Len(toWrite') = Len(toWrite) + One(changed)
    BY <2>3, AppendFacts DEF One, TypeOK, TypeResults
  <2>5. /\ summary'.processed = summary.processed + 1
        /\ summary'.changed = summary.changed + One(changed)
        /\ summary'.skipped = summary.skipped + One(~changed)
    BY <2>3 DEF Tally
  <2>6. Busy' = Busy /\ UNCHANGED next
    BY <1>7 DEF Collect, Busy, Took
  <2>7. PICK x \in Nat, y \in Nat : x = One(changed) /\ y = One(~changed) /\ x + y = 1
    BY DEF One
  <2>8. next - 1 = (p + 1) + (l - 1) + b /\ p + 1 = (c + x) + (k + y) /\ c + x = m + x
    <3>1. x \in Nat /\ y \in Nat /\ x + y = 1
      BY <2>7
    <3> QED
      BY <1>0, <3>1
  <2> QED
    BY <1>0, <2>2, <2>4, <2>5, <2>6, <2>7, <2>8 DEF CountInv, p, c, k, l, m, b
<1>8. CASE JudgeFailure
  <2>1. summary \in Summaries /\ summary' = [summary EXCEPT !.errors = @ + 1]
    BY <1>8 DEF JudgeFailure, TypeOK, TypeResults
  <2>2. /\ summary'.processed = summary.processed /\ summary'.changed = summary.changed
        /\ summary'.skipped = summary.skipped
    BY <2>1 DEF Summaries
  <2> QED
    BY <1>8, <2>2, CountFrame DEF JudgeFailure, Took
<1>9. CASE JudgeSuccess \/ Backup \/ BackupFails \/ Write \/ Finish \/ ReportFails
  BY <1>9, CountFrame DEF JudgeSuccess, Backup, BackupFails, Write, BeginBatch, WriteNote,
     CommitBatch, BatchFails, BatchesDone, Finish, ReportFails, Took
<1>10. CASE CancelParent \/ Kill \/ Terminated \/ UNCHANGED vars
  BY <1>10, CountFrame DEF CancelParent, Kill, Terminated, vars, Took
<1> QED
  BY <1>1, <1>2, <1>3, <1>4, <1>5, <1>6, <1>7, <1>8, <1>9, <1>10
     DEF Next, FeederStep, WorkerStep, MainStep

\* RunCleaner loses no note between its channels and collects none twice: every
\* id the feeder handed out is with a worker, in the results channel or counted
\* in the summary, and toWrite names each changed note once.
THEOREM EveryNoteCounted == Spec => []NothingLostOrDoubled
<1>1. Init => CountInv
  <2> SUFFICES ASSUME Init PROVE CountInv
    OBVIOUS
  <2>1. Busy = {}
    BY DEF Init, Busy, Took
  <2>2. /\ next = 1 /\ results = <<>> /\ toWrite = <<>>
        /\ summary.processed = 0 /\ summary.changed = 0 /\ summary.skipped = 0
    BY DEF Init
  <2>3. IsFiniteSet(Busy) /\ Cardinality(Busy) = 0
    BY <2>1, FS_EmptySet
  <2> QED
    BY <2>2, <2>3 DEF CountInv
<1>2. TypeOK /\ IdInv /\ CountInv => NothingLostOrDoubled
  <2> SUFFICES ASSUME TypeOK, IdInv, CountInv PROVE NothingLostOrDoubled
    OBVIOUS
  <2>1. DOMAIN toWrite = 1..Len(toWrite)
    BY LenProperties DEF TypeOK, TypeResults
  <2>2. IsInjective(toWrite)
    BY <2>1 DEF IdInv, IsInjective
  <2>3. Busy = {w \in Workers : wpc[w] \in {"read", "send", "report", "cancel", "dead"}}
    BY DEF Busy, Took
  <2> QED
    BY <2>2, <2>3 DEF CountInv, NothingLostOrDoubled
<1> QED
  BY <1>1, <1>2, CountStep, Invariance, PTL DEF Spec, Inv

-----------------------------------------------------------------------------
(* The refinement.                                                         *)

LEMMA PlanIsRange == TypeOK => Range(toWrite) = {toWrite[i] : i \in 1..Len(toWrite)}
  BY LenProperties DEF TypeOK, TypeResults, Range

\* A step that leaves the database, the plan and the caller's ctx alone.
LEMMA Stutters ==
  ASSUME UNCHANGED <<dirty, parentCancelled, backedUp, stored>>,
         main \notin Final, main' \notin Final,
         backedUp => toWrite' = toWrite
  PROVE  UNCHANGED Contract!cvars
  BY DEF Contract!cvars, Plan, Phase, Succeeded, Final, Returned

\* A step that ends the call.
LEMMA Ends ==
  ASSUME UNCHANGED <<dirty, parentCancelled, backedUp, stored, toWrite>>,
         TypeOK, main \notin Final, main' \in {"failed", "declined", "killed"}
  PROVE  Contract!Fail
  BY DEF Contract!Fail, Contract!Active, Plan, Phase, Succeeded, Final, Returned, TypeOK, TypeWriter

LEMMA ContractStep == Inv /\ Inv' /\ [Next]_vars => [Contract!Next]_Contract!cvars
<1> SUFFICES ASSUME Inv, Inv', [Next]_vars PROVE Contract!Next \/ UNCHANGED Contract!cvars
  OBVIOUS
<1>0. dirty' = dirty /\ TypeOK
  BY InputFixed DEF input, Inv
<1> USE DEF channels, writer
<1>1. CASE Answer
  <2>1. CASE StartPipeline
    BY <1>0, <2>1, Stutters DEF StartPipeline, Final, Returned
  <2>2. CASE StartFails \/ Decline
    BY <1>0, <2>2, Ends DEF StartFails, Decline, Final, Returned, Contract!Next
  <2> QED
    BY <1>1, <2>1, <2>2 DEF Answer
<1>2. CASE FeederStep \/ \E w \in Workers : WorkerStep(w)
  <2>1. UNCHANGED <<parentCancelled, backedUp, stored, toWrite, main>>
    BY <1>2 DEF FeederStep, Handoff, CloseJobs, CloseResults, WorkerStep, Transform, Send,
       ReportSend, ReportCancel, Exit
  <2> QED
    BY <1>0, <2>1 DEF Contract!cvars, Plan, Phase
<1>3. CASE Collect
  BY <1>0, <1>3, Stutters DEF Collect, Inv, WriterInv, Final, Returned
<1>4. CASE JudgeFailure \/ BackupFails \/ ReportFails
  BY <1>0, <1>4, Ends DEF JudgeFailure, Collected, BackupFails, ReportFails, Return, Final, Returned,
     Contract!Next
<1>5. CASE JudgeSuccess \/ BeginBatch \/ WriteNote \/ BatchesDone
  BY <1>0, <1>5, Stutters DEF JudgeSuccess, Collected, AfterCollect, BeginBatch, WriteNote,
     BatchesDone, Final, Returned
<1>6. CASE BatchFails
  BY <1>0, <1>6, Ends DEF BatchFails, Return, Final, Returned, Contract!Next
<1>7. CASE Backup
  <2>1. ~backedUp /\ Phase = "planning" /\ Phase' = "applying" /\ Plan' = Range(toWrite)
    BY <1>7 DEF Backup, Inv, WriterInv, Phase, Plan, Succeeded, Final, Returned
  <2>2. Range(toWrite) = {toWrite[i] : i \in 1..Len(toWrite)}
    BY <1>0, PlanIsRange
  <2>3. Judged
    BY <1>7 DEF Backup, Judged, WriteSteps
  <2>4. Range(toWrite) \subseteq dirty
    BY <2>2 DEF Inv, DirtyInv
  <2>5. parentCancelled \/ \A n \in dirty : n \in Range(toWrite)
    BY <2>2, <2>3 DEF Inv, DirtyInv, Planned
  <2> QED
    BY <1>0, <1>7, <2>1, <2>4, <2>5 DEF Backup, Contract!Adopt, Contract!Next
<1>8. CASE CommitBatch
  <2>1. /\ backedUp /\ Phase = "applying" /\ Phase' = "applying"
        /\ Plan = Range(toWrite) /\ Plan' = Plan
    BY <1>8 DEF CommitBatch, Inv, WriterInv, Phase, Plan, Succeeded, Final, Returned
  <2>2. /\ BatchNotes # {} /\ BatchNotes \in SUBSET (Plan \ stored)
        /\ Cardinality(BatchNotes) <= BatchSize
        /\ Cardinality(BatchNotes) = BatchSize \/ BatchNotes = Plan \ stored
    BY <1>0, <1>8, <2>1, PlanIsRange, BatchFacts DEF CommitBatch, Inv, WriterInv
  <2>3. /\ stored' = stored \union BatchNotes
        /\ UNCHANGED <<dirty, parentCancelled, backedUp, Phase, Plan>>
    BY <1>0, <1>8, <2>1 DEF CommitBatch
  <2>4. Contract!Cardinality(BatchNotes) = Cardinality(BatchNotes)
    BY Zenon DEF Contract!Cardinality, Cardinality
  <2>5. Contract!ApplyBatch
    BY <2>1, <2>2, <2>3, <2>4 DEF Contract!ApplyBatch
  <2> QED
    BY <2>5 DEF Contract!Next
<1>9. CASE Finish
  <2>1. Phase \in {"planning", "applying"} /\ Phase' = "succeeded" /\ Plan' = Plan
    BY <1>0, <1>9 DEF Finish, Return, Phase, Plan, Succeeded, Final, Returned, TypeOK, TypeWriter
  <2>2. Phase = "applying" => backedUp
    BY <1>9 DEF Finish, Phase, Succeeded, Final, Returned
  <2>3. backedUp => stored = Plan
    BY <1>0, <1>9, PlanIsRange DEF Finish, Inv, WriterInv, Plan
  <2> QED
    BY <1>0, <1>9, <2>1, <2>2, <2>3 DEF Finish, Contract!Succeed, Contract!Active, Contract!Next
<1>10. CASE CancelParent
  <2>1. Phase \in {"planning", "applying"} /\ Phase' = Phase /\ Plan' = Plan
    BY <1>0, <1>10 DEF CancelParent, Phase, Plan, Succeeded, Final, Returned, TypeOK, TypeWriter
  <2> QED
    BY <1>0, <1>10, <2>1 DEF CancelParent, Contract!Cancel, Contract!Active, Contract!Next
<1>11. CASE Kill
  BY <1>0, <1>11, Ends DEF Kill, Contract!Next
<1>12. CASE Terminated \/ UNCHANGED vars
  BY <1>12 DEF Terminated, vars, input, Contract!cvars, Plan, Phase
<1> QED
  BY <1>1, <1>2, <1>3, <1>4, <1>5, <1>6, <1>7, <1>8, <1>9, <1>10, <1>11, <1>12
     DEF Next, MainStep, Write

\* RunCleaner's goroutines implement the contract of a cleaner run.
THEOREM CleanerRefinement == Spec => ImplementsContract
<1>1. Init => Contract!Init
  BY DEF Init, Contract!Init, Plan, Phase, Succeeded, Final, Returned
<1>2. Spec => Contract!Init /\ [][Contract!Next]_Contract!cvars
  BY <1>1, Invariance, ContractStep, PTL DEF Spec
<1> QED
  BY <1>2 DEF ImplementsContract, Contract!Spec
=============================================================================
