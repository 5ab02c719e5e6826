----------------------------- MODULE CleanerRun -----------------------------
(***************************************************************************)
(* One call of Services.RunCleaner (internal/application/services.go): a   *)
(* feeder goroutine hands note ids to a pool of workers over an unbuffered *)
(* channel, the workers read and transform the notes and send what they    *)
(* computed over a bounded channel, and the calling goroutine collects the *)
(* results, looks for an error, and then writes the changed notes in       *)
(* batches, one transaction per batch.                                     *)
(*                                                                         *)
(* Notes are the numbers 1..NoteCount, in the order ListNoteIDsByDeck      *)
(* returns them.  Field texts are abstracted to one bit: a note is dirty   *)
(* when the template would change it, and stored when its cleaned text is  *)
(* durably in the database.  A panic in a worker is a fault: the deferred  *)
(* recover reports it as an error and the worker ends.  The recover of the *)
(* feeder has no action, the feeder's loop does nothing that can panic.    *)
(***************************************************************************)
EXTENDS Naturals, Sequences, FiniteSets, Functions

CONSTANTS
  NoteCount,      \* how many notes the deck has
  Workers,        \* the worker goroutines
  ResultsBuffer,  \* capacity of the results channel (workers * 4 in the code)
  BatchSize       \* notes per write transaction (1000 in the code)

ASSUME CleanerAssumption ==
  /\ NoteCount \in Nat
  /\ Workers # {}
  /\ ResultsBuffer \in Nat \ {0}
  /\ BatchSize \in Nat \ {0}

VARIABLES
  dryRun,          \* the dryRun argument
  forceApply,      \* cfg.ForceApply
  reportFile,      \* whether cfg.ReportFile is set
  dirty,           \* the notes whose text the template changes
  parentCancelled, \* the caller's ctx is done
  runCancelled,    \* cancel() of ctxRun was called
  main,            \* where the calling goroutine is, or how the call ended
  failure,         \* the kind of error the call returned
  stage,           \* the stage last given to the progress callback
  summary,         \* domain.DryRunSummary
  feeder,          \* where the feeder goroutine is
  next,            \* the id the feeder hands out next
  wpc,             \* where each worker is
  note,            \* the id each worker holds
  verdict,         \* what each worker computed for it
  results,         \* the results channel
  errCh,           \* the error in errCh, "none" when it is empty
  toWrite,         \* ids of the changed notes, in the order collected
  backedUp,        \* EnsureBackup returned without error
  committed,       \* how many entries of toWrite are in committed batches
  written,         \* how many notes the open transaction has updated
  stored           \* the notes whose cleaned text is durable

input    == <<dryRun, forceApply, reportFile, dirty>>
pool     == <<wpc, note, verdict>>
channels == <<results, errCh>>
writer   == <<backedUp, committed, written, stored>>
vars == <<input, parentCancelled, runCancelled, main, failure, stage, summary,
          feeder, next, pool, channels, toWrite, writer>>

-----------------------------------------------------------------------------

Notes      == 1..NoteCount
Succeeded  == {"finished"}
Returned   == {"finished", "failed", "declined"}
Final      == Returned \union {"killed"}
WriteSteps == {"backup", "begin", "write"}
Outcomes   == {"changed", "unchanged"}
Errors     == {"fault", "canceled"}

\* ctxRun is a child of the caller's ctx.
CtxRunDone == parentCancelled \/ runCancelled

\* The feeder's range over noteIDs has another id.
MoreIdsOffByOne == next <= NoteCount + 1
MoreIds == next <= NoteCount

\* The feeder's loop ends, at the last id or because it sees ctxRun done.
StopsOnlyAtTheEnd == ~MoreIds
FeederStops == ~MoreIds \/ CtxRunDone

\* wg.Wait() returns: every worker has left its loop, by a closed jobs channel
\* or, after reportErr, by an error.
DoneBeforeReport == \A w \in Workers : wpc[w] \in {"exited", "dead", "report", "cancel"}
WorkersDone == \A w \in Workers : wpc[w] \in {"exited", "dead"}

\* What errCh (capacity 1) holds after a non-blocking send of err.
LastError(err)  == err
FirstError(err) == IF errCh = "none" THEN err ELSE errCh

\* The summary after one more result.
One(b) == IF b THEN 1 ELSE 0
CountsOnlyChanged(changed) ==
  [processed |-> summary.processed + One(changed), changed |-> summary.changed + One(changed),
   skipped |-> summary.skipped + One(~changed), errors |-> summary.errors]
Tally(changed) ==
  [processed |-> summary.processed + 1, changed |-> summary.changed + One(changed),
   skipped |-> summary.skipped + One(~changed), errors |-> summary.errors]

\* for res := range results ends: the channel is closed and drained.
Collected == main = "collect" /\ results = <<>> /\ feeder = "closed"

\* Where the call goes when it has collected every result and no error.
WritesWithoutBackup == IF dryRun THEN "report" ELSE "begin"
AfterCollect == IF dryRun THEN "report" ELSE "backup"

\* The batch the writer works on: toWrite[committed + 1 .. committed + BatchLen].
BatchLen ==
  IF committed + BatchSize <= Len(toWrite) THEN BatchSize ELSE Len(toWrite) - committed

BatchNotes == {toWrite[i] : i \in (committed + 1)..(committed + BatchLen)}

Init ==
  /\ dryRun \in BOOLEAN /\ forceApply \in BOOLEAN /\ reportFile \in BOOLEAN
  /\ dirty \in SUBSET Notes
  /\ parentCancelled = FALSE /\ runCancelled = FALSE
  /\ main = "start" /\ failure = "none" /\ stage = "none"
  /\ summary = [processed |-> 0, changed |-> 0, skipped |-> 0, errors |-> 0]
  /\ feeder = "idle" /\ next = 1
  /\ wpc = [w \in Workers |-> "unborn"]
  /\ note = [w \in Workers |-> 0]
  /\ verdict = [w \in Workers |-> "none"]
  /\ results = <<>> /\ errCh = "none" /\ toWrite = <<>>
  /\ backedUp = FALSE /\ committed = 0 /\ written = 0 /\ stored = {}

-----------------------------------------------------------------------------
(* The calling goroutine, up to the start of the pipeline.                 *)

\* The call returns; the deferred cancel() ends ctxRun.
Return(outcome, err) ==
  /\ main' = outcome
  /\ failure' = err
  /\ runCancelled' = TRUE

\* Template and note ids are there and the user, if asked, agrees: the workers
\* and the feeder are spawned.
StartPipeline ==
  /\ main = "start"
  /\ main' = "collect"
  /\ stage' = "started"
  /\ wpc' = [w \in Workers |-> "idle"]
  /\ feeder' = "feeding"
  /\ UNCHANGED <<input, parentCancelled, runCancelled, failure, summary, next,
                 note, verdict, channels, toWrite, writer>>

\* The template is unknown, or the ids cannot be listed (nothing is reported),
\* or the confirmation prompt itself fails (after "started").
StartFails ==
  /\ main = "start"
  /\ \/ UNCHANGED stage
     \/ ~dryRun /\ ~forceApply /\ stage' = "started"
  /\ main' = "failed"
  /\ failure' = IF parentCancelled THEN "canceled" ELSE "fault"
  /\ UNCHANGED <<input, parentCancelled, runCancelled, summary, feeder, next,
                 pool, channels, toWrite, writer>>

\* The user answers no.
Decline ==
  /\ main = "start"
  /\ ~dryRun /\ ~forceApply
  /\ main' = "declined"
  /\ stage' = "started"
  /\ UNCHANGED <<input, parentCancelled, runCancelled, failure, summary, feeder,
                 next, pool, channels, toWrite, writer>>

-----------------------------------------------------------------------------
(* The feeder.                                                             *)

\* jobs <- id meets a worker at the head of its loop.  When ctxRun is done as
\* well, select may still choose this branch.
Handoff(w) ==
  /\ feeder = "feeding"
  /\ MoreIds
  /\ wpc[w] = "idle"
  /\ wpc' = [wpc EXCEPT ![w] = "read"]
  /\ note' = [note EXCEPT ![w] = next]
  /\ next' = next + 1
  /\ UNCHANGED <<input, parentCancelled, runCancelled, main, failure, stage, summary,
                 feeder, verdict, channels, toWrite, writer>>

\* The deferred function closes jobs.
CloseJobs ==
  /\ feeder = "feeding"
  /\ FeederStops
  /\ feeder' = "waiting"
  /\ UNCHANGED <<input, parentCancelled, runCancelled, main, failure, stage, summary,
                 next, pool, channels, toWrite, writer>>

CloseResults ==
  /\ feeder = "waiting"
  /\ WorkersDone
  /\ feeder' = "closed"
  /\ UNCHANGED <<input, parentCancelled, runCancelled, main, failure, stage, summary,
                 next, pool, channels, toWrite, writer>>

-----------------------------------------------------------------------------
(* The workers.                                                            *)

\* GetNote(ctxRun, id) and template.Apply on each field.  The query fails when
\* ctxRun is done; otherwise the note is transformed, or something is wrong
\* with it.
Transform(w) ==
  /\ wpc[w] = "read"
  /\ \/ /\ ~CtxRunDone
        /\ verdict' = [verdict EXCEPT ![w] =
                         IF note[w] \in dirty THEN "changed" ELSE "unchanged"]
        /\ wpc' = [wpc EXCEPT ![w] = "send"]
     \/ /\ verdict' = [verdict EXCEPT ![w] = IF CtxRunDone THEN "canceled" ELSE "fault"]
        /\ wpc' = [wpc EXCEPT ![w] = "report"]
  /\ UNCHANGED <<input, parentCancelled, runCancelled, main, failure, stage, summary,
                 feeder, next, note, channels, toWrite, writer>>

\* results <- processedNote{...}: blocks while the buffer is full.
Send(w) ==
  /\ wpc[w] = "send"
  /\ Len(results) < ResultsBuffer
  /\ results' = Append(results, [id |-> note[w], changed |-> verdict[w] = "changed"])
  /\ wpc' = [wpc EXCEPT ![w] = "idle"]
  /\ UNCHANGED <<input, parentCancelled, runCancelled, main, failure, stage, summary,
                 feeder, next, note, verdict, errCh, toWrite, writer>>

\* reportErr, first half: the error goes to errCh unless one is there already.
ReportSend(w) ==
  /\ wpc[w] = "report"
  /\ errCh' = FirstError(verdict[w])
  /\ wpc' = [wpc EXCEPT ![w] = "cancel"]
  /\ UNCHANGED <<input, parentCancelled, runCancelled, main, failure, stage, summary,
                 feeder, next, note, verdict, results, toWrite, writer>>

\* reportErr, second half: cancel() stops the others; the worker returns and
\* its deferred functions run, wg.Done last.
ReportCancel(w) ==
  /\ wpc[w] = "cancel"
  /\ runCancelled' = TRUE
  /\ wpc' = [wpc EXCEPT ![w] = "dead"]
  /\ UNCHANGED <<input, parentCancelled, main, failure, stage, summary, feeder,
                 next, note, verdict, channels, toWrite, writer>>

\* for id := range jobs ends when jobs is closed.
Exit(w) ==
  /\ wpc[w] = "idle"
  /\ feeder \in {"waiting", "closed"}
  /\ wpc' = [wpc EXCEPT ![w] = "exited"]
  /\ UNCHANGED <<input, parentCancelled, runCancelled, main, failure, stage, summary,
                 feeder, next, note, verdict, channels, toWrite, writer>>

-----------------------------------------------------------------------------
(* The calling goroutine: collector, error check, writer, report.          *)

Collect ==
  /\ main = "collect"
  /\ results # <<>>
  /\ LET res == Head(results) IN
       /\ summary' = Tally(res.changed)
       /\ toWrite' = IF res.changed THEN Append(toWrite, res.id) ELSE toWrite
  /\ results' = Tail(results)
  /\ stage' = "transforming"
  /\ UNCHANGED <<input, parentCancelled, runCancelled, main, failure, feeder, next,
                 pool, errCh, writer>>

\* An error is in errCh: the call fails with it and nothing is written.
JudgeFailure ==
  /\ Collected
  /\ errCh # "none"
  /\ Return("failed", errCh)
  /\ errCh' = "none"
  /\ summary' = [summary EXCEPT !.errors = @ + 1]
  /\ stage' = "failed"
  /\ UNCHANGED <<input, parentCancelled, feeder, next, pool, results, toWrite, writer>>

\* errCh is empty.  ctxRun is not looked at here.
JudgeSuccess ==
  /\ Collected
  /\ errCh = "none"
  /\ main' = AfterCollect
  /\ stage' = IF ~dryRun THEN "writing"
              ELSE IF summary.processed = NoteCount THEN "transformed" ELSE "transforming"
  /\ UNCHANGED <<input, parentCancelled, runCancelled, failure, summary, feeder,
                 next, pool, channels, toWrite, writer>>

\* EnsureBackup, also when there is nothing to write.  It ignores its ctx.
Backup ==
  /\ main = "backup"
  /\ main' = "begin"
  /\ backedUp' = TRUE
  /\ UNCHANGED <<input, parentCancelled, runCancelled, failure, stage, summary,
                 feeder, next, pool, channels, toWrite, committed, written, stored>>

BackupFails ==
  /\ main = "backup"
  /\ Return("failed", "fault")
  /\ stage' = "failed"
  /\ UNCHANGED <<input, parentCancelled, summary, feeder, next, pool, channels,
                 toWrite, writer>>

BeginBatch ==
  /\ main = "begin"
  /\ committed < Len(toWrite)
  /\ ~parentCancelled
  /\ main' = "write"
  /\ written' = 0
  /\ UNCHANGED <<input, parentCancelled, runCancelled, failure, stage, summary,
                 feeder, next, pool, channels, toWrite, backedUp, committed, stored>>

\* A bug the project rules out: a note is written outside the transaction.
WriteOutsideTx ==
  /\ main = "write"
  /\ written < BatchLen
  /\ ~parentCancelled
  /\ written' = written + 1
  /\ stored' = stored \union {toWrite[committed + written + 1]}
  /\ UNCHANGED <<input, parentCancelled, runCancelled, main, failure, stage, summary,
                 feeder, next, pool, channels, toWrite, backedUp, committed>>
\* updateNote(txCtx, ...) for the next note of the batch.
WriteNote ==
  /\ main = "write"
  /\ written < BatchLen
  /\ ~parentCancelled
  /\ written' = written + 1
  /\ UNCHANGED <<input, parentCancelled, runCancelled, main, failure, stage, summary,
                 feeder, next, pool, channels, toWrite, backedUp, committed, stored>>

CommitBatch ==
  /\ main = "write"
  /\ written = BatchLen
  /\ ~parentCancelled
  /\ stored' = stored \union BatchNotes
  /\ committed' = committed + BatchLen
  /\ written' = 0
  /\ main' = "begin"
  /\ UNCHANGED <<input, parentCancelled, runCancelled, failure, stage, summary,
                 feeder, next, pool, channels, toWrite, backedUp>>

\* BeginTx, an update or Commit fails (always, once the caller's ctx is done):
\* WithTx rolls the batch back, earlier batches stay.
BatchFails ==
  /\ main \in {"begin", "write"}
  /\ committed < Len(toWrite)
  /\ Return("failed", IF parentCancelled THEN "canceled" ELSE "fault")
  /\ written' = 0
  /\ stage' = "failed"
  /\ UNCHANGED <<input, parentCancelled, summary, feeder, next, pool, channels,
                 toWrite, backedUp, committed, stored>>

BatchesDone ==
  /\ main = "begin"
  /\ committed = Len(toWrite)
  /\ main' = "report"
  /\ UNCHANGED <<input, parentCancelled, runCancelled, failure, stage, summary,
                 feeder, next, pool, channels, toWrite, writer>>

\* The report file is written, or none is configured.
Finish ==
  /\ main = "report"
  /\ Return("finished", "none")
  /\ stage' = "finished"
  /\ UNCHANGED <<input, parentCancelled, summary, feeder, next, pool, channels,
                 toWrite, writer>>

\* WriteReport fails: the call fails although its updates are committed.
ReportFails ==
  /\ main = "report"
  /\ reportFile
  /\ Return("failed", "fault")
  /\ stage' = "failed"
  /\ UNCHANGED <<input, parentCancelled, summary, feeder, next, pool, channels,
                 toWrite, writer>>

-----------------------------------------------------------------------------
(* The environment.                                                        *)

\* Ctrl-C, server shutdown or the end of the desktop application.
CancelParent ==
  /\ main \notin Final
  /\ ~parentCancelled
  /\ parentCancelled' = TRUE
  /\ UNCHANGED <<input, runCancelled, main, failure, stage, summary, feeder, next,
                 pool, channels, toWrite, writer>>

\* The process dies.  SQLite discards the open transaction.
Kill ==
  /\ main \notin Final
  /\ main' = "killed"
  /\ written' = 0
  /\ UNCHANGED <<input, parentCancelled, runCancelled, failure, stage, summary,
                 feeder, next, pool, channels, toWrite, backedUp, committed, stored>>

\* The call is over; not a deadlock.
Terminated ==
  /\ main \in Final
  /\ UNCHANGED vars

-----------------------------------------------------------------------------

WorkerStep(w) ==
  /\ main # "killed"
  /\ Transform(w) \/ Send(w) \/ ReportSend(w) \/ ReportCancel(w) \/ Exit(w)

FeederStep ==
  /\ main # "killed"
  /\ (\E w \in Workers : Handoff(w)) \/ CloseJobs \/ CloseResults

Write  == BeginBatch \/ WriteNote \/ CommitBatch \/ BatchFails \/ BatchesDone
Answer == StartPipeline \/ StartFails \/ Decline
MainStep ==
  \/ Collect \/ JudgeFailure \/ JudgeSuccess
  \/ Backup \/ BackupFails \/ Write \/ Finish \/ ReportFails

Next ==
  \/ Answer
  \/ FeederStep
  \/ \E w \in Workers : WorkerStep(w)
  \/ MainStep
  \/ CancelParent
  \/ Kill
  \/ Terminated

Spec == Init /\ [][Next]_vars

\* The Go scheduler runs every goroutine that can run, and queries return.  The
\* user's answer is not assumed.
Fairness ==
  /\ WF_vars(FeederStep)
  /\ WF_vars(MainStep)
  /\ \A w \in Workers : WF_vars(WorkerStep(w))

FairSpec == Spec /\ Fairness
-----------------------------------------------------------------------------
(* Properties.                                                             *)

Summaries == [processed : Nat, changed : Nat, skipped : Nat, errors : Nat]

TypeInput ==
  /\ dryRun \in BOOLEAN /\ forceApply \in BOOLEAN /\ reportFile \in BOOLEAN
  /\ dirty \in SUBSET Notes
TypeControl ==
  /\ parentCancelled \in BOOLEAN /\ runCancelled \in BOOLEAN
  /\ main \in {"start", "collect", "report"} \union WriteSteps \union Final
  /\ failure \in {"none"} \union Errors
  /\ stage \in {"none", "started", "transforming", "transformed", "writing",
                "finished", "failed"}
  /\ feeder \in {"idle", "feeding", "waiting", "closed"}
  /\ next \in 1..(NoteCount + 1)
TypePool ==
  /\ wpc \in [Workers -> {"unborn", "idle", "read", "send", "report", "cancel",
                          "exited", "dead"}]
  /\ note \in [Workers -> 0..NoteCount]
  /\ verdict \in [Workers -> {"none"} \union Outcomes \union Errors]
TypeResults ==
  /\ results \in Seq([id : Notes, changed : BOOLEAN])
  /\ errCh \in {"none"} \union Errors
  /\ summary \in Summaries
  /\ toWrite \in Seq(Notes)
TypeWriter ==
  /\ backedUp \in BOOLEAN
  /\ committed \in Nat /\ written \in Nat
  /\ stored \in SUBSET Notes

\* Every variable has its type (RunCleaner's arguments and locals), and a worker
\* that holds a note or an error holds a proper one.
TypeOK ==
  /\ TypeInput /\ TypeControl /\ TypePool /\ TypeResults /\ TypeWriter
  /\ \A w \in Workers :
       /\ wpc[w] \in {"read", "send"} => note[w] \in Notes
       /\ wpc[w] \in {"report", "cancel"} => verdict[w] \in Errors

\* Fail-fast: once any worker has hit an error, the call never gets to its
\* writer or its report and never succeeds, however the error, the closing of
\* the channels and the collector interleave.
ErrorNeverLost ==
  main \in WriteSteps \union {"report"} \union Succeeded
    => \A w \in Workers : wpc[w] = "exited"

\* The error the call returns is the root cause: "context canceled" comes back
\* only when the caller's ctx was cancelled, never as an echo of the pipeline's
\* own cancel() in another worker.
RootCause == failure = "canceled" => parentCancelled

\* The database is touched (a transaction has updated a note, or one is stored)
\* only on an apply run, after a successful backup, and only for notes the
\* template changes.
GuardedWrites ==
  written > 0 \/ stored # {} =>
    /\ ~dryRun
    /\ backedUp
    /\ stored \union BatchNotes \subseteq dirty

\* Every id the feeder handed out is in exactly one place: with a worker, lost
\* with a worker that failed, in the results channel, or in the summary.
NothingLostOrDoubled ==
  /\ next - 1 = summary.processed + Len(results)
                + Cardinality({w \in Workers : wpc[w] \in {"read", "send", "report",
                                                           "cancel", "dead"}})
  /\ summary.processed = summary.changed + summary.skipped
  /\ summary.changed = Len(toWrite)
  /\ IsInjective(toWrite)

\* The pipeline as CleanerContract sees it.  Whether a plan was adopted is what
\* backedUp tells, also after a failure.
Plan  == IF backedUp THEN Range(toWrite) ELSE {}
Phase ==
  CASE main \in Succeeded -> "succeeded"
    [] main \in Final \ Succeeded -> "failed"
    [] main \notin Final /\ backedUp -> "applying"
    [] main \notin Final /\ ~backedUp -> "planning"
Contract == INSTANCE CleanerContract WITH
  cancelled <- parentCancelled, plan <- Plan, phase <- Phase

\* The goroutines together do what the contract says: the run adopts one plan,
\* all dirty notes unless it was cancelled, only after a backup, stores it in
\* whole batches, never takes a note back, and succeeds only with all of it.
ImplementsContract == Contract!Spec

\* A started pipeline ends, with full buffers, dead workers and cancellations:
\* no goroutine waits for another for ever.
Termination == main = "collect" ~> main \in Final

(* What the project's documents say and the code does not do.              *)

\* A run that reports "finished" has processed every note.
FinishedProcessedAll == stage = "finished" => summary.processed = NoteCount
=============================================================================
