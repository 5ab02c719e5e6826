# Ankiced, specified

TLA+ specifications of [ankiced](../src/README.md), a Go program that lists the
decks of an Anki collection, edits notes, and cleans the HTML of whole decks. It
runs as a command line menu, as a local web server with a single page, and as a
desktop shell around that page; all three use the same services on one SQLite
file. Paths below are relative to `src/`.

The modules are translated from the code. A name of the code is kept where TLA+
allows it, and every definition that models code names its lines in
`PROJECT.json` under `map`.

## 1. Inventory

| Component | State it keeps | Operations | Hard part |
|---|---|---|---|
| **Cleaner pipeline** `internal/application/services.go` RunCleaner | channels `jobs`, `results`, `errCh`, a context of its own, the summary, the list of notes to write | feeder, workers, collector, batched writer, report | errors, closing of channels, cancellation and panics race; a run must not report success for part of the work |
| **Backup store** `internal/infrastructure/fs/backup_store.go` | per path: a mutex and `done`; the `.bak` files | CreateBackup, CleanupBackups (called by EnsureBackup and at exit) | first writers race; copy, sync and removal fail; crashes; file names by the second; the write-ahead log |
| **Database session** `internal/infrastructure/sqlite/db.go`, `internal/interfaces/httpapi/server.go` | the open handle, `reconnectMu`, the configured path, the saved file | Conn, Reconnect, WithTx, handleConfigSave; Run, Shutdown, Close | the handle, the path and the file are changed in separate steps while writers run; each handle has one connection; the process ends under what is still running |
| **Operation history** `internal/interfaces/httpapi/operations.go` | at most 256 operations | create, progress, succeed, fail, evict | eviction while operations run and pages poll |
| **Log hub and console** `internal/interfaces/httpapi/logs.go`, `web/index.html` | counter, ring of 1000 events, a channel of 64 per subscriber; in the page: last id, timer | log, Subscribe, Publish, Since; stream, listing; reconnect and polling | an id is taken before the lock; replay against live events; overflow |
| **Note editing, deck rename** `services.go`, `domain/policies.go`, `sqlite/repositories.go`, `web/index.html` | the rows of decks and notes; in the page: the note being edited and its boxes | GetNote, UpdateNote, RenameDeck, the editor | check and act are separate statements; fields are joined by a separator that a text may contain; answers fill an editor that has moved on |
| **Listing, search, paging** `sqlite/repositories.go`, `httpapi/helpers.go`, `web/index.html` | in the page: of each listing its offset, mode, rows and buttons | ListDecks, SearchDecks, ListNotes, CountNotes; search, open, find, Prev, Next, reloads | answers come in any order; several listings share one offset; page and server have limits of their own |
| **Configuration loader** `internal/infrastructure/config/loader.go` | the settings; the saved file | Load, configSnapshot | precedence of file, environment, flags, each with its own idea of "not given" |
| Sanitizer, diff `internal/infrastructure/{sanitize,render}` | none | pure text functions | decoding an entity can make a separator |
| **Server lifecycle** `server.go` Run, `cmd/*` | listener, contexts | start, shutdown, exit | a port is tried and taken in two steps; cleaner goroutines are not waited for |
| **Command line** `internal/interfaces/cli` | buffered input | a menu, its operations, the question before a cleaner run | an operation that stops early leaves its lines to the menu; two buffers read one input; the input ends anywhere |
| Wiring, error texts, browser launcher | none | | |

How they interact. An HTTP request or a menu choice calls `Services`. Whatever
writes first calls EnsureBackup, which reads the configured path and asks the
backup store for the session's one copy; then it writes through
`DB.Conn()` or, in the cleaner, inside `DB.WithTx`. Over HTTP a cleaner run is a
goroutine that reports its progress to the operation history by a callback; the
page polls that history. Every handler logs to the hub, and the page reads the
log by a stream and, when that fails, by polling. Saving the configuration
switches the database under all of them.

What makes each correct: the pipeline processes every note once and succeeds
only with all of its work stored, in whole batches, after a backup; the backup
store has, whenever a session has written, a whole copy from before it; the
session writes only to what it has backed up; the history and the console tell
the page the truth and lose nothing they still have; the collection keeps its
names distinct and each note its own fields, as many as its model has; a listing
shows what was asked for, all of it, page by page; the program works with the
settings of the highest source and with the same ones after a restart; the menu
takes every line for what it was written for.

## 2. Modules

| Module | Models | Proofs |
|---|---|---|
| `CleanerContract` | abstract: what a cleaner run promises | |
| `CleanerRun` | one call of RunCleaner with its goroutines; implements `CleanerContract` | `CleanerRunProofs` |
| `BackupContract` | abstract: what the backups of a database promise | |
| `BackupStore` | CreateBackup, CleanupBackups, sessions, crashes; implements `BackupContract` | `BackupStoreProofs` |
| `DatabaseSession` | saves, edits and cleaner runs on switching databases, up to the end of the process | `DatabaseSessionProofs` |
| `OperationStore` | history, cleaner goroutines, polling pages | `OperationProofs` |
| `LogHub` | loggers, hub, stream and listing, the page's console | `PageProofs` |
| `Collection` | decks and notes with their contents under renames, edits and cleaner runs; the page's editor | `CollectionProofs` |
| `Browsing` | the page's listings of decks and notes, their buttons, requests and answers, and the handlers | `PageProofs` |
| `Startup` | where the settings come from, the address, the browser, the saved configuration and the next start | `StartupProofs` |
| `CommandLine` | the menu, its reader and the prompter's | `CommandLineProofs` |

`MCCleanerRun`, `MCBackupStore`, `MCDatabaseSession`, `MCOperationStore`,
`MCLogHub`, `MCCollection`, `MCBrowsing`, `MCStartup` and `MCCommandLine` are what TLC runs. A definition that stands
next to another one, has its parameters and is not used (`LastError` beside
`FirstError`, for instance) is a fault put in on purpose: `mutants` in
`PROJECT.json` says which property finds it.

**CleanerRun.** `feeder`, `wpc` and `main` are the program counters of the
feeder, the workers and the calling goroutine. `jobs` is unbuffered: handing an id
over is one step of feeder and worker (`Handoff`). `results` is a sequence bounded by
`ResultsBuffer`, `errCh` holds one error. `Collect` is one turn of the collector
loop; `JudgeFailure` and `JudgeSuccess` are the select on `errCh` with what
follows it; `BeginBatch`, `WriteNote`, `CommitBatch` and `BatchFails` are one
`WithTx`. `CancelParent` is the caller's context, `Kill` the end of the process.
A text is reduced to whether the template changes it (`dirty`) and whether the
change is durable (`stored`). Notes are numbered in the order in which the query
returns them, which loses nothing: the pipeline never compares ids.

**BackupStore.** `pc` walks a writer through EnsureBackup: lock, copy, close
(the deferred Sync and Close), listing, removal, write. `done` is the flag of
`pathLock` and is lost with the process. A file has the number of the last
transaction in it (`data`) and whether it is complete (`whole`); its name is the
second in which the request read the clock. `checkpointed` lags behind `version`
in WAL mode. `Exit` is main's deferred pruning and closing, which checkpoints unless a
transaction still has the connection; `Crash` is anything else.

**DatabaseSession.** Each saver walks through handleConfigSave and Reconnect:
comparison, `reconnectMu`, open, swap, close, setDBPath, snapshot, file. A saver is one request; a client
that saves again is another saver. `crossed` records that a path was configured by a saver that was no longer
the last to connect, `alone` who had the server to itself, as `SaveKeepsTogether` needs them. Editors
and cleaners take the handle (`TakeConn`) and use its connection in separate steps, as
`Conn()` and the query are. A text records the database it was read from, who
wrote it and whether it was cleaned, which is all that the properties compare.
`main` is the end of the process: told to stop (`Stop` for the web server, `Quit` for the
desktop), it cancels `ctxDone`, which the cleaner runs have, waits in `draining` for the
handlers and the log stream or for its `Deadline`, and closes the current handle; what still runs goes on
until the process is gone, which a behaviour may show at any point after `CloseDB`.

**OperationStore.** `op` is the map with its order (ids count up); `Store` is a write followed by
evictExcess. `run` is where the goroutine of handleCleanerRun is; `view` is what the
page knows. A correlation id is never used twice, so create's branch for a known id is unreachable
and left out.

**LogHub.** `entry` is an event that has its id and is not published. The
whole `log` is kept and `Buffer` is the part of it the ring still has. A
connection is one attempt of the page's EventSource: `written` is what its
handler has written, `got` how much of that has arrived. `delivers` says whether the stream brings
anything at all, which in the desktop shell it may not. The console is its lines (`logBody`) and its switches
(`levelFilters`): an event under a level that is off raises `lastLogID` and is dropped for good (`muted`
remembers it, the page does not), and the oldest lines are cut when there are too many (`cut`). Polls overlap:
the timer does not wait for an answer.

**Collection.** One connection serves all requests, so a statement is a step, and `req`
says between which statements a request is. A text is reduced to the note it was typed for
(`of`), the request that wrote it (`by`) and what the cleaner makes of it (`form`);
`flds` is a row's field texts after splitting, so a value with a separator in it is two parts.
`Model` is the look-up in three tables. A cleaner run reads note by note
(`CleanReads`) and writes its plan in one step, because batches are `CleanerRun`'s matter.
`editing` and `form` are the page's `editingNoteID` and its boxes. `raced` and
`saved` only record what the properties speak of.

**Browsing.** The page's variables have their names; `decksPane` and `notesPane` are what is on the
screen, with the offset and the buttons that were set when it was drawn. `pending` has the requests under
way in the order they were made; any of them may be answered next, or fail. The first is the one for the
configuration: the decks are listed only when it has been answered (`Configured`), after whatever was clicked before.
The program adds and removes no rows, so a deck's listing is fixed, while a search may find anything. `asked` is
what the user wants from the clicks alone, `latest` whether the last request of a listing was answered last, `strayed`
that one of the conditions named in `ShownAsAsked` has made the page ask for something else, and `walk` the pages seen in
a row. Rows are ids, and `OrderById` is the
`ORDER BY` of their queries, stated by what it is rather than by a sort, which the provers could not look into; renaming is
its effect on the page here, and `Collection`'s on the database.

**Startup.** `Load` is a function: the defaults, overridden by what the file, the environment and the flags
say, each with its own test of what counts (`FileSays`, `EnvSays`, `FlagsSay`). `Effect` is what the program makes
of a setting where it uses it. Around it two processes go through main of the web program: probing the
address, opening the database, listening, opening the browser, serving, saving the
configuration. The command line and the desktop use the same loader without an address.

**CommandLine.** The input is a script of tasks; every line has its text and the role its
author meant it to have, and `took` records the role the program gave it. `buffer` is
the menu's `bufio.Reader`; `Confirm` makes a scanner of its own, as `Prompter.Confirm` does, and what
that has read beyond the answer is gone. `astray` records that an operation has stopped before its last line.
A last line without a line feed, which the menu does not carry out, is not among the scripts.

## 3. Runs

All bounds are constants of the `.cfg` files. The nine passing runs check one
module each.

| Run | Shows | Bounds |
|---|---|---|
| `cleaner` | errors, counts, batches and the contract hold under every interleaving, failure, cancellation and crash; a started pipeline ends | 3 notes, 2 workers, buffer 1, batches of 2: the buffer fills, one worker can fail while the other holds a note, two batches are needed |
| `backup` | whenever a session has written, a whole copy from before it exists and no pruning takes it; with a write-ahead log the copy is not older than the last proper exit; all requests together implement the contract | both journal modes, 2 sessions, 2 writers and main, 3 seconds, 2 transactions, 1 kept |
| `session` | no handle leaks and the live one is never closed; path and handle stay together unless two saves cross, and an undisturbed save writes to the file what is configured; before the first switch what is written is backed up; after a shutdown within its deadline nothing is open or at work; no batch is made durable after the stop but one in its COMMIT; everything ends | any 3 of 2 racing saves, 1 edit and 1 cleaner run (`MaxRequests`), 3 handles (two switches), the end at any moment |
| `operations` | the history is true, eviction fair, pages are told the truth and stop polling | 4 operations in a store of 2, 1 page |
| `logs` | replay and live events leave no gap; a console that polls deals with every event published in order and does so in the end | 2 loggers, 3 events, ring of 2, channel of 2, console of 2 lines, 1 filter over 2 of the events, 2 connections (1 where nothing is delivered), 2 polls at a time where nothing is delivered and none beside a stream that delivers |
| `collection` | names stay distinct unless renames overlap; no field of a note gets into another; fields match the model unless separators are typed; saved texts stay unless a run is under way | 2 decks, 3 names in two cases, 2 notes of 1 and 2 fields (one of them in two decks, or twice in one), 3 requests, 2 at a time |
| `browsing` | each listing shows what was asked for last, under its label, but for the ways named below; paging misses and repeats nothing up to the server's limit | 2 decks, 3 notes (one with two cards in a deck), pages of 1 and 2 rows with a limit of 2, 4 clicks, 3 requests under way (the configuration's among them) |
| `startup` | a setting comes from the highest source that gives it; a saved configuration keeps what was in effect; the browser is not sent to another's server but for the gap between probe and listening | every way to give one setting (or both paths) in three sources, 2 processes, another program, 2 ephemeral ports |
| `command_line` | lines are taken in their roles and every task is carried out, in order; Run returns | every script of up to 2 tasks, a note of 1 field, typed or piped in any chunks |

Three runs end in a counterexample. Each checks one property that the README, a
comment or a test of the program states and the code does not keep; `findings`
in `PROJECT.json` quotes both sides.

| Run | What the code does |
|---|---|
| `cleaner_cancelled` | a run cancelled while no worker reads a note ends in stage "finished" with part of its notes |
| `backup_failed` | after a backup whose Sync failed the next request takes it for done and writes |
| `notes_unreadable` | a text with the separator, or with an entity of it that the cleaner decodes, is stored and makes the note unreadable |

The passing properties say what is left of these promises: a run that is not cancelled and ends well has
processed every note (`ImplementsContract`), a copy precedes every write of a session,
and the one it acknowledged is there (`ImplementsBackups`, `PreSessionImage`), and `NotesStayReadable` holds while nobody types separators
(`FieldsMatchModel`).

Seen while modelling, without a run of their own:

* Backups: a half-copied `.bak` counts as one to keep (`NewestKept` counts files, whole or not), and good ones of
  earlier sessions are pruned for it; the session's own is, if its request looked at the clock before the one
  whose copy failed, and so gave it the older name (`PreSessionImage` excludes that by `copyFailed /\ overtaken`, and
  nothing else: a retry with a newer name is in it); what a crashed session left in the write-ahead log is not in the
  next session's copy (`PreSessionImage` says what the copy is of in each mode); databases in
  one directory whose names have a common prefix count and prune each other's backups; the pruning
  at exit uses the path of the start, not the one switched to; CreateBackup does not look at its context.
* Switching: two saves at once that both switch can leave the server connected to one database and
  configured for the other until the next switch (`SaveKeepsTogether` names that, by `crossed`, and nothing else,
  as its exception), and the file with either path; a
  database switched to during a request is written without a backup (`BackupBeforeWrite` holds
  up to the first switch); a cleaner run can read its texts from one database and write them into the other.
* The end: the page says that the server has stopped before its request has succeeded; once the exit has been
  asked for, the signal handler is gone and a second Ctrl-C kills the process in the middle of its shutdown.
* Log: an event that is published after one with a larger id is never polled, nor replayed after a
  reconnect (`NoneSkipped` is about events published before any larger id). An event that comes while its level is
  off never appears, although the level is switched on again; and of a poll's answer of more than 500 lines
  the first are cut before they were ever drawn (`Dealt` names both). Polls that overlap, and polling that goes on
  beside a stream that has recovered, show lines twice, and a late answer puts older lines below newer ones: no
  property speaks of the order or the number of a line's appearances.
* Listings: an older answer that arrives later stays on the screen; a search of decks that was made before the
  configuration's answer is replaced by the plain listing when that comes; Prev in a search, and the
  reload after a note was saved, ask for the notes of the deck that was open before, at the search's offset;
  Prev, Next and that reload send a filter that was typed and not applied, and Next a text typed over the global search;
  an empty global search, or a filter applied with no deck open, loads nothing on a later page but sets its offset
  back; the answer to a find sets back the offset and the mode of what was asked for in the meantime;
  a rename that is answered after another deck was opened puts its name on that deck's label; with a page size above
  1000 the rows after the first thousand of a page cannot be reached (`ShownAsAsked` and `PagingComplete`
  exclude these by name).
* Start: a saved address that came from the fallback is a fixed one at the next start, and if it is busy then
  there is no second fallback; a number of workers below one works as one, is saved as it is
  and is four after the restart; the file is emptied before it is written, and the next start with it fails
  if the writing did; if it cannot even be opened, the program has switched its database and the next start opens the old
  one (`RestartKeepsEffect` speaks of the save that the file holds); a second program started in the same moment can take the port
  between probe and listening, and the browser goes there.
* Others: two renames at once can both find a name free (`NamesDistinct` excludes them); NOCASE folds ASCII letters only, so
  that two decks can come to have names that differ in the case of other letters with no race at all; piped
  input that is asked for a confirmation loses lines to the second reader (`AsMeant` excludes it); a bulk
  update is one transaction per batch of 1000 and not one in all (README 47; a comment in the code says so, and
  `CleanerContract` states it); a run that stops at its first error is shown with two (`services.go` 318 and
  `operations.go` 115).

Why the bounds are enough. The faults these models look for need two actors, one
failure and one full buffer or one eviction; each bound is the smallest that has
all of them at once, with one more note, operation or event than the buffer holds. In `browsing` four clicks reach
two pages of a listing and clicks that mix the listings before and after; in `startup` a setting's three sources are independent of
the other settings, but for the two paths, which are given together. Deadlock is
checked except for the backup store, whose every bound (clock, transactions,
sessions) may be used up, and the command line, which ends. Symmetry is used between the
writers of the backup store and the requests of the collection: the other runs check liveness.

**Fairness.** Weak fairness of a goroutine's step says that the Go scheduler
runs what can run. *CleanerRun*: weak fairness of feeder, workers and caller; none of
`CancelParent` and `Kill`. *DatabaseSession*: of savers, edits and runs, of the
error that a query on a closed handle returns, of the rollback that sql.Tx makes when its context is
cancelled, and of main once it was told to stop, its deadline included; other
failures and being told to stop are never forced. *OperationStore*: RunCleaner returns (`Termination` of `cleaner`) and its
goroutine records that; the page's timer fires. *LogHub*: the page
connects and its timers fire (weak), and of the polls some are answered and read (strong, since a poll may fail
any number of times); loggers need not publish what they have numbered. *CommandLine*: the
program's steps, with the input it waits for, which arrives or ends; neither signals nor failing
writes are forced. `BackupStore`, `Collection`, `Browsing` and `Startup` have safety properties only.

## 4. Proofs

What is proved holds for all values of the constants that satisfy the named
assumptions of each module, none of which says more than how the constants are meant: a worker, a buffer and a
batch (`CleanerAssumption`), a place in the store (`StoreAssumption`), in a channel, in the ring and in the console (`LogAssumption`),
a field in every note, texts that are not the line that ends one and names distinct at the start
(`CommandLineAssumption`, `CollectionAssumption`), actors
that are distinct (`BackupAssumption`, `SessionAssumption`), sources that give a setting one value of its kind or
none, and addresses that are ports (`StartupAssumption`). The bounds of the runs (events, versions, requests, seconds)
are any natural numbers there. Every proof goes the same way: an inductive invariant that contains the
property, preserved by each action in turn.

* **CleanerRunProofs**: `TypeCorrect`, `ErrorsAreNeverLost`, `RootCauseIsReported`, `EveryNoteCounted`,
  `WritesAreGuarded`, `CleanerRefinement`.
  That no error is lost rests on the order of things: a worker that
  failed has put an error into `errCh` before it is gone, `errCh` is emptied only by the
  check, and the collector reaches the check only when the channel is closed, hence
  when all workers are gone. The inductive invariant says this for each place
  of the collector (`ErrorInv`). The root cause needs one more part: the first error in
  `errCh` precedes `cancel()`, so an error "context canceled" in it is the caller's (`RootInv`).
  The counts (`CountInv`) need that the workers which hold a note are finitely many, which is invariant since
  each holds one the feeder handed out; the set of all workers may be infinite.
  The refinement relates the sets: what the
  collector has kept, what the workers hold and what the feeder has yet to hand
  out together make up the dirty notes, each in one place (`IdInv`, `DirtyInv`); from it follows that
  an uncancelled run that reaches the writer has all of them.
  A commit maps to `ApplyBatch`, the backup to `Adopt`, cancelling to `Cancel`, the rest to
  stuttering or to an end.
* **BackupStoreProofs**: `TypeCorrect`, `BackupIsThere`, `NoWriteBeforeCopy`, `BackupLeftAlone`, `PruningKeepsNewest`,
  `BackupRefinement`.
  Two facts carry the invariant. Pruning removes what an old listing says, but of each file it is about to remove
  there are at least `Kept` newer ones on the disk (`Listed`). Removing another victim does not change that: if that
  one was newer, it had as many above it. And until the copy is done nothing is written (`Unwritten`), and no file is newer
  than the request that copies (`Past`, `Waiting`): the session's copy is then the newest file, which pruning never
  takes (`Copying`, `Closing`, `Made`; a copy that was `overtaken` by the name of a file is one that
  follows a failed copy, `OvertakenLate`), and holds at least what the last proper exit
  checkpointed (`Checkpointed`).
  The refinement forgets requests, locks and listings. A creation maps to `Begin`, the end of the copy to
  `Complete`, a close to `Acknowledge`, or to `Spoil` when what was copied does not reach the disk, a removal to `Prune`;
  locking, listing and the clock stutter, and a crash or an exit is an `End`. That a session copies once, under
  the newest name and what it found, follows from what is known at `copy` (`Copying`) and,
  new for the refinement, that the file is there while it is closed (`Filed`) and is what was copied (`ClosingWhole`).
* **DatabaseSessionProofs**: `TypeCorrect`, `NoHandleLeaks`, `SavesAgree`, `FirstWriteIsBackedUp`,
  `ShutdownLeavesNothing`, `StopHoldsBatches`. Who works with a handle has one (`HandleTaken`, `TextRead`), and what the
  saver that has `reconnectMu` is to swap in is open, what it is to close is not current (`Switching`). `SavesAgree` is
  of any number of racing saves: unless two crossed, the connection is for the configured path or
  for that of a saver which is about to configure it (`ConnectedFor`), whose handle is of the database it was asked
  for (`HandlesNamed`), and nobody saves beside one that has the server to itself (`Undisturbed`).
  Until a first switch everybody is at the initial database, and whoever is past his backup has found it
  made (`FirstBackedUp`); a shutdown that has waited leaves no handler that is still at work (`Drained`); and
  the runs in a COMMIT after the stop are those that were in it then (`Caught`).
* **OperationProofs**: `TypeCorrect`, `StoreIsTruthful`, `StoreIsBounded`, `EvictionIsFair`, `PagesAreTold`.
  Two lemmas carry them: what an eviction keeps (`StoreKeeps`) and how many
  (`StoreCount`). Truth is inductive with the types, since an operation at work is
  running in the store and eviction takes finished ones; a page's knowledge
  stays true because ended operations never change nor come back (`EndedStays`).
* **PageProofs**, of the log console (`LogHub`): `TypeCorrect`, `PickedCollects`, `ReplayLeavesNoGap`, `PollsSkipNothing`. `NoGap` is inductive with
  the types and with what a connection may have done before it streams (`Unbegun`, `Broken`), once it is known that
  the ring gains nothing but the event just published. The polls: what the page has seen comes from the log, each poll
  asks from there or from before (`Heard`), and what an answer leaves out below its events the page has had or the hub has
  no more (`Answers`), but for events published late (`Timely`), so an answer that comes late leaves no hole. That the page
  has had an event means that its line is there, was cut or was muted (`Had`), and a console that has cut a line is full
  from then on (`CutWhenFull`).
  Of the listings (`Browsing`, whose definitions have names of their own so that one module can extend both):
  `BrowsingTypeCorrect`, `EachOnce`, `ListingsAsAsked`, `EveryRowPaged`, for any collection, page size and number of
  requests. The decks shown are those of the page's last request once that was answered (`latest`), and until then it is
  the last one under way (`LastIs`, `DecksInStep`), whatever was answered before. That this request is where the user wants
  to be is a second fact: always, unless a search preceded the configuration's answer (`DecksHere` in `TypedGhost`). For
  the notes the page's mode, offset and deck are those of the wish (`NotesPlace`), but for a find, which has none before it is
  answered; each button keeps that or fails it on the one condition the property names. The page's
  name for the deck is the deck's unless a late rename changed it (`NamedRight`). A walk through the pages is
  the rows up to the end of the last page, and Next is off exactly when no row is left (`Progress`), which needs the server to
  have cut at the limit the page counts with: hence the bound on the page size. A page is the next
  slice of the same rows (`PageOfRows`), because a deck's listing never changes. `EachOnce` is what makes the rows all there are:
  `OrderById` exists for every finite set of ids (`OrderExists`, by induction over its size).
* **CollectionProofs**: `TypeCorrect`, `NamesStayDistinct`, `FieldsStayOwn`, `FieldsStayCounted`, `SavesStay`.
  Names: a rename that has passed its check has a free name as long as no race was seen (`Checked`), since
  the first write of two that have passed is the race. Fields: the page may hold the boxes of several notes, but as
  many of the last ones as the named note has fields are that note's (`OwnForm`, `OwnRequests`), and UpdateNote
  accepts exactly that many. Counts: every value is one part, and the cleaner leaves it one (`SingleParts`).
  Saves: what a run has planned for a note is of the writers last saved, for as long as `calm`
  (`PlanKeeps`). `JoinFacts` is what the join returns, for values of any number.
* **StartupProofs**: `SourcesHavePriority`, `SavedTakesEffectAgain`, `BrowserFindsItsServer`. Priority is a lemma about
  `Load` (`LoadPrecedence`). A restart reads back what was saved, and though a value that counts as not given is replaced
  by its default, the effect is the same (`Restored`, `SameEffect`), for every setting, a number of workers of one or more
  too; `RestartKeepsEffect` names the two exceptions, a number of workers below one and the default address
  that was busy. The browser: a process that has probed has a
  port, which is free until someone takes it and its own while it serves (`Probed`, `Owned`, `Untaken`).
* **CommandLineProofs**: `TypeCorrect`, `LinesAreTakenAsMeant`, for any number of tasks, of fields and any cut of the
  input into chunks. The second follows the script: the lines of each task have their place among all lines
  (`LinesPlaced`), every task has the lines its operation asks for (`TasksShaped`), and what is buffered and unread
  is what comes after the lines taken (`AheadOf`); at each place of an operation the number of lines it has is known
  (`At`). A terminal leaves the buffer empty while nobody reads from it (`Ahead`), so the reader of the question
  takes its answer and nothing else.

Induction. `Newer`, `JoinFieldValues` and `Lines` are recursive functions, written out where a fold would be shorter, because
the provers see through neither a fold nor the library's induction theorems, which take an operator. `LeastNumber` and
`Induction` say the same of sets of numbers (from the well-foundedness of finite sets
under inclusion); a property of every prefix is then the set of the lengths for which it holds.

Only model-checked: all liveness (`Termination`, `EverythingEnds`, `PollingEnds`, `EventuallyShown`, `Ends`), which is out of the
prover's reach, and nothing else of
`CleanerRun`, `BackupStore`, `DatabaseSession`, `OperationStore`, `LogHub`, `Collection`, `Browsing`, `Startup` and `CommandLine`: every invariant and every other
action property that a run checks is a theorem.

## 5. Plan

What is next: `BackupStore` with a second database in the same directory whose name has a common prefix. Its backups
count as this one's, so `Prune` of `BackupContract` would have to promise less.

## 6. Not modelled, and why

The sanitizer and the diff are pure functions on text, the former mostly a
third-party HTML parser; `Collection` has of it that markup goes and entities are
decoded. What a search text or a time filter selects is any subset of the notes. Parsing of
files and flags, the table of routes, the wiring, the wording of errors and the
browser launcher keep no state. SQLite is external: a transaction is atomic, a handle has
one connection, a write-ahead log is checkpointed now and then and when the last connection closes.
The file system is external: a write, a sync or a removal may fail, and a file that was synced stays.
