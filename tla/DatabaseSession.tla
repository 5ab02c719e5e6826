--------------------------- MODULE DatabaseSession --------------------------
(***************************************************************************)
(* One running server and its database (httpapi/server.go, sqlite/db.go,   *)
(* application/services.go, main of cmd/ankiced-web and -desktop), up to   *)
(* the end of the process: requests that save the configuration may        *)
(* switch the server to another database file while edits and cleaner runs *)
(* are under way.  The path in the configuration, the open handle, the     *)
(* saved configuration file and the backups are separate pieces of state,  *)
(* each guarded by a lock of its own.  Told to stop, main cancels what is  *)
(* tied to its context, waits for handlers up to a deadline, but never for *)
(* cleaner runs, then prunes the backups and closes the database.          *)
(*                                                                         *)
(* Every database has one note of the same id, as two copies of a          *)
(* collection have.  A text says from which database it was read, who      *)
(* wrote it, and whether it was cleaned.  A handle, a sql.DB, has one       *)
(* connection; closing it fails whoever asks for that connection later and *)
(* lets a transaction that holds it go on.                                 *)
(***************************************************************************)
EXTENDS Naturals, Sequences, FiniteSets

CONSTANTS
  Paths, InitialPath,  \* database files; the one the server is started on
  Savers,              \* requests to save the configuration
  Editors,             \* requests that update the note (or rename a deck)
  Cleaners,            \* cleaner apply runs
  Nobody,
  MaxHandles,          \* bound on the handles ever opened
  MaxRequests          \* bound on the requests, of all kinds, that come

ASSUME SessionAssumption ==
  /\ InitialPath \in Paths
  /\ Nobody \notin Savers \union Editors \union Cleaners
  /\ Savers \intersect (Editors \union Cleaners) = {} /\ Editors \intersect Cleaners = {}
  /\ MaxHandles \in Nat /\ MaxRequests \in Nat

VARIABLES
  main,         \* where main is
  outcome,      \* whether main has waited for the handlers
  ctxDone,      \* main's context, which cleaner runs have, is cancelled
  stream,       \* a page had its log stream open when main was told to stop, and has
  underway,     \* the runs in the middle of a COMMIT when ctxDone was set
  handles,      \* every handle opened: its path, whether it is open, and who
                \* holds its connection
  current,      \* DB.SQL, an index of handles
  reconnectMu,  \* the saver in Reconnect
  cfgPath,      \* apiHandler.cfg.DBPath
  savedPath,    \* db_path in ankiced.config.json
  crossed,      \* the last saver to configure its path was no longer the last to connect
  alone,        \* the last saver to begin, if no other was under way then or since
  want,         \* db_path of each save request
  fresh,        \* the handle each saver opened
  old,          \* the handle each saver replaced
  snapshot,     \* the path each saver is about to write to the file
  pc,           \* where each request is
  handle,       \* the handle each writer got from Conn()
  runPath,      \* cfg.DBPath in the copy a cleaner run works with
  got,          \* the text each cleaner run has read
  done,         \* the paths whose backup is done
  backup,       \* the text in the backup of each path
  text          \* the committed text of the note in each database

config   == <<cfgPath, savedPath, crossed, alone>>
saver    == <<want, fresh, old, snapshot>>
writer   == <<handle, runPath, got>>
database == <<done, backup, text>>
process  == <<main, outcome, ctxDone, stream, underway>>
vars == <<process, handles, current, reconnectMu, config, saver, pc, writer, database>>

Writers  == Editors \union Cleaners
Requests == Savers \union Writers
Texts    == [db : Paths, by : Writers \union {Nobody}, clean : BOOLEAN]
Original(p) == [db |-> p, by |-> Nobody, clean |-> FALSE]
NoText   == [by |-> "no text"]
Over     == {"done", "failed"}

Init ==
  /\ main = "serving" /\ outcome = "running"
  /\ ctxDone = FALSE /\ stream = FALSE /\ underway = {}
  /\ handles = <<[path |-> InitialPath, open |-> TRUE, conn |-> Nobody]>>
  /\ current = 1 /\ reconnectMu = Nobody
  /\ cfgPath = InitialPath /\ savedPath = InitialPath
  /\ crossed = FALSE /\ alone = {}
  /\ want \in [Savers -> Paths]
  /\ fresh = [s \in Savers |-> 0] /\ old = [s \in Savers |-> 0]
  /\ snapshot = [s \in Savers |-> InitialPath]
  /\ pc = [r \in Requests |-> "idle"]
  /\ handle = [w \in Writers |-> 0]
  /\ runPath = [c \in Cleaners |-> InitialPath]
  /\ got = [c \in Cleaners |-> NoText]
  /\ done = {} /\ backup = [p \in Paths |-> NoText]
  /\ text = [p \in Paths |-> Original(p)]

Goto(r, label) == pc' = [pc EXCEPT ![r] = label]

\* No save is under way.
Quiet == \A s \in Savers : pc[s] \in {"idle"} \union Over

\* The listener is open: it closes when Shutdown begins.
Accepting ==
  /\ main \in {"serving", "stopping"}
  /\ Cardinality({r \in Requests : pc[r] # "idle"}) < MaxRequests

-----------------------------------------------------------------------------
(* POST /api/v1/config/save.                                               *)

\* A path other than the configured one asks for a switch.
CheckPath(s) ==
  /\ pc[s] = "idle" /\ Accepting
  /\ alone' = IF Quiet THEN {s} ELSE {}
  /\ Goto(s, IF want[s] = cfgPath THEN "snapshot" ELSE "lock")
  /\ UNCHANGED <<process, handles, current, reconnectMu, cfgPath, savedPath, crossed, saver, writer, database>>

LockReconnect(s) ==
  /\ pc[s] = "lock" /\ reconnectMu = Nobody
  /\ reconnectMu' = s
  /\ Goto(s, "open")
  /\ UNCHANGED <<process, handles, current, config, saver, writer, database>>

\* sql.Open and Ping.
OpenNew(s) ==
  /\ pc[s] = "open" /\ Len(handles) < MaxHandles
  /\ handles' = Append(handles, [path |-> want[s], open |-> TRUE, conn |-> Nobody])
  /\ fresh' = [fresh EXCEPT ![s] = Len(handles) + 1]
  /\ Goto(s, "swap")
  /\ UNCHANGED <<process, current, reconnectMu, config, want, old, snapshot, writer, database>>

\* The new database cannot be opened: nothing changes.
OpenFails(s) ==
  /\ pc[s] = "open"
  /\ reconnectMu' = Nobody
  /\ Goto(s, "failed")
  /\ UNCHANGED <<process, handles, current, config, saver, writer, database>>

SwapForgetsOld(s) ==
  /\ pc[s] = "swap"
  /\ old' = [old EXCEPT ![s] = fresh[s]]
  /\ current' = fresh[s]
  /\ Goto(s, "close")
  /\ UNCHANGED <<process, handles, reconnectMu, config, want, fresh, snapshot, writer, database>>
Swap(s) ==
  /\ pc[s] = "swap"
  /\ old' = [old EXCEPT ![s] = current]
  /\ current' = fresh[s]
  /\ Goto(s, "close")
  /\ UNCHANGED <<process, handles, reconnectMu, config, want, fresh, snapshot, writer, database>>

\* An error of Close is logged and otherwise ignored.
CloseOld(s) ==
  /\ pc[s] = "close"
  /\ handles' = [handles EXCEPT ![old[s]].open = FALSE]
  /\ reconnectMu' = Nobody
  /\ Goto(s, "set")
  /\ UNCHANGED <<process, current, config, saver, writer, database>>

SetNothing(s) == UNCHANGED cfgPath
SetDBPath(s)  == cfgPath' = want[s]
SetPath(s) ==
  /\ pc[s] = "set"
  /\ SetDBPath(s)
  /\ crossed' = (current # fresh[s])
  /\ Goto(s, "snapshot")
  /\ UNCHANGED <<process, handles, current, reconnectMu, savedPath, alone, saver, writer, database>>

SnapshotRequested(s) ==
  /\ pc[s] = "snapshot"
  /\ snapshot' = [snapshot EXCEPT ![s] = want[s]]
  /\ Goto(s, "save")
  /\ UNCHANGED <<process, handles, current, reconnectMu, config, want, fresh, old, writer, database>>
TakeSnapshot(s) ==
  /\ pc[s] = "snapshot"
  /\ snapshot' = [snapshot EXCEPT ![s] = cfgPath]
  /\ Goto(s, "save")
  /\ UNCHANGED <<process, handles, current, reconnectMu, config, want, fresh, old, writer, database>>

SaveFile(s) ==
  /\ pc[s] = "save"
  /\ \/ savedPath' = snapshot[s] /\ Goto(s, "done")
     \/ UNCHANGED savedPath /\ Goto(s, "failed")
  /\ UNCHANGED <<process, handles, current, reconnectMu, cfgPath, crossed, alone, saver, writer, database>>

-----------------------------------------------------------------------------
(* Queries.  queryer and WithTx take the handle from Conn() and use it.     *)

PathOf(w) == handles[handle[w]].path
Closed(w) == handle[w] # 0 /\ ~handles[handle[w]].open
CanQuery(w) == handles[handle[w]].open /\ handles[handle[w]].conn = Nobody

\* The database is write-locked by a transaction on another handle.
Locked(p) ==
  \E c \in Cleaners : pc[c] \in {"commit", "committing"} /\ handles[handle[c]].path = p

TakeConn(w, label) ==
  /\ handle' = [handle EXCEPT ![w] = current]
  /\ Goto(w, label)
  /\ UNCHANGED <<process, handles, current, reconnectMu, config, saver, runPath, got, database>>

\* A query fails: its handle was closed meanwhile, the note is not there, a
\* check fails, the database stays locked for longer than the busy timeout.
QueryFails(w) ==
  /\ pc[w] \in {"read", "exec", "begin"}
  /\ Goto(w, "failed")
  /\ UNCHANGED <<process, handles, current, reconnectMu, config, saver, writer, database>>

\* EnsureBackup on path p; the copy is made once per path.
BackUp(w, p, label) ==
  /\ done' = done \union {p}
  /\ backup' = IF p \in done THEN backup ELSE [backup EXCEPT ![p] = text[p]]
  /\ Goto(w, label)
  /\ UNCHANGED <<process, handles, current, reconnectMu, config, saver, writer, text>>

BackUpFails(w) ==
  /\ pc[w] = "backup"
  /\ Goto(w, "failed")
  /\ UNCHANGED <<process, handles, current, reconnectMu, config, saver, writer, database>>

(* UpdateNote: read, check, back up, update.                               *)

EditRead(e)  == pc[e] = "idle" /\ Accepting /\ TakeConn(e, "read")
EditCheck(e) ==
  /\ pc[e] = "read" /\ CanQuery(e)
  /\ Goto(e, "backup")
  /\ UNCHANGED <<process, handles, current, reconnectMu, config, saver, writer, database>>
EditUnsaved(e) == pc[e] = "backup" /\ TakeConn(e, "exec")
EditBackup(e) == pc[e] = "backup" /\ BackUp(e, cfgPath, "update")
EditUpdate(e) == pc[e] = "update" /\ TakeConn(e, "exec")
EditExec(e) ==
  /\ pc[e] = "exec" /\ CanQuery(e) /\ ~Locked(PathOf(e))
  /\ text' = [text EXCEPT ![PathOf(e)] = [db |-> PathOf(e), by |-> e, clean |-> FALSE]]
  /\ Goto(e, "done")
  /\ UNCHANGED <<process, handles, current, reconnectMu, config, saver, writer, done, backup>>

(* A cleaner apply run: it works with the configuration of the moment it was *)
(* requested, and with whatever handle each query finds.                     *)

CleanRequest(c) ==
  /\ pc[c] = "idle" /\ Accepting
  /\ runPath' = [runPath EXCEPT ![c] = cfgPath]
  /\ handle' = [handle EXCEPT ![c] = current]
  /\ Goto(c, "read")
  /\ UNCHANGED <<process, handles, current, reconnectMu, config, saver, got, database>>

CleanRead(c) ==
  /\ pc[c] = "read" /\ CanQuery(c)
  /\ got' = [got EXCEPT ![c] = text[PathOf(c)]]
  /\ Goto(c, "backup")
  /\ UNCHANGED <<process, handles, current, reconnectMu, config, saver, handle, runPath, database>>

CleanBackup(c) == pc[c] = "backup" /\ BackUp(c, runPath[c], "update")
CleanBegin(c)  == pc[c] = "update" /\ TakeConn(c, "begin")

\* A bug the project rules out: a context that nobody cancels.
Background(c) == TRUE
\* The context of a run is main's: backgroundCtx.  BeginTx and Commit look at it.
ContextAlive(c) == ~ctxDone

\* The connection is the transaction's until it ends.
CleanBeginTx(c) ==
  /\ pc[c] = "begin" /\ CanQuery(c) /\ ContextAlive(c)
  /\ handles' = [handles EXCEPT ![handle[c]].conn = c]
  /\ Goto(c, "write")
  /\ UNCHANGED <<process, current, reconnectMu, config, saver, writer, database>>

\* updateNote(txCtx, ...): queryer finds the transaction in the context.
OutsideTx(c) == CanQuery(c)
InTx(c) == handles[handle[c]].conn = c
CleanWrite(c) ==
  /\ pc[c] = "write" /\ InTx(c) /\ ~Locked(PathOf(c))
  /\ Goto(c, "commit")
  /\ UNCHANGED <<process, handles, current, reconnectMu, config, saver, writer, database>>

KeepsConn(c) == UNCHANGED handles
EndTx(c) == handles' = [handles EXCEPT ![handle[c]].conn = Nobody]

CleanCommit(c) ==
  /\ pc[c] = "commit" /\ ContextAlive(c)
  /\ Goto(c, "committing")
  /\ UNCHANGED <<process, handles, current, reconnectMu, config, saver, writer, database>>

CleanCommitted(c) ==
  /\ pc[c] = "committing"
  /\ text' = [text EXCEPT ![PathOf(c)] = [got[c] EXCEPT !.clean = TRUE]]
  /\ EndTx(c)
  /\ Goto(c, "done")
  /\ UNCHANGED <<process, current, reconnectMu, config, saver, writer, done, backup>>

\* The update or the commit fails, or the run is cancelled: sql.Tx rolls a
\* transaction back when its context ends.
CleanRollback(c) ==
  /\ pc[c] \in {"write", "commit", "committing"}
  /\ EndTx(c)
  /\ Goto(c, "failed")
  /\ UNCHANGED <<process, current, reconnectMu, config, saver, writer, database>>

-----------------------------------------------------------------------------

(* main: Server.Run, the desktop's OnShutdown, and the deferred calls.      *)

Step(label) == main' = label
Others == <<handles, current, reconnectMu, config, saver, pc, writer, database>>

\* The web server gets a signal, or onExit from the page's Exit button: the context
\* is cancelled, and Run comes to know of it.
Stop ==
  /\ main = "serving"
  /\ Step("stopping") /\ ctxDone' = TRUE /\ stream' \in BOOLEAN
  /\ underway' = {c \in Cleaners : pc[c] = "committing"}
  /\ UNCHANGED <<outcome, Others>>

\* The desktop's window is closed, by the Exit button or otherwise: OnShutdown
\* cancels the context and waits for nobody.
Quit ==
  /\ main = "serving"
  /\ Step("closing") /\ ctxDone' = TRUE /\ outcome' = "unwaited"
  /\ underway' = {c \in Cleaners : pc[c] = "committing"}
  /\ UNCHANGED <<stream, Others>>

\* The web server's listener fails: Run returns, and nothing is cancelled.
ServeFails ==
  /\ main = "serving"
  /\ Step("closing") /\ outcome' = "unwaited"
  /\ UNCHANGED <<ctxDone, stream, underway, Others>>

\* Shutdown: no new connections.
BeginShutdown ==
  /\ main = "stopping"
  /\ Step("draining")
  /\ UNCHANGED <<outcome, ctxDone, stream, underway, Others>>

\* A bug the project rules out: a shutdown that waits for nobody.
HandlingNothing == stream
\* A handler is at work: one that serves an edit or a save, or a stream.  That of a
\* cleaner run has answered.
Handling == stream \/ \E r \in Savers \union Editors : pc[r] \notin {"idle"} \union Over

ShutdownEnds ==
  /\ main = "draining" /\ ~Handling
  /\ Step("closing") /\ outcome' = "waited"
  /\ UNCHANGED <<ctxDone, stream, underway, Others>>

\* A bug the project rules out: a shutdown without a deadline.
DeadlineNever == FALSE
\* After five seconds srv.Close cuts the connections, and the requests'
\* contexts with them; the handlers are not waited for.
Deadline ==
  /\ main = "draining" /\ Handling
  /\ Step("closing") /\ outcome' = "unwaited" /\ stream' = FALSE
  /\ UNCHANGED <<ctxDone, underway, Others>>

\* A bug the project rules out: the handle of the start is closed.
CloseFirst == handles' = [handles EXCEPT ![1].open = FALSE]
\* The deferred CleanupBackups, which is BackupStore's, and DB.Close, which waits for
\* nobody.  What still runs goes on until the process is gone, and that may be at once.
CloseCurrent == handles' = [handles EXCEPT ![current].open = FALSE]
CloseDB ==
  /\ main = "closing"
  /\ CloseCurrent
  /\ Step("closed")
  /\ UNCHANGED <<outcome, ctxDone, stream, underway, current, reconnectMu, config, saver,
                 pc, writer, database>>

\* The page closes its stream, or is closed.
StreamEnds ==
  /\ stream
  /\ stream' = FALSE
  /\ UNCHANGED <<main, outcome, ctxDone, underway, Others>>

Exit == BeginShutdown \/ ShutdownEnds \/ Deadline \/ CloseDB

-----------------------------------------------------------------------------

Save(s) ==
  \/ CheckPath(s) \/ LockReconnect(s) \/ OpenNew(s) \/ OpenFails(s) \/ Swap(s)
  \/ CloseOld(s) \/ SetPath(s) \/ TakeSnapshot(s) \/ SaveFile(s)

Edit(e) ==
  \/ EditRead(e) \/ EditCheck(e) \/ EditBackup(e) \/ EditUpdate(e) \/ EditExec(e)

Clean(c) ==
  \/ CleanRequest(c) \/ CleanRead(c) \/ CleanBackup(c) \/ CleanBegin(c)
  \/ CleanBeginTx(c) \/ CleanWrite(c) \/ CleanCommit(c) \/ CleanCommitted(c)

Requested ==
  \/ \E s \in Savers : Save(s)
  \/ \E e \in Editors : Edit(e)
  \/ \E c \in Cleaners : Clean(c) \/ CleanRollback(c)
  \/ \E w \in Writers : QueryFails(w) \/ BackUpFails(w)

Ended == main = "closed" /\ UNCHANGED vars

Next == Requested \/ Stop \/ Quit \/ ServeFails \/ Exit \/ StreamEnds \/ Ended

Spec == Init /\ [][Next]_vars

\* Every request is served: its goroutine runs whenever it can.  A query on a
\* closed handle returns an error, a transaction whose context is cancelled is
\* rolled back, and main, once told to stop, goes on: its deadline passes.
Fairness ==
  /\ \A s \in Savers : WF_vars(Save(s))
  /\ \A e \in Editors : WF_vars(Edit(e) \/ (Closed(e) /\ QueryFails(e)))
  /\ \A c \in Cleaners :
       WF_vars(Clean(c) \/ (Closed(c) /\ QueryFails(c))
               \/ (ctxDone /\ (QueryFails(c) \/ CleanRollback(c))))
  /\ WF_vars(Exit)
FairSpec == Spec /\ Fairness

-----------------------------------------------------------------------------
(* Properties.                                                             *)

Labels == {"idle", "lock", "open", "swap", "close", "set", "snapshot", "save", "read", "backup",
           "update", "exec", "begin", "write", "commit", "committing"} \union Over
Handles == [path : Paths, open : BOOLEAN, conn : Cleaners \union {Nobody}]

TypeProcess ==
  /\ main \in {"serving", "stopping", "draining", "closing", "closed"}
  /\ outcome \in {"running", "waited", "unwaited"}
  /\ ctxDone \in BOOLEAN /\ stream \in BOOLEAN /\ underway \subseteq Cleaners
TypeHandles == handles \in Seq(Handles) /\ current \in 1..Len(handles)
TypeSaver ==
  /\ reconnectMu \in Savers \union {Nobody}
  /\ cfgPath \in Paths /\ savedPath \in Paths /\ crossed \in BOOLEAN /\ alone \subseteq Savers
  /\ want \in [Savers -> Paths] /\ snapshot \in [Savers -> Paths]
  /\ fresh \in [Savers -> 0..Len(handles)] /\ old \in [Savers -> 0..Len(handles)]
TypeWriter ==
  /\ handle \in [Writers -> 0..Len(handles)]
  /\ runPath \in [Cleaners -> Paths]
  /\ got \in [Cleaners -> Texts \union {NoText}]
TypeDatabase ==
  /\ done \in SUBSET Paths
  /\ backup \in [Paths -> Texts \union {NoText}] /\ text \in [Paths -> Texts]
MutexHeld == \A s \in Savers : pc[s] \in {"open", "swap", "close"} <=> reconnectMu = s
ConnHeld ==
  \A c \in Cleaners, h \in 1..Len(handles) :
    handles[h].conn = c <=> pc[c] \in {"write", "commit", "committing"} /\ handle[c] = h

\* Every variable has its type (DB, apiHandler.cfg, pathLock), a transaction
\* holds the connection of the handle it began on, and the saver in Reconnect
\* holds its mutex.
TypeOK ==
  /\ pc \in [Requests -> Labels]
  /\ TypeProcess /\ TypeHandles /\ TypeSaver /\ TypeWriter /\ TypeDatabase
  /\ MutexHeld /\ ConnHeld

\* Reconnect leaks no handle and closes none that is in use: the current handle
\* is open until main closes it, and any other open one is about to be swapped in or closed by the
\* saver that holds reconnectMu.
OneLiveHandle ==
  /\ main # "closed" => handles[current].open
  /\ \A h \in 1..Len(handles) : handles[h].open /\ h # current =>
       \E s \in Savers : reconnectMu = s /\
         ((pc[s] = "swap" /\ h = fresh[s]) \/ (pc[s] = "close" /\ h = old[s]))

\* Between saves, however many there are at once and whichever steps fail, the server is
\* connected to the database it is configured for, unless of two savers that both
\* switched the one that connected first was the last to configure its path
\* (Reconnect and setDBPath are two steps); the next save that switches mends that.
\* What a save that had the server to itself wrote to the file is the configured path.
SaveKeepsTogether ==
  /\ Quiet /\ ~crossed => cfgPath = handles[current].path
  /\ \A s \in alone : pc[s] = "done" => savedPath = cfgPath

\* As long as the server has not switched to another database, the one it writes
\* to has a backup of its text from before the first write, however edits and
\* cleaner runs interleave.
BackedUp(p) == text[p] # Original(p) => backup[p] = Original(p)
BackupBeforeWrite == Len(handles) = 1 => BackedUp(InitialPath)

\* When Shutdown has ended within its deadline, closing the database leaves no
\* handle open and no handler behind that could open one or write: whatever saves and
\* edits were under way when the program was told to stop.
ClosedForGood ==
  outcome = "waited" /\ main = "closed" =>
    /\ \A h \in 1..Len(handles) : ~handles[h].open
    /\ \A r \in Savers \union Editors : pc[r] \in {"idle"} \union Over

\* Cleaner runs are not waited for, but once the program was told to stop none of
\* them makes a batch durable, except a batch in the middle of its COMMIT then.
NoBatchAfterStop ==
  [][\A c \in Cleaners : ctxDone /\ pc[c] = "committing" /\ pc'[c] = "done" => c \in underway]_vars

\* Everything begun comes to an end: every edit and cleaner run, although they share one
\* connection, hold it across a transaction, and may have it closed under them; and
\* the program, once told to stop, even with a log stream open, which ends only with
\* its connection.  (A writer makes one request.)
EverythingEnds ==
  <>[](main = "closed" \/ (main = "serving" /\ \A w \in Writers : pc[w] \in {"idle"} \union Over))
=============================================================================
