----------------------------- MODULE BackupStore ----------------------------
(***************************************************************************)
(* The backups of one database, over several sessions of the program       *)
(* (internal/infrastructure/fs/backup_store.go and EnsureBackup): the      *)
(* first writer of a session copies the database file to                   *)
(* <db>.<second>.bak, once per session, prunes the old copies, and writes. *)
(* A copy can fail half way, its Sync can fail, the process can die        *)
(* between any two steps, and at exit the program prunes again while       *)
(* requests it does not wait for are still running.                        *)
(*                                                                         *)
(* A version is the number of transactions committed so far.  With journal *)
(* mode WAL a committed version reaches the database file only at a        *)
(* checkpoint, at the latest when the idle connection is closed; a copy of  *)
(* the file is a copy of what was checkpointed.                             *)
(***************************************************************************)
EXTENDS Naturals, FiniteSets, Functions

CONSTANTS
  Writers,          \* requests that back up, then write
  Nobody,           \* no writer
  Main,             \* the goroutine of main, which prunes at exit
  BackupKeepLastN,  \* the setting
  JournalModes,     \* the journal modes to look at, of "WAL" and "DELETE"
  MaxClock, MaxVersion, MaxSessions  \* bounds

ASSUME BackupAssumption ==
  /\ Nobody \notin Writers /\ Main \notin Writers
  /\ BackupKeepLastN \in Nat
  /\ JournalModes \subseteq {"WAL", "DELETE"}
  /\ MaxClock \in Nat /\ MaxVersion \in Nat /\ MaxSessions \in Nat

VARIABLES
  journalMode,  \* journal_mode of the database
  clock,        \* the second it is
  session,      \* sessions begun so far
  up,           \* a session is running
  done,         \* pathLock.done
  holder,       \* the writer in CreateBackup's critical section
  pc,           \* where each writer and main are
  stamp,        \* the second each writer took with s.now()
  victims,      \* the files a pruning actor has yet to remove
  files,        \* second |-> backup file
  version,      \* transactions committed to the database
  checkpointed, \* those that are in the database file itself
  start,        \* version when the session began
  closedAt,     \* version when a session last ended by closing the connection
  copied,       \* a copy was completed in this session
  copyFailed,   \* a copy failed in this session
  overtaken,    \* the last copy begun got an older name than a file that was there
  acknowledged  \* a CreateBackup call of this session succeeded

process == <<done, holder, pc, stamp, victims>>
database == <<journalMode, version, checkpointed>>
history == <<start, closedAt, copied, copyFailed, overtaken, acknowledged>>
vars == <<clock, session, up, process, files, database, history>>

Actors == Writers \union {Main}
Kept == IF BackupKeepLastN < 1 THEN 3 ELSE BackupKeepLastN

\* The entries of the sorted listing in front of the last Kept.
KeepsOneLess == {t \in DOMAIN files : Cardinality({u \in DOMAIN files : u > t}) >= Kept - 1}
Oldest == {t \in DOMAIN files : Cardinality({u \in DOMAIN files : u > t}) >= Kept}

Put(t, file) == [u \in DOMAIN files \union {t} |-> IF u = t THEN file ELSE files[u]]

\* Writing to, or syncing, an open file; it may have been unlinked meanwhile.
Fill(t, file) == IF t \in DOMAIN files THEN Put(t, file) ELSE files

Init ==
  /\ journalMode \in JournalModes
  /\ clock = 0 /\ session = 0 /\ up = FALSE
  /\ done = FALSE /\ holder = Nobody
  /\ pc = [a \in Actors |-> "idle"]
  /\ stamp = [w \in Writers |-> 0]
  /\ victims = [a \in Actors |-> {}]
  /\ files = [t \in {} |-> [data |-> 0, whole |-> TRUE]]
  /\ version = 0 /\ checkpointed = 0
  /\ start = 0 /\ closedAt = 0 /\ copied = FALSE
  /\ copyFailed = FALSE /\ overtaken = FALSE /\ acknowledged = FALSE

Goto(a, label) == pc' = [pc EXCEPT ![a] = label]

-----------------------------------------------------------------------------
(* EnsureBackup and CreateBackup.                                          *)

\* s.now() is read before the path's lock is asked for.
Ask(w) ==
  /\ up /\ pc[w] = "idle"
  /\ stamp' = [stamp EXCEPT ![w] = clock]
  /\ Goto(w, "lock")
  /\ UNCHANGED <<clock, session, up, done, holder, victims, files, database, history>>

\* The session has its backup.
AlreadyDone == done
Skip(w) ==
  /\ pc[w] = "lock" /\ holder = Nobody
  /\ AlreadyDone
  /\ Goto(w, "write")
  /\ UNCHANGED <<clock, session, up, done, holder, stamp, victims, files, database, history>>

\* os.Create truncates a file of the same second.
CreateUnchecked(w) ==
  /\ pc[w] = "lock" /\ holder = Nobody
  /\ holder' = w
  /\ files' = Put(stamp[w], [data |-> 0, whole |-> FALSE])
  /\ overtaken' = \E t \in DOMAIN files : t > stamp[w]
  /\ Goto(w, "copy")
  /\ UNCHANGED <<clock, session, up, done, stamp, victims, database, start, closedAt, copied, copyFailed,
                 acknowledged>>
Create(w) ==
  /\ pc[w] = "lock" /\ holder = Nobody
  /\ ~done
  /\ holder' = w
  /\ files' = Put(stamp[w], [data |-> 0, whole |-> FALSE])
  /\ overtaken' = \E t \in DOMAIN files : t > stamp[w]
  /\ Goto(w, "copy")
  /\ UNCHANGED <<clock, session, up, done, stamp, victims, database, start, closedAt, copied, copyFailed,
                 acknowledged>>

\* The database cannot be opened or the backup cannot be created.
CreateFails(w) ==
  /\ pc[w] = "lock" /\ holder = Nobody
  /\ ~done
  /\ Goto(w, "idle")
  /\ UNCHANGED <<clock, session, up, done, holder, stamp, victims, files, database, history>>

CopyDone(w) ==
  /\ pc[w] = "copy"
  /\ files' = Fill(stamp[w], [data |-> checkpointed, whole |-> TRUE])
  /\ done' = TRUE /\ copied' = TRUE
  /\ Goto(w, "close")
  /\ UNCHANGED <<clock, session, up, holder, stamp, victims, database, start, closedAt, copyFailed,
                 overtaken, acknowledged>>

\* io.Copy fails, for want of space for instance; what was copied stays.
CopyFailsDone(w) ==
  /\ pc[w] = "copy"
  /\ copyFailed' = TRUE
  /\ done' = TRUE
  /\ holder' = Nobody
  /\ Goto(w, "idle")
  /\ UNCHANGED <<clock, session, up, stamp, victims, files, database, start, closedAt, copied,
                 overtaken, acknowledged>>
CopyFailsLocked(w) ==
  /\ pc[w] = "copy"
  /\ copyFailed' = TRUE
  /\ Goto(w, "idle")
  /\ UNCHANGED <<clock, session, up, done, holder, stamp, victims, files, database, start, closedAt, copied,
                 overtaken, acknowledged>>
CopyFails(w) ==
  /\ pc[w] = "copy"
  /\ copyFailed' = TRUE
  /\ holder' = Nobody
  /\ Goto(w, "idle")
  /\ UNCHANGED <<clock, session, up, done, stamp, victims, files, database, start, closedAt, copied,
                 overtaken, acknowledged>>

\* The deferred Sync and Close succeed and the lock is released.
CloseDone(w) ==
  /\ pc[w] = "close"
  /\ holder' = Nobody
  /\ acknowledged' = TRUE
  /\ Goto(w, "list")
  /\ UNCHANGED <<clock, session, up, done, stamp, victims, files, database, start, closedAt, copied,
                 copyFailed, overtaken>>

\* Sync or Close fails: CreateBackup returns the error, and the copy may or may
\* not be on disk.  done stays set.
CloseFails(w) ==
  /\ pc[w] = "close"
  /\ holder' = Nobody
  /\ \E whole \in BOOLEAN : files' = Fill(stamp[w], [data |-> files[stamp[w]].data, whole |-> whole])
  /\ Goto(w, "idle")
  /\ UNCHANGED <<clock, session, up, done, stamp, victims, database, history>>

-----------------------------------------------------------------------------
(* CleanupBackups, by the writer that made the backup and by main.          *)

AfterCleanup(a) == IF a = Main THEN "exit" ELSE "write"

\* os.ReadDir; what may go is decided here.
List(a) ==
  /\ pc[a] = "list"
  /\ victims' = [victims EXCEPT ![a] = Oldest]
  /\ Goto(a, "remove")
  /\ UNCHANGED <<clock, session, up, done, holder, stamp, files, database, history>>

\* os.Remove of the next one, the oldest.
Remove(a) ==
  /\ pc[a] = "remove"
  /\ \E t \in victims[a] \intersect DOMAIN files :
       /\ \A u \in victims[a] : t =< u
       /\ files' = Restrict(files, DOMAIN files \ {t})
       /\ victims' = [victims EXCEPT ![a] = @ \ {t}]
  /\ UNCHANGED <<clock, session, up, done, holder, pc, stamp, database, history>>

\* Nothing is left to remove, or a Remove fails (always, when the other actor
\* has removed the file) and the rest is left alone; the error is ignored.
CleanupEnds(a) ==
  /\ pc[a] = "remove"
  /\ victims' = [victims EXCEPT ![a] = {}]
  /\ Goto(a, AfterCleanup(a))
  /\ UNCHANGED <<clock, session, up, done, holder, stamp, files, database, history>>

-----------------------------------------------------------------------------

\* The writer's transaction commits, or fails.
Write(w) ==
  /\ pc[w] = "write"
  /\ \/ /\ version < MaxVersion
        /\ version' = version + 1
        /\ UNCHANGED journalMode
        /\ checkpointed' = IF journalMode = "WAL" THEN checkpointed ELSE version + 1
     \/ UNCHANGED database
  /\ Goto(w, "idle")
  /\ UNCHANGED <<clock, session, up, done, holder, stamp, victims, files, history>>

\* SQLite moves the write-ahead log into the database file.
Checkpoint ==
  /\ up
  /\ checkpointed # version
  /\ checkpointed' = version
  /\ UNCHANGED <<clock, session, up, process, files, journalMode, version, history>>

StartSession ==
  /\ ~up /\ session < MaxSessions
  /\ session' = session + 1
  /\ up' = TRUE
  /\ start' = version
  /\ UNCHANGED <<clock, process, files, database, closedAt, copied, copyFailed, overtaken, acknowledged>>

\* Everything the process kept in memory goes.
Forget ==
  /\ up' = FALSE
  /\ done' = FALSE /\ holder' = Nobody
  /\ pc' = [a \in Actors |-> "idle"]
  /\ stamp' = [w \in Writers |-> 0]
  /\ victims' = [a \in Actors |-> {}]
  /\ copied' = FALSE /\ copyFailed' = FALSE /\ overtaken' = FALSE /\ acknowledged' = FALSE

\* main is told to stop; requests may go on while it prunes.
BeginExit ==
  /\ up /\ pc[Main] = "idle"
  /\ Goto(Main, "list")
  /\ UNCHANGED <<clock, session, up, done, holder, stamp, victims, files, database, history>>

\* db.Close closes the connection if it is idle, which checkpoints, and does not
\* wait for it otherwise; the process ends.
Exit ==
  /\ pc[Main] = "exit"
  /\ Forget
  /\ \/ checkpointed' = version /\ closedAt' = version
     \/ UNCHANGED <<checkpointed, closedAt>>
  /\ UNCHANGED <<clock, session, files, journalMode, version, start>>

Crash ==
  /\ up
  /\ Forget
  /\ UNCHANGED <<clock, session, files, database, start, closedAt>>

Tick ==
  /\ clock < MaxClock
  /\ clock' = clock + 1
  /\ UNCHANGED <<session, up, process, files, database, history>>

Backup(w) == Ask(w) \/ Skip(w) \/ Create(w) \/ CreateFails(w) \/ CopyDone(w) \/ CopyFails(w)
             \/ CloseDone(w) \/ CloseFails(w)

Next ==
  \/ \E w \in Writers : Backup(w) \/ Write(w)
  \/ \E a \in Actors : List(a) \/ Remove(a) \/ CleanupEnds(a)
  \/ Checkpoint \/ StartSession \/ BeginExit \/ Exit \/ Crash \/ Tick

Spec == Init /\ [][Next]_vars

-----------------------------------------------------------------------------
(* Properties.                                                             *)

\* Every variable has its type (BackupStore, pathLock and the files on disk), and
\* who is in CreateBackup's critical section holds its lock.
Labels == {"idle", "lock", "copy", "close", "list", "remove", "write", "exit"}
Copies == [data : 0..MaxVersion, whole : BOOLEAN]
TypeProcess ==
  /\ clock \in 0..MaxClock /\ session \in 0..MaxSessions
  /\ up \in BOOLEAN /\ done \in BOOLEAN
  /\ pc \in [Actors -> Labels]
  /\ stamp \in [Writers -> 0..MaxClock]
  /\ victims \in [Actors -> SUBSET (0..MaxClock)]
TypeFiles == DOMAIN files \subseteq 0..MaxClock /\ \A t \in DOMAIN files : files[t] \in Copies
TypeDatabase ==
  /\ journalMode \in JournalModes
  /\ version \in 0..MaxVersion /\ checkpointed \in 0..version
  /\ start \in 0..version /\ closedAt \in 0..version
TypeHistory ==
  copied \in BOOLEAN /\ copyFailed \in BOOLEAN /\ overtaken \in BOOLEAN /\ acknowledged \in BOOLEAN
LockHeld ==
  /\ holder \in Writers \union {Nobody}
  /\ \A w \in Writers : pc[w] \in {"copy", "close"} <=> holder = w
TypeOK == TypeProcess /\ TypeFiles /\ TypeDatabase /\ TypeHistory /\ LockHeld

\* A session that has an acknowledged backup and has written.  If copies failed before,
\* the one that succeeded may have got an older name than a file they left: its request had
\* looked at the clock before it waited for the lock.
Written == up /\ version > start /\ acknowledged /\ ~(copyFailed /\ overtaken)

\* Once a session has written, a whole copy of the database as it was before the
\* session exists, whatever was pruned since, however many requests raced for
\* it and however many copies failed before, unless one that failed left a file with a
\* newer name.  With a write-ahead log the copy may miss what was committed after the
\* connection was last closed, as after a crash; it never misses what was there then,
\* and never contains a write of its own session.
Image(t) ==
  files[t].whole /\ IF journalMode = "WAL" THEN files[t].data \in closedAt..start
                                           ELSE files[t].data = start
PreSessionImage == Written => \E t \in DOMAIN files : Image(t)

\* The session's one backup is left alone by every later request, up to the
\* pruning: it is never truncated or copied again (CreateBackup's done flag).
OneBackupPerSession ==
  [][acknowledged =>
       \A t \in DOMAIN files' : t \in DOMAIN files /\ files'[t] = files[t]]_vars

\* Pruning never takes one of the newest Kept files, although main and a writer
\* prune from listings made at different times.
SparesNewest == \A t \in DOMAIN files \ DOMAIN files' : Cardinality({u \in DOMAIN files : u > t}) >= Kept
NewestKept == [][SparesNewest]_vars

Contract == INSTANCE BackupContract WITH Seconds <- 0..MaxClock, KeepLastN <- Kept

\* The racing requests, with main and the crashes, together do what the contract says: a
\* session copies once, under the newest name, what it found, and writes only
\* after that; neither a crash nor a failed copy makes a request believe there is a backup.
ImplementsBackups == Contract!Spec

(* What the project's documents say and the code does not do.              *)

\* A write happens only in a session whose backup succeeded.
FailedBackupNoWrite == up /\ version > start => acknowledged
=============================================================================
