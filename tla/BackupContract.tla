--------------------------- MODULE BackupContract ---------------------------
(***************************************************************************)
(* What the backups of a database promise, without requests, locks and     *)
(* listings: a session copies the database once, as it found it and under  *)
(* the newest name (an older one only after a copy that failed), before it *)
(* writes; when the copy is acknowledged it is left alone, and pruning     *)
(* takes only files with enough newer ones.  A session may end, or fail to *)
(* copy, at any moment.  BackupStore is shown to implement this.           *)
(***************************************************************************)
EXTENDS Naturals, FiniteSets

CONSTANTS
  Seconds,      \* the names a backup may have
  JournalModes, \* "WAL" and "DELETE", or one of them
  KeepLastN     \* files that pruning leaves

VARIABLES
  journalMode,
  up,           \* a session is running
  files,        \* second |-> backup file
  version,      \* transactions committed to the database
  start,        \* version when the session began
  closedAt,     \* version when the database was last closed
  copied,       \* the session has copied the database to the end
  copyFailed,   \* a copy of the session has failed
  overtaken,    \* the last copy begun is not the newest file
  acknowledged  \* the copy is on the disk, and the session knows it

bvars == <<journalMode, up, files, version, start, closedAt, copied, copyFailed, overtaken, acknowledged>>

Init ==
  /\ journalMode \in JournalModes
  /\ up = FALSE
  /\ files = [t \in {} |-> [data |-> 0, whole |-> TRUE]]
  /\ version = 0 /\ start = 0 /\ closedAt = 0
  /\ copied = FALSE /\ copyFailed = FALSE /\ overtaken = FALSE /\ acknowledged = FALSE

Holds(t, file) == files' = [u \in DOMAIN files \union {t} |-> IF u = t THEN file ELSE files[u]]

NewerThan(t) == {u \in DOMAIN files : u > t}

\* The file of the copy that was last begun, unless it was overtaken.
Latest(t) == overtaken \/ NewerThan(t) = {}

\* The database as the session found it; a write-ahead log may hold back what was
\* committed since it was last closed.
Found(data) == IF journalMode = "WAL" THEN data \in closedAt..start ELSE data = start

Start ==
  /\ ~up
  /\ up' = TRUE /\ start' = version
  /\ UNCHANGED <<journalMode, files, version, closedAt, copied, copyFailed, overtaken, acknowledged>>

\* A copy has the newest name, but for those that follow one that failed.
Begin ==
  /\ up /\ ~copied
  /\ \E t \in Seconds :
       /\ Holds(t, [data |-> 0, whole |-> FALSE])
       /\ overtaken' = (NewerThan(t) # {})
  /\ overtaken' => copyFailed
  /\ UNCHANGED <<journalMode, up, version, start, closedAt, copied, copyFailed, acknowledged>>

\* A file that was overtaken may have been pruned meanwhile.
Complete ==
  /\ up /\ ~copied
  /\ copied' = TRUE
  /\ \/ overtaken /\ UNCHANGED files
     \/ \E t \in DOMAIN files, data \in 0..start :
          Latest(t) /\ Found(data) /\ Holds(t, [data |-> data, whole |-> TRUE])
  /\ UNCHANGED <<journalMode, up, version, start, closedAt, copyFailed, overtaken, acknowledged>>

FailCopy ==
  /\ up /\ ~copied
  /\ copyFailed' = TRUE
  /\ UNCHANGED <<journalMode, up, files, version, start, closedAt, copied, overtaken, acknowledged>>

Acknowledge ==
  /\ up /\ copied
  /\ acknowledged' = TRUE
  /\ UNCHANGED <<journalMode, up, files, version, start, closedAt, copied, copyFailed, overtaken>>

\* The copy does not reach the disk.
Spoil ==
  /\ up /\ copied /\ ~acknowledged
  /\ \E t \in DOMAIN files : Latest(t) /\ Holds(t, [data |-> files[t].data, whole |-> FALSE])
  /\ UNCHANGED <<journalMode, up, version, start, closedAt, copied, copyFailed, overtaken, acknowledged>>

Prune ==
  /\ up
  /\ \E t \in DOMAIN files :
       /\ Cardinality(NewerThan(t)) >= KeepLastN
       /\ files' = [u \in DOMAIN files \ {t} |-> files[u]]
  /\ UNCHANGED <<journalMode, up, version, start, closedAt, copied, copyFailed, overtaken, acknowledged>>

Write ==
  /\ up /\ copied
  /\ version' = version + 1
  /\ UNCHANGED <<journalMode, up, files, start, closedAt, copied, copyFailed, overtaken, acknowledged>>

\* The connection may be closed, or not.
End ==
  /\ up
  /\ up' = FALSE /\ copied' = FALSE /\ copyFailed' = FALSE /\ overtaken' = FALSE
  /\ acknowledged' = FALSE
  /\ closedAt' \in {closedAt, version}
  /\ UNCHANGED <<journalMode, files, version, start>>

Next == Start \/ Begin \/ Complete \/ FailCopy \/ Acknowledge \/ Spoil \/ Prune \/ Write \/ End

Spec == Init /\ [][Next]_bvars
=============================================================================
