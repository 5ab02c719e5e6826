------------------------- MODULE BackupStoreProofs --------------------------
(***************************************************************************)
(* Proofs about BackupStore, for any number of requests, sessions, seconds *)
(* and versions, any setting and either journal mode.                      *)
(***************************************************************************)
EXTENDS BackupStore, FiniteSetTheorems, TLAPS

-----------------------------------------------------------------------------
(* The inductive invariant.                                                *)

\* The session's flags and its writers agree: the flag is set by the copy that is
\* done, nobody copies after it, and who prunes or writes comes after it.
DoneIsCopied == done = copied
Backed == \A w \in Writers : pc[w] \in {"close", "list", "remove", "write"} => done
CopyingFirst == \A w \in Writers : pc[w] = "copy" => ~done
Acknowledged == acknowledged => done /\ holder = Nobody
\* Nothing runs between two sessions.
Down == ~up => ~done /\ ~copyFailed /\ \A a \in Actors : pc[a] = "idle"
\* Before the copy the database is as the session found it.
Unwritten == up /\ ~copied => version = start
Session == DoneIsCopied /\ Backed /\ CopyingFirst /\ Acknowledged /\ Down /\ Unwritten

\* What an actor has yet to remove is not among the newest, and stays so.
Above(t) == {u \in DOMAIN files : u > t}
Listed == \A a \in Actors : \A t \in victims[a] : Cardinality(Above(t)) >= Kept

\* The connection that was closed left nothing behind, and without a write-ahead
\* log nothing is ever behind.
Checkpointed == closedAt =< checkpointed /\ (journalMode = "DELETE" => checkpointed = version)

\* Nothing was written or asked in the future.
Past == (\A t \in DOMAIN files : t =< clock) /\ \A w \in Writers : stamp[w] =< clock
\* A session's first backup gets the newest name.
Waiting ==
  ~done /\ holder = Nobody /\ ~copyFailed =>
    \A w \in Writers : pc[w] # "idle" => \A t \in DOMAIN files : t =< stamp[w]

\* The copy being made, or made, is the newest file.
Newest(t) == t \in DOMAIN files /\ \A u \in DOMAIN files : u =< t
Copying == \A w \in Writers : pc[w] = "copy" /\ ~overtaken => Newest(stamp[w])
Closing == \A w \in Writers : pc[w] = "close" /\ ~overtaken => Newest(stamp[w]) /\ Image(stamp[w])
Made == acknowledged /\ ~overtaken => \E t \in DOMAIN files : Newest(t) /\ Image(t)

\* Only after a copy that failed.
OvertakenLate == overtaken => copyFailed

IInv == TypeOK /\ Session /\ Listed /\ Checkpointed /\ Past /\ Waiting /\ OvertakenLate
        /\ Copying /\ Closing /\ Made

-----------------------------------------------------------------------------
(* Files and their number.                                                 *)

\* At least one backup is kept.
LEMMA KeptPositive == Kept \in Nat /\ Kept >= 1
BY BackupAssumption DEF Kept

\* There are finitely many files.
LEMMA AboveFinite ==
  ASSUME TypeFiles, NEW t
  PROVE  IsFiniteSet(Above(t)) /\ Cardinality(Above(t)) \in Nat
<1>1. IsFiniteSet(0..MaxClock)
  BY FS_Interval, BackupAssumption
<1>2. Above(t) \in SUBSET (0..MaxClock)
  BY DEF Above, TypeFiles
<1>. QED BY <1>1, <1>2, FS_Subset, FS_CardinalityType

\* So there are after a step.
LEMMA AboveFiniteNext ==
  ASSUME TypeFiles', NEW t
  PROVE  IsFiniteSet(Above(t)') /\ Cardinality(Above(t)') \in Nat
<1>1. IsFiniteSet(0..MaxClock)
  BY FS_Interval, BackupAssumption
<1>2. Above(t)' \in SUBSET (0..MaxClock)
  BY DEF Above, TypeFiles
<1>. QED BY <1>1, <1>2, FS_Subset, FS_CardinalityType

\* A new file leaves no fewer in front of another.
LEMMA AboveGrows ==
  ASSUME TypeFiles, TypeFiles', DOMAIN files \subseteq DOMAIN files', NEW t,
         Cardinality(Above(t)) >= Kept
  PROVE  Cardinality(Above(t)') >= Kept
<1>1. Above(t) \in SUBSET Above(t)'
  BY DEF Above
<1>2. IsFiniteSet(Above(t)') /\ Cardinality(Above(t)') \in Nat
  BY AboveFiniteNext
<1>3. Cardinality(Above(t)) =< Cardinality(Above(t)')
  BY <1>1, <1>2, FS_Subset
<1>. QED BY <1>2, <1>3, AboveFinite, KeptPositive

\* Of the files that have Kept newer ones, one goes: Remove takes an old file.
LEMMA OldFileGoes ==
  ASSUME TypeOK, Listed, NEW a \in Actors, Remove(a)
  PROVE  \E t \in DOMAIN files :
            /\ t \in victims[a] /\ Cardinality(Above(t)) >= Kept
            /\ DOMAIN files' = DOMAIN files \ {t}
            /\ \A u \in DOMAIN files' : files'[u] = files[u]
            /\ victims' = [victims EXCEPT ![a] = @ \ {t}]
BY DEF Remove, Restrict, Listed

\* The newest file is never taken.
LEMMA NewestSpared ==
  ASSUME TypeOK, Listed, NEW a \in Actors, Remove(a), NEW u, Newest(u)
  PROVE  Newest(u)' /\ (Image(u) => Image(u)')
<1>1. PICK t \in DOMAIN files :
            /\ t \in victims[a] /\ Cardinality(Above(t)) >= Kept
            /\ DOMAIN files' = DOMAIN files \ {t}
            /\ \A v \in DOMAIN files' : files'[v] = files[v]
            /\ victims' = [victims EXCEPT ![a] = @ \ {t}]
  BY OldFileGoes
<1>2. t # u
  <2>1. SUFFICES ASSUME t = u PROVE FALSE
    OBVIOUS
  <2>2. Above(t) = {}
    BY <2>1 DEF Newest, Above, TypeOK, TypeFiles
  <2>. QED BY <1>1, <2>2, FS_EmptySet, KeptPositive
<1>3. UNCHANGED <<journalMode, closedAt, start>>
  BY DEF Remove, database, history
<1>4. Newest(u)'
  BY <1>1, <1>2 DEF Newest
<1>. QED BY <1>1, <1>2, <1>3, <1>4 DEF Newest, Image

-----------------------------------------------------------------------------
(* Type correctness.                                                       *)

\* A process that ends leaves nothing in memory.
LEMMA Forgotten ==
  ASSUME Forget
  PROVE  /\ up' = FALSE /\ done' = FALSE /\ pc' \in [Actors -> Labels]
         /\ stamp' \in [Writers -> 0..MaxClock] /\ victims' \in [Actors -> SUBSET (0..MaxClock)]
<1>1. pc' = [a \in Actors |-> "idle"] /\ "idle" \in Labels
  BY DEF Forget, Labels
<1>2. stamp' = [w \in Writers |-> 0] /\ 0 \in 0..MaxClock
  BY BackupAssumption DEF Forget
<1>3. victims' = [a \in Actors |-> {}]
  BY DEF Forget
<1>. QED BY <1>1, <1>2, <1>3 DEF Forget

\* The process's variables keep their types.
LEMMA ProcessTyped ==
  ASSUME TypeOK, [Next]_vars
  PROVE  TypeProcess'
<1>1. CASE UNCHANGED vars
  BY <1>1 DEF vars, process, TypeOK, TypeProcess
<1>2. CASE \E w \in Writers : Backup(w) \/ Write(w)
  <2>1. PICK w \in Writers : Backup(w) \/ Write(w)
    BY <1>2
  <2>2. UNCHANGED <<clock, session, up, victims>>
    BY <2>1 DEF Backup, Write, Ask, Skip, Create, CreateFails, CopyDone, CopyFails, CloseDone, CloseFails
  <2>3. done' \in BOOLEAN
    BY <2>1 DEF Backup, Write, Ask, Skip, Create, CreateFails, CopyDone, CopyFails, CloseDone, CloseFails, TypeOK, TypeProcess
  <2>4. stamp' \in [Writers -> 0..MaxClock]
    BY <2>1 DEF Backup, Write, Ask, Skip, Create, CreateFails, CopyDone, CopyFails, CloseDone, CloseFails, TypeOK, TypeProcess
  <2>5. \E l \in Labels : Goto(w, l)
    BY <2>1 DEF Backup, Write, Ask, Skip, Create, CreateFails, CopyDone, CopyFails, CloseDone, CloseFails, Labels
  <2>6. pc' \in [Actors -> Labels]
    BY <2>5 DEF Goto, TypeOK, TypeProcess
  <2>. QED BY <2>2, <2>3, <2>4, <2>6 DEF TypeOK, TypeProcess
<1>3. CASE \E a \in Actors : List(a) \/ CleanupEnds(a)
  <2>1. CASE \E a \in Actors : List(a)
    BY <2>1 DEF List, Goto, Oldest, TypeOK, TypeProcess, TypeFiles, Labels
  <2>2. CASE \E a \in Actors : CleanupEnds(a)
    BY <2>2 DEF CleanupEnds, Goto, AfterCleanup, TypeOK, TypeProcess, Labels
  <2>. QED BY <1>3, <2>1, <2>2
<1>4. CASE \E a \in Actors : Remove(a)
  BY <1>4 DEF Remove, TypeOK, TypeProcess
<1>5. CASE Checkpoint
  BY <1>5 DEF Checkpoint, process, TypeOK, TypeProcess
<1>6. CASE StartSession \/ Tick
  <2>1. clock \in 0..MaxClock /\ session \in 0..MaxSessions /\ MaxClock \in Nat /\ MaxSessions \in Nat
    BY BackupAssumption DEF TypeOK, TypeProcess
  <2>2. clock' \in 0..MaxClock /\ session' \in 0..MaxSessions
    BY <1>6, <2>1 DEF StartSession, Tick
  <2>. QED BY <1>6, <2>2 DEF StartSession, Tick, process, TypeOK, TypeProcess
<1>7. CASE BeginExit
  BY <1>7 DEF BeginExit, Goto, TypeOK, TypeProcess, Labels
<1>8. CASE Exit \/ Crash
  BY <1>8, BackupAssumption, Forgotten DEF Exit, Crash, TypeOK, TypeProcess
<1>. QED BY <1>1, <1>2, <1>3, <1>4, <1>5, <1>6, <1>7, <1>8 DEF Next

\* The files are copies of the database, named by the past.
LEMMA FilesTyped ==
  ASSUME TypeOK, [Next]_vars
  PROVE  TypeFiles'
<1>1. CASE UNCHANGED files
  BY <1>1 DEF TypeOK, TypeFiles
<1>2. CASE \E w \in Writers : Create(w) \/ CopyDone(w) \/ CloseFails(w)
  <2>1. PICK w \in Writers : Create(w) \/ CopyDone(w) \/ CloseFails(w)
    BY <1>2
  <2>2. PICK file \in Copies : files' = Put(stamp[w], file) \/ files' = files
    <3>1. CASE Create(w)
      <4>1. [data |-> 0, whole |-> FALSE] \in Copies
        BY BackupAssumption DEF Copies
      <4>. QED BY <3>1, <4>1 DEF Create
    <3>2. CASE CopyDone(w)
      <4>1. [data |-> checkpointed, whole |-> TRUE] \in Copies
        BY BackupAssumption DEF Copies, TypeOK, TypeDatabase
      <4>. QED BY <3>2, <4>1 DEF CopyDone, Fill
    <3>3. CASE CloseFails(w)
      <4>1. PICK whole \in BOOLEAN : files' = Fill(stamp[w], [data |-> files[stamp[w]].data, whole |-> whole])
        BY <3>3 DEF CloseFails
      <4>2. CASE stamp[w] \notin DOMAIN files
        <5>1. files' = files
          BY <4>1, <4>2 DEF Fill
        <5>2. [data |-> 0, whole |-> FALSE] \in Copies
          BY BackupAssumption DEF Copies
        <5>. QED BY <5>1, <5>2
      <4>3. CASE stamp[w] \in DOMAIN files
        <5>1. [data |-> files[stamp[w]].data, whole |-> whole] \in Copies
          BY <4>3 DEF Copies, TypeOK, TypeFiles
        <5>. QED BY <4>1, <4>3, <5>1 DEF Fill
      <4>. QED BY <4>2, <4>3
    <3>. QED BY <2>1, <3>1, <3>2, <3>3
  <2>3. stamp[w] \in 0..MaxClock
    BY DEF TypeOK, TypeProcess
  <2>. QED BY <2>2, <2>3 DEF Put, TypeOK, TypeFiles
<1>3. CASE \E a \in Actors : Remove(a)
  BY <1>3 DEF Remove, Restrict, TypeOK, TypeFiles
<1>. QED BY <1>1, <1>2, <1>3 DEF Next, Backup, Ask, Skip, CreateFails, CopyFails, CloseDone, Write, List, CleanupEnds,
        Checkpoint, StartSession, BeginExit, Exit, Crash, Tick, vars

\* The versions stay in their order.
LEMMA DatabaseTyped ==
  ASSUME TypeOK, [Next]_vars
  PROVE  TypeDatabase'
<1>1. CASE UNCHANGED <<database, start, closedAt>>
  BY <1>1 DEF database, TypeOK, TypeDatabase
<1>2. CASE (\E w \in Writers : Write(w)) \/ Checkpoint \/ StartSession \/ Exit
  BY <1>2, BackupAssumption DEF Write, Checkpoint, StartSession, Exit, database, history, TypeOK, TypeDatabase
<1>. QED BY <1>1, <1>2 DEF Next, Backup, Ask, Skip, Create, CreateFails, CopyDone, CopyFails, CloseDone, CloseFails,
        List, CleanupEnds, Remove, BeginExit, Crash, Tick, vars, history

\* The session's flags stay Boolean.
LEMMA HistoryTyped ==
  ASSUME TypeOK, [Next]_vars
  PROVE  TypeHistory'
<1>. USE DEF TypeOK, TypeHistory
<1>1. CASE UNCHANGED history
  BY <1>1 DEF history
<1>2. CASE \E w \in Writers : Create(w)
  BY <1>2 DEF Create
<1>3. CASE \E w \in Writers : CopyDone(w) \/ CopyFails(w) \/ CloseDone(w)
  BY <1>3 DEF CopyDone, CopyFails, CloseDone
<1>4. CASE StartSession \/ Exit \/ Crash
  BY <1>4 DEF StartSession, Exit, Crash, Forget
<1>. QED BY <1>1, <1>2, <1>3, <1>4 DEF Next, Backup, Ask, Skip, CreateFails, CloseFails, Write, List, CleanupEnds, Remove,
        Checkpoint, BeginExit, Tick, vars

\* The lock is held by the one who copies.
LEMMA LockKept ==
  ASSUME TypeOK, [Next]_vars
  PROVE  LockHeld'
<1>. USE BackupAssumption DEF TypeOK, TypeProcess, LockHeld, Actors
<1>1. CASE UNCHANGED vars
  BY <1>1 DEF vars, process
<1>2. CASE \E w \in Writers : Backup(w) \/ Write(w)
  <2>1. CASE \E w \in Writers : Create(w)
    BY <2>1 DEF Create, Goto
  <2>2. CASE \E w \in Writers : Ask(w) \/ Skip(w) \/ CreateFails(w) \/ Write(w)
    BY <2>2 DEF Ask, Skip, CreateFails, Write, Goto
  <2>3. CASE \E w \in Writers : CopyDone(w) \/ CopyFails(w)
    BY <2>3 DEF CopyDone, CopyFails, Goto
  <2>4. CASE \E w \in Writers : CloseDone(w) \/ CloseFails(w)
    BY <2>4 DEF CloseDone, CloseFails, Goto
  <2>. QED BY <1>2, <2>1, <2>2, <2>3, <2>4 DEF Backup
<1>3. CASE \E a \in Actors : List(a) \/ CleanupEnds(a) \/ Remove(a)
  BY <1>3 DEF List, CleanupEnds, Remove, Goto, AfterCleanup
<1>4. CASE Checkpoint \/ StartSession \/ BeginExit \/ Tick
  BY <1>4 DEF Checkpoint, StartSession, BeginExit, Tick, Goto, process
<1>5. CASE Exit \/ Crash
  BY <1>5 DEF Exit, Crash, Forget
<1>. QED BY <1>1, <1>2, <1>3, <1>4, <1>5 DEF Next

\* Every step keeps the types.
LEMMA TypesKept ==
  ASSUME TypeOK, [Next]_vars
  PROVE  TypeOK'
BY ProcessTyped, FilesTyped, DatabaseTyped, HistoryTyped, LockKept DEF TypeOK

-----------------------------------------------------------------------------
(* A session.                                                              *)

\* The flag is set by the copy alone.
LEMMA DoneIsCopiedKept ==
  ASSUME TypeOK, DoneIsCopied, [Next]_vars
  PROVE  DoneIsCopied'
<1>1. CASE UNCHANGED <<done, copied>>
  BY <1>1 DEF DoneIsCopied
<1>2. CASE \E w \in Writers : CopyDone(w)
  BY <1>2 DEF CopyDone, DoneIsCopied
<1>3. CASE Exit \/ Crash
  BY <1>3 DEF Exit, Crash, Forget, DoneIsCopied
<1>. QED BY <1>1, <1>2, <1>3 DEF Next, Backup, Ask, Skip, Create, CreateFails, CopyFails, CloseDone, CloseFails, Write, List,
        CleanupEnds, Remove, Checkpoint, StartSession, BeginExit, Tick, vars, process, history

\* Who prunes or writes comes after the copy, and who copies does not.
LEMMA BackedKept ==
  ASSUME TypeOK, Backed, CopyingFirst, [Next]_vars
  PROVE  Backed' /\ CopyingFirst'
<1>. USE BackupAssumption DEF TypeOK, TypeProcess, LockHeld, Actors, Backed, CopyingFirst
<1>1. CASE UNCHANGED vars
  BY <1>1 DEF vars, process
<1>2. CASE \E w \in Writers : Ask(w) \/ Skip(w) \/ Create(w) \/ CreateFails(w)
  <2>1. CASE \E w \in Writers : Create(w)
    BY <2>1 DEF Create, Goto
  <2>2. CASE \E w \in Writers : Ask(w) \/ Skip(w) \/ CreateFails(w)
    BY <2>2 DEF Ask, Skip, AlreadyDone, CreateFails, Goto
  <2>. QED BY <1>2, <2>1, <2>2
<1>3. CASE \E w \in Writers : CopyDone(w) \/ CopyFails(w)
  BY <1>3 DEF CopyDone, CopyFails, Goto
<1>4. CASE \E w \in Writers : CloseDone(w) \/ CloseFails(w) \/ Write(w)
  BY <1>4 DEF CloseDone, CloseFails, Write, Goto
<1>5. CASE \E a \in Actors : List(a) \/ CleanupEnds(a) \/ Remove(a)
  BY <1>5 DEF List, CleanupEnds, Remove, Goto, AfterCleanup
<1>6. CASE Checkpoint \/ StartSession \/ BeginExit \/ Tick
  BY <1>6 DEF Checkpoint, StartSession, BeginExit, Tick, Goto, process
<1>7. CASE Exit \/ Crash
  BY <1>7 DEF Exit, Crash, Forget
<1>. QED BY <1>1, <1>2, <1>3, <1>4, <1>5, <1>6, <1>7 DEF Next, Backup

\* After a backup was acknowledged the lock is free for good.
LEMMA AcknowledgedKept ==
  ASSUME TypeOK, Backed, Acknowledged, [Next]_vars
  PROVE  Acknowledged'
<1>1. CASE UNCHANGED <<acknowledged, done, holder>>
  BY <1>1 DEF Acknowledged
<1>2. CASE \E w \in Writers : Create(w)
  BY <1>2 DEF Create, Acknowledged, history
<1>3. CASE \E w \in Writers : CopyDone(w) \/ CopyFails(w) \/ CloseFails(w)
  <2>1. PICK w \in Writers : CopyDone(w) \/ CopyFails(w) \/ CloseFails(w)
    BY <1>3
  <2>2. holder = w /\ w # Nobody
    BY <2>1, BackupAssumption DEF CopyDone, CopyFails, CloseFails, TypeOK, LockHeld
  <2>3. UNCHANGED acknowledged
    BY <2>1 DEF CopyDone, CopyFails, CloseFails, history
  <2>. QED BY <2>2, <2>3 DEF Acknowledged
<1>4. CASE \E w \in Writers : CloseDone(w)
  BY <1>4 DEF CloseDone, Backed, Acknowledged
<1>5. CASE Exit \/ Crash
  BY <1>5 DEF Exit, Crash, Forget, Acknowledged
<1>. QED BY <1>1, <1>2, <1>3, <1>4, <1>5 DEF Next, Backup, Ask, Skip, CreateFails, Write, List, CleanupEnds, Remove,
        Checkpoint, StartSession, BeginExit, Tick, vars, process, history

\* Only a running session acts.
LEMMA DownKept ==
  ASSUME TypeOK, Down, [Next]_vars
  PROVE  Down'
<1>1. CASE UNCHANGED vars
  BY <1>1 DEF Down, vars, process, history
<1>2. CASE \E w \in Writers : Backup(w) \/ Write(w)
  <2>1. up
    BY <1>2 DEF Backup, Write, Ask, Skip, Create, CreateFails, CopyDone, CopyFails, CloseDone, CloseFails, Down, Actors
  <2>. QED BY <1>2, <2>1 DEF Backup, Write, Ask, Skip, Create, CreateFails, CopyDone, CopyFails, CloseDone, CloseFails, Down
<1>3. CASE \E a \in Actors : List(a) \/ CleanupEnds(a) \/ Remove(a)
  <2>1. up
    BY <1>3 DEF List, CleanupEnds, Remove, Down
  <2>. QED BY <1>3, <2>1 DEF List, CleanupEnds, Remove, Down
<1>4. CASE Checkpoint \/ StartSession \/ BeginExit \/ Tick
  BY <1>4 DEF Checkpoint, StartSession, BeginExit, Tick, process, history, Down
<1>5. CASE Exit \/ Crash
  BY <1>5 DEF Exit, Crash, Forget, Down
<1>. QED BY <1>1, <1>2, <1>3, <1>4, <1>5 DEF Next

\* Nothing is written before the copy.
LEMMA UnwrittenKept ==
  ASSUME TypeOK, Session, [Next]_vars
  PROVE  Unwritten'
<1>1. CASE UNCHANGED <<up, version, start>> /\ (copied => copied')
  BY <1>1 DEF Unwritten, Session
<1>2. CASE \E w \in Writers : Write(w)
  BY <1>2 DEF Write, Backed, DoneIsCopied, history, Unwritten, Session
<1>3. CASE StartSession
  BY <1>3 DEF StartSession, Unwritten, database
<1>4. CASE Exit \/ Crash
  BY <1>4 DEF Exit, Crash, Forget, Unwritten
<1>5. \A w \in Writers : Backup(w) => UNCHANGED <<up, version, start>> /\ (copied => copied')
  <2>1. \A w \in Writers : Create(w) => UNCHANGED <<up, version, start>> /\ (copied => copied')
    BY DEF Create, database
  <2>2. \A w \in Writers : Ask(w) \/ Skip(w) \/ CreateFails(w) \/ CopyDone(w) =>
          UNCHANGED <<up, version, start>> /\ (copied => copied')
    BY DEF Ask, Skip, CreateFails, CopyDone, database, history
  <2>3. \A w \in Writers : CopyFails(w) \/ CloseDone(w) \/ CloseFails(w) =>
          UNCHANGED <<up, version, start>> /\ (copied => copied')
    BY DEF CopyFails, CloseDone, CloseFails, database, history
  <2>. QED BY <2>1, <2>2, <2>3 DEF Backup
<1>6. \A a \in Actors : List(a) \/ CleanupEnds(a) \/ Remove(a) => UNCHANGED <<up, version, start, copied>>
  BY DEF List, CleanupEnds, Remove, database, history
<1>7. Checkpoint \/ BeginExit \/ Tick \/ UNCHANGED vars => UNCHANGED <<up, version, start, copied>>
  BY DEF Checkpoint, BeginExit, Tick, database, history, vars
<1>. QED BY <1>1, <1>2, <1>3, <1>4, <1>5, <1>6, <1>7 DEF Next

\* Every step keeps the session's part of the invariant.
LEMMA SessionKept ==
  ASSUME TypeOK, Session, [Next]_vars
  PROVE  Session'
BY DoneIsCopiedKept, BackedKept, AcknowledgedKept, DownKept, UnwrittenKept DEF Session

-----------------------------------------------------------------------------
(* Pruning.                                                                *)

\* What is yet to be removed stays old: new files are newer or older, and of two
\* actors that prune the one never takes what the other's rests on.
LEMMA ListedKept ==
  ASSUME TypeOK, Listed, TypeOK', [Next]_vars
  PROVE  Listed'
<1>1. CASE UNCHANGED <<victims, files>>
  BY <1>1 DEF Listed, Above
<1>2. CASE UNCHANGED victims /\ DOMAIN files \subseteq DOMAIN files'
  BY <1>2, AboveGrows DEF Listed, TypeOK
<1>3. CASE \E a \in Actors : List(a)
  <2>1. PICK a \in Actors : List(a)
    BY <1>3
  <2>2. UNCHANGED files /\ victims' = [victims EXCEPT ![a] = Oldest]
    BY <2>1 DEF List
  <2>. QED BY <2>2 DEF Listed, Above, Oldest, TypeOK, TypeProcess
<1>4. CASE \E a \in Actors : CleanupEnds(a)
  BY <1>4 DEF CleanupEnds, Listed, Above, TypeOK, TypeProcess
<1>5. CASE \E a \in Actors : Remove(a)
  <2>1. PICK a \in Actors : Remove(a)
    BY <1>5
  <2>2. PICK t \in DOMAIN files :
            /\ t \in victims[a] /\ Cardinality(Above(t)) >= Kept
            /\ DOMAIN files' = DOMAIN files \ {t}
            /\ \A u \in DOMAIN files' : files'[u] = files[u]
            /\ victims' = [victims EXCEPT ![a] = @ \ {t}]
    BY <2>1, OldFileGoes
  <2>3. \A b \in Actors : victims'[b] \subseteq victims[b]
    BY <2>2 DEF TypeOK, TypeProcess
  <2>4. Above(t)' = Above(t) /\ t \in Nat
    <3>1. DOMAIN files \subseteq Nat
      BY BackupAssumption DEF TypeOK, TypeFiles
    <3>. QED BY <2>2, <3>1 DEF Above
  <2>5. ASSUME NEW b \in Actors, NEW u \in victims'[b]
        PROVE  Cardinality(Above(u)') >= Kept
    <3>1. u \in Nat /\ Cardinality(Above(u)) >= Kept
      BY <2>3, BackupAssumption DEF Listed, TypeOK, TypeProcess
    <3>2. CASE u < t
      <4>1. Above(t) \in SUBSET Above(u)'
        <5>1. Above(t)' \subseteq Above(u)'
          BY <2>2, <2>4, <3>1, <3>2, BackupAssumption DEF Above, TypeOK, TypeFiles
        <5>. QED BY <2>4, <5>1
      <4>2. IsFiniteSet(Above(u)') /\ Cardinality(Above(u)') \in Nat
        BY AboveFiniteNext DEF TypeOK
      <4>3. Cardinality(Above(t)) =< Cardinality(Above(u)')
        BY <4>1, <4>2, FS_Subset
      <4>. QED BY <2>2, <4>2, <4>3, AboveFinite, KeptPositive DEF TypeOK
    <3>3. CASE ~ (u < t)
      <4>1. Above(u)' = Above(u)
        BY <2>2, <2>4, <3>3 DEF Above
      <4>. QED BY <3>1, <4>1
    <3>. QED BY <3>2, <3>3
  <2>. QED BY <2>5 DEF Listed
<1>6. CASE Exit \/ Crash
  BY <1>6 DEF Exit, Crash, Forget, Listed
<1>7. \A w \in Writers : Create(w) \/ CopyDone(w) \/ CloseFails(w) =>
          UNCHANGED victims /\ DOMAIN files \subseteq DOMAIN files'
  BY DEF Create, CopyDone, CloseFails, Fill, Put
<1>. QED BY <1>1, <1>2, <1>3, <1>4, <1>5, <1>6, <1>7 DEF Next, Backup, Ask, Skip, CreateFails, CopyFails, CloseDone, Write,
        Checkpoint, StartSession, BeginExit, Tick, vars, process

-----------------------------------------------------------------------------
(* The copy of the database as the session found it.                       *)

\* What was closed is in the database file.
LEMMA CheckpointedKept ==
  ASSUME TypeOK, Checkpointed, [Next]_vars
  PROVE  Checkpointed'
<1>0. /\ version \in Nat /\ checkpointed \in Nat /\ closedAt \in Nat
      /\ checkpointed =< version /\ journalMode \in {"WAL", "DELETE"}
  BY BackupAssumption DEF TypeOK, TypeDatabase
<1>1. CASE UNCHANGED <<closedAt, database>>
  BY <1>1 DEF Checkpointed, database
<1>2. CASE (\E w \in Writers : Write(w)) \/ Checkpoint \/ Exit
  BY <1>0, <1>2 DEF Write, Checkpoint, Exit, Checkpointed, database, history
<1>. QED BY <1>1, <1>2 DEF Next, Backup, Ask, Skip, Create, CreateFails, CopyDone, CopyFails, CloseDone, CloseFails,
        List, CleanupEnds, Remove, StartSession, BeginExit, Crash, Tick, vars, history

\* The clock does not go back.
LEMMA PastKept ==
  ASSUME TypeOK, Past, [Next]_vars
  PROVE  Past'
<1>0. /\ clock \in Nat /\ clock' \in Nat /\ clock =< clock'
      /\ DOMAIN files \subseteq Nat /\ \A w \in Writers : stamp[w] \in Nat
  <2>1. clock' = clock \/ clock' = clock + 1
    BY DEF Next, Backup, Ask, Skip, Create, CreateFails, CopyDone, CopyFails, CloseDone, CloseFails, Write, List, CleanupEnds,
       Remove, Checkpoint, StartSession, BeginExit, Exit, Crash, Tick, vars
  <2>2. clock \in Nat
    BY BackupAssumption DEF TypeOK, TypeProcess
  <2>. QED BY <2>1, <2>2, BackupAssumption DEF TypeOK, TypeProcess, TypeFiles
<1>1. CASE UNCHANGED stamp /\ DOMAIN files' \subseteq DOMAIN files
  BY <1>0, <1>1 DEF Past
<1>2. CASE \E w \in Writers : Ask(w)
  BY <1>0, <1>2 DEF Ask, Past, TypeOK, TypeProcess
<1>3. CASE \E w \in Writers : UNCHANGED <<clock, stamp>> /\ DOMAIN files' \subseteq DOMAIN files \union {stamp[w]}
  BY <1>3 DEF Past
<1>4. \A w \in Writers : Create(w) \/ CopyDone(w) \/ CloseFails(w) =>
          UNCHANGED <<clock, stamp>> /\ DOMAIN files' \subseteq DOMAIN files \union {stamp[w]}
  BY DEF Create, CopyDone, CloseFails, Fill, Put
<1>5. \A a \in Actors : Remove(a) => UNCHANGED stamp /\ DOMAIN files' \subseteq DOMAIN files
  BY DEF Remove, Restrict
<1>6. CASE Exit \/ Crash
  BY <1>0, <1>6 DEF Exit, Crash, Forget, Past
<1>. QED BY <1>1, <1>2, <1>3, <1>4, <1>5, <1>6 DEF Next, Backup, Skip, CreateFails, CopyFails, CloseDone, Write, List,
        CleanupEnds, Checkpoint, StartSession, BeginExit, Tick, vars, process

\* The first copy of a session is named after every file there is.
LEMMA WaitingKept ==
  ASSUME TypeOK, Session, Past, Waiting, [Next]_vars
  PROVE  Waiting'
<1>0. \A w \in Writers : pc[w] \in {"copy", "close"} <=> holder = w
  BY DEF TypeOK, LockHeld
<1>1. CASE UNCHANGED <<done, holder, copyFailed, pc, stamp>> /\ DOMAIN files' \subseteq DOMAIN files
  BY <1>1 DEF Waiting
<1>2. CASE \E w \in Writers : Ask(w)
  <2>1. PICK w \in Writers : Ask(w)
    BY <1>2
  <2>2. /\ UNCHANGED <<done, holder, copyFailed, files>>
        /\ stamp'[w] = clock /\ \A v \in Writers \ {w} : stamp'[v] = stamp[v] /\ pc'[v] = pc[v]
    BY <2>1 DEF Ask, Goto, history, TypeOK, TypeProcess
  <2>. QED BY <2>2 DEF Waiting, Past
<1>3. CASE \E w \in Writers : Skip(w) \/ CopyDone(w)
  BY <1>3 DEF Skip, AlreadyDone, CopyDone, Waiting
<1>4. CASE \E w \in Writers : Create(w)
  BY <1>4, BackupAssumption DEF Create, Waiting
<1>5. CASE \E w \in Writers : CreateFails(w)
  BY <1>5 DEF CreateFails, Goto, history, Waiting, TypeOK, TypeProcess
<1>6. CASE \E w \in Writers : CopyFails(w)
  BY <1>6 DEF CopyFails, Waiting
<1>7. CASE \E w \in Writers : CloseDone(w) \/ CloseFails(w) \/ Write(w)
  BY <1>7 DEF CloseDone, CloseFails, Write, Waiting, Session, Backed
<1>8. CASE \E a \in Actors : List(a) \/ CleanupEnds(a)
  <2>1. PICK a \in Actors : List(a) \/ CleanupEnds(a)
    BY <1>8
  <2>2. CASE a \in Writers
    BY <2>1, <2>2 DEF List, CleanupEnds, Waiting, Session, Backed
  <2>3. CASE a = Main
    <3>1. UNCHANGED <<done, holder, copyFailed, stamp, files>>
      BY <2>1 DEF List, CleanupEnds, history
    <3>2. \A w \in Writers : pc'[w] = pc[w]
      BY <2>1, <2>3, BackupAssumption DEF List, CleanupEnds, Goto, TypeOK, TypeProcess, Actors
    <3>. QED BY <3>1, <3>2 DEF Waiting
  <2>. QED BY <2>2, <2>3 DEF Actors
<1>9. CASE BeginExit
  <2>1. UNCHANGED <<done, holder, copyFailed, stamp, files>>
    BY <1>9 DEF BeginExit, history
  <2>2. \A w \in Writers : pc'[w] = pc[w]
    BY <1>9, BackupAssumption DEF BeginExit, Goto, TypeOK, TypeProcess, Actors
  <2>. QED BY <2>1, <2>2 DEF Waiting
<1>10. CASE Exit \/ Crash
  BY <1>10 DEF Exit, Crash, Forget, Waiting, Actors
<1>11. \A a \in Actors : Remove(a) => UNCHANGED <<done, holder, copyFailed, pc, stamp>> /\ DOMAIN files' \subseteq DOMAIN files
  BY DEF Remove, Restrict, history
<1>12. Checkpoint \/ StartSession \/ Tick \/ UNCHANGED vars =>
          UNCHANGED <<done, holder, copyFailed, pc, stamp>> /\ DOMAIN files' \subseteq DOMAIN files
  BY DEF Checkpoint, StartSession, Tick, vars, process, history
<1>. QED BY <1>1, <1>2, <1>3, <1>4, <1>5, <1>6, <1>7, <1>8, <1>9, <1>10, <1>11, <1>12 DEF Next, Backup

\* A copy gets an older name than a file only after one that failed: the requests that
\* wait for the lock have looked at the clock after the files of other sessions were named.
LEMMA OvertakenKept ==
  ASSUME TypeOK, Waiting, OvertakenLate, [Next]_vars
  PROVE  OvertakenLate'
<1>1. CASE UNCHANGED overtaken /\ (copyFailed => copyFailed')
  BY <1>1 DEF OvertakenLate
<1>2. CASE \E w \in Writers : Create(w)
  <2>1. PICK w \in Writers : Create(w)
    BY <1>2
  <2>2. /\ ~done /\ holder = Nobody /\ pc[w] = "lock" /\ copyFailed' = copyFailed
        /\ overtaken' = \E t \in DOMAIN files : t > stamp[w]
    BY <2>1 DEF Create
  <2>3. DOMAIN files \subseteq Nat /\ stamp[w] \in Nat
    BY BackupAssumption DEF TypeOK, TypeProcess, TypeFiles
  <2>4. SUFFICES ASSUME ~copyFailed PROVE ~overtaken'
    BY <2>2 DEF OvertakenLate
  <2>5. \A t \in DOMAIN files : t =< stamp[w]
    BY <2>2, <2>4 DEF Waiting
  <2>. QED BY <2>2, <2>3, <2>5
<1>3. CASE Exit \/ Crash
  BY <1>3 DEF Exit, Crash, Forget, OvertakenLate
<1>4. \A w \in Writers : CopyFails(w) => UNCHANGED overtaken /\ copyFailed'
  BY DEF CopyFails
<1>. QED BY <1>1, <1>2, <1>3, <1>4 DEF Next, Backup, Ask, Skip, CreateFails, CopyDone, CloseDone, CloseFails, Write, List,
        CleanupEnds, Remove, Checkpoint, StartSession, BeginExit, Tick, vars, history

\* Only the steps of CreateBackup itself, an exit and a start touch the newest file
\* or what it is compared with.
Touches == (\E w \in Writers : Create(w) \/ CopyDone(w) \/ CloseFails(w)) \/ Exit \/ StartSession
LEMMA NewestStands ==
  ASSUME TypeOK, Listed, [Next]_vars, ~Touches, NEW t, Newest(t)
  PROVE  Newest(t)' /\ (Image(t) => Image(t)')
<1>1. CASE UNCHANGED <<files, journalMode, start, closedAt>>
  BY <1>1 DEF Newest, Image
<1>2. CASE \E a \in Actors : Remove(a)
  BY <1>2, NewestSpared
<1>. QED BY <1>1, <1>2 DEF Touches, Next, Backup, Ask, Skip, CreateFails, CopyFails, CloseDone, Write, List, CleanupEnds,
        Checkpoint, BeginExit, Crash, Tick, vars, database, history

\* Who copies or closes after a step that touches nothing did so before it, with the
\* same name and no failure.
LEMMA CopierStays ==
  ASSUME TypeOK, [Next]_vars, ~Touches, NEW w \in Writers, pc'[w] \in {"copy", "close"}
  PROVE  pc[w] = pc'[w] /\ stamp'[w] = stamp[w] /\ (overtaken => overtaken')
<1>. USE DEF TypeOK, TypeProcess, Actors
<1>1. CASE \E v \in Writers : Ask(v)
  BY <1>1 DEF Ask, Goto, history
<1>2. CASE \E v \in Writers : Skip(v) \/ CreateFails(v) \/ Write(v)
  BY <1>2 DEF Skip, CreateFails, Write, Goto, history
<1>3. CASE \E v \in Writers : CopyFails(v) \/ CloseDone(v)
  BY <1>3 DEF CopyFails, CloseDone, Goto
<1>4. CASE \E a \in Actors : List(a) \/ CleanupEnds(a) \/ Remove(a)
  BY <1>4 DEF List, CleanupEnds, Remove, AfterCleanup, Goto, history
<1>5. CASE BeginExit
  BY <1>5 DEF BeginExit, Goto, history
<1>6. CASE Checkpoint \/ Tick \/ UNCHANGED vars
  BY <1>6 DEF Checkpoint, Tick, vars, process, history
<1>7. CASE Crash
  BY <1>7 DEF Crash, Forget
<1>. QED BY <1>1, <1>2, <1>3, <1>4, <1>5, <1>6, <1>7 DEF Touches, Next, Backup

\* Nobody copies or closes but the holder, and nobody after an exit or before a start.
LEMMA CopierAlone ==
  ASSUME TypeOK, TypeOK', Session, NEW w \in Writers, pc'[w] \in {"copy", "close"}
  PROVE  /\ ~Exit /\ ~StartSession /\ ~CloseFails(w)
         /\ \A v \in Writers : Create(v) \/ CopyDone(v) \/ CloseFails(v) => v = w
<1>1. holder' = w /\ w # Nobody
  BY BackupAssumption DEF TypeOK, LockHeld
<1>2. ~Exit
  BY <1>1 DEF Exit, Forget
<1>3. ~StartSession
  <2>1. SUFFICES ASSUME StartSession PROVE FALSE
    OBVIOUS
  <2>2. ~up /\ pc' = pc
    BY <2>1 DEF StartSession, process
  <2>. QED BY <2>2 DEF Session, Down, Actors
<1>4. ~CloseFails(w)
  BY <1>1 DEF CloseFails
<1>5. ASSUME NEW v \in Writers, Create(v) \/ CopyDone(v) \/ CloseFails(v)
      PROVE  v = w
  <2>1. CASE Create(v)
    BY <1>1, <2>1 DEF Create
  <2>2. CASE CopyDone(v)
    BY <1>1, <2>2 DEF CopyDone, TypeOK, LockHeld
  <2>3. CASE CloseFails(v)
    BY <1>1, <2>3 DEF CloseFails
  <2>. QED BY <1>5, <2>1, <2>2, <2>3
<1>. QED BY <1>2, <1>3, <1>4, <1>5

\* The file being copied into is the newest one.
LEMMA CopyingKept ==
  ASSUME IInv, TypeOK', [Next]_vars
  PROVE  Copying'
<1>. SUFFICES ASSUME NEW w \in Writers, pc'[w] = "copy", ~overtaken'
              PROVE  Newest(stamp[w])'
  BY DEF Copying
<1>1. CASE ~Touches
  <2>1. pc[w] = "copy" /\ ~overtaken /\ stamp'[w] = stamp[w]
    BY <1>1, CopierStays DEF IInv
  <2>2. PICK t : t = stamp[w]
    OBVIOUS
  <2>3. Newest(t)
    BY <2>1, <2>2 DEF IInv, Copying
  <2>4. Newest(t)'
    BY <1>1, <2>3, NewestStands DEF IInv
  <2>. QED BY <2>1, <2>2, <2>4 DEF Newest
<1>2. CASE Touches
  <2>1. Create(w) \/ CopyDone(w)
    BY <1>2, CopierAlone DEF Touches, IInv
  <2>2. ~CopyDone(w)
    BY DEF CopyDone, Goto, IInv, TypeOK, TypeProcess, Actors
  <2>3. Create(w)
    BY <2>1, <2>2
  <2>4. /\ stamp' = stamp /\ DOMAIN files' = DOMAIN files \union {stamp[w]}
        /\ ~\E t \in DOMAIN files : t > stamp[w]
    BY <2>3 DEF Create, Put
  <2>5. DOMAIN files \subseteq Nat /\ stamp[w] \in Nat
    BY BackupAssumption DEF IInv, TypeOK, TypeProcess, TypeFiles
  <2>6. \A t \in DOMAIN files : t =< stamp[w]
    BY <2>4, <2>5
  <2>. QED BY <2>4, <2>5, <2>6 DEF Newest
<1>. QED BY <1>1, <1>2

\* The copy just made is whole, the newest, and shows the database as it was.
LEMMA ClosingKept ==
  ASSUME IInv, TypeOK', [Next]_vars
  PROVE  Closing'
<1>. SUFFICES ASSUME NEW w \in Writers, pc'[w] = "close", ~overtaken'
              PROVE  Newest(stamp[w])' /\ Image(stamp[w])'
  BY DEF Closing
<1>1. CASE ~Touches
  <2>1. pc[w] = "close" /\ ~overtaken /\ stamp'[w] = stamp[w]
    BY <1>1, CopierStays DEF IInv
  <2>2. PICK t : t = stamp[w]
    OBVIOUS
  <2>3. Newest(t) /\ Image(t)
    BY <2>1, <2>2 DEF IInv, Closing
  <2>4. Newest(t)' /\ Image(t)'
    BY <1>1, <2>3, NewestStands DEF IInv
  <2>. QED BY <2>1, <2>2, <2>4 DEF Newest, Image
<1>2. CASE Touches
  <2>1. Create(w) \/ CopyDone(w)
    BY <1>2, CopierAlone DEF Touches, IInv
  <2>2. ~Create(w)
    BY DEF Create, Goto, IInv, TypeOK, TypeProcess, Actors
  <2>3. CopyDone(w)
    BY <2>1, <2>2
  <2>4. pc[w] = "copy" /\ ~overtaken /\ UNCHANGED <<stamp, journalMode, start, closedAt>>
    BY <2>3 DEF CopyDone, database
  <2>5. Newest(stamp[w])
    BY <2>4 DEF IInv, Copying
  <2>6. /\ DOMAIN files' = DOMAIN files
        /\ files'[stamp[w]] = [data |-> checkpointed, whole |-> TRUE]
    BY <2>3, <2>5 DEF CopyDone, Fill, Put, Newest
  <2>7. up /\ ~copied
    <3>1. ~done
      BY <2>4 DEF IInv, Session, CopyingFirst
    <3>. QED BY <2>4, <3>1 DEF IInv, Session, Down, DoneIsCopied, Actors
  <2>8. version = start
    BY <2>7 DEF IInv, Session, Unwritten
  <2>9. /\ checkpointed \in closedAt..start
        /\ journalMode = "DELETE" => checkpointed = start
        /\ journalMode \in {"WAL", "DELETE"}
    BY <2>8, BackupAssumption DEF IInv, TypeOK, TypeDatabase, Checkpointed
  <2>. QED BY <2>4, <2>5, <2>6, <2>9 DEF Newest, Image
<1>. QED BY <1>1, <1>2

\* The session's backup stays.
LEMMA MadeKept ==
  ASSUME IInv, TypeOK', [Next]_vars
  PROVE  Made'
<1>. SUFFICES ASSUME acknowledged', ~overtaken'
              PROVE  \E t \in DOMAIN files' : Newest(t)' /\ Image(t)'
  BY DEF Made
<1>1. CASE acknowledged
  <2>1. done /\ holder = Nobody /\ up
    BY <1>1 DEF IInv, Session, Acknowledged, Down
  <2>2. ~Touches
    <3>1. \A w \in Writers : ~Create(w) /\ ~CopyDone(w) /\ ~CloseFails(w)
      BY <2>1, BackupAssumption DEF Create, CopyDone, CloseFails, IInv, TypeOK, LockHeld
    <3>. QED BY <2>1, <3>1 DEF Touches, Exit, Forget, StartSession
  <2>3. ~overtaken
    <3>1. \A w \in Writers : ~CopyFails(w)
      BY <2>1, BackupAssumption DEF CopyFails, IInv, TypeOK, LockHeld
    <3>2. ~Crash
      BY DEF Crash, Forget
    <3>. QED BY <2>2, <3>1, <3>2 DEF Touches, Next, Backup, Ask, Skip, CreateFails, CloseDone, Write, List, CleanupEnds,
            Remove, Checkpoint, BeginExit, Tick, vars, history
  <2>4. PICK t \in DOMAIN files : Newest(t) /\ Image(t)
    BY <1>1, <2>3 DEF IInv, Made
  <2>5. Newest(t)' /\ Image(t)'
    BY <2>2, <2>4, NewestStands DEF IInv
  <2>. QED BY <2>5 DEF Newest
<1>2. CASE ~acknowledged
  <2>1. PICK w \in Writers : CloseDone(w)
    BY <1>2 DEF Next, Backup, Ask, Skip, Create, CreateFails, CopyDone, CopyFails, CloseFails, Write, List, CleanupEnds,
       Remove, Checkpoint, StartSession, BeginExit, Exit, Crash, Forget, Tick, vars, history
  <2>2. pc[w] = "close" /\ ~overtaken /\ UNCHANGED <<files, journalMode, start, closedAt>>
    BY <2>1 DEF CloseDone, database
  <2>3. Newest(stamp[w]) /\ Image(stamp[w])
    BY <2>2 DEF IInv, Closing
  <2>. QED BY <2>2, <2>3 DEF Newest, Image
<1>. QED BY <1>1, <1>2

-----------------------------------------------------------------------------
(* The theorems.                                                           *)

\* The invariant holds initially, and every step keeps it.
LEMMA Invariant == Spec => []IInv
<1>1. Init => IInv
  <2>. SUFFICES ASSUME Init PROVE IInv
    OBVIOUS
  <2>1. TypeProcess /\ TypeHistory
    <3>1. 0 \in 0..MaxClock /\ 0 \in 0..MaxSessions /\ "idle" \in Labels
      BY BackupAssumption DEF Labels
    <3>2. pc \in [Actors -> Labels] /\ stamp \in [Writers -> 0..MaxClock] /\ victims \in [Actors -> SUBSET (0..MaxClock)]
      BY <3>1 DEF Init
    <3>. QED BY <3>1, <3>2 DEF Init, TypeProcess, TypeHistory
  <2>0. TypeFiles /\ LockHeld
    BY BackupAssumption DEF Init, TypeFiles, LockHeld, Actors
  <2>2. TypeDatabase
    BY BackupAssumption DEF Init, TypeDatabase
  <2>3. Session
    BY DEF Init, Session, DoneIsCopied, Backed, CopyingFirst, Acknowledged, Down, Unwritten, Actors
  <2>4. Listed /\ Checkpointed /\ Past
    BY DEF Init, Listed, Checkpointed, Past
  <2>5. Waiting /\ Copying /\ Closing /\ Made /\ OvertakenLate
    BY DEF Init, Waiting, Copying, Closing, Made, OvertakenLate, Actors
  <2>. QED BY <2>0, <2>1, <2>2, <2>3, <2>4, <2>5 DEF IInv, TypeOK
<1>2. IInv /\ [Next]_vars => IInv'
  <2>. SUFFICES ASSUME IInv, [Next]_vars PROVE IInv'
    OBVIOUS
  <2>1. TypeOK'
    BY TypesKept DEF IInv
  <2>2. Session' /\ Listed' /\ Checkpointed' /\ Past' /\ Waiting' /\ OvertakenLate'
    BY <2>1, SessionKept, ListedKept, CheckpointedKept, PastKept, WaitingKept, OvertakenKept DEF IInv
  <2>3. Copying' /\ Closing' /\ Made'
    BY <2>1, CopyingKept, ClosingKept, MadeKept
  <2>. QED BY <2>1, <2>2, <2>3 DEF IInv
<1>. QED BY <1>1, <1>2, PTL DEF Spec

\* Every variable has its type, and the lock is held by the one request that
\* copies or closes the copy.
THEOREM TypeCorrect == Spec => []TypeOK
<1>1. IInv => TypeOK
  BY DEF IInv
<1>. QED BY <1>1, Invariant, PTL

\* Once a session has written, a whole copy of the database as it was before the
\* session exists, however many requests raced for it, whatever was pruned and however
\* many copies failed before, unless one that failed left a file with a newer name.
THEOREM BackupIsThere == Spec => []PreSessionImage
<1>1. IInv => PreSessionImage
  BY DEF IInv, PreSessionImage, Written, Made, OvertakenLate
<1>. QED BY <1>1, Invariant, PTL

\* A session writes only after it has copied the database to the end.
THEOREM NoWriteBeforeCopy == Spec => [](up /\ version > start => copied)
<1>1. IInv => (up /\ version > start => copied)
  <2>1. IInv => start \in Nat /\ version \in Nat
    BY BackupAssumption DEF IInv, TypeOK, TypeDatabase
  <2>. QED BY <2>1 DEF IInv, Session, Unwritten
<1>. QED BY <1>1, Invariant, PTL

\* The session's one backup is never truncated or copied again.
THEOREM BackupLeftAlone == Spec => OneBackupPerSession
<1>. DEFINE Untouched == acknowledged => \A t \in DOMAIN files' : t \in DOMAIN files /\ files'[t] = files[t]
<1>1. IInv /\ [Next]_vars => [Untouched]_vars
  <2>. SUFFICES ASSUME IInv, [Next]_vars, acknowledged
                PROVE  \A t \in DOMAIN files' : t \in DOMAIN files /\ files'[t] = files[t]
    OBVIOUS
  <2>1. done /\ holder = Nobody
    BY DEF IInv, Session, Acknowledged
  <2>2. \A w \in Writers : ~Create(w) /\ ~CopyDone(w) /\ ~CloseFails(w)
    BY <2>1, BackupAssumption DEF Create, CopyDone, CloseFails, IInv, TypeOK, LockHeld
  <2>3. CASE UNCHANGED files
    BY <2>3
  <2>4. CASE \E a \in Actors : Remove(a)
    BY <2>4 DEF Remove, Restrict
  <2>. QED BY <2>2, <2>3, <2>4 DEF Next, Backup, Ask, Skip, CreateFails, CopyFails, CloseDone, Write, List, CleanupEnds,
          Checkpoint, StartSession, BeginExit, Exit, Crash, Tick, vars
<1>2. Spec => [][Untouched]_vars
  BY <1>1, Invariant, PTL DEF Spec
<1>. QED BY <1>2 DEF OneBackupPerSession

\* Pruning never takes one of the newest files it is told to keep, although main and
\* a request prune from listings made at different times.
THEOREM PruningKeepsNewest == Spec => NewestKept
<1>1. IInv /\ [Next]_vars => [SparesNewest]_vars
  <2>. SUFFICES ASSUME IInv, [Next]_vars PROVE SparesNewest
    OBVIOUS
  <2>1. CASE DOMAIN files \subseteq DOMAIN files'
    BY <2>1 DEF SparesNewest
  <2>2. CASE \E a \in Actors : Remove(a)
    BY <2>2, OldFileGoes DEF IInv, Above, SparesNewest
  <2>3. \A w \in Writers : Create(w) \/ CopyDone(w) \/ CloseFails(w) => DOMAIN files \subseteq DOMAIN files'
    BY DEF Create, CopyDone, CloseFails, Fill, Put
  <2>. QED BY <2>1, <2>2, <2>3 DEF Next, Backup, Ask, Skip, CreateFails, CopyFails, CloseDone, Write, List, CleanupEnds,
          Checkpoint, StartSession, BeginExit, Exit, Crash, Tick, vars
<1>. QED BY <1>1, Invariant, PTL DEF Spec, NewestKept

-----------------------------------------------------------------------------
(* The contract.                                                           *)

\* The file of the request that closes is whole, if it has not been pruned: no other
\* request writes into a file of that name.
ClosingWhole ==
  \A w \in Writers : pc[w] = "close" /\ stamp[w] \in DOMAIN files => files[stamp[w]].whole = TRUE

Filed == files = [t \in DOMAIN files |-> files[t]]

LEMMA FiledKept == Filed /\ [Next]_vars => Filed'
<1>. SUFFICES ASSUME Filed, [Next]_vars
              PROVE  Filed'
  OBVIOUS
<1>1. CASE UNCHANGED files
  BY <1>1 DEF Filed
<1>2. CASE \E a \in Actors : Remove(a)
  BY <1>2 DEF Remove, Restrict, Filed
<1>3. CASE \E w \in Writers : Create(w)
  BY <1>3 DEF Create, Put, Filed
<1>4. CASE \E w \in Writers : CopyDone(w) \/ CloseFails(w)
  <2>1. PICK t, file : files' = Fill(t, file)
    BY <1>4 DEF CopyDone, CloseFails
  <2>2. CASE t \in DOMAIN files
    <3>1. files' = Put(t, file)
      BY <2>1, <2>2 DEF Fill
    <3>. QED BY <3>1 DEF Put, Filed
  <2>3. CASE t \notin DOMAIN files
    BY <1>1, <2>1, <2>3 DEF Fill
  <2>. QED BY <2>2, <2>3
<1>. QED BY <1>1, <1>2, <1>3, <1>4 DEF Next, Backup, Ask, Skip, CreateFails, CopyFails, CloseDone, Write, List,
        CleanupEnds, Checkpoint, StartSession, BeginExit, Exit, Crash, Tick, vars

LEMMA ClosingWholeKept ==
  ASSUME IInv, TypeOK', ClosingWhole, [Next]_vars
  PROVE  ClosingWhole'
<1>. SUFFICES ASSUME NEW w \in Writers, pc'[w] = "close", stamp'[w] \in DOMAIN files'
              PROVE  files'[stamp'[w]].whole = TRUE
  BY DEF ClosingWhole
<1>1. CASE ~Touches
  <2>1. pc[w] = "close" /\ stamp'[w] = stamp[w]
    BY <1>1, CopierStays DEF IInv
  <2>2. CASE UNCHANGED files
    BY <2>1, <2>2 DEF ClosingWhole
  <2>3. CASE \E a \in Actors : Remove(a)
    <3>1. DOMAIN files' \subseteq DOMAIN files /\ \A t \in DOMAIN files' : files'[t] = files[t]
      BY <2>3 DEF Remove, Restrict
    <3>. QED BY <2>1, <3>1 DEF ClosingWhole
  <2>. QED BY <1>1, <2>2, <2>3 DEF Touches, Next, Backup, Ask, Skip, CreateFails, CopyFails, CloseDone, Write, List,
          CleanupEnds, Checkpoint, BeginExit, Crash, Tick, vars
<1>2. CASE Touches
  <2>1. Create(w) \/ CopyDone(w)
    BY <1>2, CopierAlone DEF Touches, IInv
  <2>2. ~Create(w)
    BY DEF Create, Goto, IInv, TypeOK, TypeProcess, Actors
  <2>3. files' = Fill(stamp[w], [data |-> checkpointed, whole |-> TRUE]) /\ stamp' = stamp
    BY <2>1, <2>2 DEF CopyDone
  <2>. QED BY <2>3 DEF Fill, Put
<1>. QED BY <1>1, <1>2

\* What CreateBackup does is what the contract says of one copy.
LEMMA CopiesAsAgreed ==
  ASSUME IInv, OvertakenLate', ClosingWhole, Filed, NEW w \in Writers, Create(w) \/ CopyDone(w) \/ CopyFails(w) \/ CloseDone(w) \/ CloseFails(w)
  PROVE  Contract!Next \/ UNCHANGED Contract!bvars
<1>. DEFINE t == stamp[w]
<1>1. /\ TypeOK /\ Session /\ t \in 0..MaxClock /\ version \in 0..MaxVersion /\ start \in 0..version
      /\ DOMAIN files \subseteq 0..MaxClock
  BY DEF IInv, TypeOK, TypeProcess, TypeDatabase, TypeFiles
<1>2. up
  <2>1. pc[w] # "idle"
    BY DEF Create, CopyDone, CopyFails, CloseDone, CloseFails
  <2>. QED BY <1>1, <2>1 DEF Session, Down, Actors
<1>0. Newest(t) => Contract!NewerThan(t) = {}
  BY <1>1 DEF Newest, Contract!NewerThan
<1>3. CASE Create(w)
  <2>1. ~copied
    BY <1>1, <1>3 DEF Create, Session, DoneIsCopied
  <2>2. files' = [u \in DOMAIN files \union {t} |-> IF u = t THEN [data |-> 0, whole |-> FALSE] ELSE files[u]]
        /\ UNCHANGED <<journalMode, up, version, start, closedAt, copied, copyFailed, acknowledged>>
    BY <1>3 DEF Create, Put, database
  <2>3. overtaken' = (Contract!NewerThan(t) # {})
    <3>1. overtaken' = \E u \in DOMAIN files : u > t
      BY <1>3 DEF Create
    <3>2. (Contract!NewerThan(t) # {}) = \E u \in DOMAIN files : u > t
      BY DEF Contract!NewerThan
    <3>. QED BY <3>1, <3>2
  <2>4. overtaken' => copyFailed
    BY <2>2 DEF OvertakenLate
  <2>5. Contract!Begin
    BY <1>1, <1>2, <2>1, <2>2, <2>3, <2>4 DEF Contract!Begin, Contract!Holds
  <2>. QED BY <2>5 DEF Contract!Next
<1>4. CASE CopyDone(w)
  <2>1. ~copied
    BY <1>1, <1>4 DEF CopyDone, Session, CopyingFirst, DoneIsCopied
  <2>2. version = start
    BY <1>1, <1>2, <2>1 DEF Session, Unwritten
  <2>3. checkpointed \in 0..start /\ Contract!Found(checkpointed)
    BY <1>1, <2>2, BackupAssumption DEF IInv, TypeOK, TypeDatabase, Checkpointed, Contract!Found
  <2>4. copied' = TRUE /\ UNCHANGED <<journalMode, up, version, start, closedAt, copyFailed, overtaken, acknowledged>>
    BY <1>4 DEF CopyDone, database
  <2>5. \/ overtaken /\ UNCHANGED files
        \/ t \in DOMAIN files /\ Contract!Latest(t) /\ Contract!Holds(t, [data |-> checkpointed, whole |-> TRUE])
    <3>1. overtaken \/ Newest(t)
      BY <1>4 DEF CopyDone, IInv, Copying
    <3>2. CASE t \in DOMAIN files
      BY <1>0, <1>4, <3>1, <3>2 DEF CopyDone, Fill, Put, Contract!Latest, Contract!Holds
    <3>3. CASE t \notin DOMAIN files
      BY <1>4, <3>1, <3>3 DEF CopyDone, Fill, Newest
    <3>. QED BY <3>2, <3>3
  <2>6. Contract!Complete
    BY <1>2, <2>1, <2>3, <2>4, <2>5 DEF Contract!Complete
  <2>. QED BY <2>6 DEF Contract!Next
<1>5. CASE CopyFails(w)
  <2>1. ~copied
    BY <1>1, <1>5 DEF CopyFails, Session, CopyingFirst, DoneIsCopied
  <2>2. Contract!FailCopy
    BY <1>2, <1>5, <2>1 DEF CopyFails, database, Contract!FailCopy
  <2>. QED BY <2>2 DEF Contract!Next
<1>6. CASE CloseDone(w)
  <2>1. copied
    BY <1>1, <1>6 DEF CloseDone, Session, Backed, DoneIsCopied
  <2>2. Contract!Acknowledge
    BY <1>2, <1>6, <2>1 DEF CloseDone, database, Contract!Acknowledge
  <2>. QED BY <2>2 DEF Contract!Next
<1>7. CASE CloseFails(w)
  <2>1. copied /\ ~acknowledged
    BY <1>1, <1>7, BackupAssumption DEF CloseFails, Session, Backed, DoneIsCopied, Acknowledged, TypeOK, LockHeld
  <2>2. overtaken \/ Newest(t)
    BY <1>7 DEF CloseFails, IInv, Closing
  <2>3. UNCHANGED <<journalMode, up, version, start, closedAt, copied, copyFailed, overtaken, acknowledged>>
    BY <1>7 DEF CloseFails, database, history
  <2>4. PICK whole \in BOOLEAN : files' = Fill(t, [data |-> files[t].data, whole |-> whole])
    BY <1>7 DEF CloseFails
  <2>5. CASE t \in DOMAIN files /\ whole = FALSE
    <3>1. Contract!Latest(t) /\ Contract!Holds(t, [data |-> files[t].data, whole |-> FALSE])
      BY <1>0, <2>2, <2>4, <2>5 DEF Fill, Put, Contract!Latest, Contract!Holds
    <3>2. Contract!Spoil
      BY <1>2, <2>1, <2>3, <2>5, <3>1 DEF Contract!Spoil
    <3>. QED BY <3>2 DEF Contract!Next
  <2>6. CASE t \in DOMAIN files /\ whole = TRUE
    <3>1. files[t] \in Copies /\ files[t].whole = TRUE
      BY <1>1, <1>7, <2>6 DEF CloseFails, ClosingWhole, TypeOK, TypeFiles
    <3>2. [data |-> files[t].data, whole |-> TRUE] = files[t]
      BY <3>1 DEF Copies
    <3>3. files' = [u \in DOMAIN files \union {t} |-> IF u = t THEN files[t] ELSE files[u]]
      BY <2>4, <2>6, <3>2 DEF Fill, Put
    <3>4. files' = files
      BY <2>6, <3>3 DEF Filed
    <3>. QED BY <2>3, <3>4 DEF Contract!bvars
  <2>7. CASE t \notin DOMAIN files
    BY <2>3, <2>4, <2>7 DEF Fill, Contract!bvars
  <2>. QED BY <2>5, <2>6, <2>7
<1>. QED BY <1>3, <1>4, <1>5, <1>6, <1>7

LEMMA ContractStep == IInv /\ IInv' /\ ClosingWhole /\ Filed /\ [Next]_vars => [Contract!Next]_Contract!bvars
<1>. SUFFICES ASSUME IInv, IInv', ClosingWhole, Filed, [Next]_vars
              PROVE  Contract!Next \/ UNCHANGED Contract!bvars
  OBVIOUS
<1>0. Session /\ TypeOK
  BY DEF IInv
<1>1. CASE \E w \in Writers : Create(w) \/ CopyDone(w) \/ CopyFails(w) \/ CloseDone(w) \/ CloseFails(w)
  BY <1>1, CopiesAsAgreed DEF IInv
<1>2. CASE \E w \in Writers : Write(w)
  <2>1. PICK w \in Writers : Write(w)
    BY <1>2
  <2>2. up /\ copied
    BY <1>0, <2>1 DEF Write, Session, Backed, DoneIsCopied, Down
  <2>3. CASE version' = version + 1
    <3>1. Contract!Write
      BY <2>1, <2>2, <2>3 DEF Write, database, history, Contract!Write
    <3>. QED BY <3>1 DEF Contract!Next
  <2>4. CASE UNCHANGED database
    BY <2>1, <2>4 DEF Write, database, history, Contract!bvars
  <2>. QED BY <2>1, <2>3, <2>4 DEF Write
<1>3. CASE \E a \in Actors : Remove(a)
  <2>1. PICK a \in Actors : Remove(a)
    BY <1>3
  <2>2. up
    BY <1>0, <2>1 DEF Remove, Session, Down
  <2>3. PICK t \in victims[a] \intersect DOMAIN files : files' = [u \in DOMAIN files \ {t} |-> files[u]]
    BY <2>1 DEF Remove, Restrict
  <2>4. Contract!Cardinality(Contract!NewerThan(t)) >= Kept
    <3>1. Contract!NewerThan(t) = Above(t)
      BY DEF Contract!NewerThan, Above
    <3>2. Contract!Cardinality(Above(t)) = Cardinality(Above(t))
      BY Zenon DEF Contract!Cardinality, Cardinality
    <3>. QED BY <2>3, <3>1, <3>2 DEF IInv, Listed
  <2>5. Contract!Prune
    BY <2>1, <2>2, <2>3, <2>4 DEF Remove, database, history, Contract!Prune
  <2>. QED BY <2>5 DEF Contract!Next
<1>4. CASE StartSession
  <2>1. Contract!Start
    BY <1>4 DEF StartSession, database, Contract!Start
  <2>. QED BY <2>1 DEF Contract!Next
<1>5. CASE Exit \/ Crash
  <2>1. up
    BY <1>0, <1>5 DEF Exit, Crash, Session, Down, Actors
  <2>2. /\ up' = FALSE /\ copied' = FALSE /\ copyFailed' = FALSE
        /\ overtaken' = FALSE /\ acknowledged' = FALSE
        /\ closedAt' \in {closedAt, version} /\ UNCHANGED <<journalMode, files, version, start>>
    BY <1>5 DEF Exit, Crash, Forget, database
  <2>3. Contract!End
    BY <2>1, <2>2 DEF Contract!End
  <2>. QED BY <2>3 DEF Contract!Next
<1>6. CASE \/ \E w \in Writers : Ask(w) \/ Skip(w) \/ CreateFails(w)
           \/ \E a \in Actors : List(a) \/ CleanupEnds(a)
           \/ Checkpoint \/ BeginExit \/ Tick \/ UNCHANGED vars
  BY <1>6 DEF Ask, Skip, CreateFails, List, CleanupEnds, Checkpoint, BeginExit, Tick, vars, database, history, Contract!bvars
<1>. QED BY <1>1, <1>2, <1>3, <1>4, <1>5, <1>6 DEF Next, Backup

\* Any number of requests that race for the backup, with failing copies, crashes, exits and two
\* actors that prune, do together what the contract says of a session: it copies what it
\* found once and under the newest name, and writes only after that.
THEOREM BackupRefinement == Spec => ImplementsBackups
<1>1. Init => Contract!Init /\ ClosingWhole /\ Filed
  BY DEF Init, Contract!Init, ClosingWhole, Filed, Actors
<1>2. IInv /\ IInv' => TypeOK'
  BY DEF IInv
<1>3. IInv /\ IInv' /\ ClosingWhole /\ [Next]_vars => ClosingWhole'
  BY <1>2, ClosingWholeKept
<1>4. Spec => []ClosingWhole /\ []Filed
  BY <1>1, <1>3, FiledKept, Invariant, PTL DEF Spec
<1>5. Spec => Contract!Init /\ [][Contract!Next]_Contract!bvars
  BY <1>1, <1>4, Invariant, ContractStep, PTL DEF Spec
<1>. QED BY <1>5 DEF ImplementsBackups, Contract!Spec
=============================================================================
