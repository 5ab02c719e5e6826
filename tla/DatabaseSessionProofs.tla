------------------------ MODULE DatabaseSessionProofs ------------------------
(***************************************************************************)
(* Proofs about DatabaseSession, for any number of requests, databases and *)
(* switches.                                                               *)
(***************************************************************************)
EXTENDS DatabaseSession, TLAPS

-----------------------------------------------------------------------------
(* The inductive invariant.                                                *)

Working == {"read", "backup", "update", "exec", "begin", "write", "commit", "committing"}
Planned == {"backup", "update", "begin", "write", "commit", "committing"}

\* Who works with a handle has one, and a run that has read has a text.
HandleTaken == \A w \in Writers : pc[w] \in Working => handle[w] \in 1..Len(handles)
TextRead == \A c \in Cleaners : pc[c] \in Planned => got[c] \in Texts
\* The handle to swap in is open, and neither that nor the one to close is in use.
Switching ==
  \A s \in Savers :
    /\ pc[s] = "swap" => /\ fresh[s] \in 1..Len(handles) /\ fresh[s] # current
                         /\ handles[fresh[s]].open
    /\ pc[s] = "close" => old[s] \in 1..Len(handles) /\ old[s] # current

IInv == TypeOK /\ HandleTaken /\ TextRead /\ Switching /\ OneLiveHandle

-----------------------------------------------------------------------------
(* What steps do to pc and to the handles.                                 *)

\* A request goes to a label, and no other goes anywhere.
LEMMA GotoChanges ==
  ASSUME pc \in [Requests -> Labels], NEW r \in Requests, NEW l \in Labels, Goto(r, l)
  PROVE  /\ pc' \in [Requests -> Labels] /\ pc'[r] = l
         /\ \A q \in Requests \ {r} : pc'[q] = pc[q]
BY DEF Goto

\* The handles are numbered from one.
LEMMA HandlesIndexed ==
  ASSUME TypeHandles
  PROVE  /\ Len(handles) \in Nat /\ current \in 1..Len(handles)
         /\ \A h \in 1..Len(handles) : handles[h] \in Handles
BY DEF TypeHandles

\* Changing one of the handles leaves the others.
LEMMA HandleChanged ==
  ASSUME TypeHandles, NEW h \in 1..Len(handles), NEW new \in Handles,
         handles' = [handles EXCEPT ![h] = new]
  PROVE  /\ handles' \in Seq(Handles) /\ Len(handles') = Len(handles)
         /\ \A i \in 1..Len(handles) : handles'[i] = IF i = h THEN new ELSE handles[i]
BY DEF TypeHandles

\* Opening a handle leaves the others.
LEMMA HandleAdded ==
  ASSUME TypeHandles, NEW new \in Handles, handles' = Append(handles, new)
  PROVE  /\ handles' \in Seq(Handles) /\ Len(handles') = Len(handles) + 1
         /\ \A i \in 1..Len(handles) : handles'[i] = handles[i]
         /\ handles'[Len(handles) + 1] = new
BY DEF TypeHandles

\* Closing a handle.
LEMMA HandleClosed ==
  ASSUME TypeHandles, NEW h \in 1..Len(handles), handles' = [handles EXCEPT ![h].open = FALSE]
  PROVE  /\ handles' \in Seq(Handles) /\ Len(handles') = Len(handles)
         /\ \A i \in 1..Len(handles) : /\ handles'[i].path = handles[i].path
                                       /\ handles'[i].conn = handles[i].conn
                                       /\ handles'[i].open = IF i = h THEN FALSE ELSE handles[i].open
<1> DEFINE new == [handles[h] EXCEPT !.open = FALSE]
<1>1. handles[h] \in Handles
  BY HandlesIndexed
<1>2. new \in Handles /\ new.path = handles[h].path /\ new.conn = handles[h].conn /\ new.open = FALSE
  BY <1>1 DEF Handles
<1>3. handles' = [handles EXCEPT ![h] = new]
  OBVIOUS
<1> HIDE DEF new
<1>4. /\ handles' \in Seq(Handles) /\ Len(handles') = Len(handles)
      /\ \A i \in 1..Len(handles) : handles'[i] = IF i = h THEN new ELSE handles[i]
  BY <1>2, <1>3, HandleChanged
<1> QED
  BY <1>2, <1>3, <1>4

\* A transaction takes the connection of a handle, or gives it back.
LEMMA ConnChanged ==
  ASSUME TypeHandles, NEW h \in 1..Len(handles), NEW who \in Cleaners \union {Nobody},
         handles' = [handles EXCEPT ![h].conn = who]
  PROVE  /\ handles' \in Seq(Handles) /\ Len(handles') = Len(handles)
         /\ \A i \in 1..Len(handles) : /\ handles'[i].path = handles[i].path
                                       /\ handles'[i].open = handles[i].open
                                       /\ handles'[i].conn = IF i = h THEN who ELSE handles[i].conn
<1> DEFINE new == [handles[h] EXCEPT !.conn = who]
<1>1. handles[h] \in Handles
  BY HandlesIndexed
<1>2. new \in Handles /\ new.path = handles[h].path /\ new.open = handles[h].open /\ new.conn = who
  BY <1>1 DEF Handles
<1>3. handles' = [handles EXCEPT ![h] = new]
  OBVIOUS
<1> HIDE DEF new
<1>4. /\ handles' \in Seq(Handles) /\ Len(handles') = Len(handles)
      /\ \A i \in 1..Len(handles) : handles'[i] = IF i = h THEN new ELSE handles[i]
  BY <1>2, <1>3, HandleChanged
<1> QED
  BY <1>2, <1>3, <1>4

-----------------------------------------------------------------------------
(* Saves.                                                                  *)

\* What a save leaves of everybody else: the process, the writers and the databases, and
\* the connections of the handles.
LEMMA SaverFrame ==
  ASSUME IInv, NEW s \in Savers, Save(s)
  PROVE  /\ UNCHANGED <<process, writer, database>>
         /\ pc' \in [Requests -> Labels]
         /\ \A q \in Requests \ {s} : pc'[q] = pc[q]
<1>1. pc \in [Requests -> Labels] /\ s \in Requests
  BY DEF IInv, TypeOK, Requests
<1>2. UNCHANGED <<process, writer, database>>
  BY DEF Save, CheckPath, LockReconnect, OpenNew, OpenFails, Swap, CloseOld, SetPath,
         TakeSnapshot, SaveFile
<1>3. \E l \in Labels : Goto(s, l)
  BY DEF Save, CheckPath, LockReconnect, OpenNew, OpenFails, Swap, CloseOld, SetPath,
         TakeSnapshot, SaveFile, Labels, Over
<1> QED
  BY <1>1, <1>2, <1>3, GotoChanges

\* The handles stay with whoever has their connection, and new ones are free.
HandlesKept ==
  /\ TypeHandles' /\ Len(handles) <= Len(handles')
  /\ \A h \in 1..Len(handles) : /\ handles'[h].conn = handles[h].conn
                                /\ handles'[h].path = handles[h].path
  /\ \A h \in 1..Len(handles') : h > Len(handles) => handles'[h].conn = Nobody

\* No step of a save takes a connection, changes a path or forgets a handle.
LEMMA SaverKeepsHandles ==
  ASSUME IInv, NEW s \in Savers, Save(s)
  PROVE  HandlesKept
<1>1. TypeHandles /\ TypeSaver /\ Switching /\ pc[s] \in Labels
  BY DEF IInv, TypeOK, Requests
<1>2. /\ Len(handles) \in Nat /\ current \in 1..Len(handles)
      /\ \A h \in 1..Len(handles) : handles[h] \in Handles
  BY <1>1, HandlesIndexed
<1>3. CASE UNCHANGED <<handles, current>>
  BY <1>1, <1>2, <1>3 DEF HandlesKept, TypeHandles
<1>4. CASE OpenNew(s)
  <2> DEFINE new == [path |-> want[s], open |-> TRUE, conn |-> Nobody]
  <2>1. handles' = Append(handles, new) /\ current' = current
    BY <1>4 DEF OpenNew
  <2>2. new \in Handles /\ new.conn = Nobody
    BY <1>1 DEF Handles, TypeSaver
  <2> HIDE DEF new
  <2>3. /\ handles' \in Seq(Handles) /\ Len(handles') = Len(handles) + 1
        /\ \A i \in 1..Len(handles) : handles'[i] = handles[i]
        /\ handles'[Len(handles) + 1] = new
    BY <1>1, <2>1, <2>2, HandleAdded
  <2>4. \A h \in 1..(Len(handles) + 1) : h > Len(handles) => h = Len(handles) + 1
    BY <1>2
  <2> QED
    BY <1>2, <2>1, <2>2, <2>3, <2>4 DEF HandlesKept, TypeHandles
<1>5. CASE Swap(s)
  <2>1. handles' = handles /\ current' = fresh[s] /\ fresh[s] \in 1..Len(handles)
    BY <1>1, <1>5 DEF Swap, Switching
  <2> QED
    BY <1>1, <1>2, <2>1 DEF HandlesKept, TypeHandles
<1>6. CASE CloseOld(s)
  <2>1. /\ handles' = [handles EXCEPT ![old[s]].open = FALSE] /\ current' = current
        /\ old[s] \in 1..Len(handles)
    BY <1>1, <1>6 DEF CloseOld, Switching
  <2>2. /\ handles' \in Seq(Handles) /\ Len(handles') = Len(handles)
        /\ \A i \in 1..Len(handles) : /\ handles'[i].path = handles[i].path
                                      /\ handles'[i].conn = handles[i].conn
    BY <1>1, <2>1, HandleClosed
  <2> QED
    BY <1>2, <2>1, <2>2 DEF HandlesKept, TypeHandles
<1>7. \/ UNCHANGED <<handles, current>>
      \/ OpenNew(s) \/ Swap(s) \/ CloseOld(s)
  BY DEF Save, CheckPath, LockReconnect, OpenFails, SetPath, TakeSnapshot, SaveFile
<1> QED
  BY <1>3, <1>4, <1>5, <1>6, <1>7

\* A save keeps what the writers rely on.
LEMMA WritersUndisturbed ==
  ASSUME IInv, NEW s \in Savers, Save(s)
  PROVE  /\ TypeProcess' /\ TypeWriter' /\ TypeDatabase' /\ ConnHeld'
         /\ HandleTaken' /\ TextRead'
<1>0. HandlesKept
  BY SaverKeepsHandles
<1>1. /\ UNCHANGED <<process, writer, database>>
      /\ \A w \in Writers : pc'[w] = pc[w]
  BY SaverFrame, SessionAssumption DEF Requests, Writers
<1>2. Len(handles) \in Nat /\ Len(handles') \in Nat /\ Len(handles) <= Len(handles')
  BY <1>0, HandlesIndexed DEF IInv, TypeOK, HandlesKept, TypeHandles
<1>3. TypeProcess'
  BY <1>1 DEF IInv, TypeOK, TypeProcess, process
<1>4. TypeDatabase' /\ TextRead'
  BY <1>1 DEF IInv, TypeOK, TypeDatabase, TextRead, database, writer, Writers
<1>5. TypeWriter' /\ HandleTaken'
  BY <1>1, <1>2 DEF IInv, TypeOK, TypeWriter, HandleTaken, writer
<1>6. ConnHeld'
  <2> SUFFICES ASSUME NEW c \in Cleaners, NEW h \in 1..Len(handles')
               PROVE  handles'[h].conn = c
                        <=> pc'[c] \in {"write", "commit", "committing"} /\ handle'[c] = h
    BY DEF ConnHeld
  <2>1. pc'[c] = pc[c] /\ handle'[c] = handle[c] /\ handle[c] \in 0..Len(handles) /\ c # Nobody
    BY <1>1, SessionAssumption DEF writer, Writers, IInv, TypeOK, TypeWriter
  <2>2. CASE h <= Len(handles)
    <3>1. h \in 1..Len(handles) /\ handles'[h].conn = handles[h].conn
      BY <1>0, <1>2, <2>2 DEF HandlesKept
    <3> QED
      BY <2>1, <3>1 DEF IInv, TypeOK, ConnHeld
  <2>3. CASE h > Len(handles)
    <3>1. handles'[h].conn = Nobody /\ handle[c] # h
      BY <1>0, <1>2, <2>1, <2>3 DEF HandlesKept
    <3> QED
      BY <2>1, <3>1
  <2> QED
    BY <1>2, <2>2, <2>3
<1> QED
  BY <1>3, <1>4, <1>5, <1>6

\* Every step of a save keeps the invariant.
LEMMA SaverStep ==
  ASSUME IInv, NEW s \in Savers, Save(s)
  PROVE  IInv'
<1>1. /\ UNCHANGED <<process, writer, database>>
      /\ pc' \in [Requests -> Labels]
      /\ \A q \in Savers \ {s} : pc'[q] = pc[q]
      /\ s \in Requests /\ main' = main
  BY SaverFrame DEF Requests, process
<1>2. pc \in [Requests -> Labels] /\ TypeHandles /\ TypeSaver /\ MutexHeld
  BY DEF IInv, TypeOK
<1>3. /\ Len(handles) \in Nat /\ current \in 1..Len(handles)
      /\ \A h \in 1..Len(handles) : handles[h] \in Handles
  BY <1>2, HandlesIndexed
<1>4. Nobody \notin Savers
  BY SessionAssumption
<1>5. SUFFICES TypeSaver' /\ MutexHeld' /\ Switching' /\ OneLiveHandle'
  BY <1>1, SaverKeepsHandles, WritersUndisturbed DEF IInv, TypeOK, HandlesKept
<1>7. Switching /\ OneLiveHandle
  BY DEF IInv
\* Steps at the handles' edge: they change neither handles nor the mutex.
<1>8. ASSUME UNCHANGED <<handles, current, reconnectMu>>, TypeSaver',
             pc[s] \notin {"open", "swap", "close"}, pc'[s] \notin {"open", "swap", "close"},
             \A q \in Savers \ {s} : fresh'[q] = fresh[q] /\ old'[q] = old[q]
      PROVE  TypeSaver' /\ MutexHeld' /\ Switching' /\ OneLiveHandle'
  <2>1. MutexHeld'
    BY <1>1, <1>2, <1>8 DEF MutexHeld
  <2>2. Switching'
    BY <1>1, <1>7, <1>8 DEF Switching
  <2>3. OneLiveHandle'
    BY <1>1, <1>7, <1>8 DEF OneLiveHandle
  <2> QED
    BY <1>8, <2>1, <2>2, <2>3
<1>9. CASE CheckPath(s)
  <2>1. /\ UNCHANGED <<handles, current, reconnectMu, cfgPath, savedPath, crossed, saver>>
        /\ alone' \subseteq Savers
        /\ pc[s] = "idle" /\ pc'[s] \in {"snapshot", "lock"}
    BY <1>1, <1>2, <1>9 DEF CheckPath, Goto
  <2>2. TypeSaver'
    BY <1>2, <2>1 DEF TypeSaver, saver
  <2> QED
    BY <1>8, <2>1, <2>2 DEF saver
<1>10. CASE LockReconnect(s)
  <2>1. /\ UNCHANGED <<handles, current, config, saver>>
        /\ pc[s] = "lock" /\ reconnectMu = Nobody /\ reconnectMu' = s /\ pc'[s] = "open"
    BY <1>1, <1>2, <1>10 DEF LockReconnect, Goto
  <2>2. TypeSaver'
    BY <1>2, <2>1 DEF TypeSaver, config, saver
  <2>3. MutexHeld'
    BY <1>1, <1>2, <1>4, <2>1 DEF MutexHeld
  <2>4. Switching'
    BY <1>1, <1>7, <2>1 DEF Switching, saver
  <2>5. OneLiveHandle'
    BY <1>1, <1>4, <1>7, <2>1 DEF OneLiveHandle, saver
  <2> QED
    BY <2>1, <2>2, <2>3, <2>4, <2>5
<1>11. CASE OpenNew(s)
  <2> DEFINE new == [path |-> want[s], open |-> TRUE, conn |-> Nobody]
             n == Len(handles) + 1
  <2>1. /\ handles' = Append(handles, new)
        /\ fresh' = [fresh EXCEPT ![s] = n]
        /\ UNCHANGED <<current, reconnectMu, config, want, old, snapshot>>
        /\ pc[s] = "open" /\ pc'[s] = "swap"
    BY <1>1, <1>2, <1>11 DEF OpenNew, Goto
  <2>2. new \in Handles /\ new.open /\ new.conn = Nobody
    BY <1>2 DEF Handles, TypeSaver
  <2> HIDE DEF new
  <2>3. /\ handles' \in Seq(Handles) /\ Len(handles') = n
        /\ \A i \in 1..Len(handles) : handles'[i] = handles[i]
        /\ handles'[n] = new
    BY <1>2, <2>1, <2>2, HandleAdded
  <2>4. n \in Nat /\ n > Len(handles) /\ \A h \in 1..n : h > Len(handles) => h = n
    BY <1>3
  <2>5. \A i \in 1..n : i \in 1..Len(handles) \/ i = n
    BY <1>3
  <2> HIDE DEF n
  <2>7. TypeSaver'
    BY <1>2, <1>3, <2>1, <2>3, <2>4 DEF TypeSaver, config
  <2>8. MutexHeld' /\ reconnectMu = s
    BY <1>1, <1>2, <2>1 DEF MutexHeld
  <2>9. fresh'[s] = n /\ \A q \in Savers \ {s} : fresh'[q] = fresh[q]
    BY <1>2, <2>1 DEF TypeSaver
  <2>10. Switching'
    <3> SUFFICES ASSUME NEW q \in Savers
                 PROVE  /\ pc'[q] = "swap" => /\ fresh'[q] \in 1..Len(handles') /\ fresh'[q] # current'
                                              /\ handles'[fresh'[q]].open
                        /\ pc'[q] = "close" => old'[q] \in 1..Len(handles') /\ old'[q] # current'
      BY DEF Switching
    <3>1. CASE q = s
      BY <1>3, <2>1, <2>2, <2>3, <2>4, <2>9, <3>1
    <3>2. CASE q # s
      <4>1. pc'[q] = pc[q] /\ pc[q] \notin {"swap", "close"}
        BY <1>1, <1>2, <2>8, <3>2 DEF MutexHeld
      <4> QED
        BY <4>1
    <3> QED
      BY <3>1, <3>2
  <2>11. \A h \in 1..Len(handles) : handles[h].open => h = current
    BY <1>7, <2>1, <2>8 DEF OneLiveHandle
  <2>12. OneLiveHandle'
    <3>1. main' # "closed" => handles'[current'].open
      BY <1>1, <1>3, <1>7, <2>1, <2>3 DEF OneLiveHandle
    <3>2. ASSUME NEW h \in 1..Len(handles'), handles'[h].open, h # current'
          PROVE  reconnectMu' = s /\ pc'[s] = "swap" /\ h = fresh'[s]
      BY <2>1, <2>3, <2>5, <2>8, <2>9, <2>11, <3>2
    <3> QED
      BY <3>1, <3>2 DEF OneLiveHandle
  <2> QED
    BY <2>7, <2>8, <2>10, <2>12
<1>12. CASE OpenFails(s)
  <2>1. /\ UNCHANGED <<handles, current, config, saver>>
        /\ pc[s] = "open" /\ reconnectMu' = Nobody /\ pc'[s] = "failed"
    BY <1>1, <1>2, <1>12 DEF OpenFails, Goto
  <2>2. reconnectMu = s
    BY <1>2, <2>1 DEF MutexHeld
  <2>3. TypeSaver' /\ MutexHeld'
    BY <1>1, <1>2, <1>4, <2>1, <2>2 DEF TypeSaver, MutexHeld, config, saver
  <2>4. Switching'
    BY <1>1, <1>7, <2>1 DEF Switching, saver
  <2>5. OneLiveHandle'
    BY <1>1, <1>7, <2>1, <2>2 DEF OneLiveHandle, saver
  <2> QED
    BY <2>1, <2>3, <2>4, <2>5
<1>13. CASE Swap(s)
  <2>1. /\ UNCHANGED <<handles, reconnectMu, config, want, fresh, snapshot>>
        /\ old' = [old EXCEPT ![s] = current] /\ current' = fresh[s]
        /\ pc[s] = "swap" /\ pc'[s] = "close"
    BY <1>1, <1>2, <1>13 DEF Swap, Goto
  <2>2. fresh[s] \in 1..Len(handles) /\ fresh[s] # current /\ handles[fresh[s]].open
    BY <1>7, <2>1 DEF Switching
  <2>3. old'[s] = current /\ \A q \in Savers \ {s} : old'[q] = old[q]
    BY <1>2, <2>1 DEF TypeSaver
  <2>5. TypeSaver'
    BY <1>2, <1>3, <2>1 DEF TypeSaver, config
  <2>6. MutexHeld' /\ reconnectMu = s
    BY <1>1, <1>2, <2>1 DEF MutexHeld
  <2>7. \A q \in Savers \ {s} : pc'[q] \notin {"swap", "close"}
    BY <1>1, <1>2, <2>6 DEF MutexHeld
  <2>8. Switching'
    BY <1>3, <2>1, <2>2, <2>3, <2>7 DEF Switching
  <2>9. \A h \in 1..Len(handles) : handles[h].open => h = current \/ h = fresh[s]
    BY <1>7, <2>1, <2>6 DEF OneLiveHandle
  <2>10. OneLiveHandle'
    BY <2>1, <2>2, <2>3, <2>6, <2>9 DEF OneLiveHandle
  <2> QED
    BY <2>5, <2>6, <2>8, <2>10
<1>14. CASE CloseOld(s)
  <2>1. /\ handles' = [handles EXCEPT ![old[s]].open = FALSE]
        /\ UNCHANGED <<current, config, saver>>
        /\ pc[s] = "close" /\ reconnectMu' = Nobody /\ pc'[s] = "set"
    BY <1>1, <1>2, <1>14 DEF CloseOld, Goto
  <2>2. old[s] \in 1..Len(handles) /\ old[s] # current /\ reconnectMu = s
    BY <1>2, <1>7, <2>1 DEF Switching, MutexHeld
  <2>3. /\ handles' \in Seq(Handles) /\ Len(handles') = Len(handles)
        /\ \A i \in 1..Len(handles) : /\ handles'[i].path = handles[i].path
                                      /\ handles'[i].conn = handles[i].conn
                                      /\ handles'[i].open = IF i = old[s] THEN FALSE ELSE handles[i].open
    BY <1>2, <2>1, <2>2, HandleClosed
  <2>5. TypeSaver' /\ MutexHeld'
    BY <1>1, <1>2, <1>4, <2>1, <2>2, <2>3 DEF TypeSaver, MutexHeld, config, saver
  <2>6. \A q \in Savers : pc'[q] \notin {"swap", "close"}
    BY <1>1, <1>2, <2>1, <2>2 DEF MutexHeld
  <2>7. Switching'
    BY <2>6 DEF Switching
  <2>8. \A h \in 1..Len(handles) : handles[h].open => h = current \/ h = old[s]
    BY <1>7, <2>1, <2>2 DEF OneLiveHandle
  <2>9. OneLiveHandle'
    BY <1>1, <1>3, <1>7, <2>1, <2>2, <2>3, <2>8 DEF OneLiveHandle
  <2> QED
    BY <2>5, <2>7, <2>9
<1>15. CASE SetPath(s)
  <2>1. /\ UNCHANGED <<handles, current, reconnectMu, savedPath, alone, saver>>
        /\ cfgPath' = want[s] /\ crossed' \in BOOLEAN /\ pc[s] = "set" /\ pc'[s] = "snapshot"
    BY <1>1, <1>2, <1>15 DEF SetPath, SetDBPath, Goto
  <2>2. TypeSaver'
    BY <1>2, <2>1 DEF TypeSaver, saver
  <2> QED
    BY <1>8, <2>1, <2>2 DEF saver
<1>16. CASE TakeSnapshot(s)
  <2>1. /\ UNCHANGED <<handles, current, reconnectMu, config, want, fresh, old>>
        /\ snapshot' = [snapshot EXCEPT ![s] = cfgPath]
        /\ pc[s] = "snapshot" /\ pc'[s] = "save"
    BY <1>1, <1>2, <1>16 DEF TakeSnapshot, Goto
  <2>2. TypeSaver'
    BY <1>2, <2>1 DEF TypeSaver, config
  <2> QED
    BY <1>8, <2>1, <2>2
<1>17. CASE SaveFile(s)
  <2>1. /\ UNCHANGED <<handles, current, reconnectMu, cfgPath, crossed, alone, saver>>
        /\ savedPath' \in {snapshot[s], savedPath}
        /\ pc[s] = "save" /\ pc'[s] \in {"done", "failed"}
    BY <1>1, <1>2, <1>17 DEF SaveFile, Goto
  <2>2. TypeSaver'
    BY <1>2, <2>1 DEF TypeSaver, saver
  <2> QED
    BY <1>8, <2>1, <2>2 DEF saver
<1> QED
  BY <1>9, <1>10, <1>11, <1>12, <1>13, <1>14, <1>15, <1>16, <1>17 DEF Save

-----------------------------------------------------------------------------
(* Edits and cleaner runs.                                                 *)

Writes(w) ==
  \/ w \in Editors /\ Edit(w)
  \/ w \in Cleaners /\ (Clean(w) \/ CleanRollback(w))
  \/ QueryFails(w) \/ BackUpFails(w)

InTransaction == {"write", "commit", "committing"}

\* What a writer leaves of everybody else: the process, the configuration and the savers.
LEMMA WriterFrame ==
  ASSUME IInv, NEW w \in Writers, Writes(w)
  PROVE  /\ UNCHANGED <<process, current, reconnectMu, config, saver>>
         /\ pc' \in [Requests -> Labels]
         /\ \A q \in Requests \ {w} : pc'[q] = pc[q]
<1>1. pc \in [Requests -> Labels] /\ w \in Requests
  BY DEF IInv, TypeOK, Requests
<1>2. UNCHANGED <<process, current, reconnectMu, config, saver>>
  BY DEF Writes, Edit, Clean, QueryFails, BackUpFails, EditRead, EditCheck, EditBackup, EditUpdate,
         EditExec, CleanRequest, CleanRead, CleanBackup, CleanBegin, CleanBeginTx, CleanWrite,
         CleanCommit, CleanCommitted, CleanRollback, BackUp, TakeConn
<1>3. \E l \in Labels : Goto(w, l)
  BY DEF Writes, Edit, Clean, QueryFails, BackUpFails, EditRead, EditCheck, EditBackup, EditUpdate,
         EditExec, CleanRequest, CleanRead, CleanBackup, CleanBegin, CleanBeginTx, CleanWrite,
         CleanCommit, CleanCommitted, CleanRollback, BackUp, TakeConn, Labels, Over
<1> QED
  BY <1>1, <1>2, <1>3, GotoChanges

\* A writer opens and closes nothing.
SameHandles ==
  /\ TypeHandles' /\ Len(handles') = Len(handles)
  /\ \A h \in 1..Len(handles) : /\ handles'[h].path = handles[h].path
                                /\ handles'[h].open = handles[h].open

\* No writer opens, closes or moves a handle.
LEMMA WriterKeepsHandles ==
  ASSUME IInv, NEW w \in Writers, Writes(w)
  PROVE  SameHandles
<1>1. /\ TypeHandles /\ current' = current
      /\ Len(handles) \in Nat /\ current \in 1..Len(handles)
  BY WriterFrame, HandlesIndexed DEF IInv, TypeOK
<1>2. CASE UNCHANGED handles
  BY <1>1, <1>2 DEF SameHandles, TypeHandles
<1>3. ASSUME NEW who \in Cleaners \union {Nobody}, pc[w] \in Working,
             handles' = [handles EXCEPT ![handle[w]].conn = who]
      PROVE  SameHandles
  <2>1. handle[w] \in 1..Len(handles)
    BY <1>3 DEF IInv, HandleTaken
  <2>2. /\ handles' \in Seq(Handles) /\ Len(handles') = Len(handles)
        /\ \A i \in 1..Len(handles) : /\ handles'[i].path = handles[i].path
                                      /\ handles'[i].open = handles[i].open
    BY <1>1, <1>3, <2>1, ConnChanged
  <2> QED
    BY <1>1, <2>2 DEF SameHandles, TypeHandles
<1>4. CASE w \in Cleaners /\ CleanBeginTx(w)
  BY <1>3, <1>4 DEF CleanBeginTx, Working
<1>5. CASE CleanCommitted(w) \/ CleanRollback(w)
  BY <1>3, <1>5 DEF CleanCommitted, CleanRollback, EndTx, Working
<1>6. \/ UNCHANGED handles
      \/ w \in Cleaners /\ CleanBeginTx(w)
      \/ CleanCommitted(w) \/ CleanRollback(w)
  BY DEF Writes, Edit, Clean, QueryFails, BackUpFails, EditRead, EditCheck, EditBackup, EditUpdate,
         EditExec, CleanRequest, CleanRead, CleanBackup, CleanBegin, CleanWrite, CleanCommit,
         BackUp, TakeConn
<1> QED
  BY <1>2, <1>4, <1>5, <1>6

\* A writer keeps what the savers rely on.
LEMMA SaversUndisturbed ==
  ASSUME IInv, NEW w \in Writers, Writes(w)
  PROVE  TypeProcess' /\ TypeSaver' /\ MutexHeld' /\ Switching' /\ OneLiveHandle'
<1>0. SameHandles
  BY WriterKeepsHandles
<1>1. /\ UNCHANGED <<process, current, reconnectMu, config, saver>>
      /\ \A s \in Savers : pc'[s] = pc[s]
  BY WriterFrame, SessionAssumption DEF Requests, Writers
<1>2. Len(handles') = Len(handles) /\ current \in 1..Len(handles)
  BY <1>0, HandlesIndexed DEF IInv, TypeOK, SameHandles
<1>3. TypeProcess' /\ TypeSaver' /\ MutexHeld'
  BY <1>1, <1>2 DEF IInv, TypeOK, TypeProcess, TypeSaver, MutexHeld, process, config, saver
<1>4. Switching'
  BY <1>0, <1>1, <1>2 DEF IInv, Switching, SameHandles, saver
<1>5. OneLiveHandle'
  BY <1>0, <1>1, <1>2 DEF IInv, OneLiveHandle, SameHandles, saver, process
<1> QED
  BY <1>3, <1>4, <1>5

\* Every step of a writer keeps the invariant.
LEMMA WriterStep ==
  ASSUME IInv, NEW w \in Writers, Writes(w)
  PROVE  IInv'
<1>1. /\ UNCHANGED <<process, current, reconnectMu, config, saver>>
      /\ pc' \in [Requests -> Labels] /\ pc \in [Requests -> Labels]
      /\ w \in Requests
      /\ \A q \in Writers \ {w} : pc'[q] = pc[q]
  BY WriterFrame DEF Requests, IInv, TypeOK
<1>2. TypeHandles /\ TypeWriter /\ TypeDatabase /\ ConnHeld /\ HandleTaken /\ TextRead
  BY DEF IInv, TypeOK
<1>3. /\ Len(handles) \in Nat /\ current \in 1..Len(handles)
      /\ \A h \in 1..Len(handles) : handles[h] \in Handles
  BY <1>2, HandlesIndexed
<1>4. Nobody \notin Cleaners /\ Editors \intersect Cleaners = {}
  BY SessionAssumption
<1>5. SUFFICES TypeWriter' /\ TypeDatabase' /\ ConnHeld' /\ HandleTaken' /\ TextRead'
  BY <1>1, WriterKeepsHandles, SaversUndisturbed DEF IInv, TypeOK, SameHandles
\* A step outside a transaction, or within one, which keeps the handles.
<1>6. ASSUME UNCHANGED handles, TypeDatabase',
             pc[w] \in InTransaction <=> pc'[w] \in InTransaction,
             \/ UNCHANGED handle
             \/ pc[w] \notin InTransaction /\ handle' = [handle EXCEPT ![w] = current],
             pc'[w] \in Working => pc[w] \in Working \/ handle'[w] = current,
             runPath' \in [Cleaners -> Paths], got' \in [Cleaners -> Texts \union {NoText}],
             \A c \in Cleaners \ {w} : got'[c] = got[c],
             w \in Cleaners /\ pc'[w] \in Planned => got'[w] \in Texts
      PROVE  TypeWriter' /\ TypeDatabase' /\ ConnHeld' /\ HandleTaken' /\ TextRead'
  <2>2. /\ handle' \in [Writers -> 0..Len(handles)]
        /\ \A v \in Writers \ {w} : handle'[v] = handle[v]
        /\ handle'[w] \in {handle[w], current}
        /\ pc[w] \in InTransaction => handle'[w] = handle[w]
    BY <1>2, <1>3, <1>6 DEF TypeWriter
  <2>3. TypeWriter'
    BY <1>6, <2>2 DEF TypeWriter
  <2>4. ConnHeld'
    <3> SUFFICES ASSUME NEW c \in Cleaners, NEW h \in 1..Len(handles)
                 PROVE  handles[h].conn = c
                          <=> pc'[c] \in InTransaction /\ handle'[c] = h
      BY <1>6 DEF ConnHeld, InTransaction
    <3>1. handles[h].conn = c <=> pc[c] \in InTransaction /\ handle[c] = h
      BY <1>2 DEF ConnHeld, InTransaction
    <3>2. CASE c = w
      BY <1>6, <2>2, <3>1, <3>2
    <3>3. CASE c # w
      BY <1>1, <2>2, <3>1, <3>3 DEF Writers
    <3> QED
      BY <3>2, <3>3
  <2>5. HandleTaken'
    <3> SUFFICES ASSUME NEW v \in Writers, pc'[v] \in Working
                 PROVE  handle'[v] \in 1..Len(handles)
      BY <1>6 DEF HandleTaken
    <3>1. CASE v = w
      BY <1>2, <1>3, <1>6, <2>2, <3>1 DEF HandleTaken
    <3>2. CASE v # w
      BY <1>1, <1>2, <2>2, <3>2 DEF HandleTaken
    <3> QED
      BY <3>1, <3>2
  <2>6. TextRead'
    BY <1>1, <1>2, <1>6 DEF TextRead, Writers
  <2> QED
    BY <1>6, <2>3, <2>4, <2>5, <2>6
<1>7. /\ runPath \in [Cleaners -> Paths] /\ got \in [Cleaners -> Texts \union {NoText}]
      /\ w \in Cleaners /\ pc[w] \in Planned => got[w] \in Texts
  BY <1>2 DEF TypeWriter, TextRead
\* The handle of a writer at work, and the path it leads to.
<1>8. ASSUME pc[w] \in Working
      PROVE  handle[w] \in 1..Len(handles) /\ PathOf(w) \in Paths
  <2>1. handle[w] \in 1..Len(handles)
    BY <1>2, <1>8 DEF HandleTaken
  <2> QED
    BY <1>3, <2>1 DEF PathOf, Handles
\* A step that moves the writer on and does nothing else.
<1>9. ASSUME UNCHANGED <<handles, writer, database>>, NEW l \in Labels, pc'[w] = l,
             l \in Working => pc[w] \in Working,
             l \in Planned => pc[w] \in Planned \/ w \notin Cleaners,
             pc[w] \in InTransaction <=> l \in InTransaction
      PROVE  TypeWriter' /\ TypeDatabase' /\ ConnHeld' /\ HandleTaken' /\ TextRead'
  <2>1. TypeDatabase'
    BY <1>2, <1>9 DEF TypeDatabase, database
  <2> QED
    BY <1>6, <1>7, <1>9, <2>1 DEF writer
\* A writer takes the handle that is current.
<1>10. ASSUME NEW l \in Labels, TakeConn(w, l), pc[w] \notin InTransaction, l \notin InTransaction,
              l \in Planned => pc[w] \in Planned \/ w \notin Cleaners
       PROVE  TypeWriter' /\ TypeDatabase' /\ ConnHeld' /\ HandleTaken' /\ TextRead'
  <2>1. /\ UNCHANGED <<handles, runPath, got, database>>
        /\ handle' = [handle EXCEPT ![w] = current] /\ pc'[w] = l
    BY <1>1, <1>10 DEF TakeConn, Goto
  <2>2. TypeDatabase'
    BY <1>2, <2>1 DEF TypeDatabase, database
  <2>3. handle'[w] = current
    BY <1>2, <2>1 DEF TypeWriter
  <2> QED
    BY <1>6, <1>7, <1>10, <2>1, <2>2, <2>3
\* The backup is made, or has been.
<1>11. ASSUME NEW p \in Paths, BackUp(w, p, "update"), pc[w] = "backup"
       PROVE  TypeWriter' /\ TypeDatabase' /\ ConnHeld' /\ HandleTaken' /\ TextRead'
  <2>1. /\ UNCHANGED <<handles, writer, text>> /\ pc'[w] = "update"
        /\ done' = done \union {p}
        /\ backup' = IF p \in done THEN backup ELSE [backup EXCEPT ![p] = text[p]]
    BY <1>1, <1>11 DEF BackUp, Goto
  <2>2. TypeDatabase'
    BY <1>2, <2>1 DEF TypeDatabase
  <2> QED
    BY <1>6, <1>7, <1>11, <2>1, <2>2 DEF writer, InTransaction, Working, Planned
<1>12. CASE QueryFails(w) \/ BackUpFails(w)
  <2>1. /\ UNCHANGED <<handles, writer, database>> /\ pc'[w] = "failed" /\ "failed" \in Labels
        /\ pc[w] \in {"read", "exec", "begin", "backup"}
    BY <1>1, <1>12 DEF QueryFails, BackUpFails, Goto, Labels, Over
  <2> QED
    BY <1>9, <2>1 DEF InTransaction, Working, Planned
<1>13. CASE w \in Editors /\ Edit(w)
  <2>1. w \notin Cleaners
    BY <1>4, <1>13
  <2>2. CASE EditRead(w) \/ EditUpdate(w)
    <3>1. \E l \in {"read", "exec"} : TakeConn(w, l) /\ pc[w] \in {"idle", "update"}
      BY <2>2 DEF EditRead, EditUpdate
    <3> QED
      BY <1>10, <2>1, <3>1 DEF Labels, InTransaction
  <2>3. CASE EditCheck(w)
    <3>1. UNCHANGED <<handles, writer, database>> /\ pc'[w] = "backup" /\ pc[w] = "read"
      BY <1>1, <2>3 DEF EditCheck, Goto
    <3> QED
      BY <1>9, <2>1, <3>1 DEF Labels, InTransaction, Working
  <2>4. CASE EditBackup(w)
    <3>1. cfgPath \in Paths
      BY DEF IInv, TypeOK, TypeSaver
    <3> QED
      BY <1>11, <2>4, <3>1 DEF EditBackup
  <2>5. CASE EditExec(w)
    <3>1. /\ UNCHANGED <<handles, writer, done, backup>> /\ pc'[w] = "done" /\ pc[w] = "exec"
          /\ text' = [text EXCEPT ![PathOf(w)] = [db |-> PathOf(w), by |-> w, clean |-> FALSE]]
      BY <1>1, <2>5 DEF EditExec, Goto
    <3>2. PathOf(w) \in Paths
      BY <1>8, <3>1 DEF Working
    <3>3. [db |-> PathOf(w), by |-> w, clean |-> FALSE] \in Texts
      BY <3>2 DEF Texts
    <3>4. TypeDatabase'
      BY <1>2, <3>1, <3>3 DEF TypeDatabase
    <3> QED
      BY <1>6, <1>7, <2>1, <3>1, <3>4 DEF writer, InTransaction, Working
  <2> QED
    BY <1>13, <2>2, <2>3, <2>4, <2>5 DEF Edit
<1>14. CASE w \in Cleaners /\ (Clean(w) \/ CleanRollback(w))
  <2>1. CASE CleanRequest(w)
    <3>1. /\ UNCHANGED <<handles, got, database>> /\ pc'[w] = "read" /\ pc[w] = "idle"
          /\ runPath' = [runPath EXCEPT ![w] = cfgPath]
          /\ handle' = [handle EXCEPT ![w] = current]
      BY <1>1, <2>1 DEF CleanRequest, Goto
    <3>2. runPath' \in [Cleaners -> Paths]
      BY <1>7, <3>1 DEF IInv, TypeOK, TypeSaver
    <3>3. TypeDatabase' /\ handle'[w] = current
      BY <1>2, <3>1 DEF TypeDatabase, TypeWriter, database
    <3> QED
      BY <1>6, <1>7, <3>1, <3>2, <3>3 DEF InTransaction, Working, Planned
  <2>2. CASE CleanRead(w)
    <3>1. /\ UNCHANGED <<handles, handle, runPath, database>> /\ pc'[w] = "backup" /\ pc[w] = "read"
          /\ got' = [got EXCEPT ![w] = text[PathOf(w)]]
      BY <1>1, <2>2 DEF CleanRead, Goto
    <3>2. text[PathOf(w)] \in Texts
      BY <1>2, <1>8, <3>1 DEF Working, TypeDatabase
    <3>3. got' \in [Cleaners -> Texts \union {NoText}] /\ got'[w] \in Texts
          /\ \A c \in Cleaners \ {w} : got'[c] = got[c]
      BY <1>7, <1>14, <3>1, <3>2
    <3>4. TypeDatabase'
      BY <1>2, <3>1 DEF TypeDatabase, database
    <3> QED
      BY <1>6, <1>7, <3>1, <3>3, <3>4 DEF InTransaction, Working
  <2>3. CASE CleanBackup(w)
    <3>1. runPath[w] \in Paths
      BY <1>7, <1>14
    <3> QED
      BY <1>11, <2>3, <3>1 DEF CleanBackup
  <2>4. CASE CleanBegin(w)
    BY <1>10, <2>4 DEF CleanBegin, Labels, InTransaction, Planned
  <2>5. CASE CleanBeginTx(w)
    <3>1. /\ handles' = [handles EXCEPT ![handle[w]].conn = w]
          /\ UNCHANGED <<writer, database>> /\ pc'[w] = "write" /\ pc[w] = "begin"
          /\ handles[handle[w]].conn = Nobody
      BY <1>1, <2>5 DEF CleanBeginTx, Goto, CanQuery
    <3>2. handle[w] \in 1..Len(handles)
      BY <1>8, <3>1 DEF Working
    <3>3. /\ handles' \in Seq(Handles) /\ Len(handles') = Len(handles)
          /\ \A i \in 1..Len(handles) : /\ handles'[i].path = handles[i].path
                                        /\ handles'[i].open = handles[i].open
                                        /\ handles'[i].conn = IF i = handle[w] THEN w ELSE handles[i].conn
      <4>1. w \in Cleaners \union {Nobody} /\ handles' = [handles EXCEPT ![handle[w]].conn = w]
        BY <1>14, <3>1
      <4> QED
        BY <1>2, <3>2, <4>1, ConnChanged
    <3>5. TypeWriter' /\ TypeDatabase' /\ HandleTaken' /\ TextRead'
      BY <1>1, <1>2, <1>7, <3>1, <3>2, <3>3
      DEF TypeWriter, TypeDatabase, HandleTaken, TextRead, Planned, Working, Writers, writer, database
    <3>6. ConnHeld'
      <4> SUFFICES ASSUME NEW c \in Cleaners, NEW h \in 1..Len(handles)
                   PROVE  handles'[h].conn = c
                            <=> pc'[c] \in InTransaction /\ handle[c] = h
        BY <3>1, <3>3 DEF ConnHeld, InTransaction, writer
      <4>1. handles[h].conn = c <=> pc[c] \in InTransaction /\ handle[c] = h
        BY <1>2 DEF ConnHeld, InTransaction
      <4>2. CASE c = w
        BY <3>1, <3>3, <4>1, <4>2 DEF InTransaction
      <4>3. CASE c # w
        BY <1>1, <1>4, <3>1, <3>3, <4>1, <4>3 DEF Writers
      <4> QED
        BY <4>2, <4>3
    <3> QED
      BY <3>5, <3>6
  <2>6. CASE CleanWrite(w) \/ CleanCommit(w)
    <3>1. /\ UNCHANGED <<handles, writer, database>> /\ pc'[w] \in {"commit", "committing"}
          /\ pc[w] \in {"write", "commit"}
      BY <1>1, <2>6 DEF CleanWrite, CleanCommit, Goto
    <3> QED
      BY <1>9, <3>1 DEF Labels, InTransaction, Working, Planned
  <2>7. CASE CleanCommitted(w) \/ CleanRollback(w)
    <3>1. /\ handles' = [handles EXCEPT ![handle[w]].conn = Nobody]
          /\ UNCHANGED <<writer, done, backup>> /\ pc'[w] \in Over /\ pc[w] \in InTransaction
          /\ \/ UNCHANGED text
             \/ text' = [text EXCEPT ![PathOf(w)] = [got[w] EXCEPT !.clean = TRUE]]
      BY <1>1, <2>7 DEF CleanCommitted, CleanRollback, EndTx, Goto, Over, InTransaction, database
    <3>2. handle[w] \in 1..Len(handles) /\ PathOf(w) \in Paths /\ got[w] \in Texts
      BY <1>7, <1>8, <1>14, <3>1 DEF Working, Planned, InTransaction
    <3>3. [got[w] EXCEPT !.clean = TRUE] \in Texts
      BY <3>2 DEF Texts
    <3>4. TypeDatabase'
      BY <1>2, <3>1, <3>2, <3>3 DEF TypeDatabase
    <3>5. /\ handles' \in Seq(Handles) /\ Len(handles') = Len(handles)
          /\ \A i \in 1..Len(handles) : /\ handles'[i].path = handles[i].path
                                        /\ handles'[i].open = handles[i].open
                                        /\ handles'[i].conn = IF i = handle[w] THEN Nobody ELSE handles[i].conn
      <4>1. Nobody \in Cleaners \union {Nobody}
            /\ handles' = [handles EXCEPT ![handle[w]].conn = Nobody]
        BY <3>1
      <4> QED
        BY <1>2, <3>2, <4>1, ConnChanged
    <3>7. TypeWriter' /\ HandleTaken' /\ TextRead'
      BY <1>1, <1>2, <3>1, <3>5
      DEF TypeWriter, HandleTaken, TextRead, Planned, Working, Writers, writer, Over
    <3>8. ConnHeld'
      <4> SUFFICES ASSUME NEW c \in Cleaners, NEW h \in 1..Len(handles)
                   PROVE  handles'[h].conn = c
                            <=> pc'[c] \in InTransaction /\ handle[c] = h
        BY <3>1, <3>5 DEF ConnHeld, InTransaction, writer
      <4>1. handles[h].conn = c <=> pc[c] \in InTransaction /\ handle[c] = h
        BY <1>2 DEF ConnHeld, InTransaction
      <4>2. handles[handle[w]].conn = w
        BY <1>2, <1>14, <3>1, <3>2 DEF ConnHeld, InTransaction
      <4>3. CASE c = w
        BY <1>4, <3>1, <3>5, <4>1, <4>3 DEF InTransaction, Over
      <4>4. CASE c # w
        BY <1>1, <1>4, <3>1, <3>5, <4>1, <4>2, <4>4 DEF Writers
      <4> QED
        BY <4>3, <4>4
    <3> QED
      BY <3>4, <3>7, <3>8
  <2> QED
    BY <1>14, <2>1, <2>2, <2>3, <2>4, <2>5, <2>6, <2>7 DEF Clean
<1> QED
  BY <1>12, <1>13, <1>14 DEF Writes

-----------------------------------------------------------------------------
(* The end of the process, and the invariant.                              *)

Finishes == Stop \/ Quit \/ ServeFails \/ Exit \/ StreamEnds

\* The end of the process touches the handle in use, and nothing else that is a request's.
LEMMA MainFrame ==
  ASSUME IInv, Finishes
  PROVE  /\ UNCHANGED <<current, reconnectMu, config, saver, pc, writer, database>>
         /\ \/ UNCHANGED handles /\ main' # "closed" /\ main # "closed"
            \/ UNCHANGED <<handles, main>>
            \/ CloseDB
         /\ TypeProcess'
<1>1. TypeProcess
  BY DEF IInv, TypeOK
<1>2. {c \in Cleaners : pc[c] = "committing"} \subseteq Cleaners
  OBVIOUS
<1>3. CASE Stop
  BY <1>1, <1>2, <1>3 DEF Stop, Step, Others, TypeProcess
<1>4. CASE Quit
  BY <1>1, <1>2, <1>4 DEF Quit, Step, Others, TypeProcess
<1>5. CASE ServeFails \/ BeginShutdown \/ ShutdownEnds \/ Deadline
  BY <1>1, <1>5 DEF ServeFails, BeginShutdown, ShutdownEnds, Deadline, Step, Others, TypeProcess
<1>6. CASE CloseDB
  BY <1>1, <1>6 DEF CloseDB, Step, TypeProcess
<1>7. CASE StreamEnds
  BY <1>1, <1>7 DEF StreamEnds, Others, TypeProcess
<1> QED
  BY <1>3, <1>4, <1>5, <1>6, <1>7 DEF Finishes, Exit

\* What closing the database does to the handles.
LEMMA DatabaseClosed ==
  ASSUME IInv, CloseDB
  PROVE  /\ handles' \in Seq(Handles) /\ Len(handles') = Len(handles)
         /\ \A i \in 1..Len(handles) : /\ handles'[i].path = handles[i].path
                                       /\ handles'[i].conn = handles[i].conn
                                       /\ handles'[i].open = IF i = current THEN FALSE ELSE handles[i].open
<1>1. TypeHandles /\ current \in 1..Len(handles)
  BY DEF IInv, TypeOK, TypeHandles
<1>2. handles' = [handles EXCEPT ![current].open = FALSE]
  BY DEF CloseDB, CloseCurrent
<1> QED
  BY <1>1, <1>2, HandleClosed

\* Every step of the end of the process keeps the invariant.
LEMMA MainStep ==
  ASSUME IInv, Finishes
  PROVE  IInv'
<1>1. /\ UNCHANGED <<current, reconnectMu, config, saver, pc, writer, database>>
      /\ TypeProcess'
  BY MainFrame
<1>2. CASE UNCHANGED handles /\ (main = "closed" => main' = "closed") /\ (main' = "closed" => main = "closed")
  <2>1. TypeOK'
    BY <1>1, <1>2 DEF IInv, TypeOK, TypeHandles, TypeSaver, TypeWriter, TypeDatabase, MutexHeld, ConnHeld,
                      config, saver, writer, database
  <2>2. HandleTaken' /\ TextRead' /\ Switching'
    BY <1>1, <1>2 DEF IInv, HandleTaken, TextRead, Switching, saver, writer
  <2>3. OneLiveHandle'
    BY <1>1, <1>2 DEF IInv, OneLiveHandle, saver
  <2> QED
    BY <2>1, <2>2, <2>3 DEF IInv
<1>3. CASE CloseDB
  <2>1. /\ handles' \in Seq(Handles) /\ Len(handles') = Len(handles)
        /\ \A i \in 1..Len(handles) : /\ handles'[i].conn = handles[i].conn
                                      /\ handles'[i].open = IF i = current THEN FALSE ELSE handles[i].open
    BY <1>3, DatabaseClosed
  <2>2. main' = "closed"
    BY <1>3 DEF CloseDB, Step
  <2>3. TypeHandles' /\ TypeSaver' /\ TypeWriter' /\ TypeDatabase' /\ MutexHeld' /\ pc' \in [Requests -> Labels]
    BY <1>1, <2>1 DEF IInv, TypeOK, TypeHandles, TypeSaver, TypeWriter, TypeDatabase, MutexHeld,
                      config, saver, writer, database
  <2>4. ConnHeld'
    <3>1. ConnHeld /\ UNCHANGED <<pc, handle>>
      BY <1>1 DEF IInv, TypeOK, writer
    <3> SUFFICES ASSUME NEW c \in Cleaners, NEW h \in 1..Len(handles)
                 PROVE  handles'[h].conn = c
                          <=> pc[c] \in {"write", "commit", "committing"} /\ handle[c] = h
      BY <2>1, <3>1 DEF ConnHeld
    <3>2. handles[h].conn = c <=> pc[c] \in {"write", "commit", "committing"} /\ handle[c] = h
      BY <3>1 DEF ConnHeld
    <3> QED
      BY <2>1, <3>2
  <2>5. HandleTaken' /\ TextRead'
    BY <1>1, <2>1 DEF IInv, HandleTaken, TextRead, writer
  <2>6. Switching'
    BY <1>1, <2>1 DEF IInv, Switching, saver
  <2>7. OneLiveHandle'
    BY <1>1, <2>1, <2>2 DEF IInv, OneLiveHandle, saver
  <2> QED
    BY <1>1, <2>3, <2>4, <2>5, <2>6, <2>7 DEF IInv, TypeOK
<1> QED
  BY <1>2, <1>3, MainFrame

\* The server starts with one handle, and nobody at work.
LEMMA InitIInv == Init => IInv
<1> SUFFICES ASSUME Init PROVE IInv
  OBVIOUS
<1> DEFINE first == [path |-> InitialPath, open |-> TRUE, conn |-> Nobody]
<1>1. handles = <<first>> /\ current = 1 /\ first \in Handles /\ first.open /\ first.conn = Nobody
  BY SessionAssumption DEF Init, Handles
<1>2. Len(handles) = 1 /\ handles \in Seq(Handles) /\ handles[1] = first
  BY <1>1
<1>3. /\ pc = [r \in Requests |-> "idle"] /\ reconnectMu = Nobody /\ main = "serving"
      /\ outcome = "running" /\ ctxDone = FALSE /\ stream = FALSE /\ underway = {}
  BY DEF Init
<1>4. Nobody \notin Savers /\ Nobody \notin Cleaners /\ InitialPath \in Paths
  BY SessionAssumption
<1>5. pc \in [Requests -> Labels] /\ \A r \in Requests : pc[r] = "idle"
  BY <1>3 DEF Labels
<1>6. TypeProcess
  BY <1>3 DEF TypeProcess
<1>7. TypeHandles /\ OneLiveHandle
  <2>1. \A h \in 1..1 : h = 1
    OBVIOUS
  <2> QED
    BY <1>1, <1>2, <2>1 DEF TypeHandles, OneLiveHandle
<1> HIDE DEF first
<1>8. TypeSaver
  <2>1. /\ reconnectMu = Nobody /\ cfgPath = InitialPath /\ savedPath = InitialPath
        /\ crossed = FALSE /\ alone = {}
    BY DEF Init
  <2>2. want \in [Savers -> Paths] /\ snapshot \in [Savers -> Paths]
    BY <1>4 DEF Init
  <2>3. fresh \in [Savers -> 0..Len(handles)] /\ old \in [Savers -> 0..Len(handles)]
    BY <1>2 DEF Init
  <2> QED
    BY <1>4, <2>1, <2>2, <2>3 DEF TypeSaver
<1>9. TypeWriter
  BY <1>2, <1>4 DEF Init, TypeWriter
<1>10. TypeDatabase
  <2>1. \A p \in Paths : Original(p) \in Texts
    BY DEF Original, Texts
  <2> QED
    BY <2>1 DEF Init, TypeDatabase
<1>11. MutexHeld
  BY <1>3, <1>4, <1>5 DEF MutexHeld, Requests
<1>12. ConnHeld
  BY <1>1, <1>2, <1>4, <1>5 DEF ConnHeld, Requests, Writers
<1>13. HandleTaken /\ TextRead /\ Switching
  BY <1>5 DEF HandleTaken, TextRead, Switching, Working, Planned, Requests, Writers
<1> QED
  BY <1>5, <1>6, <1>7, <1>8, <1>9, <1>10, <1>11, <1>12, <1>13 DEF IInv, TypeOK

\* Whoever takes a step: a save, an edit or a run, or main.
LEMMA Actors ==
  ASSUME [Next]_vars
  PROVE  \/ \E s \in Savers : Save(s)
         \/ \E w \in Writers : Writes(w)
         \/ Finishes
         \/ UNCHANGED vars
BY DEF Next, Requested, Ended, Finishes, Writes, Writers

\* Every step keeps the invariant.
LEMMA NextIInv == IInv /\ [Next]_vars => IInv'
<1> SUFFICES ASSUME IInv, [Next]_vars PROVE IInv'
  OBVIOUS
<1>1. ASSUME UNCHANGED vars PROVE IInv'
  <2>1. TypeOK'
    BY <1>1 DEF IInv, TypeOK, TypeProcess, TypeHandles, TypeSaver, TypeWriter, TypeDatabase, MutexHeld, ConnHeld,
                vars, process, config, saver, writer, database
  <2>2. HandleTaken' /\ TextRead' /\ Switching' /\ OneLiveHandle'
    BY <1>1 DEF IInv, HandleTaken, TextRead, Switching, OneLiveHandle, vars, process, saver, writer
  <2> QED
    BY <2>1, <2>2 DEF IInv
<1> QED
  BY <1>1, Actors, SaverStep, WriterStep, MainStep

\* Every variable always has its type, a transaction holds the connection of the handle it
\* began on, and the saver in Reconnect holds its mutex.
THEOREM TypeCorrect == Spec => []TypeOK
<1>1. IInv => TypeOK
  BY DEF IInv
<1> QED
  BY InitIInv, NextIInv, <1>1, PTL DEF Spec

\* However many saves switch the database, and whoever ends the process meanwhile, Reconnect
\* leaks no handle and closes none that is in use.
THEOREM NoHandleLeaks == Spec => []OneLiveHandle
<1>1. IInv => OneLiveHandle
  BY DEF IInv
<1> QED
  BY InitIInv, NextIInv, <1>1, PTL DEF Spec

-----------------------------------------------------------------------------
(* Configuration, connection and file.                                     *)

\* Where a saver switches, its handle is of the database it was asked for.
HandlesNamed ==
  \A s \in Savers : pc[s] \in {"swap", "close", "set"} =>
    fresh[s] \in 1..Len(handles) /\ handles[fresh[s]].path = want[s]
\* The server is connected to the configured database, or to that of a saver which is about
\* to configure it.
ConnectedFor ==
  ~crossed => \/ cfgPath = handles[current].path
              \/ \E s \in Savers : pc[s] \in {"close", "set"} /\ current = fresh[s]
\* Nobody saves beside a saver that has the server to itself.
Undisturbed ==
  \A s \in alone :
    /\ \A q \in Savers \ {s} : pc[q] \in {"idle"} \union Over
    /\ pc[s] = "save" => snapshot[s] = cfgPath
    /\ pc[s] = "done" => savedPath = cfgPath
Agreed == HandlesNamed /\ ConnectedFor /\ Undisturbed

\* A saver opens the database it was asked for, and keeps to it.
LEMMA HandlesNamedSaver ==
  ASSUME IInv, Agreed, NEW s \in Savers, Save(s)
  PROVE  HandlesNamed'
<1>1. pc \in [Requests -> Labels] /\ s \in Requests /\ TypeSaver /\ TypeHandles /\ HandlesNamed
  BY DEF IInv, TypeOK, Requests, Agreed
<1>2. /\ Len(handles) \in Nat /\ Len(handles') \in Nat /\ Len(handles) <= Len(handles')
      /\ \A h \in 1..Len(handles) : handles'[h].path = handles[h].path
  BY <1>1, SaverKeepsHandles, HandlesIndexed DEF HandlesKept, TypeHandles
<1>3. want' = want /\ \A q \in Savers \ {s} : pc'[q] = pc[q] /\ fresh'[q] = fresh[q]
  <2>1. want' = want /\ (fresh' = fresh \/ \E n \in Nat : fresh' = [fresh EXCEPT ![s] = n])
    BY <1>2 DEF Save, CheckPath, LockReconnect, OpenNew, OpenFails, Swap, CloseOld, SetPath,
                TakeSnapshot, SaveFile, saver
  <2> QED
    BY <1>1, <2>1, SaverFrame DEF TypeSaver, Requests
<1>4. SUFFICES ASSUME pc'[s] \in {"swap", "close", "set"}
               PROVE  fresh'[s] \in 1..Len(handles') /\ handles'[fresh'[s]].path = want[s]
  BY <1>1, <1>2, <1>3 DEF HandlesNamed
<1>5. CASE OpenNew(s)
  <2> DEFINE new == [path |-> want[s], open |-> TRUE, conn |-> Nobody]
             n == Len(handles) + 1
  <2>1. handles' = Append(handles, new) /\ fresh' = [fresh EXCEPT ![s] = n]
    BY <1>5 DEF OpenNew
  <2>2. new \in Handles /\ new.path = want[s]
    BY <1>1 DEF Handles, TypeSaver
  <2> HIDE DEF new
  <2>3. Len(handles') = n /\ handles'[n] = new /\ n \in 1..n
    BY <1>1, <1>2, <2>1, <2>2, HandleAdded
  <2>4. fresh'[s] = n
    BY <1>1, <2>1 DEF TypeSaver
  <2> QED
    BY <2>2, <2>3, <2>4
<1>6. CASE Swap(s) \/ CloseOld(s)
  <2>1. pc[s] \in {"swap", "close"} /\ fresh' = fresh
    BY <1>6 DEF Swap, CloseOld, saver
  <2> QED
    BY <1>1, <1>2, <2>1 DEF HandlesNamed
<1>7. CASE \/ CheckPath(s) \/ LockReconnect(s) \/ OpenFails(s) \/ SetPath(s) \/ TakeSnapshot(s)
           \/ SaveFile(s)
  <2>1. pc'[s] \notin {"swap", "close", "set"}
    BY <1>1, <1>7 DEF CheckPath, LockReconnect, OpenFails, SetPath, TakeSnapshot, SaveFile, Goto
  <2> QED
    BY <1>4, <2>1
<1> QED
  BY <1>5, <1>6, <1>7 DEF Save

\* The saver that connected last configures its path, or has it noted that it crossed another.
LEMMA ConnectedForSaver ==
  ASSUME IInv, Agreed, NEW s \in Savers, Save(s)
  PROVE  ConnectedFor'
<1>1. /\ pc \in [Requests -> Labels] /\ s \in Requests /\ TypeSaver
      /\ current \in 1..Len(handles) /\ HandlesNamed /\ ConnectedFor
  BY DEF IInv, TypeOK, Requests, Agreed, TypeHandles
<1>2. \A h \in 1..Len(handles) : handles'[h].path = handles[h].path
  BY SaverKeepsHandles DEF HandlesKept
<1>3. \A q \in Savers \ {s} : pc'[q] = pc[q]
  BY SaverFrame DEF Requests
\* Steps that leave the connection and the configuration.
<1>4. ASSUME UNCHANGED <<current, cfgPath, crossed>>,
             \A q \in Savers \ {s} : fresh'[q] = fresh[q],
             pc[s] \in {"close", "set"} => pc'[s] \in {"close", "set"} /\ fresh'[s] = fresh[s]
      PROVE  ConnectedFor'
  BY <1>1, <1>2, <1>3, <1>4 DEF ConnectedFor
<1>5. CASE CheckPath(s) \/ LockReconnect(s) \/ OpenFails(s) \/ TakeSnapshot(s) \/ SaveFile(s)
  <2>1. UNCHANGED <<current, cfgPath, crossed, fresh>> /\ pc[s] \notin {"close", "set"}
    BY <1>5 DEF CheckPath, LockReconnect, OpenFails, TakeSnapshot, SaveFile, config, saver
  <2> QED
    BY <1>4, <2>1
<1>6. CASE OpenNew(s)
  <2>1. /\ UNCHANGED <<current, cfgPath, crossed>> /\ pc[s] = "open"
        /\ \A q \in Savers \ {s} : fresh'[q] = fresh[q]
    BY <1>1, <1>6 DEF OpenNew, config, TypeSaver
  <2> QED
    BY <1>4, <2>1
<1>7. CASE Swap(s)
  <2>1. current' = fresh[s] /\ fresh' = fresh /\ pc'[s] = "close"
    BY <1>1, <1>7 DEF Swap, Goto
  <2> QED
    BY <2>1 DEF ConnectedFor
<1>8. CASE CloseOld(s)
  <2>1. UNCHANGED <<current, cfgPath, crossed, fresh>> /\ pc'[s] = "set"
    BY <1>1, <1>8 DEF CloseOld, Goto, config, saver
  <2> QED
    BY <1>4, <2>1
<1>9. CASE SetPath(s)
  <2>1. /\ current' = current /\ cfgPath' = want[s] /\ crossed' = (current # fresh[s])
        /\ pc[s] = "set" /\ handles' = handles
    BY <1>9 DEF SetPath, SetDBPath
  <2>2. handles[fresh[s]].path = want[s]
    BY <1>1, <2>1 DEF HandlesNamed
  <2> QED
    BY <2>1, <2>2 DEF ConnectedFor
<1> QED
  BY <1>5, <1>6, <1>7, <1>8, <1>9 DEF Save

\* Whoever begins while another is under way takes the server from it.
LEMMA UndisturbedSaver ==
  ASSUME IInv, Agreed, NEW s \in Savers, Save(s)
  PROVE  Undisturbed'
<1>1. pc \in [Requests -> Labels] /\ s \in Requests /\ TypeSaver /\ Undisturbed
  BY DEF IInv, TypeOK, Requests, Agreed
<1>2. \A q \in Savers \ {s} : pc'[q] = pc[q]
  BY SaverFrame DEF Requests
<1>3. CASE CheckPath(s)
  <2>1. alone' = (IF Quiet THEN {s} ELSE {}) /\ pc'[s] \in {"snapshot", "lock"}
    BY <1>1, <1>3 DEF CheckPath, Goto
  <2> QED
    BY <1>2, <2>1 DEF Undisturbed, Quiet
<1>4. CASE ~CheckPath(s)
  <2>1. alone' = alone /\ pc[s] \notin {"idle"} \union Over
    BY <1>4 DEF Save, LockReconnect, OpenNew, OpenFails, Swap, CloseOld, SetPath, TakeSnapshot,
                SaveFile, config, Over
  <2>2. \A q \in alone : q = s
    BY <2>1 DEF Undisturbed, Agreed
  <2>3. pc'[s] = "save" => snapshot'[s] = cfgPath'
    <3>1. CASE TakeSnapshot(s)
      BY <1>1, <3>1 DEF TakeSnapshot, TypeSaver, config
    <3>2. CASE ~TakeSnapshot(s)
      BY <1>1, <1>4, <3>2 DEF Save, LockReconnect, OpenNew, OpenFails, Swap, CloseOld, SetPath,
                              SaveFile, Goto
    <3> QED
      BY <3>1, <3>2
  <2>4. s \in alone /\ pc'[s] = "done" => savedPath' = cfgPath'
    <3>1. CASE SaveFile(s)
      BY <1>1, <3>1 DEF SaveFile, Goto, Undisturbed
    <3>2. CASE ~SaveFile(s)
      BY <1>1, <1>4, <3>2 DEF Save, LockReconnect, OpenNew, OpenFails, Swap, CloseOld, SetPath,
                              TakeSnapshot, Goto
    <3> QED
      BY <3>1, <3>2
  <2> QED
    BY <1>1, <1>2, <2>1, <2>2, <2>3, <2>4 DEF Undisturbed
<1> QED
  BY <1>3, <1>4

\* Nobody else has a hand in it.
LEMMA AgreedOthers ==
  ASSUME IInv, Agreed,
         UNCHANGED <<current, config, saver>>,
         \A s \in Savers : pc'[s] = pc[s],
         Len(handles') = Len(handles),
         \A h \in 1..Len(handles) : handles'[h].path = handles[h].path
  PROVE  Agreed'
<1>1. current \in 1..Len(handles) /\ alone \subseteq Savers
  BY DEF IInv, TypeOK, TypeHandles, TypeSaver
<1>2. HandlesNamed'
  BY DEF Agreed, HandlesNamed, saver
<1>3. ConnectedFor'
  BY <1>1 DEF Agreed, ConnectedFor, config, saver
<1>4. Undisturbed'
  BY <1>1 DEF Agreed, Undisturbed, config, saver
<1> QED
  BY <1>2, <1>3, <1>4 DEF Agreed

\* However many saves there are at once, and whatever fails: when none is under way the server is
\* connected to the database it is configured for, unless the last to configure its path was no
\* longer the last to connect; and a save that had the server to itself has written that
\* path to the file.
THEOREM SavesAgree == Spec => []SaveKeepsTogether
<1>1. Init => Agreed
  <2> SUFFICES ASSUME Init PROVE Agreed
    OBVIOUS
  <2>1. handles[current].path = InitialPath /\ cfgPath = InitialPath /\ alone = {}
    BY DEF Init
  <2>2. \A s \in Savers : pc[s] = "idle"
    BY DEF Init, Requests
  <2> QED
    BY <2>1, <2>2 DEF Agreed, HandlesNamed, ConnectedFor, Undisturbed
<1>2. IInv /\ Agreed /\ [Next]_vars => Agreed'
  <2> SUFFICES ASSUME IInv, Agreed, [Next]_vars PROVE Agreed'
    OBVIOUS
  <2>1. ASSUME NEW w \in Writers, Writes(w) PROVE Agreed'
    <3>1. /\ UNCHANGED <<current, config, saver>> /\ SameHandles
          /\ \A s \in Savers : pc'[s] = pc[s]
      BY <2>1, WriterFrame, WriterKeepsHandles, SessionAssumption DEF Requests, Writers
    <3> QED
      BY <3>1, AgreedOthers DEF SameHandles
  <2>2. CASE Finishes
    <3>1. UNCHANGED <<current, config, saver, pc>>
      BY <2>2, MainFrame
    <3>2. /\ Len(handles') = Len(handles)
          /\ \A h \in 1..Len(handles) : handles'[h].path = handles[h].path
      BY <2>2, MainFrame, DatabaseClosed
    <3> QED
      BY <3>1, <3>2, AgreedOthers
  <2>3. CASE UNCHANGED vars
    BY <2>3, AgreedOthers DEF vars
  <2>4. ASSUME NEW s \in Savers, Save(s) PROVE Agreed'
    BY <2>4, HandlesNamedSaver, ConnectedForSaver, UndisturbedSaver DEF Agreed
  <2> QED
    BY <2>1, <2>2, <2>3, <2>4, Actors
<1>3. Agreed => SaveKeepsTogether
  BY DEF Agreed, ConnectedFor, Undisturbed, SaveKeepsTogether, Quiet, Over
<1> QED
  BY <1>1, <1>2, <1>3, InitIInv, NextIInv, PTL DEF Spec

-----------------------------------------------------------------------------
(* The backup of the database of the start.                                *)

Backed == {"update", "exec", "begin", "write", "commit", "committing"}

\* Until a first switch everybody works with the database of the start, and whoever is past
\* his backup has found or made it.
FirstBackedUp ==
  Len(handles) = 1 =>
    /\ cfgPath = InitialPath /\ handles[1].path = InitialPath
    /\ \A s \in Savers : pc[s] \notin {"swap", "close", "set"}
    /\ \A c \in Cleaners : runPath[c] = InitialPath
    /\ IF InitialPath \in done THEN backup[InitialPath] = Original(InitialPath)
       ELSE text[InitialPath] = Original(InitialPath)
    /\ \A w \in Writers : pc[w] \in Backed => InitialPath \in done

\* A save only matters when it opens a handle, and then the server may have two.
LEMMA FirstBackedUpSaver ==
  ASSUME IInv, FirstBackedUp, NEW s \in Savers, Save(s)
  PROVE  FirstBackedUp'
<1> SUFFICES ASSUME Len(handles') = 1
             PROVE  /\ cfgPath' = InitialPath /\ handles'[1].path = InitialPath
                    /\ \A q \in Savers : pc'[q] \notin {"swap", "close", "set"}
                    /\ UNCHANGED <<runPath, done, backup, text>>
                    /\ \A w \in Writers : pc'[w] = pc[w]
  BY SaverKeepsHandles, HandlesIndexed
  DEF FirstBackedUp, HandlesKept, TypeHandles, IInv, TypeOK
<1>1. /\ pc \in [Requests -> Labels] /\ s \in Requests /\ TypeHandles
      /\ Len(handles) \in Nat /\ current \in 1..Len(handles)
  BY HandlesIndexed DEF IInv, TypeOK, Requests
<1>2. HandlesKept /\ Len(handles) = 1
  <2>1. HandlesKept
    BY SaverKeepsHandles
  <2>2. Len(handles) <= 1
    BY <2>1 DEF HandlesKept
  <2>3. Len(handles) \in Nat /\ Len(handles) >= 1
    BY <1>1
  <2>4. \A n \in Nat : n >= 1 /\ n <= 1 => n = 1
    OBVIOUS
  <2>5. Len(handles) = 1
    BY <2>2, <2>3, <2>4
  <2> QED
    BY <2>1, <2>5
<1>3. /\ cfgPath = InitialPath /\ handles[1].path = InitialPath
      /\ \A q \in Savers : pc[q] \notin {"swap", "close", "set"}
  BY <1>2 DEF FirstBackedUp
<1>4. /\ UNCHANGED <<runPath, done, backup, text>>
      /\ \A w \in Writers : pc'[w] = pc[w]
      /\ \A q \in Savers \ {s} : pc'[q] = pc[q]
  BY SaverFrame, SessionAssumption DEF Requests, Writers, writer, database
<1>5. handles'[1].path = InitialPath
  BY <1>2, <1>3 DEF HandlesKept
<1>6. ~OpenNew(s)
  <2> SUFFICES ASSUME OpenNew(s) PROVE FALSE
    OBVIOUS
  <2>1. handles' = Append(handles, [path |-> want[s], open |-> TRUE, conn |-> Nobody])
    BY DEF OpenNew
  <2> QED
    BY <1>1, <1>2, <2>1 DEF TypeHandles
<1>7. cfgPath' = cfgPath /\ pc'[s] \notin {"swap", "close", "set"}
  BY <1>1, <1>3, <1>6 DEF Save, CheckPath, LockReconnect, OpenFails, Swap, CloseOld,
                          SetPath, TakeSnapshot, SaveFile, Goto, config
<1> QED
  BY <1>3, <1>4, <1>5, <1>7

\* A writer is past its backup only when it has found or made it, and writes only then.
LEMMA FirstBackedUpWriter ==
  ASSUME IInv, FirstBackedUp, NEW w \in Writers, Writes(w)
  PROVE  FirstBackedUp'
<1> SUFFICES ASSUME Len(handles) = 1, Len(handles') = 1
             PROVE  FirstBackedUp'
  BY WriterKeepsHandles DEF FirstBackedUp, SameHandles
<1>1. /\ TypeHandles /\ TypeWriter /\ TypeDatabase /\ SameHandles /\ HandleTaken
      /\ pc \in [Requests -> Labels] /\ w \in Requests
  BY WriterKeepsHandles DEF IInv, TypeOK, Requests
<1>2. /\ UNCHANGED <<cfgPath, current>>
      /\ \A s \in Savers : pc'[s] = pc[s]
      /\ \A v \in Writers \ {w} : pc'[v] = pc[v]
  BY WriterFrame, SessionAssumption DEF Requests, Writers, config
<1>3. /\ cfgPath = InitialPath /\ handles[1].path = InitialPath
      /\ \A s \in Savers : pc[s] \notin {"swap", "close", "set"}
      /\ \A c \in Cleaners : runPath[c] = InitialPath
      /\ IF InitialPath \in done THEN backup[InitialPath] = Original(InitialPath)
         ELSE text[InitialPath] = Original(InitialPath)
      /\ \A v \in Writers : pc[v] \in Backed => InitialPath \in done
  BY DEF FirstBackedUp
<1>4. handles'[1].path = InitialPath
  BY <1>1, <1>3 DEF SameHandles
<1>5. InitialPath \in Paths
  BY SessionAssumption
\* A step that leaves the databases alone.
<1>6. ASSUME UNCHANGED <<runPath, done, backup, text>>, pc'[w] \in Backed => pc[w] \in Backed
      PROVE  FirstBackedUp'
  BY <1>2, <1>3, <1>4, <1>6 DEF FirstBackedUp
\* The backup is made unless it is there already.
<1>7. ASSUME BackUp(w, InitialPath, "update")
      PROVE  FirstBackedUp'
  <2>1. /\ UNCHANGED <<runPath, text>> /\ done' = done \union {InitialPath}
        /\ backup' = IF InitialPath \in done THEN backup
                     ELSE [backup EXCEPT ![InitialPath] = text[InitialPath]]
    BY <1>7 DEF BackUp, writer
  <2>2. backup'[InitialPath] = Original(InitialPath)
    BY <1>1, <1>3, <1>5, <2>1 DEF TypeDatabase
  <2>3. InitialPath \in done'
    BY <2>1
  <2> QED
    BY <1>2, <1>3, <1>4, <2>1, <2>2, <2>3 DEF FirstBackedUp
\* The writer is past its backup when it writes.
<1>8. ASSUME UNCHANGED <<runPath, done, backup>>, pc[w] \in Backed
      PROVE  FirstBackedUp'
  BY <1>2, <1>3, <1>4, <1>8 DEF FirstBackedUp
<1>9. CASE QueryFails(w) \/ BackUpFails(w)
  <2>1. UNCHANGED <<runPath, done, backup, text>> /\ pc'[w] = "failed"
    BY <1>1, <1>9 DEF QueryFails, BackUpFails, Goto, writer, database
  <2> QED
    BY <1>6, <2>1 DEF Backed
<1>10. CASE EditRead(w) \/ EditCheck(w) \/ EditUpdate(w) \/ CleanBegin(w)
  <2>1. /\ UNCHANGED <<runPath, done, backup, text>>
        /\ \/ pc'[w] \in {"read", "backup"}
           \/ pc[w] = "update"
    BY <1>1, <1>10 DEF EditRead, EditCheck, EditUpdate, CleanBegin, TakeConn, Goto, writer, database, Labels
  <2> QED
    BY <1>6, <2>1 DEF Backed
<1>11. CASE EditBackup(w)
  BY <1>3, <1>7, <1>11 DEF EditBackup
<1>12. CASE EditExec(w)
  BY <1>8, <1>12 DEF EditExec, Backed, writer
<1>13. CASE w \in Cleaners /\ CleanRequest(w)
  <2>1. /\ UNCHANGED <<done, backup, text>> /\ pc'[w] = "read"
        /\ runPath' = [runPath EXCEPT ![w] = InitialPath]
    BY <1>1, <1>3, <1>13 DEF CleanRequest, Goto, database, Labels
  <2>2. \A c \in Cleaners : runPath'[c] = InitialPath
    BY <1>1, <1>3, <2>1 DEF TypeWriter
  <2> QED
    BY <1>2, <1>3, <1>4, <2>1, <2>2 DEF FirstBackedUp, Backed
<1>14. CASE CleanRead(w)
  <2>1. UNCHANGED <<runPath, done, backup, text>> /\ pc'[w] = "backup"
    BY <1>1, <1>14 DEF CleanRead, Goto, database, Labels
  <2> QED
    BY <1>6, <2>1 DEF Backed
<1>15. CASE w \in Cleaners /\ CleanBackup(w)
  BY <1>3, <1>7, <1>15 DEF CleanBackup
<1>16. CASE CleanBeginTx(w) \/ CleanWrite(w) \/ CleanCommit(w)
  <2>1. UNCHANGED <<runPath, done, backup, text>> /\ pc[w] \in {"begin", "write", "commit"}
    BY <1>16 DEF CleanBeginTx, CleanWrite, CleanCommit, database, writer
  <2> QED
    BY <1>6, <2>1 DEF Backed
<1>17. CASE CleanCommitted(w) \/ CleanRollback(w)
  <2>1. UNCHANGED <<runPath, done, backup>> /\ pc[w] \in {"write", "commit", "committing"}
    BY <1>17 DEF CleanCommitted, CleanRollback, database, writer
  <2> QED
    BY <1>8, <2>1 DEF Backed
<1> QED
  BY <1>9, <1>10, <1>11, <1>12, <1>13, <1>14, <1>15, <1>16, <1>17 DEF Writes, Edit, Clean

\* As long as the server has not switched to another database, the database it writes to has
\* a backup of its text from before the first write, whoever races for it.
THEOREM FirstWriteIsBackedUp == Spec => []BackupBeforeWrite
<1>1. Init => FirstBackedUp
  <2> SUFFICES ASSUME Init PROVE FirstBackedUp
    OBVIOUS
  <2>1. /\ cfgPath = InitialPath /\ handles[1].path = InitialPath
        /\ runPath = [c \in Cleaners |-> InitialPath] /\ done = {}
        /\ text = [p \in Paths |-> Original(p)] /\ InitialPath \in Paths
        /\ \A r \in Requests : pc[r] = "idle"
    BY SessionAssumption DEF Init
  <2> QED
    BY <2>1 DEF FirstBackedUp, Requests, Writers, Backed
<1>2. IInv /\ FirstBackedUp /\ [Next]_vars => FirstBackedUp'
  <2> SUFFICES ASSUME IInv, FirstBackedUp, [Next]_vars PROVE FirstBackedUp'
    OBVIOUS
  <2>1. ASSUME UNCHANGED <<config, pc, writer, database>>, Len(handles') = Len(handles),
               Len(handles) = 1 => handles'[1].path = handles[1].path
        PROVE  FirstBackedUp'
    BY <2>1 DEF FirstBackedUp, config, writer, database
  <2>2. CASE Finishes
    <3>1. UNCHANGED <<config, pc, writer, database>>
      BY <2>2, MainFrame
    <3>2. /\ Len(handles') = Len(handles)
          /\ \A h \in 1..Len(handles) : handles'[h].path = handles[h].path
      BY <2>2, MainFrame, DatabaseClosed
    <3> QED
      BY <2>1, <3>1, <3>2
  <2>3. CASE UNCHANGED vars
    BY <2>1, <2>3 DEF vars
  <2> QED
    BY <2>2, <2>3, Actors, FirstBackedUpSaver, FirstBackedUpWriter
<1>3. FirstBackedUp /\ IInv => BackupBeforeWrite
  BY DEF FirstBackedUp, BackupBeforeWrite, BackedUp
<1> QED
  BY <1>1, <1>2, <1>3, InitIInv, NextIInv, PTL DEF Spec

-----------------------------------------------------------------------------
(* The end of the process.                                                 *)

\* What a shutdown that has waited has waited for, and what is closed then.
Drained ==
  outcome = "waited" =>
    /\ main \in {"closing", "closed"}
    /\ \A r \in Savers \union Editors : pc[r] \in {"idle"} \union Over
    /\ main = "closed" => ~handles[current].open

\* Nobody begins anything while the listener is closed.
LEMMA DrainedRequests ==
  ASSUME IInv, Drained, outcome = "waited", main \in {"closing", "closed"},
         \/ \E s \in Savers : Save(s)
         \/ \E w \in Writers : Writes(w)
  PROVE  Drained'
<1>1. \A r \in Savers \union Editors : pc[r] \in {"idle"} \union Over
  BY DEF Drained
<1>2. ASSUME NEW s \in Savers PROVE ~Save(s)
  BY <1>1, <1>2 DEF Save, CheckPath, LockReconnect, OpenNew, OpenFails, Swap, CloseOld,
                    SetPath, TakeSnapshot, SaveFile, Accepting, Over
<1>3. PICK w \in Writers : Writes(w)
  BY <1>2
<1>4. w \notin Editors
  <2> SUFFICES ASSUME w \in Editors PROVE FALSE
    OBVIOUS
  <2>1. pc[w] \in {"idle"} \union Over /\ w \notin Cleaners
    BY <1>1, SessionAssumption
  <2> QED
    BY <1>3, <2>1 DEF Writes, Edit, EditRead, EditCheck, EditBackup, EditUpdate, EditExec, QueryFails,
                      BackUpFails, Accepting, Over
<1>5. /\ UNCHANGED <<process, current>> /\ SameHandles
      /\ \A r \in Savers \union Editors : pc'[r] = pc[r]
  BY <1>3, <1>4, WriterFrame, WriterKeepsHandles, SessionAssumption DEF Requests, Writers
<1>6. current \in 1..Len(handles)
  BY DEF IInv, TypeOK, TypeHandles
<1> QED
  BY <1>1, <1>5, <1>6 DEF Drained, SameHandles, process

\* When Shutdown has ended within its deadline, closing the database leaves no handle open
\* and no handler behind that could open one or write.
THEOREM ShutdownLeavesNothing == Spec => []ClosedForGood
<1>1. Init => Drained
  BY DEF Init, Drained
<1>2. IInv /\ Drained /\ [Next]_vars => Drained'
  <2> SUFFICES ASSUME IInv, Drained, [Next]_vars PROVE Drained'
    OBVIOUS
  <2>1. ASSUME \/ \E s \in Savers : Save(s)
               \/ \E w \in Writers : Writes(w)
        PROVE  Drained'
    <3>1. UNCHANGED outcome
      BY <2>1, SaverFrame, WriterFrame DEF process
    <3>2. CASE outcome # "waited"
      BY <3>1, <3>2 DEF Drained
    <3>3. CASE outcome = "waited"
      BY <2>1, <3>3, DrainedRequests DEF Drained
    <3> QED
      BY <3>2, <3>3
  <2>2. CASE Stop \/ Quit \/ ServeFails \/ BeginShutdown \/ Deadline
    BY <2>2 DEF Stop, Quit, ServeFails, BeginShutdown, Deadline, Step, Drained
  <2>3. CASE ShutdownEnds
    BY <2>3 DEF ShutdownEnds, Step, Handling, Others, Drained
  <2>4. CASE CloseDB
    <3>1. /\ UNCHANGED <<outcome, pc, current>> /\ main = "closing" /\ main' = "closed"
      BY <2>4 DEF CloseDB, Step
    <3>2. ~handles'[current].open
      BY <2>4, DatabaseClosed DEF IInv, TypeOK, TypeHandles
    <3> QED
      BY <3>1, <3>2 DEF Drained
  <2>5. CASE StreamEnds \/ UNCHANGED vars
    BY <2>5 DEF StreamEnds, Others, vars, process, Drained
  <2> QED
    BY <2>1, <2>2, <2>3, <2>4, <2>5, Actors DEF Finishes, Exit
<1>3. IInv /\ Drained => ClosedForGood
  <2> SUFFICES ASSUME IInv, Drained, outcome = "waited", main = "closed"
               PROVE  /\ \A h \in 1..Len(handles) : ~handles[h].open
                      /\ \A r \in Savers \union Editors : pc[r] \in {"idle"} \union Over
    BY DEF ClosedForGood
  <2>1. /\ ~handles[current].open
        /\ \A r \in Savers \union Editors : pc[r] \in {"idle"} \union Over
    BY DEF Drained
  <2>2. \A s \in Savers : pc[s] \notin {"swap", "close"}
    BY <2>1 DEF Over
  <2> QED
    BY <2>1, <2>2 DEF IInv, OneLiveHandle
<1> QED
  BY <1>1, <1>2, <1>3, InitIInv, NextIInv, PTL DEF Spec

\* Once the context is cancelled the runs in a COMMIT are those that were in it then.
Caught == ctxDone => \A c \in Cleaners : pc[c] = "committing" => c \in underway

\* Cleaner runs are not waited for, but once the program was told to stop none of them makes
\* a batch durable, except a batch in the middle of its COMMIT then.
THEOREM StopHoldsBatches == Spec => NoBatchAfterStop
<1>1. Init => Caught
  BY DEF Init, Caught
<1>2. IInv /\ Caught /\ [Next]_vars => Caught'
  <2> SUFFICES ASSUME IInv, Caught, [Next]_vars PROVE Caught'
    OBVIOUS
  <2>1. ASSUME NEW s \in Savers, Save(s) PROVE Caught'
    <3>1. UNCHANGED process /\ \A c \in Cleaners : pc'[c] = pc[c]
      BY <2>1, SaverFrame, SessionAssumption DEF Requests, Writers
    <3> QED
      BY <3>1 DEF Caught, process
  <2>2. ASSUME NEW w \in Writers, Writes(w) PROVE Caught'
    <3>1. /\ UNCHANGED process /\ pc \in [Requests -> Labels] /\ w \in Requests
          /\ \A c \in Cleaners \ {w} : pc'[c] = pc[c]
      BY <2>2, WriterFrame DEF Requests, Writers, IInv, TypeOK
    <3>2. pc'[w] = "committing" => ~ctxDone
      BY <2>2, <3>1 DEF Writes, Edit, Clean, QueryFails, BackUpFails, EditRead, EditCheck, EditBackup,
         EditUpdate, EditExec, CleanRequest, CleanRead, CleanBackup, CleanBegin, CleanBeginTx,
         CleanWrite, CleanCommit, CleanCommitted, CleanRollback, BackUp, TakeConn, Goto, ContextAlive, Over
    <3> QED
      BY <3>1, <3>2 DEF Caught, process
  <2>3. CASE Stop \/ Quit
    BY <2>3 DEF Stop, Quit, Others, Caught
  <2>4. CASE ServeFails \/ Exit \/ StreamEnds
    BY <2>4 DEF ServeFails, Exit, BeginShutdown, ShutdownEnds, Deadline, CloseDB, StreamEnds, Others, Caught
  <2>5. CASE UNCHANGED vars
    BY <2>5 DEF vars, process, Caught
  <2> QED
    BY <2>1, <2>2, <2>3, <2>4, <2>5, Actors DEF Finishes
<1>3. Caught =>
        [\A c \in Cleaners : ctxDone /\ pc[c] = "committing" /\ pc'[c] = "done" => c \in underway]_vars
  BY DEF Caught
<1> QED
  BY <1>1, <1>2, <1>3, InitIInv, NextIInv, PTL DEF Spec, NoBatchAfterStop

=============================================================================
