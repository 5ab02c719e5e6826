----------------------------- MODULE Collection -----------------------------
(***************************************************************************)
(* The contents of the collection and the requests that read and change    *)
(* them: RenameDeck, GetNote, UpdateNote and a cleaner run                 *)
(* (application/services.go over sqlite/repositories.go), and the page's   *)
(* note editor, which opens a note and saves it later.  The listings are   *)
(* Browsing's.                                                             *)
(*                                                                         *)
(* The database has one connection, so a statement is a step; between two  *)
(* statements of one request another request may run.  The pipeline of a   *)
(* run is CleanerRun's and the switch to another database DatabaseSession's. *)
(*                                                                         *)
(* Of a text the model keeps whose field it was typed into, which request  *)
(* wrote it, and what the cleaner makes of it.  A part is a text without   *)
(* separator, a value is what a field box holds, one part or several with  *)
(* separators between them, and notes.flds is the parts of all values.     *)
(***************************************************************************)
EXTENDS Integers, Sequences, FiniteSets

CONSTANTS
  Decks, Bases,   \* decks; names that differ in more than case
  Ascii,          \* those of Bases whose letters are ASCII
  InitialName,    \* deck -> name
  Notes, Fields,  \* note ids; note -> number of fields of its model
  Cards,          \* the cards: records with their nid and did
  Requests,       \* requests that may be served at once
  MaxRequests     \* bound on the requests ever made

Names == [base : Bases, upper : BOOLEAN]
\* COLLATE NOCASE folds the case of the ASCII letters only.
SameName(a, b) == a.base = b.base /\ (a.upper = b.upper \/ a.base \in Ascii)
Invalid == [base |-> "", upper |-> FALSE]

ASSUME CollectionAssumption ==
  /\ Ascii \subseteq Bases
  /\ Notes \subseteq Nat \ {0} /\ IsFiniteSet(Notes)
  /\ Fields \in [Notes -> Nat \ {0}]
  /\ Cards \subseteq [id : Nat, nid : Notes, did : Decks]
  /\ InitialName \in [Decks -> Names]
  /\ \A d, e \in Decks : SameName(InitialName[d], InitialName[e]) => d = e
  /\ MaxRequests \in Nat

VARIABLES
  name,       \* decks.name
  flds,       \* notes.flds
  tables,     \* where the models are: the outcome of each of three look-ups
  embeds,     \* whether users type separators, or entities of it
  req,        \* what each request is doing
  made,       \* requests made so far
  editing,    \* the page: editingNoteID, or 0
  form,       \* the page: the values of its field boxes
  raced,      \* whether a rename wrote while another had passed its check
  saved       \* of each note the last save: who wrote its texts, and whether no
              \* run was under way

data == <<name, flds>>
page == <<editing, form>>
ghost == <<raced, saved>>
vars == <<data, tables, embeds, req, made, page, ghost>>

Forms == {"plain", "markup", "entity"}
Parts == [of : Notes, by : 0..MaxRequests, form : Forms]
Values == {<<p>> : p \in Parts} \union {<<p, q>> : p, q \in Parts}
Idle == [op |-> "none"]
Outcomes == {"found", "missing", "broken"}

-----------------------------------------------------------------------------
(* Reading the collection.                                                 *)

\* GetModelByID: the fields table, then the models table, then col.models.
Model == IF \E i \in 1..3 : tables[i] = "found" THEN "found"
         ELSE IF \E i \in 1..3 : tables[i] = "missing" THEN "missing" ELSE "broken"

MapAny(n, values) == Model = "found" /\ Len(values) >= Fields[n]

\* MapFields accepts values, one for each field of the note's model.
MapFields(n, values) == Model = "found" /\ Len(values) = Fields[n]

\* The values GetNote splits notes.flds into.
Split(n) == [i \in DOMAIN flds[n] |-> <<flds[n][i]>>]

\* The cleaner drops markup, and decodes an entity of the separator.
CleanPart(p) ==
  LET clean == [p EXCEPT !.form = "plain"]
  IN  IF p.form = "entity" THEN <<clean, clean>> ELSE <<clean>>
CleanNote(n) == [i \in DOMAIN flds[n] |-> CleanPart(flds[n][i])]

\* ListNoteIDsByDeck.
InDeck(d) == {c.nid : c \in {k \in Cards : k.did = d}}

-----------------------------------------------------------------------------
(* Requests.                                                               *)

Init ==
  /\ name = InitialName
  /\ flds \in {[n \in Notes |-> [i \in 1..Fields[n] |->
                 [of |-> n, by |-> 0, form |-> IF i = 1 THEN f[n] ELSE "plain"]]] :
               f \in [Notes -> {"plain", "markup"}]}
  /\ tables \in {<<"found", "missing", "missing">>, <<"missing", "broken", "found">>,
                 <<"missing", "missing", "broken">>}
  /\ embeds \in BOOLEAN
  /\ req = [r \in Requests |-> Idle] /\ made = 0
  /\ editing = 0 /\ form = <<>>
  /\ raced = FALSE /\ saved = [n \in Notes |-> [by |-> {0}, calm |-> TRUE]]

Make(r, request) ==
  /\ req[r] = Idle /\ made < MaxRequests
  /\ made' = made + 1
  /\ req' = [req EXCEPT ![r] = request]

At(r, op, at) == req[r].op = op /\ req[r].at = at
Goto(r, at) == req' = [req EXCEPT ![r] = [@ EXCEPT !.at = at]] /\ UNCHANGED made
Finish(r) == req' = [req EXCEPT ![r] = Idle] /\ UNCHANGED made

\* A statement or the backup fails, or the client is gone and its context
\* cancelled: the request ends and a transaction is rolled back.
Fail(r) ==
  /\ req[r] # Idle
  /\ Finish(r)
  /\ UNCHANGED <<data, tables, embeds, page, ghost>>

\* EnsureBackup, between the checks of a write and the write.
Backup(r) ==
  /\ req[r] # Idle /\ req[r].at = "backup"
  /\ Goto(r, "write")
  /\ UNCHANGED <<data, tables, embeds, page, ghost>>

-----------------------------------------------------------------------------
(* RenameDeck.                                                             *)

Rename(r) ==
  /\ \E d \in Decks, new \in Names \union {Invalid} :
       Make(r, [op |-> "rename", at |-> "check", deck |-> d, new |-> new])
  /\ UNCHANGED <<data, tables, embeds, page, ghost>>

TakenExactly(d, new) == \E e \in Decks \ {d} : name[e] = new

\* DeckNameExists ignores the deck itself, and case as far as NOCASE does.
Taken(d, new) == \E e \in Decks \ {d} : SameName(name[e], new)
RenameUnvalidated(r) ==
  /\ At(r, "rename", "check")
  /\ IF Taken(req[r].deck, req[r].new) THEN Finish(r) ELSE Goto(r, "backup")
  /\ UNCHANGED <<data, tables, embeds, page, ghost>>

\* ValidateDeckRename, DeckExists and DeckNameExists.
RenameChecks(r) ==
  /\ At(r, "rename", "check")
  /\ IF req[r].new = Invalid \/ Taken(req[r].deck, req[r].new) THEN Finish(r) ELSE Goto(r, "backup")
  /\ UNCHANGED <<data, tables, embeds, page, ghost>>

RenameWrites(r) ==
  /\ At(r, "rename", "write")
  /\ name' = [name EXCEPT ![req[r].deck] = req[r].new]
  /\ raced' = (raced \/ \E q \in Requests \ {r} : req[q] # Idle /\ req[q].op = "rename"
                                                  /\ req[q].at \in {"backup", "write"})
  /\ Finish(r)
  /\ UNCHANGED <<flds, tables, embeds, page, saved>>

-----------------------------------------------------------------------------
(* The page's editor, GetNote and UpdateNote.                              *)

\* openEditor clears the boxes, and asks for the note.
Open(r) ==
  /\ \E n \in Notes : Make(r, [op |-> "open", at |-> "read", note |-> n])
  /\ form' = <<>>
  /\ UNCHANGED <<data, tables, embeds, editing, ghost>>

OpenReads(r) ==
  /\ At(r, "open", "read")
  /\ IF MapFields(req[r].note, Split(req[r].note))
     THEN /\ req' = [req EXCEPT ![r] = [op |-> "open", at |-> "answered", note |-> req[r].note,
                                        values |-> Split(req[r].note)]]
          /\ UNCHANGED made
     ELSE Finish(r)
  /\ UNCHANGED <<data, tables, embeds, page, ghost>>

\* The answer adds the note's boxes to those that are there.
OpenArrives(r) ==
  /\ At(r, "open", "answered")
  /\ editing' = req[r].note
  /\ form' = form \o req[r].values
  /\ Finish(r)
  /\ UNCHANGED <<data, tables, embeds, ghost>>

\* hideEditor: the user gives up, or opens another deck.
Hide ==
  /\ editing # 0 \/ form # <<>>
  /\ editing' = 0 /\ form' = <<>>
  /\ UNCHANGED <<data, tables, embeds, req, made, ghost>>

\* What the user may have typed into a box of note n.
Typed(n) ==
  LET Text(f) == [of |-> n, by |-> made + 1, form |-> f]
  IN  {<<Text("plain")>>, <<Text("markup")>>} \union
      IF embeds THEN {<<Text("entity")>>, <<Text("plain"), Text("plain")>>} ELSE {}

\* saveCurrentNote sends every box, after the user has typed into one of them.
Save(r) ==
  /\ editing # 0
  /\ \E values \in {form} \union
                   UNION {{[form EXCEPT ![i] = v] : v \in Typed(form[i][1].of)} : i \in DOMAIN form} :
       Make(r, [op |-> "save", at |-> "check", note |-> editing, values |-> values])
  /\ UNCHANGED <<data, tables, embeds, page, ghost>>

SaveChecks(r) ==
  /\ At(r, "save", "check")
  /\ IF MapFields(req[r].note, req[r].values) THEN Goto(r, "backup") ELSE Finish(r)
  /\ UNCHANGED <<data, tables, embeds, page, ghost>>

Writers(parts) == {parts[i].by : i \in DOMAIN parts}
Runs(q) == req[q] # Idle /\ req[q].op = "clean"
JoinFirst(values) == values[1]
JoinFieldValues(values) ==
  LET joined[i \in 0..Len(values)] == IF i = 0 THEN <<>> ELSE joined[i - 1] \o values[i]
  IN  joined[Len(values)]

SaveKeepsRaw(r) ==
  /\ At(r, "save", "write")
  /\ saved' = [saved EXCEPT ![req[r].note] =
                 [by |-> Writers(JoinFieldValues(req[r].values)),
                  calm |-> ~\E q \in Requests : Runs(q)]]
  /\ Finish(r)
  /\ UNCHANGED <<data, tables, embeds, page, raced>>

SaveWrites(r) ==
  /\ At(r, "save", "write")
  /\ flds' = [flds EXCEPT ![req[r].note] = JoinFieldValues(req[r].values)]
  /\ saved' = [saved EXCEPT ![req[r].note] =
                 [by |-> Writers(JoinFieldValues(req[r].values)),
                  calm |-> ~\E q \in Requests : Runs(q)]]
  /\ Finish(r)
  /\ UNCHANGED <<name, tables, embeds, page, raced>>

-----------------------------------------------------------------------------
(* RunCleaner.                                                             *)

NoPlan == [n \in {} |-> <<>>]

Clean(r) ==
  /\ \E d \in Decks : Make(r, [op |-> "clean", at |-> "reading", todo |-> InDeck(d), plan |-> NoPlan])
  /\ UNCHANGED <<data, tables, embeds, page, ghost>>

\* A note that the cleaner changes joins the plan.
Planned(plan, n) ==
  IF CleanNote(n) = Split(n) THEN plan
  ELSE [m \in DOMAIN plan \union {n} |-> IF m = n THEN CleanNote(n) ELSE plan[m]]

\* The workers read the notes in any order; the first that cannot be read ends the run.
CleanReads(r) ==
  /\ At(r, "clean", "reading")
  /\ \E n \in req[r].todo :
       IF MapFields(n, Split(n))
       THEN /\ req' = [req EXCEPT ![r] = [@ EXCEPT !.todo = req[r].todo \ {n},
                                                  !.plan = Planned(req[r].plan, n)]]
            /\ UNCHANGED made
       ELSE Finish(r)
  /\ UNCHANGED <<data, tables, embeds, page, ghost>>

CleanPlanned(r) ==
  /\ At(r, "clean", "reading") /\ req[r].todo = {}
  /\ Goto(r, "backup")
  /\ UNCHANGED <<data, tables, embeds, page, ghost>>

\* One transaction; updateNote counts the values and not what they hold.
CleanWrites(r) ==
  /\ At(r, "clean", "write")
  /\ \A n \in DOMAIN req[r].plan : MapFields(n, req[r].plan[n])
  /\ flds' = [n \in Notes |-> IF n \in DOMAIN req[r].plan THEN JoinFieldValues(req[r].plan[n])
                              ELSE flds[n]]
  /\ Finish(r)
  /\ UNCHANGED <<name, tables, embeds, page, ghost>>

Quiet == made = MaxRequests /\ (\A r \in Requests : req[r] = Idle) /\ UNCHANGED vars

Next ==
  \/ \E r \in Requests :
       \/ Rename(r) \/ RenameChecks(r) \/ RenameWrites(r)
       \/ Open(r) \/ OpenReads(r) \/ OpenArrives(r)
       \/ Save(r) \/ SaveChecks(r) \/ SaveWrites(r)
       \/ Clean(r) \/ CleanReads(r) \/ CleanPlanned(r) \/ CleanWrites(r)
       \/ Backup(r) \/ Fail(r)
  \/ Hide
  \/ Quiet

Spec == Init /\ [][Next]_vars

-----------------------------------------------------------------------------
(* Properties.                                                             *)

TypeData ==
  /\ name \in [Decks -> Names]
  /\ flds \in [Notes -> Seq(Parts)]
  /\ tables \in [1..3 -> Outcomes] /\ embeds \in BOOLEAN /\ raced \in BOOLEAN
  /\ saved \in [Notes -> [by : SUBSET (0..MaxRequests), calm : BOOLEAN]]
TypePage == editing \in Notes \union {0} /\ form \in Seq(Values)
Renames == [op : {"rename"}, at : {"check", "backup", "write"}, deck : Decks,
            new : Names \union {Invalid}]
Opens == [op : {"open"}, at : {"read"}, note : Notes] \union
         [op : {"open"}, at : {"answered"}, note : Notes, values : Seq(Values)]
Saves == [op : {"save"}, at : {"check", "backup", "write"}, note : Notes, values : Seq(Values)]
Cleaning(q) ==
  /\ q.op = "clean" /\ DOMAIN q.plan \subseteq Notes
  /\ q \in [op : {"clean"}, at : {"reading", "backup", "write"}, todo : SUBSET Notes,
            plan : [DOMAIN q.plan -> Seq(Values)]]
TypeRequests ==
  /\ DOMAIN req = Requests
  /\ \A r \in Requests :
       req[r] \in {Idle} \union Renames \union Opens \union Saves \/ Cleaning(req[r])

\* Every variable has its type (the rows of decks and notes, and the page's editor).
TypeOK == TypeData /\ TypePage /\ made \in 0..MaxRequests /\ TypeRequests

\* No two decks have the same name to NOCASE, which takes ASCII letters that differ in
\* case as the same and no others, unless a rename was written while another had
\* passed its check (RenameDeck checks and writes in two statements).
NamesDistinct ==
  ~raced => \A d, e \in Decks : SameName(name[d], name[e]) => d = e

\* What is typed into a box of one note is never stored in another, although
\* openEditor adds the boxes of whichever answers arrive and names the note of the
\* last: UpdateNote's count of the fields refuses every mixture.
OwnFields == \A n \in Notes : \A i \in DOMAIN flds[n] : flds[n][i].of = n

\* A note has the number of fields of its model, as long as nobody types the separator.
FieldsMatchModel == ~embeds => \A n \in Notes : Len(flds[n]) = Fields[n]

\* Texts that were saved while no cleaner run was under way are in their note until
\* the next save, cleaned or not: a run that begins later reads them first.
SavedStays == \A n \in Notes : saved[n].calm => Writers(flds[n]) = saved[n].by

(* What the program says and does not keep.                                *)

\* Every note keeps the number of fields of its model (UpdateNote's MapFields).
NotesStayReadable == \A n \in Notes : Len(flds[n]) = Fields[n]
=============================================================================
