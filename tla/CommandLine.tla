----------------------------- MODULE CommandLine ----------------------------
(***************************************************************************)
(* The command line application (interfaces/cli): a menu that reads        *)
(* options and their arguments through one buffered reader, and the        *)
(* question before a cleaner run, which reads the same input through a     *)
(* buffer of its own that is dropped with the answer.                      *)
(*                                                                         *)
(* The input is a script of whole tasks, each a sequence of lines, every   *)
(* one with the text the program sees and the role its author meant it to  *)
(* have.  A terminal hands out a line at a time, a pipe whatever has been  *)
(* written: a chunk of any number of lines.  What a service returns is a   *)
(* choice: the operation ends the same way in both cases.                  *)
(***************************************************************************)
EXTENDS Integers, Sequences, SequencesExt

CONSTANTS
  Texts,      \* what a name, a search text or a line of a field may be, which ends no field
  NoteFields, \* fields of the note that is edited
  MaxTasks    \* bound on the tasks of a script

ASSUME CommandLineAssumption ==
  NoteFields \in Nat \ {0} /\ MaxTasks \in Nat /\ ".end" \notin Texts

VARIABLES
  terminal,     \* whether the input is a terminal
  forceApply,   \* the setting that leaves the question out
  script, rest, \* the tasks, and their lines that nobody has read
  buffer,       \* what the menu's reader has read and not handed out
  pc,           \* where Run is
  op, took,     \* the operation, and its lines with the roles they were given
  left,         \* fields whose text is still to read
  interrupted,  \* whether a signal has cancelled the context
  astray,       \* whether an operation ended before it had read all its lines
  handled,      \* the lines of every operation that has read all of them
  result        \* why Run has returned

setting == <<terminal, forceApply, script>>
vars == <<setting, rest, buffer, pc, op, took, left, interrupted, astray, handled, result>>

-----------------------------------------------------------------------------
(* The operations and the lines each of them asks for.                     *)

Options == {"1", "2", "3", "4", "5", "6", "7", "8", "9", "10"}
Operation ==
  [o \in Options |->
     CASE o = "1" -> "listDecks" [] o = "2" -> "renameDeck" [] o = "3" -> "listNotes"
       [] o = "4" -> "editNote" [] o = "5" -> "previewCleaner" [] o = "6" -> "dryRun"
       [] o = "7" -> "apply" [] o = "8" -> "findNoteByID"
       [] o = "9" -> "searchNotesAllDecks" [] o = "10" -> "searchDecks"]

\* A bug the project rules out: the end of the period is not asked for.
PageWithoutEnd == <<"number", "number", "number", "line">>
\* Limit, offset, the period's two ends and the search text.
Page == <<"number", "number", "number", "number", "line">>
\* What an operation reads through the menu's reader at once.
Asks(o) ==
  CASE o \in {"none", "listDecks"} -> <<>>
    [] o = "searchDecks" -> <<"line">>
    [] o = "renameDeck" -> <<"number", "line">>
    [] o = "listNotes" -> <<"number">> \o Page
    [] o = "searchNotesAllDecks" -> Page
    [] OTHER -> <<"number">>

IsNumber(text) == text \in Options \union {"0", ""}
Decodes(text) == text # "bad"  \* an escape that strconv.Unquote refuses

-----------------------------------------------------------------------------
(* The scripts: what a person types, or a file made for the program.       *)

Meant(text, role) == [text |-> text, role |-> role]
Option(text) == <<Meant(text, "option")>>
Number == {"1", "word"}
\* One line of text for each field and the terminator after it.
FieldTexts(n) == {[i \in 1..2 * n |-> IF i % 2 = 1 THEN Meant(t[(i + 1) \div 2], "text")
                                      ELSE Meant(".end", "end")] :
                    t \in [1..n -> Texts \union {"bad"}]}
RenameTask(n, t) == Option("2") \o <<Meant(n, "number"), Meant(t, "line")>>
ListTask(n, m, t) ==
  Option("3") \o <<Meant(n, "number"), Meant("1", "number"), Meant("", "number"),
                  Meant(m, "number"), Meant("", "number"), Meant(t, "line")>>
EditTask(n, f) == Option("4") \o <<Meant(n, "number")>> \o f
CleanTask(o, n) == Option(o) \o <<Meant(n, "number")>>
AskedTask(n, a) == CleanTask("7", n) \o <<Meant(a, "answer")>>
\* The tasks of an author who knows whether the question will be asked.
Tasks(force) ==
  {Option("1")}
    \union {RenameTask(n, t) : n \in Number, t \in Texts}
    \union {ListTask(n, m, t) : n \in Number, m \in Number, t \in Texts}
    \union {EditTask(n, f) : n \in Number, f \in FieldTexts(NoteFields)}
    \union {CleanTask("6", n) : n \in Number}
    \union IF force THEN {CleanTask("7", n) : n \in Number}
           ELSE {AskedTask(n, a) : n \in Number, a \in {"y", "n"}}
\* The lines of the tasks, one task after the other.
Lines(tasks) ==
  LET joined[i \in 0..Len(tasks)] == IF i = 0 THEN <<>> ELSE joined[i - 1] \o tasks[i]
  IN  joined[Len(tasks)]
Scripts(force) == UNION {[1..k -> Tasks(force)] : k \in 0..MaxTasks}

Init ==
  /\ terminal \in BOOLEAN /\ forceApply \in BOOLEAN
  /\ script \in Scripts(forceApply)
  /\ rest \in {Lines(script), Lines(script) \o Option("0")}
  /\ buffer = <<>> /\ pc = "menu" /\ op = "none" /\ took = <<>> /\ left = 0
  /\ interrupted = FALSE /\ astray = FALSE /\ handled = <<>> /\ result = "running"

-----------------------------------------------------------------------------
(* Reading.                                                                *)

Reading == pc \in {"option", "input", "text"}
As(line, role) == [line |-> line, as |-> role]

\* How many lines one read of the input may return.
Chunk == IF terminal THEN {1} \intersect 1..Len(rest) ELSE 1..Len(rest)

\* The menu's reader has nothing left and reads on.
Fill ==
  /\ Reading /\ buffer = <<>>
  /\ \E n \in Chunk :
       /\ buffer' = SubSeq(rest, 1, n)
       /\ rest' = SubSeq(rest, n + 1, Len(rest))
  /\ UNCHANGED <<setting, pc, op, took, left, interrupted, astray, handled, result>>

End(why) ==
  /\ pc' = "ended" /\ result' = why
  /\ UNCHANGED <<setting, rest, buffer, op, took, left, interrupted, astray, handled>>

\* A bug the project rules out: the end of the input is reported like any
\* other error and the menu asks again.
EndIgnored ==
  /\ Reading /\ buffer = <<>> /\ rest = <<>>
  /\ pc' = "menu" /\ op' = "none" /\ took' = <<>>
  /\ UNCHANGED <<setting, rest, buffer, left, interrupted, astray, handled, result>>
\* The reader returns io.EOF, which ends the program wherever it was reading.
EndOfInput == Reading /\ buffer = <<>> /\ rest = <<>> /\ End("eof")

Back == pc' = "menu" /\ op' = "none" /\ took' = <<>> /\ left' = 0
\* The operation has read its lines, all of them in the roles given.
Done(lines) == Back /\ handled' = Append(handled, lines) /\ UNCHANGED astray
\* An error with lines still to read: they are read as options.
Astray == Back /\ astray' = TRUE /\ UNCHANGED handled

-----------------------------------------------------------------------------
(* The menu.                                                               *)

\* The context is looked at here and nowhere else while input is awaited.
MenuTop ==
  /\ pc = "menu"
  /\ IF interrupted THEN End("interrupted")
     ELSE /\ pc' = "option"
          /\ UNCHANGED <<setting, rest, buffer, op, took, left, interrupted, astray, handled, result>>

Choose ==
  /\ pc = "option" /\ buffer # <<>>
  /\ buffer' = Tail(buffer)
  /\ LET line == Head(buffer) IN
       IF line.text = "0" THEN
         /\ pc' = "ended" /\ result' = "exit"
         /\ UNCHANGED <<op, took, left, astray, handled>>
       ELSE
         /\ UNCHANGED result
         /\ IF line.text \in Options THEN
              /\ op' = Operation[line.text] /\ took' = <<As(line, "option")>>
              /\ pc' = IF Asks(op') = <<>> THEN "call" ELSE "input"
              /\ UNCHANGED <<left, astray, handled>>
            ELSE Back /\ UNCHANGED <<astray, handled>>
  /\ UNCHANGED <<setting, rest, interrupted>>

\* Where an operation goes on when it has read what it asks for at once.
AfterInput ==
  CASE op \in {"editNote", "apply"} -> "begin"
    [] OTHER -> "call"
\* Whether the operation reads on after this line.
ReadsOn ==
  \/ Len(took) < Len(Asks(op))
  \/ op = "editNote"
  \/ op = "apply" /\ ~forceApply

\* readInt64, or a line taken as it is.
Input ==
  /\ pc = "input" /\ buffer # <<>>
  /\ buffer' = Tail(buffer)
  /\ LET line == Head(buffer)
         role == Asks(op)[Len(took)]
         lines == Append(took, As(line, role))
     IN IF role = "line" \/ IsNumber(line.text) THEN
          /\ took' = lines
          /\ pc' = IF Len(took) < Len(Asks(op)) THEN "input" ELSE AfterInput
          /\ UNCHANGED <<op, left, astray, handled>>
        ELSE IF ReadsOn THEN Astray ELSE Done(lines)
  /\ UNCHANGED <<setting, rest, interrupted, result>>

-----------------------------------------------------------------------------
(* Operations that read more.                                              *)

\* editNote reads the note first, a cleaner run its ids: either may fail, and
\* does once the context is cancelled.
Begin ==
  /\ pc = "begin"
  /\ \/ /\ ~interrupted
        /\ pc' = CASE op = "editNote" -> "text"
                   [] op = "apply" -> IF forceApply THEN "call" ELSE "confirm"
        /\ left' = IF op = "editNote" THEN NoteFields ELSE 0
        /\ UNCHANGED <<op, took, astray, handled>>
     \/ IF ReadsOn THEN Astray ELSE Done(took)
  /\ UNCHANGED <<setting, rest, buffer, interrupted, result>>

\* readMultiline: lines up to the terminator, one field after the other.
Text ==
  /\ pc = "text" /\ buffer # <<>>
  /\ buffer' = Tail(buffer)
  /\ LET line == Head(buffer) IN
       IF line.text = ".end" THEN
         /\ took' = Append(took, As(line, "end")) /\ left' = left - 1
         /\ pc' = IF left = 1 THEN "call" ELSE "text"
         /\ UNCHANGED <<op, astray, handled>>
       ELSE IF Decodes(line.text) THEN
         /\ took' = Append(took, As(line, "text"))
         /\ UNCHANGED <<pc, op, left, astray, handled>>
       ELSE Astray
  /\ UNCHANGED <<setting, rest, interrupted, result>>

\* Confirm: a scanner of its own takes the first line of a chunk, and the rest
\* of the chunk is lost with it.  The end of the input is a refusal.
Confirm ==
  /\ pc = "confirm"
  /\ \/ \E n \in Chunk :
          LET lines == Append(took, As(rest[1], "answer")) IN
          /\ rest' = SubSeq(rest, n + 1, Len(rest))
          /\ IF rest[1].text = "y"
               THEN pc' = "call" /\ took' = lines /\ UNCHANGED <<op, left, astray, handled>>
               ELSE Done(lines)
     \/ rest = <<>> /\ Back /\ UNCHANGED <<rest, astray, handled>>
  /\ UNCHANGED <<setting, buffer, interrupted, result>>

\* The service is called; success and failure lead back to the menu.
Call ==
  /\ pc = "call" /\ Done(took)
  /\ UNCHANGED <<setting, rest, buffer, interrupted, result>>

-----------------------------------------------------------------------------
(* The world.                                                              *)

Interrupt ==
  /\ pc # "ended" /\ ~interrupted /\ interrupted' = TRUE
  /\ UNCHANGED <<setting, rest, buffer, pc, op, took, left, astray, handled, result>>

\* The menu, every prompt, list and error is written: a write that fails ends
\* Run, at once or with the error message that cannot be written either.
OutputFails == pc # "ended" /\ End("broken")

Step == \/ MenuTop \/ Fill \/ EndOfInput \/ Choose \/ Input \/ Begin
        \/ Text \/ Confirm \/ Call
Next == Step \/ Interrupt \/ OutputFails
Spec == Init /\ [][Next]_vars
\* The program goes on, and the input it waits for arrives or ends.
FairSpec == Spec /\ WF_vars(Step)

-----------------------------------------------------------------------------
(* Properties.                                                             *)

\* Types: an operation is at hand exactly while its lines are read or it is
\* called, and it never waits for more fields than the note has.
TypeOK ==
  /\ terminal \in BOOLEAN /\ forceApply \in BOOLEAN
  /\ pc \in {"menu", "option", "input", "begin", "text", "confirm", "call", "ended"}
  /\ op \in {Operation[o] : o \in Options} \union {"none"}
  /\ left \in 0..NoteFields /\ (pc = "text" => left > 0)
  /\ pc \in {"menu", "option"} => op = "none" /\ took = <<>>
  /\ pc \in {"input", "begin", "text", "confirm", "call"} => op # "none" /\ took # <<>>
  /\ pc = "begin" => op \in {"editNote", "apply"}
  /\ interrupted \in BOOLEAN /\ astray \in BOOLEAN
  /\ result \in {"running", "exit", "eof", "interrupted", "broken"}
  /\ (pc = "ended") <=> (result # "running")

\* The operations of the script, every line in the role it was written for.
Intended == [t \in 1..Len(script) |-> [i \in 1..Len(script[t]) |-> As(script[t][i], script[t][i].role)]]

\* Every line is taken for what it was written for and every task is carried
\* out, one after the other, as long as no operation stops before its last
\* line and the question is asked of a terminal or not at all: the second
\* reader in Prompter.Confirm takes lines that the menu's reader needs.
AsMeant ==
  (terminal \/ forceApply) /\ ~astray =>
    /\ IsPrefix(handled, Intended)
    /\ result \in {"exit", "eof"} => handled = Intended

\* Whatever is typed, and whenever the input ends or a signal comes, Run returns.
Ends == <>(pc = "ended")
=============================================================================
