------------------------------- MODULE Browsing -------------------------------
(***************************************************************************)
(* The page's two listings, decks and notes (httpapi/web/index.html), and  *)
(* the handlers that answer them (handleDecks, handleDeckSearch,           *)
(* handleNotes): what the page keeps between two clicks, its Prev and Next *)
(* buttons, and requests whose answers arrive in any order or fail.        *)
(*                                                                         *)
(* The program neither adds nor removes decks, notes or cards, so a        *)
(* listing of a deck is always the same, while what a search finds changes *)
(* with every edit.  A request is read by the server some time before its  *)
(* answer arrives; a step does both.                                       *)
(***************************************************************************)
EXTENDS Integers, Sequences, SequencesExt, FiniteSets, FiniteSetsExt

CONSTANTS
  Decks, Notes,      \* ids
  Cards,             \* the cards: records with their nid and did
  PageSizes,         \* values of default_page_size to look at
  MaxPageLimit,      \* rows the server gives at most, 1000 in the code
  DefaultLimit,      \* the page size when none is given, 10 in the code
  MaxPending,        \* bound on the requests under way at once
  MaxClicks          \* bound on what the user does

ASSUME BrowsingAssumption ==
  /\ Decks \subseteq Nat \ {0} /\ IsFiniteSet(Decks)
  /\ Notes \subseteq Nat \ {0} /\ IsFiniteSet(Notes)
  /\ Cards \subseteq [id : Nat, nid : Notes, did : Decks] /\ IsFiniteSet(Cards)
  /\ PageSizes \subseteq Int
  /\ MaxPageLimit \in Nat \ {0} /\ DefaultLimit \in Nat \ {0}
  /\ MaxPending \in Nat /\ MaxClicks \in Nat

VARIABLES
  limit,              \* decksLimit and notesLimit, {{.PageSize}}
  allDecks, decksTotal, deckOffset,
  decksSearchMode,    \* whether the decks' listing is a search
  decksPane,          \* what the decks' listing shows
  currentDeck,        \* or 0
  currentDeckName,    \* the deck whose name the page has for currentDeck, or 0
  notesOffset, notesMode, currentNotesCount,
  filter,             \* whether there is a text in the filter of a deck's notes
  notesPane,          \* what the notes' listing shows
  pending,            \* the requests under way, in the order in which they were made
  clicks,             \* made so far
  asked,              \* of each listing, what the user asked for last
  latest,             \* the answer to its last request: awaited, answered or, by an older one, overtaken
  strayed,            \* whether the page is elsewhere than the user, by one of the ways named below
  misnamed,           \* a rename was answered after another deck was opened
  walk                \* of each listing, the pages that were shown one after the other

decksState == <<allDecks, decksTotal, deckOffset, decksSearchMode, decksPane>>
notesState == <<currentDeck, currentDeckName, notesOffset, notesMode, currentNotesCount, notesPane>>
ghost == <<asked, latest, strayed, misnamed, walk>>
browsingVars == <<limit, decksState, notesState, filter, pending, clicks, ghost>>

-----------------------------------------------------------------------------
(* The server.                                                             *)

\* clampPagination.
Positive(n, else) == IF n > 0 THEN n ELSE else
Clamp(rawLimit, rawOffset, defaultLimit) ==
  [limit  |-> Min({MaxPageLimit, Positive(rawLimit, Positive(defaultLimit, DefaultLimit))}),
   offset |-> Max({0, rawOffset})]
Cut(rows, page) == SubSeq(rows, page.offset + 1, Min({page.offset + page.limit, Len(rows)}))

\* ORDER BY the id: the ids, the smallest first.
OrderById(ids) ==
  CHOOSE rows \in [1..Cardinality(ids) -> ids] : \A i, j \in DOMAIN rows : i < j => rows[i] < rows[j]

\* handleDecks; the page always gives a limit.
ListDecks(offset) == Cut(OrderById(Decks), Clamp(limit, offset, 0))

InDeck(d) == {c.nid : c \in {k \in Cards : k.did = d}}

\* The sets of notes that buildNotesQuery's conditions may select.
Matching(q) ==
  CASE q.kind = "deck" -> IF q.filter THEN SUBSET InDeck(q.deck) ELSE {InDeck(q.deck)}
    [] q.kind = "global" -> SUBSET Notes
    [] q.kind = "find" -> {{}} \union {{n} : n \in Notes}

\* A bug the project rules out: a note with two cards in the deck is listed twice.
ListPerCard(q, matching) ==
  LET rows == SetToSortSeq({c \in Cards : c.nid \in matching},
                           LAMBDA b, c : b.nid < c.nid \/ (b.nid = c.nid /\ b.id < c.id))
      cut  == Cut(rows, Clamp(limit, q.offset, limit))
  IN  [i \in DOMAIN cut |-> cut[i].nid]
\* handleNotes and ListNotes; a note's id is looked up without pages.
ListNotes(q, matching) ==
  LET rows == OrderById(matching)
  IN  IF q.kind = "find" THEN rows ELSE Cut(rows, Clamp(limit, q.offset, limit))

\* The total that goes with the rows; when the count fails, it is that of the rows and
\* tells nothing.
CountNotes(matching) == {{Cardinality(matching)}, {}}

-----------------------------------------------------------------------------
(* Requests and answers.                                                   *)

Nothing == [pane |-> "none"]
NoWalk == [of |-> Nothing, seen |-> <<>>, end |-> FALSE, total |-> {}]
Panes == {"decks", "notes"}
DecksRequest(search, offset) == [pane |-> "decks", search |-> search, offset |-> offset]
NotesRequest(kind, deck, filtered, offset) ==
  [pane |-> "notes", kind |-> kind, deck |-> deck, filter |-> filtered, offset |-> offset]

BrowsingInit ==
  /\ \E n \in PageSizes : limit = Positive(n, DefaultLimit)  \* handleIndex
  /\ allDecks = <<>> /\ decksTotal = 0 /\ deckOffset = 0 /\ decksSearchMode = FALSE
  /\ decksPane = [of |-> Nothing, offset |-> 0, ok |-> FALSE, next |-> TRUE]
  /\ currentDeck = 0 /\ currentDeckName = 0
  /\ notesOffset = 0 /\ notesMode = "deck" /\ currentNotesCount = 0
  /\ filter = FALSE
  /\ notesPane = [of |-> Nothing, label |-> "none", deck |-> 0, offset |-> 0, ok |-> FALSE]
  /\ pending = <<[pane |-> "config"]>>  \* loadRuntimeConfig, when the page is loaded
  /\ clicks = 0
  /\ asked = [decks |-> DecksRequest(FALSE, 0), notes |-> Nothing]
  /\ latest = [p \in Panes |-> "answered"]
  /\ strayed = [p \in Panes |-> FALSE] /\ misnamed = FALSE
  /\ walk = [p \in Panes |-> NoWalk]

Click ==
  /\ clicks < MaxClicks /\ Len(pending) < MaxPending
  /\ clicks' = clicks + 1
  /\ UNCHANGED limit

\* The user asks for a listing from its start, or for what comes before or after what was
\* asked for last.  A condition that makes the page ask for something else is one of those
\* that the project names.
AskAnew(p, want) ==
  /\ asked' = [asked EXCEPT ![p] = want]
  /\ strayed' = [strayed EXCEPT ![p] = FALSE]
AskOn(p, want, strays) ==
  /\ asked' = [asked EXCEPT ![p] = want]
  /\ strayed' = [strayed EXCEPT ![p] = @ \/ strays]

\* The page's request q joins those that are under way.
Request(others, q) ==
  /\ pending' = Append(others, q)
  /\ latest' = [latest EXCEPT ![q.pane] = "awaited"]

-----------------------------------------------------------------------------
(* The decks.                                                              *)

FetchDecksPage(others) == Request(others, DecksRequest(decksSearchMode', deckOffset'))

\* A bug the project rules out: a search that begins where the listing was.
SearchKeepsOffset(others, search) ==
  decksSearchMode' = search /\ UNCHANGED deckOffset /\ FetchDecksPage(others)
LoadDecks(others, search) ==
  decksSearchMode' = search /\ deckOffset' = 0 /\ FetchDecksPage(others)

\* Refresh, or a search.
RefreshDecks ==
  /\ Click
  /\ \E search \in BOOLEAN :
       LoadDecks(pending, search) /\ AskAnew("decks", DecksRequest(search, 0))
  /\ UNCHANGED <<allDecks, decksTotal, decksPane, notesState, filter, misnamed, walk>>

\* The buttons are set when a page is shown; the handlers look again.  Prev does not get
\* as far in a search, whose offset is 0.
DecksPrev ==
  /\ Click
  /\ deckOffset > 0 /\ decksPane.offset > 0
  /\ deckOffset' = Max({0, deckOffset - limit}) /\ UNCHANGED decksSearchMode
  /\ FetchDecksPage(pending)
  /\ AskOn("decks", [asked.decks EXCEPT !.offset = Max({0, @ - limit})], FALSE)
  /\ UNCHANGED <<allDecks, decksTotal, decksPane, notesState, filter, misnamed, walk>>

DecksNext ==
  /\ Click
  /\ ~decksSearchMode /\ deckOffset + Len(allDecks) < decksTotal /\ decksPane.next
  /\ deckOffset' = deckOffset + limit /\ UNCHANGED decksSearchMode
  /\ FetchDecksPage(pending)
  /\ AskOn("decks", [asked.decks EXCEPT !.offset = @ + limit], FALSE)
  /\ UNCHANGED <<allDecks, decksTotal, decksPane, notesState, filter, misnamed, walk>>

-----------------------------------------------------------------------------
(* The notes.                                                              *)

\* loadNotesByDeck, with the deck that is open from now on.
LoadNotesByDeck(others) ==
  IF currentDeck' = 0 THEN pending' = others /\ UNCHANGED <<notesMode, latest>>
  ELSE /\ notesMode' = "deck"
       /\ Request(others, NotesRequest("deck", currentDeck', filter, notesOffset'))

\* A row of the decks' listing is clicked.
OpenDeck ==
  /\ Click /\ decksPane.ok
  /\ \E d \in Range(allDecks) :
       /\ currentDeck' = d /\ currentDeckName' = d
       /\ AskAnew("notes", NotesRequest("deck", d, filter, 0))
  /\ notesOffset' = 0
  /\ LoadNotesByDeck(pending)
  /\ misnamed' = FALSE
  /\ UNCHANGED <<decksState, currentNotesCount, notesPane, filter, walk>>

\* The user types into the filter, which applies at once or later.
Type ==
  /\ Click
  /\ filter' = ~filter
  /\ UNCHANGED <<decksState, notesState, pending, ghost>>

\* A button that asks for nothing sets the offset back all the same.
AskNothing ==
  /\ strayed' = [strayed EXCEPT !.notes = @ \/ (asked.notes # Nothing /\ asked.notes.offset > 0)]
  /\ UNCHANGED asked
ApplyFilter ==
  /\ Click
  /\ notesOffset' = 0
  /\ UNCHANGED <<currentDeck, currentDeckName>>
  /\ LoadNotesByDeck(pending)
  /\ IF currentDeck = 0 THEN AskNothing ELSE AskAnew("notes", NotesRequest("deck", currentDeck, filter, 0))
  /\ UNCHANGED <<decksState, currentNotesCount, notesPane, filter, misnamed, walk>>

\* searchNotesGlobally: the box is empty, or has one of two texts.
SearchGlobally(empty, text) ==
  IF empty THEN UNCHANGED <<notesMode, pending, latest>>
  ELSE notesMode' = "global" /\ Request(pending, NotesRequest("global", 0, text, notesOffset'))
GlobalSearch ==
  /\ Click
  /\ notesOffset' = 0
  /\ \E empty, text \in BOOLEAN :
       /\ SearchGlobally(empty, text)
       /\ IF empty THEN AskNothing ELSE AskAnew("notes", NotesRequest("global", 0, text, 0))
  /\ UNCHANGED <<decksState, currentDeck, currentDeckName, currentNotesCount, notesPane, filter, misnamed, walk>>

\* findNoteByID changes nothing of the page before its answer is there.
Find ==
  /\ Click
  /\ Request(pending, NotesRequest("find", 0, FALSE, 0))
  /\ AskAnew("notes", NotesRequest("find", 0, FALSE, 0))
  /\ UNCHANGED <<decksState, notesState, filter, misnamed, walk>>

\* A page before, or after, the one asked for last: of the same listing.
Turned(by) == [asked.notes EXCEPT !.offset = Max({0, @ + by})]

\* The listing that the user looks at is not what loadNotesByDeck loads: it is a search's,
\* or the filter has been typed over since.
NotTheDecks == asked.notes.kind # "deck" \/ asked.notes.filter # filter

NotesPrev ==
  /\ Click
  /\ notesOffset > 0 /\ (notesPane.of = Nothing \/ notesPane.offset > 0)
  /\ notesOffset' = Max({0, notesOffset - limit})
  /\ UNCHANGED <<currentDeck, currentDeckName>>
  /\ LoadNotesByDeck(pending)
  /\ AskOn("notes", Turned(-limit), NotTheDecks)
  /\ UNCHANGED <<decksState, currentNotesCount, notesPane, filter, misnamed, walk>>

\* Next sends the text that is in its box by then: of a global search too.
NextIsGlobal == notesMode = "global"
NotesNext ==
  /\ Click
  /\ currentNotesCount >= limit
  /\ notesOffset' = notesOffset + limit
  /\ UNCHANGED <<currentDeck, currentDeckName>>
  /\ \E empty, text \in IF NextIsGlobal THEN BOOLEAN ELSE {FALSE} :
       /\ IF NextIsGlobal THEN SearchGlobally(empty, text) ELSE LoadNotesByDeck(pending)
       /\ AskOn("notes", Turned(limit),
              IF asked.notes.kind = "global" THEN empty \/ text # asked.notes.filter ELSE NotTheDecks)
  /\ UNCHANGED <<decksState, currentNotesCount, notesPane, filter, misnamed, walk>>

\* Requests that change the collection and reload a listing when they have succeeded.
SaveNote ==
  /\ Click
  /\ pending' = Append(pending, [pane |-> "save"])
  /\ UNCHANGED <<decksState, notesState, filter, ghost>>
RenameDeck ==
  /\ Click /\ currentDeck # 0
  /\ pending' = Append(pending, [pane |-> "rename", deck |-> currentDeck])
  /\ UNCHANGED <<decksState, notesState, filter, ghost>>

-----------------------------------------------------------------------------
(* Answers, in any order.                                                  *)

\* The answer to request i is there; unless it is a listing's last request, or that was
\* answered before, another answer is still to come.
Answered(i) ==
  LET p == pending[i].pane
      last == \A j \in DOMAIN pending : pending[j].pane = p => j <= i
      next == IF latest[p] # "awaited" THEN "overtaken" ELSE IF last THEN "answered" ELSE "awaited"
  IN  /\ pending' = RemoveAt(pending, i)
      /\ latest' = IF p \in Panes THEN [latest EXCEPT ![p] = next] ELSE latest

\* The pages seen so far with one more, shown by request q; last says that the
\* listing's Next button is off now, total what the answer says of their number.
Extend(w, q, rows, last, total) ==
  LET Seen(before) == [of |-> q, seen |-> before \o rows, end |-> last, total |-> total]
  IN  IF q.offset = 0 THEN Seen(<<>>)
      ELSE IF w.of # Nothing /\ [w.of EXCEPT !.offset = @ + limit] = q /\ ~w.end THEN Seen(w.seen)
      ELSE NoWalk

DecksArrive(i) ==
  LET q == pending[i] IN
  /\ q.pane = "decks"
  /\ \E found \in IF q.search THEN SUBSET Decks ELSE {Decks} :
       /\ allDecks' = IF q.search THEN OrderById(found) ELSE ListDecks(q.offset)
       /\ decksTotal' = Cardinality(found)
  /\ decksPane' = [of |-> q, offset |-> deckOffset, ok |-> TRUE,
                   next |-> ~decksSearchMode /\ deckOffset + Len(allDecks') < decksTotal']
  /\ walk' = [walk EXCEPT !.decks =
       IF decksSearchMode \/ q.search \/ deckOffset # q.offset THEN NoWalk
       ELSE Extend(@, q, allDecks', ~decksPane'.next, {decksTotal'})]
  /\ Answered(i)
  /\ UNCHANGED <<limit, clicks, deckOffset, decksSearchMode, notesState, filter, asked, strayed, misnamed>>

\* renderNotes.
Render(q, rows, label, deck, offset) ==
  /\ currentNotesCount' = Len(rows)
  /\ notesPane' = [of |-> q, label |-> label, deck |-> deck, offset |-> offset, ok |-> TRUE]

\* A bug the project rules out: what a find shows has the offset of the listing before.
FoundKeepsOffset == UNCHANGED notesMode /\ UNCHANGED notesOffset
Found == notesMode' = "find" /\ notesOffset' = 0

\* A find that is answered after another listing was asked for sets that one's offset and
\* mode back.
LateFind(q) ==
  q.kind = "find" /\ asked.notes # q /\ (asked.notes.kind = "global" \/ asked.notes.offset > 0)
NotesArrive(i) ==
  LET q == pending[i] IN
  /\ q.pane = "notes"
  /\ IF q.kind = "find" THEN Found ELSE UNCHANGED <<notesMode, notesOffset>>
  /\ \E matching \in Matching(q) :
       LET rows == ListNotes(q, matching) IN
       /\ Render(q, rows, q.kind, IF q.kind = "deck" THEN currentDeckName ELSE 0, notesOffset')
       /\ \E total \in CountNotes(matching) :
            walk' = [walk EXCEPT !.notes =
              IF q.kind = "deck" /\ ~q.filter THEN Extend(@, q, rows, Len(rows) < limit, total)
              ELSE NoWalk]
  /\ Answered(i)
  /\ strayed' = [strayed EXCEPT !.notes = @ \/ LateFind(q)]
  /\ UNCHANGED <<limit, clicks, decksState, currentDeck, currentDeckName, filter, asked, misnamed>>

\* The error takes the place of the label; a deck's rows were cleared before.
Failed(i) ==
  LET q == pending[i] IN
  /\ q.pane # "config"
  /\ decksPane' = IF q.pane = "decks" THEN [decksPane EXCEPT !.ok = FALSE] ELSE decksPane
  /\ notesPane' = IF q.pane = "notes" THEN [notesPane EXCEPT !.ok = FALSE] ELSE notesPane
  /\ walk' = IF q.pane \in Panes THEN [walk EXCEPT ![q.pane] = NoWalk] ELSE walk
  /\ Answered(i)
  /\ UNCHANGED <<limit, clicks, allDecks, decksTotal, deckOffset, decksSearchMode, currentDeck,
                 currentDeckName, notesOffset, notesMode, currentNotesCount, filter, asked, strayed, misnamed>>

\* Whether the configuration came or not, the decks are listed then, whatever was asked for
\* before.
Configured(i) ==
  /\ pending[i].pane = "config"
  /\ LoadDecks(RemoveAt(pending, i), FALSE)
  /\ strayed' = [strayed EXCEPT !.decks = asked.decks # DecksRequest(FALSE, 0)]
  /\ UNCHANGED <<limit, clicks, allDecks, decksTotal, decksPane, notesState, filter, asked, misnamed, walk>>

\* The note is saved, and the listing is loaded again: as one of the current deck.
Saved(i) ==
  /\ pending[i].pane = "save"
  /\ UNCHANGED <<currentDeck, notesOffset>>
  /\ LoadNotesByDeck(RemoveAt(pending, i))
  /\ strayed' = [strayed EXCEPT !.notes = @ \/ (currentDeck # 0 /\ NotTheDecks)]
  /\ UNCHANGED <<limit, clicks, decksState, currentDeckName, currentNotesCount, notesPane, filter,
                 asked, misnamed, walk>>

\* The page's current deck has the new name, whichever deck was renamed; the decks' listing
\* is loaded again from its start.
Renamed(i) ==
  /\ pending[i].pane = "rename"
  /\ currentDeckName' = pending[i].deck
  /\ misnamed' = (misnamed \/ pending[i].deck # currentDeck)
  /\ LoadDecks(RemoveAt(pending, i), decksSearchMode)
  /\ asked' = [asked EXCEPT !.decks.offset = 0]
  /\ UNCHANGED <<limit, clicks, allDecks, decksTotal, decksPane, currentDeck, notesOffset,
                 notesMode, currentNotesCount, notesPane, filter, strayed, walk>>

Idle == clicks = MaxClicks /\ pending = <<>> /\ UNCHANGED browsingVars

BrowsingNext ==
  \/ RefreshDecks \/ DecksPrev \/ DecksNext
  \/ OpenDeck \/ Type \/ ApplyFilter \/ GlobalSearch \/ Find \/ NotesPrev \/ NotesNext
  \/ SaveNote \/ RenameDeck
  \/ \E i \in DOMAIN pending :
       DecksArrive(i) \/ NotesArrive(i) \/ Failed(i) \/ Configured(i) \/ Saved(i) \/ Renamed(i)
  \/ Idle

BrowsingSpec == BrowsingInit /\ [][BrowsingNext]_browsingVars

-----------------------------------------------------------------------------
(* Properties.                                                             *)

TypeRequest(q) ==
  \/ q \in [pane : {"decks"}, search : BOOLEAN, offset : Nat]
  \/ q \in [pane : {"notes"}, kind : {"deck", "global", "find"}, deck : Decks \union {0},
            filter : BOOLEAN, offset : Nat] /\ (q.kind = "deck" <=> q.deck # 0)
  \/ q \in [pane : {"config", "save"}]
  \/ q \in [pane : {"rename"}, deck : Decks]
TypeDecks ==
  /\ limit \in Nat \ {0}
  /\ allDecks \in Seq(Decks) /\ decksTotal \in 0..Cardinality(Decks)
  /\ deckOffset \in Nat /\ decksSearchMode \in BOOLEAN
  /\ decksPane.offset \in Nat /\ decksPane.ok \in BOOLEAN /\ decksPane.next \in BOOLEAN
TypeNotes ==
  /\ currentDeck \in Decks \union {0} /\ currentDeckName \in Decks \union {0}
  /\ notesOffset \in Nat /\ notesMode \in {"deck", "global", "find"}
  /\ currentNotesCount \in Nat /\ filter \in BOOLEAN
  /\ notesPane.label \in {"none", "deck", "global", "find"}
  /\ notesPane.deck \in Decks \union {0} /\ notesPane.offset \in Nat /\ notesPane.ok \in BOOLEAN

\* Every variable has its type (the page's variables of both listings), a search of
\* decks is not paged, and no deck is asked for, or named, before one was opened.
BrowsingTypeOK ==
  /\ TypeDecks /\ TypeNotes
  /\ \A i \in DOMAIN pending : TypeRequest(pending[i])
  /\ clicks \in 0..MaxClicks
  /\ \A p \in Panes : latest[p] \in {"awaited", "answered", "overtaken"} /\ walk[p].end \in BOOLEAN
  /\ strayed \in [Panes -> BOOLEAN] /\ misnamed \in BOOLEAN
  /\ decksSearchMode => deckOffset = 0
  /\ currentDeck = 0 <=> currentDeckName = 0

Waiting(p) == \E i \in DOMAIN pending : pending[i].pane = p
Settled(p) == ~Waiting(p) /\ latest[p] # "overtaken" /\ ~strayed[p]

\* When nothing is under way, each listing shows what the user asked for last, under
\* its own label and offset: after any sequence of clicks, answers and failures, and
\* whichever listing the page showed before.  Excluded are, until a listing is asked for
\* anew: an older answer that came after the last one's; the listing that the page loads at its
\* start, if another was asked for before (Configured); Prev, Next and a save's reload in a
\* search or after its text was typed over (NotTheDecks); a button that asks for nothing
\* on a later page (AskNothing); a find answered after another request (LateFind);
\* and, for the label, a rename answered after another deck was opened.
ShownAsAsked ==
  /\ decksPane.ok /\ Settled("decks") =>
       decksPane.of = asked.decks /\ decksPane.offset = asked.decks.offset
  /\ notesPane.ok /\ Settled("notes") =>
       /\ notesPane.of = asked.notes /\ notesPane.offset = asked.notes.offset
       /\ notesPane.label = asked.notes.kind
       /\ ~misnamed => notesPane.deck = asked.notes.deck

\* Whoever goes through the pages of the decks, or of the notes of a deck, until the Next
\* button is off has seen each of them once, and was told their number, if it was
\* counted: as long as a page is not larger than the server's limit.
PagingComplete ==
  limit <= MaxPageLimit =>
    /\ walk.decks.end => walk.decks.seen = OrderById(Decks)
    /\ walk.notes.end => walk.notes.seen = OrderById(InDeck(walk.notes.of.deck))
    /\ \A p \in Panes : walk[p].end => walk[p].total \subseteq {Len(walk[p].seen)}
=============================================================================
