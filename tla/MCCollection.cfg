\* Two requests at a time, three in all: renames of two decks, edits of two notes and
\* runs.
SPECIFICATION Spec
CONSTANTS
  Decks = {1, 2}
  Bases = {"a", "b", "e acute"}
  Ascii = {"a", "b"}
  InitialName <- MCInitialName
  Notes = {1, 2}
  Fields <- MCFields
  Cards <- MCCards
  Requests = {r1, r2}
  MaxRequests = 3
SYMMETRY Symmetry
INVARIANTS
  TypeOK
  NamesDistinct
  OwnFields
  FieldsMatchModel
  SavedStays
