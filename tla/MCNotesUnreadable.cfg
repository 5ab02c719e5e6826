\* One request at a time, and the simplest collection.
SPECIFICATION Spec
CONSTANTS
  Decks = {1, 2}
  Bases = {"a", "b", "e acute"}
  Ascii = {"a", "b"}
  InitialName <- MCInitialName
  Notes = {1, 2}
  Fields <- MCFields
  Cards <- MCCards
  Requests = {r1}
  MaxRequests = 3
INVARIANT NotesStayReadable
