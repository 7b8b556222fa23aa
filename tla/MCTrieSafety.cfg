SPECIFICATION Spec
CONSTANTS
  Letters = {1, 2}
  Keys <- MCKeys
  Values = {u1, u2}
  Texts <- MCTexts
  Searches = {s1}
  Limit = 2
SYMMETRY Symmetry
INVARIANTS
  TypeOK
  NothingStale
  PlainNamesAreKept
  SearchIsComplete
PROPERTIES
  ImplementsNameIndex
