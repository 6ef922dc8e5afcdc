\* Two fields, answers in any order, failing requests.
SPECIFICATION Spec
CONSTANTS
  Fields = {name, mail}
  NoField = NoField
  NoKey = NoKey
  Empty = ""
  Undefined = "undefined"
  Values <- MCValues
  Key <- MCKey
  Answer <- MCAnswer
  MaxRequests = 1
INVARIANTS
  TypeOK
  ShownIsWanted
  OnlyFocusedSearches
  ThrobberMeansWork
PROPERTIES
  ShowsLatestAnswer
  SearchEnds
CHECK_DEADLOCK FALSE
