\* One field and one key that is asked for twice.
SPECIFICATION Spec
CONSTANTS
  Fields = {name}
  NoField = NoField
  NoKey = NoKey
  Empty = ""
  Undefined = "undefined"
  Values <- MCValues
  Key <- MCKey
  Answer <- MCAnswer
  MaxRequests = 2
INVARIANT SelectionIsSuggestion
CHECK_DEADLOCK FALSE
