\* Saved and shown fields in every combination of kind and widget.
SPECIFICATION Spec
CONSTANTS
  Values = {0, 1, 2}
  NodeLists <- SmallLists
INVARIANTS
  PassIsCorrect
CHECK_DEADLOCK FALSE
