\* Answers in any order, late or failing, while the user moves on.
SPECIFICATION Spec
CONSTANTS
  Views <- MCViews
  ArraySources = {list}
  AjaxSources = {feed, mail}
  MaxFetches = 2
  MaxCalls = 2
  MaxChanges = 3
INVARIANTS
  TypeOK
  PendingIsExact
  LoadingIsExact
  NothingIsMissing
  CacheIsShown
PROPERTIES
  Settles
