SPECIFICATION Spec
CONSTANTS
    kind = kind
    more = more
    rows = rows
    Pages = {anna, bert}
    Elements = {kind, more}
    Wrappers = {rows}
    Wrapper <- Refreshed
    Holds <- Drawn
    MaxSends = 2
    MaxSessions = 2
INVARIANTS
    TypeOK
    WaitingIsShown
    BehaviorsReturn
    Isolated
    FormIsKnown
    ShownIsCached
PROPERTY ImmutableIsKept
SYMMETRY Visitors
CHECK_DEADLOCK FALSE
