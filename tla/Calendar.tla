------------------------------ MODULE Calendar ------------------------------
(***************************************************************************)
(* The events of a FullCalendar calendar: which it fetches, for which days *)
(* and what it shows of them (fullcalendar/src: EventManager, Calendar and *)
(* View).  The handlers of the page run one at a time; sources that are    *)
(* asked over the network answer later, in any order, or fail, while the   *)
(* user goes to other dates and the page adds and removes sources.         *)
(*                                                                         *)
(* A view is the set of days between its start and its end.  A content is  *)
(* the days that were fetched and how often the events of each source are  *)
(* there, "sticky" being those of renderEvent().                           *)
(***************************************************************************)
EXTENDS Naturals, FiniteSets

CONSTANTS
  Views,          \* sets of consecutive days
  ArraySources,   \* sources whose events are given as an array
  AjaxSources,    \* sources that are asked over the network
  MaxFetches,     \* bound: calls of fetchEvents()
  MaxCalls,       \* bound: unanswered calls for one source in one fetch
  MaxChanges      \* bound: sources and events added and removed

Sources == ArraySources \cup AjaxSources
Arrays == ArraySources \cup {"sticky"}
Origins == AjaxSources \cup Arrays

ASSUME CalendarAssumption ==
  /\ {} \notin Views
  /\ ArraySources \cap AjaxSources = {}
  /\ IsFiniteSet(AjaxSources)
  /\ "sticky" \notin Sources
  /\ MaxFetches \in Nat /\ MaxCalls \in Nat \ {0} /\ MaxChanges \in Nat

VARIABLES
  visible,   \* elementVisible()
  shown,     \* the days the view displays, {} before the first rendering
  rendered,  \* the content the view displays
  events,    \* Calendar: the array that was reported, when it is not the cache
  live,      \* Calendar: the array that was reported is the cache
  sources, cache, fetchID, pending,  \* EventManager
  stock,     \* how many events the array of an array source holds
  calls,     \* unanswered calls
  loading,   \* loadingLevel
  changes,   \* bounded by MaxChanges
  without,   \* for the properties: sources that failed or were emptied
  missed     \* for the properties: events were reported to a hidden calendar
view == <<visible, shown>>
reported == <<rendered, events, live, missed>>
manager == <<sources, cache, fetchID, pending, stock, calls, loading, without>>
vars == <<view, reported, manager, changes>>

Content == [days : Views \cup {{}}, n : [Origins -> Nat]]
NoEvents == [days |-> {}, n |-> [o \in Origins |-> 0]]
Call == [src : AjaxSources, id : 1..MaxFetches, no : 1..MaxCalls]

TypeOK ==
  /\ visible \in BOOLEAN /\ live \in BOOLEAN /\ missed \in BOOLEAN
  /\ shown \in Views \cup {{}}
  /\ rendered \in Content /\ events \in Content /\ cache \in Content
  /\ sources \subseteq Sources /\ without \subseteq AjaxSources
  /\ fetchID \in 0..MaxFetches /\ pending \in Nat /\ loading \in Nat
  /\ changes \in 0..MaxChanges
  /\ stock \in [Arrays -> Nat]
  /\ calls \subseteq Call

Init ==
  /\ visible = TRUE /\ live = TRUE /\ missed = FALSE
  /\ shown = {}
  /\ rendered = NoEvents /\ events = NoEvents /\ cache = NoEvents
  /\ sources \in SUBSET Sources /\ without = {}
  /\ fetchID = 0 /\ pending = 0 /\ loading = 0 /\ changes = 0
  /\ stock = [a \in Arrays |-> IF a = "sticky" THEN 0 ELSE 1]
  /\ calls = {}
-----------------------------------------------------------------------------
(* What the handlers call.                                                 *)

\* reportEvents(), then renderEvents().
Report(content) ==
  /\ live' = TRUE /\ events' = NoEvents
  /\ rendered' = IF visible THEN content ELSE rendered
  /\ missed' = ~visible

\* The callback of a source: the last one to answer reports.
Answered(left, content) ==
  /\ pending' = left
  /\ cache' = content
  /\ IF left = 0 THEN Report(content) ELSE UNCHANGED reported

\* A mutant: the count is not reset.
FetchEventsAdding(days) ==
  LET asked == sources \cap AjaxSources
      found == [days |-> days,
                n |-> [o \in Origins |->
                         IF o \in (sources \cap Arrays) \cup {"sticky"}
                           THEN stock[o] ELSE 0]]
  IN  /\ fetchID < MaxFetches
      /\ fetchID' = fetchID + 1
      /\ calls' = calls \cup
           {[src |-> s, id |-> fetchID + 1, no |-> 1] : s \in asked}
      /\ loading' = loading + Cardinality(asked)
      /\ pending' = pending + Cardinality(asked)
      /\ cache' = found
      /\ without' = {}
      /\ UNCHANGED <<sources, stock>>
      /\ rendered' = IF asked = {} /\ visible THEN found ELSE NoEvents
      /\ IF asked = {}
           THEN live' = TRUE /\ events' = NoEvents /\ missed' = ~visible
           ELSE /\ live' = FALSE
                /\ events' = IF live THEN cache ELSE events
                /\ UNCHANGED missed

\* fetchEvents(): the array sources call back at once, the others are asked.
\* The reported array is no longer the cache until all have answered.
FetchEvents(days) ==
  LET asked == sources \cap AjaxSources
      found == [days |-> days,
                n |-> [o \in Origins |->
                         IF o \in (sources \cap Arrays) \cup {"sticky"}
                           THEN stock[o] ELSE 0]]
  IN  /\ fetchID < MaxFetches
      /\ fetchID' = fetchID + 1
      /\ calls' = calls \cup
           {[src |-> s, id |-> fetchID + 1, no |-> 1] : s \in asked}
      /\ loading' = loading + Cardinality(asked)
      /\ pending' = Cardinality(asked)
      /\ cache' = found
      /\ without' = {}
      /\ UNCHANGED <<sources, stock>>
      /\ rendered' = IF asked = {} /\ visible THEN found ELSE NoEvents
      /\ IF asked = {}
           THEN live' = TRUE /\ events' = NoEvents /\ missed' = ~visible
           ELSE /\ live' = FALSE
                /\ events' = IF live THEN cache ELSE events
                /\ UNCHANGED missed

\* A mutant: days that overlap are taken for days that were fetched.
FetchNeededApart(days) == days \cap cache.days = {}

\* isFetchNeeded()
FetchNeeded(days) == ~(days \subseteq cache.days)
-----------------------------------------------------------------------------
(* The user and the page.                                                  *)

\* prev(), next(), today(), gotoDate(), changeView() and render() all end in
\* renderView(), which leaves a view alone that contains the date already, but
\* renders one of another type anew, though it may show the same days.
\* A hidden calendar only remembers the date.  Bound: it does not change the
\* type of its view while it is hidden.
GoFetch(v) ==
  /\ visible /\ FetchNeeded(v)
  /\ shown' = v
  /\ FetchEvents(v)
  /\ UNCHANGED <<visible, changes>>

GoLazily(v) ==
  /\ visible /\ ~FetchNeeded(v)
  /\ shown' = v
  /\ rendered' = IF live THEN cache ELSE events
  /\ missed' = FALSE
  /\ UNCHANGED <<visible, events, live, manager, changes>>

\* The rest needs a calendar that was rendered.
Change ==
  /\ shown # {}
  /\ changes < MaxChanges
  /\ changes' = changes + 1

RefetchEvents ==
  /\ shown # {}
  /\ FetchEvents(shown)
  /\ UNCHANGED <<view, changes>>

\* addEventSource(): the events of an array source are built from its input again,
\* whatever removeEvents() took from it when it was a source before.
AddEventSource(s) ==
  /\ Change /\ s \in Sources \ sources
  /\ sources' = sources \cup {s}
  /\ IF s \in AjaxSources
       THEN \E no \in 1..MaxCalls :
              LET call == [src |-> s, id |-> fetchID, no |-> no]
              IN  /\ call \notin calls
                  /\ calls' = calls \cup {call}
                  /\ loading' = loading + 1
                  /\ pending' = pending + 1
                  /\ UNCHANGED <<cache, reported, stock>>
       ELSE /\ stock' = [stock EXCEPT ![s] = 1]
            /\ Answered(pending, [cache EXCEPT !.n[s] = @ + 1])
            /\ UNCHANGED <<calls, loading>>
  /\ UNCHANGED <<view, fetchID, without>>

\* A mutant: the calendar is not told.
RemoveEventSourceQuietly(s) ==
  /\ Change /\ s \in sources
  /\ sources' = sources \ {s}
  /\ cache' = [cache EXCEPT !.n[s] = 0]
  /\ live' = FALSE /\ events' = IF live THEN cache ELSE events
  /\ UNCHANGED <<view, rendered, missed>>
  /\ UNCHANGED <<fetchID, pending, stock, calls, loading, without>>

\* It takes the source's events out of the cache but not its call back.
RemoveEventSource(s) ==
  /\ Change /\ s \in sources
  /\ sources' = sources \ {s}
  /\ cache' = [cache EXCEPT !.n[s] = 0]
  /\ Report(cache')
  /\ UNCHANGED <<view, fetchID, pending, stock, calls, loading, without>>

\* renderEvent().  Bound: it is told to stick; an event that does not is gone
\* with the next fetch.
RenderEvent ==
  /\ Change /\ stock["sticky"] = 0
  /\ stock' = [stock EXCEPT !["sticky"] = 1]
  /\ cache' = [cache EXCEPT !.n["sticky"] = 1]
  /\ Report(cache')
  /\ UNCHANGED <<view, sources, fetchID, pending, calls, loading, without>>

\* removeEvents() without a filter.
RemoveEvents ==
  /\ Change
  /\ stock' = [a \in Arrays |->
                 IF a \in sources \cup {"sticky"} THEN 0 ELSE stock[a]]
  /\ cache' = [cache EXCEPT !.n = [o \in Origins |-> 0]]
  /\ Report(cache')
  /\ without' = AjaxSources
  /\ UNCHANGED <<view, sources, fetchID, pending, calls, loading>>

UpdateEvent ==
  /\ shown # {} /\ \E o \in Origins : cache.n[o] > 0
  /\ Report(cache)
  /\ UNCHANGED <<view, manager, changes>>

HideOrShow ==
  /\ shown # {}
  /\ visible' = ~visible
  /\ UNCHANGED <<shown, reported, manager, changes>>
-----------------------------------------------------------------------------
(* The network.                                                            *)

\* Mutants: an answer counts whatever fetch it belongs to, a stale one does
\* not end the loading, an error is not passed on.
AnswerStale(call, ok) ==
  /\ call \in calls
  /\ calls' = calls \ {call}
  /\ loading' = loading - 1
  /\ UNCHANGED <<view, sources, fetchID, stock, changes>>
  /\ IF TRUE
       THEN /\ Answered(pending - 1,
                 IF ok THEN [cache EXCEPT !.n[call.src] = @ + 1] ELSE cache)
            /\ without' = IF ok THEN without \ {call.src}
                                ELSE without \cup {call.src}
       ELSE UNCHANGED <<reported, cache, pending, without>>

AnswerPopsCurrent(call, ok) ==
  /\ call \in calls
  /\ calls' = calls \ {call}
  /\ loading' = IF call.id = fetchID THEN loading - 1 ELSE loading
  /\ UNCHANGED <<view, sources, fetchID, stock, changes>>
  /\ IF call.id = fetchID
       THEN /\ Answered(pending - 1,
                 IF ok THEN [cache EXCEPT !.n[call.src] = @ + 1] ELSE cache)
            /\ without' = IF ok THEN without \ {call.src}
                                ELSE without \cup {call.src}
       ELSE UNCHANGED <<reported, cache, pending, without>>

AnswerErrorSilent(call, ok) ==
  /\ call \in calls
  /\ calls' = calls \ {call}
  /\ loading' = loading - 1
  /\ UNCHANGED <<view, sources, fetchID, stock, changes>>
  /\ IF call.id = fetchID /\ ok
       THEN /\ Answered(pending - 1,
                 IF ok THEN [cache EXCEPT !.n[call.src] = @ + 1] ELSE cache)
            /\ without' = IF ok THEN without \ {call.src}
                                ELSE without \cup {call.src}
       ELSE UNCHANGED <<reported, cache, pending, without>>

\* success or error, then complete: an answer to an earlier fetch only ends
\* the loading.
Answer(call, ok) ==
  /\ call \in calls
  /\ calls' = calls \ {call}
  /\ loading' = loading - 1
  /\ UNCHANGED <<view, sources, fetchID, stock, changes>>
  /\ IF call.id = fetchID
       THEN /\ Answered(pending - 1,
                 IF ok THEN [cache EXCEPT !.n[call.src] = @ + 1] ELSE cache)
            /\ without' = IF ok THEN without \ {call.src}
                                ELSE without \cup {call.src}
       ELSE UNCHANGED <<reported, cache, pending, without>>

Network == \E call \in calls, ok \in BOOLEAN : Answer(call, ok)

Next ==
  \/ \E v \in Views : GoFetch(v) \/ GoLazily(v)
  \/ \E s \in Sources : AddEventSource(s) \/ RemoveEventSource(s)
  \/ RefetchEvents \/ RenderEvent \/ RemoveEvents \/ UpdateEvent \/ HideOrShow
  \/ Network

\* Every request is answered or fails in the end.
Spec == Init /\ [][Next]_vars /\ WF_vars(Network)
-----------------------------------------------------------------------------
(* Properties.                                                             *)

\* pendingSourceCnt is the number of sources of the latest fetch that have
\* not answered, whatever answers of earlier fetches come in between: were it
\* more, the events would never be shown, were it less, too early.
PendingIsExact ==
  pending = Cardinality({call \in calls : call.id = fetchID})

\* The "loading" callback of the page is told of the end of the last request,
\* stale ones included, and not before.
LoadingIsExact == loading = Cardinality(calls)

\* Once all have answered the cache holds what every source gave, and the
\* days of the view are among those fetched.
NothingIsMissing ==
  shown # {} /\ pending = 0 =>
    /\ \A s \in sources \cap AjaxSources : s \in without \/ cache.n[s] > 0
    /\ \A a \in (sources \cap Arrays) \cup {"sticky"} : cache.n[a] = stock[a]
    /\ shown \subseteq cache.days

\* Once all have answered a calendar shows the cache, unless the events were
\* reported while it was hidden: render() does not show those.
CacheIsShown ==
  shown # {} /\ pending = 0 /\ visible /\ ~missed => rendered = cache

\* However the answers and the user's steps are mixed: when nothing but
\* answers happens any more, the calendar settles with all its events.
Settles ==
  <>[][Network]_vars =>
    <>[](pending = 0 /\ loading = 0 /\ NothingIsMissing /\ CacheIsShown)
=============================================================================
