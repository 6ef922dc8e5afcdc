--------------------------- MODULE CalendarProofs ---------------------------
(***************************************************************************)
(* What holds of Calendar for every set of views and sources and for every *)
(* bound.                                                                  *)
(***************************************************************************)
EXTENDS Calendar, FiniteSetTheorems, TLAPS

\* The calls a fetch makes.
Asked(S, id) == {[src |-> s, id |-> id, no |-> 1] : s \in S}

\* The unanswered calls of a fetch.
Open(S, id) == {call \in S : call.id = id}

\* A fetch makes as many calls as it has sources to ask.
LEMMA AskedCount ==
  ASSUME NEW S, IsFiniteSet(S), NEW id
  PROVE  IsFiniteSet(Asked(S, id)) /\ Cardinality(Asked(S, id)) = Cardinality(S)
<1> DEFINE f == [s \in S |-> [src |-> s, id |-> id, no |-> 1]]
<1>1. f \in Bijection(S, Asked(S, id))
  BY DEF Bijection, Injection, Surjection, Asked, IsInjective
<1>2. ExistsBijection(S, Asked(S, id))
  BY <1>1 DEF ExistsBijection
<1> QED
  BY <1>2, FS_Bijection

\* The open calls of a finite set of calls can be counted.
LEMMA OpenFinite ==
  ASSUME NEW S, IsFiniteSet(S), NEW id
  PROVE  /\ IsFiniteSet(Open(S, id))
         /\ Cardinality(Open(S, id)) \in Nat
BY FS_Subset, FS_CardinalityType DEF Open

\* The invariant of the counters: calls belong to fetches that were made.
CountersOk ==
  /\ IsFiniteSet(calls)
  /\ \A call \in calls : call.id <= fetchID
  /\ PendingIsExact
  /\ LoadingIsExact

\* Whatever the cache lacks is still being asked for.
CacheOk ==
  IF shown = {} THEN cache.days = {}
  ELSE
    /\ fetchID > 0 /\ shown \subseteq cache.days
    /\ \A s \in sources \cap AjaxSources :
         \/ s \in without \/ cache.n[s] > 0
         \/ \E call \in calls : call.src = s /\ call.id = fetchID
    /\ \A a \in (sources \cap Arrays) \cup {"sticky"} : cache.n[a] = stock[a]
    /\ \A a \in ArraySources \ sources : cache.n[a] = 0

\* With nothing pending the reported array is the cache, also in a calendar
\* that is hidden.
ReportOk ==
  shown # {} /\ pending = 0 => live /\ (~missed => rendered = cache)

Inv == TypeOK /\ CountersOk /\ CacheOk /\ ReportOk

\* A call that was not open before is counted once.
LEMMA OpenAdd ==
  ASSUME NEW S, IsFiniteSet(S), NEW call, call \notin S, NEW id, call.id = id
  PROVE  Cardinality(Open(S \cup {call}, id)) = Cardinality(Open(S, id)) + 1
<1>1. Open(S \cup {call}, id) = Open(S, id) \cup {call}
  BY DEF Open
<1>2. call \notin Open(S, id)
  BY DEF Open
<1> QED
  BY <1>1, <1>2, OpenFinite, FS_AddElement

\* A call that is answered is no longer open.
LEMMA OpenRemove ==
  ASSUME NEW S, IsFiniteSet(S), NEW call \in S, NEW id
  PROVE  /\ call.id = id =>
              /\ Cardinality(Open(S, id)) > 0
              /\ Cardinality(Open(S \ {call}, id)) = Cardinality(Open(S, id)) - 1
         /\ call.id # id => Open(S \ {call}, id) = Open(S, id)
<1>1. CASE call.id = id
  <2>1. Open(S \ {call}, id) = Open(S, id) \ {call}
    BY DEF Open
  <2>2. call \in Open(S, id)
    BY <1>1 DEF Open
  <2>3. Cardinality(Open(S, id)) # 0
    BY <2>2, OpenFinite, FS_EmptySet
  <2>4. Cardinality(Open(S, id)) \in Nat /\ IsFiniteSet(Open(S, id))
    BY OpenFinite
  <2>5. Cardinality(Open(S, id) \ {call}) = Cardinality(Open(S, id)) - 1
    BY <2>2, <2>4, FS_RemoveElement
  <2>6. Cardinality(Open(S, id)) > 0
    BY <2>3, <2>4
  <2>7. Cardinality(Open(S \ {call}, id)) = Cardinality(Open(S, id)) - 1
    BY <2>1, <2>5, Zenon
  <2> QED
    BY <1>1, <2>6, <2>7, Zenon
<1>2. CASE call.id # id
  BY <1>2 DEF Open
<1> QED
  BY <1>1, <1>2

-----------------------------------------------------------------------------
LEMMA InitInv == Init => Inv
<1> SUFFICES ASSUME Init PROVE Inv
  OBVIOUS
<1>1. NoEvents \in Content
  BY DEF NoEvents, Content
<1>2. TypeOK
  <2>1. visible \in BOOLEAN /\ live \in BOOLEAN /\ missed \in BOOLEAN
    BY DEF Init
  <2>2. stock \in [Arrays -> Nat] /\ changes \in 0..MaxChanges
    BY CalendarAssumption DEF Init
  <2>3. fetchID \in 0..MaxFetches /\ pending \in Nat /\ loading \in Nat
    BY CalendarAssumption DEF Init
  <2>4. sources \subseteq Sources /\ without \subseteq AjaxSources
        /\ calls \subseteq Call
    BY DEF Init
  <2> QED
    BY <1>1, <2>1, <2>2, <2>3, <2>4 DEF Init, TypeOK
<1>3. Open(calls, fetchID) = {}
  BY DEF Init, Open
<1>4. CountersOk
  BY <1>3, FS_EmptySet
  DEF Init, CountersOk, PendingIsExact, LoadingIsExact, Open
<1>5. CacheOk /\ ReportOk
  BY DEF Init, NoEvents, CacheOk, ReportOk
<1> QED
  BY <1>2, <1>4, <1>5 DEF Inv

\* Every call belongs to a fetch that was made.
LEMMA CallIds ==
  ASSUME Inv
  PROVE  /\ fetchID \in Nat
         /\ \A call \in calls : call.id \in Nat /\ call.id <= fetchID
                                /\ call.src \in AjaxSources
<1>1. calls \subseteq Call /\ fetchID \in Nat
  BY CalendarAssumption DEF Inv, TypeOK
<1>2. \A call \in Call : call.id \in Nat /\ call.src \in AjaxSources
  BY CalendarAssumption DEF Call
<1> QED
  BY <1>1, <1>2 DEF Inv, CountersOk

\* The content the array sources give at once.
LEMMA FoundType ==
  ASSUME TypeOK, NEW v \in Views
  PROVE  [days |-> v, n |-> [o \in Origins |->
            IF o \in (sources \cap Arrays) \cup {"sticky"}
              THEN stock[o] ELSE 0]] \in Content
BY CalendarAssumption DEF TypeOK, Content, Origins, Arrays

\* A fetch, whether the view moved or not.
LEMMA FetchInv ==
  ASSUME Inv, NEW v \in Views, shown' = v, FetchEvents(v),
         UNCHANGED <<visible, changes>>
  PROVE  Inv'
<1> DEFINE asked == sources \cap AjaxSources
           found == [days |-> v, n |-> [o \in Origins |->
                       IF o \in (sources \cap Arrays) \cup {"sticky"}
                         THEN stock[o] ELSE 0]]
           new == Asked(asked, fetchID + 1)
<1>1. IsFiniteSet(asked) /\ Cardinality(asked) \in Nat
  BY CalendarAssumption, FS_Subset, FS_CardinalityType
<1>2. IsFiniteSet(new) /\ Cardinality(new) = Cardinality(asked)
  BY <1>1, AskedCount
<1>3. /\ fetchID < MaxFetches /\ fetchID' = fetchID + 1
      /\ calls' = calls \cup new
      /\ loading' = loading + Cardinality(asked)
      /\ pending' = Cardinality(asked)
      /\ cache' = found
      /\ without' = {} /\ sources' = sources /\ stock' = stock
      /\ rendered' = IF asked = {} /\ visible THEN found ELSE NoEvents
      /\ events' \in {NoEvents, cache, events}
      /\ live' \in BOOLEAN
      /\ missed' \in {~visible, missed}
      /\ asked = {} => live' = TRUE /\ missed' = ~visible
  BY DEF FetchEvents, Asked, Inv, TypeOK
<1>4. found \in Content /\ NoEvents \in Content
  BY FoundType DEF Inv, Content, NoEvents
<1>5. /\ fetchID \in Nat /\ MaxFetches \in Nat
      /\ \A call \in calls : call.id \in Nat /\ call.id <= fetchID
  BY CallIds, CalendarAssumption
<1>6. \A call \in new : call.id = fetchID + 1 /\ call.src \in asked
  BY DEF Asked
<1> HIDE DEF new, found
<1>7. TypeOK'
  <2>1. new \subseteq Call
    BY <1>3, <1>5, CalendarAssumption DEF Asked, Call, new
  <2>2. visible' \in BOOLEAN /\ live' \in BOOLEAN /\ missed' \in BOOLEAN
    BY <1>3 DEF Inv, TypeOK
  <2>3. rendered' \in Content /\ events' \in Content /\ cache' \in Content
    BY <1>3, <1>4 DEF Inv, TypeOK
  <2>4. /\ fetchID' \in 0..MaxFetches /\ pending' \in Nat /\ loading' \in Nat
        /\ calls' \subseteq Call
    BY <1>1, <1>3, <1>5, <2>1 DEF Inv, TypeOK
  <2>5. /\ stock' \in [Arrays -> Nat] /\ changes' \in 0..MaxChanges
        /\ sources' \subseteq Sources /\ without' \subseteq AjaxSources
    BY <1>3 DEF Inv, TypeOK
  <2> QED
    BY <2>2, <2>3, <2>4, <2>5 DEF TypeOK
<1>8. CountersOk'
  <2>1. calls \cap new = {}
    BY <1>5, <1>6
  <2>2. Open(calls', fetchID') = new
    BY <1>3, <1>5, <1>6 DEF Open
  <2>3. /\ IsFiniteSet(calls')
        /\ Cardinality(calls') = Cardinality(calls) + Cardinality(new)
    <3>1. IsFiniteSet(calls) /\ IsFiniteSet(new)
      BY <1>2 DEF Inv, CountersOk
    <3>2. Cardinality(calls \cap new) = 0
      BY <2>1, FS_EmptySet, Zenon
    <3>3. /\ Cardinality(calls) \in Nat /\ Cardinality(new) \in Nat
      BY <3>1, FS_CardinalityType
    <3>4. /\ IsFiniteSet(calls \cup new)
          /\ Cardinality(calls \cup new)
               = Cardinality(calls) + Cardinality(new)
                 - Cardinality(calls \cap new)
      BY <3>1, FS_Union, Zenon
    <3>5. Cardinality(calls \cup new) = Cardinality(calls) + Cardinality(new)
      BY <3>2, <3>3, <3>4
    <3> QED
      BY <1>3, <3>4, <3>5, Zenon
  <2>4. \A call \in calls' : call.id <= fetchID'
    BY <1>3, <1>5, <1>6
  <2> QED
    BY <1>2, <1>3, <2>2, <2>3, <2>4
    DEF Inv, CountersOk, PendingIsExact, LoadingIsExact, Open
<1>9. CacheOk'
  <2>1. fetchID' > 0 /\ shown' \subseteq cache'.days
    BY <1>3, <1>5 DEF found
  <2>2. \A s \in asked : \E call \in calls' :
          call.src = s /\ call.id = fetchID'
    <3>1. SUFFICES ASSUME NEW s \in asked
                   PROVE  \E call \in new :
                            call.src = s /\ call.id = fetchID + 1
      BY <1>3
    <3>2. [src |-> s, id |-> fetchID + 1, no |-> 1] \in new
      BY DEF Asked, new
    <3> QED
      BY <3>2
  <2>3. \A a \in (sources \cap Arrays) \cup {"sticky"} :
          cache'.n[a] = stock'[a]
    BY <1>3 DEF Origins, Arrays, found
  <2>4. \A a \in ArraySources \ sources : cache'.n[a] = 0
    BY <1>3, CalendarAssumption DEF Origins, Arrays, Sources, found
  <2> QED
    BY <1>3, <2>1, <2>2, <2>3, <2>4, CalendarAssumption DEF CacheOk
<1>10. ReportOk'
  <2>1. pending' = 0 => asked = {}
    BY <1>1, <1>3, FS_EmptySet
  <2> QED
    BY <1>3, <2>1 DEF ReportOk
<1> QED
  BY <1>7, <1>8, <1>9, <1>10 DEF Inv

-----------------------------------------------------------------------------
\* A content in which the events of one origin are others.
Edited(c, o, k) == [c EXCEPT !.n[o] = k]

LEMMA ContentEdit ==
  ASSUME NEW c \in Content, NEW o \in Origins, NEW k \in Nat
  PROVE  /\ Edited(c, o, k) \in Content /\ Edited(c, o, k).days = c.days
         /\ Edited(c, o, k).n[o] = k
         /\ \A p \in Origins \ {o} : Edited(c, o, k).n[p] = c.n[p]
BY DEF Content, Edited

\* The counters do not change where no call is made or answered.
LEMMA CountersKept ==
  ASSUME Inv, UNCHANGED <<calls, fetchID, pending, loading>>
  PROVE  CountersOk'
BY DEF Inv, CountersOk, PendingIsExact, LoadingIsExact

\* What an action leaves alone stays of its type.
LEMMA TypeKept ==
  ASSUME Inv,
         visible' \in BOOLEAN, live' \in BOOLEAN, missed' \in BOOLEAN,
         shown' \in Views \cup {{}},
         rendered' \in Content, events' \in Content, cache' \in Content,
         sources' \subseteq Sources, without' \subseteq AjaxSources,
         pending' \in Nat, loading' \in Nat, changes' \in 0..MaxChanges,
         stock' \in [Arrays -> Nat], calls' \subseteq Call,
         UNCHANGED fetchID
  PROVE  TypeOK'
BY DEF Inv, TypeOK

\* The calendar is told of a cache.
LEMMA ReportInv ==
  ASSUME Inv, Report(cache'), cache' \in Content, UNCHANGED visible
  PROVE  /\ live' = TRUE /\ missed' \in BOOLEAN
         /\ rendered' \in Content /\ events' \in Content
         /\ ~missed' => rendered' = cache'
<1>1. NoEvents \in Content
  BY DEF NoEvents, Content
<1>2. rendered' \in Content
  BY DEF Report, Inv, TypeOK
<1> QED
  BY <1>1, <1>2 DEF Report, Inv, TypeOK

LEMMA GoLazilyInv ==
  ASSUME Inv, NEW v \in Views, GoLazily(v)
  PROVE  Inv'
<1>1. rendered' \in Content
  BY DEF GoLazily, Inv, TypeOK
<1>2. TypeOK'
  BY <1>1 DEF GoLazily, manager, Inv, TypeOK
<1>3. CountersOk'
  BY CountersKept DEF GoLazily, manager
<1>4. CacheOk'
  <2>1. v # {} /\ v \subseteq cache.days
    BY CalendarAssumption DEF GoLazily, FetchNeeded
  <2>2. shown # {}
    BY <2>1 DEF Inv, CacheOk
  <2> QED
    BY <2>1, <2>2 DEF GoLazily, manager, Inv, CacheOk
<1>5. ReportOk'
  <2>1. shown # {}
    BY CalendarAssumption DEF GoLazily, FetchNeeded, Inv, CacheOk
  <2> QED
    BY <2>1 DEF GoLazily, manager, Inv, ReportOk
<1> QED
  BY <1>2, <1>3, <1>4, <1>5 DEF Inv

LEMMA AddAjaxInv ==
  ASSUME Inv, NEW s \in AjaxSources, AddEventSource(s)
  PROVE  Inv'
<1>1. PICK no \in 1..MaxCalls :
        LET call == [src |-> s, id |-> fetchID, no |-> no]
        IN  /\ call \notin calls
            /\ calls' = calls \cup {call}
            /\ loading' = loading + 1
            /\ pending' = pending + 1
            /\ UNCHANGED <<cache, reported>>
  BY DEF AddEventSource
<1> DEFINE call == [src |-> s, id |-> fetchID, no |-> no]
<1>2. /\ shown # {} /\ sources' = sources \cup {s} /\ s \in Sources
      /\ changes' = changes + 1 /\ changes < MaxChanges
      /\ UNCHANGED <<view, fetchID, stock, without>>
  BY DEF AddEventSource, Change
<1>3. fetchID \in Nat /\ fetchID > 0 /\ pending \in Nat /\ loading \in Nat
  BY <1>2, CallIds DEF Inv, TypeOK, CacheOk
<1>4. call \in Call /\ call.id = fetchID /\ call.src = s
  BY <1>3, CalendarAssumption DEF Call, Inv, TypeOK
<1> HIDE DEF call
<1>5. call \notin calls /\ calls' = calls \cup {call}
  BY <1>1 DEF call
<1>6. IsFiniteSet(calls)
  BY DEF Inv, CountersOk
<1>7. TypeOK'
  <2>1. calls' \subseteq Call /\ sources' \subseteq Sources
    BY <1>2, <1>4, <1>5 DEF Inv, TypeOK
  <2>2. changes' \in 0..MaxChanges
    BY <1>2, CalendarAssumption DEF Inv, TypeOK
  <2>3. pending' \in Nat /\ loading' \in Nat
    BY <1>1, <1>3
  <2> QED
    BY <1>1, <1>2, <2>1, <2>2, <2>3 DEF Inv, TypeOK, view, reported
<1>8. CountersOk'
  <2>1. IsFiniteSet(calls') /\ Cardinality(calls') = Cardinality(calls) + 1
    BY <1>5, <1>6, FS_AddElement
  <2>2. Cardinality(Open(calls \cup {call}, fetchID))
          = Cardinality(Open(calls, fetchID)) + 1
    BY <1>4, <1>5, <1>6, OpenAdd
  <2>3. Cardinality(Open(calls', fetchID')) = pending'
    BY <1>1, <1>2, <1>5, <2>2
    DEF Inv, CountersOk, PendingIsExact, Open
  <2>4. \A c \in calls' : c.id <= fetchID'
    BY <1>2, <1>3, <1>4, <1>5 DEF Inv, CountersOk
  <2> QED
    BY <1>1, <2>1, <2>3, <2>4
    DEF Inv, CountersOk, PendingIsExact, LoadingIsExact, Open
<1>9. CacheOk'
  <2>1. \A a \in Arrays : a # s
    BY <1>2, CalendarAssumption DEF Arrays
  <2> QED
    BY <1>1, <1>2, <1>4, <1>5, <2>1, CalendarAssumption
    DEF Inv, CacheOk, view, Sources, Arrays
<1>10. ReportOk'
  BY <1>1, <1>3 DEF ReportOk
<1> QED
  BY <1>7, <1>8, <1>9, <1>10 DEF Inv

\* The callback of a source reports what the cache became, or nothing.
LEMMA AnsweredInv ==
  ASSUME Inv, NEW left \in Nat, NEW content \in Content,
         Answered(left, content), UNCHANGED visible
  PROVE  /\ pending' = left /\ cache' = content
         /\ live' \in BOOLEAN /\ missed' \in BOOLEAN
         /\ rendered' \in Content /\ events' \in Content
         /\ ReportOk'
<1>1. pending' = left /\ cache' = content
  BY DEF Answered
<1>2. CASE left = 0
  <2>1. Report(cache')
    BY <1>1, <1>2 DEF Answered
  <2> QED
    BY <1>1, <2>1, ReportInv DEF ReportOk
<1>3. CASE left # 0
  BY <1>1, <1>3 DEF Answered, reported, Inv, TypeOK, ReportOk
<1> QED
  BY <1>2, <1>3

LEMMA AddArrayInv ==
  ASSUME Inv, NEW s \in ArraySources, AddEventSource(s)
  PROVE  Inv'
<1> DEFINE content == [cache EXCEPT !.n[s] = @ + 1]
<1>1. s \notin AjaxSources /\ s \in Origins /\ s \in Arrays /\ s # "sticky"
      /\ s \in Sources
  BY CalendarAssumption DEF Origins, Arrays, Sources
<1>2. /\ shown # {} /\ s \notin sources /\ sources' = sources \cup {s}
      /\ changes' = changes + 1 /\ changes < MaxChanges
      /\ Answered(pending, content)
      /\ stock' = [stock EXCEPT ![s] = 1]
      /\ UNCHANGED <<view, fetchID, without, calls, loading>>
  BY <1>1 DEF AddEventSource, Change
<1>3. stock \in [Arrays -> Nat] /\ cache \in Content /\ pending \in Nat
  BY <1>1 DEF Inv, TypeOK
<1>4. cache.n[s] = 0 /\ content = Edited(cache, s, 1)
  BY <1>1, <1>2, <1>3 DEF Inv, CacheOk, Content, Edited
<1> HIDE DEF content
<1>5. /\ content \in Content /\ content.days = cache.days
      /\ content.n[s] = 1
      /\ \A p \in Origins \ {s} : content.n[p] = cache.n[p]
  <2>1. s \in Origins /\ cache \in Content /\ 1 \in Nat
    BY <1>1, <1>3
  <2>2. /\ Edited(cache, s, 1) \in Content /\ Edited(cache, s, 1).days = cache.days
        /\ Edited(cache, s, 1).n[s] = 1
        /\ \A p \in Origins \ {s} : Edited(cache, s, 1).n[p] = cache.n[p]
    BY <2>1, ContentEdit
  <2> QED
    BY <1>4, <2>2
<1>6. /\ pending' = pending /\ cache' = content
      /\ live' \in BOOLEAN /\ missed' \in BOOLEAN
      /\ rendered' \in Content /\ events' \in Content
      /\ ReportOk'
  BY <1>2, <1>3, <1>5, AnsweredInv DEF view
<1>7. TypeOK'
  <2>1. changes' \in 0..MaxChanges
    BY <1>2, CalendarAssumption DEF Inv, TypeOK
  <2>2. sources' \subseteq Sources
    BY <1>1, <1>2 DEF Inv, TypeOK
  <2>3. stock' \in [Arrays -> Nat]
    BY <1>2, <1>3
  <2> QED
    BY <1>2, <1>5, <1>6, <2>1, <2>2, <2>3, TypeKept DEF Inv, TypeOK, view
<1>8. CountersOk'
  BY <1>2, <1>6, CountersKept
<1>9. CacheOk'
  <2>1. \A p \in Origins \ {s} : cache'.n[p] = cache.n[p]
    BY <1>5, <1>6
  <2>6. stock'[s] = 1 /\ \A a \in Arrays \ {s} : stock'[a] = stock[a]
    BY <1>1, <1>2, <1>3
  <2>2. cache'.n[s] = 1 /\ cache'.days = cache.days
    BY <1>5, <1>6
  <2>3. \A a \in sources' \cap AjaxSources : a \in sources /\ a # s /\ a \in Origins
    BY <1>1, <1>2 DEF Origins
  <2>4. \A a \in (sources' \cap Arrays) \cup {"sticky"} :
          cache'.n[a] = stock'[a]
    BY <1>1, <1>2, <2>1, <2>2, <2>6 DEF Inv, CacheOk, Origins, Arrays
  <2>5. \A a \in ArraySources \ sources' : cache'.n[a] = 0
    BY <1>1, <1>2, <2>1 DEF Inv, CacheOk, Origins, Arrays
  <2> QED
    BY <1>2, <2>1, <2>2, <2>3, <2>4, <2>5 DEF Inv, CacheOk, view
<1> QED
  BY <1>6, <1>7, <1>8, <1>9 DEF Inv

LEMMA RemoveEventSourceInv ==
  ASSUME Inv, NEW s \in Sources, RemoveEventSource(s)
  PROVE  Inv'
<1>1. s \in Origins
  BY DEF Origins, Arrays, Sources
<1>2. /\ shown # {} /\ sources' = sources \ {s}
      /\ changes' = changes + 1 /\ changes < MaxChanges
      /\ cache' = Edited(cache, s, 0)
      /\ Report(cache')
      /\ UNCHANGED <<view, fetchID, pending, stock, calls, loading, without>>
  BY DEF RemoveEventSource, Change, Edited
<1>3. /\ cache' \in Content /\ cache'.days = cache.days
      /\ cache'.n[s] = 0
      /\ \A p \in Origins \ {s} : cache'.n[p] = cache.n[p]
  <2>1. cache \in Content /\ 0 \in Nat /\ 1 \in Nat
    BY DEF Inv, TypeOK
  <2> QED
    BY <1>1, <1>2, <2>1, ContentEdit
<1>4. /\ live' = TRUE /\ missed' \in BOOLEAN
      /\ rendered' \in Content /\ events' \in Content
      /\ ~missed' => rendered' = cache'
  BY <1>2, <1>3, ReportInv DEF view
<1>5. TypeOK'
  <2>1. changes' \in 0..MaxChanges
    BY <1>2, CalendarAssumption DEF Inv, TypeOK
  <2>2. sources' \subseteq Sources
    BY <1>2 DEF Inv, TypeOK
  <2> QED
    BY <1>2, <1>3, <1>4, <2>1, <2>2, TypeKept DEF Inv, TypeOK, view
<1>6. CountersOk'
  BY <1>2, CountersKept
<1>7. CacheOk'
  <2>1. "sticky" # s /\ "sticky" \in Origins
    BY CalendarAssumption DEF Origins, Arrays
  <2>2. \A a \in sources' : a \in sources /\ a # s /\ a \in Origins
    BY <1>2 DEF Inv, TypeOK, Origins, Arrays, Sources
  <2>3. \A a \in ArraySources \ sources' : cache'.n[a] = 0
    BY <1>2, <1>3 DEF Inv, CacheOk, Origins, Arrays
  <2> QED
    BY <1>2, <1>3, <2>1, <2>2, <2>3 DEF Inv, CacheOk, view
<1>8. ReportOk'
  BY <1>4 DEF ReportOk
<1> QED
  BY <1>5, <1>6, <1>7, <1>8 DEF Inv

LEMMA RenderEventInv ==
  ASSUME Inv, RenderEvent
  PROVE  Inv'
<1>1. "sticky" \in Origins /\ "sticky" \in Arrays /\ 1 \in Nat
      /\ "sticky" \notin AjaxSources /\ "sticky" \notin ArraySources
  BY CalendarAssumption DEF Origins, Arrays, Sources
<1>2. /\ shown # {} /\ changes' = changes + 1 /\ changes < MaxChanges
      /\ stock' = [stock EXCEPT !["sticky"] = 1]
      /\ cache' = Edited(cache, "sticky", 1)
      /\ Report(cache')
      /\ UNCHANGED <<view, sources, fetchID, pending, calls, loading, without>>
  BY DEF RenderEvent, Change, Edited
<1>3. /\ cache' \in Content /\ cache'.days = cache.days
      /\ cache'.n["sticky"] = 1
      /\ \A p \in Origins \ {"sticky"} : cache'.n[p] = cache.n[p]
  <2>1. cache \in Content /\ 0 \in Nat /\ 1 \in Nat
    BY DEF Inv, TypeOK
  <2> QED
    BY <1>1, <1>2, <2>1, ContentEdit
<1>4. /\ live' = TRUE /\ missed' \in BOOLEAN
      /\ rendered' \in Content /\ events' \in Content
      /\ ~missed' => rendered' = cache'
  BY <1>2, <1>3, ReportInv DEF view
<1>5. TypeOK'
  <2>1. changes' \in 0..MaxChanges
    BY <1>2, CalendarAssumption DEF Inv, TypeOK
  <2>2. stock' \in [Arrays -> Nat]
    BY <1>1, <1>2 DEF Inv, TypeOK
  <2> QED
    BY <1>2, <1>3, <1>4, <2>1, <2>2, TypeKept DEF Inv, TypeOK, view
<1>6. CountersOk'
  BY <1>2, CountersKept
<1>7. CacheOk'
  <2>1. /\ stock'["sticky"] = 1
        /\ \A a \in Arrays \ {"sticky"} : stock'[a] = stock[a]
    BY <1>1, <1>2 DEF Inv, TypeOK
  <2>2. \A a \in AjaxSources \cup ArraySources : cache'.n[a] = cache.n[a]
    BY <1>1, <1>3 DEF Origins, Arrays
  <2>3. \A a \in (sources \cap Arrays) \cup {"sticky"} :
          cache'.n[a] = stock'[a]
    BY <1>2, <1>3, <2>1, <2>2 DEF Inv, CacheOk, Arrays
  <2> QED
    BY <1>2, <1>3, <2>2, <2>3 DEF Inv, CacheOk, view
<1>8. ReportOk'
  BY <1>4 DEF ReportOk
<1> QED
  BY <1>5, <1>6, <1>7, <1>8 DEF Inv

LEMMA RemoveEventsInv ==
  ASSUME Inv, RemoveEvents
  PROVE  Inv'
<1>1. /\ shown # {} /\ changes' = changes + 1 /\ changes < MaxChanges
      /\ stock' = [a \in Arrays |->
                     IF a \in sources \cup {"sticky"} THEN 0 ELSE stock[a]]
      /\ cache' = [cache EXCEPT !.n = [o \in Origins |-> 0]]
      /\ Report(cache')
      /\ without' = AjaxSources
      /\ UNCHANGED <<view, sources, fetchID, pending, calls, loading>>
  BY DEF RemoveEvents, Change
<1>2. /\ cache' \in Content /\ cache'.days = cache.days
      /\ \A o \in Origins : cache'.n[o] = 0
  BY <1>1 DEF Inv, TypeOK, Content
<1>3. /\ live' = TRUE /\ missed' \in BOOLEAN
      /\ rendered' \in Content /\ events' \in Content
      /\ ~missed' => rendered' = cache'
  BY <1>1, <1>2, ReportInv DEF view
<1>4. TypeOK'
  <2>1. changes' \in 0..MaxChanges
    BY <1>1, CalendarAssumption DEF Inv, TypeOK
  <2>2. stock' \in [Arrays -> Nat]
    BY <1>1 DEF Inv, TypeOK
  <2> QED
    BY <1>1, <1>2, <1>3, <2>1, <2>2, TypeKept DEF Inv, TypeOK, view
<1>5. CountersOk'
  BY <1>1, CountersKept
<1>6. CacheOk'
  BY <1>1, <1>2 DEF Inv, CacheOk, view, Origins, Arrays
<1>7. ReportOk'
  BY <1>3 DEF ReportOk
<1> QED
  BY <1>4, <1>5, <1>6, <1>7 DEF Inv

LEMMA UpdateEventInv ==
  ASSUME Inv, UpdateEvent
  PROVE  Inv'
<1>1. Report(cache') /\ UNCHANGED <<view, manager, changes>>
  BY DEF UpdateEvent, manager
<1>2. cache' \in Content
  BY <1>1 DEF Inv, TypeOK, manager
<1>3. /\ live' = TRUE /\ missed' \in BOOLEAN
      /\ rendered' \in Content /\ events' \in Content
      /\ ~missed' => rendered' = cache'
  BY <1>1, <1>2, ReportInv DEF view
<1>4. TypeOK'
  BY <1>1, <1>2, <1>3, TypeKept DEF Inv, TypeOK, view, manager
<1>5. CountersOk'
  BY <1>1, CountersKept DEF manager
<1>6. CacheOk'
  BY <1>1 DEF Inv, CacheOk, view, manager
<1>7. ReportOk'
  BY <1>3 DEF ReportOk
<1> QED
  BY <1>4, <1>5, <1>6, <1>7 DEF Inv

LEMMA HideOrShowInv ==
  ASSUME Inv, HideOrShow
  PROVE  Inv'
<1>1. visible' \in BOOLEAN /\ UNCHANGED <<shown, reported, manager, changes>>
  BY DEF HideOrShow
<1>2. TypeOK'
  BY <1>1, TypeKept DEF Inv, TypeOK, reported, manager
<1>3. CountersOk'
  BY <1>1, CountersKept DEF manager
<1>4. CacheOk' /\ ReportOk'
  BY <1>1 DEF Inv, CacheOk, ReportOk, reported, manager
<1> QED
  BY <1>2, <1>3, <1>4 DEF Inv

\* An answer, to the latest fetch or to an earlier one.
LEMMA AnswerInv ==
  ASSUME Inv, NEW call \in calls, NEW ok \in BOOLEAN, Answer(call, ok)
  PROVE  Inv'
<1> DEFINE content == IF ok THEN [cache EXCEPT !.n[call.src] = @ + 1] ELSE cache
<1>1. /\ call.src \in AjaxSources /\ call.src \in Origins
      /\ call.src \notin Arrays
  BY CallIds, CalendarAssumption DEF Origins, Arrays, Sources
<1>2. /\ calls' = calls \ {call} /\ loading' = loading - 1
      /\ UNCHANGED <<view, sources, fetchID, stock, changes>>
  BY DEF Answer
<1>3. /\ IsFiniteSet(calls) /\ IsFiniteSet(calls')
      /\ Cardinality(calls) \in Nat /\ Cardinality(calls) > 0
      /\ Cardinality(calls') = Cardinality(calls) - 1
  <2>1. IsFiniteSet(calls)
    BY DEF Inv, CountersOk
  <2>2. Cardinality(calls) # 0 /\ Cardinality(calls) \in Nat
    BY <2>1, FS_EmptySet, FS_CardinalityType
  <2>3. /\ IsFiniteSet(calls \ {call})
        /\ Cardinality(calls \ {call}) = Cardinality(calls) - 1
    BY <2>1, FS_RemoveElement
  <2> QED
    BY <1>2, <2>1, <2>2, <2>3
<1>4. pending = Cardinality(Open(calls, fetchID)) /\ pending \in Nat
      /\ loading = Cardinality(calls)
  BY DEF Inv, CountersOk, PendingIsExact, LoadingIsExact, Open, TypeOK
<1>5. /\ IsFiniteSet(calls')
      /\ \A c \in calls' : c.id <= fetchID'
      /\ LoadingIsExact'
      /\ calls' \subseteq Call /\ loading' \in Nat
  BY <1>2, <1>3, <1>4 DEF Inv, CountersOk, TypeOK, LoadingIsExact
<1>6. CASE call.id = fetchID
  <2>1. /\ Answered(pending - 1, content)
        /\ without' = IF ok THEN without \ {call.src}
                            ELSE without \cup {call.src}
    BY <1>6 DEF Answer
  <2>2. /\ content \in Content /\ content.days = cache.days
        /\ \A o \in Origins \ {call.src} : content.n[o] = cache.n[o]
        /\ ok => content.n[call.src] > 0
    <3>1. cache \in Content /\ cache.n[call.src] + 1 \in Nat
          /\ cache.n[call.src] + 1 > 0
      BY <1>1 DEF Inv, TypeOK, Content
    <3>2. CASE ok
      <4>1. content = Edited(cache, call.src, cache.n[call.src] + 1)
        BY <3>2 DEF Edited
      <4> HIDE DEF content
      <4> QED
        BY <1>1, <3>1, <4>1, ContentEdit
    <3>3. CASE ~ok
      BY <3>1, <3>3
    <3> QED
      BY <3>2, <3>3
  <2> HIDE DEF content
  <2>3. pending > 0 /\ pending - 1 \in Nat
        /\ Cardinality(Open(calls \ {call}, fetchID)) = pending - 1
    BY <1>3, <1>4, <1>6, OpenRemove
  <2>4. /\ pending' = pending - 1 /\ cache' = content
        /\ live' \in BOOLEAN /\ missed' \in BOOLEAN
        /\ rendered' \in Content /\ events' \in Content
        /\ ReportOk'
    BY <1>2, <2>1, <2>2, <2>3, AnsweredInv DEF view
  <2>5. TypeOK'
    <3>1. without' \subseteq AjaxSources
      BY <1>1, <2>1 DEF Inv, TypeOK
    <3> QED
      BY <1>2, <1>5, <2>2, <2>3, <2>4, <3>1, TypeKept DEF Inv, TypeOK, view
  <2>6. PendingIsExact'
    BY <1>2, <2>3, <2>4 DEF PendingIsExact, Open
  <2>7. CacheOk'
    <3>1. shown # {} => \A s \in sources \cap AjaxSources :
            \/ s \in without' \/ content.n[s] > 0
            \/ \E c \in calls' : c.src = s /\ c.id = fetchID
      <4>1. SUFFICES ASSUME NEW s \in sources \cap AjaxSources, shown # {}
                     PROVE  \/ s \in without' \/ content.n[s] > 0
                            \/ \E c \in calls' : c.src = s /\ c.id = fetchID
        OBVIOUS
      <4>2. CASE s = call.src
        BY <2>1, <2>2, <4>2
      <4>3. CASE s # call.src
        BY <1>2, <2>1, <2>2, <4>1, <4>3 DEF Inv, CacheOk, Origins
      <4> QED
        BY <4>2, <4>3
    <3>2. \A a \in Arrays : content.n[a] = cache.n[a]
      BY <1>1, <2>2 DEF Origins
    <3> QED
      BY <1>2, <2>2, <2>4, <3>1, <3>2 DEF Inv, CacheOk, view, Arrays
  <2> QED
    BY <1>5, <2>4, <2>5, <2>6, <2>7 DEF Inv, CountersOk
<1>7. CASE call.id # fetchID
  <2>1. UNCHANGED <<reported, cache, pending, without>>
    BY <1>7 DEF Answer
  <2>2. TypeOK'
    BY <1>2, <1>5, <2>1, TypeKept DEF Inv, TypeOK, view, reported
  <2>3. PendingIsExact'
    <3>1. Open(calls \ {call}, fetchID) = Open(calls, fetchID)
      BY <1>3, <1>7, OpenRemove, Zenon
    <3>2. Cardinality(Open(calls \ {call}, fetchID)) = pending
      BY <1>4, <3>1, Zenon
    <3> QED
      BY <1>2, <2>1, <3>2 DEF PendingIsExact, Open
  <2>4. CacheOk' /\ ReportOk'
    BY <1>2, <1>7, <2>1 DEF Inv, CacheOk, ReportOk, view, reported
  <2> QED
    BY <1>5, <2>2, <2>3, <2>4 DEF Inv, CountersOk
<1> QED
  BY <1>6, <1>7
-----------------------------------------------------------------------------
LEMMA NextInv == Inv /\ [Next]_vars => Inv'
<1> SUFFICES ASSUME Inv, [Next]_vars PROVE Inv'
  OBVIOUS
<1>1. ASSUME NEW v \in Views, GoFetch(v) PROVE Inv'
  BY <1>1, FetchInv DEF GoFetch
<1>2. ASSUME NEW v \in Views, GoLazily(v) PROVE Inv'
  BY <1>2, GoLazilyInv
<1>3. ASSUME NEW s \in Sources, AddEventSource(s) PROVE Inv'
  BY <1>3, AddAjaxInv, AddArrayInv DEF Sources
<1>4. ASSUME NEW s \in Sources, RemoveEventSource(s) PROVE Inv'
  BY <1>4, RemoveEventSourceInv
<1>5. CASE RefetchEvents
  <2>1. /\ shown \in Views /\ shown' = shown /\ FetchEvents(shown)
        /\ UNCHANGED <<visible, changes>>
    BY <1>5 DEF RefetchEvents, view, Inv, TypeOK
  <2> QED
    BY <2>1, FetchInv
<1>6. CASE RenderEvent
  BY <1>6, RenderEventInv
<1>7. CASE RemoveEvents
  BY <1>7, RemoveEventsInv
<1>8. CASE UpdateEvent
  BY <1>8, UpdateEventInv
<1>9. CASE HideOrShow
  BY <1>9, HideOrShowInv
<1>10. CASE Network
  BY <1>10, AnswerInv DEF Network
<1>11. CASE UNCHANGED vars
  <2>1. UNCHANGED <<view, reported, manager, changes>>
    BY <1>11 DEF vars
  <2> QED
    BY <2>1
    DEF view, reported, manager, Inv, TypeOK, CountersOk, PendingIsExact,
        LoadingIsExact, CacheOk, ReportOk
<1> QED
  BY <1>1, <1>2, <1>3, <1>4, <1>5, <1>6, <1>7, <1>8, <1>9, <1>10, <1>11
  DEF Next

LEMMA Invariance == Spec => []Inv
BY InitInv, NextInv, PTL DEF Spec

\* With nothing pending no call of the latest fetch is open.
LEMMA InvNothingIsMissing == Inv => NothingIsMissing
<1> SUFFICES ASSUME Inv, shown # {}, pending = 0 PROVE NothingIsMissing
  BY DEF NothingIsMissing
<1>1. Cardinality(Open(calls, fetchID)) = 0 /\ IsFiniteSet(calls)
  BY DEF Inv, CountersOk, PendingIsExact, Open
<1>2. Open(calls, fetchID) = {}
  BY <1>1, OpenFinite, FS_EmptySet
<1> QED
  BY <1>2 DEF Inv, CacheOk, NothingIsMissing, Open

\* The variables of a calendar keep their types.
THEOREM CalendarTypes == Spec => []TypeOK
BY Invariance, PTL DEF Inv

\* pendingSourceCnt counts the sources of the latest fetch that have not
\* answered, for any number of sources, fetches and late answers.
THEOREM PendingCounted == Spec => []PendingIsExact
BY Invariance, PTL DEF Inv, CountersOk

\* loadingLevel counts the unanswered calls of all fetches.
THEOREM LoadingCounted == Spec => []LoadingIsExact
BY Invariance, PTL DEF Inv, CountersOk

\* When the last source has answered the cache has the events of every source
\* and covers the days of the view.
THEOREM FetchesAreComplete == Spec => []NothingIsMissing
BY Invariance, InvNothingIsMissing, PTL

\* When the last source has answered a visible calendar shows the cache.
THEOREM ShowsTheCache == Spec => []CacheIsShown
<1>1. Inv => CacheIsShown
  BY DEF Inv, ReportOk, CacheIsShown
<1> QED
  BY <1>1, Invariance, PTL
=============================================================================
