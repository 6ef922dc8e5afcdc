------------------------- MODULE AutocompleteProofs -------------------------
(***************************************************************************)
(* What holds of Autocomplete for every set of fields, values and keys and *)
(* any number of requests.                                                 *)
(***************************************************************************)
EXTENDS Autocomplete, TLAPS

\* The keys that may be on their way.
Due == {"none", "char", "cut", "erase"}

\* An answer is kept under the key it answers.
CacheHolds == \A k \in Keys : cache[k].hit => cache[k].list = Answer[k]

\* The inductive invariant.
Inv ==
  /\ TypeOK
  /\ OnlyFocusedSearches
  /\ CacheHolds
  /\ ShownIsWanted
  /\ ThrobberMeansWork

LEMMA KeyTypes ==
  /\ DOMAIN Answer = Keys /\ \A k \in Keys : Answer[k] \subseteq Values
  /\ \A v \in Values : Key[v] \in Keys \/ Key[v] = NoKey
  /\ NoKey \notin Keys
BY AutocompleteAssumption DEF Keys

(***************************************************************************)
(* What the methods make of a field.                                       *)
(***************************************************************************)
LEMMA SelectionTypes ==
  /\ None \in Selection /\ Gone \in Selection
  /\ \A s \in Selection : Chosen(s) \in Values
BY AutocompleteAssumption DEF None, Gone, Selection, Chosen

LEMMA HiddenType ==
  ASSUME NEW u \in Ui, NEW takes \in BOOLEAN
  PROVE  /\ Hidden(u, takes) \in Ui
         /\ Hidden(u, takes).open = FALSE /\ Hidden(u, takes).list = {}
         /\ Hidden(u, takes).throbbing = u.throbbing
BY SelectionTypes DEF Hidden, Ui

LEMMA PopulatedType ==
  ASSUME NEW u \in Ui
  PROVE  /\ Populated(u) \in Ui
         /\ Populated(u).open = TRUE /\ Populated(u).list = {}
         /\ Populated(u).throbbing = u.throbbing
         /\ Populated(u).value = u.value
BY SelectionTypes DEF Populated, Ui

LEMMA ThrobsOff ==
  ASSUME NEW w \in [Fields -> Ui], NEW f \in Fields
  PROVE  /\ Throbs(w, f, FALSE) \in [Fields -> Ui]
         /\ ~Throbs(w, f, FALSE)[f].throbbing
         /\ Throbs(w, f, FALSE)[f].open = w[f].open
         /\ Throbs(w, f, FALSE)[f].list = w[f].list
         /\ \A g \in Fields \ {f} : Throbs(w, f, FALSE)[g] = w[g]
BY DEF Throbs, Ui

LEMMA ThrobsOn ==
  ASSUME NEW w \in [Fields -> Ui], NEW f \in Fields
  PROVE  /\ Throbs(w, f, TRUE) \in [Fields -> Ui]
         /\ Throbs(w, f, TRUE)[f].open = w[f].open
         /\ Throbs(w, f, TRUE)[f].list = w[f].list
         /\ \A g \in Fields \ {f} : Throbs(w, f, TRUE)[g] = w[g]
BY DEF Throbs, Ui

\* An answer is shown in an open popup, closes it, or changes nothing.
LEMMA FoundType ==
  ASSUME NEW u \in Ui, NEW list \in SUBSET Values
  PROVE  /\ Found(u, list) \in Ui
         /\ Found(u, list).throbbing = u.throbbing
         /\ \/ Found(u, list) = u /\ (u.value = Empty \/ ~u.open)
            \/ ~Found(u, list).open /\ Found(u, list).list = {}
            \/ /\ u.open /\ Found(u, list).open
               /\ Found(u, list).list = list
<1>1. CASE u.value = Empty \/ ~u.open
  BY <1>1 DEF Found
<1>2. CASE ~(u.value = Empty \/ ~u.open) /\ list = {}
  BY <1>2, HiddenType DEF Found
<1>3. CASE ~(u.value = Empty \/ ~u.open) /\ list # {}
  BY <1>3, SelectionTypes DEF Found, Ui
<1> QED
  BY <1>1, <1>2, <1>3

(***************************************************************************)
(* The steps of LatestAnswer, as what they do to every field.              *)
(***************************************************************************)
LatestStep == [Latest!Next]_<<[f \in Fields |-> Question(f)],
                              [f \in Fields |-> ui[f].list]>>

LEMMA Stutters ==
  ASSUME \A f \in Fields : Question(f)' = Question(f) /\ ui'[f].list = ui[f].list
  PROVE  LatestStep
BY DEF LatestStep

LEMMA Withdraws ==
  ASSUME NEW p \in Fields,
         Question(p)' = NoKey, ui'[p].list = {},
         \A f \in Fields \ {p} :
           Question(f)' = Question(f) /\ ui'[f].list = ui[f].list
  PROVE  LatestStep
<1>1. Latest!Withdraw(p)
  BY DEF Latest!Withdraw
<1> QED
  BY <1>1 DEF LatestStep, Latest!Next

LEMMA Asks ==
  ASSUME NEW p \in Fields, NEW k \in Keys,
         Question(p)' = k, ui'[p].list \in {{}, Answer[k]},
         \A f \in Fields \ {p} :
           Question(f)' = Question(f) /\ ui'[f].list = ui[f].list
  PROVE  LatestStep
<1>1. [f \in Fields |-> Question(f)]'
        = [[f \in Fields |-> Question(f)] EXCEPT ![p] = k]
  OBVIOUS
<1>2. [f \in Fields |-> ui[f].list]'
        = [[f \in Fields |-> ui[f].list] EXCEPT ![p] = ui'[p].list]
  OBVIOUS
<1>3. Latest!Ask(p, k)
  BY <1>1, <1>2 DEF Latest!Ask
<1>4. k \in DOMAIN Answer
  BY KeyTypes
<1> QED
  BY <1>3, <1>4 DEF LatestStep, Latest!Next

LEMMA Shows ==
  ASSUME NEW p \in Fields,
         Question(p) # NoKey, ui'[p].list = Answer[Question(p)],
         Question(p)' = Question(p),
         \A f \in Fields \ {p} :
           Question(f)' = Question(f) /\ ui'[f].list = ui[f].list
  PROVE  LatestStep
<1>1. Latest!Show(p)
  BY DEF Latest!Show
<1> QED
  BY <1>1 DEF LatestStep, Latest!Next

(***************************************************************************)
(* Steps that change one field and leave the database alone.               *)
(***************************************************************************)
LEMMA OneField ==
  ASSUME Inv, NEW g \in Fields, NEW u \in Ui, ui' = [ui EXCEPT ![g] = u]
  PROVE  /\ ui' \in [Fields -> Ui] /\ ui'[g] = u
         /\ \A f \in Fields \ {g} : ui'[f] = ui[f]
BY DEF Inv, TypeOK

\* What a user sees of the field and what it asks for stays as it is.
LEMMA QuietStep ==
  ASSUME Inv, NEW g \in Fields, NEW u \in Ui, ui' = [ui EXCEPT ![g] = u],
         u.open = ui[g].open, u.list = ui[g].list,
         u.throbbing = ui[g].throbbing,
         due' \in Due, UNCHANGED <<focus, db>>
  PROVE  Inv' /\ LatestStep
<1>1. /\ ui' \in [Fields -> Ui]
      /\ \A f \in Fields : /\ ui'[f].open = ui[f].open
                           /\ ui'[f].list = ui[f].list
                           /\ ui'[f].throbbing = ui[f].throbbing
  BY OneField
<1>2. TypeOK'
  BY <1>1 DEF Inv, TypeOK, Due, db
<1>3. OnlyFocusedSearches' /\ CacheHolds' /\ ShownIsWanted'
      /\ ThrobberMeansWork'
  BY <1>1 DEF Inv, db, OnlyFocusedSearches, CacheHolds, ShownIsWanted,
              ThrobberMeansWork
<1>4. LatestStep
  BY <1>1, Stutters DEF Question, db
<1> QED
  BY <1>2, <1>3, <1>4 DEF Inv

\* The popup of the field goes.
LEMMA ClosingStep ==
  ASSUME Inv, NEW g \in Fields, NEW u \in Ui, ui' = [ui EXCEPT ![g] = u],
         u.open = FALSE, u.list = {}, u.throbbing = ui[g].throbbing,
         due' \in Due, UNCHANGED <<focus, db>>
  PROVE  Inv' /\ LatestStep
<1>1. /\ ui' \in [Fields -> Ui] /\ ui'[g] = u
      /\ \A f \in Fields \ {g} : ui'[f] = ui[f]
  BY OneField
<1>2. TypeOK'
  BY <1>1 DEF Inv, TypeOK, Due, db
<1>3. OnlyFocusedSearches' /\ CacheHolds' /\ ShownIsWanted'
      /\ ThrobberMeansWork'
  BY <1>1 DEF Inv, db, OnlyFocusedSearches, CacheHolds, ShownIsWanted,
              ThrobberMeansWork
<1>4. LatestStep
  <2>1. Question(g)' = NoKey
    BY <1>1 DEF Question
  <2>2. \A f \in Fields \ {g} : Question(f)' = Question(f)
    BY <1>1 DEF Question, db
  <2> QED
    BY <1>1, <2>1, <2>2, Withdraws
<1> QED
  BY <1>2, <1>3, <1>4 DEF Inv

\* The field with the focus is one of the fields.
LEMMA FieldType ==
  ASSUME Inv
  PROVE  /\ focus # NoField => focus \in Fields
         /\ owner # NoField => owner \in Fields
         /\ \A f \in Fields : ui[f] \in Ui
BY DEF Inv, TypeOK

LEMMA TypeStep ==
  ASSUME Inv, NEW v \in Values, Type(v)
  PROVE  Inv' /\ LatestStep
<1> DEFINE u == [ui[focus] EXCEPT !.value = v]
<1>1. focus \in Fields /\ ui[focus] \in Ui
  BY FieldType DEF Type
<1>2. /\ u \in Ui /\ u.open = ui[focus].open /\ u.list = ui[focus].list
      /\ u.throbbing = ui[focus].throbbing
  BY <1>1 DEF Ui
<1>3. ui' = [ui EXCEPT ![focus] = u] /\ due' \in Due
      /\ UNCHANGED <<focus, db>>
  BY DEF Type, Due
<1> HIDE DEF u
<1> QED
  BY <1>1, <1>2, <1>3, QuietStep

LEMMA HighlightStep ==
  ASSUME Inv, NEW f \in Fields, NEW item \in Values, Highlight(f, item)
  PROVE  Inv' /\ LatestStep
<1>1. PICK on \in {"popup", "fading"} :
        ui' = [ui EXCEPT ![f].selected = [on |-> on, item |-> item]]
  BY DEF Highlight
<1> DEFINE u == [ui[f] EXCEPT !.selected = [on |-> on, item |-> item]]
<1>2. /\ u \in Ui /\ u.open = ui[f].open /\ u.list = ui[f].list
      /\ u.throbbing = ui[f].throbbing
  BY FieldType DEF Ui, Selection
<1>3. ui' = [ui EXCEPT ![f] = u] /\ due' \in Due /\ UNCHANGED <<focus, db>>
  BY <1>1 DEF Highlight, Due, Inv, TypeOK
<1> HIDE DEF u
<1> QED
  BY <1>2, <1>3, QuietStep

LEMMA UnhighlightStep ==
  ASSUME Inv, NEW f \in Fields, Unhighlight(f)
  PROVE  Inv' /\ LatestStep
<1> DEFINE u == [ui[f] EXCEPT !.selected = None]
<1>1. /\ u \in Ui /\ u.open = ui[f].open /\ u.list = ui[f].list
      /\ u.throbbing = ui[f].throbbing
  BY FieldType, SelectionTypes DEF Ui
<1>2. ui' = [ui EXCEPT ![f] = u] /\ due' \in Due /\ UNCHANGED <<focus, db>>
  BY DEF Unhighlight, Due, Inv, TypeOK
<1> HIDE DEF u
<1> QED
  BY <1>1, <1>2, QuietStep

LEMMA FadeDoneStep ==
  ASSUME Inv, NEW f \in Fields, FadeDone(f)
  PROVE  Inv' /\ LatestStep
<1> DEFINE u == [ui[f] EXCEPT !.fading = {},
                   !.selected = IF @.on = "fading" THEN Gone ELSE @]
<1>1. /\ u \in Ui /\ u.open = ui[f].open /\ u.list = ui[f].list
      /\ u.throbbing = ui[f].throbbing
  BY FieldType, SelectionTypes DEF Ui
<1>2. ui' = [ui EXCEPT ![f] = u] /\ due' \in Due /\ UNCHANGED <<focus, db>>
  BY DEF FadeDone, Due, Inv, TypeOK
<1> HIDE DEF u
<1> QED
  BY <1>1, <1>2, QuietStep

\* hidePopup(), alone.
LEMMA HidingStep ==
  ASSUME Inv, NEW f \in Fields, NEW takes \in BOOLEAN,
         ui' = [ui EXCEPT ![f] = Hidden(ui[f], takes)],
         due' \in Due, UNCHANGED <<focus, db>>
  PROVE  Inv' /\ LatestStep
BY FieldType, HiddenType, ClosingStep

LEMMA HidingSteps ==
  ASSUME Inv,
         \/ \E takes \in BOOLEAN : Dismiss(takes)
         \/ ReleaseOnEmpty
         \/ \E f \in Fields : SubmitStopped(f)
  PROVE  Inv' /\ LatestStep
<1>1. ASSUME NEW takes \in BOOLEAN, Dismiss(takes) PROVE Inv' /\ LatestStep
  BY <1>1, FieldType, HidingStep DEF Dismiss, Inv, TypeOK, Due
<1>2. CASE ReleaseOnEmpty
  BY <1>2, FieldType, HidingStep DEF ReleaseOnEmpty, Due
<1>3. ASSUME NEW f \in Fields, SubmitStopped(f) PROVE Inv' /\ LatestStep
  BY <1>3, HidingStep DEF SubmitStopped, Inv, TypeOK, Due
<1> QED
  BY <1>1, <1>2, <1>3

(***************************************************************************)
(* Steps that change the focus or the database.                            *)
(***************************************************************************)
\* Nothing is open and nothing waits in a page without focus.
LEMMA FocusStep ==
  ASSUME Inv, NEW f \in Fields, Focus(f)
  PROVE  Inv' /\ LatestStep
<1>1. TypeOK'
  BY DEF Focus, db, Inv, TypeOK
<1>2. OnlyFocusedSearches' /\ CacheHolds' /\ ShownIsWanted'
      /\ ThrobberMeansWork'
  BY AutocompleteAssumption
  DEF Focus, Inv, db, OnlyFocusedSearches, CacheHolds, ShownIsWanted,
      ThrobberMeansWork
<1>3. LatestStep
  BY Stutters DEF Focus, Question, db
<1> QED
  BY <1>1, <1>2, <1>3 DEF Inv

LEMMA KeyStep ==
  ASSUME Inv, Press \/ ReleaseElsewhere
  PROVE  Inv' /\ LatestStep
<1>1. due' \in Due /\ UNCHANGED <<ui, focus, db>>
  BY DEF Press, ReleaseElsewhere, Due
<1>2. TypeOK'
  BY <1>1 DEF db, Due, Inv, TypeOK
<1>3. OnlyFocusedSearches' /\ CacheHolds' /\ ShownIsWanted'
      /\ ThrobberMeansWork'
  BY <1>1 DEF Inv, db, OnlyFocusedSearches, CacheHolds, ShownIsWanted,
              ThrobberMeansWork
<1>4. LatestStep
  BY <1>1, Stutters DEF Question, db
<1> QED
  BY <1>2, <1>3, <1>4 DEF Inv

\* The field that loses the focus is the only one with something to lose.
LEMMA BlurStep ==
  ASSUME Inv, Blur
  PROVE  Inv' /\ LatestStep
<1> DEFINE h == Hidden(ui[focus], TRUE)
           hidden == [ui EXCEPT ![focus] = h]
<1>1. /\ focus \in Fields /\ h \in Ui /\ h.open = FALSE /\ h.list = {}
      /\ h.throbbing = ui[focus].throbbing
  BY FieldType, HiddenType DEF Blur
<1> HIDE DEF h
<1>2. /\ hidden \in [Fields -> Ui] /\ hidden[focus] = h
      /\ \A f \in Fields \ {focus} : hidden[f] = ui[f]
  BY <1>1 DEF Inv, TypeOK
<1>3. /\ ui' = IF owner = NoField THEN hidden ELSE Throbs(hidden, owner, FALSE)
      /\ failed' = FALSE /\ timer' = NoKey /\ searchString' = Empty
      /\ focus' = NoField /\ UNCHANGED <<due, owner, cache, requests>>
  BY DEF Blur, h
<1> HIDE DEF hidden
<1>4. /\ ui' \in [Fields -> Ui]
      /\ \A f \in Fields : /\ ui'[f].open = hidden[f].open
                           /\ ui'[f].list = hidden[f].list
                           /\ owner = f => ~ui'[f].throbbing
                           /\ owner # f => ui'[f].throbbing = hidden[f].throbbing
  <2>1. CASE owner = NoField
    BY <1>2, <1>3, <2>1, AutocompleteAssumption
  <2>2. CASE owner # NoField
    <3>1. owner \in Fields
      BY <2>2, FieldType
    <3>2. /\ ui' \in [Fields -> Ui] /\ ~ui'[owner].throbbing
          /\ ui'[owner].open = hidden[owner].open
          /\ ui'[owner].list = hidden[owner].list
          /\ \A f \in Fields \ {owner} : ui'[f] = hidden[f]
      BY <1>2, <1>3, <2>2, <3>1, ThrobsOff
    <3> QED
      BY <3>1, <3>2
  <2> QED
    BY <2>1, <2>2
<1>5. \A f \in Fields : ~ui'[f].open /\ ui'[f].list = {} /\ ~ui'[f].throbbing
  <2> SUFFICES ASSUME NEW f \in Fields
               PROVE  ~ui'[f].open /\ ui'[f].list = {} /\ ~ui'[f].throbbing
    OBVIOUS
  <2>1. ui[f].open \/ ui[f].throbbing => focus = f /\ owner = f
    BY DEF Inv, OnlyFocusedSearches
  <2>2. ui[f].list # {} => ui[f].open
    BY DEF Inv, ShownIsWanted
  <2> QED
    BY <1>1, <1>2, <1>4, <2>1, <2>2
<1>6. TypeOK'
  BY <1>3, <1>4, AutocompleteAssumption DEF Inv, TypeOK
<1>7. OnlyFocusedSearches' /\ CacheHolds' /\ ShownIsWanted'
      /\ ThrobberMeansWork'
  BY <1>3, <1>5 DEF Inv, OnlyFocusedSearches, CacheHolds, ShownIsWanted,
                    ThrobberMeansWork
<1>8. LatestStep
  <2>1. \A f \in Fields \ {focus} : /\ Question(f) = NoKey /\ ui[f].list = {}
    BY DEF Inv, OnlyFocusedSearches, ShownIsWanted, Question
  <2>2. \A f \in Fields : Question(f)' = NoKey
    BY <1>5 DEF Question
  <2> QED
    BY <1>1, <1>5, <2>1, <2>2, Withdraws
<1> QED
  BY <1>6, <1>7, <1>8 DEF Inv

\* A field that was searched for has the focus, and no other was open.
LEMMA SearchFacts ==
  ASSUME Inv, NEW k \in Keys \cup {NoKey}, Search(k)
  PROVE  /\ focus \in Fields /\ ui[focus] \in Ui /\ owner' = focus
         /\ due' = "none" /\ UNCHANGED <<focus, cache, requests, failed>>
         /\ searchString' \in Values /\ Key[searchString'] = k
         /\ \A f \in Fields \ {focus} : ~ui[f].open /\ ui[f].list = {}
                                        /\ ~ui[f].throbbing
<1>1. focus \in Fields /\ ui[focus] \in Ui
  BY FieldType DEF Search
<1>2. ui[focus].value \in Values
  BY <1>1 DEF Ui
<1> QED
  BY <1>1, <1>2 DEF Search, Inv, OnlyFocusedSearches, ShownIsWanted

\* The field then shows nothing, or all there is for the key.
LEMMA SearchStep ==
  ASSUME Inv, NEW k \in Keys \cup {NoKey}, Search(k),
         NEW u \in Ui, ui' = [ui EXCEPT ![focus] = u],
         u.throbbing = ui[focus].throbbing,
         \/ u.list = {}
         \/ k \in Keys /\ u.open /\ u.list = Answer[k],
         timer' \in {timer, k}
  PROVE  Inv' /\ LatestStep
<1>1. /\ focus \in Fields /\ owner' = focus
      /\ due' = "none" /\ UNCHANGED <<focus, cache, requests, failed>>
      /\ searchString' \in Values /\ Key[searchString'] = k
      /\ \A f \in Fields \ {focus} : ~ui[f].open /\ ui[f].list = {}
                                     /\ ~ui[f].throbbing
  BY SearchFacts
<1>2. /\ ui' \in [Fields -> Ui] /\ ui'[focus] = u
      /\ \A f \in Fields \ {focus} : ui'[f] = ui[f]
  BY <1>1, OneField
<1>3. TypeOK'
  BY <1>1, <1>2 DEF Inv, TypeOK
<1>4. OnlyFocusedSearches'
  BY <1>1, <1>2, AutocompleteAssumption DEF Inv, OnlyFocusedSearches
<1>5. CacheHolds' /\ ShownIsWanted' /\ ThrobberMeansWork'
  BY <1>1, <1>2 DEF Inv, CacheHolds, ShownIsWanted, ThrobberMeansWork
<1>6. LatestStep
  <2>1. \A f \in Fields \ {focus} :
          Question(f)' = Question(f) /\ ui'[f].list = ui[f].list
    BY <1>1, <1>2 DEF Question
  <2>2. CASE ~u.open \/ k = NoKey
    <3>1. Question(focus)' = NoKey /\ u.list = {}
      BY <1>1, <1>2, <2>2, KeyTypes DEF Question
    <3> QED
      BY <1>1, <1>2, <2>1, <3>1, Withdraws
  <2>3. CASE u.open /\ k \in Keys
    <3>1. Question(focus)' = k /\ ui'[focus].list \in {{}, Answer[k]}
      BY <1>1, <1>2, <2>3 DEF Question
    <3> QED
      BY <1>1, <2>1, <2>3, <3>1, Asks
  <2> QED
    BY <2>2, <2>3
<1> QED
  BY <1>3, <1>4, <1>5, <1>6 DEF Inv

LEMMA SearchSteps ==
  ASSUME Inv, SearchNothing \/ \E k \in Keys : SearchCache(k) \/ SearchLater(k)
  PROVE  Inv' /\ LatestStep
<1> DEFINE p == Populated(ui[focus])
<1>1. ASSUME NEW k \in Keys \cup {NoKey}, Search(k)
      PROVE  /\ p \in Ui /\ p.open = TRUE /\ p.list = {}
             /\ p.throbbing = ui[focus].throbbing
             /\ p.value # Empty
  BY <1>1, SearchFacts, PopulatedType DEF Search
<1>2. CASE SearchNothing
  BY <1>1, <1>2, SearchStep DEF SearchNothing
<1>3. ASSUME NEW k \in Keys, SearchLater(k) PROVE Inv' /\ LatestStep
  BY <1>1, <1>3, SearchStep DEF SearchLater
<1>4. ASSUME NEW k \in Keys, SearchCache(k) PROVE Inv' /\ LatestStep
  <2> DEFINE u == Found(p, cache[k].list)
  <2>1. /\ Search(k) /\ cache[k].hit /\ timer' = timer
        /\ ui' = [ui EXCEPT ![focus] = u]
    BY <1>4 DEF SearchCache
  <2>2. cache[k].list = Answer[k] /\ cache[k].list \in SUBSET Values
    BY <2>1, KeyTypes DEF Inv, CacheHolds
  <2>3. /\ u \in Ui /\ u.throbbing = ui[focus].throbbing
        /\ u.list = {} \/ (u.open /\ u.list = Answer[k])
    BY <1>1, <2>1, <2>2, FoundType
  <2> HIDE DEF u
  <2> QED
    BY <2>1, <2>3, SearchStep
<1> QED
  BY <1>2, <1>3, <1>4

LEMMA TimerStep ==
  ASSUME Inv, TimerFires
  PROVE  Inv' /\ LatestStep
<1>1. /\ owner \in Fields /\ focus = owner /\ timer \in Keys
  BY FieldType DEF TimerFires, Inv, TypeOK, OnlyFocusedSearches
<1>2. /\ ui' \in [Fields -> Ui]
      /\ \A f \in Fields : ui'[f].open = ui[f].open /\ ui'[f].list = ui[f].list
      /\ \A f \in Fields \ {owner} : ui'[f] = ui[f]
  <2>1. ui \in [Fields -> Ui] /\ ui' = Throbs(ui, owner, TRUE)
    BY DEF TimerFires, Inv, TypeOK
  <2>2. /\ ui' \in [Fields -> Ui]
        /\ ui'[owner].open = ui[owner].open /\ ui'[owner].list = ui[owner].list
        /\ \A f \in Fields \ {owner} : ui'[f] = ui[f]
    BY <1>1, <2>1, ThrobsOn
  <2> QED
    BY <1>1, <2>2
<1>3. /\ requests' \in [Keys -> 0..MaxRequests] /\ requests'[timer] > 0
  <2>1. requests[timer] + 1 \in 0..MaxRequests /\ requests[timer] + 1 > 0
    BY <1>1, AutocompleteAssumption DEF TimerFires, Inv, TypeOK
  <2> QED
    BY <1>1, <2>1 DEF TimerFires, Inv, TypeOK
<1>4. TypeOK'
  BY <1>2, <1>3 DEF TimerFires, Inv, TypeOK
<1>5. OnlyFocusedSearches'
  BY <1>1, <1>2, AutocompleteAssumption, KeyTypes
  DEF TimerFires, Inv, TypeOK, OnlyFocusedSearches
<1>6. CacheHolds' /\ ShownIsWanted' /\ ThrobberMeansWork'
  BY <1>1, <1>2, <1>3
  DEF TimerFires, Inv, CacheHolds, ShownIsWanted, ThrobberMeansWork
<1>7. LatestStep
  BY <1>2, Stutters DEF TimerFires, Question
<1> QED
  BY <1>4, <1>5, <1>6, <1>7 DEF Inv

\* An answer that is not the one that is wanted is only kept.
LEMMA ArrivesStep ==
  ASSUME Inv, NEW k \in Keys, Arrives(k)
  PROVE  Inv' /\ LatestStep
<1> DEFINE u == Found(ui[owner], Answer[k])
           filled == IF searchString = k THEN [ui EXCEPT ![owner] = u] ELSE ui
<1>1. /\ requests[k] > 0 /\ requests' = [requests EXCEPT ![k] = @ - 1]
      /\ cache' = [cache EXCEPT ![k] = [hit |-> TRUE, list |-> Answer[k]]]
      /\ ui' = Throbs(filled, owner, FALSE)
      /\ failed' = FALSE
      /\ UNCHANGED <<focus, due, owner, searchString, timer>>
  BY DEF Arrives
<1>2. /\ cache' \in [Keys -> [hit : BOOLEAN, list : SUBSET Values]]
      /\ requests' \in [Keys -> 0..MaxRequests]
  BY <1>1, KeyTypes, AutocompleteAssumption DEF Inv, TypeOK
<1>3. CacheHolds'
  BY <1>1 DEF Inv, TypeOK, CacheHolds
<1>4. CASE owner = NoField
  <2>1. ui' = ui
    BY <1>1, <1>4, AutocompleteAssumption DEF Throbs, Inv, TypeOK
  <2>2. \A f \in Fields : ~ui[f].open /\ ~ui[f].throbbing /\ ui[f].list = {}
    BY <1>4, AutocompleteAssumption
    DEF Inv, OnlyFocusedSearches, ShownIsWanted
  <2>3. TypeOK'
    BY <1>1, <1>2, <2>1 DEF Inv, TypeOK
  <2>4. OnlyFocusedSearches' /\ ShownIsWanted' /\ ThrobberMeansWork'
    BY <1>1, <2>1, <2>2
    DEF Inv, OnlyFocusedSearches, ShownIsWanted, ThrobberMeansWork
  <2>5. LatestStep
    BY <1>1, <2>1, Stutters DEF Question
  <2> QED
    BY <1>3, <2>3, <2>4, <2>5 DEF Inv
<1>5. CASE owner # NoField
  <2>1. owner \in Fields /\ ui[owner] \in Ui /\ ui \in [Fields -> Ui]
        /\ Answer[k] \in SUBSET Values
    BY <1>5, FieldType, KeyTypes DEF Inv, TypeOK
  <2>2. /\ u \in Ui
        /\ \/ u = ui[owner]
           \/ ~u.open /\ u.list = {}
           \/ ui[owner].open /\ u.open /\ u.list = Answer[k]
    BY <2>1, FoundType
  <2> HIDE DEF u
  <2>3. /\ filled \in [Fields -> Ui]
        /\ \A f \in Fields \ {owner} : filled[f] = ui[f]
        /\ \/ filled[owner] = ui[owner]
           \/ searchString = k /\ filled[owner] = u
    BY <2>1, <2>2
  <2> HIDE DEF filled
  <2>4. /\ ui' \in [Fields -> Ui] /\ ~ui'[owner].throbbing
        /\ ui'[owner].open = filled[owner].open
        /\ ui'[owner].list = filled[owner].list
        /\ \A f \in Fields \ {owner} : ui'[f] = ui[f]
    BY <1>1, <2>1, <2>3, ThrobsOff
  <2>5. TypeOK'
    BY <1>1, <1>2, <2>4 DEF Inv, TypeOK
  <2>6. OnlyFocusedSearches'
    BY <1>1, <2>1, <2>2, <2>3, <2>4 DEF Inv, OnlyFocusedSearches
  <2>7. ThrobberMeansWork'
    <3>1. \A f \in Fields : ~ui'[f].throbbing
      BY <2>4 DEF Inv, OnlyFocusedSearches
    <3> QED
      BY <3>1 DEF ThrobberMeansWork
  <2>8. searchString = k => Key[searchString] = k
    BY AutocompleteAssumption DEF Inv, TypeOK
  <2>9. ShownIsWanted'
    <3>1. \A f \in Fields \ {owner} : ui'[f].list = {}
      BY <2>4 DEF Inv, ShownIsWanted
    <3>2. ui'[owner].list # {} =>
            /\ ui'[owner].open /\ Key[searchString] \in Keys
            /\ ui'[owner].list = Answer[Key[searchString]]
      <4>1. CASE filled[owner] = ui[owner]
        BY <2>1, <2>4, <4>1 DEF Inv, ShownIsWanted
      <4>2. CASE searchString = k /\ filled[owner] = u
        <5>1. \/ ui'[owner].list = {} \/ ui'[owner].list = ui[owner].list
              \/ ui'[owner].list = Answer[k]
          BY <2>2, <2>4, <4>2
        <5>2. ui'[owner].list # {} => ui'[owner].open
          BY <2>1, <2>2, <2>4, <4>2 DEF Inv, ShownIsWanted
        <5> QED
          BY <2>1, <2>8, <4>2, <5>1, <5>2 DEF Inv, ShownIsWanted
      <4> QED
        BY <2>3, <4>1, <4>2
    <3> QED
      BY <1>1, <3>1, <3>2 DEF ShownIsWanted
  <2>10. LatestStep
    <3>1. PICK p \in Fields : p = owner
      BY <2>1
    <3>2. \A f \in Fields \ {p} :
            Question(f)' = Question(f) /\ ui'[f].list = ui[f].list
      BY <1>1, <2>4, <3>1 DEF Question
    <3>3. CASE filled[owner] = ui[owner]
      BY <1>1, <2>4, <3>1, <3>2, <3>3, Stutters DEF Question
    <3>4. CASE searchString = k /\ filled[owner] = u /\ ~u.open /\ u.list = {}
      <4>1. Question(p)' = NoKey /\ ui'[p].list = {}
        BY <2>4, <3>1, <3>4 DEF Question
      <4> QED
        BY <3>2, <4>1, Withdraws
    <3>5. CASE /\ searchString = k /\ filled[owner] = u
               /\ ui[owner].open /\ u.open /\ u.list = Answer[k]
      <4>1. /\ Question(p) = k /\ Question(p)' = k
            /\ ui'[p].list = Answer[k] /\ k # NoKey
        BY <1>1, <2>4, <2>8, <3>1, <3>5, KeyTypes DEF Question
      <4> QED
        BY <3>2, <4>1, Shows
    <3> QED
      BY <2>2, <2>3, <3>3, <3>4, <3>5
  <2> QED
    BY <1>3, <2>5, <2>6, <2>7, <2>9, <2>10 DEF Inv
<1> QED
  BY <1>4, <1>5

LEMMA FailsStep ==
  ASSUME Inv, NEW k \in Keys, Fails(k)
  PROVE  Inv' /\ LatestStep
<1>1. TypeOK'
  BY AutocompleteAssumption DEF Fails, Inv, TypeOK
<1>2. OnlyFocusedSearches' /\ CacheHolds' /\ ShownIsWanted'
      /\ ThrobberMeansWork'
  BY DEF Fails, Inv, OnlyFocusedSearches, CacheHolds, ShownIsWanted,
         ThrobberMeansWork
<1>3. LatestStep
  BY Stutters DEF Fails, Question
<1> QED
  BY <1>1, <1>2, <1>3 DEF Inv
-----------------------------------------------------------------------------
LEMMA InitInv == Init => Inv /\ Latest!Init
<1> SUFFICES ASSUME Init PROVE Inv /\ Latest!Init
  OBVIOUS
<1>1. TypeOK
  <2>1. ui \in [Fields -> Ui]
    BY SelectionTypes, AutocompleteAssumption DEF Init, Ui
  <2>2. /\ cache \in [Keys -> [hit : BOOLEAN, list : SUBSET Values]]
        /\ requests \in [Keys -> 0..MaxRequests]
    BY AutocompleteAssumption DEF Init
  <2> QED
    BY <2>1, <2>2, AutocompleteAssumption DEF Init, TypeOK
<1>2. \A f \in Fields : ~ui[f].open /\ ui[f].list = {} /\ ~ui[f].throbbing
  BY DEF Init
<1>3. OnlyFocusedSearches /\ CacheHolds /\ ShownIsWanted /\ ThrobberMeansWork
  BY <1>2 DEF Init, OnlyFocusedSearches, CacheHolds, ShownIsWanted,
              ThrobberMeansWork
<1>4. Latest!Init
  BY <1>2 DEF Latest!Init, Question
<1> QED
  BY <1>1, <1>3, <1>4 DEF Inv

LEMMA NextInv == Inv /\ [Next]_vars => Inv' /\ LatestStep
<1> SUFFICES ASSUME Inv, [Next]_vars PROVE Inv' /\ LatestStep
  OBVIOUS
<1>1. CASE User
  BY <1>1, FocusStep, UnhighlightStep, HidingSteps, HighlightStep, TypeStep,
     SearchSteps, BlurStep, KeyStep DEF User
<1>2. ASSUME NEW f \in Fields, FadeDone(f) PROVE Inv' /\ LatestStep
  BY <1>2, FadeDoneStep
<1>3. CASE TimerFires
  BY <1>3, TimerStep
<1>4. ASSUME NEW k \in Keys, Answered(k) PROVE Inv' /\ LatestStep
  BY <1>4, ArrivesStep, FailsStep DEF Answered
<1>5. CASE UNCHANGED vars
  <2>1. UNCHANGED <<ui, focus, due, db>>
    BY <1>5 DEF vars
  <2>2. Inv'
    BY <2>1 DEF db, Inv, TypeOK, OnlyFocusedSearches, CacheHolds,
                ShownIsWanted, ThrobberMeansWork
  <2>3. LatestStep
    BY <2>1, Stutters DEF Question, db
  <2> QED
    BY <2>2, <2>3
<1> QED
  BY <1>1, <1>2, <1>3, <1>4, <1>5 DEF Next

LEMMA Invariance == Spec => []Inv
<1>1. Init => Inv
  BY InitInv
<1>2. Inv /\ [Next]_vars => Inv'
  BY NextInv
<1> QED
  BY <1>1, <1>2, PTL DEF Spec

\* The variables of the fields and of their database keep their types.
THEOREM AutocompleteTypes == Spec => []TypeOK
BY Invariance, PTL DEF Inv

\* What a popup shows is the answer to what its field wants, for any number
\* of fields that share a database and requests that overtake each other.
THEOREM PopupsAreRight == Spec => []ShownIsWanted
BY Invariance, PTL DEF Inv

\* Only the field with the focus has a popup, a throbber or a waiting search.
THEOREM FocusIsAlone == Spec => []OnlyFocusedSearches
BY Invariance, PTL DEF Inv

\* A throbber that turns without a request is left over from a failed one.
THEOREM ThrobbersMeanWork == Spec => []ThrobberMeansWork
BY Invariance, PTL DEF Inv

\* The fields and their database implement LatestAnswer.
THEOREM ImplementsLatestAnswer == Spec => ShowsLatestAnswer
<1>1. Init => Latest!Init
  BY InitInv
<1>2. Inv /\ [Next]_vars => LatestStep
  BY NextInv
<1> QED
  BY <1>1, <1>2, Invariance, PTL
  DEF Spec, ShowsLatestAnswer, Latest!Spec, LatestStep
=============================================================================
