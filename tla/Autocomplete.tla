---------------------------- MODULE Autocomplete ----------------------------
(***************************************************************************)
(* The autocomplete text fields of a Drupal form (misc/autocomplete.js).   *)
(* Every field has a popup of its own (Drupal.jsAC); fields that complete  *)
(* from the same path share one database of answers (Drupal.ACDB), with    *)
(* one owner, one wanted string and one timer.  Requests are answered in   *)
(* any order, or not at all; the user goes on typing meanwhile.            *)
(*                                                                         *)
(* A value of a field is a string.  Key[v] is v without the spaces around  *)
(* it, which is what the server is asked for; it is NoKey where nothing is *)
(* searched for, as for "" and for "a,".  Answer[k] is the set of          *)
(* suggestions the server has for k.                                       *)
(***************************************************************************)
EXTENDS Naturals

CONSTANTS
  Fields,       \* the fields that share a database
  NoField,
  Values,       \* what a field can hold
  Empty,        \* "" in Values
  Undefined,    \* "undefined" in Values
  NoKey,
  Key,          \* the key a value is searched for by
  Answer,       \* the suggestions for a key
  MaxRequests   \* bound: unanswered requests for one key

Keys == {Key[v] : v \in Values} \ {NoKey}

ASSUME AutocompleteAssumption ==
  /\ NoField \notin Fields
  /\ Empty \in Values /\ Undefined \in Values /\ NoKey \notin Values
  /\ DOMAIN Key = Values /\ Key[Empty] = NoKey
  /\ \A k \in Keys \cap Values : Key[k] = k
  /\ Answer \in [Keys -> SUBSET (Values \ {Empty})]
  /\ MaxRequests \in Nat

VARIABLES
  ui,            \* what is on the screen and in the jsAC object of a field
  focus,         \* the field with the focus
  due,           \* the key that was pressed and not yet released
  owner,         \* ACDB: the field that searched last
  searchString,  \* ACDB: what it searched for
  timer,         \* ACDB: the key of the delayed search
  cache,         \* ACDB: the answers received
  requests,      \* unanswered requests, by key
  failed         \* for the properties: the last request failed
db == <<owner, searchString, timer, cache, requests, failed>>
vars == <<ui, focus, due, db>>

\* this.selected: an item of the popup, of a popup that fades out, or one
\* that is no longer in the document and has lost its value.
Selection == [on : {"none", "popup", "fading", "gone"}, item : Values]
None == [on |-> "none", item |-> Empty]
Gone == [on |-> "gone", item |-> Empty]

\* list and fading are the items of the popup and of those fading out.
Ui == [value : Values, open : BOOLEAN, list : SUBSET Values,
       selected : Selection, fading : SUBSET Values, throbbing : BOOLEAN]

TypeOK ==
  /\ ui \in [Fields -> Ui]
  /\ focus \in Fields \cup {NoField}
  /\ due \in {"none", "char", "cut", "erase"}
  /\ failed \in BOOLEAN
  /\ owner \in Fields \cup {NoField}
  /\ searchString \in Values
  /\ timer \in Keys \cup {NoKey}
  /\ cache \in [Keys -> [hit : BOOLEAN, list : SUBSET Values]]
  /\ requests \in [Keys -> 0..MaxRequests]

Init ==
  /\ ui = [f \in Fields |-> [value |-> Empty, open |-> FALSE, list |-> {},
             selected |-> None, fading |-> {}, throbbing |-> FALSE]]
  /\ focus = NoField /\ due = "none" /\ failed = FALSE
  /\ owner = NoField /\ searchString = Empty /\ timer = NoKey
  /\ cache = [k \in Keys |-> [hit |-> FALSE, list |-> {}]]
  /\ requests = [k \in Keys |-> 0]
-----------------------------------------------------------------------------
(* What the methods of a field do to it.                                   *)

\* select(): an item that was removed has no autocompleteValue any more.
Chosen(selected) ==
  IF selected.on = "gone" THEN Undefined ELSE selected.item

\* hidePopup(): a popup that was shown fades out, an empty one just goes.
Hidden(u, takes) ==
  [u EXCEPT !.value = IF takes /\ u.selected.on # "none"
                        THEN Chosen(u.selected) ELSE @,
            !.open = FALSE, !.list = {}, !.selected = None,
            !.fading = @ \cup u.list]

\* A mutant: the old suggestions stay until the new ones come.
PopulatedKeepsList(u) == [u EXCEPT !.open = TRUE, !.selected = None]

\* populatePopup(): a new, empty popup in place of the old one.
Populated(u) == [u EXCEPT !.open = TRUE, !.list = {}, !.selected = None]

\* found(): refilling an open popup removes the item that was selected.
Found(u, list) ==
  IF u.value = Empty \/ ~u.open THEN u
  ELSE IF list = {} THEN Hidden(u, TRUE)
  ELSE [u EXCEPT !.list = list,
                 !.selected = IF @.on = "popup" THEN Gone ELSE @]

\* setStatus(), called on the owner.
Throbs(u, f, on) == [u EXCEPT ![f].throbbing = on]
-----------------------------------------------------------------------------
(* The user.                                                               *)

Focus(f) ==
  /\ focus = NoField
  /\ focus' = f
  /\ UNCHANGED <<ui, due, db>>

\* A mutant: the search that is waiting is not cancelled.
BlurKeepsTimer ==
  /\ focus # NoField
  /\ LET hidden == [ui EXCEPT ![focus] = Hidden(@, TRUE)]
     IN  ui' = IF owner = NoField THEN hidden ELSE Throbs(hidden, owner, FALSE)
  /\ failed' = FALSE
  /\ searchString' = Empty
  /\ focus' = NoField
  /\ UNCHANGED <<due, owner, timer, cache, requests>>

\* The blur handler: hidePopup(), then cancel().
Blur ==
  /\ focus # NoField
  /\ LET hidden == [ui EXCEPT ![focus] = Hidden(@, TRUE)]
     IN  ui' = IF owner = NoField THEN hidden ELSE Throbs(hidden, owner, FALSE)
  /\ failed' = FALSE
  /\ timer' = NoKey /\ searchString' = Empty
  /\ focus' = NoField
  /\ UNCHANGED <<due, owner, cache, requests>>

\* The browser changes the value before the key is released.
Type(v) ==
  /\ focus # NoField /\ due = "none"
  /\ v # ui[focus].value
  /\ ui' = [ui EXCEPT ![focus].value = v]
  /\ due' \in IF v = Empty THEN {"cut", "erase"} ELSE {"char", "erase"}
  /\ UNCHANGED <<focus, db>>

\* A key that leaves the value as it is, such as Insert.
Press ==
  /\ focus # NoField /\ due = "none"
  /\ due' = "char"
  /\ UNCHANGED <<ui, focus, db>>

\* The key is released in no field, or over an empty one: hidePopup(key).
ReleaseElsewhere ==
  /\ due # "none" /\ focus = NoField
  /\ due' = "none"
  /\ UNCHANGED <<ui, focus, db>>

ReleaseOnEmpty ==
  /\ due # "none" /\ focus # NoField
  /\ ui[focus].value = Empty
  /\ due' = "none"
  /\ ui' = [ui EXCEPT ![focus] = Hidden(@, due # "erase")]
  /\ UNCHANGED <<focus, db>>

\* populatePopup() and, in it, db.search().
Search(k) ==
  /\ due # "none" /\ focus # NoField
  /\ ui[focus].value # Empty /\ Key[ui[focus].value] = k
  /\ due' = "none"
  /\ owner' = focus
  /\ searchString' = ui[focus].value
  /\ UNCHANGED <<focus, cache, requests, failed>>

SearchNothing ==
  /\ Search(NoKey)
  /\ ui' = [ui EXCEPT ![focus] = Populated(@)]
  /\ UNCHANGED timer

SearchCache(k) ==
  /\ Search(k) /\ cache[k].hit
  /\ ui' = [ui EXCEPT ![focus] = Found(Populated(@), cache[k].list)]
  /\ UNCHANGED timer

SearchLater(k) ==
  /\ Search(k) /\ ~cache[k].hit
  /\ ui' = [ui EXCEPT ![focus] = Populated(@)]
  /\ timer' = k

\* Enter, Tab and Esc; a mouse button pressed on an item acts like Enter.
Dismiss(takes) ==
  /\ focus # NoField
  /\ ui' = [ui EXCEPT ![focus] = Hidden(@, takes)]
  /\ UNCHANGED <<focus, due, db>>

\* The arrows and the mouse move over the items, the mouse also over those
\* of a popup that fades out.
Highlight(f, item) ==
  /\ \/ /\ item \in ui[f].list
        /\ ui' = [ui EXCEPT ![f].selected = [on |-> "popup", item |-> item]]
     \/ /\ item \in ui[f].fading
        /\ ui' = [ui EXCEPT ![f].selected = [on |-> "fading", item |-> item]]
  /\ UNCHANGED <<focus, due, db>>

Unhighlight(f) ==
  /\ ui[f].selected.on \in {"popup", "fading"}
  /\ ui' = [ui EXCEPT ![f].selected = None]
  /\ UNCHANGED <<focus, due, db>>

\* The submit handler finds the element of a popup: the form is not submitted
\* but hidePopup() is called.  Where it finds none the page is left.
SubmitStopped(f) ==
  /\ ui[f].open \/ ui[f].fading # {}
  /\ ui' = [ui EXCEPT ![f] = Hidden(@, TRUE)]
  /\ UNCHANGED <<focus, due, db>>

User ==
  \/ \E f \in Fields : Focus(f) \/ Unhighlight(f) \/ SubmitStopped(f)
  \/ \E f \in Fields, item \in Values : Highlight(f, item)
  \/ \E v \in Values \ {Undefined} : Type(v)
  \/ \E takes \in BOOLEAN : Dismiss(takes)
  \/ \E k \in Keys : SearchCache(k) \/ SearchLater(k)
  \/ Blur \/ Press \/ ReleaseElsewhere \/ ReleaseOnEmpty \/ SearchNothing
-----------------------------------------------------------------------------
(* The browser and the server.                                             *)

FadeDone(f) ==
  /\ ui[f].fading # {}
  /\ ui' = [ui EXCEPT ![f].fading = {},
                      ![f].selected = IF @.on = "fading" THEN Gone ELSE @]
  /\ UNCHANGED <<focus, due, db>>

TimerFires ==
  /\ timer # NoKey
  /\ requests[timer] < MaxRequests
  /\ ui' = Throbs(ui, owner, TRUE)
  /\ requests' = [requests EXCEPT ![timer] = @ + 1]
  /\ timer' = NoKey
  /\ failed' = FALSE
  /\ UNCHANGED <<focus, due, owner, searchString, cache>>

\* Mutants: the answer is shown whatever is wanted by now, is only kept, leaves
\* the throbber on.
ArrivesForAny(k) ==
  /\ requests[k] > 0
  /\ requests' = [requests EXCEPT ![k] = @ - 1]
  /\ cache' = [cache EXCEPT ![k] = [hit |-> TRUE, list |-> Answer[k]]]
  /\ ui' = Throbs([ui EXCEPT ![owner] = Found(@, Answer[k])], owner, FALSE)
  /\ failed' = FALSE
  /\ UNCHANGED <<focus, due, owner, searchString, timer>>

ArrivesUnseen(k) ==
  /\ requests[k] > 0
  /\ requests' = [requests EXCEPT ![k] = @ - 1]
  /\ cache' = [cache EXCEPT ![k] = [hit |-> TRUE, list |-> Answer[k]]]
  /\ ui' = Throbs(ui, owner, FALSE)
  /\ failed' = FALSE
  /\ UNCHANGED <<focus, due, owner, searchString, timer>>

ArrivesThrobbing(k) ==
  /\ requests[k] > 0
  /\ requests' = [requests EXCEPT ![k] = @ - 1]
  /\ cache' = [cache EXCEPT ![k] = [hit |-> TRUE, list |-> Answer[k]]]
  /\ ui' = IF searchString = k
              THEN [ui EXCEPT ![owner] = Found(@, Answer[k])] ELSE ui
  /\ failed' = FALSE
  /\ UNCHANGED <<focus, due, owner, searchString, timer>>

\* The answer is kept under the key it was asked for; the popup gets it only
\* when what is wanted now is that very string.
Arrives(k) ==
  /\ requests[k] > 0
  /\ requests' = [requests EXCEPT ![k] = @ - 1]
  /\ cache' = [cache EXCEPT ![k] = [hit |-> TRUE, list |-> Answer[k]]]
  /\ LET filled == IF searchString = k
                     THEN [ui EXCEPT ![owner] = Found(@, Answer[k])] ELSE ui
     IN  ui' = Throbs(filled, owner, FALSE)
  /\ failed' = FALSE
  /\ UNCHANGED <<focus, due, owner, searchString, timer>>

\* A mutant: a request fails that was never made.
FailsUnasked(k) ==
  /\ requests' = [requests EXCEPT ![k] = @ - 1]
  /\ failed' = TRUE
  /\ UNCHANGED <<ui, focus, due, owner, searchString, timer, cache>>

\* An error, or an answer with status 0: nobody calls setStatus('error').
Fails(k) ==
  /\ requests[k] > 0
  /\ requests' = [requests EXCEPT ![k] = @ - 1]
  /\ failed' = TRUE
  /\ UNCHANGED <<ui, focus, due, owner, searchString, timer, cache>>

Answered(k) == Arrives(k) \/ Fails(k)

Next ==
  \/ User
  \/ \E f \in Fields : FadeDone(f)
  \/ TimerFires
  \/ \E k \in Keys : Answered(k)

\* Timers fire, effects end and the server answers; the user owes nothing.
Fairness ==
  /\ WF_vars(TimerFires)
  /\ \A k \in Keys : WF_vars(Answered(k))
  /\ \A f \in Fields : WF_vars(FadeDone(f))

Spec == Init /\ [][Next]_vars /\ Fairness
-----------------------------------------------------------------------------
(* Properties.                                                             *)

\* What a popup shows is open, belongs to the field that searched last, and
\* is the server's answer to what that field wants, however late and in
\* whatever order the answers came.
ShownIsWanted ==
  \A f \in Fields : ui[f].list # {} =>
    /\ ui[f].open /\ owner = f
    /\ Key[searchString] \in Keys /\ ui[f].list = Answer[Key[searchString]]

\* Fields share a database, but nothing goes on in a field without the focus:
\* no popup stays open, no throbber turns and no search is waiting.
OnlyFocusedSearches ==
  /\ \A f \in Fields : ui[f].open \/ ui[f].throbbing => focus = f /\ owner = f
  /\ timer # NoKey => focus = owner /\ focus # NoField

\* The throbber turns while the server has something to answer, or after a
\* request failed: nothing stops it then.
ThrobberMeansWork ==
  \A f \in Fields : ui[f].throbbing => failed \/ \E k \in Keys : requests[k] > 0

\* Every field shows nothing or the answer to the last question.
Question(f) == IF ui[f].open THEN Key[searchString] ELSE NoKey
Latest == INSTANCE LatestAnswer WITH
  Parts <- Fields, NoQuestion <- NoKey, Nothing <- {},
  asked <- [f \in Fields |-> Question(f)],
  shown <- [f \in Fields |-> ui[f].list]
ShowsLatestAnswer == Latest!Spec

\* The field waits for the server's answer to what it searches for.
Searching(f) ==
  /\ ui[f].open /\ Key[searchString] \in Keys
  /\ timer = Key[searchString] \/ requests[Key[searchString]] > 0

\* It is no longer waiting: the suggestions are shown, the popup is closed, for
\* nothing was found or the user left it, another key is on its way, or the
\* request failed.
Settled(f) == ui[f].list # {} \/ ~ui[f].open \/ due # "none" \/ failed

\* A search for a string without spaces around it comes to its end.
SearchEnds ==
  \A f \in Fields : Searching(f) /\ searchString = Key[searchString] ~> Settled(f)

\* "Puts the currently highlighted suggestion into the autocomplete field."
\* (misc/autocomplete.js:113)
SelectionIsSuggestion == \A f \in Fields : ui[f].value # Undefined
=============================================================================
