------------------------------ MODULE AjaxForm ------------------------------
(***************************************************************************)
(* A Drupal form whose elements submit it in the background: the browser's *)
(* side (public/misc/ajax.js) and the form cache it talks to               *)
(* (public/includes/ajax.inc and form.inc).                                *)
(*                                                                         *)
(* The same form is open on several Pages, each of a different visitor.    *)
(* With the page cache on they may all have been served the same HTML, and *)
(* so the same form build id.  An element of the form posts the build id   *)
(* of its page; the server loads the cached form of that id, runs the      *)
(* step, stores the rebuilt form and answers with markup for the element's *)
(* wrapper and, when the id changed, with the new one.  A button of the    *)
(* form may submit it: then the server deletes the cached form and stores  *)
(* it again before it answers.                                             *)
(*                                                                         *)
(* A step is <<page, n>>, the n-th request of all, made by the page, and   *)
(* the data of a form is the set of the steps it was built from.  A random *)
(* build id is the step that generated it, and <<page, 0>> is the one of   *)
(* the HTML made for the page.  The visitor of a page is logged in while   *)
(* the count session[page] of logins and logouts is odd; the token that a  *)
(* session gives to the forms it stores is the set Token(page, count),     *)
(* empty for the anonymous.                                                *)
(***************************************************************************)
EXTENDS Naturals, FiniteSets

CONSTANTS
    Pages,      \* the pages that show the form
    Elements,   \* the elements of the form that have #ajax
    Wrappers,   \* the parts of the form that answers replace
    Wrapper,    \* Wrapper[e]: the one that the answers to e replace
    Holds,      \* Holds[w]: the elements inside the wrapper w
    MaxSends,   \* how many requests the pages make in all
    MaxSessions \* up to which count a visitor logs in and out

ASSUME AjaxFormAssumption ==
    /\ Wrapper \in [Elements -> Wrappers]
    /\ Holds \in [Wrappers -> SUBSET Elements]
    /\ MaxSends \in Nat
    /\ MaxSessions \in Nat \ {0}

VARIABLES
    pageCache,  \* whether the page cache is on: variable_get('cache', 0)
    forms,      \* forms[id]: the entry of cache_form
    jobs,       \* the PHP requests that run
    answers,    \* the responses on their way
    calls,      \* the XMLHttpRequests the pages wait for
    made,       \* made[p][e]: how often the page has replaced the element e
    ajaxing,    \* the ajax objects whose flag ajaxing is set, which are
                \* those whose element is disabled
    progress,   \* the ajax objects whose throbber is on the page
    attached,   \* the pages whose form has its behaviors
    buildId,    \* buildId[p]: the hidden input form_build_id
    shown,      \* shown[p][w]: the steps behind what the wrapper shows
    session,    \* session[p]: the logins and logouts of the page's visitor
    sends,      \* how many requests have been made
    apart,      \* history: the pages whose requests never overlapped
    steady      \* history: the pages whose visitor never logged in or out

server == <<pageCache, forms, jobs, answers>>
objects == <<ajaxing, progress>>
page == <<made, attached, buildId, shown>>
visits == <<session, steady>>
vars == <<server, calls, objects, page, visits, sends, apart>>

Steps == Pages \X (1 .. MaxSends)
BuildIds == Pages \X (0 .. MaxSends)
Objects == [page : Pages, element : Elements, nth : Nat]
Calls == [object : Objects, step : Steps]
Tokens == SUBSET (Pages \X (0 .. MaxSessions))
Entries == [status : {"none", "stored", "cleared", "lost", "expired"},
            immutable : BOOLEAN, token : Tokens, steps : SUBSET Steps]
Jobs == [step : Steps, at : {"posted", "loaded", "cleared"}, old : BuildIds,
         id : BuildIds, token : Tokens, steps : SUBSET Steps]
Answers == [step : Steps, old : BuildIds, id : BuildIds, steps : SUBSET Steps]

(* drupal_get_token, which only the forms of those logged in carry.        *)
Token(p, n) == IF n % 2 = 1 THEN {<<p, n>>} ELSE {}

Entry(status, immutable, token, steps) ==
    [status |-> status, immutable |-> immutable, token |-> token,
     steps |-> steps]

(* With the page cache on, anonymous visitors may be served the HTML, and  *)
(* so the id, that was made for the first of them, and form_set_cache has  *)
(* marked its form.  A page of one's own has a form of its own.            *)
Init ==
    /\ pageCache \in BOOLEAN
    /\ session \in [Pages -> {0, 1}]
    /\ \E common \in SUBSET {p \in Pages : session[p] = 0}, first \in Pages :
        LET served(p) == IF p \in common THEN <<first, 0>> ELSE <<p, 0>>
        IN  /\ common # {} => first \in common /\ pageCache
            /\ buildId = [p \in Pages |-> served(p)]
            /\ forms = [i \in BuildIds |->
                 IF \E p \in Pages : i = served(p)
                 THEN Entry("stored", i[1] \in common,
                            Token(i[1], session[i[1]]), {})
                 ELSE Entry("none", FALSE, {}, {})]
    /\ jobs = {} /\ answers = {} /\ calls = {}
    /\ made = [p \in Pages |-> [e \in Elements |-> 0]]
    /\ ajaxing = {} /\ progress = {}
    /\ attached = Pages
    /\ shown = [p \in Pages |-> [w \in Wrappers |-> {}]]
    /\ sends = 0
    /\ apart = Pages /\ steady = Pages

(* The ajax object that the element e of the page p has now.               *)
Current(p, e) == [page |-> p, element |-> e, nth |-> made[p][e]]

Waiting(p) == \E c \in calls : c.object.page = p
Working(p) == \E j \in jobs : j.step[1] = p

-----------------------------------------------------------------------------
(* The browser.                                                            *)

(* The request that arrives at the server.                                 *)
Posted(step, id, token) ==
    [step |-> step, at |-> "posted", old |-> id, id |-> id, token |-> token,
     steps |-> {}]

(* beforeSerialize, beforeSubmit and beforeSend, and the request is sent.  *)
Sends(o, step) ==
    /\ attached' = attached \ {o.page}
    /\ ajaxing' = ajaxing \cup {o}
    /\ progress' = progress \cup {o}
    /\ calls' = calls \cup {[object |-> o, step |-> step]}
    /\ jobs' = jobs \cup {Posted(step, buildId[o.page],
                                    Token(o.page, session[o.page]))}

(* A mutant: the flag does not stop a second request.                      *)
EventResponseAgain(p, e) ==
    /\ sends < MaxSends
    /\ Sends(Current(p, e), <<p, sends + 1>>)
    /\ sends' = sends + 1
    /\ apart' = IF Waiting(p) \/ Working(p) THEN apart \ {p} ELSE apart
    /\ UNCHANGED <<pageCache, forms, answers, made, buildId, shown, visits>>

(* The user's event on an element whose ajax object is idle.               *)
EventResponse(p, e) ==
    /\ Current(p, e) \notin ajaxing
    /\ sends < MaxSends
    /\ Sends(Current(p, e), <<p, sends + 1>>)
    /\ sends' = sends + 1
    /\ apart' = IF Waiting(p) \/ Working(p) THEN apart \ {p} ELSE apart
    /\ UNCHANGED <<pageCache, forms, answers, made, buildId, shown, visits>>

(* A mutant: the behaviors are attached to the element, not to its form.   *)
ReturnsToElement(c) ==
    /\ calls' = calls \ {c}
    /\ answers' = {a \in answers : a.step # c.step}
    /\ ajaxing' = ajaxing \ {c.object}
    /\ attached' = attached \cup {c.object.element}

(* What success and error share: the element is given back, and complete   *)
(* clears the flag.                                                        *)
Returns(c) ==
    /\ calls' = calls \ {c}
    /\ answers' = {a \in answers : a.step # c.step}
    /\ ajaxing' = ajaxing \ {c.object}
    /\ attached' = attached \cup {c.object.page}

(* A mutant: the command is dropped from the answer.                       *)
UpdateBuildIdLost(p, a) == UNCHANGED buildId

(* The command updateBuildId finds the input by the old id.                *)
UpdateBuildId(p, a) ==
    buildId' = [buildId EXCEPT ![p] = IF @ = a.old THEN a.id ELSE @]

(* The command insert replaces what is in the wrapper, the elements there  *)
(* with the throbbers beside them, and attaches the behaviors to the new   *)
(* content: these elements get new ajax objects.                           *)
Insert(p, w, a) ==
    /\ shown' = [shown EXCEPT ![p][w] = a.steps]
    /\ made' = [made EXCEPT ![p] = [e \in Elements |->
                   IF e \in Holds[w] THEN @[e] + 1 ELSE @[e]]]

Beside(p, w) == {o \in progress : o.page = p /\ o.element \in Holds[w]}

(* An element that was itself replaced may find no wrapper of its name.    *)
Success(c, a) ==
    LET p == c.object.page
        w == Wrapper[c.object.element]
    IN  /\ a.step = c.step
        /\ Returns(c)
        /\ UpdateBuildId(p, a)
        /\ \/ /\ Insert(p, w, a)
              /\ progress' = progress \ ({c.object} \cup Beside(p, w))
           \/ /\ c.object # Current(p, c.object.element)
              /\ progress' = progress \ {c.object}
              /\ UNCHANGED <<shown, made>>
        /\ UNCHANGED <<pageCache, forms, jobs, visits, sends, apart>>

(* A mutant: an error does not attach the behaviors again.                 *)
ErrorDetached(c) ==
    /\ calls' = calls \ {c}
    /\ answers' = {a \in answers : a.step # c.step}
    /\ ajaxing' = ajaxing \ {c.object}
    /\ progress' = progress \ {c.object}
    /\ UNCHANGED <<pageCache, forms, jobs, page, visits, sends, apart>>

(* The request failed, or its answer cannot be parsed or verified.  What   *)
(* the server has begun goes on.  An empty answer, of a request that was   *)
(* refused, leaves the page the same way: success without a command.       *)
Error(c) ==
    /\ Returns(c)
    /\ progress' = progress \ {c.object}
    /\ UNCHANGED <<pageCache, forms, jobs, made, buildId, shown, visits, sends,
                   apart>>

(* The visitor logs in or out in another tab.                              *)
LoginOrLogout(p) ==
    /\ session[p] < MaxSessions
    /\ session' = [session EXCEPT ![p] = @ + 1]
    /\ steady' = steady \ {p}
    /\ UNCHANGED <<server, calls, objects, page, sends, apart>>

-----------------------------------------------------------------------------
(* The server.                                                             *)

browser == <<calls, objects, page, visits, sends, apart>>

(* A mutant: a form of the page cache keeps its build id.                  *)
LoadedShared(j, token) ==
    [step |-> j.step, at |-> "loaded", old |-> j.old, id |-> j.old,
     token |-> token, steps |-> forms[j.old].steps]

(* form_get_cache gives a form that was rendered on a cacheable page a new *)
(* build id.                                                               *)
Loaded(j, token) ==
    [step |-> j.step, at |-> "loaded", old |-> j.old,
     id |-> IF forms[j.old].immutable THEN j.step ELSE j.old,
     token |-> token, steps |-> forms[j.old].steps]

(* Whom the server takes the request to come from: the session it was      *)
(* posted with, or nobody when that session has ended meanwhile.           *)
Users(j) == {j.token, j.token \cap Token(j.step[1], session[j.step[1]])}

(* form_get_cache has the form, and it was stored by the same session.     *)
Found(j, token) ==
    /\ forms[j.old].status = "stored"
    /\ forms[j.old].token = token

(* ajax_get_form, of a form that is in the cache.                          *)
AjaxGetForm(j) ==
    /\ j.at = "posted"
    /\ \E token \in Users(j) :
         /\ Found(j, token)
         /\ jobs' = (jobs \ {j}) \cup {Loaded(j, token)}
    /\ UNCHANGED <<pageCache, forms, answers, browser>>

(* ajax_get_form: no such form.  "Invalid form POST data", and nothing is  *)
(* answered that a page could use.                                         *)
Refuse(j) ==
    /\ j.at = "posted"
    /\ \E token \in Users(j) : ~Found(j, token)
    /\ jobs' = jobs \ {j}
    /\ UNCHANGED <<pageCache, forms, answers, browser>>

(* drupal_process_form, of a button that submits the form, without errors: *)
(* the submit handlers have run, and the cached form is deleted.           *)
Submit(j) ==
    /\ j.at = "loaded"
    /\ ~pageCache
    /\ forms' = [forms EXCEPT ![j.id] = Entry("cleared", FALSE, {}, {})]
    /\ jobs' = (jobs \ {j}) \cup {[j EXCEPT !.at = "cleared"]}
    /\ UNCHANGED <<pageCache, answers, browser>>

(* The form that the request answers with, and its answer, which reaches a *)
(* page that waits.                                                        *)
Rendered(j, rebuilt) == IF rebuilt THEN j.steps \cup {j.step} ELSE j.steps
Answer(j, steps) ==
    {[step |-> c.step, old |-> j.old, id |-> j.id, steps |-> steps] :
        c \in {d \in calls : d.step = j.step}}

(* A mutant: only a form that is rebuilt is stored.                        *)
AjaxFormCallbackUnstored(j) ==
    \E rebuilt \in BOOLEAN :
        LET steps == Rendered(j, rebuilt)
        IN  /\ j.at # "posted"
            /\ forms' = IF rebuilt
                        THEN [forms EXCEPT ![j.id] =
                                Entry("stored", FALSE, j.token, steps)]
                        ELSE forms
            /\ jobs' = jobs \ {j}
            /\ answers' = answers \cup Answer(j, steps)
            /\ UNCHANGED <<pageCache, browser>>

(* ajax_form_callback: drupal_process_form rebuilds the form with the step *)
(* or, after errors and after handlers that ask for no other step, keeps   *)
(* it as it was, and form_set_cache stores it in either case.              *)
AjaxFormCallback(j) ==
    \E rebuilt \in BOOLEAN :
        LET steps == Rendered(j, rebuilt)
        IN  /\ j.at # "posted"
            /\ forms' = [forms EXCEPT ![j.id] =
                           Entry("stored", FALSE, j.token, steps)]
            /\ jobs' = jobs \ {j}
            /\ answers' = answers \cup Answer(j, steps)
            /\ UNCHANGED <<pageCache, browser>>

(* PHP dies, or the submit handlers set a batch, whose pages end the       *)
(* request: a form that was deleted stays so.                              *)
Dies(j) ==
    /\ jobs' = jobs \ {j}
    /\ forms' = IF j.at = "cleared" /\ forms[j.id].status = "cleared"
                THEN [forms EXCEPT ![j.id] = Entry("lost", FALSE, {}, {})]
                ELSE forms
    /\ UNCHANGED <<pageCache, answers, browser>>

(* Six hours after form_set_cache the entry is gone.                       *)
Expire(i) ==
    /\ forms[i].status = "stored"
    /\ forms' = [forms EXCEPT ![i] =
                   Entry("expired", forms[i].immutable, {}, {})]
    /\ UNCHANGED <<pageCache, jobs, answers, browser>>

Next ==
    \/ \E p \in Pages, e \in Elements : EventResponse(p, e)
    \/ \E c \in calls, a \in answers : Success(c, a)
    \/ \E c \in calls : Error(c)
    \/ \E p \in Pages : LoginOrLogout(p)
    \/ \E j \in jobs : AjaxGetForm(j)
    \/ \E j \in jobs : Refuse(j)
    \/ \E j \in jobs : Submit(j)
    \/ \E j \in jobs : AjaxFormCallback(j)
    \/ \E j \in jobs : Dies(j)
    \/ \E i \in BuildIds : Expire(i)

Spec == Init /\ [][Next]_vars

-----------------------------------------------------------------------------
(* The variables have their types.                                         *)
TypeOK ==
    /\ pageCache \in BOOLEAN
    /\ forms \in [BuildIds -> Entries]
    /\ jobs \subseteq Jobs
    /\ answers \subseteq Answers
    /\ calls \subseteq Calls
    /\ made \in [Pages -> [Elements -> Nat]]
    /\ ajaxing \subseteq Objects
    /\ progress \subseteq Objects
    /\ attached \subseteq Pages
    /\ buildId \in [Pages -> BuildIds]
    /\ shown \in [Pages -> [Wrappers -> SUBSET Steps]]
    /\ session \in [Pages -> 0 .. MaxSessions]
    /\ sends \in 0 .. MaxSends
    /\ apart \subseteq Pages /\ steady \subseteq Pages

(* An ajax object waits for one request at most, and its flag is set, and  *)
(* its element disabled, exactly while it does; the throbbers on the page  *)
(* are those of the elements on the page that wait.  So it stays whatever  *)
(* the order in which the requests of a form are answered, fail or replace *)
(* one another's elements.                                                 *)
WaitingIsShown ==
    /\ ajaxing = {c.object : c \in calls}
    /\ progress = {o \in ajaxing : o = Current(o.page, o.element)}
    /\ \A c, d \in calls : c.object = d.object => c = d

(* A form that no request is out for has its behaviors: those that any of  *)
(* its requests detached to be serialized have been attached again.        *)
BehaviorsReturn ==
    \A p \in Pages : p \in attached \/ Waiting(p)

(* The steps of one visitor are never in the form of another, neither in   *)
(* what the page shows nor in the cached form its next request would load, *)
(* although both may have been served the same build id.                   *)
Isolated ==
    \A p \in Pages :
        /\ \A w \in Wrappers : \A s \in shown[p][w] : s[1] = p
        /\ \A s \in forms[buildId[p]].steps : s[1] = p

(* A build id that a page holds is one the server stored.  A form that a   *)
(* submission has deleted is about to be stored again, unless the request  *)
(* dies; and a form that is stored is that of the page's visitor, unless   *)
(* they logged in or out.  So nothing else has a request refused before    *)
(* its form expires.                                                       *)
FormIsKnown ==
    /\ \A p \in Pages :
        LET f == forms[buildId[p]]
        IN  /\ f.status # "none"
            /\ f.status = "cleared" =>
                  \E j \in jobs : j.at = "cleared" /\ j.id = buildId[p]
            /\ f.status = "stored" /\ p \in steady =>
                  f.token = Token(p, session[p])
    /\ \A j \in jobs : forms[j.old].status # "none"

(* While the requests of a page never overlap, every step behind what it   *)
(* shows is in the cached form its next request would load, whenever one   *)
(* is stored: also after requests that failed in the browser and went on   *)
(* in the server, and after submissions that deleted it.                   *)
ShownIsCached ==
    \A p \in apart :
        forms[buildId[p]].status = "stored" =>
            \A w \in Wrappers : shown[p][w] \subseteq forms[buildId[p]].steps

(* The form of a page in the page cache is never altered, only forgotten:  *)
(* each visitor of that page starts from the form as it was rendered.      *)
ImmutableIsKept ==
    [][\A i \in BuildIds :
          forms[i].status = "stored" /\ forms[i].immutable =>
              forms'[i] = forms[i] \/ forms'[i].status = "expired"]_vars
=============================================================================
